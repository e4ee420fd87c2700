------------------------------ MODULE Listings ------------------------------
(***************************************************************************)
(* The listings table and everything that writes a row of it: the parse    *)
(* workers, which upsert what the parser made of a message; the normalize  *)
(* mode of ops/reprocess.js, which reads a batch of rows and writes them   *)
(* back one by one; a user who reports a listing as wrong; and the reparse *)
(* route, which deletes the user's rows.  The script at the end of         *)
(* message-parser.js, which fills the SQLite file of the legacy scraper,   *)
(* is left out.                                                            *)
(*                                                                         *)
(* Nothing locks a row between these writers.  Which jobs reach a worker   *)
(* and when is the subject of ParsePipeline; here a job for any stored     *)
(* message may be delivered at any time (first delivery, retry, reaper,    *)
(* reprocess --full, reparse), up to the Budget.                           *)
(***************************************************************************)
EXTENDS DualParser

CONSTANTS
  Messages,   \* raw_messages ids of one user
  Workers,    \* parse workers
  Texts,      \* what a message can say
  Budget      \* bound of the model on runs, flags, passes and reparses

Bounded == {"run", "flag", "pass", "reparse"}

Keys == [groq : BOOLEAN, gemini : BOOLEAN]

ASSUME TextsAssumption == \A t \in Texts : IsText(t)

ASSUME BudgetAssumption == Budget \in [Bounded -> Nat]

VARIABLES
  text,     \* raw_messages.text: never changes
  keys,     \* which API keys the workers were started with: never changes
  row,      \* rows of listings by raw_message_id; id 0: no row
  nextId,   \* the next id of a row
  worker,   \* what each worker has parsed and not yet saved
  pass,     \* the rows a normalize pass has read and not yet written back
  used      \* how much of the Budget is used

vars == <<text, keys, row, nextId, worker, pass, used>>

(***************************************************************************)
(* The table has no columns for is_listing and parking.                    *)
(***************************************************************************)
Stored(p) == [p EXCEPT !.isListing = "unknown", !.parking = FALSE]
NoRow     == [id |-> 0, listing |-> Stored(Empty)]
Exists(m) == row[m].id # 0

(* informed: a language model answered at least one call (history). *)
Idle == [message |-> "none", parsed |-> Empty, informed |-> FALSE]

Init ==
  /\ text \in [Messages -> Texts]
  /\ keys \in Keys
  /\ row = [m \in Messages |-> NoRow]
  /\ nextId = 1
  /\ worker = [w \in Workers |-> Idle]
  /\ pass = {}
  /\ used = [e \in Bounded |-> 0]

Use(e) ==
  /\ used[e] < Budget[e]
  /\ used' = [used EXCEPT ![e] = @ + 1]

-----------------------------------------------------------------------------
(* The parse worker: processOne from the claim to the upsert *)

(***************************************************************************)
(* What parsing and normalizing a text can end in, with the models' replies *)
(* to the first call, to Gemini and to the second call, unless it throws.   *)
(***************************************************************************)
ParseResults ==
  [t \in Texts |-> [k \in Keys |->
    {[ parsed   |-> Normalize(DualParse(t, k, groq, gemini, again), t),
       informed |-> k.groq /\ \E reply \in {groq, gemini, again} : Usable(reply) ]
     : groq \in Replies, gemini \in {g \in Replies : ~ParseThrows(t, k, g)},
       again \in Replies}]]

(***************************************************************************)
(* Parsing awaits the models but reads nothing that changes, so it is one  *)
(* step that ends with the result in the worker's hands.                   *)
(***************************************************************************)
ParseMessage(w, m) ==
  /\ worker[w] = Idle
  /\ Use("run")
  /\ \E result \in ParseResults[text[m]][keys] :
       worker' = [worker EXCEPT ![w] = [ message  |-> m,
                                         parsed   |-> result.parsed,
                                         informed |-> result.informed ]]
  /\ UNCHANGED <<text, keys, row, nextId, pass>>

(* The job fails and is retried or buried (ParsePipeline). *)
ParseFails(w, m) ==
  /\ worker[w] = Idle
  /\ Use("run")
  /\ \E gemini \in Replies : ParseThrows(text[m], keys, gemini)
  /\ UNCHANGED <<text, keys, row, nextId, worker, pass>>

(***************************************************************************)
(* The UPSERT overwrites every derived column, quarantine_reason and       *)
(* confidence too; a new row gets a new id.                                *)
(***************************************************************************)
Save(w) ==
  LET m == worker[w].message IN
  /\ worker[w] # Idle
  /\ row' = [row EXCEPT ![m] =
       [ id      |-> IF Exists(m) THEN @.id ELSE nextId,
         listing |-> Stored(worker[w].parsed) ]]
  /\ nextId' = IF Exists(m) THEN nextId ELSE nextId + 1
  /\ worker' = [worker EXCEPT ![w] = Idle]
  /\ UNCHANGED <<text, keys, pass, used>>

-----------------------------------------------------------------------------
(* ops/reprocess.js, normalize mode *)

(***************************************************************************)
(* The SELECT takes the rows the filter names.                             *)
(***************************************************************************)
ReadListings ==
  /\ pass = {}
  /\ Use("pass")
  /\ \E chosen \in (SUBSET {m \in Messages : Exists(m)}) \ {{}} :
       pass' = {[message |-> m, row |-> row[m]] : m \in chosen}
  /\ UNCHANGED <<text, keys, row, nextId, worker>>

(* The pass counts parking from the text and knows no is_listing. *)
Renormalized(listing, t) ==
  Stored(Normalize([listing EXCEPT !.isListing = "unknown", !.parking = HasParking(t)], t))

(* changed, for the compared columns: by value, and sets without order. *)
Compared == {"price", "furnished", "amenities", "place", "conf", "reason"}
Changed(before, after) == \E f \in Compared : before[f] # after[f]

(***************************************************************************)
(* A row is written back when anything differs from what was read, and     *)
(* then all its normalized columns are; intent, rent_period, bedrooms,     *)
(* unit_type and agent_phone are not written.  The group's name, not kept  *)
(* here, may have been missing and be known by now.  An id that is gone    *)
(* matches no row.                                                         *)
(***************************************************************************)
WriteBack(s) ==
  LET m       == s.message
      derived == Renormalized(s.row.listing, text[m])
  IN
  /\ \E named \in BOOLEAN :
     row' = IF (Changed(s.row.listing, derived) \/ named) /\ row[m].id = s.row.id
            THEN [row EXCEPT ![m].listing = [@ EXCEPT
                               !.price     = derived.price,
                               !.currency  = derived.currency,
                               !.furnished = derived.furnished,
                               !.amenities = derived.amenities,
                               !.place     = derived.place,
                               !.conf      = derived.conf,
                               !.reason    = derived.reason]]
            ELSE row
  /\ pass' = pass \ {s}
  /\ UNCHANGED <<text, keys, nextId, worker, used>>

-----------------------------------------------------------------------------
(* The API server *)

(* POST /api/listings/:id/flag by the owner. *)
Flag(m) ==
  /\ Exists(m)
  /\ Use("flag")
  /\ row' = [row EXCEPT ![m].listing = Quarantine(@, "user_flagged")]
  /\ UNCHANGED <<text, keys, nextId, worker, pass>>

(* POST /reparse: the user's listings are deleted before their jobs are sent. *)
Reparse ==
  /\ \E m \in Messages : Exists(m)
  /\ Use("reparse")
  /\ row' = [m \in Messages |-> NoRow]
  /\ UNCHANGED <<text, keys, nextId, worker, pass>>

-----------------------------------------------------------------------------

Next ==
  \/ \E w \in Workers :
       \/ \E m \in Messages : ParseMessage(w, m) \/ ParseFails(w, m)
       \/ Save(w)
  \/ ReadListings
  \/ \E s \in pass : WriteBack(s)
  \/ \E m \in Messages : Flag(m)
  \/ Reparse

Spec == Init /\ [][Next]_vars

-----------------------------------------------------------------------------
(* Properties *)

RowType == [id : Nat, listing : ListingType]

(***************************************************************************)
(* Every variable has its type: the confidence stays within 0..100 through *)
(* every mixture of replies, agreements and repairs.                       *)
(***************************************************************************)
TypeOK ==
  /\ text \in [Messages -> Texts]
  /\ keys \in Keys
  /\ row \in [Messages -> RowType]
  /\ nextId \in Nat
  /\ worker \in [Workers -> [message : Messages \cup {"none"}, parsed : ListingType,
                             informed : BOOLEAN]]
  /\ pass \subseteq [message : Messages, row : RowType]
  /\ used \in [Bounded -> Nat]

(***************************************************************************)
(* A quarantined row has confidence 0, whichever writers met on it: the    *)
(* feed hides rows by their confidence alone and never looks at            *)
(* quarantine_reason (server.js today's listings).                         *)
(***************************************************************************)
QuarantinedIsHidden ==
  \A m \in Messages : row[m].listing.reason # None => row[m].listing.conf = 0

(***************************************************************************)
(* "A wrong price shown to a user is worse than a rare real outlier        *)
(* hidden": a row that is not hidden has no token price ("7 INR"), even    *)
(* when the writers of its price and of its confidence overlapped.         *)
(***************************************************************************)
VisiblePriceIsPlausible ==
  \A m \in Messages :
    LET price == row[m].listing.price
    IN  row[m].listing.conf > 0 => price <= 0 \/ price > PriceFloor

(***************************************************************************)
(* "A free regex re-derive must never overturn" a verdict of a person or   *)
(* of the model: what a pass writes still has the verdict that it read     *)
(* (one given since is another matter: VerdictStands).                     *)
(***************************************************************************)
PassKeepsVerdicts ==
  [][\A s \in pass :
       (/\ WriteBack(s) /\ row' # row
        /\ s.row.listing.reason \in Verdicts)
       => row'[s.message].listing.reason = s.row.listing.reason]_vars

(***************************************************************************)
(* The live path and a re-run agree: a row a worker has just saved, and a  *)
(* row a pass has just written that nobody touched since the pass read it, *)
(* would not be changed by another normalize pass.                         *)
(***************************************************************************)
Settled(m) ==
  Exists(m) => Renormalized(row[m].listing, text[m]) = row[m].listing

RerunChangesNothing ==
  [][\A m \in Messages :
       (/\ row'[m] # row[m]
        /\ \/ \E w \in Workers : Save(w)
           \/ \E s \in pass : s.message = m /\ s.row = row[m] /\ WriteBack(s))
       => Settled(m)']_vars

(***************************************************************************)
(* "A free regex re-derive must never overturn them - only the LLM         *)
(* (--full) or a person can lift them": a row's verdict is lifted only by  *)
(* a save that a language model informed, or by the owner (a reparse       *)
(* deletes the row; flagging replaces one verdict with another).           *)
(***************************************************************************)
VerdictStands ==
  [][\A m \in Messages :
       (/\ row[m].listing.reason \in Verdicts
        /\ Exists(m) /\ Exists(m)'
        /\ row'[m].listing.reason \notin Verdicts)
       => \E w \in Workers : Save(w) /\ worker[w].informed]_vars
=============================================================================
