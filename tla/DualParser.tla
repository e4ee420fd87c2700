----------------------------- MODULE DualParser -----------------------------
(***************************************************************************)
(* scraper/dual-parser.js with the clients it calls, llm-parser.js (Groq)  *)
(* and gemini-parser.js: two language models and the expressions read a    *)
(* message, their results are reconciled, Groq is asked again when it and  *)
(* the expressions disagree, and everything is merged.                     *)
(*                                                                         *)
(* A model's reply is any member of Answers, Failed (no answer in 30 s, an *)
(* error status, 429, no JSON) or Malformed (amenities that are no list,   *)
(* on which _normaliseLlmOutput throws).  An answer may state any          *)
(* confidence or none.  The clients' caches only repeat an earlier reply   *)
(* and their rate limiters only delay one, so both are covered by taking   *)
(* the reply of each call from the whole set.                              *)
(***************************************************************************)
EXTENDS MessageParser

CONSTANT Answers   \* the replies the models can give, as parsed JSON

(* What the answer says of the listing; whether its confidence is a number. *)
AnswerType == [listing : ListingType, scored : BOOLEAN, conf : Int]

ASSUME AnswersAssumption == Answers \subseteq AnswerType

Failed    == [failed |-> TRUE]
Malformed == [malformed |-> TRUE]
Replies   == Answers \cup {Failed, Malformed}
Usable(reply) == reply \notin {Failed, Malformed}

(***************************************************************************)
(* _emptyResult and _empty: not a listing.                                 *)
(***************************************************************************)
Empty == Listing("no", None, FALSE, NoNumber, None, None, NoNumber, None, None, {},
                 FALSE, FALSE, 0)

NormaliseLlmOutput(a) ==
  [a.listing EXCEPT !.conf = IF a.listing.isListing = "no" THEN 0
                             ELSE IF a.scored THEN Larger(0, Smaller(100, a.conf))
                             ELSE 50,
                    !.parking = "parking" \in a.listing.amenities,
                    !.reason = None]

(***************************************************************************)
(* What the expressions read in a model's place: their location is in a    *)
(* field that conflict detection and reconciliation do not look at.        *)
(***************************************************************************)
RegexFallback(t) == [RegexParse(t) EXCEPT !.place = None]

(***************************************************************************)
(* LlmParser.parse: short texts without a listing's words are read by the  *)
(* expressions, links and images are no listings, and a call that fails or *)
(* throws falls back to the expressions.                                   *)
(***************************************************************************)
LlmParse(t, reply) ==
  CASE t.shape = "short" -> RegexFallback(t)
    [] t.shape = "link"  -> Empty
    [] OTHER -> IF Usable(reply) THEN NormaliseLlmOutput(reply) ELSE RegexFallback(t)

(* GeminiParser.parse: a call that fails has no result. *)
GeminiParse(keys, reply) == IF keys.gemini THEN reply ELSE Failed

(* parseWithContext: Groq is asked again about the conflicts, if there are any. *)
ParseWithContext(conflicts, reply) == IF conflicts # {} THEN reply ELSE Failed

-----------------------------------------------------------------------------
(* Conflicts and merge *)

(* Two amounts that differ by more than a quarter. *)
FarApart(a, b) == 4 * Larger(a, b) > 5 * Smaller(a, b)

(***************************************************************************)
(* The fields on which the model and the expressions disagree.  A studio   *)
(* (0 bedrooms) always counts as missed.                                   *)
(***************************************************************************)
DetectConflicts(llm, regex) ==
  LET field(name, differs) == IF differs THEN {name} ELSE {}
  IN  field("community",
            /\ regex.place # None
            /\ llm.place # regex.place
            /\ llm.place \notin DOMAIN Market)
      \cup
      field("price",
            regex.price > 0 /\ llm.price > 0 /\ FarApart(regex.price, llm.price))
      \cup
      field("furnished",
            /\ regex.furnished # None
            /\ llm.furnished # None
            /\ regex.furnished # llm.furnished)

DetectConflictsFull(llm, regex, t) ==
  LET config == ExtractConfig(t)
      differs == \/ llm.bedrooms # config.bedrooms
                 \/ llm.bedrooms = 0
                 \/ config.unit # None /\ llm.unit # None /\ llm.unit # config.unit
  IN  DetectConflicts(llm, regex)
      \cup (IF config.bedrooms # NoNumber /\ differs THEN {"config"} ELSE {})

(* The reward for agreement is not capped. *)
MergeUncapped(primary, regex, t) ==
  [primary EXCEPT !.conf = @ + IF primary.price = regex.price THEN 15 ELSE 0]

(***************************************************************************)
(* merge: the expressions win for place, bedrooms and furnishing, and for  *)
(* a price that is missing or far apart; agreement is rewarded after that. *)
(***************************************************************************)
Merge(primary, regex, t) ==
  LET config == ExtractConfig(t)
      place  == IF regex.place # None THEN regex.place
                ELSE IF primary.place # None THEN primary.place
                ELSE FirstLineLocation(t)
      price  == IF /\ regex.price # NoNumber
                   /\ primary.price = NoNumber \/ FarApart(regex.price, primary.price)
                THEN regex.price ELSE primary.price
      sized  == config.bedrooms # NoNumber
      bedrooms == IF sized THEN config.bedrooms ELSE primary.bedrooms
      agrees(mine, theirs, null) == IF mine # null /\ mine = theirs THEN 1 ELSE 0
      agreements == agrees(price, regex.price, NoNumber)
                    + agrees(bedrooms, regex.bedrooms, NoNumber)
                    + agrees(place, regex.place, None)
  IN  [primary EXCEPT
         !.place     = place,
         !.price     = price,
         !.currency  = IF regex.price # NoNumber /\ @ = None THEN regex.currency ELSE @,
         !.bedrooms  = bedrooms,
         !.unit      = IF sized /\ config.unit # None THEN config.unit ELSE @,
         !.furnished = IF regex.furnished # None THEN regex.furnished ELSE @,
         !.amenities = @ \cup regex.amenities,
         !.parking   = @ \/ regex.parking,
         !.conf      = Smaller(100, @ + 5 * agreements)]

(***************************************************************************)
(* reconcileGemini: Groq's value unless it has none.  ConsensusFields are  *)
(* the compared fields this model keeps; the others count as equal, and    *)
(* place counts twice, for community and area_text.  An is_listing that    *)
(* neither model gave becomes false.                                       *)
(***************************************************************************)
ConsensusFields == {"intent", "period", "unit", "bedrooms", "price", "currency",
                    "place", "furnished", "parking"}
ComparedFields == 13

Reconcile(groq, gemini) ==
  LET filled(a, b, null) == IF a = null THEN b ELSE a
      agreed == ComparedFields
                - Cardinality({f \in ConsensusFields : groq[f] # gemini[f]})
                - (IF groq.place # gemini.place THEN 1 ELSE 0)
      base == Larger(groq.conf, gemini.conf)
  IN  [groq EXCEPT
         !.intent    = filled(@, gemini.intent, None),
         !.period    = @ \/ gemini.period,
         !.unit      = filled(@, gemini.unit, None),
         !.bedrooms  = filled(@, gemini.bedrooms, NoNumber),
         !.price     = filled(@, gemini.price, NoNumber),
         !.currency  = filled(@, gemini.currency, None),
         !.place     = filled(@, gemini.place, None),
         !.furnished = filled(@, gemini.furnished, None),
         !.amenities = @ \cup gemini.amenities,
         !.isListing = IF "yes" \in {@, gemini.isListing} THEN "yes" ELSE "no",
         !.conf      = Smaller(100, (base * (70 * ComparedFields + 60 * agreed))
                                       \div (100 * ComparedFields))]

-----------------------------------------------------------------------------
(* The parser *)

(***************************************************************************)
(* Gemini's reply is normalised outside of any catch.  Without a Groq key  *)
(* there is no first result: a text that states its bedrooms then makes    *)
(* detectConflictsFull read a field of null, and parse() throws; any other *)
(* text is empty, whatever Gemini said.                                    *)
(***************************************************************************)
ParseThrows(t, keys, gemini) ==
  /\ t.shape # "tiny"
  /\ \/ GeminiParse(keys, gemini) = Malformed
     \/ ~keys.groq /\ t.bedrooms # NoNumber

(* Stage 1: Groq's result, reconciled with Gemini's if there is one. *)
FirstResult(t, keys, groq, gemini) ==
  IF Usable(GeminiParse(keys, gemini))
  THEN Reconcile(LlmParse(t, groq), NormaliseLlmOutput(gemini))
  ELSE LlmParse(t, groq)

(***************************************************************************)
(* DualParser.parse with the replies to the first call, of Gemini and to   *)
(* the second call.                                                        *)
(***************************************************************************)
DualParse(t, keys, groq, gemini, again) ==
  LET regex  == RegexParse(t)
      first  == FirstResult(t, keys, groq, gemini)
      second == ParseWithContext(DetectConflictsFull(first, regex, t), again)
  IN  IF t.shape = "tiny" \/ ~keys.groq
      THEN Empty
      ELSE Merge(IF Usable(second) THEN NormaliseLlmOutput(second) ELSE first, regex, t)
=============================================================================
