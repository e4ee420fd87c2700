---------------------------- MODULE ConnectStream ----------------------------
(***************************************************************************)
(* Connecting WhatsApp from the dashboard: the dialog (QRModal with        *)
(* useSSE), its host (ConnectWhatsAppButton with useWhatsAppAuth), the     *)
(* one-time nonces of auth.js that open its event streams, and what        *)
(* whatsappService.js does with the streams, the bridge's events and its   *)
(* exit.                                                                   *)
(*                                                                         *)
(* One user and one server instance; the server handles one event at a     *)
(* time, and Redis and HTTP calls come in between.  A stream is named by   *)
(* the nonce in its URL.  What the user does elsewhere (another tab, the   *)
(* group selection, the refetch panel) is the environment's.  The lease is *)
(* BridgeLifecycle's: here it only keeps two starts apart.                 *)
(***************************************************************************)
EXTENDS Naturals, Sequences

CONSTANTS
  Nonces,      \* nonces; a name is used again when nothing holds it any more
  Backlog,     \* bound of the model on events under way in a stream
  Rare,        \* the rare events of the model
  RareBound    \* bound of the model on how many of them happen

RareEvents == {"cut", "redis", "getdel", "fault", "setup", "other", "reattach"}

ASSUME BacklogAssumption == Backlog \in Nat \ {0}
ASSUME RareAssumption == Rare \subseteq RareEvents /\ RareBound \in Nat

\* The events of the stream, named as the dialog knows them.  "note" stands for
\* those that it logs at most: groups_syncing, groups_detected, groups_saved,
\* monitoring_started, backfill_progress, backfill_complete, backfill_warning,
\* listing_stored.
Events == {"qr_generated", "scanning", "authenticated", "disconnected", "error", "note"}

VARIABLES
  kept,      \* where the server keeps each nonce
  asked,     \* how many requests with it are yet to be looked up
  got,       \* how many have read it and not yet deleted it
  opened,    \* history: how many streams it has opened
  torn,      \* history: the nonces that were read by a GET because GETDEL failed
  gone,      \* open streams that the dialog has left, unknown to the server
  wire,      \* events on the way to the dialog
  conn,      \* sseConnections: the registered stream, if it is the dialog's
  last,      \* lastState: the event replayed to a new stream, if any
  bridge,    \* how far the bridge process is
  entry,     \* the clients entry: "none", "starting" or "ready"
  starting,  \* whether the user is in _initializing
  preparing, \* whether an initiate-qr is between that and spawn()
  url,       \* the nonce in the URL of the dialog's EventSource, if any
  minting,   \* what the dialog is fetching a nonce for
  phase,     \* of the dialog; "closed" when it is not shown
  initiated, \* whether it has called initiate-qr
  calling,   \* its latest call of it: "no", "sent", "begun" when past the lease, or
             \* "failed", when it failed unknown to the dialog
  advance,   \* whether its timer to group selection runs
  linked,    \* whether the host was last told the user is connected
  used       \* how many rare events have happened

nonces  == <<kept, asked, got, opened, torn>>
streams == <<gone, wire, conn, last>>
process == <<bridge, entry, starting, preparing>>
source  == <<url, minting>>
modal   == <<phase, initiated, calling, advance>>
vars    == <<nonces, streams, process, source, modal, linked, used>>

AtMostOne(S) == \A x, y \in S : x = y

NoncesOK  == /\ kept \in [Nonces -> {"no", "redis", "memory"}]
             /\ asked \in [Nonces -> Nat]
             /\ got \in [Nonces -> Nat]
             /\ opened \in [Nonces -> Nat]
             /\ torn \subseteq Nonces

StreamsOK == /\ gone \subseteq Nonces
             /\ wire \in Seq(Events \cup {"connected"})
             /\ conn \subseteq Nonces /\ AtMostOne(conn)
             /\ last \subseteq Events /\ AtMostOne(last)

ProcessOK == /\ bridge \in {"none", "boot", "code", "scanned", "ready", "closing"}
             /\ entry \in {"none", "starting", "ready"}
             /\ starting \in BOOLEAN /\ preparing \in BOOLEAN

ModalOK   == /\ url \subseteq Nonces /\ AtMostOne(url)
             /\ minting \in {"no", "first", "again"}
             /\ phase \in {"closed", "init", "starting", "qr", "scanning",
                           "authenticated", "select_groups", "error"}
             /\ initiated \in BOOLEAN /\ advance \in BOOLEAN
             /\ calling \in {"no", "sent", "begun", "failed"}
             /\ linked \in BOOLEAN

TypeOK == NoncesOK /\ StreamsOK /\ ProcessOK /\ ModalOK
          /\ used \in Nat

\* A user without a bridge; the server remembers nothing of an earlier one.
Init ==
  /\ kept = [n \in Nonces |-> "no"]
  /\ asked = [n \in Nonces |-> 0] /\ got = asked /\ opened = asked /\ torn = {}
  /\ gone = {} /\ conn = {} /\ last = {} /\ wire = <<>>
  /\ bridge = "none" /\ entry = "none" /\ starting = FALSE /\ preparing = FALSE
  /\ url = {} /\ minting = "no"
  /\ phase = "closed" /\ initiated = FALSE /\ calling = "no" /\ advance = FALSE
  /\ linked = FALSE
  /\ used = 0

Happens(event) == event \in Rare /\ used < RareBound /\ used' = used + 1

(***************************************************************************)
(* Streams on the server.  _emit writes to the registered stream, whatever *)
(* has become of it, and remembers the event.                              *)
(***************************************************************************)
Reached == (conn \cap url) \ gone

Emit(e) ==
  /\ wire' = IF Reached = {} THEN wire ELSE Append(wire, e)
  /\ last' = {e}

\* A last "disconnected" is not replayed when no bridge runs.
Replayed == IF last = {"disconnected"} /\ entry = "none" THEN {} ELSE last

\* Mutants: a second stream beside the first; no replay.
RegisterBeside(n) ==
  /\ conn' = conn \cup {n}
  /\ wire' = <<"connected">>

RegisterSilently(n) ==
  /\ conn' = {n}
  /\ wire' = IF n \in url THEN <<"connected">> ELSE wire

\* registerSSE takes the place of the user's former stream.
Register(n) ==
  /\ conn' = {n}
  /\ wire' = IF n \notin url THEN wire
             ELSE IF Replayed = {} THEN <<"connected">>
             ELSE <<"connected", CHOOSE e \in Replayed : TRUE>>

\* The stream opens.  If the dialog left while the nonce was being looked up, the
\* "close" event is over and nothing will unregister the stream.
Open(n) ==
  /\ opened' = [opened EXCEPT ![n] = @ + 1]
  /\ Register(n)

\* removeSSE, by user, on the "close" event of any of the user's streams.  What its
\* nonce was is forgotten when no request has it any more.
Closed(n) ==
  /\ n \in gone
  /\ gone' = gone \ {n}
  /\ conn' = {}
  /\ IF asked[n] + got[n] = 0
     THEN opened' = [opened EXCEPT ![n] = 0] /\ torn' = torn \ {n}
     ELSE UNCHANGED <<opened, torn>>
  /\ UNCHANGED <<kept, asked, got, wire, last, process, source, modal, linked, used>>

(***************************************************************************)
(* The dialog's EventSource.  It is closed when the URL changes; an error  *)
(* makes the dialog fetch a new nonce.                                     *)
(***************************************************************************)
Switch(U) ==
  /\ url' = U
  /\ gone' = gone \cup {n \in url : opened[n] > 0}
  /\ wire' = <<>>

\* refreshStreamUrl.
OnError == minting' = "again"

\* The connection breaks, or the proxy closes a stream that gets no heartbeat
\* because it is not the registered one.
Broken == Switch({}) /\ OnError

Cut ==
  /\ \E n \in url : opened[n] > 0
  /\ Happens("cut")
  /\ Broken
  /\ UNCHANGED <<nonces, conn, last, process, modal, linked>>

IdleClose ==
  /\ \E n \in url \ conn : opened[n] > 0
  /\ wire = <<>>
  /\ Broken
  /\ UNCHANGED <<nonces, conn, last, process, modal, linked, used>>

(***************************************************************************)
(* Nonces.  sse-token stores one, in Redis or in memory; the dialog opens  *)
(* its EventSource with it.  Redis comes and goes (_redisReady), so every  *)
(* use of it may find it there or not.                                     *)
(***************************************************************************)
Unused(n) == asked[n] + got[n] = 0 /\ n \notin url \cup conn \cup gone

Mint ==
  /\ minting # "no"
  /\ \E n \in Nonces :
       /\ Unused(n)
       /\ \/ kept' = [kept EXCEPT ![n] = "redis"] /\ UNCHANGED used
          \/ kept' = [kept EXCEPT ![n] = "memory"] /\ Happens("redis")
       /\ asked' = [asked EXCEPT ![n] = 1]
       /\ opened' = [opened EXCEPT ![n] = 0]
       /\ torn' = torn \ {n}
       /\ Switch({n})
  /\ minting' = "no"
  /\ UNCHANGED <<got, conn, last, process, modal, linked>>

\* The retries of a fetch are used up: one of the first, none after Try Again,
\* eight after an error.
MintFails ==
  /\ minting # "no"
  /\ Happens("fault")
  /\ minting' = "no"
  /\ phase' = IF minting = "first" THEN phase ELSE "error"
  /\ UNCHANGED <<nonces, streams, process, url, initiated, calling, advance, linked>>

Expire(n) ==
  /\ kept[n] # "no"
  /\ Happens("fault")
  /\ kept' = [kept EXCEPT ![n] = "no"]
  /\ UNCHANGED <<asked, got, opened, torn, streams, process, source, modal, linked>>

\* The connection breaks before the answer: the browser asks again with the same
\* URL, while the first request goes on.
Reconnect(n) ==
  /\ n \in url /\ asked[n] + got[n] = 1 /\ opened[n] = 0
  /\ Happens("cut")
  /\ asked' = [asked EXCEPT ![n] = @ + 1]
  /\ OnError
  /\ UNCHANGED <<kept, got, opened, torn, streams, process, url, modal, linked>>

\* Mutant: GETDEL taken for GET.
OneStepOnlyInMap(n) == kept[n] = "memory"

\* An entry of the Map is taken in one step, one in Redis by GETDEL, unless
\* Redis does not know it or the call fails.
OneStep(n) == kept[n] \in {"memory", "redis"}

\* 401: an error for the EventSource if it waits for no other answer.
Refuse(n) ==
  IF n \in url /\ opened[n] = 0 /\ asked[n] + got[n] = 1
  THEN Broken
  ELSE UNCHANGED <<url, gone, wire, minting>>

\* authenticateSSE.
Lookup(n) ==
  /\ asked[n] > 0
  /\ asked' = [asked EXCEPT ![n] = @ - 1]
  /\ \/ /\ OneStep(n)
        /\ kept' = [kept EXCEPT ![n] = "no"]
        /\ Open(n)
        /\ UNCHANGED <<got, torn, gone, source, used>>
     \/ /\ kept[n] = "redis"
        /\ IF OneStep(n) THEN Happens("getdel") ELSE UNCHANGED used
        /\ got' = [got EXCEPT ![n] = @ + 1]
        /\ torn' = IF OneStep(n) THEN torn \cup {n} ELSE torn
        /\ UNCHANGED <<kept, opened, gone, conn, wire, source>>
     \/ /\ \/ kept[n] = "no" /\ UNCHANGED used
           \/ kept[n] = "redis" /\ Happens("redis")
        /\ Refuse(n)
        /\ UNCHANGED <<kept, got, opened, torn, conn>>
  /\ UNCHANGED <<last, process, modal, linked>>

\* GET, which both of two requests may have done, is followed by DEL.
Delete(n) ==
  /\ got[n] > 0
  /\ got' = [got EXCEPT ![n] = @ - 1]
  /\ kept' = [kept EXCEPT ![n] = "no"]
  /\ Open(n)
  /\ UNCHANGED <<asked, torn, gone, last, process, source, modal, linked, used>>

(***************************************************************************)
(* The bridge process and _handleBridgeEvent: each event is read from the  *)
(* state file and handled, except that the last may be still unread when   *)
(* the exit handler stops the tailer.                                      *)
(***************************************************************************)
Says(e) ==
  /\ Len(wire) < Backlog
  /\ Emit(e)

Becomes(state) ==
  /\ bridge' = state
  /\ UNCHANGED <<nonces, gone, conn, source, modal, linked, used>>

\* The QR code is renewed until it is scanned or expires.
ShowCode ==
  /\ bridge \in {"boot", "code"}
  /\ Says("qr_generated")
  /\ Becomes("code")
  /\ UNCHANGED <<entry, starting, preparing>>

Scan ==
  /\ bridge = "code"
  /\ Says("scanning")
  /\ Becomes("scanned")
  /\ UNCHANGED <<entry, starting, preparing>>

\* "ready", without a scan when a saved login is restored.
Login ==
  /\ bridge \in {"boot", "scanned"}
  /\ Says("authenticated")
  /\ entry' = IF entry = "none" THEN entry ELSE "ready"
  /\ starting' = FALSE
  /\ UNCHANGED preparing
  /\ Becomes("ready")

\* A group scan begins with the event of a scanned code; it, the listener and the
\* backfill tell of their progress.
Report ==
  /\ bridge = "ready" /\ entry = "ready"
  /\ \E e \in {"scanning", "note"} : Says(e)
  /\ Becomes("ready")
  /\ UNCHANGED <<entry, starting, preparing>>

\* The end, announced or not: the code expires, the phone logs out, create()
\* fails or hangs, the process dies.
Leave ==
  /\ bridge \in {"boot", "code", "scanned", "ready"}
  /\ \/ /\ Says("disconnected")
        /\ entry' = "none" /\ UNCHANGED starting
     \/ /\ bridge # "ready" /\ Says("error")
        /\ entry' = "none" /\ starting' = FALSE
     \/ UNCHANGED <<wire, last, entry, starting>>
  /\ UNCHANGED preparing
  /\ Becomes("closing")

\* The exit handler: the user's stream is unregistered, whichever it is by now.
OnExit ==
  /\ bridge = "closing"
  /\ bridge' = "none" /\ entry' = "none" /\ starting' = FALSE
  /\ conn' = {}
  /\ UNCHANGED <<nonces, gone, wire, last, preparing, source, modal, linked, used>>

(***************************************************************************)
(* The dialog.                                                             *)
(***************************************************************************)
Terminal == {"authenticated", "select_groups"}

Shown == phase # "closed"

OpenModal ==
  /\ ~Shown /\ ~linked
  /\ phase' = "init"
  /\ minting' = "first"
  /\ UNCHANGED <<nonces, streams, process, url, initiated, calling, advance, linked, used>>

\* The dialog is taken off the page, deaf to the calls of its that are under way.
Unmount ==
  /\ phase' = "closed" /\ calling' = "no" /\ advance' = FALSE
  /\ minting' = "no" /\ initiated' = FALSE
  /\ Switch({})

\* The user closes it, or saves a selection.
CloseModal ==
  /\ Shown
  /\ Unmount
  /\ UNCHANGED <<nonces, conn, last, process, linked, used>>

\* The list of groups is refused (409) and the dialog closes itself.
GroupsRefused ==
  /\ phase = "select_groups" /\ entry # "ready"
  /\ Unmount
  /\ UNCHANGED <<nonces, conn, last, process, linked, used>>

\* One event of the stream.  While the phase is terminal most are only logged.
Shows(e) ==
  IF e = "authenticated" THEN e
  ELSE IF phase \in Terminal THEN phase
  ELSE IF e = "qr_generated" THEN "qr"
  ELSE IF e = "disconnected" THEN "error"
  ELSE IF e \in {"scanning", "error"} THEN e
  ELSE phase

\* The stream is open: the first time, initiate-qr is called.
Connected ==
  /\ wire # <<>> /\ Head(wire) = "connected"
  /\ wire' = Tail(wire)
  /\ IF initiated THEN UNCHANGED <<phase, initiated, calling>>
     ELSE phase' = "starting" /\ initiated' = TRUE /\ calling' = "sent"
  /\ UNCHANGED <<nonces, gone, conn, last, process, source, advance, linked, used>>

\* An event that is followed at once by another is lost: the effect that handles
\* lastEvent sees only the latest.
Deliver ==
  /\ wire # <<>> /\ Head(wire) # "connected"
  /\ wire' = Tail(wire)
  /\ \/ /\ phase' = Shows(Head(wire))
        /\ advance' = (advance \/ Head(wire) = "authenticated")
     \/ Len(wire) > 1 /\ UNCHANGED <<phase, advance>>
  /\ UNCHANGED <<nonces, gone, conn, last, process, source, initiated, calling,
                 linked, used>>

\* 1.2 seconds after "authenticated".
Advance ==
  /\ advance
  /\ advance' = FALSE
  /\ phase' = "select_groups"
  /\ UNCHANGED <<nonces, streams, process, source, initiated, calling, linked, used>>

\* Mutant: polls only while the code is shown.
PollingAtCode == phase = "qr"

Polling == Shown /\ phase \notin Terminal \cup {"error"}

\* /status, every 3 seconds.
Poll ==
  /\ Polling
  /\ entry = "ready"
  /\ phase' = "select_groups"
  /\ UNCHANGED <<nonces, streams, process, source, initiated, calling, advance, linked, used>>

\* initiateQR up to its lease: an entry or a start is a success; the lease of a
\* bridge that is not gone yet, or of another request that has it, is a 409; else
\* a start begins.
Begin ==
  /\ entry = "none" /\ ~starting /\ bridge = "none"
  /\ starting' = TRUE /\ preparing' = TRUE
  /\ UNCHANGED <<bridge, entry>>

Initiate ==
  /\ calling = "sent"
  /\ \/ /\ entry # "none" \/ starting
        /\ calling' = "no" /\ UNCHANGED process
     \/ /\ entry = "none" /\ (preparing \/ (~starting /\ bridge # "none"))
        /\ calling' = "failed" /\ UNCHANGED process
     \/ calling' = "begun" /\ Begin
  /\ UNCHANGED <<nonces, streams, source, phase, initiated, advance, linked, used>>

\* The answer, if the dialog is still there to hear it and made no later call.
Answer(a) == calling' = IF calling = "begun" THEN a ELSE calling

\* The rest of it, with the waits for the old Chrome and for the old commands
\* over.  The answer may get lost.
Spawn ==
  /\ preparing /\ preparing' = FALSE
  /\ bridge' = "boot" /\ entry' = "starting"
  /\ \/ Answer("no") /\ UNCHANGED used
     \/ calling = "begun" /\ Answer("failed") /\ Happens("fault")
  /\ UNCHANGED <<nonces, streams, starting, source, phase, initiated, advance, linked>>

\* A directory cannot be made: 500, and nothing takes the user out of _initializing.
SetupFails ==
  /\ preparing /\ preparing' = FALSE
  /\ Happens("setup")
  /\ Answer("failed")
  /\ UNCHANGED <<nonces, streams, bridge, entry, starting, source, phase, initiated,
                 advance, linked>>

InitiateFails ==
  /\ calling = "failed"
  /\ calling' = "no"
  /\ phase' = "error"
  /\ UNCHANGED <<nonces, streams, process, source, initiated, advance, linked, used>>

\* disconnect: the bridge is told to go, and killed if it does not.
Disconnect ==
  /\ bridge' = IF entry # "none" /\ bridge # "none" THEN "closing" ELSE bridge
  /\ entry' = "none"
  /\ last' = {}
  /\ UNCHANGED <<starting, preparing>>

\* The old bridge is disconnected, then all begins anew.  The model takes the timer to
\* group selection to be over by then.
TryAgain ==
  /\ phase = "error" /\ ~advance
  /\ Disconnect
  /\ phase' = "init" /\ initiated' = FALSE
  /\ minting' = "again"
  /\ UNCHANGED <<nonces, gone, wire, conn, url, calling, advance, linked, used>>

(***************************************************************************)
(* The page around it.                                                     *)
(***************************************************************************)

\* useWhatsAppAuth, every 30 seconds: a host that learns that the user is
\* connected renders a menu and not the dialog.
HostPoll ==
  /\ linked' = (entry = "ready")
  /\ IF linked' /\ Shown THEN Unmount
     ELSE UNCHANGED <<wire, gone, source, modal>>
  /\ UNCHANGED <<nonces, conn, last, process, used>>

\* The menu's Disconnect.
HostDisconnect ==
  /\ linked
  /\ Disconnect
  /\ linked' = FALSE
  /\ UNCHANGED <<nonces, gone, wire, conn, source, modal, used>>

(***************************************************************************)
(* The same user elsewhere.                                                *)
(***************************************************************************)

\* Another stream takes the place of the dialog's, or is closed.
OtherStream ==
  /\ conn' = {}
  /\ UNCHANGED <<wire, last, process>>

\* select-groups and rescrape need only an entry, also while the code is shown;
\* the list of groups needs a ready one.
OtherTells ==
  /\ \/ entry # "none" /\ Says("note")
     \/ entry = "ready" /\ Says("scanning")
  /\ UNCHANGED <<conn, process>>

OtherStart == Begin /\ UNCHANGED <<conn, wire, last>>

OtherDisconnect == Disconnect /\ UNCHANGED <<conn, wire>>

OtherTab ==
  /\ Happens("other")
  /\ (OtherStream \/ OtherTells \/ OtherStart \/ OtherDisconnect)
  /\ UNCHANGED <<nonces, gone, source, modal, linked>>

\* rescrape without an entry takes a state file of the last ten minutes for a bridge
\* that is connected, and makes it an entry.
Reattach ==
  /\ entry = "none"
  /\ Happens("reattach")
  /\ entry' = "ready"
  /\ UNCHANGED <<nonces, streams, bridge, starting, preparing, source, modal, linked>>

-----------------------------------------------------------------------------
Next ==
  \/ \E n \in Nonces : Closed(n) \/ Expire(n) \/ Reconnect(n) \/ Lookup(n) \/ Delete(n)
  \/ Cut \/ IdleClose \/ Mint \/ MintFails
  \/ ShowCode \/ Scan \/ Login \/ Report \/ Leave \/ OnExit
  \/ OpenModal \/ CloseModal \/ GroupsRefused \/ Connected \/ Deliver \/ Advance
  \/ Poll \/ Initiate \/ Spawn \/ SetupFails \/ InitiateFails \/ TryAgain
  \/ HostPoll \/ HostDisconnect \/ OtherTab \/ Reattach

Spec == Init /\ [][Next]_vars

\* Requests are answered, events arrive, the dialog polls, a proxy closes idle
\* streams.  What the user, the phone, the bridge and the network do is left to
\* them.
FairSpec ==
  /\ Spec
  /\ \A n \in Nonces : WF_vars(Closed(n) \/ Lookup(n) \/ Delete(n))
  /\ WF_vars(IdleClose \/ Mint)
  /\ WF_vars(Connected \/ Deliver) /\ WF_vars(Poll)

(***************************************************************************)
(* Properties.                                                             *)
(***************************************************************************)

\* "Atomic GETDEL on validation ensures the nonce can only be consumed once":
\* no nonce opens two streams, though requests with it overlap, Redis comes and
\* goes and the nonce may be in the Map.  It needs GETDEL to work.
NonceOnce == \A n \in Nonces \ torn : opened[n] <= 1

\* What the dialog shows.
News == {"qr_generated", "scanning", "authenticated", "error"}

\* A live stream does not lose what the server last had to show: to a dialog that has
\* shown nothing yet it is under way, with nothing behind it, whether it was
\* replayed to the stream or sent on it, and whatever was lost before.
NewsIsUnderWay ==
  phase = "starting" /\ last \cap News # {} /\ Reached # {}
    => wire # <<>> /\ wire[Len(wire)] \in last

\* A QR code that the server would replay reaches a dialog that waits for it, whatever
\* happened to its streams: one displaced by another client's, unregistered by
\* the exit of a former bridge, broken, or opened when the code was out already.
\* A note that another tab causes takes the code's place until it is renewed.
CodeIsShown ==
  []<>~(phase = "starting" /\ last = {"qr_generated"})

Waiting == phase \in {"init", "starting", "qr", "scanning"}

\* A phone that is linked takes the dialog to the selection of groups, also when
\* no event of it arrives.
LinkIsNoticed ==
  []<>~(Waiting /\ entry = "ready")
=============================================================================
