--------------------------- MODULE BridgeLifecycle ---------------------------
(***************************************************************************)
(* The bridge subprocess of one user: initiateQR, disconnect, auto-resume  *)
(* and the child's exit handler of whatsappService.js, on several API      *)
(* server instances, and the lease of bridgeLease.js that is to keep them  *)
(* from spawning two bridges.                                              *)
(*                                                                         *)
(* Redis answers, well within the lease's 60 seconds; an instance runs in  *)
(* a container, so its bridges die with it.  Handlers of one instance      *)
(* interleave at their awaits: pc[r] is the await request r is at.         *)
(***************************************************************************)
EXTENDS Integers, FiniteSets

CONSTANTS
  Instances,   \* API server instances
  Bridges,     \* bridge subprocesses; a name is used again when it is gone
  Requests,    \* requests that can be under way at the same time
  Host,        \* the instance each bridge is spawned by
  At,          \* the instance each request is served by
  Budget       \* bound of the model on how often each rare event happens

RareEvents == {"crash", "setupError", "spawnError"}

ASSUME HostAssumption == Host \in [Bridges -> Instances]
ASSUME AtAssumption == At \in [Requests -> Instances]
ASSUME BudgetAssumption == Budget \in [RareEvents -> Nat]

\* The clients entry that rescrape makes up from a recent state file.
Reattached == "reattached"

ASSUME BridgesAssumption == Reattached \notin Bridges

VARIABLES
  lease,       \* the owner of the Redis key bridge-lease:<user>, if any
  entry,       \* the child each instance has in clients, if any
  starting,    \* instances with the user in _initializing
  refreshing,  \* instances with a lease refresh timer
  bridge,      \* how far each subprocess is
  pc,          \* the await a request is suspended at
  resume,      \* instances whose auto-resume after boot is still to come
  used         \* how often each rare event has happened

server == <<entry, starting, refreshing>>
vars   == <<lease, entry, starting, refreshing, bridge, pc, resume, used>>

AtMostOne(S) == \A x, y \in S : x = y

TypeOK ==
  /\ lease \subseteq Instances /\ AtMostOne(lease)
  /\ entry \in [Instances -> SUBSET (Bridges \cup {Reattached})]
  /\ \A i \in Instances : AtMostOne(entry[i])
  /\ starting \subseteq Instances
  /\ refreshing \subseteq Instances
  /\ bridge \in [Bridges -> {"gone", "up", "leaving", "exited", "releasing"}]
  /\ pc \in [Requests -> {"idle", "acquire", "clean", "spawn", "disconnect"}]
  /\ resume \subseteq Instances
  /\ used \in [RareEvents -> Nat]

Init ==
  /\ lease = {}
  /\ entry = [i \in Instances |-> {}]
  /\ starting = {} /\ refreshing = {}
  /\ bridge = [b \in Bridges |-> "gone"]
  /\ pc = [r \in Requests |-> "idle"]
  /\ resume = Instances
  /\ used = [e \in RareEvents |-> 0]

Happens(event) == /\ used[event] < Budget[event]
                  /\ used' = [used EXCEPT ![event] = @ + 1]

Live(b) == bridge[b] \in {"up", "leaving"}

(***************************************************************************)
(* initiateQR.  A call that finds a client or a start under way answers at *)
(* once and has no action.                                                 *)
(***************************************************************************)
Free(i) == entry[i] = {} /\ i \notin starting

Goto(r, step) == pc' = [pc EXCEPT ![r] = step]

Ask(r) ==
  /\ pc[r] = "idle"
  /\ Free(At[r])
  /\ Goto(r, "acquire")
  /\ UNCHANGED <<lease, server, bridge, resume, used>>

\* autoResumeBridges, once after boot.
Resume(r) ==
  /\ At[r] \in resume
  /\ pc[r] = "idle"
  /\ resume' = resume \ {At[r]}
  /\ IF Free(At[r]) THEN Goto(r, "acquire") ELSE UNCHANGED pc
  /\ UNCHANGED <<lease, server, bridge, used>>

\* Mutant: takes its own lease for a grant, as the in-memory lease does.
AcquireOwn(r) ==
  /\ pc[r] = "acquire"
  /\ IF lease \subseteq {At[r]}
     THEN /\ lease' = {At[r]}
          /\ starting' = starting \cup {At[r]}
          /\ Goto(r, "clean")
     ELSE /\ Goto(r, "idle")
          /\ UNCHANGED <<lease, starting>>
  /\ UNCHANGED <<entry, refreshing, bridge, resume, used>>

\* Mutant: SET without NX, added to whoever owns the lease.
AcquireShared(r) ==
  /\ pc[r] = "acquire"
  /\ lease' = lease \cup {At[r]}
  /\ starting' = starting \cup {At[r]}
  /\ Goto(r, "clean")
  /\ UNCHANGED <<entry, refreshing, bridge, resume, used>>

\* SET NX: whoever owns the lease, itself included, is turned away.
Acquire(r) ==
  /\ pc[r] = "acquire"
  /\ IF lease = {}
     THEN /\ lease' = {At[r]}
          /\ starting' = starting \cup {At[r]}
          /\ Goto(r, "clean")
     ELSE /\ Goto(r, "idle")
          /\ UNCHANGED <<lease, starting>>
  /\ UNCHANGED <<entry, refreshing, bridge, resume, used>>

\* pkill hits every live bridge of the user on this host; then the profile and
\* the directories are prepared, which throws when the disk does not let it.
Clean(r) ==
  /\ pc[r] = "clean"
  /\ bridge' = [b \in Bridges |-> IF Host[b] = At[r] /\ bridge[b] = "up"
                                  THEN "leaving" ELSE bridge[b]]
  /\ \/ Goto(r, "spawn") /\ UNCHANGED used
     \/ Goto(r, "idle") /\ Happens("setupError")
  /\ UNCHANGED <<lease, server, resume>>

Spawn(r) ==
  /\ pc[r] = "spawn"
  /\ \E b \in Bridges :
       /\ Host[b] = At[r] /\ bridge[b] = "gone"
       /\ bridge' = [bridge EXCEPT ![b] = "up"]
       /\ entry' = [entry EXCEPT ![At[r]] = {b}]
  /\ refreshing' = refreshing \cup {At[r]}
  /\ Goto(r, "idle")
  /\ UNCHANGED <<lease, starting, resume, used>>

\* The child's 'error' event: there is no process and no 'exit' event, and
\* the refresh timer started right after spawn() keeps running.
SpawnError(r) ==
  /\ pc[r] = "spawn"
  /\ Happens("spawnError")
  /\ entry' = [entry EXCEPT ![At[r]] = {}]
  /\ starting' = starting \ {At[r]}
  /\ refreshing' = refreshing \cup {At[r]}
  /\ Goto(r, "idle")
  /\ UNCHANGED <<lease, bridge, resume>>

(***************************************************************************)
(* The child.  It leaves when it is told to, or by itself when the QR code *)
(* expires, the login is lost or the browser fails.  Its events reach the  *)
(* owner through the state file and every instance with an open stream     *)
(* through Redis, which also replays those of an earlier child.            *)
(***************************************************************************)
Leave(b) ==
  /\ bridge[b] = "up"
  /\ bridge' = [bridge EXCEPT ![b] = "leaving"]
  /\ UNCHANGED <<lease, server, pc, resume, used>>

\* 'ready' ends the start on every instance it reaches.
Ready(i) ==
  /\ \E b \in Bridges : bridge[b] = "up"
  /\ starting' = starting \ {i}
  /\ UNCHANGED <<lease, entry, refreshing, bridge, pc, resume, used>>

\* 'disconnected' or 'error', possibly of a child that is gone by now: the
\* entry is dropped whichever child it names, and 'error' ends the start.
Farewell(i) ==
  /\ \E b \in Bridges : bridge[b] # "up"
  /\ entry' = [entry EXCEPT ![i] = {}]
  /\ starting' \in {starting, starting \ {i}}
  /\ UNCHANGED <<lease, refreshing, bridge, pc, resume, used>>

Exit(b) ==
  /\ bridge[b] = "leaving"
  /\ bridge' = [bridge EXCEPT ![b] = "exited"]
  /\ UNCHANGED <<lease, server, pc, resume, used>>

\* Mutant: the refresh timer goes on.
OnExitRefreshing(b) ==
  /\ bridge[b] = "exited"
  /\ bridge' = [bridge EXCEPT ![b] = "releasing"]
  /\ entry' = [entry EXCEPT ![Host[b]] = {}]
  /\ starting' = starting \ {Host[b]}
  /\ UNCHANGED <<lease, refreshing, pc, resume, used>>

\* Mutant: the entry stays.
OnExitEntryKept(b) ==
  /\ bridge[b] = "exited"
  /\ bridge' = [bridge EXCEPT ![b] = "releasing"]
  /\ starting' = starting \ {Host[b]}
  /\ refreshing' = refreshing \ {Host[b]}
  /\ UNCHANGED <<lease, entry, pc, resume, used>>

\* The 'exit' handler, up to the release it does not wait for.
OnExit(b) ==
  /\ bridge[b] = "exited"
  /\ bridge' = [bridge EXCEPT ![b] = "releasing"]
  /\ entry' = [entry EXCEPT ![Host[b]] = {}]
  /\ starting' = starting \ {Host[b]}
  /\ refreshing' = refreshing \ {Host[b]}
  /\ UNCHANGED <<lease, pc, resume, used>>

Release(b) ==
  /\ bridge[b] = "releasing"
  /\ bridge' = [bridge EXCEPT ![b] = "gone"]
  /\ lease' = lease \ {Host[b]}
  /\ UNCHANGED <<server, pc, resume, used>>

(***************************************************************************)
(* disconnect: the command goes out through Redis; after that await it is  *)
(* also written to the command file, the kill timer is set and the entry   *)
(* dropped, whichever child it names by then.                              *)
(***************************************************************************)
Told(B) == bridge' = [b \in Bridges |-> IF b \in B /\ bridge[b] = "up"
                                        THEN "leaving" ELSE bridge[b]]

Disconnect(r) ==
  /\ pc[r] = "idle"
  /\ entry[At[r]] # {}
  /\ Told(Bridges)
  /\ Goto(r, "disconnect")
  /\ UNCHANGED <<lease, server, resume, used>>

\* Mutant: gives the lease up without waiting for the child's exit.
DisconnectReleasing(r) ==
  /\ pc[r] = "disconnect"
  /\ Told({b \in Bridges : Host[b] = At[r]})
  /\ entry' = [entry EXCEPT ![At[r]] = {}]
  /\ lease' = lease \ {At[r]}
  /\ Goto(r, "idle")
  /\ UNCHANGED <<starting, refreshing, resume, used>>

Disconnected(r) ==
  /\ pc[r] = "disconnect"
  /\ Told({b \in Bridges : Host[b] = At[r]})
  /\ entry' = [entry EXCEPT ![At[r]] = {}]
  /\ Goto(r, "idle")
  /\ UNCHANGED <<lease, starting, refreshing, resume, used>>

\* rescrape on an instance that has no entry but finds a recent state file.
Reattach(i) ==
  /\ entry[i] = {}
  /\ entry' = [entry EXCEPT ![i] = {Reattached}]
  /\ UNCHANGED <<lease, starting, refreshing, bridge, pc, resume, used>>

(***************************************************************************)
(* An instance dies, with its memory, its requests and its bridges, and is *)
(* started again; its lease stays in Redis.  A graceful shutdown is the    *)
(* same after its bridges were told to leave.                              *)
(***************************************************************************)
Crash(i) ==
  /\ Happens("crash")
  /\ entry' = [entry EXCEPT ![i] = {}]
  /\ starting' = starting \ {i}
  /\ refreshing' = refreshing \ {i}
  /\ bridge' = [b \in Bridges |-> IF Host[b] = i THEN "gone" ELSE bridge[b]]
  /\ pc' = [r \in Requests |-> IF At[r] = i THEN "idle" ELSE pc[r]]
  /\ resume' = resume \cup {i}
  /\ UNCHANGED lease

\* Mutant: the refresh timer does not extend the key.
ExpireRefreshed(i) ==
  /\ lease = {i}
  /\ \A r \in Requests : At[r] = i => pc[r] \notin {"clean", "spawn"}
  /\ \A b \in Bridges : Host[b] = i => bridge[b] # "releasing"
  /\ lease' = {}
  /\ UNCHANGED <<server, bridge, pc, resume, used>>

\* 60 seconds without a refresh.  A start reaches spawn(), and a release
\* reaches Redis, well before that.
Expire(i) ==
  /\ lease = {i}
  /\ i \notin refreshing
  /\ \A r \in Requests : At[r] = i => pc[r] \notin {"clean", "spawn"}
  /\ \A b \in Bridges : Host[b] = i => bridge[b] # "releasing"
  /\ lease' = {}
  /\ UNCHANGED <<server, bridge, pc, resume, used>>

-----------------------------------------------------------------------------
Handle(r) == Acquire(r) \/ Clean(r) \/ Spawn(r) \/ Disconnected(r)

Subprocess(b) == Exit(b) \/ OnExit(b) \/ Release(b)

Next ==
  \/ \E r \in Requests : \/ Ask(r) \/ Resume(r) \/ Disconnect(r)
                         \/ Handle(r) \/ SpawnError(r)
  \/ \E b \in Bridges : Leave(b) \/ Subprocess(b)
  \/ \E i \in Instances : \/ Ready(i) \/ Farewell(i) \/ Reattach(i)
                          \/ Crash(i) \/ Expire(i)

Spec == Init /\ [][Next]_vars

\* Awaits end, a bridge that was told to leave exits (or is killed after
\* three seconds), a boot is followed by auto-resume, and time passes.
FairSpec ==
  /\ Spec
  /\ \A r \in Requests : WF_vars(Handle(r))
  /\ \A b \in Bridges : WF_vars(Subprocess(b))
  /\ \A i \in Instances :
       /\ WF_vars(Expire(i))
       /\ SF_vars(\E r \in Requests : At[r] = i /\ Resume(r))

-----------------------------------------------------------------------------
\* "Without coordination, instance A and instance B could both spawn Chromium
\* for the same user": a user never has two bridges at once, on one instance
\* or on two, also while one that was told to leave is still closing.
OneBridge == AtMostOne({b \in Bridges : Live(b)})

\* A bridge runs under the lease of its own instance, which is being
\* refreshed: neither a disconnect, a crash elsewhere, an old child's exit
\* nor an expired lease takes it away while the bridge is alive.
LiveBridgeIsLeased ==
  \A b \in Bridges :
    Live(b) => lease = {Host[b]} /\ Host[b] \in refreshing

\* What the lease protects is one claim at a time: a start between its lease
\* and its spawn(), or a bridge until its release has reached Redis.
Starting(r) == pc[r] \in {"clean", "spawn"}

Present(b) == bridge[b] # "gone"

OneClaim ==
  /\ \A b, c \in Bridges : Present(b) /\ Present(c) => b = c
  /\ \A r, q \in Requests : Starting(r) /\ Starting(q) => r = q
  /\ \A b \in Bridges, r \in Requests : ~(Present(b) /\ Starting(r))

ClaimIsLeased ==
  /\ \A r \in Requests : Starting(r) => lease = {At[r]}
  /\ \A b \in Bridges :
       /\ Present(b) => lease = {Host[b]}
       /\ bridge[b] \in {"up", "leaving", "exited"} => Host[b] \in refreshing

LeaseInv == OneClaim /\ ClaimIsLeased

\* An instance refreshes the lease only while it has a bridge whose exit it has
\* not seen, so that an instance whose bridge is gone cannot keep the user from
\* the others.  A failed spawn() is the exception.
RefreshHasBridge ==
  used["spawnError"] = 0 =>
    \A i \in refreshing : \E b \in Bridges :
      Host[b] = i /\ bridge[b] \in {"up", "leaving", "exited"}

\* Seen from outside, requests, child events, crashes and timers do no more to
\* the lease and the bridges than LeaseContract allows.
Lease == INSTANCE LeaseContract WITH owner   <- lease,
                                     running <- {b \in Bridges : Live(b)}

KeepsLease == Lease!Spec

\* An instance never says "already connected" for a child whose exit it has
\* seen: the entry it holds names a child of its own that is still there.
EntryIsThere ==
  \A i \in Instances, b \in Bridges :
    b \in entry[i] => Host[b] = i /\ bridge[b] \in {"up", "leaving", "exited"}

\* An instance without a bridge does not keep the lease: it is released,
\* expires or gets its bridge, and the user can connect elsewhere.  A failed
\* spawn() is the exception: its refresh timer is never stopped.
LeaseIsFreed ==
  \A i \in Instances :
    lease = {i} ~> \/ lease # {i}
                   \/ \E b \in Bridges : Host[b] = i /\ Live(b)
                   \/ used["spawnError"] > 0

\* "We respawn the bridge for every user with a valid saved profile so they
\* don't have to click "Connect WhatsApp" again.": an instance that was
\* started is followed by a bridge for the user, unless it reattached to one.
RestartRestoresBridge ==
  \A i \in Instances :
    i \in resume ~> entry[i] # {} \/ \E b \in Bridges : bridge[b] = "up"
=============================================================================
