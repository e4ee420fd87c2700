---------------------------- MODULE LeaseContract ----------------------------
(***************************************************************************)
(* What the bridge lease promises, with no request, timer or Redis call in *)
(* sight: a user's bridge is started by the owner of the lease and nobody  *)
(* else, there is one at a time, and while it runs the lease does not      *)
(* change hands.                                                           *)
(***************************************************************************)
CONSTANTS
  Instances,  \* API server instances
  Bridges,    \* bridge subprocesses
  Host        \* the instance of each bridge

VARIABLES
  owner,      \* the instance that owns the lease, if any
  running     \* the bridge that runs, if any

contract == <<owner, running>>

Init == owner = {} /\ running = {}

Grant(i) ==
  /\ owner = {} /\ running = {}
  /\ owner' = {i}
  /\ UNCHANGED running

Start(b) ==
  /\ owner = {Host[b]} /\ running = {}
  /\ running' = {b}
  /\ UNCHANGED owner

Stop ==
  /\ running' = {}
  /\ UNCHANGED owner

\* Released, or expired.
Free ==
  /\ running = {}
  /\ owner' = {}
  /\ UNCHANGED running

Next ==
  \/ \E i \in Instances : Grant(i)
  \/ \E b \in Bridges : Start(b)
  \/ Stop \/ Free

Spec == Init /\ [][Next]_contract
=============================================================================
