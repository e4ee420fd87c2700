------------------------ MODULE BridgeLifecycleProofs ------------------------
(***************************************************************************)
(* Proofs about BridgeLifecycle for any instances, bridges and requests:   *)
(* the lease keeps every user to one bridge.                               *)
(***************************************************************************)
EXTENDS BridgeLifecycle, TLAPS

\* The lease and every clients entry name at most one owner and one child,
\* whichever handlers interleave.
THEOREM TypeCorrect == Spec => []TypeOK
<1> USE HostAssumption, AtAssumption, BudgetAssumption DEF TypeOK, AtMostOne
<1>1. Init => TypeOK
  BY DEF Init
<1>2. TypeOK /\ [Next]_vars => TypeOK'
  <2> SUFFICES ASSUME TypeOK, [Next]_vars
               PROVE  TypeOK'
    OBVIOUS
  <2> USE DEF server, Goto, Happens, Told
  <2>1. ASSUME NEW r \in Requests, Ask(r) \/ Resume(r) \/ Disconnect(r)
        PROVE  TypeOK'
    BY <2>1 DEF Ask, Resume, Disconnect
  <2>2. ASSUME NEW r \in Requests, Acquire(r)
        PROVE  TypeOK'
    BY <2>2 DEF Acquire
  <2>3. ASSUME NEW r \in Requests, Clean(r)
        PROVE  TypeOK'
    BY <2>3 DEF Clean
  <2>4. ASSUME NEW r \in Requests, Spawn(r)
        PROVE  TypeOK'
    BY <2>4 DEF Spawn
  <2>5. ASSUME NEW r \in Requests, Disconnected(r)
        PROVE  TypeOK'
    BY <2>5 DEF Disconnected
  <2>6. ASSUME NEW r \in Requests, SpawnError(r)
        PROVE  TypeOK'
    <3>1. used' \in [RareEvents -> Nat]
      BY <2>6 DEF SpawnError, RareEvents
    <3>2. QED
      BY <2>6, <3>1 DEF SpawnError
  <2>7. ASSUME NEW b \in Bridges, Leave(b) \/ Exit(b)
        PROVE  TypeOK'
    BY <2>7 DEF Leave, Exit
  <2>8. ASSUME NEW b \in Bridges, OnExit(b)
        PROVE  TypeOK'
    BY <2>8 DEF OnExit
  <2>9. ASSUME NEW b \in Bridges, Release(b)
        PROVE  TypeOK'
    BY <2>9 DEF Release
  <2>10. ASSUME NEW i \in Instances, Ready(i) \/ Farewell(i) \/ Reattach(i)
         PROVE  TypeOK'
    BY <2>10 DEF Ready, Farewell, Reattach
  <2>11. ASSUME NEW i \in Instances, Crash(i)
         PROVE  TypeOK'
    <3>1. used' \in [RareEvents -> Nat]
      BY <2>11 DEF Crash, RareEvents
    <3>2. QED
      BY <2>11, <3>1 DEF Crash
  <2>12. ASSUME NEW i \in Instances, Expire(i)
         PROVE  TypeOK'
    BY <2>12 DEF Expire
  <2>13. CASE UNCHANGED vars
    BY <2>13 DEF vars
  <2>14. QED
    BY <2>1, <2>2, <2>3, <2>4, <2>5, <2>6, <2>7, <2>8, <2>9, <2>10, <2>11,
       <2>12, <2>13 DEF Next, Handle, Subprocess
<1>3. QED
  BY <1>1, <1>2, PTL DEF Spec

\* At most one start or bridge is ever under way, and it owns the lease.  A
\* start begins only when nobody owns the lease, so there is no claim then;
\* from there one claim turns into the next: the start into the bridge, the
\* bridge into its release.  The lease expires only when its owner has none.
LEMMA LeaseInvariant == Spec => []LeaseInv
<1> USE HostAssumption, AtAssumption
        DEF LeaseInv, OneClaim, ClaimIsLeased, Starting, Present
<1>1. Init => LeaseInv
  BY DEF Init
<1>2. TypeOK /\ LeaseInv /\ [Next]_vars => LeaseInv'
  <2> SUFFICES ASSUME TypeOK, LeaseInv, [Next]_vars
               PROVE  LeaseInv'
    OBVIOUS
  <2> USE DEF TypeOK, server, Goto, Told
  <2>1. ASSUME NEW r \in Requests, Ask(r) \/ Resume(r) \/ Disconnect(r)
        PROVE  LeaseInv'
    BY <2>1 DEF Ask, Resume, Disconnect
  <2>2. ASSUME NEW r \in Requests, Acquire(r)
        PROVE  LeaseInv'
    <3>1. CASE lease = {}
      <4>1. /\ \A q \in Requests : ~Starting(q)
            /\ \A b \in Bridges : ~Present(b)
        BY <3>1
      <4>2. QED
        BY <2>2, <3>1, <4>1 DEF Acquire
    <3>2. CASE lease # {}
      BY <2>2, <3>2 DEF Acquire
    <3>3. QED
      BY <3>1, <3>2
  <2>3. ASSUME NEW r \in Requests, Clean(r)
        PROVE  LeaseInv'
    BY <2>3 DEF Clean
  <2>4. ASSUME NEW r \in Requests, Spawn(r)
        PROVE  LeaseInv'
    BY <2>4 DEF Spawn
  <2>5. ASSUME NEW r \in Requests, Disconnected(r)
        PROVE  LeaseInv'
    BY <2>5 DEF Disconnected
  <2>6. ASSUME NEW r \in Requests, SpawnError(r)
        PROVE  LeaseInv'
    BY <2>6 DEF SpawnError
  <2>7. ASSUME NEW b \in Bridges, Leave(b) \/ Exit(b)
        PROVE  LeaseInv'
    BY <2>7 DEF Leave, Exit
  <2>8. ASSUME NEW b \in Bridges, OnExit(b)
        PROVE  LeaseInv'
    BY <2>8 DEF OnExit
  <2>9. ASSUME NEW b \in Bridges, Release(b)
        PROVE  LeaseInv'
    <3>1. /\ \A c \in Bridges : Present(c) => c = b
          /\ \A r \in Requests : ~Starting(r)
      BY <2>9 DEF Release
    <3>2. QED
      BY <2>9, <3>1 DEF Release
  <2>10. ASSUME NEW i \in Instances, Ready(i) \/ Farewell(i) \/ Reattach(i)
         PROVE  LeaseInv'
    BY <2>10 DEF Ready, Farewell, Reattach
  <2>11. ASSUME NEW i \in Instances, Crash(i)
         PROVE  LeaseInv'
    BY <2>11 DEF Crash
  <2>12. ASSUME NEW i \in Instances, Expire(i)
         PROVE  LeaseInv'
    <3>1. /\ \A r \in Requests : ~Starting(r)
          /\ \A b \in Bridges : ~Present(b)
      BY <2>12 DEF Expire
    <3>2. QED
      BY <2>12, <3>1 DEF Expire
  <2>13. CASE UNCHANGED vars
    BY <2>13 DEF vars
  <2>14. QED
    BY <2>1, <2>2, <2>3, <2>4, <2>5, <2>6, <2>7, <2>8, <2>9, <2>10, <2>11,
       <2>12, <2>13 DEF Next, Handle, Subprocess
<1>3. QED
  BY <1>1, <1>2, TypeCorrect, PTL DEF Spec

\* However many instances and requests compete, and whichever of them crash,
\* a user has at most one bridge: the promise the lease is there for.
THEOREM OneBridgeHolds == Spec => []OneBridge
<1>1. LeaseInv => OneBridge
  BY DEF LeaseInv, OneClaim, OneBridge, AtMostOne, Present, Live
<1>2. QED
  BY <1>1, LeaseInvariant, PTL

\* A live bridge always runs under a lease of its own instance that is being
\* refreshed, so no other instance can be granted one.
THEOREM LiveBridgeIsLeasedHolds == Spec => []LiveBridgeIsLeased
<1>1. LeaseInv => LiveBridgeIsLeased
  BY DEF LeaseInv, ClaimIsLeased, LiveBridgeIsLeased, Present, Live
<1>2. QED
  BY <1>1, LeaseInvariant, PTL

\* No instance keeps an entry for a child whose exit it has handled, although
\* entries are set and dropped by user and not by child.
THEOREM EntryIsThereHolds == Spec => []EntryIsThere
<1> USE HostAssumption, AtAssumption, BridgesAssumption DEF EntryIsThere
<1>1. Init => EntryIsThere
  BY DEF Init
<1>2. TypeOK /\ EntryIsThere /\ [Next]_vars => EntryIsThere'
  <2> SUFFICES ASSUME TypeOK, EntryIsThere, [Next]_vars
               PROVE  EntryIsThere'
    OBVIOUS
  <2> USE DEF TypeOK, server, Goto, Told
  <2>1. ASSUME NEW r \in Requests, Ask(r) \/ Resume(r) \/ Acquire(r)
        PROVE  EntryIsThere'
    BY <2>1 DEF Ask, Resume, Acquire
  <2>2. ASSUME NEW r \in Requests, Disconnect(r) \/ Disconnected(r)
        PROVE  EntryIsThere'
    BY <2>2 DEF Disconnect, Disconnected
  <2>3. ASSUME NEW r \in Requests, Clean(r)
        PROVE  EntryIsThere'
    BY <2>3 DEF Clean
  <2>4. ASSUME NEW r \in Requests, Spawn(r)
        PROVE  EntryIsThere'
    BY <2>4 DEF Spawn
  <2>5. ASSUME NEW r \in Requests, SpawnError(r)
        PROVE  EntryIsThere'
    BY <2>5 DEF SpawnError
  <2>6. ASSUME NEW b \in Bridges, Leave(b) \/ Exit(b)
        PROVE  EntryIsThere'
    BY <2>6 DEF Leave, Exit
  <2>7. ASSUME NEW b \in Bridges, OnExit(b)
        PROVE  EntryIsThere'
    BY <2>7 DEF OnExit
  <2>8. ASSUME NEW b \in Bridges, Release(b)
        PROVE  EntryIsThere'
    BY <2>8 DEF Release
  <2>9. ASSUME NEW i \in Instances, Ready(i) \/ Farewell(i) \/ Reattach(i)
        PROVE  EntryIsThere'
    BY <2>9 DEF Ready, Farewell, Reattach
  <2>10. ASSUME NEW i \in Instances, Crash(i)
         PROVE  EntryIsThere'
    BY <2>10 DEF Crash
  <2>11. ASSUME NEW i \in Instances, Expire(i)
         PROVE  EntryIsThere'
    BY <2>11 DEF Expire
  <2>12. CASE UNCHANGED vars
    BY <2>12 DEF vars
  <2>13. QED
    BY <2>1, <2>2, <2>3, <2>4, <2>5, <2>6, <2>7, <2>8, <2>9, <2>10, <2>11,
       <2>12 DEF Next, Handle, Subprocess
<1>3. QED
  BY <1>1, <1>2, TypeCorrect, PTL DEF Spec

\* As long as no spawn() failed, whoever refreshes the lease has a bridge that it
\* will see exit, so no timer keeps the lease of a bridge that is gone.
THEOREM RefreshHasBridgeHolds == Spec => []RefreshHasBridge
<1> USE HostAssumption, AtAssumption DEF RefreshHasBridge
<1>1. Init => RefreshHasBridge
  BY DEF Init
<1>2. TypeOK /\ RefreshHasBridge /\ [Next]_vars => RefreshHasBridge'
  <2> SUFFICES ASSUME TypeOK, RefreshHasBridge, [Next]_vars
               PROVE  RefreshHasBridge'
    OBVIOUS
  <2> USE DEF TypeOK, server, Goto, Told
  <2>1. ASSUME NEW r \in Requests, Ask(r) \/ Resume(r) \/ Acquire(r)
        PROVE  RefreshHasBridge'
    BY <2>1 DEF Ask, Resume, Acquire
  <2>2. ASSUME NEW r \in Requests, Disconnect(r) \/ Disconnected(r)
        PROVE  RefreshHasBridge'
    BY <2>2 DEF Disconnect, Disconnected
  <2>3. ASSUME NEW r \in Requests, Clean(r)
        PROVE  RefreshHasBridge'
    <3>1. used'["spawnError"] = used["spawnError"]
      BY <2>3 DEF Clean, Happens, RareEvents
    <3>2. QED
      BY <2>3, <3>1 DEF Clean
  <2>4. ASSUME NEW r \in Requests, Spawn(r)
        PROVE  RefreshHasBridge'
    BY <2>4 DEF Spawn
  <2>5. ASSUME NEW r \in Requests, SpawnError(r)
        PROVE  RefreshHasBridge'
    BY <2>5 DEF SpawnError, Happens, RareEvents
  <2>6. ASSUME NEW b \in Bridges, Leave(b) \/ Exit(b)
        PROVE  RefreshHasBridge'
    BY <2>6 DEF Leave, Exit
  <2>7. ASSUME NEW b \in Bridges, OnExit(b)
        PROVE  RefreshHasBridge'
    BY <2>7 DEF OnExit
  <2>8. ASSUME NEW b \in Bridges, Release(b)
        PROVE  RefreshHasBridge'
    BY <2>8 DEF Release
  <2>9. ASSUME NEW i \in Instances, Ready(i) \/ Farewell(i) \/ Reattach(i)
        PROVE  RefreshHasBridge'
    BY <2>9 DEF Ready, Farewell, Reattach
  <2>10. ASSUME NEW i \in Instances, Crash(i)
         PROVE  RefreshHasBridge'
    <3>1. used'["spawnError"] = used["spawnError"]
      BY <2>10 DEF Crash, Happens, RareEvents
    <3>2. QED
      BY <2>10, <3>1 DEF Crash
  <2>11. ASSUME NEW i \in Instances, Expire(i)
         PROVE  RefreshHasBridge'
    BY <2>11 DEF Expire
  <2>12. CASE UNCHANGED vars
    BY <2>12 DEF vars
  <2>13. QED
    BY <2>1, <2>2, <2>3, <2>4, <2>5, <2>6, <2>7, <2>8, <2>9, <2>10, <2>11,
       <2>12 DEF Next, Handle, Subprocess
<1>3. QED
  BY <1>1, <1>2, TypeCorrect, PTL DEF Spec

-----------------------------------------------------------------------------
(* The bridges and the lease implement LeaseContract *)

\* The bridge that the contract sees running.
Running == {b \in Bridges : Live(b)}

\* Every step is a step of the contract or leaves it where it is.  A lease is
\* granted, and a bridge started, when there is no claim; the lease is given up
\* when its owner has none; whatever else stops a bridge leaves the lease alone.
LEMMA LeaseStep ==
  ASSUME TypeOK, LeaseInv, [Next]_vars
  PROVE  [Lease!Next]_(Lease!contract)
<1> USE HostAssumption, AtAssumption
<1>1. ASSUME lease' = lease, Running' = Running
      PROVE  [Lease!Next]_(Lease!contract)
  BY <1>1 DEF Lease!contract, Running
<1>2. ASSUME lease' = lease, Running' = {}
      PROVE  [Lease!Next]_(Lease!contract)
  BY <1>2 DEF Lease!Next, Lease!Stop, Running
<1>3. ASSUME lease' = {}, Running = {}, Running' = {}
      PROVE  [Lease!Next]_(Lease!contract)
  BY <1>3 DEF Lease!Next, Lease!Free, Running
<1>4. Running = {} \/ \E b \in Bridges : Running = {b}
  BY DEF Running, LeaseInv, OneClaim, Present, Live
<1>5. ASSUME lease' = lease, Running' \subseteq Running
      PROVE  [Lease!Next]_(Lease!contract)
  BY <1>1, <1>2, <1>4, <1>5
<1> USE DEF server, Goto, Told
<1>6. ASSUME NEW r \in Requests, Ask(r) \/ Resume(r) \/ SpawnError(r)
      PROVE  [Lease!Next]_(Lease!contract)
  BY <1>1, <1>6 DEF Ask, Resume, SpawnError, Running, Live
<1>7. ASSUME NEW r \in Requests, Acquire(r)
      PROVE  [Lease!Next]_(Lease!contract)
  <2>1. UNCHANGED bridge /\ At[r] \in Instances
    BY <1>7 DEF Acquire
  <2>2. CASE lease = {} /\ lease' = {At[r]}
    <3>1. Running = {}
      BY <2>2 DEF Running, LeaseInv, ClaimIsLeased, Present, Live
    <3>2. Running' = Running
      BY <2>1 DEF Running, Live
    <3>3. QED
      BY <2>1, <2>2, <3>1, <3>2 DEF Lease!Next, Lease!Grant, Running
  <2>3. CASE lease' = lease
    BY <1>1, <2>1, <2>3 DEF Running, Live
  <2>4. QED
    BY <1>7, <2>2, <2>3 DEF Acquire
<1>8. ASSUME NEW r \in Requests, Clean(r) \/ Disconnect(r) \/ Disconnected(r)
      PROVE  [Lease!Next]_(Lease!contract)
  <2>1. Running' \subseteq Running /\ lease' = lease
    BY <1>8 DEF Clean, Disconnect, Disconnected, Running, Live, TypeOK
  <2>2. QED
    BY <1>5, <2>1
<1>9. ASSUME NEW r \in Requests, Spawn(r)
      PROVE  [Lease!Next]_(Lease!contract)
  <2>1. PICK b \in Bridges : /\ Host[b] = At[r] /\ bridge[b] = "gone"
                             /\ bridge' = [bridge EXCEPT ![b] = "up"]
    BY <1>9 DEF Spawn
  <2>2. lease = {Host[b]} /\ lease' = lease
    BY <1>9, <2>1 DEF Spawn, LeaseInv, ClaimIsLeased, Starting
  <2>3. Running = {}
    BY <1>9 DEF Spawn, Running, LeaseInv, OneClaim, Starting, Present, Live
  <2>4. Running' = {b}
    BY <2>1, <2>3 DEF Running, Live, TypeOK
  <2>5. QED
    BY <2>2, <2>3, <2>4 DEF Lease!Next, Lease!Start, Running
<1>10. ASSUME NEW b \in Bridges, Leave(b) \/ Exit(b) \/ OnExit(b)
       PROVE  [Lease!Next]_(Lease!contract)
  <2>1. Running' \subseteq Running /\ lease' = lease
    BY <1>10 DEF Leave, Exit, OnExit, Running, Live, TypeOK
  <2>2. QED
    BY <1>5, <2>1
<1>11. ASSUME NEW b \in Bridges, Release(b)
       PROVE  [Lease!Next]_(Lease!contract)
  <2>1. lease = {Host[b]}
    BY <1>11 DEF Release, LeaseInv, ClaimIsLeased, Present
  <2>2. lease' = {}
    BY <1>11, <2>1 DEF Release
  <2>3. Running = {} /\ Running' = {}
    BY <1>11 DEF Release, Running, LeaseInv, OneClaim, Present, Live, TypeOK
  <2>4. QED
    BY <1>3, <2>2, <2>3
<1>12. ASSUME NEW i \in Instances, Ready(i) \/ Farewell(i) \/ Reattach(i)
       PROVE  [Lease!Next]_(Lease!contract)
  BY <1>1, <1>12 DEF Ready, Farewell, Reattach, Running, Live
<1>13. ASSUME NEW i \in Instances, Crash(i)
       PROVE  [Lease!Next]_(Lease!contract)
  <2>1. Running' \subseteq Running /\ lease' = lease
    BY <1>13 DEF Crash, Running, Live, TypeOK
  <2>2. QED
    BY <1>5, <2>1
<1>14. ASSUME NEW i \in Instances, Expire(i)
       PROVE  [Lease!Next]_(Lease!contract)
  <2>1. lease = {i} /\ lease' = {} /\ i \notin refreshing /\ UNCHANGED bridge
    BY <1>14 DEF Expire
  <2>2. Running = {}
    BY <2>1 DEF Running, LeaseInv, ClaimIsLeased, Present, Live
  <2>3. Running' = Running
    BY <2>1 DEF Running, Live
  <2>4. QED
    BY <1>3, <2>1, <2>2, <2>3
<1>15. CASE UNCHANGED vars
  BY <1>1, <1>15 DEF vars, Running, Live
<1>16. QED
  BY <1>6, <1>7, <1>8, <1>9, <1>10, <1>11, <1>12, <1>13, <1>14, <1>15
     DEF Next, Handle, Subprocess

\* For any number of instances, requests, crashes and failures, the bridges and
\* the lease implement LeaseContract.
THEOREM KeepsLeaseHolds == Spec => KeepsLease
<1>1. Init => Lease!Init
  BY DEF Init, Lease!Init, Live
<1>2. TypeOK /\ LeaseInv /\ [Next]_vars => [Lease!Next]_(Lease!contract)
  BY LeaseStep
<1>3. QED
  BY <1>1, <1>2, TypeCorrect, LeaseInvariant, PTL DEF Spec, KeepsLease, Lease!Spec
=============================================================================
