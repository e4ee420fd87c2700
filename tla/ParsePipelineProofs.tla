------------------------- MODULE ParsePipelineProofs -------------------------
(***************************************************************************)
(* Proofs about ParsePipeline, for any set of messages and of workers, any *)
(* number of attempts, any batch sizes, any queue and any number of faults.*)
(*                                                                         *)
(* Every invariant below rests on TypeOK.  StepCases sorts the actions by  *)
(* what they do to the job table, the listings and the two program points  *)
(* that remember an earlier statement ("finish", "bury"); each invariant   *)
(* then needs one step per kind.                                           *)
(***************************************************************************)
EXTENDS ParsePipeline, SequenceTheorems, TLAPS

\* Every row, queue entry, timer and message held by a worker names a stored
\* raw message, and every counter is a natural number, in any reachable state.
THEOREM TypeCorrect == Spec => []TypeOK
<1> USE DEF TypeOK, RowsOK, JobsOK, WorkersOK, TimersOK, JobStatus, Control, Busy,
        NoMessage, vars, postgres, worker, bridge, api
<1>1. Init => TypeOK
  BY DEF Init, QueueOK, UsedOK
<1>2. TypeOK /\ [Next]_vars => TypeOK'
  <2> SUFFICES ASSUME TypeOK, [Next]_vars
               PROVE  TypeOK'
    OBVIOUS
  <2>a. \A m \in raw : (Pushed(m) \/ Dropped \/ Thrown(m)) /\ raw' = raw => QueueOK'
    <3> SUFFICES ASSUME NEW m \in raw, Pushed(m) \/ Dropped \/ Thrown(m), raw' = raw
                 PROVE  queue' \in Seq(raw)
      BY DEF QueueOK
    <3>1. Append(queue, m) \in Seq(raw)
      BY DEF QueueOK
    <3>2. QED
      BY <3>1 DEF QueueOK, Pushed, Dropped, Thrown
  <2>b. \A e \in RareEvents : Happens(e) => UsedOK'
    BY DEF Happens, UsedOK
  <2>c. UNCHANGED <<raw, queue>> => QueueOK'
    BY DEF QueueOK
  <2>d. UNCHANGED used => UsedOK'
    BY DEF UsedOK
  <2>e. ASSUME NEW m \in raw, NEW s \in JobStatus, NEW n \in Nat,
               SetJob(m, s, n), raw' = raw
        PROVE  JobsOK'
    <3>1. [status |-> s, attempts |-> n] \in [status : JobStatus, attempts : Nat]
      OBVIOUS
    <3>2. job' = [job EXCEPT ![m] = [status |-> s, attempts |-> n]]
      BY <2>e DEF SetJob
    <3>3. job' \in [Messages -> [status : JobStatus, attempts : Nat]]
      BY <3>1, <3>2
    <3>4. \A k \in Messages : job'[k].status # "none" => k \in raw
      BY <3>2
    <3>5. QED
      BY <3>3, <3>4, <2>e
  <2>f. \A m \in raw : job[m].attempts \in Nat
    <3>1. \A m \in Messages : job[m] \in [status : JobStatus, attempts : Nat]
      OBVIOUS
    <3>2. QED
      BY <3>1
  <2>1. ASSUME NEW m \in Messages, StoreRaw(m)
        PROVE  TypeOK'
    <3>1. QueueOK'
      BY <2>1, SeqMonotonic DEF StoreRaw, QueueOK
    <3>2. QED
      BY <2>1, <3>1, <2>d DEF StoreRaw
  <2>2. ASSUME NEW m \in Messages, SendRaw(m)
        PROVE  TypeOK'
    BY <2>2, <2>a, <2>b, <2>c, <2>d DEF SendRaw
  <2>3. ASSUME NEW m \in Messages, GrowStale(m)
        PROVE  TypeOK'
    BY <2>3, <2>a, <2>b, <2>c, <2>d DEF GrowStale
  <2>4. ASSUME NEW m \in Messages, ReprocessPush(m)
        PROVE  TypeOK'
    BY <2>4, <2>a, <2>b, <2>c, <2>d DEF ReprocessPush, RareEvents
  <2>5. CASE BridgeCrash
    BY <2>5, <2>a, <2>b, <2>c, <2>d DEF BridgeCrash, RareEvents
  <2>6. CASE QueueLoss
    <3>1. <<>> \in Seq(raw) /\ Tail(queue) \in Seq(raw) /\ raw' = raw
      BY <2>6 DEF QueueLoss, QueueOK
    <3>2. QueueOK'
      BY <2>6, <3>1 DEF QueueLoss, QueueOK
    <3>3. QED
      BY <2>6, <3>2, <2>b DEF QueueLoss, RareEvents
  <2>7. CASE ReparseDelete
    BY <2>7, <2>a, <2>b, <2>c, <2>d DEF ReparseDelete, RareEvents
  <2>8. CASE ReparseSelect
    BY <2>8, <2>a, <2>b, <2>c, <2>d DEF ReparseSelect
  <2>9. CASE ReparsePush
    BY <2>9, <2>a, <2>b, <2>c, <2>d DEF ReparsePush, Newest
  <2>10. CASE ReparseAbort
    BY <2>10, <2>a, <2>b, <2>c, <2>d DEF ReparseAbort, RareEvents
  <2>11. ASSUME NEW w \in Workers, Start(w)
        PROVE  TypeOK'
    BY <2>11, <2>a, <2>b, <2>c, <2>d DEF Start, Limited
  <2>12. ASSUME NEW w \in Workers, RecoverPush(w)
        PROVE  TypeOK'
    BY <2>12, <2>a, <2>b, <2>c, <2>d DEF RecoverPush, PushFromSweep, Newest
  <2>13. ASSUME NEW w \in Workers, ReapPush(w)
        PROVE  TypeOK'
    BY <2>13, <2>a, <2>b, <2>c, <2>d DEF ReapPush, PushFromSweep
  <2>14. ASSUME NEW w \in Workers, SweepEnd(w)
        PROVE  TypeOK'
    BY <2>14, <2>a, <2>b, <2>c, <2>d DEF SweepEnd
  <2>15. ASSUME NEW w \in Workers, PollTake(w)
        PROVE  TypeOK'
    BY <2>15, <2>a, <2>b, <2>c, <2>d DEF PollTake, Newest
  <2>16. ASSUME NEW w \in Workers, Claim(w)
        PROVE  TypeOK'
    <3>1. cur[w] \in raw
      BY <2>16 DEF Claim
    <3>2. JobsOK'
      <4>1. job[cur[w]].attempts + 1 \in Nat
        <5>1. job[cur[w]].attempts \in Nat
          BY <3>1, <2>f
        <5>2. QED
          BY <5>1
      <4>2. QED
        BY <2>16, <3>1, <4>1, <2>e DEF Claim
    <3>3. RowsOK' /\ WorkersOK' /\ TimersOK'
      BY <2>16 DEF Claim, SetJob
    <3>4. QED
      BY <2>16, <3>2, <3>3, <2>c, <2>d DEF Claim
  <2>17. ASSUME NEW w \in Workers, Publish(w)
        PROVE  TypeOK'
    BY <2>17, <2>a, <2>b, <2>c, <2>d DEF Publish
  <2>18. ASSUME NEW w \in Workers, ParseError(w)
        PROVE  TypeOK'
    BY <2>18, <2>a, <2>b, <2>c, <2>d DEF ParseError, Throw, Return, Release
  <2>19. ASSUME NEW w \in Workers, Finish(w)
        PROVE  TypeOK'
    <3>1. cur[w] \in raw /\ job[cur[w]].attempts \in Nat
      BY <2>19, <2>f DEF Finish
    <3>2. JobsOK'
      BY <2>19, <3>1, <2>e DEF Finish
    <3>3. WorkersOK'
      BY <2>19 DEF Finish, Return, Release
    <3>4. RowsOK' /\ TimersOK'
      BY <2>19 DEF Finish, SetJob
    <3>5. QED
      BY <2>19, <3>2, <3>3, <3>4, <2>c, <2>d DEF Finish
  <2>20. ASSUME NEW w \in Workers, RecordFailure(w)
        PROVE  TypeOK'
    <3>1. cur[w] \in raw
      BY <2>20 DEF RecordFailure
    <3>2. JobsOK' /\ RowsOK'
      <4>1. job[cur[w]].attempts + 1 \in Nat
        <5>1. job[cur[w]].attempts \in Nat
          BY <3>1, <2>f
        <5>2. QED
          BY <5>1
      <4>2. JobsOK'
        BY <2>20, <3>1, <4>1, <2>e DEF RecordFailure
      <4>3. QED
        BY <2>20, <4>2 DEF RecordFailure, SetJob
    <3>3. WorkersOK'
      BY <2>20 DEF RecordFailure, Release
    <3>4. TimersOK'
      <4>1. CASE timers' = timers
        BY <2>20, <4>1 DEF RecordFailure
      <4>2. CASE timers' = [timers EXCEPT ![w][cur[w]] = @ + 1]
        <5>1. cur[w] \in Messages /\ timers[w][cur[w]] \in Nat
          <6>1. cur[w] \in Messages
            BY <3>1
          <6>2. timers[w] \in [Messages -> Nat]
            OBVIOUS
          <6>3. QED
            BY <6>1, <6>2
        <5>2. [timers[w] EXCEPT ![cur[w]] = @ + 1] \in [Messages -> Nat]
          BY <5>1
        <5>3. timers' = [timers EXCEPT ![w] = [timers[w] EXCEPT ![cur[w]] = @ + 1]]
          BY <4>2
        <5>4. \A v \in Workers, m \in Messages : timers'[v][m] > 0 => m \in raw
          BY <3>1, <5>1, <5>3
        <5>5. raw' = raw
          BY <2>20 DEF RecordFailure
        <5>6. QED
          BY <5>2, <5>3, <5>4, <5>5
      <4>3. QED
        BY <2>20, <4>1, <4>2 DEF RecordFailure
    <3>5. QED
      BY <2>20, <3>2, <3>3, <3>4, <2>c, <2>d DEF RecordFailure
  <2>21. ASSUME NEW w \in Workers, Bury(w)
        PROVE  TypeOK'
    BY <2>21, <2>a, <2>b, <2>c, <2>d DEF Bury, SetJob, Release
  <2>22. ASSUME NEW w \in Workers, ReapScan(w)
        PROVE  TypeOK'
    <3>1. Stuck \subseteq raw
      BY DEF Stuck
    <3>2. JobsOK'
      <4>1. \A m \in Messages :
              /\ Rearmed(m) \in [status : JobStatus, attempts : Nat]
              /\ m \in Stuck \/ job'[m] = job[m]
        BY <2>22 DEF ReapScan, Rearmed
      <4>2. job' \in [Messages -> [status : JobStatus, attempts : Nat]]
        BY <2>22, <4>1 DEF ReapScan
      <4>3. QED
        BY <2>22, <3>1, <4>1, <4>2 DEF ReapScan
    <3>3. RowsOK' /\ TimersOK'
      BY <2>22 DEF ReapScan
    <3>4. WorkersOK'
      BY <2>22, <3>1 DEF ReapScan
    <3>5. QED
      BY <2>22, <3>2, <3>3, <3>4, <2>c, <2>d DEF ReapScan
  <2>23. ASSUME NEW w \in Workers, PollScan(w)
        PROVE  TypeOK'
    BY <2>23, <2>a, <2>b, <2>c, <2>d DEF PollScan, Orphans, Limited
  <2>24. ASSUME NEW w \in Workers, Dequeue(w)
        PROVE  TypeOK'
    <3>1. Head(queue) \in raw /\ Tail(queue) \in Seq(raw)
      BY <2>24 DEF Dequeue, QueueOK
    <3>2. QueueOK'
      BY <2>24, <3>1 DEF Dequeue, QueueOK
    <3>3. WorkersOK'
      BY <2>24, <3>1 DEF Dequeue
    <3>4. QED
      BY <2>24, <3>2, <3>3, <2>d DEF Dequeue
  <2>25. ASSUME NEW w \in Workers, DbError(w)
        PROVE  TypeOK'
    <3>1. UsedOK'
      BY <2>25, <2>b DEF DbError, RareEvents
    <3>2. WorkersOK'
      BY <2>25 DEF DbError, Throw, Return, Release
    <3>3. UNCHANGED <<postgres, queue, timers, bridge, api>>
      BY <2>25 DEF DbError, Throw, Release
    <3>4. QED
      BY <3>1, <3>2, <3>3, <2>c
  <2>26. ASSUME NEW w \in Workers, WorkerCrash(w)
        PROVE  TypeOK'
    BY <2>26, <2>a, <2>b, <2>c, <2>d DEF WorkerCrash, Release, RareEvents
  <2>27. ASSUME NEW w \in Workers, NEW m \in Messages, TimerFires(w, m)
        PROVE  TypeOK'
    BY <2>27, <2>a, <2>b, <2>c, <2>d DEF TimerFires
  <2>28. ASSUME NEW w \in Workers, Report(w)
        PROVE  TypeOK'
    <3>1. WorkersOK'
      BY <2>28 DEF Report, Throw, Return, Release
    <3>2. UNCHANGED <<postgres, queue, timers, bridge, api, used>>
      BY <2>28 DEF Report, Throw
    <3>3. QED
      BY <3>1, <3>2, <2>c, <2>d
  <2>29. CASE UNCHANGED vars
    BY <2>29, <2>c, <2>d
  <2>30. QED
    BY <2>1, <2>2, <2>3, <2>4, <2>5, <2>6, <2>7, <2>8, <2>9, <2>10, <2>11,
       <2>12, <2>13, <2>14, <2>15, <2>16, <2>17, <2>18, <2>19, <2>20, <2>21,
       <2>22, <2>23, <2>24, <2>25, <2>26, <2>27, <2>28, <2>29
    DEF Next, Environment, Worker, Process
<1>3. QED
  BY <1>1, <1>2, PTL DEF Spec

\* A step that leaves the stored rows, the jobs and the listings alone, brings
\* no worker to "finish" or "bury", and takes one away from "bury" only by a
\* crash or a database error.
Calm ==
  /\ UNCHANGED <<raw, job, listing>>
  /\ used' \in [RareEvents -> Nat]
  /\ \A e \in RareEvents : used'[e] >= used[e]
  /\ \A w \in Workers :
       pc'[w] \in {"finish", "bury"} => pc'[w] = pc[w] /\ cur'[w] = cur[w]
  /\ used'["crash"] + used'["dbError"] = 0 =>
       \A w \in Workers : pc[w] = "bury" => pc'[w] = "bury" /\ cur'[w] = cur[w]

\* The steps of the pipeline by what they do to the tables.
LEMMA StepCases ==
  ASSUME TypeOK, [Next]_vars
  PROVE  \/ Calm
         \/ ReparseDelete
         \/ \E m \in Messages : StoreRaw(m)
         \/ \E w \in Workers : \/ Claim(w) \/ Publish(w) \/ Finish(w)
                              \/ RecordFailure(w) \/ Bury(w) \/ ReapScan(w)
<1> USE DEF Calm, TypeOK, WorkersOK, UsedOK, RareEvents, Control, Busy, vars,
        postgres, worker, bridge, api
<1>1. ASSUME NEW m \in Messages, SendRaw(m)
      PROVE  Calm
  BY <1>1 DEF SendRaw
<1>2. ASSUME NEW m \in Messages, GrowStale(m)
      PROVE  Calm
  BY <1>2 DEF GrowStale
<1>3. ASSUME NEW m \in Messages, ReprocessPush(m)
      PROVE  Calm
  BY <1>3 DEF ReprocessPush, Happens
<1>4. CASE BridgeCrash
  BY <1>4 DEF BridgeCrash, Happens
<1>5. CASE QueueLoss
  BY <1>5 DEF QueueLoss, Happens
<1>6. CASE ReparseSelect
  BY <1>6 DEF ReparseSelect
<1>7. CASE ReparsePush
  BY <1>7 DEF ReparsePush
<1>8. CASE ReparseAbort
  BY <1>8 DEF ReparseAbort, Happens
<1>9. ASSUME NEW w \in Workers, Start(w)
      PROVE  Calm
  BY <1>9 DEF Start
<1>10. ASSUME NEW w \in Workers, RecoverPush(w)
      PROVE  Calm
  BY <1>10 DEF RecoverPush, PushFromSweep
<1>11. ASSUME NEW w \in Workers, ReapPush(w)
      PROVE  Calm
  BY <1>11 DEF ReapPush, PushFromSweep
<1>12. ASSUME NEW w \in Workers, SweepEnd(w)
      PROVE  Calm
  BY <1>12 DEF SweepEnd
<1>13. ASSUME NEW w \in Workers, PollTake(w)
      PROVE  Calm
  BY <1>13 DEF PollTake
<1>14. ASSUME NEW w \in Workers, ParseError(w)
      PROVE  Calm
  BY <1>14 DEF ParseError, Throw, Return, Release
<1>15. ASSUME NEW w \in Workers, Report(w)
      PROVE  Calm
  BY <1>15 DEF Report, Throw, Return, Release
<1>16. ASSUME NEW w \in Workers, PollScan(w)
      PROVE  Calm
  BY <1>16 DEF PollScan
<1>17. ASSUME NEW w \in Workers, Dequeue(w)
      PROVE  Calm
  BY <1>17 DEF Dequeue
<1>18. ASSUME NEW w \in Workers, DbError(w)
      PROVE  Calm
  BY <1>18 DEF DbError, Happens, Throw, Return, Release
<1>19. ASSUME NEW w \in Workers, WorkerCrash(w)
      PROVE  Calm
  BY <1>19 DEF WorkerCrash, Happens, Release
<1>20. ASSUME NEW w \in Workers, NEW m \in Messages, TimerFires(w, m)
      PROVE  Calm
  BY <1>20 DEF TimerFires
<1>21. CASE UNCHANGED vars
  BY <1>21
<1>22. QED
  BY <1>1, <1>2, <1>3, <1>4, <1>5, <1>6, <1>7, <1>8, <1>9, <1>10, <1>11,
     <1>12, <1>13, <1>14, <1>15, <1>16, <1>17, <1>18, <1>19, <1>20, <1>21
  DEF Next, Environment, Worker, Process

\* The attempts recorded agree with the state of the job, and a worker about to
\* bury a job has seen its attempts exhausted.
LEMMA DeadLetterInvariant == Spec => []DeadLetterInv
<1> USE MaxAttemptsAssumption
    DEF DeadLetterInv, DeadLetterBudget, BuryExhausted, Exhausted, TypeOK,
        RowsOK, JobsOK, WorkersOK, UsedOK, RareEvents, JobStatus, Control, Busy,
        vars, postgres, worker, bridge, api
<1>1. Init => DeadLetterInv
  BY DEF Init
<1>2. TypeOK /\ DeadLetterInv /\ [Next]_vars => DeadLetterInv'
  <2> SUFFICES ASSUME TypeOK, DeadLetterInv, [Next]_vars
               PROVE  DeadLetterInv'
    OBVIOUS
  <2>1. CASE Calm
    BY <2>1 DEF Calm
  <2>2. CASE ReparseDelete
    BY <2>2 DEF ReparseDelete, Happens
  <2>3. ASSUME NEW m \in Messages, StoreRaw(m)
        PROVE  DeadLetterInv'
    BY <2>3 DEF StoreRaw
  <2>4. ASSUME NEW w \in Workers, Claim(w)
        PROVE  DeadLetterInv'
    BY <2>4 DEF Claim, SetJob
  <2>5. ASSUME NEW w \in Workers, Publish(w)
        PROVE  DeadLetterInv'
    BY <2>5 DEF Publish
  <2>6. ASSUME NEW w \in Workers, Finish(w)
        PROVE  DeadLetterInv'
    BY <2>6 DEF Finish, SetJob, Return, Release
  <2>7. ASSUME NEW w \in Workers, RecordFailure(w)
        PROVE  DeadLetterInv'
    BY <2>7 DEF RecordFailure, SetJob, Exhausted, Release
  <2>8. ASSUME NEW w \in Workers, Bury(w)
        PROVE  DeadLetterInv'
    BY <2>8 DEF Bury, SetJob, Release
  <2>9. ASSUME NEW w \in Workers, ReapScan(w)
        PROVE  DeadLetterInv'
    BY <2>9 DEF ReapScan, Stuck, Rearmed, Exhausted
  <2>10. QED
    BY StepCases, <2>1, <2>2, <2>3, <2>4, <2>5, <2>6, <2>7, <2>8, <2>9
<1>3. QED
  BY <1>1, <1>2, TypeCorrect, PTL DEF Spec

\* A job waiting to be tried again has attempts left and a dead letter has
\* none, for any number of workers and whatever crashes, fails or is lost.
THEOREM DeadLetterBudgetHolds == Spec => []DeadLetterBudget
<1>1. DeadLetterInv => DeadLetterBudget
  BY DEF DeadLetterInv
<1>2. QED
  BY <1>1, DeadLetterInvariant, PTL

\* A job marked done, or about to be, has its listing until a reparse.
LEMMA ListingInvariant == Spec => []ListingInv
<1> USE DEF ListingInv, DoneHasListing, FinishHasListing, TypeOK, RowsOK, JobsOK,
        WorkersOK, UsedOK, RareEvents, JobStatus, Control, Busy, vars, postgres,
        worker, bridge, api
<1>1. Init => ListingInv
  BY DEF Init
<1>2. TypeOK /\ ListingInv /\ [Next]_vars => ListingInv'
  <2> SUFFICES ASSUME TypeOK, ListingInv, [Next]_vars
               PROVE  ListingInv'
    OBVIOUS
  <2>1. CASE Calm
    BY <2>1 DEF Calm
  <2>2. CASE ReparseDelete
    BY <2>2 DEF ReparseDelete, Happens
  <2>3. ASSUME NEW m \in Messages, StoreRaw(m)
        PROVE  ListingInv'
    BY <2>3 DEF StoreRaw
  <2>4. ASSUME NEW w \in Workers, Claim(w)
        PROVE  ListingInv'
    BY <2>4 DEF Claim, SetJob
  <2>5. ASSUME NEW w \in Workers, Publish(w)
        PROVE  ListingInv'
    BY <2>5 DEF Publish
  <2>6. ASSUME NEW w \in Workers, Finish(w)
        PROVE  ListingInv'
    BY <2>6 DEF Finish, SetJob, Return, Release
  <2>7. ASSUME NEW w \in Workers, RecordFailure(w)
        PROVE  ListingInv'
    BY <2>7 DEF RecordFailure, SetJob, Exhausted, Release
  <2>8. ASSUME NEW w \in Workers, Bury(w)
        PROVE  ListingInv'
    BY <2>8 DEF Bury, SetJob, Release
  <2>9. ASSUME NEW w \in Workers, ReapScan(w)
        PROVE  ListingInv'
    BY <2>9 DEF ReapScan, Stuck, Rearmed, Exhausted
  <2>10. QED
    BY StepCases, <2>1, <2>2, <2>3, <2>4, <2>5, <2>6, <2>7, <2>8, <2>9
<1>3. QED
  BY <1>1, <1>2, TypeCorrect, PTL DEF Spec

\* Until a reparse, no job is 'done' without a listing: the state in which
\* neither the direct poll nor the reaper would ever look at it again.
THEOREM DoneHasListingHolds == Spec => []DoneHasListing
<1>1. ListingInv => DoneHasListing
  BY DEF ListingInv
<1>2. QED
  BY <1>1, ListingInvariant, PTL

\* Without a crash or a database error, a failed job out of attempts is always
\* in the hands of a worker that is about to bury it.
THEOREM ExhaustedIsBuriedHolds == Spec => []ExhaustedIsBuried
<1> USE DEF ExhaustedIsBuried, TypeOK, RowsOK, JobsOK, WorkersOK, UsedOK,
        RareEvents, JobStatus, Control, Busy, vars, postgres, worker, bridge, api
<1>1. Init => ExhaustedIsBuried
  BY DEF Init
<1>2. TypeOK /\ ExhaustedIsBuried /\ [Next]_vars => ExhaustedIsBuried'
  <2> SUFFICES ASSUME TypeOK, ExhaustedIsBuried, [Next]_vars
               PROVE  ExhaustedIsBuried'
    OBVIOUS
  <2>1. CASE Calm
    BY <2>1 DEF Calm
  <2>2. CASE ReparseDelete
    BY <2>2 DEF ReparseDelete, Happens
  <2>3. ASSUME NEW m \in Messages, StoreRaw(m)
        PROVE  ExhaustedIsBuried'
    BY <2>3 DEF StoreRaw
  <2>4. ASSUME NEW w \in Workers, Claim(w)
        PROVE  ExhaustedIsBuried'
    BY <2>4 DEF Claim, SetJob
  <2>5. ASSUME NEW w \in Workers, Publish(w)
        PROVE  ExhaustedIsBuried'
    BY <2>5 DEF Publish
  <2>6. ASSUME NEW w \in Workers, Finish(w)
        PROVE  ExhaustedIsBuried'
    BY <2>6 DEF Finish, SetJob, Return, Release
  <2>7. ASSUME NEW w \in Workers, RecordFailure(w)
        PROVE  ExhaustedIsBuried'
    BY <2>7 DEF RecordFailure, SetJob, Exhausted, Release
  <2>8. ASSUME NEW w \in Workers, Bury(w)
        PROVE  ExhaustedIsBuried'
    BY <2>8 DEF Bury, SetJob, Release
  <2>9. ASSUME NEW w \in Workers, ReapScan(w)
        PROVE  ExhaustedIsBuried'
    BY <2>9 DEF ReapScan, Stuck, Rearmed, Exhausted
  <2>10. QED
    BY StepCases, <2>1, <2>2, <2>3, <2>4, <2>5, <2>6, <2>7, <2>8, <2>9
<1>3. QED
  BY <1>1, <1>2, TypeCorrect, PTL DEF Spec

\* A push adds at most the pushed message to the queue.
LEMMA PushQueues ==
  ASSUME NEW m, Pushed(m) \/ Dropped \/ Thrown(m), queue \in Seq(raw)
  PROVE  Queued' \subseteq Queued \cup {m}
<1>1. QED
  BY DEF Pushed, Dropped, Thrown, Queued

\* Apart from a new row, a re-run and the three scans of a worker, no step puts
\* a message under way of which no copy was under way before.
LEMMA CopiesOnlyMove ==
  ASSUME TypeOK, [Next]_vars
  PROVE  \/ UnderWay' \subseteq UnderWay
         \/ ReparseSelect
         \/ \E m \in Messages : StoreRaw(m) \/ ReprocessPush(m)
         \/ \E w \in Workers : Start(w) \/ ReapScan(w) \/ PollScan(w)
<1> DEFINE Move == UnderWay' \subseteq UnderWay
<1> USE DEF TypeOK, RowsOK, QueueOK, WorkersOK, TimersOK, Control, Busy, vars,
        postgres, worker, bridge, api
<1>a. ASSUME NEW m \in UnderWay, Queued' \subseteq Queued \cup {m},
             unsent' \subseteq unsent, resend' \subseteq resend,
             \A w \in Workers : Held(w)' \subseteq Held(w)
      PROVE  Move
  BY <1>a DEF UnderWay
<1>b. ASSUME Queued' \subseteq Queued, unsent' \subseteq unsent, resend' \subseteq resend,
             \A w \in Workers : Held(w)' \subseteq Held(w)
      PROVE  Move
  BY <1>b DEF UnderWay
<1>1. ASSUME NEW m \in Messages, SendRaw(m)
      PROVE  Move
  <2>1. m \in UnderWay
    BY <1>1 DEF UnderWay, Held, SendRaw
  <2>2. Queued' \subseteq Queued \cup {m}
    BY <1>1, PushQueues DEF SendRaw
  <2>3. QED
    BY <1>a, <1>1, <2>1, <2>2 DEF Held, SendRaw
<1>2. ASSUME NEW m \in Messages, GrowStale(m)
      PROVE  Move
  BY <1>2 DEF UnderWay, Held, Queued, GrowStale
<1>3. CASE BridgeCrash
  BY <1>3 DEF UnderWay, Held, Queued, BridgeCrash
<1>4. CASE QueueLoss
  <2>1. Queued' \subseteq Queued
    <3>1. queue' = <<>> \/ queue' = Tail(queue)
      BY <1>4 DEF QueueLoss
    <3>2. queue # <<>> /\ queue \in Seq(raw)
      BY <1>4 DEF QueueLoss
    <3>3. CASE queue' = <<>>
      BY <3>3 DEF Queued
    <3>4. CASE queue' = Tail(queue)
      BY <3>2, <3>4 DEF Queued
    <3>5. QED
      BY <3>1, <3>3, <3>4
  <2>2. QED
    BY <1>b, <1>4, <2>1 DEF QueueLoss, Held
<1>5. CASE ReparseDelete
  BY <1>5 DEF UnderWay, Held, Queued, ReparseDelete
<1>6. CASE ReparsePush
  <2>1. PICK m \in resend : Pushed(m) \/ Dropped \/ Thrown(m)
    BY <1>6 DEF ReparsePush, Newest
  <2>2. m \in UnderWay
    BY <2>1 DEF UnderWay, Held
  <2>3. Queued' \subseteq Queued \cup {m}
    BY <2>1, PushQueues
  <2>4. QED
    BY <1>a, <1>6, <2>2, <2>3 DEF Held, ReparsePush
<1>7. CASE ReparseAbort
  BY <1>7 DEF UnderWay, Held, Queued, ReparseAbort
<1>8. ASSUME NEW w \in Workers, RecoverPush(w)
      PROVE  Move
  <2>1. PICK m \in todo[w] : Pushed(m) \/ Dropped \/ Thrown(m)
    BY <1>8 DEF RecoverPush, PushFromSweep, Newest
  <2>2. m \in UnderWay
    BY <2>1 DEF UnderWay, Held
  <2>3. Queued' \subseteq Queued \cup {m}
    BY <2>1, PushQueues
  <2>4. QED
    BY <1>a, <1>8, <2>2, <2>3 DEF Held, RecoverPush, PushFromSweep
<1>9. ASSUME NEW w \in Workers, ReapPush(w)
      PROVE  Move
  <2>1. PICK m \in todo[w] : Pushed(m) \/ Dropped \/ Thrown(m)
    BY <1>9 DEF ReapPush, PushFromSweep, Newest
  <2>2. m \in UnderWay
    BY <2>1 DEF UnderWay, Held
  <2>3. Queued' \subseteq Queued \cup {m}
    BY <2>1, PushQueues
  <2>4. QED
    BY <1>a, <1>9, <2>2, <2>3 DEF Held, ReapPush, PushFromSweep
<1>10. ASSUME NEW w \in Workers, SweepEnd(w)
      PROVE  Move
  BY <1>10 DEF UnderWay, Held, Queued, SweepEnd
<1>11. ASSUME NEW w \in Workers, PollTake(w)
      PROVE  Move
  BY <1>11 DEF UnderWay, Held, Queued, PollTake, Newest
<1>12. ASSUME NEW w \in Workers, Claim(w)
      PROVE  Move
  BY <1>12 DEF UnderWay, Held, Queued, Claim
<1>13. ASSUME NEW w \in Workers, Publish(w)
      PROVE  Move
  BY <1>13 DEF UnderWay, Held, Queued, Publish
<1>14. ASSUME NEW w \in Workers, ParseError(w)
      PROVE  Move
  <2>1. \A v \in Workers : Held(v)' \subseteq Held(v)
    BY <1>14 DEF Held, ParseError, Throw, Return, Release
  <2>2. UNCHANGED <<queue, unsent, resend>>
    BY <1>14 DEF ParseError, Throw
  <2>3. QED
    BY <1>b, <2>1, <2>2 DEF Queued
<1>15. ASSUME NEW w \in Workers, Finish(w)
      PROVE  Move
  <2>1. \A v \in Workers : Held(v)' \subseteq Held(v)
    BY <1>15 DEF Held, Finish, Return, Release
  <2>2. UNCHANGED <<queue, unsent, resend>>
    BY <1>15 DEF Finish
  <2>3. QED
    BY <1>b, <2>1, <2>2 DEF Queued
<1>16. ASSUME NEW w \in Workers, Report(w)
      PROVE  Move
  <2>1. \A v \in Workers : Held(v)' \subseteq Held(v)
    BY <1>16 DEF Held, Report, Throw, Return, Release
  <2>2. UNCHANGED <<queue, unsent, resend>>
    BY <1>16 DEF Report, Throw
  <2>3. QED
    BY <1>b, <2>1, <2>2 DEF Queued
<1>17. ASSUME NEW w \in Workers, RecordFailure(w)
      PROVE  Move
  <2>1. \A v \in Workers : Held(v)' \subseteq Held(v)
    BY <1>17 DEF Held, RecordFailure, Release
  <2>2. UNCHANGED <<queue, unsent, resend>>
    BY <1>17 DEF RecordFailure
  <2>3. QED
    BY <1>b, <2>1, <2>2 DEF Queued
<1>18. ASSUME NEW w \in Workers, Bury(w)
      PROVE  Move
  <2>1. \A v \in Workers : Held(v)' \subseteq Held(v)
    BY <1>18 DEF Held, Bury, Release
  <2>2. UNCHANGED <<queue, unsent, resend>>
    BY <1>18 DEF Bury
  <2>3. QED
    BY <1>b, <2>1, <2>2 DEF Queued
<1>19. ASSUME NEW w \in Workers, Dequeue(w)
      PROVE  Move
  BY <1>19 DEF UnderWay, Held, Queued, Dequeue
<1>20. ASSUME NEW w \in Workers, DbError(w)
      PROVE  Move
  <2>1. \A v \in Workers : Held(v)' \subseteq Held(v)
    BY <1>20 DEF Held, DbError, Throw, Return, Release
  <2>2. UNCHANGED <<queue, unsent, resend>>
    BY <1>20 DEF DbError, Throw
  <2>3. QED
    BY <1>b, <2>1, <2>2 DEF Queued
<1>21. ASSUME NEW w \in Workers, WorkerCrash(w)
      PROVE  Move
  <2>1. \A v \in Workers : Held(v)' \subseteq Held(v)
    BY <1>21 DEF Held, WorkerCrash, Release
  <2>2. UNCHANGED <<queue, unsent, resend>>
    BY <1>21 DEF WorkerCrash
  <2>3. QED
    BY <1>b, <2>1, <2>2 DEF Queued
<1>22. ASSUME NEW w \in Workers, NEW m \in Messages, TimerFires(w, m)
      PROVE  Move
  <2>1. m \in UnderWay
    BY <1>22 DEF UnderWay, Held, TimerFires
  <2>2. Queued' \subseteq Queued \cup {m}
    BY <1>22, PushQueues DEF TimerFires
  <2>3. QED
    BY <1>a, <1>22, <2>1, <2>2 DEF Held, TimerFires
<1>23. CASE UNCHANGED vars
  BY <1>23 DEF UnderWay, Held, Queued
<1>24. QED
  BY <1>1, <1>2, <1>3, <1>4, <1>5, <1>6, <1>7, <1>8, <1>9, <1>10, <1>11,
     <1>12, <1>13, <1>14, <1>15, <1>16, <1>17, <1>18, <1>19, <1>20, <1>21,
     <1>22, <1>23
  DEF Next, Environment, Worker, Process

\* No step of the pipeline but a re-run and the start of a worker puts a copy of
\* a dead letter under way, for any number of messages, workers and faults.
THEOREM DeadLetterStaysOutHolds == Spec => DeadLetterStaysOut
<1>1. ASSUME TypeOK, [Next]_vars, NEW m \in Messages, PutsBack(m)
      PROVE  ReparseSelect \/ ReprocessPush(m) \/ \E w \in Workers : Start(w)
  <2> USE <1>1 DEF TypeOK, RowsOK, JobsOK, TimersOK, JobStatus, PutsBack, postgres,
        worker, bridge, api
  <2>1. ~(UnderWay' \subseteq UnderWay)
    OBVIOUS
  <2>2. ASSUME NEW k \in Messages, StoreRaw(k)
        PROVE  FALSE
    <3>1. m # k
      BY <2>2 DEF StoreRaw
    <3>2. unsent' = unsent \cup {k} /\ UNCHANGED <<resend, queue, todo, timers, pc, cur>>
      BY <2>2 DEF StoreRaw
    <3>3. QED
      BY <3>1, <3>2 DEF UnderWay, Held, Queued
  <2>3. ASSUME NEW k \in Messages, ReprocessPush(k), k # m
        PROVE  FALSE
    <3>1. Queued' \subseteq Queued \cup {k}
      BY <2>3, PushQueues DEF ReprocessPush, QueueOK
    <3>2. QED
      BY <2>3, <3>1 DEF ReprocessPush, UnderWay, Held
  <2>4. ASSUME NEW w \in Workers, ReapScan(w)
        PROVE  FALSE
    <3>1. job[m].status # "processing" \/ job'[m].status # "pending"
      OBVIOUS
    <3>2. m \notin todo'[w]
      BY <2>4, <3>1 DEF ReapScan, Stuck, WorkersOK
    <3>3. QED
      BY <2>4, <3>2 DEF ReapScan, UnderWay, Held, Queued, WorkersOK, Busy
  <2>5. ASSUME NEW w \in Workers, PollScan(w)
        PROVE  FALSE
    <3>1. m \notin todo'[w]
      BY <2>5 DEF PollScan, Limited, Orphans, WorkersOK
    <3>2. QED
      BY <2>5, <3>1 DEF PollScan, UnderWay, Held, Queued, WorkersOK, Busy
  <2>6. QED
    BY CopiesOnlyMove, <2>1, <2>2, <2>3, <2>4, <2>5
<1>2. TypeOK /\ [Next]_vars =>
        [\A m \in Messages : PutsBack(m) =>
           \/ ReparseSelect
           \/ ReprocessPush(m)
           \/ \E w \in Workers : Start(w)]_vars
  BY <1>1
<1>3. QED
  BY <1>2, TypeCorrect, PTL DEF Spec, DeadLetterStaysOut

\* Every step of the pipeline is a step of ParseContract or leaves its three
\* sets alone: no message is published that was not stored, listings vanish
\* only together, and no step both buries a message and touches a listing.
THEOREM PipelineKeepsContract == Spec => KeepsContract
<1> DEFINE dead == {m \in Messages : job[m].status = "dead"}
<1> USE DEF vars, postgres
<1>1. Init => Contract!Init
  BY DEF Init, Contract!Init
<1>2. TypeOK /\ [Next]_vars => [Contract!Next]_(Contract!contract)
  <2> SUFFICES ASSUME TypeOK, [Next]_vars
               PROVE  Contract!Next \/ UNCHANGED <<raw, listing, dead>>
    BY DEF Contract!contract
  <2> USE DEF Contract!Next
  <2>a. ASSUME NEW m \in raw, NEW s, NEW n, s # "dead",
               SetJob(m, s, n), UNCHANGED <<raw, listing>>
        PROVE  Contract!Exhume(m) \/ UNCHANGED <<raw, listing, dead>>
    <3>1. dead' = dead \ {m}
      BY <2>a DEF SetJob, TypeOK, RowsOK, JobsOK
    <3>2. QED
      BY <2>a, <3>1 DEF Contract!Exhume
  <2>b. \A w \in Workers : pc[w] \in Busy => cur[w] \in raw /\ cur[w] \in Messages
    BY DEF TypeOK, RowsOK, WorkersOK
  <2>1. CASE Calm
    BY <2>1 DEF Calm
  <2>2. CASE ReparseDelete
    BY <2>2 DEF ReparseDelete, Contract!Withdraw
  <2>3. ASSUME NEW m \in Messages, StoreRaw(m)
        PROVE  Contract!Next
    BY <2>3 DEF StoreRaw, Contract!Accept
  <2>4. ASSUME NEW w \in Workers, Claim(w)
        PROVE  Contract!Next \/ UNCHANGED <<raw, listing, dead>>
    BY <2>4, <2>a, <2>b DEF Claim, Busy
  <2>5. ASSUME NEW w \in Workers, Publish(w)
        PROVE  Contract!Next
    BY <2>5, <2>b DEF Publish, Busy, Contract!Publish
  <2>6. ASSUME NEW w \in Workers, Finish(w)
        PROVE  Contract!Next \/ UNCHANGED <<raw, listing, dead>>
    BY <2>6, <2>a, <2>b DEF Finish, Busy
  <2>7. ASSUME NEW w \in Workers, RecordFailure(w)
        PROVE  Contract!Next \/ UNCHANGED <<raw, listing, dead>>
    BY <2>7, <2>a, <2>b DEF RecordFailure, Busy
  <2>8. ASSUME NEW w \in Workers, Bury(w)
        PROVE  Contract!Next
    <3>1. cur[w] \in raw /\ cur[w] \in Messages
      BY <2>8, <2>b DEF Bury, Busy
    <3>2. dead' = dead \cup {cur[w]}
      BY <2>8, <3>1 DEF Bury, SetJob, TypeOK, JobsOK
    <3>3. QED
      BY <2>8, <3>1, <3>2 DEF Bury, Contract!Bury
  <2>9. ASSUME NEW w \in Workers, ReapScan(w)
        PROVE  Contract!Next
    <3> DEFINE S == {m \in Stuck : Exhausted(job[m].attempts)}
    <3>1. S \subseteq raw /\ S \subseteq Messages
      BY DEF Stuck, TypeOK, RowsOK
    <3>2. \A m \in Messages :
            job'[m].status = "dead" <=> m \in S \/ job[m].status = "dead"
      BY <2>9 DEF ReapScan, Rearmed, Stuck, TypeOK, JobsOK
    <3>3. dead' = dead \cup S
      BY <3>1, <3>2
    <3>4. QED
      BY <2>9, <3>1, <3>3 DEF ReapScan, Contract!Bury
  <2>10. QED
    BY StepCases, <2>1, <2>2, <2>3, <2>4, <2>5, <2>6, <2>7, <2>8, <2>9
<1>3. QED
  BY <1>1, <1>2, TypeCorrect, PTL DEF Spec, KeepsContract, Contract!Safety
=============================================================================
