------------------------- MODULE CircuitBreakerProofs -------------------------
(***************************************************************************)
(* Proofs about CircuitBreaker for any number of overlapping calls and any *)
(* threshold.                                                              *)
(***************************************************************************)
EXTENDS CircuitBreaker, TLAPS

\* The failure counter stays between zero and the threshold, and the calls
\* that probe are among those under way.
THEOREM TypeCorrect == Spec => []TypeOK
<1> USE ThresholdAssumption DEF TypeOK
<1>1. Init => TypeOK
  <2>1. 0 \in 0..Threshold
    OBVIOUS
  <2>2. QED
    BY <2>1 DEF Init
<1>2. TypeOK /\ [Next]_vars => TypeOK'
  <2> SUFFICES ASSUME TypeOK, [Next]_vars
               PROVE  TypeOK'
    OBVIOUS
  <2>1. ASSUME NEW c \in Calls, Admit(c)
        PROVE  TypeOK'
    BY <2>1 DEF Admit
  <2>2. ASSUME NEW c \in Calls, Probe(c)
        PROVE  TypeOK'
    BY <2>2 DEF Probe
  <2>3. ASSUME NEW c \in Calls, Succeed(c)
        PROVE  TypeOK'
    <3>1. failureCount' \in 0..Threshold
      BY <2>3 DEF Succeed, OnSuccess
    <3>2. QED
      BY <2>3, <3>1 DEF Succeed, Leave, OnSuccess
  <2>4. ASSUME NEW c \in Calls, Fail(c)
        PROVE  TypeOK'
    <3>1. failureCount' \in 0..Threshold
      BY <2>4 DEF Fail, OnFailure, Counted
    <3>2. QED
      BY <2>4, <3>1 DEF Fail, Leave, OnFailure
  <2>5. ASSUME NEW c \in Calls, Rethrow(c)
        PROVE  TypeOK'
    BY <2>5 DEF Rethrow, Leave
  <2>6. CASE CoolOff
    BY <2>6 DEF CoolOff
  <2>7. CASE UNCHANGED vars
    BY <2>7 DEF vars
  <2>8. QED
    BY <2>1, <2>2, <2>3, <2>4, <2>5, <2>6, <2>7 DEF Next, Enter, Settle
<1>3. QED
  BY <1>1, <1>2, PTL DEF Spec

\* However calls from before and after an opening interleave, a closed breaker
\* has counted fewer failures than its threshold since the last success.
THEOREM ClosedBelowThresholdHolds == Spec => []ClosedBelowThreshold
<1> USE ThresholdAssumption DEF ClosedBelowThreshold
<1>1. Init => ClosedBelowThreshold
  BY DEF Init
<1>2. TypeOK /\ ClosedBelowThreshold /\ [Next]_vars => ClosedBelowThreshold'
  <2> SUFFICES ASSUME TypeOK, ClosedBelowThreshold, [Next]_vars
               PROVE  ClosedBelowThreshold'
    OBVIOUS
  <2>1. ASSUME NEW c \in Calls, Succeed(c)
        PROVE  ClosedBelowThreshold'
    BY <2>1 DEF Succeed, OnSuccess
  <2>2. ASSUME NEW c \in Calls, Fail(c)
        PROVE  ClosedBelowThreshold'
    BY <2>2 DEF Fail, OnFailure, Counted, TypeOK
  <2>3. CASE Enter \/ CoolOff \/ (\E c \in Calls : Rethrow(c)) \/ UNCHANGED vars
    BY <2>3 DEF Enter, Admit, Probe, CoolOff, Rethrow, vars
  <2>4. QED
    BY <2>1, <2>2, <2>3 DEF Next, Settle
<1>3. QED
  BY <1>1, <1>2, TypeCorrect, PTL DEF Spec

\* The flag that turns every other caller away is never left up by a call that
\* has settled.
THEOREM ProbeUnderWayHolds == Spec => []ProbeUnderWay
<1> USE DEF ProbeUnderWay
<1>1. Init => ProbeUnderWay
  BY DEF Init
<1>2. ProbeUnderWay /\ [Next]_vars => ProbeUnderWay'
  <2> SUFFICES ASSUME ProbeUnderWay, [Next]_vars
               PROVE  ProbeUnderWay'
    OBVIOUS
  <2>1. ASSUME NEW c \in Calls, Admit(c) \/ Probe(c)
        PROVE  ProbeUnderWay'
    BY <2>1 DEF Admit, Probe
  <2>2. ASSUME NEW c \in Calls, Settle(c)
        PROVE  ProbeUnderWay'
    BY <2>2 DEF Settle, Succeed, Fail, Rethrow, Leave
  <2>3. CASE CoolOff \/ UNCHANGED vars
    BY <2>3 DEF CoolOff, vars
  <2>4. QED
    BY <2>1, <2>2, <2>3 DEF Next, Enter
<1>3. QED
  BY <1>1, <1>2, PTL DEF Spec
=============================================================================
