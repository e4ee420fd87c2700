---------------------------- MODULE CircuitBreaker ----------------------------
(***************************************************************************)
(* circuitBreaker.js: the breaker in front of the WhatsApp bridge and the  *)
(* LLM.  execute() decides in one synchronous step whether a call goes     *)
(* ahead; the call is then awaited, so calls let through in one state of   *)
(* the breaker settle in another, in any order.                            *)
(***************************************************************************)
EXTENDS Integers

CONSTANTS
  Calls,      \* calls that can be under way at the same time
  Threshold   \* failures before the breaker opens

ASSUME ThresholdAssumption == Threshold \in Nat \ {0}

VARIABLES
  state,         \* CLOSED, OPEN or HALF_OPEN
  failureCount,  \* failures since the last success, counted up to Threshold
  cooled,        \* 'timeout' has passed since lastFailureTime
  probing,       \* the _probing flag
  running,       \* calls awaiting fn()
  trial          \* history: those of them let through half open, since the
                 \* breaker was last opened

vars == <<state, failureCount, cooled, probing, running, trial>>

TypeOK ==
  /\ state \in {"CLOSED", "OPEN", "HALF_OPEN"}
  /\ failureCount \in 0..Threshold
  /\ cooled \in BOOLEAN
  /\ probing \in BOOLEAN
  /\ running \subseteq Calls
  /\ trial \subseteq running

Init ==
  /\ state = "CLOSED"
  /\ failureCount = 0
  /\ cooled = FALSE
  /\ probing = FALSE
  /\ running = {}
  /\ trial = {}

(***************************************************************************)
(* execute() up to the await.  A rejected call changes nothing and has no  *)
(* action.                                                                 *)
(***************************************************************************)
Admit(c) ==
  /\ c \notin running
  /\ \/ state = "CLOSED" /\ UNCHANGED trial
     \/ state = "HALF_OPEN" /\ ~probing /\ trial' = trial \cup {c}
  /\ running' = running \cup {c}
  /\ UNCHANGED <<state, failureCount, cooled, probing>>

Probe(c) ==
  /\ c \notin running
  /\ state = "OPEN" /\ cooled /\ ~probing
  /\ state' = "HALF_OPEN"
  /\ probing' = TRUE
  /\ running' = running \cup {c}
  /\ trial' = {c}
  /\ UNCHANGED <<failureCount, cooled>>

\* The finally block: whichever call settles clears the flag.
Leave(c) ==
  /\ c \in running
  /\ running' = running \ {c}
  /\ trial' = trial \ {c}
  /\ probing' = FALSE

\* Mutant: a successful probe does not close the breaker.
OnSuccessCountOnly == failureCount' = 0 /\ UNCHANGED <<state, cooled>>

OnSuccess ==
  /\ failureCount' = 0
  /\ state' = IF state = "HALF_OPEN" THEN "CLOSED" ELSE state
  /\ UNCHANGED cooled

Succeed(c) == Leave(c) /\ OnSuccess

Counted == IF failureCount < Threshold THEN failureCount + 1 ELSE Threshold

\* Mutant: opens one failure too late.
OnFailureLate ==
  /\ failureCount' = Counted
  /\ cooled' = FALSE
  /\ state' = IF failureCount >= Threshold THEN "OPEN" ELSE state

OnFailure ==
  /\ failureCount' = Counted
  /\ cooled' = FALSE
  /\ state' = IF Counted >= Threshold THEN "OPEN" ELSE state

\* Mutant: the flag is cleared after a success only.
FailStillProbing(c) ==
  /\ c \in running
  /\ running' = running \ {c}
  /\ trial' = trial \ {c}
  /\ UNCHANGED probing
  /\ OnFailure

Fail(c) == Leave(c) /\ OnFailure

\* fn() was itself turned away by a breaker, which counts neither way.  No
\* caller nests breakers today; execute() provides for it.
Rethrow(c) ==
  /\ Leave(c)
  /\ UNCHANGED <<state, failureCount, cooled>>

CoolOff ==
  /\ state = "OPEN" /\ ~cooled
  /\ cooled' = TRUE
  /\ UNCHANGED <<state, failureCount, probing, running, trial>>

Enter == \E c \in Calls : Admit(c) \/ Probe(c)

Settle(c) == Succeed(c) \/ Fail(c) \/ Rethrow(c)

Next == Enter \/ (\E c \in Calls : Settle(c)) \/ CoolOff

Spec == Init /\ [][Next]_vars

\* Requests keep coming (the dashboard polls /status, which goes through the
\* breaker), every call settles and time passes.
FairSpec ==
  /\ Spec
  /\ WF_vars(Enter) /\ WF_vars(CoolOff)
  /\ \A c \in Calls : WF_vars(Settle(c))

-----------------------------------------------------------------------------
\* Calls are let through unconditionally only while the failures since the
\* last success are below the threshold, although failures and successes of
\* calls from before the breaker opened are still counted after it did.
ClosedBelowThreshold == state = "CLOSED" => failureCount < Threshold

\* While the flag that turns every other caller away is up, a probe is under
\* way whose end will take it down: the breaker cannot lock itself.
ProbeUnderWay == probing => trial # {}

\* A call is turned away by another breaker, and its success would have made a
\* difference.
TurnedAway(c) == Rethrow(c) /\ ~Succeed(c)

\* Once calls stop failing the breaker closes for good, whatever calls from
\* before it opened, failed probes and concurrent probes have left behind.  (A
\* call that another breaker turns away has failed too, though it is not counted.)
Recovers ==
  \/ []<><<\E c \in Calls : Fail(c) \/ TurnedAway(c)>>_vars
  \/ <>[](state = "CLOSED")
=============================================================================
