---------------------------- MODULE ParseContract ----------------------------
(***************************************************************************)
(* What the parsing pipeline promises, with no queue, job table, worker or *)
(* retry in sight: a message that was accepted gets a listing or is given  *)
(* up as a dead letter, again and again if listings are withdrawn or dead  *)
(* letters taken up again.                                                 *)
(***************************************************************************)
CONSTANT Messages

VARIABLES
  accepted,   \* messages the pipeline has taken responsibility for
  published,  \* messages with a listing
  buried      \* messages given up

contract == <<accepted, published, buried>>

Init == accepted = {} /\ published = {} /\ buried = {}

Accept(m) ==
  /\ m \notin accepted
  /\ accepted' = accepted \cup {m}
  /\ UNCHANGED <<published, buried>>

Publish(m) ==
  /\ m \in accepted
  /\ published' = published \cup {m}
  /\ UNCHANGED <<accepted, buried>>

\* A reparse withdraws the listings of the user.
Withdraw ==
  /\ published' = {}
  /\ UNCHANGED <<accepted, buried>>

Bury(S) ==
  /\ S \subseteq accepted
  /\ buried' = buried \cup S
  /\ UNCHANGED <<accepted, published>>

\* A dead letter is taken up again when a copy of it is claimed: one that was
\* under way when it was buried, or one a re-run made.  The recovery of a worker
\* that starts makes them too, against what the code says of dead letters: what
\* may put a copy under way is stated by DeadLetterStaysOut of ParsePipeline.
Exhume(m) ==
  /\ m \in buried
  /\ buried' = buried \ {m}
  /\ UNCHANGED <<accepted, published>>

Next ==
  \/ \E m \in Messages : Accept(m) \/ Publish(m) \/ Exhume(m)
  \/ Withdraw
  \/ \E S \in SUBSET Messages : Bury(S)

Settled(m) == m \in published \cup buried

Settle(m) == /\ m \in accepted
             /\ ~Settled(m)
             /\ Publish(m) \/ \E S \in SUBSET Messages : m \in S /\ Bury(S)

Safety == Init /\ [][Next]_contract

Spec == Safety /\ \A m \in Messages : WF_contract(Settle(m))
=============================================================================
