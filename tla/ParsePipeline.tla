---------------------------- MODULE ParsePipeline ----------------------------
(***************************************************************************)
(* The message-parsing pipeline: the path of a WhatsApp message from the   *)
(* moment a bridge stores it in raw_messages until a worker has written    *)
(* its listing or given it up as a dead letter.                            *)
(*                                                                         *)
(* Actors: the bridges (writeRawMessage), any number of parse workers      *)
(* (parseWorker.js runs standalone and inside the API server), the API     *)
(* server's reparse route and the reprocess tool.  They share Postgres     *)
(* (raw_messages, listings, parse_jobs; every statement is one atomic      *)
(* step) and one Redis list, whose BRPOP removes an entry before it is     *)
(* processed.  A worker is a sequential process: pc[w] is the await it is  *)
(* suspended at, and everything it read before that await may be stale.    *)
(***************************************************************************)
EXTENDS Integers, Sequences, FiniteSets

CONSTANTS
  Messages,     \* raw_messages ids, numbered in the order of ts_received
  Workers,      \* parse worker processes
  MaxAttempts,  \* PARSE_MAX_ATTEMPTS
  PollBatch,    \* PARSE_DIRECT_POLL_BATCH
  RecoveryLimit, \* PARSE_STARTUP_RECOVERY_LIMIT
  QueueMode,    \* "reliable", "flaky" (calls fail, data is lost), "off"
  Budget        \* bound of the model on how often each rare event happens

RareEvents == {"crash", "dbError", "queueLoss", "reparse", "reprocess"}

ASSUME MessagesAssumption == Messages \subseteq Nat \ {0}
ASSUME MaxAttemptsAssumption == MaxAttempts \in Nat \ {0}
ASSUME PollBatchAssumption == PollBatch \in Nat \ {0}
ASSUME RecoveryLimitAssumption == RecoveryLimit \in Nat \ {0}
ASSUME QueueModeAssumption == QueueMode \in {"reliable", "flaky", "off"}
ASSUME BudgetAssumption == Budget \in [RareEvents -> Nat]

NoMessage == 0

VARIABLES
  raw,        \* rows of raw_messages
  unsent,     \* rows a bridge has inserted and not yet put in the queue
  listing,    \* rows of listings, named by raw_message_id (UNIQUE)
  job,        \* rows of parse_jobs by raw_message_id; "none": no row
  stale,      \* 'processing' rows older than STALE_PROCESSING_SEC
  queue,      \* the Redis list, oldest entry first
  pc,         \* the await each worker is suspended at
  cur,        \* the message a worker's processOne is working on
  direct,     \* whether that processOne was called by processOrphansDirect
  todo,       \* rows left of the worker's current sweep (a snapshot)
  timers,     \* pending retry timers of a worker, counted by message
  server,     \* how far the reparse request is
  resend,     \* rows the reparse request has still to enqueue
  used        \* how often each rare event has happened

postgres == <<raw, listing, job, stale>>
worker   == <<pc, cur, direct, todo, timers>>
bridge   == <<unsent>>
api      == <<server, resend>>
vars == <<raw, unsent, listing, job, stale, queue, pc, cur, direct, todo,
          timers, server, resend, used>>

JobStatus == {"none", "pending", "processing", "failed", "done", "dead"}
Control   == {"down", "recover", "idle", "reap", "poll",
              "claim", "parse", "finish", "report", "fail", "bury"}

\* The awaits at which processOne or its error handler holds a message.
Busy      == {"claim", "parse", "finish", "report", "fail", "bury"}

\* Every message named anywhere is a stored row: the foreign keys of listings
\* and parse_jobs, and payloads that are only built from stored rows.
RowsOK   == /\ raw \subseteq Messages
            /\ unsent \subseteq raw
            /\ listing \subseteq raw
            /\ stale \subseteq raw
            /\ server \in {"idle", "select", "send"}
            /\ resend \subseteq raw

JobsOK   == /\ job \in [Messages -> [status : JobStatus, attempts : Nat]]
            /\ \A m \in Messages : job[m].status # "none" => m \in raw

QueueOK  == queue \in Seq(raw)

WorkersOK == /\ pc \in [Workers -> Control]
             /\ cur \in [Workers -> Messages \cup {NoMessage}]
             /\ \A w \in Workers : pc[w] \in Busy => cur[w] \in raw
             /\ direct \in [Workers -> BOOLEAN]
             /\ todo \in [Workers -> SUBSET raw]

TimersOK == /\ timers \in [Workers -> [Messages -> Nat]]
            /\ \A w \in Workers, m \in Messages : timers[w][m] > 0 => m \in raw

UsedOK   == used \in [RareEvents -> Nat]

TypeOK == RowsOK /\ JobsOK /\ QueueOK /\ WorkersOK /\ TimersOK /\ UsedOK

Init ==
  /\ raw = {} /\ unsent = {} /\ listing = {} /\ stale = {}
  /\ job = [m \in Messages |-> [status |-> "none", attempts |-> 0]]
  /\ queue = <<>>
  /\ pc = [w \in Workers |-> "down"]
  /\ cur = [w \in Workers |-> NoMessage]
  /\ direct = [w \in Workers |-> FALSE]
  /\ todo = [w \in Workers |-> {}]
  /\ timers = [w \in Workers |-> [m \in Messages |-> 0]]
  /\ server = "idle" /\ resend = {}
  /\ used = [e \in RareEvents |-> 0]

(***************************************************************************)
(* The queue client.  Without credentials enqueue returns false; with them *)
(* it pushes or throws, and a push whose answer is lost throws as well.    *)
(***************************************************************************)
Pushed(m) == /\ QueueMode # "off"
             /\ queue' = Append(queue, m)

Dropped == /\ QueueMode = "off"
           /\ UNCHANGED queue

Thrown(m) == /\ QueueMode = "flaky"
             /\ queue' \in {queue, Append(queue, m)}

Happens(event) == /\ used[event] < Budget[event]
                  /\ used' = [used EXCEPT ![event] = @ + 1]

\* ORDER BY ts_received DESC, and with LIMIT n.
Newest(S) == {m \in S : \A k \in S : k <= m}

Limited(S, n) == {m \in S : Cardinality({k \in S : k > m}) < n}

(***************************************************************************)
(* Bridges: insert the raw row, then push it.  A redelivered message meets *)
(* ON CONFLICT DO NOTHING and is not pushed again; a failed push is only   *)
(* logged.                                                                 *)
(***************************************************************************)
StoreRaw(m) ==
  /\ m \notin raw
  /\ raw' = raw \cup {m}
  /\ unsent' = unsent \cup {m}
  /\ UNCHANGED <<listing, job, stale, queue, worker, api, used>>

SendRaw(m) ==
  /\ m \in unsent
  /\ Pushed(m) \/ Dropped \/ Thrown(m)
  /\ unsent' = unsent \ {m}
  /\ UNCHANGED <<postgres, worker, api, used>>

BridgeCrash ==
  /\ unsent # {}
  /\ Happens("crash")
  /\ unsent' = {}
  /\ UNCHANGED <<postgres, queue, worker, api>>

(***************************************************************************)
(* Worker start-up: recoverOrphanedMessages pushes the newest raw rows     *)
(* without a listing; the first push that throws ends it.                  *)
(***************************************************************************)
Start(w) ==
  /\ pc[w] = "down"
  /\ pc' = [pc EXCEPT ![w] = "recover"]
  /\ todo' = [todo EXCEPT ![w] = Limited(raw \ listing, RecoveryLimit)]
  /\ UNCHANGED <<postgres, queue, cur, direct, timers, bridge, api, used>>

PushFromSweep(w, m) ==
  /\ \/ /\ Pushed(m) \/ Dropped
        /\ todo' = [todo EXCEPT ![w] = @ \ {m}]
     \/ /\ Thrown(m)
        /\ todo' = [todo EXCEPT ![w] = {}]
  /\ UNCHANGED <<postgres, pc, cur, direct, timers, bridge, api, used>>

RecoverPush(w) ==
  /\ pc[w] = "recover"
  /\ \E m \in Newest(todo[w]) : PushFromSweep(w, m)

SweepEnd(w) ==
  /\ pc[w] \in {"recover", "reap", "poll"}
  /\ todo[w] = {}
  /\ pc' = [pc EXCEPT ![w] = "idle"]
  /\ UNCHANGED <<postgres, queue, cur, direct, todo, timers, bridge, api, used>>

(***************************************************************************)
(* The main loop.  An iteration reaps, polls and pops, and skips any of    *)
(* the three when its interval has not elapsed, its call throws or there   *)
(* is nothing to take; "idle" is the loop with its next step still open.   *)
(***************************************************************************)
\* Whether a job has used up its attempts.
\* Mutant: allows one attempt too many.
ExhaustedLate(attempts) == attempts > MaxAttempts

Exhausted(attempts) == attempts >= MaxAttempts

\* The rows the reaper's UPDATE touches.
\* Mutant: looks for the wrong status.
StuckFailed == {m \in stale : job[m].status = "failed"}

Stuck == {m \in stale : job[m].status = "processing"}

\* Mutant: re-arms a job however often it was tried.
RearmedForever(m) == [job[m] EXCEPT !.status = "pending"]

Rearmed(m) ==
  [job[m] EXCEPT !.status =
     IF Exhausted(job[m].attempts) THEN "dead" ELSE "pending"]

ReapScan(w) ==
  /\ pc[w] = "idle"
  /\ Stuck # {}
  /\ job' = [m \in Messages |-> IF m \in Stuck THEN Rearmed(m) ELSE job[m]]
  /\ stale' = stale \ Stuck
  /\ pc' = [pc EXCEPT ![w] = "reap"]
  /\ todo' = [todo EXCEPT ![w] = {m \in Stuck : job'[m].status = "pending"}]
  /\ UNCHANGED <<raw, listing, queue, cur, direct, timers, bridge, api, used>>

ReapPush(w) ==
  /\ pc[w] = "reap"
  /\ \E m \in todo[w] : PushFromSweep(w, m)

\* The rows the direct poll selects.
\* Mutant: the status 'dead', added by a later migration, is not excluded.
OrphansAndDead == {m \in raw \ listing :
                     job[m].status \notin {"processing", "done"}}

\* Mutant: trusts that a re-armed job is in the queue.
OrphansUnqueued == {m \in raw \ listing :
                      job[m].status \in {"none", "failed"}}

Orphans == {m \in raw \ listing :
              job[m].status \notin {"processing", "done", "dead"}}

PollScan(w) ==
  /\ pc[w] = "idle"
  /\ Orphans # {}
  /\ pc' = [pc EXCEPT ![w] = "poll"]
  /\ todo' = [todo EXCEPT ![w] = Limited(Orphans, PollBatch)]
  /\ UNCHANGED <<postgres, queue, cur, direct, timers, bridge, api, used>>

PollTake(w) ==
  /\ pc[w] = "poll"
  /\ \E m \in Newest(todo[w]) :
       /\ cur' = [cur EXCEPT ![w] = m]
       /\ todo' = [todo EXCEPT ![w] = @ \ {m}]
  /\ direct' = [direct EXCEPT ![w] = TRUE]
  /\ pc' = [pc EXCEPT ![w] = "claim"]
  /\ UNCHANGED <<postgres, queue, timers, bridge, api, used>>

Dequeue(w) ==
  /\ pc[w] = "idle"
  /\ queue # <<>>
  /\ cur' = [cur EXCEPT ![w] = Head(queue)]
  /\ queue' = Tail(queue)
  /\ direct' = [direct EXCEPT ![w] = FALSE]
  /\ pc' = [pc EXCEPT ![w] = "claim"]
  /\ UNCHANGED <<postgres, todo, timers, bridge, api, used>>

(***************************************************************************)
(* processOne: claim the job row, parse, upsert the listing, mark done.    *)
(***************************************************************************)
SetJob(m, status, attempts) ==
  /\ job' = [job EXCEPT ![m] = [status |-> status, attempts |-> attempts]]
  /\ stale' = stale \ {m}

\* Mutant: forgets the message but not the step.
ReleaseMessageOnly(w, next) ==
  /\ pc' = pc
  /\ cur' = [cur EXCEPT ![w] = NoMessage]

Release(w, next) ==
  /\ pc' = [pc EXCEPT ![w] = next]
  /\ cur' = [cur EXCEPT ![w] = NoMessage]

Return(w) == Release(w, IF direct[w] THEN "poll" ELSE "idle")

\* Mutant: skips a delivery whose job is already done.
ClaimUnlessDone(w) ==
  /\ pc[w] = "claim"
  /\ IF job[cur[w]].status = "done"
     THEN Return(w) /\ UNCHANGED <<job, stale>>
     ELSE /\ SetJob(cur[w], "processing", job[cur[w]].attempts + 1)
          /\ pc' = [pc EXCEPT ![w] = "parse"]
          /\ UNCHANGED cur
  /\ UNCHANGED <<raw, listing, queue, direct, todo, timers, bridge, api, used>>

Claim(w) ==
  /\ pc[w] = "claim"
  /\ SetJob(cur[w], "processing", job[cur[w]].attempts + 1)
  /\ pc' = [pc EXCEPT ![w] = "parse"]
  /\ UNCHANGED <<raw, listing, queue, cur, direct, todo, timers, bridge, api, used>>

Publish(w) ==
  /\ pc[w] = "parse"
  /\ listing' = listing \cup {cur[w]}
  /\ pc' = [pc EXCEPT ![w] = "finish"]
  /\ UNCHANGED <<raw, job, stale, queue, cur, direct, todo, timers, bridge, api, used>>

\* After every 25th job processOne still reads the queue length for its log.
Finish(w) ==
  /\ pc[w] = "finish"
  /\ SetJob(cur[w], "done", job[cur[w]].attempts)
  /\ \/ Return(w)
     \/ /\ pc' = [pc EXCEPT ![w] = "report"]
        /\ UNCHANGED cur
  /\ UNCHANGED <<raw, listing, queue, direct, todo, timers, bridge, api, used>>

(***************************************************************************)
(* processOne throws.  processOrphansDirect only logs it and takes its     *)
(* next row; the queue path records the failure, which counts a second     *)
(* attempt, and then buries the job or arms a retry timer.                 *)
(***************************************************************************)
Throw(w) ==
  /\ IF direct[w] THEN Return(w)
                  ELSE /\ pc' = [pc EXCEPT ![w] = "fail"]
                       /\ UNCHANGED cur
  /\ UNCHANGED <<postgres, queue, direct, todo, timers, bridge, api>>

\* Mutant: a parser exception is swallowed and the job marked done.
ParseErrorAsDone(w) ==
  /\ pc[w] = "parse"
  /\ pc' = [pc EXCEPT ![w] = "finish"]
  /\ UNCHANGED <<postgres, queue, cur, direct, todo, timers, bridge, api, used>>

ParseError(w) ==
  /\ pc[w] = "parse"
  /\ Throw(w)
  /\ UNCHANGED used

\* The queue length is read, or the queue call throws: the job is 'done', and
\* processOne fails all the same.
Report(w) ==
  /\ pc[w] = "report"
  /\ \/ /\ Return(w)
        /\ UNCHANGED <<postgres, queue, direct, todo, timers, bridge, api>>
     \/ /\ QueueMode = "flaky"
        /\ Throw(w)
  /\ UNCHANGED used

RecordFailure(w) ==
  LET m == cur[w]
      attempts == job[m].attempts + 1
  IN /\ pc[w] = "fail"
     /\ SetJob(m, "failed", attempts)
     /\ IF Exhausted(attempts)
        THEN /\ pc' = [pc EXCEPT ![w] = "bury"]
             /\ UNCHANGED <<cur, timers>>
        ELSE /\ timers' = [timers EXCEPT ![w][m] = @ + 1]
             /\ Release(w, "idle")
     /\ UNCHANGED <<raw, listing, queue, direct, todo, bridge, api, used>>

Bury(w) ==
  /\ pc[w] = "bury"
  /\ SetJob(cur[w], "dead", job[cur[w]].attempts)
  /\ Release(w, "idle")
  /\ UNCHANGED <<raw, listing, queue, direct, todo, timers, bridge, api, used>>

\* The retry timer fires; a push that throws is only logged.
TimerFires(w, m) ==
  /\ timers[w][m] > 0
  /\ timers' = [timers EXCEPT ![w][m] = @ - 1]
  /\ Pushed(m) \/ Dropped \/ Thrown(m)
  /\ UNCHANGED <<postgres, pc, cur, direct, todo, bridge, api, used>>

(***************************************************************************)
(* Faults.  A Postgres error makes processOne throw, is swallowed when it  *)
(* hits the failure bookkeeping, and ends a recovery or a reaper's sweep;  *)
(* a crash, or the exit on SIGTERM between two jobs, loses whatever a      *)
(* worker holds in memory; Redis may lose its data, or a popped entry.     *)
(***************************************************************************)
DbError(w) ==
  /\ Happens("dbError")
  /\ \/ /\ pc[w] \in {"claim", "parse", "finish"}
        /\ Throw(w)
     \/ /\ pc[w] \in {"fail", "bury"}
        /\ Release(w, "idle")
        /\ UNCHANGED <<postgres, queue, direct, todo, timers, bridge, api>>
     \/ /\ pc[w] \in {"down", "reap"}
        /\ Release(w, "idle")
        /\ todo' = [todo EXCEPT ![w] = {}]
        /\ UNCHANGED <<postgres, queue, direct, timers, bridge, api>>

WorkerCrash(w) ==
  /\ pc[w] # "down"
  /\ Happens("crash")
  /\ Release(w, "down")
  /\ direct' = [direct EXCEPT ![w] = FALSE]
  /\ todo' = [todo EXCEPT ![w] = {}]
  /\ timers' = [timers EXCEPT ![w] = [m \in Messages |-> 0]]
  /\ UNCHANGED <<postgres, queue, bridge, api>>

QueueLoss ==
  /\ QueueMode = "flaky"
  /\ queue # <<>>
  /\ Happens("queueLoss")
  /\ queue' \in {<<>>, Tail(queue)}
  /\ UNCHANGED <<postgres, worker, bridge, api>>

\* STALE_PROCESSING_SEC pass with nobody touching a 'processing' row; its
\* worker may be gone, or only slow.
GrowStale(m) ==
  /\ job[m].status = "processing"
  /\ m \notin stale
  /\ stale' = stale \cup {m}
  /\ UNCHANGED <<raw, listing, job, queue, worker, bridge, api, used>>

(***************************************************************************)
(* Re-runs: the reparse route deletes the listings, reads the raw rows and *)
(* pushes them, ignoring failed pushes; the reprocess tool pushes rows     *)
(* whose listing stays.                                                    *)
(***************************************************************************)
ReparseDelete ==
  /\ server = "idle"
  /\ raw # {}
  /\ Happens("reparse")
  /\ listing' = {}
  /\ server' = "select"
  /\ UNCHANGED <<raw, job, stale, queue, worker, bridge, resend>>

ReparseSelect ==
  /\ server = "select"
  /\ server' = "send"
  /\ resend' = raw
  /\ UNCHANGED <<postgres, queue, worker, bridge, used>>

ReparsePush ==
  /\ server = "send"
  /\ \E m \in Newest(resend) :
       /\ Pushed(m) \/ Dropped \/ Thrown(m)
       /\ resend' = resend \ {m}
       /\ server' = IF resend = {m} THEN "idle" ELSE "send"
  /\ UNCHANGED <<postgres, worker, bridge, used>>

\* The request dies with its server, or its SELECT fails: the listings are
\* already gone and the rows left are never pushed.
ReparseAbort ==
  /\ \/ /\ server # "idle"
        /\ Happens("crash")
     \/ /\ server = "select"
        /\ Happens("dbError")
  /\ server' = "idle"
  /\ resend' = {}
  /\ UNCHANGED <<postgres, queue, worker, bridge>>

ReprocessPush(m) ==
  /\ m \in raw
  /\ Happens("reprocess")
  /\ Pushed(m)
  /\ UNCHANGED <<postgres, worker, bridge, api>>

-----------------------------------------------------------------------------
Process(w) ==
  \/ Start(w) \/ RecoverPush(w) \/ ReapPush(w) \/ SweepEnd(w) \/ PollTake(w)
  \/ Claim(w) \/ Publish(w) \/ ParseError(w) \/ Finish(w)
  \/ Report(w) \/ RecordFailure(w) \/ Bury(w)

Worker(w) ==
  \/ Process(w) \/ ReapScan(w) \/ PollScan(w) \/ Dequeue(w)
  \/ DbError(w) \/ WorkerCrash(w)
  \/ \E m \in Messages : TimerFires(w, m)

Environment ==
  \/ \E m \in Messages : \/ StoreRaw(m) \/ SendRaw(m)
                         \/ GrowStale(m) \/ ReprocessPush(m)
  \/ BridgeCrash \/ QueueLoss
  \/ ReparseDelete \/ ReparseSelect \/ ReparsePush \/ ReparseAbort

Next == Environment \/ \E w \in Workers : Worker(w)

Spec == Init /\ [][Next]_vars

(***************************************************************************)
(* Every process that is running takes its next step; a crashed worker is  *)
(* restarted by the container runtime; time passes.  The interval checks   *)
(* of the loop hold again and again until the sweep runs, and the loop     *)
(* pops whenever it gets there, hence strong fairness for those three.     *)
(***************************************************************************)
Fairness ==
  /\ \A w \in Workers :
       /\ WF_vars(Process(w))
       /\ SF_vars(ReapScan(w))
       /\ SF_vars(PollScan(w))
       /\ SF_vars(Dequeue(w))
       /\ \A m \in Messages : WF_vars(TimerFires(w, m))
  /\ \A m \in Messages : WF_vars(SendRaw(m)) /\ WF_vars(GrowStale(m))
  /\ WF_vars(ReparseSelect \/ ReparsePush)

FairSpec == Spec /\ Fairness

-----------------------------------------------------------------------------
\* The attempts counter decides who is given up, whichever workers moved it:
\* the reaper re-arms only jobs with attempts left, and a job is dead only
\* when its attempts are exhausted, although the statement that counts the
\* last attempt and the one that buries the job are separate and other
\* workers run between them.
DeadLetterBudget ==
  \A m \in Messages :
    /\ job[m].status = "pending" => job[m].attempts < MaxAttempts
    /\ job[m].status = "dead" => job[m].attempts >= MaxAttempts

\* Until somebody asks for a reparse, a job marked 'done' has a listing.
\* Neither the direct poll nor the reaper looks at 'done' rows again, so a
\* 'done' written without the listing would hide the message for good, also
\* when the write comes from a worker that lost its job long ago.
DoneHasListing ==
  used["reparse"] = 0 =>
    \A m \in Messages : job[m].status = "done" => m \in listing

\* Without a crash or a database error, a job left 'failed' with its attempts
\* exhausted is about to be buried by a worker: only a fault between the two
\* bookkeeping statements can leave it to be tried beyond its attempts.
ExhaustedIsBuried ==
  used["crash"] + used["dbError"] = 0 =>
    \A m \in Messages :
      job[m].status = "failed" /\ job[m].attempts >= MaxAttempts =>
        \E w \in Workers : pc[w] = "bury" /\ cur[w] = m

\* The messages of which a copy is under way, in the queue or in some memory.
Queued == {queue[i] : i \in DOMAIN queue}

Held(w) == {m \in Messages : \/ m \in todo[w]
                             \/ timers[w][m] > 0
                             \/ pc[w] \in Busy /\ cur[w] = m}

UnderWay == unsent \cup resend \cup Queued \cup UNION {Held(w) : w \in Workers}

\* A step that puts a copy of a dead letter under way where there was none.
PutsBack(m) == /\ "dead" \in {job[m].status, job'[m].status}
               /\ m \in UnderWay' \ UnderWay

\* The pipeline itself never tries a dead letter again: no retry timer, reaper,
\* direct poll or late push of any worker puts one back under way, however the
\* burial interleaves with the sweep that took its snapshot.  What does is a
\* re-run, and the recovery of a worker that starts.
DeadLetterStaysOut ==
  [][\A m \in Messages : PutsBack(m) =>
       \/ ReparseSelect
       \/ ReprocessPush(m)
       \/ \E w \in Workers : Start(w)]_vars

\* What the steps between two statements rest on: a worker about to bury a
\* job saw its attempts exhausted, and one about to mark a job done has
\* written the listing.  With these the three properties above are inductive.
BuryExhausted ==
  \A w \in Workers : pc[w] = "bury" => Exhausted(job[cur[w]].attempts)

FinishHasListing ==
  used["reparse"] = 0 =>
    \A w \in Workers : pc[w] = "finish" => cur[w] \in listing

DeadLetterInv == DeadLetterBudget /\ BuryExhausted

ListingInv == DoneHasListing /\ FinishHasListing

\* The contract of the pipeline, read off the tables.
Contract == INSTANCE ParseContract WITH
  accepted <- raw,
  published <- listing,
  buried <- {m \in Messages : job[m].status = "dead"}

\* Every step of the pipeline is a step the contract allows: a listing appears
\* only for a stored message, listings disappear only together, on a reparse,
\* and no step both gives a message up and changes the listings.  The runs
\* check it as a part of FulfilsContract.
KeepsContract == Contract!Safety

\* Every stored message is settled, again and again: whatever a crash, a
\* database error, a slow worker or a lost queue entry interrupts, the retry
\* timer, the reaper, the direct poll or the start-up recovery takes up.
FulfilsContract == Contract!Spec

\* "sweep raw_messages that have no listing yet and process them directly.
\* This makes the parse pipeline work without Upstash at all": a stored
\* message without a listing gets one or becomes a dead letter.
EveryMessageSettles ==
  \A m \in Messages :
    m \in raw \ listing ~> (m \in listing \/ job[m].status = "dead")
=============================================================================
