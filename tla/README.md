# A formal model of listing-aggregator

listing-aggregator reads property offers out of WhatsApp groups. A browser
bridge per user stores what it reads as raw messages; parse workers turn them
into listings; an API server drives both and serves the dashboard. This
directory holds TLA+ models of the parts whose correctness depends on
interleaving, crashes and retries, the TLC configurations that check them on
small instances, and TLAPS proofs of the main safety properties for every
instance. Every definition names the source lines it stands for in
`PROJECT.json` (`map`).

## 1. The system

| Part | State it keeps | Operations | Talks to |
|---|---|---|---|
| Parse pipeline: `worker/parseWorker.js`, `queue/upstashClient.js`, `db/dualWrite.js` | Postgres `raw_messages`, `listings`, `parse_jobs`; one Redis list; in each worker the sweep it is in, the job in hand, retry timers | store and push a raw message; start-up recovery; reap stale jobs; direct poll; pop; `processOne` (claim, parse, upsert, done); record failure, bury, retry | bridges, Postgres, Upstash, the LLM parsers |
| Reparse route (`routes/whatsapp.js`), reprocess tool (`ops/reprocess.js`) | none of their own | delete all listings and re-enqueue; re-enqueue rows; rewrite listings in place (`--normalize`) | the same tables and queue |
| Circuit breaker: `middleware/circuitBreaker.js` | state, failure count, last failure time, probing flag | `execute`, `_onSuccess`, `_onFailure` | wraps `initiateQR` and LLM calls |
| Bridge lifecycle: `services/whatsappService.js`, `services/bridgeLease.js` | per instance `clients`, `_initializing`, tailers, refresh timers, memory leases; in Redis one lease per user | `initiateQR`, child `exit`/`error`, `disconnect`, auto-resume, shutdown, lease acquire/refresh/release | child processes, Redis |
| Bridge commands and events: `services/bridgeBus.js`, `scraper/whatsapp-qr-bridge.js` | Redis command list, single-slot command file, seen-command map, backfill-in-flight flag, event stream | send, receive, de-duplicate, ignore stale, run backfill, publish, replay | server and bridge |
| Bridge scraping: `scraper/whatsapp-qr-bridge.js` | browser session, monitored groups | harvest history, persist a message | wppconnect, Postgres, SQLite |
| SSE streams and nonces: `middleware/auth.js`, `whatsappService.js` | nonce store (Redis or Map), one stream, heartbeat and bus subscription per user, last state | create and consume a nonce, register and remove a stream, replay | dashboard, bridge events |
| Cache: `services/cacheService.js` | Redis or Map with expiry | get, set, invalidate | listing queries |
| Parsers: `scraper/*-parser.js` | rate-limiter window, circuit breaker | two LLM calls, merge, normalise, sanity check | LLM services |
| API server: `api/server.js` | digests, flags, shutdown flag | listing queries, digests, flagging, boot migrations, shutdown | everything |
| Schema and migrations: `db/` | `schema_migrations` | two migration runners over one table | Postgres, SQLite |
| Audit log, logging, tracing, config | append-only rows | write | Postgres |
| Health: `ops/health.js` | snapshot row | aggregate | Postgres |
| Dashboard | React state, stream reconnect | connect dialog, SSE hook | API server |
| Legacy scraper and queue | unused on the live path | | |

How they interact. A bridge inserts a raw row (`ON CONFLICT DO NOTHING`) and
pushes its id to Redis. `BRPOP` removes an entry before it is processed, so
what protects a message from then on is its `parse_jobs` row and the three
sweeps: start-up recovery (raw rows without a listing), the reaper (jobs
`processing` for too long) and the direct poll (raw rows without a listing
whose job is not `processing`, `done` or `dead`). Workers share nothing else:
no lock spans two statements. The worker runs both standalone and inside the
API server, so two of them is the normal case. The API server spawns at most
one bridge per user, guarded by a Redis lease, follows its state file and
forwards its events to the dashboard over SSE; commands travel back over Redis
and a file.

What is hard, and the properties that make each part correct:

* *Parse pipeline*: duplicate deliveries and slow workers taken for dead run
  the same job twice; crash between two statements; queue calls that fail after
  taking effect; lost queue data. Right when every stored message ends with a
  listing or in the dead-letter state, `done` never hides a message without a
  listing, and the attempts decide who is given up.
* *Circuit breaker*: calls admitted in one state settle in another. Right when
  it opens in time, cannot lock itself and closes again; that it probes once, as
  its comments say, the code does not keep (section 5).
* *Bridge lifecycle*: state read before an await and used after it, exit
  events of an old child, lease expiry and Redis outages. Right when a user has
  one bridge, the server can reach it, and a dead bridge does not keep the
  user locked out.
* *Groups, commands and backfill*: a selection is written to two databases and
  announced through a command that may be overwritten or skipped; backfill,
  group scans and retries share one browser page. Right when nothing is read
  from a group the user never chose, the page has one user at a time, a backfill
  covers the day, and the flag that turns commands away comes down again.
* *Connect dialog, streams and nonces*: one-time use across two Redis calls; the
  close event of an old stream against a new stream of the same user; events
  lost between streams; other tabs, whose events take the place of the one to
  replay; a start that fails half-way. Right when a nonce opens one stream, a
  live stream carries the last news, the QR code reaches the dialog that waits
  for it, and a linked phone takes the dialog on.
* *Listing quality*: two language models and a set of regular expressions are
  merged, checked and put in quarantine on the live path, and again by
  `reprocess --normalize`, next to the owner's flags. Right when quarantine
  hides, a verdict stands, and a re-run changes nothing that was just written.
* *Feed and cache*: a cached page against the writes that change it. Right when
  a hidden listing leaves the page for good.
* *Digests*: recomputed only when there are none.
* *Migrations*: two runners over one table.

`PROJECT.json` lists the hazards at their lines and the properties that cover
each.

## 2. Modules

| Module | Models |
|---|---|
| `ParsePipeline` | the parse pipeline with reparse and re-enqueue |
| `ParseContract` | what the pipeline promises: accepted messages are published or buried, again and again |
| `MCParsePipeline` | budgets and symmetry for TLC |
| `CircuitBreaker` | the breaker |
| `BridgeLifecycle`, `MCBridgeLifecycle` | one user's bridge on several instances |
| `LeaseContract` | what the lease promises: its owner alone starts a bridge, one at a time, and it does not change hands under a bridge |
| `GroupSync` | from the choice of groups to stored messages: server, command channel, bridge |
| `ConnectStream` | connect dialog, its host, event streams, nonces, and the bridge's events |
| `MessageParser` | the regular expressions' results, `normalize`, sanity check, as operators |
| `DualParser` | the two models and their merge, on top of `MessageParser` |
| `Listings` | the listings table and its writers: workers, normalize pass, flag, reparse |
| `ListingFeed`, `MCListings` | today's listings with cache and page, composed with `Listings`; the texts and replies of the runs |
| `...Proofs` | theorems about the module of that name; `ListingsProofs` also covers the two parsers and `ListingFeed`; `RerunProofs` builds on it |

`ParsePipeline` and `Listings` are two views of the worker: the first has the
order of deliveries and forgets what is in a row, the second has the row and
lets any job be delivered at any time, which includes every order of the first.
`BridgeLifecycle` decides which bridge runs; `GroupSync` and `ConnectStream`
look at one that does.

### ParsePipeline

`raw`, `listing`, `job` and `stale` are the three tables (`stale`: rows
`processing` for longer than `PARSE_STALE_PROCESSING_SEC`), `queue` the Redis
list. A worker is sequential: `pc[w]` is the await it is suspended at, `cur[w]`
the message `processOne` has in hand, `direct[w]` whether the direct poll or the
queue called it, `todo[w]` the rows left of the sweep it read earlier, and
`timers[w]` its pending retry timers. One SQL statement or one queue call is one
action, so what a worker read before an await can be stale when it uses it.
Message ids are numbered in the order of `ts_received`, which is all that
`ORDER BY ... DESC LIMIT n` needs. All rows belong to one user, so a reparse
withdraws every listing. What the parser extracts is abstracted to "a listing
exists"; a parser exception is `ParseError`. `UnderWay` is every copy of a message
that can still reach a worker: in the queue, held, about to be pushed or in a
timer; `DeadLetterStaysOut` says which steps may add one to a dead letter. The exit on SIGTERM happens between
two jobs and loses the timers: it is `WorkerCrash` from such a state.

| Code | Action |
|---|---|
| `writeRawMessage` (insert, then push) | `StoreRaw`, `SendRaw`, `BridgeCrash` between them |
| `recoverOrphanedMessages` | `Start`, `RecoverPush` |
| `reapStuckJobs` | `ReapScan`, `ReapPush` |
| `processOrphansDirect` | `PollScan`, `PollTake`, then `processOne` |
| `BRPOP` | `Dequeue` |
| `processOne` | `Claim`, `Publish` or `ParseError`, `Finish`, `Report` |
| failure bookkeeping, retry | `RecordFailure`, `Bury`, `TimerFires` |
| `/reparse` | `ReparseDelete`, `ReparseSelect`, `ReparsePush`, `ReparseAbort` |
| `reprocess` | `ReprocessPush` |
| faults | `DbError`, `WorkerCrash`, `QueueLoss`; `GrowStale` is time passing |

`QueueMode` is `"reliable"`, `"flaky"` (any call may throw, before or after it
took effect) or `"off"` (no credentials). `Budget` bounds how often each rare
event happens; it is a bound of the model, not of the program.

### CircuitBreaker

`execute` decides synchronously and then awaits, so a call is in `running` from
the decision until it settles. `failureCount` saturates at the threshold, above
which the code never distinguishes its values. `cooled` says that `timeout` has
passed since the last failure. `trial` is a history variable: the calls that were
let through to probe the current opening. `Rethrow` is the rethrown
`CIRCUIT_OPEN` of a nested breaker, which counts neither way; no caller nests
breakers today, but `execute` provides for it.

### BridgeLifecycle

One user, several API server instances. `lease` is the Redis key, `entry[i]` the
`clients` entry, `starting` the instances with the user in `_initializing`,
`refreshing` those with a refresh timer, `bridge[b]` how far each subprocess is
(`up`, `leaving`: told to go, `exited`: gone but its `exit` event not yet
handled, `releasing`: handled, its release on the way to Redis, `gone`). A
request is at `acquire`, `clean` or `spawn` (the awaits of `initiateQR`) or at
the await of `disconnect`. Events are handled by user and not by child, so
`Farewell` and `Ready` may reach any instance and, replayed from the Redis
stream, may be those of an earlier child. `Host` and `At` fix which instance a
bridge or request belongs to; they name identities and restrict nothing, since a
name is used again once it is free. Assumed: Redis answers well within the
lease's 60 seconds, and an instance runs in a container, so its bridges die with
it and its `HOSTNAME`, the lease's owner id, survives a restart. A bridge that
waits for a command to be delivered is not told apart from one that is told:
`Leave` may happen at any time.

`KeepsLease` maps this onto `LeaseContract`, which knows an `owner` and a bridge
that is `running` and nothing else: `owner` is the lease, `running` the live
bridges. `Acquire` is a grant, `Spawn` a start, an exit and a crash of the
instance a stop, a release and an expiry the lease becoming free, and everything
else (events of earlier children, refresh timers, `disconnect`, entries) a stutter.

### GroupSync

`pg` and `sqlite` are the two tables of groups, `saving` the `selectGroups` call
under way, `list` and `file` the two command channels (the file holds one
command; `stale` is one from before the bridge's boot), `phase`, `loading` and
`monitored` the bridge's start, `batch` the backfill in flight (`at`: the await;
`idle`: `_backfillInFlight` is down), `scan` the group scans, `page` the queue of
`withPageLock`. The messages of a group are numbered as sent; `store` holds what
has reached the browser, `saved` what is in the database. `chosen` and the
field `aim` are history. The bridge asks `bridgeBus.js` for Redis while its
modules load, before a connection can be ready, so it reads the file only.

| Code | Action |
|---|---|
| `selectGroups` | `Select`, `InsertGroup`, `InsertFails`, `Mirror`, `StartMonitoring` |
| `rescrape`, the automatic backfill at `ready` | `Rescrape`, `AutoBackfill` |
| `getGroups` and its timeout | `GetGroups`, `GetGroupsTimesOut` |
| start, `create().then`, `loadMonitoredGroups` | `Boot`, `Link`, `ReadAtReady`, `MonitorAtReady` |
| command poll, `dispatchCmd` | `TakeCommand` |
| `runBackfillBatch`, `backfillGroups` | `BatchReads`, `BatchMonitors`, `NextGroup`, `EndPass`, `SecondPass` |
| `backfillGroup`, by its steps | `OpenChat`, `Settle`, `Scroll`, `Harvest`, `HarvestPage`, `Persist` |
| group scan | `FetchChats`, `FetchAgain`, `GroupsDetected` |
| phone and listener | `Sync`, `OnMessage` |

### ConnectStream

One user and one server instance. A stream is named by the nonce in its URL:
`kept`, `asked`, `got`, `opened` and `torn` follow a nonce from the store to the
streams it opened (the last two are history); Redis may be away whenever it is
used; `conn` is the stream in `sseConnections`, `gone` the open
streams the dialog has left, `wire` the events on the way, `last` the event to
replay. `bridge`, `entry`, `starting` and `preparing` are the subprocess, the
`clients` entry, `_initializing` and a start between its two awaits (`Initiate`
up to the lease, `Spawn` with `clients.set`, `SetupFails` when a directory cannot
be made); `url`, `minting`, `phase`, `initiated`, `calling` and `advance` the
dialog; `linked` what the host was last told.

`_emit` stores and sends every event. The dialog acts on five; the other eight
(`groups_saved`, `backfill_progress` and so on), which it logs at most, are one
event, `note`. They too take the place of the event to replay. Another tab is
`OtherTab`: it displaces the stream, selects groups or rescrapes (which needs an
entry and emits notes), starts a bridge or disconnects. `Reattach` is `rescrape`
without an entry: it makes one that is ready from a state file of the last ten
minutes. A code stays valid while the bridge shows it. The lease is abstracted to
what tells two starts apart (`BridgeLifecycle` has it), a `spawn()` that fails
asynchronously is left to `BridgeLifecycle` too, and of overlapping calls of
`initiate-qr` by the dialog only the answer of the latest is followed. The 1.2 s
timer to the group selection is taken to be over when a Try Again has disconnected
the old bridge: a timing assumption that keeps the run small.

### MessageParser, DualParser, Listings

A text is a record of what the expressions find in it, so the order of the
price expressions, the scaling of units and every derivation are kept and
characters are not; confidence counts hundredths. A model's reply is any member
of `Answers`, a failure, or a reply with `amenities` that are no list, on which
`_normaliseLlmOutput` throws (inside a `try` for Groq, outside for Gemini). An
answer states any integer as its confidence, or none; that it is clamped is the
model's to do and not an assumption. This covers the clients' caches (they
repeat an earlier reply) and rate limiters (they delay one). Currencies are any
codes in upper case, markets any function from areas to them; amounts are whole
and not negative. `period` says whether `rent_period` is set, which makes a price
a rent like the intent does; parking is matched apart from the amenities. Left
out of a listing: area, agent's name, property type, description, on which no
decision here depends; left out of the writers: the SQLite script at the end of
`message-parser.js`.
`row` is the table, `worker` the result a worker has parsed and not yet saved,
`pass` the rows a normalize pass has read and not yet written back; each SQL
statement is one action. `ParseMessage` is one step because parsing reads
nothing that changes. `informed` is history: a model answered the run.

### ListingFeed

One user and the page's default query, so the cache has one `entry`; Redis and
the Map used without it count as one store. `request[q]` is how far a fetch is,
with the rows it read; fetches overlap and their responses overtake one another.
The four-day window, the filter for other kinds of offer and paging are left
out.

## 3. Runs

| Run | Instance | Question | States, time |
|---|---|---|---|
| `ParseFaults` | 1 message, 2 workers, flaky queue, a database error, a reparse | job table against listings and attempts; the pipeline itself never tries a dead letter again | 1.0 M, 45 s |
| `ParseRecovery` | 1 message, 1 worker, flaky queue, crash, error, lost data, re-enqueue | every message is settled whatever the queue loses | 66 k, 10 s |
| `ParseBatches` | 2 messages, 1 worker, no queue, batches of one, crash, error | newest-first sweeps starve nobody; polling and reaping alone settle everything | 46 k, 10 s |
| `ReparseNoQueue` | no queue, one reparse | violated: the listings never come back | |
| `BreakerOverlap` | 4 calls, threshold 3 | opens in time, cannot lock itself, closes for good once calls stop failing | 976, 1 s |
| `BridgeLeases` | 2 instances, 3 requests, 3 bridges, a crash, a failed set-up, a failed spawn | one bridge per user, always leased, every step one of the contract; leases are refreshed for bridges only, and freed | 117 k, 70 s |
| `ResumeDoc` | 1 instance, one crash | violated: auto-resume is turned away by its own old lease | |
| `GroupSync` | 1 group, 1 scan, 3 messages, pages of 1, 3 of 5 rare events | only chosen groups; page lock; the day is covered; flag; second pass | 160 k, 65 s |
| `SelectionDoc` | 1 group, a selection and a rescrape | violated: a skipped or overwritten `start_monitoring` is not repeated | |
| `ConnectStream` | 2 nonces, any one of 7 rare events | one stream per nonce; a live stream carries the last news; a code that is out reaches the dialog that waits for it; a linked phone takes the dialog to the groups | 1.0 M, 145 s |
| `ListingFeed` | 1 message of 6 kinds on 3 markets, malformed replies, 1 worker, 2 fetches, 2 runs, a flag, a pass, a reparse | quarantine hides; no token price is visible; passes keep verdicts; re-runs settle; hidden listings leave the page | 371 k, 155 s |
| `VerdictDoc` | the same with 2 workers and 1 fetch | violated: a re-run without a model's answer lifts a verdict | |

Why the bounds are enough. The hazards of the pipeline are races over one job
row: every table is keyed by the message and no statement joins two messages,
except for the order and the `LIMIT` of the sweeps, which `ParseBatches` covers
with two messages and batches of one. Two workers give every pair of steps;
three attempts make room for a count, a retry and a burial with another worker
in between. One crash and one database error at any point reach every half-done
state. Two workers and faults make the liveness runs too large, so they have one
worker; liveness after a reparse is not stated for two, because it fails there:
a worker that wrote its listing before the reparse deleted it can mark the job
`done` after the other has failed on the message pushed again and buried it, and
a `done` job without a listing is not looked at again.

For the bridge, two requests on one instance and one on another, with two bridges
on the first, make every pair of competing starts possible on one instance and
on two. For the breaker, one call more than the threshold leaves a call from
before the opening. In `GroupSync` what a group meets in a backfill does not
depend on the other groups of the batch, which only take their turn under the
page lock; pages of one message and three pages give a first, a middle and a
last one, and the cutoff inside the messages. Several groups, and larger pages,
are covered by the proofs, not by the run. In `ConnectStream` two nonces make the
stream in use and its replacement; `Backlog` bounds the events in flight. There a
behaviour has one rare event (`RareBound`), in `GroupSync` each kind at most once
(`Repeats`); the proofs have any number of them. In `ListingFeed` rows do not meet (every
statement names one row), so one message is enough; the six texts are one per
branch of the parser: a rental with two prices, a sale in AED, no property with
an implausible price, chat that names an area with a currency of its own (GBP), a
link, a text too short. One reply states a confidence above 100 and a rental
period, one is a refusal without a score, one is malformed.

`CHECK_DEADLOCK FALSE`: once the budgeted events are used up and everything is
settled, the pipeline, a user without a bridge, the page and the dialog have
nothing to do. The breaker never stops, and its deadlock check is on.

Fairness. Every running process takes its next step (weak fairness of
`Process`, `Handle`, `Subprocess`), a crashed worker is restarted by the container
runtime, timers fire and time passes (`GrowStale`, `CoolOff`, `Expire`). The worker
loop reaches the interval checks of the reaper and the poll and its pop again
and again, while other steps disable and re-enable them: strong fairness for
`ReapScan`, `PollScan`, `Dequeue`. New messages, faults, reparses and user requests
have none. A bridge that was told to go exits or is killed after three seconds.
On the bridge a call into the browser ends, if only by its timeout, the page
lock is first come first served, and a scan that goes round is over after its
`MAX_MS` (strong fairness for `GroupsDetected`). In `ConnectStream` what the server does with each nonce
(answer a request, delete, handle a close), the EventSource (a proxy closes an
idle one, a new nonce follows), the dialog's reading and its polling are weakly
fair. A fetch of the page that has begun
ends and an entry's time to live passes; that the page keeps getting responses
is a premise of `HiddenLeavesFeed`, since nothing makes the user fetch.
For the breaker: the dashboard keeps polling and each call has a timeout.
`Recovers` is stated only for behaviours in which calls stop failing (one that another
breaker turns away counts as failing, where its success would have mattered).

## 4. Proofs

TLAPS checks these for any messages, workers, calls, instances and budgets,
from the assumptions on the constants only:

* `ParsePipeline`: `TypeOK`; `DeadLetterBudget`; `DoneHasListing`;
  `ExhaustedIsBuried`; `DeadLetterStaysOut`; `KeepsContract` (the refinement of
  `ParseContract` without its liveness; the runs check `FulfilsContract`, with it).
* `CircuitBreaker`: `ClosedBelowThreshold`, `ProbeUnderWay`, and `TypeOK`, on which
  they rest and which no run lists.
* `BridgeLifecycle`: `TypeOK`, `OneBridge`, `LiveBridgeIsLeased`, `EntryIsThere`,
  `RefreshHasBridge`; `KeepsLease` (the refinement of `LeaseContract`).
* `GroupSync`: `TypeOK`, `OnlyChosenGroups`, `OnePage`, `CoversTheDay`.
* `ConnectStream`: `TypeOK`, `NonceOnce`, `NewsIsUnderWay`.
* `Listings` and `ListingFeed`: `TypeOK` and `FeedTypeOK` (for any markets, and
  whatever confidence a model states: it is clamped, and stays within 0..100
  through merge, reconciliation and repair), `QuarantinedIsHidden`,
  `VisiblePriceIsPlausible`, `PassKeepsVerdicts`, `RerunChangesNothing`; and that the feed implements the table
  (`FeedSpec => Spec`), so what holds of the table holds under the feed.

The arguments. `DeadLetterBudget` speaks of states between two statements of a
worker, so it is not inductive: a worker may bury a job whose attempts it
checked some steps ago. `BuryExhausted` adds that they are still exhausted, which
holds because attempts only grow. In the same way `FinishHasListing` adds to
`DoneHasListing` that a worker about to write `done` has written the listing and,
short of a reparse, nobody has removed it. `DeadLetterStaysOut` is about steps: by
the lemma `CopiesOnlyMove` a step that is no new row, re-run or scan only moves
copies that are under way already, and of the three scans the reaper's and the
poll's pass over a dead job. The lemma `StepCases` splits a step
once for all these proofs: most actions (`Calm`) touch neither the job table nor
the listings nor the control states in question. `OneBridge` follows from
`LeaseInv`: starts between lease and `spawn()`, and bridges until their release has
reached Redis, are claims; there is at most one claim and it owns the lease. A
new claim begins only when the lease is free, one claim turns into the next, and
the lease expires only when its owner has none. `KeepsLease` follows from the same
invariant: the contract lets a bridge start only while none runs and its instance
owns the lease, which is what a claim about to `spawn()` knows, and takes the
lease from nobody whose bridge runs, which is what `ClaimIsLeased` says.
`RefreshHasBridge` is inductive beside the types: the exit handler stops the timer
by user and not by child, so whichever child's exit it handles, no timer is left
running for it.

`NonceOnce` needs the number of streams a nonce has opened together with where it
still is: a nonce that is kept anywhere has opened none, and unless GETDEL
failed for it nobody holds one that was read and not deleted. `NewsIsUnderWay`
is not inductive: the dialog comes to the page that waits by reading a `connected`,
so `NewsInv` says that news is behind a `connected` still unread, too (`Expects`);
an event that is sent is the last of the wire and the one remembered (`Carries`),
one that is replayed comes right after the `connected` of its stream, and a step
that cuts the wire leaves no live stream. `OnlyChosenGroups` is
inductive beside the types, since every copy of the selection is made from
another copy. `OnePage` is inductive too: a step leaves the waiting alone, adds one
who was not in the queue, or removes the first. `CoversTheDay` speaks of the end of
a harvest, so `Covering` says what holds between its pages: what was aimed at is
still in the browser and is found already or older than everything found. A page
is an upper part of what is left (`PageIsUpper`), and one that is not full is all
of it (`ShortPage`, by the library's well-founded order on finite sets). A small
chat is the case of one page: fetched short, it is everything there is.
`QuarantinedIsHidden` follows the field `reason` through each
operator of the parser: whatever sets it sets the confidence to 0, and the one
that raises the confidence clears it or is followed by the check. For
`RerunChangesNothing` the table's missing columns matter: `is_listing` and
parking are lost when a row is stored, and the pass counts parking from the text
again. The proof shows that repairs settle after one application, that the score
of a repaired row is the score of the stored one, and that the check decides
the same with the verdict in `reason` as it did with it in `is_listing`; what a
worker holds is settled already before it is saved (`RerunInv`).
`VisiblePriceIsPlausible` is about the three columns `price`, `reason` and `conf`,
which writers in a race mix with others but write together: every result and
every repaired row is `Plausible` (its price is, or it is hidden), and each
statement keeps that (`PriceInv`). The ceiling for rents is no such property, and
no invariant of the code: it needs the column `intent` too, which a pass that
read the row earlier can leave beside a price it was not checked with.
`PassKeepsVerdicts` is an action property and speaks of the verdict the pass has
read; one that was given since is what `VerdictStands` refutes.

Only model-checked: everything about liveness (`FulfilsContract`, `Recovers`,
`LeaseIsFreed`, `HandlersEnd`, `SecondPassReads`, `CodeIsShown`, `LinkIsNoticed`,
`HiddenLeavesFeed`), which the prover cannot reach, and the properties the code
violates. Every invariant and action property of a passing run is proved.
The properties of the four violation runs are what the code or its documents say
and what fails.

## 5. What the code does otherwise than it says

`PROJECT.json` (`findings`) quotes the lines of four: reparse without a queue
loses the listings; auto-resume after a quick restart is turned away by the lease
of the instance's former run; a selection announced during a backfill takes no
effect; a re-run without any model's answer lifts a verdict.

Others met while modelling, which no run here asks about (the models have the
steps):

* Dead letters: `006_parse_jobs_dlq.sql:2-3` says that a dead job stays out of the
  active queue, `parseWorker.js:381-383` that only an operator requeues it and
  `:259-261` that recovery skips tracked rows. Start-up recovery (`:276-287`) asks
  nothing of the job, so every worker that starts pushes the dead letters again
  and `processOne` takes them up. `DeadLetterStaysOut` names this as its
  exception, and `Exhume` of the contract allows it.
* Reattach: `rescrape` without an entry takes a state file of the last ten minutes
  for a bridge (`whatsappService.js:727-746`) and registers a ready entry without
  a process: `/status` reports a user connected who has no bridge, where its
  comment wants the bridge's own `ready`, and nothing drops the entry but
  `disconnect`.
* Set-up: a directory that cannot be made (`whatsappService.js:351`, `:356`) leaves
  the user in `_initializing`; the next `initiate-qr` is told that a start is under
  way, nothing starts, and `disconnect` before the retry, meant to prevent that
  (`QRModal.tsx:254`), does not clear it.
* Breaker: the comment at `circuitBreaker.js:21` wants one probe at a time. After a
  success from before the opening has reset the count (`:64`), a failed probe
  leaves the breaker half open with the flag down, and every caller goes through;
  and any call that settles clears the flag of a probe still running (`:59`).
* Pipeline: a failed run on the queue path counts two attempts (claim and
  bookkeeping, `parseWorker.js:64` and `:372`), so five attempts are three runs.
  The runbook's own way to take dead letters up again is an operator's, and not
  modelled.
* Connect: `lastState` survives the exit of a bridge and an old `authenticated` is
  replayed to a new stream; any event of another tab takes the place of the code
  to replay, until wppconnect renews the code; a client that leaves during the nonce lookup leaves a
  dead stream registered; two failed fetches of the first nonce leave the dialog
  at its first page; the host's poll closes the dialog during group selection; if
  GETDEL fails once, a nonce can be used twice.
* Parser: `parse()` throws on a reply of Gemini whose `amenities` are no list
  (`dual-parser.js:240`, outside the `try`), and the message is retried and buried;
  without `GROQ_API_KEY` Gemini's answer is dropped, a text that states its
  bedrooms throws and any other is `not_a_listing`, where the head of
  `llm-parser.js` promises the expressions; "AED 2M" is read as 2, which is
  implausible; an earlier price expression beats a better one ("deposit 1 lakh"
  before "rent 22500"); two missing `is_listing` are reconciled to false.
* Feed: a flag is said to hide at once, and the cache serves the listing until its
  entry expires; search, agents and digests have no gate on confidence at all;
  a digest taken early in the day is not taken again.

## 6. Not modelled, and what could follow

Not modelled by design: what regular expressions and prompts extract from text,
the browser, queries that only read, formatting, audit log, logging, tracing,
health reports, the dashboard's rendering, the legacy scraper. The Postgres pool
and the Redis client are external: a statement or call is atomic, and may fail
where the code handles it.

Left out and worth adding:

1. `BridgeLifecycle`: Redis outages with the in-memory leases, where two bridges
   become possible, and bridges that outlive a server outside a container.
2. The Redis stream of bridge events next to the tailed file (`bridgeBus.js`):
   double delivery and replay.
3. Digests, and search and agents in the feed, with the dates of listings.
4. Migrations: the two runners over one `schema_migrations` table.
