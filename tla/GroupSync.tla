------------------------------ MODULE GroupSync ------------------------------
(***************************************************************************)
(* How one user's choice of groups becomes stored messages: selectGroups,  *)
(* getGroups and rescrape of whatsappService.js on the server, the command *)
(* channel of bridgeBus.js, and on the bridge (whatsapp-qr-bridge.js) the  *)
(* command dispatch, the backfill of the chosen groups, the group scan and *)
(* the live message listener, which share one browser page.                *)
(*                                                                         *)
(* The server and the bridge each run one handler at a time and interleave *)
(* at their awaits.  A call into the browser ends, if only by the protocol *)
(* timeout.  The messages of a group are numbered in the order sent.       *)
(***************************************************************************)
EXTENDS Integers, Sequences, FiniteSets

CONSTANTS
  Groups,      \* the WhatsApp groups of the user
  Scans,       \* group scans that can be under way at the same time
  Redis,       \* whether the server has a Redis connection
  MaxMessages, \* bound of the model on the messages of a group
  OldMessages, \* how many of them are older than COVERAGE_HOURS
  PageSize,    \* PAGE_SIZE
  MaxPages,    \* MAX_PAGES
  Rare,        \* the rare events of the model
  RareBound,   \* bound of the model on how many kinds of them happen
  Repeats      \* bound of the model on how often each of them happens

RareEvents == {"select", "rescrape", "scan", "message", "fault"}

ASSUME GroupsAssumption == IsFiniteSet(Groups)
ASSUME ScansAssumption == "batch" \notin Scans
ASSUME RedisAssumption == Redis \in BOOLEAN
ASSUME MessagesAssumption == MaxMessages \in Nat /\ OldMessages \in 0 .. MaxMessages
ASSUME PagingAssumption == PageSize \in Nat \ {0} /\ MaxPages \in Nat \ {0}
ASSUME RareAssumption == Rare \subseteq RareEvents /\ RareBound \in Nat /\ Repeats \in Nat

VARIABLES
  pg,        \* monitored_groups in Postgres
  sqlite,    \* selected_groups in SQLite
  saving,    \* the selectGroups call under way: the await it is at, its groups
  list,      \* bridge:cmd:<user>, the Redis list of commands
  file,      \* the command file: at most one command, stale or not
  waiter,    \* whether a getGroups promise is pending
  phase,     \* "spawned", "booted" (reads commands), "linked" (ready)
  loading,   \* the load of the groups at ready, and the rows it has read
  monitored, \* monitoredGroupIds
  batch,     \* the backfill in flight: where it is and what is left
  scan,      \* where each group scan is
  page,      \* the holder of the page lock and those who wait for it
  sent,      \* how many messages each group has
  store,     \* those of them that have reached the browser
  saved,     \* the messages of each group in the database
  chosen,    \* history: every group the user has ever selected
  used       \* how often each rare event has happened

tables  == <<pg, sqlite, saving, chosen>>
channel == <<list, file>>
groups  == <<waiter, scan>>
chats   == <<sent, store, saved>>
vars == <<tables, channel, groups, phase, loading, monitored, batch, page, chats,
          used>>

Commands == {"get_groups", "start_monitoring", "rescrape"}
Messages == 1 .. MaxMessages
Nothing  == [at |-> "idle", want |-> {}]
NoCommand == [cmd |-> "none", stale |-> FALSE]

\* The backfill while _backfillInFlight is down.  aim is history: what a harvest
\* was to cover when it began.
NoBatch  == [at |-> "idle", rows |-> {}, empty |-> {}, retry |-> FALSE,
             group |-> {}, large |-> FALSE, found |-> {}, pages |-> 0, aim |-> {}]

BatchPlaces == {"idle", "read", "apply", "next", "queued", "settle", "scroll",
                "harvest", "persist", "wait"}

TablesOK  == /\ pg \subseteq Groups /\ sqlite \subseteq Groups
             /\ saving \in [at: {"idle", "insert", "mirror", "send"},
                            want: SUBSET Groups]
             /\ chosen \subseteq Groups

ChannelOK == /\ list \in Seq(Commands)
             /\ file \in [cmd: Commands \cup {"none"}, stale: BOOLEAN]
             /\ waiter \in BOOLEAN

BridgeOK  == /\ phase \in {"spawned", "booted", "linked"}
             /\ loading \in [at: {"due", "read", "done"}, rows: SUBSET Groups]
             /\ monitored \subseteq Groups
             /\ scan \in [Scans -> {"off", "queued", "pause"}]
             /\ page \in Seq(Scans \cup {"batch"})

BatchOK   == batch \in [at: BatchPlaces, rows: SUBSET Groups,
                        empty: SUBSET Groups, retry: BOOLEAN,
                        group: SUBSET Groups, large: BOOLEAN,
                        found: SUBSET Messages, pages: 0 .. MaxPages,
                        aim: SUBSET Messages]

ChatsOK   == /\ sent \in [Groups -> 0 .. MaxMessages]
             /\ store \in [Groups -> SUBSET Messages]
             /\ saved \in [Groups -> SUBSET Messages]

UsedOK    == used \in [RareEvents -> Nat]

TypeOK == TablesOK /\ ChannelOK /\ BridgeOK /\ BatchOK /\ ChatsOK /\ UsedOK

\* A bridge is spawned for a user who may have chosen groups before.
Init ==
  /\ pg \in SUBSET Groups /\ sqlite = pg /\ chosen = pg
  /\ saving = Nothing
  /\ list = <<>> /\ file = NoCommand
  /\ waiter = FALSE
  /\ phase = "spawned"
  /\ loading = [at |-> "due", rows |-> {}]
  /\ monitored = {}
  /\ batch = NoBatch
  /\ scan = [s \in Scans |-> "off"]
  /\ page = <<>>
  /\ sent \in [Groups -> OldMessages .. MaxMessages]
  /\ store = [g \in Groups |-> {}]
  /\ saved = [g \in Groups |-> {}]
  /\ used = [e \in RareEvents |-> 0]

Happens(event) == /\ event \in Rare /\ used[event] < Repeats
                  /\ Cardinality({e \in Rare \ {event} : used[e] > 0}) < RareBound
                  /\ used' = [used EXCEPT ![event] = @ + 1]

(***************************************************************************)
(* The command channel.  sendCommand pushes to Redis; without Redis the    *)
(* caller writes the command file, over a command that waits there.  The   *)
(* bridge asks for Redis while its modules load, before a connection can   *)
(* be ready, and so reads the file and nothing else.                       *)
(***************************************************************************)
Announces(cmd) == cmd \in {"start_monitoring", "rescrape"}

WriteFile(cmd) == file' = [cmd |-> cmd, stale |-> FALSE]

Send(cmd) ==
  IF Redis THEN list' = Append(list, cmd) /\ UNCHANGED file
           ELSE WriteFile(cmd) /\ UNCHANGED list

(***************************************************************************)
(* selectGroups: SQLite row by row, an error of which fails the request,   *)
(* then Postgres in one transaction, whose failure is only logged, then    *)
(* the command.                                                            *)
(***************************************************************************)
Select(S) ==
  /\ S # {}
  /\ saving.at = "idle"
  /\ Happens("select")
  /\ saving' = [at |-> "insert", want |-> S]
  /\ sqlite' = {}
  /\ chosen' = chosen \cup S
  /\ UNCHANGED <<pg, channel, groups, phase, loading, monitored, batch, page,
                 chats>>

InsertGroup(g) ==
  /\ saving.at = "insert"
  /\ g \in saving.want \ sqlite
  /\ sqlite' = sqlite \cup {g}
  /\ saving' = [saving EXCEPT !.at = IF sqlite' = saving.want THEN "mirror" ELSE @]
  /\ UNCHANGED <<pg, chosen, channel, groups, phase, loading, monitored, batch,
                 page, chats, used>>

InsertFails ==
  /\ saving.at = "insert"
  /\ Happens("fault")
  /\ saving' = Nothing
  /\ UNCHANGED <<pg, sqlite, chosen, channel, groups, phase, loading, monitored,
                 batch, page, chats>>

Mirror ==
  /\ saving.at = "mirror"
  /\ saving' = [saving EXCEPT !.at = "send"]
  /\ \/ pg' = saving.want /\ UNCHANGED used
     \/ Happens("fault") /\ UNCHANGED pg
  /\ UNCHANGED <<sqlite, chosen, channel, groups, phase, loading, monitored,
                 batch, page, chats>>

StartMonitoring ==
  /\ saving.at = "send"
  /\ saving' = Nothing
  /\ Send("start_monitoring")
  /\ UNCHANGED <<pg, sqlite, chosen, groups, phase, loading, monitored, batch,
                 page, chats, used>>

(***************************************************************************)
(* rescrape uses both channels; so does nobody else any more.  A resumed   *)
(* session gets one rescrape ten seconds after ready, by sendCommand or    *)
(* else the file.                                                          *)
(***************************************************************************)
Rescrape ==
  /\ Happens("rescrape")
  /\ list' = IF Redis THEN Append(list, "rescrape") ELSE list
  /\ WriteFile("rescrape")
  /\ UNCHANGED <<tables, groups, phase, loading, monitored, batch, page, chats>>

AutoBackfill ==
  /\ phase = "linked"
  /\ Happens("rescrape")
  /\ Send("rescrape")
  /\ UNCHANGED <<tables, groups, phase, loading, monitored, batch, page, chats>>

(***************************************************************************)
(* getGroups, when the list cached for CACHE_TTL_MS is missing, too old or *)
(* empty.  A call that finds a pending promise waits for that one.         *)
(***************************************************************************)
GetGroups ==
  /\ phase = "linked"
  /\ ~waiter
  /\ Happens("scan")
  /\ waiter' = TRUE
  /\ Send("get_groups")
  /\ UNCHANGED <<tables, scan, phase, loading, monitored, batch, page,
                 chats>>

\* 130 seconds after the call.
GetGroupsTimesOut ==
  /\ waiter
  /\ waiter' = FALSE
  /\ UNCHANGED <<tables, channel, scan, phase, loading, monitored, batch,
                 page, chats, used>>

(***************************************************************************)
(* The bridge.  A command of more than CMD_STALE_SKEW_MS before BOOT_TS is *)
(* stale.                                                                  *)
(***************************************************************************)
Boot ==
  /\ phase = "spawned"
  /\ phase' = "booted"
  /\ \E late \in BOOLEAN :
       file' = IF file = NoCommand THEN file ELSE [file EXCEPT !.stale = late]
  /\ UNCHANGED <<tables, list, groups, loading, monitored, batch, page, chats, used>>

Link ==
  /\ phase = "booted"
  /\ phase' = "linked"
  /\ UNCHANGED <<tables, channel, groups, loading, monitored, batch, page, chats, used>>

\* The rows loadMonitoredGroups reads: those of Postgres, else of SQLite.
Rows(rows) ==
  \/ rows = pg /\ UNCHANGED used
  \/ rows = sqlite /\ Happens("fault")

ReadAtReady ==
  /\ phase = "linked" /\ loading.at = "due"
  /\ \/ \E rows \in {pg, sqlite} :
          Rows(rows) /\ loading' = [at |-> "read", rows |-> rows]
     \/ Happens("fault") /\ loading' = [loading EXCEPT !.at = "done"]
  /\ UNCHANGED <<tables, channel, groups, phase, monitored, batch, page, chats>>

MonitorAtReady ==
  /\ loading.at = "read"
  /\ loading' = [loading EXCEPT !.at = "done"]
  /\ monitored' = loading.rows
  /\ UNCHANGED <<tables, channel, groups, phase, batch, page, chats, used>>

\* runBackfillBatch: a command that finds a backfill in flight is skipped.
Backfill(cmd) ==
  /\ Announces(cmd)
  /\ batch' = IF batch = NoBatch THEN [NoBatch EXCEPT !.at = "read"] ELSE batch
  /\ UNCHANGED <<scan, page>>

StartScan(cmd) ==
  /\ cmd = "get_groups"
  /\ \E s \in Scans :
       /\ scan[s] = "off"
       /\ scan' = [scan EXCEPT ![s] = "queued"]
       /\ page' = Append(page, s)
  /\ UNCHANGED batch

TakeCommand ==
  /\ phase # "spawned"
  /\ file # NoCommand
  /\ file' = NoCommand
  /\ \/ file.stale /\ UNCHANGED <<batch, scan, page>>
     \/ ~file.stale /\ Backfill(file.cmd)
     \/ ~file.stale /\ StartScan(file.cmd)
  /\ UNCHANGED <<tables, list, waiter, phase, loading, monitored, chats,
                 used>>

(***************************************************************************)
(* The backfill, one group after the other, each under the page lock.      *)
(***************************************************************************)
BatchReads ==
  /\ batch.at = "read"
  /\ \/ \E rows \in {pg, sqlite} :
          Rows(rows) /\ batch' = [batch EXCEPT !.at = "apply", !.rows = rows]
     \/ Happens("fault") /\ batch' = NoBatch
  /\ UNCHANGED <<tables, channel, groups, phase, loading, monitored, page, chats>>

BatchMonitors ==
  /\ batch.at = "apply"
  /\ batch' = [batch EXCEPT !.at = "next"]
  /\ monitored' = batch.rows
  /\ UNCHANGED <<tables, channel, groups, phase, loading, page, chats, used>>

NextGroup(g) ==
  /\ batch.at = "next"
  /\ g \in batch.rows
  /\ batch' = [batch EXCEPT !.at = "queued", !.rows = @ \ {g}, !.group = {g}]
  /\ page' = Append(page, "batch")
  /\ UNCHANGED <<tables, channel, groups, phase, loading, monitored, chats, used>>

\* Mutant: a second pass that is followed by another.
SecondPassAlways == batch.empty # {}

\* The flag stays up while groups that gave nothing wait for their second pass.
SecondPassDue == batch.empty # {} /\ ~batch.retry

EndPass ==
  /\ batch.at = "next" /\ batch.rows = {}
  /\ batch' = IF SecondPassDue THEN [batch EXCEPT !.at = "wait"] ELSE NoBatch
  /\ UNCHANGED <<tables, channel, groups, phase, loading, monitored, page, chats, used>>

\* Mutant: clears the groups before it hands them over.
RetryNothing == [batch EXCEPT !.at = "next", !.rows = {}, !.empty = {}, !.retry = TRUE]

Retry == [batch EXCEPT !.at = "next", !.rows = batch.empty, !.empty = {}, !.retry = TRUE]

SecondPass ==
  /\ batch.at = "wait"
  /\ batch' = IF phase = "linked" THEN Retry ELSE NoBatch
  /\ UNCHANGED <<tables, channel, groups, phase, loading, monitored, page, chats, used>>

HasPage(holder) == page # <<>> /\ Head(page) = holder

\* Mutant: keeps the page.
GroupDoneOnPage(stored) ==
  /\ page' = page
  /\ batch' = [NoBatch EXCEPT !.at = "next", !.rows = batch.rows,
                              !.empty = batch.empty, !.retry = batch.retry]

\* Mutant: the next group goes on counting pages where this one stopped.
GroupDonePagesKept(stored) ==
  /\ page' = Tail(page)
  /\ batch' = [batch EXCEPT !.at = "next", !.group = {}, !.large = FALSE,
                            !.found = {}, !.aim = {},
                            !.empty = IF stored = {} THEN @ \cup batch.group ELSE @]

\* backfillGroup returns: the page goes to the next in line.
GroupDone(stored) ==
  /\ page' = Tail(page)
  /\ batch' = [batch EXCEPT !.at = "next", !.group = {}, !.large = FALSE,
                            !.found = {}, !.pages = 0, !.aim = {},
                            !.empty = IF stored = {} THEN @ \cup batch.group ELSE @]

Recent(S) == {m \in S : m > OldMessages}

\* Step 0: three attempts to open the chat; one that stays shut counts as large.
OpenChat(g) ==
  /\ batch.at = "queued" /\ batch.group = {g} /\ HasPage("batch")
  /\ \/ phase # "linked" /\ GroupDone({})
     \/ /\ phase = "linked"
        /\ \E shut \in BOOLEAN :
             batch' = [batch EXCEPT !.at = "settle", !.large = shut]
        /\ UNCHANGED page
  /\ UNCHANGED <<tables, channel, groups, phase, loading, monitored, chats, used>>

StartHarvest(g, large) ==
  [batch EXCEPT !.at = "harvest", !.large = large, !.aim = Recent(store[g])]

\* Step 0b: look at the chat until it stops growing; one too slow to list in ten
\* seconds counts as large.
Settle(g) ==
  /\ batch.at = "settle" /\ batch.group = {g}
  /\ \/ batch.large /\ batch' = StartHarvest(g, TRUE)
     \/ ~batch.large /\ \E slow \in BOOLEAN :
          batch' = [batch EXCEPT !.at = "scroll", !.large = slow]
  /\ UNCHANGED <<tables, channel, groups, phase, loading, monitored, page, chats,
                 used>>

\* Step 1, for a chat that opened: scrolling back makes the phone send what is
\* missing, now or later.
Scroll(g) ==
  /\ batch.at = "scroll" /\ batch.group = {g}
  /\ batch' = StartHarvest(g, batch.large)
  /\ UNCHANGED <<tables, channel, groups, phase, loading, monitored, page, chats,
                 used>>

\* The newest n messages of S.
Newest(n, S) == {m \in S : Cardinality({k \in S : k > m}) < n}

\* Step 2 for a small chat: the newest targetCount messages, which is what
\* MAX_PAGES pages hold too, or nothing when the calls fail.
Harvest(g) ==
  /\ batch.at = "harvest" /\ batch.group = {g} /\ ~batch.large
  /\ \/ batch' = [batch EXCEPT !.at = "persist", !.found = Newest(PageSize * MaxPages, store[g])]
        /\ UNCHANGED used
     \/ batch' = [batch EXCEPT !.at = "persist"] /\ Happens("fault")
  /\ UNCHANGED <<tables, channel, groups, phase, loading, monitored, page, chats>>

\* Those before the cursor, the oldest message found so far.
Before(cursor, S) == {m \in S : \A k \in cursor : m < k}

\* Mutant: a full page taken for the last.
LastPageEarly(got) == \/ Cardinality(got) <= PageSize
                      \/ batch.pages + 1 = MaxPages

\* Too short, back at the cutoff, or one of MAX_PAGES.
LastPage(got) == \/ Cardinality(got) < PageSize
                 \/ got # Recent(got)
                 \/ batch.pages + 1 = MaxPages

\* Step 2 for a large chat: page after page.
HarvestPage(g) ==
  /\ batch.at = "harvest" /\ batch.group = {g} /\ batch.large
  /\ LET got == Newest(PageSize, Before(batch.found, store[g]))
     IN  \/ /\ batch' = [batch EXCEPT
                           !.found = @ \cup got,
                           !.pages = IF got = {} THEN @ ELSE @ + 1,
                           !.at = IF LastPage(got) THEN "persist" ELSE @]
            /\ UNCHANGED used
         \/ /\ Happens("fault")
            /\ batch' = [batch EXCEPT !.at = "persist"]
  /\ UNCHANGED <<tables, channel, groups, phase, loading, monitored, page, chats>>

\* Step 3: one message that cannot be stored does not stop the others.
Persist(g) ==
  /\ batch.at = "persist" /\ batch.group = {g} /\ HasPage("batch")
  /\ \E kept \in SUBSET batch.found :
       /\ \/ kept = batch.found /\ UNCHANGED used
          \/ kept # batch.found /\ Happens("fault")
       /\ saved' = [saved EXCEPT ![g] = @ \cup kept]
       /\ GroupDone(kept)
  /\ UNCHANGED <<tables, channel, groups, phase, loading, monitored, sent, store>>

(***************************************************************************)
(* The group scan: fetch under the page lock, pause, fetch again, and      *)
(* answer with the largest list seen when it is stable or time is up.      *)
(***************************************************************************)
FetchChats(s) ==
  /\ scan[s] = "queued" /\ HasPage(s)
  /\ page' = Tail(page)
  /\ scan' = [scan EXCEPT ![s] = "pause"]
  /\ UNCHANGED <<tables, channel, waiter, phase, loading, monitored, batch,
                 chats, used>>

FetchAgain(s) ==
  /\ scan[s] = "pause"
  /\ scan' = [scan EXCEPT ![s] = "queued"]
  /\ page' = Append(page, s)
  /\ UNCHANGED <<tables, channel, waiter, phase, loading, monitored, batch,
                 chats, used>>

GroupsDetected(s) ==
  /\ scan[s] = "pause"
  /\ scan' = [scan EXCEPT ![s] = "off"]
  /\ waiter' = FALSE
  /\ UNCHANGED <<tables, channel, phase, loading, monitored, batch, page, chats, used>>

(***************************************************************************)
(* WhatsApp: the phone streams the history of a group to a linked bridge;  *)
(* a new message reaches it at once, and the listener stores it if the     *)
(* group is monitored.                                                     *)
(***************************************************************************)
Sync(g) ==
  /\ phase = "linked"
  /\ store[g] # 1 .. sent[g]
  /\ store' = [store EXCEPT ![g] = 1 .. sent[g]]
  /\ UNCHANGED <<tables, channel, groups, phase, loading, monitored, batch, page,
                 sent, saved, used>>

\* Mutant: the listener without its filter.
HeardAnywhere(g, m) == [saved EXCEPT ![g] = @ \cup {m}]

Heard(g, m) == IF g \in monitored THEN [saved EXCEPT ![g] = @ \cup {m}] ELSE saved

OnMessage(g) ==
  /\ phase = "linked"
  /\ sent[g] < MaxMessages
  /\ Happens("message")
  /\ sent' = [sent EXCEPT ![g] = @ + 1]
  /\ store' = [store EXCEPT ![g] = @ \cup {sent'[g]}]
  /\ saved' = Heard(g, sent'[g])
  /\ UNCHANGED <<tables, channel, groups, phase, loading, monitored, batch, page>>

Next ==
  \/ \E S \in SUBSET Groups : Select(S)
  \/ InsertFails \/ Mirror \/ StartMonitoring
  \/ Rescrape \/ AutoBackfill
  \/ GetGroups \/ GetGroupsTimesOut
  \/ Boot \/ Link \/ ReadAtReady \/ MonitorAtReady \/ TakeCommand
  \/ BatchReads \/ BatchMonitors \/ EndPass \/ SecondPass
  \/ \E g \in Groups :
       \/ InsertGroup(g) \/ NextGroup(g)
       \/ OpenChat(g) \/ Settle(g) \/ Scroll(g) \/ Harvest(g) \/ HarvestPage(g)
       \/ Persist(g) \/ Sync(g) \/ OnMessage(g)
  \/ \E s \in Scans : FetchChats(s) \/ FetchAgain(s) \/ GroupsDetected(s)

\* Both programs go on running, the page is fair (withPageLock is FIFO) and a
\* scan that goes round is over after MAX_MS.  Nobody has to select or send
\* anything, and nothing has to fail.
Fairness ==
  /\ WF_vars(Mirror) /\ WF_vars(StartMonitoring)
  /\ WF_vars(Boot) /\ WF_vars(Link)
  /\ WF_vars(ReadAtReady) /\ WF_vars(MonitorAtReady) /\ WF_vars(TakeCommand)
  /\ WF_vars(BatchReads) /\ WF_vars(BatchMonitors)
  /\ WF_vars(EndPass) /\ WF_vars(SecondPass)
  /\ \A g \in Groups :
       /\ WF_vars(InsertGroup(g)) /\ WF_vars(NextGroup(g))
       /\ WF_vars(OpenChat(g)) /\ WF_vars(Settle(g)) /\ WF_vars(Scroll(g))
       /\ WF_vars(Harvest(g)) /\ WF_vars(HarvestPage(g))
       /\ WF_vars(Persist(g))
  /\ \A s \in Scans :
       /\ WF_vars(FetchChats(s)) /\ WF_vars(FetchAgain(s))
       /\ SF_vars(GroupsDetected(s))

Spec == Init /\ [][Next]_vars /\ Fairness

(***************************************************************************)
(* Properties.                                                             *)
(***************************************************************************)

\* Nothing is read from a group the user never chose: not by the listener, not
\* by a backfill, however old the rows are that it works from.
OnlyChosenGroups ==
  /\ pg \cup sqlite \cup saving.want \subseteq chosen
  /\ loading.rows \cup monitored \subseteq chosen
  /\ batch.rows \cup batch.empty \cup batch.group \subseteq chosen
  /\ \A g \in Groups : saved[g] # {} => g \in chosen

OnChat == {"settle", "scroll", "harvest", "persist"}

Waiting(holder) ==
  \/ holder = "batch" /\ batch.at \in {"queued"} \cup OnChat
  \/ holder \in Scans /\ scan[holder] = "queued"

\* One browser page: whoever needs it stands in the queue once, nobody else
\* does, and a backfill works on a chat only while it is first.
OnePage ==
  /\ \A i, j \in DOMAIN page : page[i] = page[j] => i = j
  /\ \A holder \in Scans \cup {"batch"} :
       Waiting(holder) <=> \E i \in DOMAIN page : page[i] = holder
  /\ batch.at \in OnChat => HasPage("batch")

\* A backfill that no call failed in and no cap cut short has every message of
\* the last COVERAGE_HOURS that was there when it began, even if newer messages
\* arrived before its only fetch, or between its pages ("whole day" guarantee).
CutShort ==
  IF batch.large THEN batch.pages = MaxPages
                 ELSE Cardinality(batch.found) >= PageSize * MaxPages

CoversTheDay ==
  batch.at = "persist" /\ ~CutShort /\ used["fault"] = 0
    => batch.aim \subseteq batch.found

\* The in-flight flag comes down again, whatever else wants the page, so that
\* later commands are not skipped for ever; and every scan answers.
HandlersEnd ==
  /\ batch.at # "idle" ~> batch.at = "idle"
  /\ \A s \in Scans : scan[s] # "off" ~> scan[s] = "off"

\* A group whose backlog arrives while the bridge waits for its second pass is
\* read in that pass.
SecondPassReads ==
  \A g \in Groups :
    batch.at = "wait" /\ g \in batch.empty /\ store[g] # {}
      ~> saved[g] # {} \/ used["fault"] > 0

\* A saved selection takes effect: the bridge monitors those groups, unless the
\* user changes the selection again.  (start_monitoring in the bridge: "Reload
\* the selected_groups table and run a backfill for each group".)
SelectionTakesEffect ==
  saving.at = "send" ~> monitored = pg \/ saving.at = "insert"
=============================================================================
