-------------------------- MODULE GroupSyncProofs --------------------------
(***************************************************************************)
(* Proofs about GroupSync for any groups, scans, messages and page sizes:  *)
(* its types, that only chosen groups are read, that the browser page has  *)
(* one user at a time, and that a paged backfill covers the day.           *)
(***************************************************************************)
EXTENDS GroupSync, FiniteSetTheorems, TLAPS

\* Until a harvest is over it has a page left.
HarvestBound == batch.at # "persist" => batch.pages < MaxPages

\* Every variable keeps its type; for the page counter that needs HarvestBound.
THEOREM TypeCorrect == Spec => []TypeOK
<1> DEFINE Inv == TypeOK /\ HarvestBound
<1> USE MessagesAssumption, PagingAssumption, RareAssumption
        DEF TypeOK, HarvestBound
<1>1. Init => Inv
  <2> SUFFICES ASSUME Init
               PROVE  Inv
    OBVIOUS
  <2> USE DEF Init
  <2>1. TablesOK
    BY DEF TablesOK, Nothing
  <2>2. ChannelOK
    <3>1. <<>> \in Seq(Commands)
      OBVIOUS
    <3>2. QED
      BY <3>1 DEF ChannelOK, NoCommand
  <2>3. BridgeOK
    BY DEF BridgeOK
  <2>4. BatchOK /\ HarvestBound
    BY DEF BatchOK, NoBatch, BatchPlaces, Messages
  <2>5. ChatsOK
    BY DEF ChatsOK, Messages
  <2>6. UsedOK
    BY DEF UsedOK
  <2>7. QED
    BY <2>1, <2>2, <2>3, <2>4, <2>5, <2>6
<1>2. Inv /\ [Next]_vars => Inv'
  <2> SUFFICES ASSUME Inv, [Next]_vars
               PROVE  Inv'
    OBVIOUS
  <2> USE DEF vars, tables, channel, groups, chats
  <2>1. UsedOK'
    <3>1. \A e \in RareEvents : Happens(e) => UsedOK'
      BY DEF Happens, UsedOK
    <3> HIDE DEF Happens
    <3> USE <3>1 DEF UsedOK, RareEvents
    <3>2. ASSUME NEW S \in SUBSET Groups, Select(S)
          PROVE  UsedOK'
      BY <3>2 DEF Select
    <3>3. CASE InsertFails \/ Mirror \/ StartMonitoring \/ Rescrape \/ AutoBackfill
      BY <3>3 DEF InsertFails, Mirror, StartMonitoring, Rescrape, AutoBackfill
    <3>4. CASE GetGroups \/ GetGroupsTimesOut \/ Boot \/ Link \/ ReadAtReady
      BY <3>4 DEF GetGroups, GetGroupsTimesOut, Boot, Link, ReadAtReady, Rows
    <3>5. CASE MonitorAtReady \/ TakeCommand \/ BatchReads \/ BatchMonitors
               \/ EndPass \/ SecondPass
      BY <3>5 DEF MonitorAtReady, TakeCommand, BatchReads, BatchMonitors, EndPass,
                  SecondPass, Rows
    <3>6. ASSUME NEW g \in Groups,
                 \/ InsertGroup(g) \/ NextGroup(g) \/ OpenChat(g) \/ Settle(g)
                 \/ Scroll(g) \/ Harvest(g) \/ HarvestPage(g) \/ Persist(g)
                 \/ Sync(g) \/ OnMessage(g)
          PROVE  UsedOK'
      BY <3>6 DEF InsertGroup, NextGroup, OpenChat, Settle, Scroll, Harvest,
                  HarvestPage, Persist, Sync, OnMessage
    <3>7. ASSUME NEW s \in Scans, FetchChats(s) \/ FetchAgain(s) \/ GroupsDetected(s)
          PROVE  UsedOK'
      BY <3>7 DEF FetchChats, FetchAgain, GroupsDetected
    <3>8. CASE UNCHANGED vars
      BY <3>8
    <3>9. QED
      BY <3>2, <3>3, <3>4, <3>5, <3>6, <3>7, <3>8 DEF Next
  <2>a. UNCHANGED tables => TablesOK'
    BY DEF TablesOK
  <2>b. UNCHANGED <<channel, waiter>> => ChannelOK'
    BY DEF ChannelOK
  <2>c. UNCHANGED <<phase, loading, monitored, scan, page>> => BridgeOK'
    BY DEF BridgeOK
  <2>d. UNCHANGED batch => BatchOK' /\ HarvestBound'
    BY DEF BatchOK
  <2>e. UNCHANGED chats => ChatsOK'
    BY DEF ChatsOK
  <2>f. batch' = NoBatch => BatchOK' /\ HarvestBound'
    BY DEF NoBatch, BatchPlaces, BatchOK
  <2>2. ASSUME NEW S \in SUBSET Groups, Select(S)
        PROVE  Inv'
    BY <2>2, <2>1, <2>b, <2>c, <2>d, <2>e DEF Select, TablesOK
  <2>3. CASE InsertFails \/ Mirror
    BY <2>3, <2>1, <2>b, <2>c, <2>d, <2>e DEF InsertFails, Mirror, Nothing, TablesOK
  <2>4. CASE StartMonitoring \/ Rescrape \/ AutoBackfill \/ GetGroups
    <3>1. \A cmd \in Commands : Append(list, cmd) \in Seq(Commands)
      BY DEF ChannelOK
    <3>2. \A cmd \in Commands : [cmd |-> cmd, stale |-> FALSE]
                                  \in [cmd: Commands \cup {"none"}, stale: BOOLEAN]
      OBVIOUS
    <3>3. {"start_monitoring", "rescrape", "get_groups"} \subseteq Commands
      BY DEF Commands
    <3>4. /\ list' \in Seq(Commands)
          /\ file' \in [cmd: Commands \cup {"none"}, stale: BOOLEAN]
      <4>1. PICK cmd \in Commands :
               Send(cmd) \/ (WriteFile(cmd) /\ list' \in {list, Append(list, cmd)})
        <5>1. CASE StartMonitoring
          BY <3>3, <5>1 DEF StartMonitoring
        <5>2. CASE Rescrape
          BY <3>3, <5>2 DEF Rescrape
        <5>3. CASE AutoBackfill
          BY <3>3, <5>3 DEF AutoBackfill
        <5>4. CASE GetGroups
          BY <3>3, <5>4 DEF GetGroups
        <5>5. QED
          BY <2>4, <5>1, <5>2, <5>3, <5>4
      <4>2. QED
        BY <4>1, <3>1, <3>2 DEF Send, WriteFile, ChannelOK
    <3>5. ChannelOK'
      BY <2>4, <3>4 DEF StartMonitoring, Rescrape, AutoBackfill, GetGroups, ChannelOK
    <3>6. TablesOK'
      BY <2>4 DEF StartMonitoring, Rescrape, AutoBackfill, GetGroups, Nothing, TablesOK
    <3>7. QED
      BY <2>4, <3>5, <3>6, <2>1, <2>c, <2>d, <2>e
      DEF StartMonitoring, Rescrape, AutoBackfill, GetGroups
  <2>5. CASE GetGroupsTimesOut \/ Boot
    <3>1. ChannelOK'
      BY <2>5 DEF GetGroupsTimesOut, Boot, ChannelOK, NoCommand
    <3>2. BridgeOK'
      BY <2>5 DEF GetGroupsTimesOut, Boot, BridgeOK
    <3>3. QED
      BY <2>5, <3>1, <3>2, <2>1, <2>a, <2>d, <2>e DEF GetGroupsTimesOut, Boot
  <2>6. CASE Link \/ ReadAtReady \/ MonitorAtReady
    <3>1. BridgeOK'
      BY <2>6 DEF Link, ReadAtReady, MonitorAtReady, Rows, TablesOK, BridgeOK
    <3>2. QED
      BY <2>6, <3>1, <2>1, <2>a, <2>b, <2>d, <2>e DEF Link, ReadAtReady, MonitorAtReady
  <2>7. CASE TakeCommand
    <3>1. ChannelOK'
      BY <2>7 DEF TakeCommand, NoCommand, ChannelOK
    <3>2. ASSUME NEW cmd, Backfill(cmd)
          PROVE  BatchOK' /\ HarvestBound' /\ UNCHANGED <<page, scan>>
      <4>1. CASE batch = NoBatch
        BY <3>2, <4>1 DEF Backfill, NoBatch, BatchPlaces, BatchOK
      <4>2. CASE batch # NoBatch
        BY <3>2, <4>2, <2>d DEF Backfill
      <4>3. QED
        BY <4>1, <4>2
    <3>3. ASSUME NEW cmd, StartScan(cmd)
          PROVE  /\ page' \in Seq(Scans \cup {"batch"}) /\ UNCHANGED batch
                 /\ scan' \in [Scans -> {"off", "queued", "pause"}]
      BY <3>3 DEF StartScan, BridgeOK
    <3>4. BridgeOK' /\ BatchOK' /\ HarvestBound'
      BY <2>7, <3>2, <3>3, <2>d DEF TakeCommand, BridgeOK
    <3>5. QED
      BY <2>7, <3>1, <3>4, <2>1, <2>a, <2>e DEF TakeCommand
  <2>8. CASE BatchReads \/ BatchMonitors
    <3>1. BatchOK' /\ HarvestBound'
      <4>0. batch.pages < MaxPages
        BY <2>8 DEF BatchReads, BatchMonitors
      <4>1. PICK rows \in SUBSET Groups :
               \/ batch' = [batch EXCEPT !.at = "apply", !.rows = rows]
               \/ batch' = [batch EXCEPT !.at = "next"]
               \/ batch' = NoBatch
        BY <2>8 DEF BatchReads, BatchMonitors, TablesOK
      <4>2. CASE batch' = [batch EXCEPT !.at = "apply", !.rows = rows]
        BY <4>0, <4>2 DEF BatchPlaces, BatchOK
      <4>3. CASE batch' = [batch EXCEPT !.at = "next"]
        BY <4>0, <4>3 DEF BatchPlaces, BatchOK
      <4>4. CASE batch' = NoBatch
        BY <4>4, <2>f
      <4>5. QED
        BY <4>1, <4>2, <4>3, <4>4
    <3>2. BridgeOK'
      BY <2>8 DEF BatchReads, BatchMonitors, BatchOK, BridgeOK
    <3>3. QED
      BY <2>8, <3>1, <3>2, <2>1, <2>a, <2>b, <2>e DEF BatchReads, BatchMonitors
  <2>9. CASE EndPass \/ SecondPass
    <3>1. BatchOK' /\ HarvestBound'
      <4>0. batch.pages < MaxPages
        BY <2>9 DEF EndPass, SecondPass
      <4>1. CASE batch' = [batch EXCEPT !.at = "wait"]
        BY <4>0, <4>1 DEF BatchPlaces, BatchOK
      <4>2. CASE batch' = Retry
        <5>1. BatchOK'
          BY <4>2, Zenon DEF Retry, BatchPlaces, BatchOK
        <5>2. QED
          BY <4>0, <4>2, <5>1 DEF Retry, BatchOK
      <4>3. CASE batch' = NoBatch
        BY <4>3, <2>f
      <4>4. QED
        BY <2>9, <4>1, <4>2, <4>3 DEF EndPass, SecondPass
    <3>2. QED
      BY <2>9, <3>1, <2>1, <2>a, <2>b, <2>c, <2>e DEF EndPass, SecondPass
  <2>10. ASSUME NEW g \in Groups, InsertGroup(g)
         PROVE  Inv'
    BY <2>10, <2>1, <2>b, <2>c, <2>d, <2>e DEF InsertGroup, TablesOK
  <2>11. ASSUME NEW g \in Groups, NextGroup(g)
         PROVE  Inv'
    <3>1. BatchOK' /\ HarvestBound'
      BY <2>11 DEF NextGroup, BatchPlaces, BatchOK
    <3>2. Append(page, "batch") \in Seq(Scans \cup {"batch"})
      BY DEF BridgeOK
    <3>3. BridgeOK'
      BY <2>11, <3>2 DEF NextGroup, BridgeOK
    <3>4. QED
      BY <2>11, <3>1, <3>3, <2>1, <2>a, <2>b, <2>e DEF NextGroup
  <2>12. ASSUME NEW S, HasPage("batch"), GroupDone(S)
         PROVE  /\ BatchOK' /\ HarvestBound'
                /\ page' \in Seq(Scans \cup {"batch"})
    <3>1. BatchOK' /\ HarvestBound'
      <4>1. PICK empty \in SUBSET Groups :
               batch' = [batch EXCEPT !.at = "next", !.group = {}, !.large = FALSE,
                                      !.found = {}, !.pages = 0, !.aim = {},
                                      !.empty = empty]
        BY <2>12 DEF GroupDone, BatchOK
      <4>2. 0 \in 0 .. MaxPages /\ "next" \in BatchPlaces
        BY DEF BatchPlaces
      <4>3. BatchOK'
        BY <4>1, <4>2, Zenon DEF BatchOK
      <4>4. QED
        BY <4>1, <4>3 DEF BatchOK
    <3>2. QED
      BY <2>12, <3>1 DEF GroupDone, HasPage, BridgeOK
  <2> HIDE DEF HasPage, GroupDone
  <2>13. ASSUME NEW g \in Groups, OpenChat(g)
         PROVE  Inv'
    <3>1. CASE phase # "linked"
      <4>1. BatchOK' /\ HarvestBound' /\ BridgeOK'
        BY <2>12, <2>13, <3>1 DEF OpenChat, BridgeOK
      <4>2. QED
        BY <2>13, <4>1, <2>1, <2>a, <2>b, <2>e DEF OpenChat
    <3>2. CASE phase = "linked"
      <4>1. BatchOK' /\ HarvestBound'
        BY <2>13, <3>2 DEF OpenChat, BatchPlaces, BatchOK
      <4>2. QED
        BY <2>13, <3>2, <4>1, <2>1, <2>a, <2>b, <2>c, <2>e DEF OpenChat
    <3>3. QED
      BY <3>1, <3>2
  <2>14. ASSUME NEW g \in Groups, Settle(g) \/ Scroll(g)
         PROVE  Inv'
    <3>1. Recent(store[g]) \subseteq Messages
      BY DEF Recent, ChatsOK
    <3>2. ASSUME NEW large \in BOOLEAN, batch' = StartHarvest(g, large)
          PROVE  BatchOK' /\ HarvestBound'
      <4>1. "harvest" \in BatchPlaces
        BY DEF BatchPlaces
      <4>2. BatchOK'
        BY <3>1, <3>2, <4>1, Zenon DEF StartHarvest, BatchOK
      <4>3. batch'.pages < MaxPages
        BY <2>14, <3>2 DEF Settle, Scroll, StartHarvest, BatchOK
      <4>4. QED
        BY <4>2, <4>3
    <3>3. ASSUME NEW slow \in BOOLEAN,
                 batch' = [batch EXCEPT !.at = "scroll", !.large = slow]
          PROVE  BatchOK' /\ HarvestBound'
      BY <2>14, <3>3 DEF Settle, Scroll, BatchPlaces, BatchOK
    <3>4. batch.large \in BOOLEAN
      BY DEF BatchOK
    <3>5. QED
      BY <2>14, <3>2, <3>3, <3>4, <2>1, <2>a, <2>b, <2>c, <2>e DEF Settle, Scroll
  <2>15. ASSUME NEW g \in Groups, Harvest(g)
         PROVE  Inv'
    <3>1. Newest(PageSize * MaxPages, store[g]) \subseteq Messages
      BY DEF Newest, ChatsOK
    <3>2. BatchOK' /\ HarvestBound'
      BY <2>15, <3>1 DEF Harvest, BatchPlaces, BatchOK
    <3>3. QED
      BY <2>15, <3>2, <2>1, <2>a, <2>b, <2>c, <2>e DEF Harvest
  <2>16. ASSUME NEW g \in Groups, HarvestPage(g)
         PROVE  Inv'
    <3> DEFINE got == Newest(PageSize, Before(batch.found, store[g]))
    <3>1. got \subseteq Messages
      BY DEF Newest, Before, ChatsOK
    <3>2. batch.pages + 1 = MaxPages => LastPage(got)
      BY DEF LastPage
    <3>3. \/ batch' = [batch EXCEPT !.found = @ \cup got,
                                    !.pages = IF got = {} THEN @ ELSE @ + 1,
                                    !.at = IF LastPage(got) THEN "persist" ELSE @]
          \/ batch' = [batch EXCEPT !.at = "persist"]
      BY <2>16 DEF HarvestPage
    <3>4. batch.at = "harvest"
      BY <2>16 DEF HarvestPage
    <3> HIDE DEF got
    <3>5. BatchOK' /\ HarvestBound'
      <4>1. CASE batch' = [batch EXCEPT !.at = "persist"]
        BY <4>1 DEF BatchPlaces, BatchOK
      <4>2. CASE batch' = [batch EXCEPT !.found = @ \cup got,
                                    !.pages = IF got = {} THEN @ ELSE @ + 1,
                                    !.at = IF LastPage(got) THEN "persist" ELSE @]
        <5>1. (IF got = {} THEN batch.pages ELSE batch.pages + 1) \in 0 .. MaxPages
          BY <3>4 DEF BatchOK
        <5>2. (IF LastPage(got) THEN "persist" ELSE batch.at) \in BatchPlaces
          BY DEF BatchPlaces, BatchOK
        <5>3. batch.found \cup got \in SUBSET Messages
          BY <3>1 DEF BatchOK
        <5>4. BatchOK'
          BY <4>2, <5>1, <5>2, <5>3 DEF BatchOK
        <5>5. HarvestBound'
          BY <3>2, <3>4, <4>2 DEF BatchOK
        <5>6. QED
          BY <5>4, <5>5
      <4>3. QED
        BY <3>3, <4>1, <4>2
    <3>6. QED
      BY <2>16, <3>5, <2>1, <2>a, <2>b, <2>c, <2>e DEF HarvestPage
  <2>17. ASSUME NEW g \in Groups, Persist(g)
         PROVE  Inv'
    <3>1. PICK kept \in SUBSET batch.found :
             saved' = [saved EXCEPT ![g] = @ \cup kept] /\ GroupDone(kept)
      BY <2>17 DEF Persist
    <3>2. HasPage("batch")
      BY <2>17 DEF Persist
    <3>3. BatchOK' /\ HarvestBound' /\ page' \in Seq(Scans \cup {"batch"})
      BY <2>12, <3>1, <3>2
    <3>4. ChatsOK'
      BY <2>17, <3>1 DEF Persist, ChatsOK, BatchOK
    <3>5. BridgeOK'
      BY <2>17, <3>3 DEF Persist, BridgeOK
    <3>6. QED
      BY <2>17, <3>3, <3>4, <3>5, <2>1, <2>a, <2>b DEF Persist
  <2>18. ASSUME NEW s \in Scans, FetchChats(s) \/ FetchAgain(s) \/ GroupsDetected(s)
         PROVE  Inv'
    <3>1. page' \in Seq(Scans \cup {"batch"})
      <4>1. page # <<>> => Tail(page) \in Seq(Scans \cup {"batch"})
        BY DEF BridgeOK
      <4>2. Append(page, s) \in Seq(Scans \cup {"batch"})
        BY DEF BridgeOK
      <4>3. QED
        BY <2>18, <4>1, <4>2 DEF FetchChats, FetchAgain, GroupsDetected, HasPage, BridgeOK
    <3>2. BridgeOK'
      BY <2>18, <3>1 DEF FetchChats, FetchAgain, GroupsDetected, BridgeOK
    <3>3. ChannelOK'
      BY <2>18 DEF FetchChats, FetchAgain, GroupsDetected, ChannelOK
    <3>4. QED
      BY <2>18, <3>2, <3>3, <2>1, <2>a, <2>d, <2>e DEF FetchChats, FetchAgain, GroupsDetected
  <2>19. ASSUME NEW g \in Groups, Sync(g) \/ OnMessage(g)
         PROVE  Inv'
    <3>1. CASE Sync(g)
      <4>1. 1 .. sent[g] \subseteq Messages
        BY DEF ChatsOK, Messages
      <4>2. ChatsOK'
        BY <3>1, <4>1 DEF Sync, ChatsOK
      <4>3. QED
        BY <3>1, <4>2, <2>1, <2>a, <2>b, <2>c, <2>d DEF Sync
    <3>2. CASE OnMessage(g)
      <4>1. sent[g] + 1 \in 0 .. MaxMessages /\ sent[g] + 1 \in Messages
        BY <3>2 DEF OnMessage, ChatsOK, Messages
      <4>2. ChatsOK'
        BY <3>2, <4>1 DEF OnMessage, Heard, ChatsOK
      <4>3. QED
        BY <3>2, <4>2, <2>1, <2>a, <2>b, <2>c, <2>d DEF OnMessage
    <3>3. QED
      BY <2>19, <3>1, <3>2
  <2>20. CASE UNCHANGED vars
    BY <2>20, <2>1, <2>a, <2>b, <2>c, <2>d, <2>e
  <2>21. QED
    BY <2>2, <2>3, <2>4, <2>5, <2>6, <2>7, <2>8, <2>9, <2>10, <2>11, <2>13,
       <2>14, <2>15, <2>16, <2>17, <2>18, <2>19, <2>20 DEF Next
<1>3. QED
  BY <1>1, <1>2, PTL DEF Spec

\* OnlyChosenGroups is inductive: what a load reads was chosen when it read it,
\* and chosen only grows.
THEOREM ChosenOnly == Spec => []OnlyChosenGroups
<1> USE DEF OnlyChosenGroups
<1>1. Init => OnlyChosenGroups
  BY DEF Init, Nothing, NoBatch
<1>2. TypeOK /\ OnlyChosenGroups /\ [Next]_vars => OnlyChosenGroups'
  <2> SUFFICES ASSUME TypeOK, OnlyChosenGroups, [Next]_vars
               PROVE  OnlyChosenGroups'
    OBVIOUS
  <2> USE DEF vars, tables, channel, groups, chats
  <2>0. batch \in [at: BatchPlaces, rows: SUBSET Groups, empty: SUBSET Groups,
                   retry: BOOLEAN, group: SUBSET Groups, large: BOOLEAN,
                   found: SUBSET Messages, pages: 0 .. MaxPages,
                   aim: SUBSET Messages]
    BY DEF TypeOK, BatchOK
  <2>1. saved \in [Groups -> SUBSET Messages]
    BY DEF TypeOK, ChatsOK
  <2>2. ASSUME NEW S \in SUBSET Groups, Select(S)
        PROVE  OnlyChosenGroups'
    BY <2>2 DEF Select
  <2>s. saving \in [at: {"idle", "insert", "mirror", "send"}, want: SUBSET Groups]
    BY DEF TypeOK, TablesOK
  <2>3. CASE InsertFails \/ Mirror \/ StartMonitoring
    <3>1. CASE InsertFails \/ StartMonitoring
      BY <3>1 DEF InsertFails, StartMonitoring, Nothing
    <3>2. CASE Mirror
      BY <2>s, <3>2 DEF Mirror
    <3>3. QED
      BY <2>3, <3>1, <3>2
  <2>4. CASE Rescrape \/ AutoBackfill \/ GetGroups \/ GetGroupsTimesOut \/ Boot \/ Link
    BY <2>4 DEF Rescrape, AutoBackfill, GetGroups, GetGroupsTimesOut, Boot, Link
  <2>5. CASE ReadAtReady \/ MonitorAtReady
    <3>1. loading \in [at: {"due", "read", "done"}, rows: SUBSET Groups]
      BY DEF TypeOK, BridgeOK
    <3>2. QED
      BY <2>5, <3>1 DEF ReadAtReady, MonitorAtReady
  <2>6. CASE TakeCommand
    BY <2>6 DEF TakeCommand, Backfill, StartScan, NoBatch
  <2>7. CASE BatchReads \/ BatchMonitors
    <3>1. CASE BatchMonitors
      BY <2>0, <3>1 DEF BatchMonitors
    <3>2. CASE BatchReads /\ batch' = NoBatch
      BY <3>2 DEF BatchReads, NoBatch
    <3>3. ASSUME NEW rows \in {pg, sqlite}, BatchReads,
                 batch' = [batch EXCEPT !.at = "apply", !.rows = rows]
          PROVE  OnlyChosenGroups'
      BY <2>0, <3>3 DEF BatchReads
    <3>4. QED
      BY <2>7, <3>1, <3>2, <3>3 DEF BatchReads
  <2>8. CASE EndPass \/ SecondPass
    <3>1. batch'.rows \cup batch'.empty \cup batch'.group \subseteq chosen
      <4>1. CASE batch' = NoBatch
        BY <4>1 DEF NoBatch
      <4>2. CASE batch' = Retry
        BY <2>0, <4>2 DEF Retry
      <4>3. CASE batch' = [batch EXCEPT !.at = "wait"]
        BY <2>0, <4>3
      <4>4. QED
        BY <2>8, <4>1, <4>2, <4>3 DEF EndPass, SecondPass
    <3>2. QED
      BY <2>8, <3>1 DEF EndPass, SecondPass
  <2>9. ASSUME NEW g \in Groups, InsertGroup(g)
        PROVE  OnlyChosenGroups'
    BY <2>s, <2>9 DEF InsertGroup
  <2>10. ASSUME NEW g \in Groups, NextGroup(g)
         PROVE  OnlyChosenGroups'
    BY <2>0, <2>10 DEF NextGroup
  <2>11. ASSUME NEW S, GroupDone(S)
         PROVE  batch'.rows \cup batch'.empty \cup batch'.group \subseteq chosen
    BY <2>0, <2>11 DEF GroupDone
  <2>12. ASSUME NEW g \in Groups, OpenChat(g)
         PROVE  OnlyChosenGroups'
    <3>1. CASE phase # "linked"
      BY <2>11, <2>12, <3>1 DEF OpenChat
    <3>2. CASE phase = "linked"
      BY <2>0, <2>12, <3>2 DEF OpenChat
    <3>3. QED
      BY <3>1, <3>2
  <2>13. ASSUME NEW g \in Groups,
                Settle(g) \/ Scroll(g) \/ Harvest(g) \/ HarvestPage(g)
         PROVE  OnlyChosenGroups'
    <3>1. /\ batch'.rows = batch.rows /\ batch'.empty = batch.empty
          /\ batch'.group = batch.group
      BY <2>0, <2>13 DEF Settle, Scroll, Harvest, HarvestPage, StartHarvest
    <3>2. QED
      BY <2>13, <3>1 DEF Settle, Scroll, Harvest, HarvestPage
  <2>14. ASSUME NEW g \in Groups, Persist(g)
         PROVE  OnlyChosenGroups'
    <3>1. PICK kept \in SUBSET batch.found :
             saved' = [saved EXCEPT ![g] = @ \cup kept] /\ GroupDone(kept)
      BY <2>14 DEF Persist
    <3>2. g \in chosen
      BY <2>14 DEF Persist
    <3>3. \A h \in Groups : saved'[h] # {} => h \in chosen
      BY <2>1, <3>1, <3>2
    <3>4. QED
      BY <2>11, <2>14, <3>1, <3>3 DEF Persist
  <2>15. ASSUME NEW s \in Scans, FetchChats(s) \/ FetchAgain(s) \/ GroupsDetected(s)
         PROVE  OnlyChosenGroups'
    BY <2>15 DEF FetchChats, FetchAgain, GroupsDetected
  <2>16. ASSUME NEW g \in Groups, Sync(g) \/ OnMessage(g)
         PROVE  OnlyChosenGroups'
    BY <2>1, <2>16 DEF Sync, OnMessage, Heard
  <2>17. CASE UNCHANGED vars
    BY <2>17
  <2>18. QED
    BY <2>2, <2>3, <2>4, <2>5, <2>6, <2>7, <2>8, <2>9, <2>10, <2>12, <2>13,
       <2>14, <2>15, <2>16, <2>17 DEF Next
<1>3. QED
  BY <1>1, <1>2, TypeCorrect, PTL DEF Spec

-----------------------------------------------------------------------------
(* The page lock *)

Unique(p)     == \A i, j \in DOMAIN p : p[i] = p[j] => i = j
InQueue(h, p) == \E i \in DOMAIN p : p[i] = h
Holders       == Scans \cup {"batch"}

\* Who joins a queue it is not in stands in it once, and last.
LEMMA Joins ==
  ASSUME NEW S, NEW p \in Seq(S), NEW x \in S, Unique(p), ~InQueue(x, p)
  PROVE  /\ Unique(Append(p, x))
         /\ \A h : InQueue(h, Append(p, x)) <=> InQueue(h, p) \/ h = x
         /\ p # <<>> => Append(p, x) # <<>> /\ Head(Append(p, x)) = Head(p)
<1> DEFINE q == Append(p, x)
<1>1. /\ DOMAIN p = 1 .. Len(p) /\ Len(p) \in Nat
      /\ DOMAIN q = 1 .. Len(p) + 1
      /\ \A i \in 1 .. Len(p) : q[i] = p[i]
      /\ q[Len(p) + 1] = x
  OBVIOUS
<1>2. \A i \in DOMAIN q : i \in DOMAIN p \/ i = Len(p) + 1
  BY <1>1
<1>3. p # <<>> => q # <<>> /\ Head(q) = Head(p)
  <2>1. p # <<>> => 1 \in 1 .. Len(p)
    OBVIOUS
  <2>2. QED
    BY <1>1, <2>1
<1> HIDE DEF q
<1>4. Unique(q)
  BY <1>1, <1>2 DEF Unique, InQueue
<1>5. ASSUME NEW h
      PROVE  InQueue(h, q) <=> InQueue(h, p) \/ h = x
  <2>1. DOMAIN p \subseteq DOMAIN q /\ Len(p) + 1 \in DOMAIN q
    BY <1>1
  <2>2. QED
    BY <1>1, <1>2, <2>1 DEF InQueue
<1>6. QED
  BY <1>3, <1>4, <1>5 DEF q

\* When the first leaves the others stay as they were.
LEMMA Leaves ==
  ASSUME NEW S, NEW p \in Seq(S), p # <<>>, Unique(p)
  PROVE  /\ Unique(Tail(p))
         /\ \A h : InQueue(h, Tail(p)) <=> InQueue(h, p) /\ h # Head(p)
<1> DEFINE q == Tail(p)
<1>1. /\ DOMAIN p = 1 .. Len(p) /\ Len(p) \in Nat /\ Len(p) > 0
      /\ DOMAIN q = 1 .. Len(p) - 1
      /\ \A i \in 1 .. Len(p) - 1 : q[i] = p[i + 1]
      /\ Head(p) = p[1]
  OBVIOUS
<1> HIDE DEF q
<1>2. \A i \in DOMAIN q : i \in Nat /\ i + 1 \in DOMAIN p /\ i + 1 # 1 /\ q[i] = p[i + 1]
  BY <1>1
<1>3. \A i \in DOMAIN p : i # 1 => i - 1 \in DOMAIN q /\ q[i - 1] = p[i]
  BY <1>1
<1>4. Unique(q)
  <2> SUFFICES ASSUME NEW i \in DOMAIN q, NEW j \in DOMAIN q, q[i] = q[j]
               PROVE  i = j
    BY DEF Unique
  <2>1. i + 1 = j + 1
    BY <1>2 DEF Unique
  <2>2. QED
    BY <1>2, <2>1
<1>5. ASSUME NEW h
      PROVE  InQueue(h, q) <=> InQueue(h, p) /\ h # Head(p)
  <2>1. 1 \in DOMAIN p
    BY <1>1
  <2>2. InQueue(h, q) => InQueue(h, p) /\ h # Head(p)
    BY <1>1, <1>2, <2>1 DEF InQueue, Unique
  <2>3. InQueue(h, p) /\ h # Head(p) => InQueue(h, q)
    BY <1>1, <1>3 DEF InQueue
  <2>4. QED
    BY <2>2, <2>3
<1>6. QED
  BY <1>4, <1>5 DEF q

\* The queue after a step in which nobody, one more or one fewer waits.
LEMMA QueueStep ==
  ASSUME OnePage, page \in Seq(Holders),
         \/ /\ page' = page
            /\ \A h \in Holders : Waiting(h)' <=> Waiting(h)
         \/ \E x \in Holders :
              /\ ~Waiting(x) /\ page' = Append(page, x)
              /\ \A h \in Holders : Waiting(h)' <=> Waiting(h) \/ h = x
         \/ /\ page # <<>> /\ page' = Tail(page)
            /\ \A h \in Holders : Waiting(h)' <=> Waiting(h) /\ h # Head(page)
  PROVE  /\ Unique(page')
         /\ \A h \in Holders : Waiting(h)' <=> InQueue(h, page')
<1>1. Unique(page) /\ \A h \in Holders : Waiting(h) <=> InQueue(h, page)
  BY DEF OnePage, Unique, InQueue, Holders
<1>2. CASE /\ page' = page
           /\ \A h \in Holders : Waiting(h)' <=> Waiting(h)
  BY <1>1, <1>2 DEF Unique, InQueue
<1>3. ASSUME NEW x \in Holders, ~Waiting(x), page' = Append(page, x),
             \A h \in Holders : Waiting(h)' <=> Waiting(h) \/ h = x
      PROVE  /\ Unique(page')
             /\ \A h \in Holders : Waiting(h)' <=> InQueue(h, page')
  <2>1. /\ Unique(Append(page, x))
        /\ \A h : InQueue(h, Append(page, x)) <=> InQueue(h, page) \/ h = x
    BY <1>1, <1>3, Joins
  <2> HIDE DEF Waiting, InQueue, Unique
  <2>2. QED
    BY <1>1, <1>3, <2>1
<1>4. CASE /\ page # <<>> /\ page' = Tail(page)
           /\ \A h \in Holders : Waiting(h)' <=> Waiting(h) /\ h # Head(page)
  <2>1. /\ Unique(Tail(page))
        /\ \A h : InQueue(h, Tail(page)) <=> InQueue(h, page) /\ h # Head(page)
    BY <1>1, <1>4, Leaves
  <2>2. QED
    BY <1>1, <1>4, <2>1
<1>5. QED
  BY <1>2, <1>3, <1>4

\* What each step does to the queue and to those who wait.
LEMMA PageStep == TypeOK /\ OnePage /\ [Next]_vars => OnePage'
<1> SUFFICES ASSUME TypeOK, OnePage, [Next]_vars
             PROVE  OnePage'
  OBVIOUS
<1> DEFINE Works   == batch.at \in {"queued"} \cup OnChat
           Same    == page' = page /\ \A h \in Holders : Waiting(h)' <=> Waiting(h)
           Join(x) == /\ x \in Holders /\ ~Waiting(x) /\ page' = Append(page, x)
                      /\ \A h \in Holders : Waiting(h)' <=> Waiting(h) \/ h = x
           Leave   == /\ page # <<>> /\ page' = Tail(page)
                      /\ \A h \in Holders : Waiting(h)' <=> Waiting(h) /\ h # Head(page)
           Chat    == batch.at \in OnChat => HasPage("batch")
<1>1. /\ page \in Seq(Holders)
      /\ scan \in [Scans -> {"off", "queued", "pause"}]
      /\ batch \in [at: BatchPlaces, rows: SUBSET Groups, empty: SUBSET Groups,
                    retry: BOOLEAN, group: SUBSET Groups, large: BOOLEAN,
                    found: SUBSET Messages, pages: 0 .. MaxPages,
                    aim: SUBSET Messages]
      /\ Chat
  BY DEF TypeOK, BridgeOK, BatchOK, Holders, OnePage
<1>2. /\ Waiting("batch") <=> Works
      /\ \A s \in Scans : Waiting(s) <=> scan[s] = "queued"
      /\ Waiting("batch")' <=> Works'
      /\ \A s \in Scans : Waiting(s)' <=> scan'[s] = "queued"
  BY ScansAssumption DEF Waiting
<1>3. (Same \/ (\E x : Join(x)) \/ Leave) /\ Chat' => OnePage'
  <2> SUFFICES ASSUME Same \/ (\E x : Join(x)) \/ Leave, Chat'
               PROVE  OnePage'
    OBVIOUS
  <2>1. Unique(page') /\ \A h \in Holders : Waiting(h)' <=> InQueue(h, page')
    BY <1>1, QueueStep
  <2>2. QED
    BY <2>1 DEF OnePage, Unique, InQueue, Holders
<1>4. ASSUME page' = page, scan' = scan, Works' = Works, Chat'
      PROVE  OnePage'
  <2>1. Same
    BY <1>2, <1>4 DEF Holders
  <2>2. QED
    BY <1>3, <1>4, <2>1
<1>5. UNCHANGED <<page, scan, batch>> => OnePage'
  <2> SUFFICES ASSUME UNCHANGED <<page, scan, batch>>
               PROVE  OnePage'
    OBVIOUS
  <2>1. Works' = Works /\ Chat'
    BY <1>1 DEF HasPage
  <2>2. QED
    BY <1>4, <2>1
<1>6. ASSUME NEW x \in Scans, scan[x] # "queued", scan' = [scan EXCEPT ![x] = "queued"],
             page' = Append(page, x), batch' = batch
      PROVE  OnePage'
  <2>1. Join(x)
    BY <1>1, <1>2, <1>6, ScansAssumption DEF Holders
  <2>2. Unique(page) /\ ~InQueue(x, page)
    BY <2>1, <1>2, <1>6 DEF OnePage, Unique, InQueue, Holders
  <2>3. page # <<>> => page' # <<>> /\ Head(page') = Head(page)
    BY <1>1, <1>6, <2>1, <2>2, Joins
  <2>4. Chat'
    BY <1>1, <1>6, <2>3 DEF HasPage
  <2>5. QED
    BY <1>3, <2>1, <2>4
<1>7. ASSUME HasPage("batch"), page' = Tail(page), scan' = scan,
             Works, batch'.at = "next"
      PROVE  OnePage'
  <2>1. Leave
    BY <1>1, <1>2, <1>7, ScansAssumption DEF HasPage, Holders, OnChat
  <2>2. Chat'
    BY <1>7 DEF OnChat
  <2>3. QED
    BY <1>3, <2>1, <2>2
<1> USE DEF vars, groups
<1>8. CASE \/ \E S \in SUBSET Groups : Select(S)
           \/ InsertFails \/ Mirror \/ StartMonitoring \/ Rescrape \/ AutoBackfill
           \/ GetGroups \/ GetGroupsTimesOut \/ Boot \/ Link
           \/ ReadAtReady \/ MonitorAtReady
           \/ \E g \in Groups : InsertGroup(g) \/ Sync(g) \/ OnMessage(g)
           \/ UNCHANGED vars
  <2>1. UNCHANGED <<page, scan, batch>>
    BY <1>8 DEF Select, InsertFails, Mirror, StartMonitoring, Rescrape, AutoBackfill,
                GetGroups, GetGroupsTimesOut, Boot, Link, ReadAtReady, MonitorAtReady,
                InsertGroup, Sync, OnMessage
  <2>2. QED
    BY <1>5, <2>1
<1>9. CASE TakeCommand
  <2>1. CASE UNCHANGED <<batch, scan, page>>
    BY <1>5, <2>1
  <2>2. CASE Backfill(file.cmd)
    <3>1. batch' = batch \/ (batch = NoBatch /\ batch'.at = "read")
      BY <2>2 DEF Backfill, NoBatch
    <3>2. CASE batch' = batch
      BY <1>5, <2>2, <3>2 DEF Backfill
    <3>3. CASE batch = NoBatch /\ batch'.at = "read"
      <4>1. ~Works /\ ~Works' /\ Chat'
        BY <3>3 DEF NoBatch, OnChat
      <4>2. QED
        BY <1>4, <2>2, <4>1 DEF Backfill
    <3>4. QED
      BY <3>1, <3>2, <3>3
  <2>3. CASE StartScan(file.cmd)
    <3>1. PICK s \in Scans : /\ scan[s] = "off"
                             /\ scan' = [scan EXCEPT ![s] = "queued"]
                             /\ page' = Append(page, s)
      BY <2>3 DEF StartScan
    <3>2. batch' = batch
      BY <2>3 DEF StartScan
    <3>3. QED
      BY <1>6, <3>1, <3>2
  <2>4. QED
    BY <1>9, <2>1, <2>2, <2>3 DEF TakeCommand
<1>10. CASE BatchReads \/ BatchMonitors \/ EndPass \/ SecondPass
  <2>1. page' = page /\ scan' = scan
    BY <1>10 DEF BatchReads, BatchMonitors, EndPass, SecondPass
  <2>2. batch.at \in {"read", "apply", "next", "wait"}
    BY <1>10 DEF BatchReads, BatchMonitors, EndPass, SecondPass
  <2>3. batch'.at \in {"idle", "apply", "next", "wait"}
    <3>1. NoBatch.at = "idle"
      BY DEF NoBatch
    <3>2. batch' = NoBatch \/ batch'.at \in {"apply", "next", "wait"}
      <4>1. BatchReads => batch' = NoBatch \/ batch'.at = "apply"
        BY <1>1 DEF BatchReads
      <4>2. BatchMonitors => batch'.at = "next"
        BY <1>1 DEF BatchMonitors
      <4>3. EndPass => batch' = NoBatch \/ batch'.at = "wait"
        BY <1>1 DEF EndPass
      <4>4. SecondPass => batch' = NoBatch \/ batch'.at = "next"
        BY <1>1 DEF SecondPass, Retry
      <4>5. QED
        BY <1>10, <4>1, <4>2, <4>3, <4>4
    <3>3. QED
      BY <3>1, <3>2
  <2>4. Works' = Works /\ Chat'
    BY <2>2, <2>3 DEF OnChat
  <2>5. QED
    BY <1>4, <2>1, <2>4
<1>11. ASSUME NEW g \in Groups, NextGroup(g)
       PROVE  OnePage'
  <2>1. /\ batch.at = "next" /\ batch'.at = "queued"
        /\ page' = Append(page, "batch") /\ scan' = scan
    BY <1>1, <1>11 DEF NextGroup
  <2>2. Join("batch")
    BY <1>2, <2>1, ScansAssumption DEF Holders, OnChat
  <2>3. Chat'
    BY <2>1 DEF OnChat
  <2>4. QED
    BY <1>3, <2>2, <2>3
<1>12. ASSUME NEW g \in Groups, OpenChat(g)
       PROVE  OnePage'
  <2>1. batch.at = "queued" /\ HasPage("batch") /\ scan' = scan
    BY <1>12 DEF OpenChat
  <2>2. CASE GroupDone({})
    <3>1. page' = Tail(page) /\ batch'.at = "next"
      BY <1>1, <2>2 DEF GroupDone
    <3>2. QED
      BY <1>7, <2>1, <3>1
  <2>3. CASE page' = page /\ batch'.at = "settle"
    <3>1. Works' = Works /\ Chat'
      BY <2>1, <2>3 DEF OnChat, HasPage
    <3>2. QED
      BY <1>4, <2>1, <2>3, <3>1
  <2>4. QED
    BY <1>1, <1>12, <2>2, <2>3 DEF OpenChat
<1>13. ASSUME NEW g \in Groups, Settle(g) \/ Scroll(g) \/ Harvest(g) \/ HarvestPage(g)
       PROVE  OnePage'
  <2>1. page' = page /\ scan' = scan /\ batch.at \in OnChat
    BY <1>13 DEF Settle, Scroll, Harvest, HarvestPage, OnChat
  <2>2. batch'.at \in OnChat
    BY <1>1, <1>13, <2>1 DEF Settle, Scroll, Harvest, HarvestPage, OnChat, StartHarvest
  <2>3. Works' = Works /\ Chat'
    BY <1>1, <2>1, <2>2 DEF HasPage
  <2>4. QED
    BY <1>4, <2>1, <2>3
<1>14. ASSUME NEW g \in Groups, Persist(g)
       PROVE  OnePage'
  <2>1. /\ batch.at = "persist" /\ HasPage("batch") /\ scan' = scan
        /\ page' = Tail(page) /\ batch'.at = "next"
    BY <1>1, <1>14 DEF Persist, GroupDone
  <2>2. Works
    BY <2>1 DEF OnChat
  <2>3. QED
    BY <1>7, <2>1, <2>2
<1>15. ASSUME NEW s \in Scans, FetchChats(s)
       PROVE  OnePage'
  <2>1. /\ scan[s] = "queued" /\ HasPage(s) /\ page' = Tail(page)
        /\ scan' = [scan EXCEPT ![s] = "pause"] /\ batch' = batch
    BY <1>15 DEF FetchChats
  <2>2. Leave
    BY <1>1, <1>2, <2>1, ScansAssumption DEF HasPage, Holders
  <2>3. Chat'
    BY <1>1, <2>1, ScansAssumption DEF HasPage
  <2>4. QED
    BY <1>3, <2>2, <2>3
<1>16. ASSUME NEW s \in Scans, FetchAgain(s)
       PROVE  OnePage'
  BY <1>6, <1>16 DEF FetchAgain
<1>17. ASSUME NEW s \in Scans, GroupsDetected(s)
       PROVE  OnePage'
  <2>1. /\ scan[s] = "pause" /\ scan' = [scan EXCEPT ![s] = "off"]
        /\ page' = page /\ batch' = batch
    BY <1>17 DEF GroupsDetected
  <2>2. Same
    BY <1>1, <1>2, <2>1 DEF Holders
  <2>3. Chat'
    BY <1>1, <2>1 DEF HasPage
  <2>4. QED
    BY <1>3, <2>2, <2>3
<1>18. QED
  BY <1>8, <1>9, <1>10, <1>11, <1>12, <1>13, <1>14, <1>15, <1>16, <1>17 DEF Next

\* The browser page has one user at a time, and whoever needs it stands in the
\* queue once, for any number of scans beside the backfill.
THEOREM OnePageHolds == Spec => []OnePage
<1>1. Init => OnePage
  BY ScansAssumption DEF Init, OnePage, Waiting, NoBatch, OnChat
<1>2. QED
  BY <1>1, PageStep, TypeCorrect, PTL DEF Spec

-----------------------------------------------------------------------------
(* Paging *)

\* A page that is not full holds everything there is: of the messages missing from
\* it take one with the fewest newer ones; those newer ones are all on the page, so
\* they are fewer than a page.
LEMMA ShortPage ==
  ASSUME NEW S \in SUBSET Nat, IsFiniteSet(S), NEW n \in Nat,
         Cardinality(Newest(n, S)) < n
  PROVE  Newest(n, S) = S
<1> DEFINE Up(m)   == {k \in S : k > m}
           Missing == S \ Newest(n, S)
           Family  == {Up(m) : m \in Missing}
<1>1. SUFFICES ASSUME Missing # {}
               PROVE  FALSE
  BY DEF Newest
<1>2. \A m \in S : Up(m) \in SUBSET S /\ IsFiniteSet(Up(m))
  BY FS_Subset
<1>3. Family \subseteq FiniteSubsetsOf(S) /\ Family # {}
  BY <1>1, <1>2 DEF FiniteSubsetsOf
<1>4. PICK U \in Family : \A V \in Family : <<V, U>> \notin StrictSubsetOrdering(S)
  <2> HIDE DEF Family
  <2>1. IsWellFoundedOn(StrictSubsetOrdering(S), FiniteSubsetsOf(S))
    BY FS_StrictSubsetOrderingWellFounded
  <2>2. QED
    BY <1>3, <2>1, WFMin
<1>5. PICK x \in Missing : U = Up(x)
  BY <1>4
<1>6. Up(x) \subseteq Newest(n, S)
  <2> SUFFICES ASSUME NEW k \in Up(x), k \in Missing
               PROVE  FALSE
    OBVIOUS
  <2>1. Up(k) \in Family
    OBVIOUS
  <2>2. Up(k) \subseteq Up(x) /\ Up(k) # Up(x)
    <3>1. k \in Nat /\ x \in Nat /\ k > x /\ k \in S
      OBVIOUS
    <3>2. \A j \in S : j \in Nat /\ (j > k => j > x)
      BY <3>1
    <3>3. k \notin Up(k)
      BY <3>1
    <3>4. QED
      BY <3>2, <3>3
  <2>3. <<Up(k), Up(x)>> \in StrictSubsetOrdering(S)
    BY <1>2, <2>2 DEF StrictSubsetOrdering
  <2>4. QED
    BY <1>4, <1>5, <2>1, <2>3
<1>7. IsFiniteSet(Newest(n, S)) /\ Newest(n, S) \subseteq S
  <2>1. Newest(n, S) \in SUBSET S
    BY DEF Newest
  <2>2. QED
    BY <2>1, FS_Subset
<1>8. Cardinality(Up(x)) <= Cardinality(Newest(n, S))
  BY <1>6, <1>7, FS_Subset
<1>9. Cardinality(Up(x)) \in Nat /\ Cardinality(Newest(n, S)) \in Nat
  BY <1>2, <1>7, FS_CardinalityType
<1>10. Cardinality(Up(x)) < n
  <2> HIDE DEF Up
  <2>1. QED
    BY <1>8, <1>9
<1>11. x \in Newest(n, S)
  BY <1>10 DEF Newest
<1>12. QED
  BY <1>11

\* A page is an upper part of what it is taken from.
LEMMA PageIsUpper ==
  ASSUME NEW S \in SUBSET Nat, IsFiniteSet(S), NEW n \in Nat,
         NEW x \in Newest(n, S), NEW m \in S, x < m
  PROVE  m \in Newest(n, S)
<1>1. x \in S /\ Cardinality({k \in S : k > x}) < n
  BY DEF Newest
<1>2. {k \in S : k > m} \in SUBSET {k \in S : k > x}
  <2>1. x \in Nat /\ m \in Nat
    BY <1>1
  <2>2. \A k \in S : k \in Nat /\ (k > m => k > x)
    BY <2>1
  <2>3. QED
    BY <2>2
<1>3. IsFiniteSet({k \in S : k > x})
  BY FS_Subset
<1>4. Cardinality({k \in S : k > m}) <= Cardinality({k \in S : k > x})
  BY <1>2, <1>3, FS_Subset
<1>5. /\ Cardinality({k \in S : k > m}) \in Nat
      /\ Cardinality({k \in S : k > x}) \in Nat
  BY <1>2, <1>3, FS_Subset, FS_CardinalityType
<1>6. QED
  BY <1>1, <1>4, <1>5 DEF Newest

\* While pages are fetched everything aimed at is in the browser, and is found
\* already or lies before the cursor.
Covering ==
  batch.at = "harvest" =>
    /\ \A g \in batch.group : batch.aim \subseteq Recent(store[g])
    /\ \A m \in batch.aim : m \in batch.found \/ \A k \in batch.found : m < k

FreshStart == batch.at \notin {"harvest", "persist"} => batch.found = {}

DayInv == /\ \A g \in Groups : store[g] \subseteq 1 .. sent[g]
          /\ FreshStart /\ Covering /\ CoversTheDay

\* What a fetched page does to Covering, and what the last one leaves.
LEMMA PageCovers ==
  ASSUME NEW S \in SUBSET Nat, IsFiniteSet(S),
         NEW found \in SUBSET Nat, NEW aim, aim \subseteq Recent(S),
         \A m \in aim : m \in found \/ \A k \in found : m < k
  PROVE  LET got == Newest(PageSize, Before(found, S))
         IN  /\ \A m \in aim : m \in found \cup got \/ \A k \in found \cup got : m < k
             /\ Cardinality(got) < PageSize \/ got # Recent(got) => aim \subseteq found \cup got
<1> DEFINE B   == Before(found, S)
           got == Newest(PageSize, B)
<1>1. B \in SUBSET Nat /\ B \subseteq S /\ IsFiniteSet(B)
  BY FS_Subset DEF Before
<1>2. got \subseteq B /\ PageSize \in Nat
  BY PagingAssumption DEF Newest
<1>3. \A m \in aim : m \in Nat /\ m > OldMessages /\ (m \in found \/ m \in B)
  BY DEF Recent, Before
<1>4. \A x \in got, m \in B : x < m => m \in got
  BY <1>1, <1>2, PageIsUpper
<1>5. Cardinality(got) < PageSize => got = B
  BY <1>1, <1>2, ShortPage
<1> HIDE DEF B, got
<1>6. ASSUME NEW m \in aim, m \notin found \cup got, NEW k \in found \cup got
      PROVE  m < k
  <2>1. CASE k \in found
    BY <1>6, <2>1
  <2>2. CASE k \in got
    <3>1. m \in B /\ m \in Nat /\ k \in Nat
      BY <1>1, <1>2, <1>3, <1>6, <2>2
    <3>2. ~(k < m) /\ k # m
      BY <1>4, <1>6, <2>2, <3>1
    <3>3. QED
      BY <3>1, <3>2
  <2>3. QED
    BY <1>6, <2>1, <2>2
<1>7. ASSUME Cardinality(got) < PageSize \/ got # Recent(got), NEW m \in aim
      PROVE  m \in found \cup got
  <2>1. CASE Cardinality(got) < PageSize
    BY <1>3, <1>5, <2>1
  <2>2. CASE got # Recent(got)
    <3>1. PICK x \in got : ~(x > OldMessages)
      BY <2>2 DEF Recent
    <3>2. x \in Nat /\ m \in Nat /\ OldMessages \in Nat /\ m > OldMessages
      BY <1>1, <1>2, <1>3, <3>1, MessagesAssumption
    <3>3. x < m
      BY <3>1, <3>2
    <3>4. QED
      BY <1>3, <1>4, <3>1, <3>3
  <2>3. QED
    BY <1>7, <2>1, <2>2
<1>8. QED
  BY <1>6, <1>7 DEF got, B

\* The cap of a small chat.
LEMMA ProductType == PageSize * MaxPages \in Nat
<1>1. \A x, y \in Nat : x * y \in Nat
  OBVIOUS
<1>2. QED
  BY <1>1, PagingAssumption

LEMMA DayStep == TypeOK /\ DayInv /\ [Next]_vars => DayInv'
<1> SUFFICES ASSUME TypeOK, DayInv, [Next]_vars
             PROVE  DayInv'
  OBVIOUS
<1> USE DEF vars, tables, channel, groups, chats
<1> DEFINE Later == \A e \in RareEvents : used'[e] = 0 => used[e] = 0
<1>1. /\ store \in [Groups -> SUBSET Messages]
      /\ sent \in [Groups -> 0 .. MaxMessages]
      /\ batch \in [at: BatchPlaces, rows: SUBSET Groups, empty: SUBSET Groups,
                    retry: BOOLEAN, group: SUBSET Groups, large: BOOLEAN,
                    found: SUBSET Messages, pages: 0 .. MaxPages,
                    aim: SUBSET Messages]
  BY DEF TypeOK, ChatsOK, BatchOK
<1>2. ASSUME UNCHANGED <<batch, sent, store>>, used'["fault"] = 0 => used["fault"] = 0
      PROVE  DayInv'
  BY <1>2 DEF DayInv, FreshStart, Covering, CoversTheDay, CutShort
<1>3. ASSUME UNCHANGED <<sent, store>>, batch'.at \notin {"harvest", "persist"},
             batch'.found = {}
      PROVE  DayInv'
  BY <1>3 DEF DayInv, FreshStart, Covering, CoversTheDay, CutShort
<1>4. ASSUME NEW g \in Groups, batch.group = {g}, batch.found = {},
             NEW large \in BOOLEAN, batch' = StartHarvest(g, large),
             UNCHANGED <<sent, store>>
      PROVE  DayInv'
  <2>1. /\ batch'.at = "harvest" /\ batch'.group = {g} /\ batch'.found = {}
        /\ batch'.aim = Recent(store[g])
    BY <1>1, <1>4 DEF StartHarvest
  <2>2. QED
    BY <1>4, <2>1 DEF DayInv, FreshStart, Covering, CoversTheDay, CutShort
<1>5. /\ \A e \in RareEvents : Happens(e) => Later /\ used'[e] # 0
      /\ UNCHANGED used => Later
  BY DEF Happens, TypeOK, UsedOK
<1>6. {"select", "rescrape", "scan", "message", "fault"} = RareEvents
  BY DEF RareEvents
<1> HIDE DEF Happens, RareEvents, Later
<1>7. CASE \/ \E S \in SUBSET Groups : Select(S)
           \/ InsertFails \/ Mirror \/ StartMonitoring \/ Rescrape \/ AutoBackfill
           \/ GetGroups \/ GetGroupsTimesOut \/ Boot \/ Link
           \/ ReadAtReady \/ MonitorAtReady
           \/ \E g \in Groups : InsertGroup(g)
           \/ \E s \in Scans : FetchChats(s) \/ FetchAgain(s) \/ GroupsDetected(s)
           \/ UNCHANGED vars
  <2>1. UNCHANGED <<batch, sent, store>>
    BY <1>7 DEF Select, InsertFails, Mirror, StartMonitoring, Rescrape, AutoBackfill,
                GetGroups, GetGroupsTimesOut, Boot, Link, ReadAtReady, MonitorAtReady,
                InsertGroup, FetchChats, FetchAgain, GroupsDetected
  <2>2. Later
    BY <1>5, <1>6, <1>7
       DEF Select, InsertFails, Mirror, StartMonitoring, Rescrape, AutoBackfill,
           GetGroups, GetGroupsTimesOut, Boot, Link, ReadAtReady, MonitorAtReady, Rows,
           InsertGroup, FetchChats, FetchAgain, GroupsDetected
  <2>3. QED
    BY <1>2, <2>1, <2>2, <1>6 DEF Later
<1>8. CASE TakeCommand
  <2>1. UNCHANGED <<sent, store, used>>
    BY <1>8 DEF TakeCommand
  <2>2. batch' = batch \/ batch' = [NoBatch EXCEPT !.at = "read"]
    BY <1>8 DEF TakeCommand, Backfill, StartScan
  <2>3. CASE batch' = batch
    BY <1>2, <2>1, <2>3
  <2>4. CASE batch' = [NoBatch EXCEPT !.at = "read"]
    <3>1. batch'.at = "read" /\ batch'.found = {}
      BY <2>4 DEF NoBatch
    <3>2. QED
      BY <1>3, <2>1, <3>1
  <2>5. QED
    BY <2>2, <2>3, <2>4
<1>9. CASE \/ BatchReads \/ BatchMonitors \/ EndPass \/ SecondPass
           \/ \E g \in Groups : NextGroup(g)
  <2>1. UNCHANGED <<sent, store>>
    BY <1>9 DEF BatchReads, BatchMonitors, EndPass, SecondPass, NextGroup
  <2>2. batch.at \notin {"harvest", "persist"}
    BY <1>9 DEF BatchReads, BatchMonitors, EndPass, SecondPass, NextGroup
  <2>3. batch.found = {} /\ NoBatch.at = "idle" /\ NoBatch.found = {}
    BY <2>2 DEF DayInv, FreshStart, NoBatch
  <2>4. \/ batch' = NoBatch
        \/ batch'.at \in {"apply", "next", "wait", "queued"} /\ batch'.found = batch.found
    <3>1. BatchReads =>
            \/ batch' = NoBatch
            \/ batch'.at = "apply" /\ batch'.found = batch.found
      BY <1>1 DEF BatchReads
    <3>2. BatchMonitors => batch'.at = "next" /\ batch'.found = batch.found
      BY <1>1 DEF BatchMonitors
    <3>3. EndPass =>
            \/ batch' = NoBatch
            \/ batch'.at = "wait" /\ batch'.found = batch.found
      BY <1>1 DEF EndPass
    <3>4. SecondPass =>
            \/ batch' = NoBatch
            \/ batch'.at = "next" /\ batch'.found = batch.found
      BY <1>1 DEF SecondPass, Retry
    <3>5. ASSUME NEW g \in Groups, NextGroup(g)
          PROVE  batch'.at = "queued" /\ batch'.found = batch.found
      BY <1>1, <3>5 DEF NextGroup
    <3>6. QED
      BY <1>9, <3>1, <3>2, <3>3, <3>4, <3>5
  <2>5. QED
    BY <1>3, <2>1, <2>3, <2>4
<1>10. ASSUME NEW g \in Groups, OpenChat(g) \/ Persist(g)
       PROVE  DayInv'
  <2>1. UNCHANGED <<sent, store>>
    BY <1>10 DEF OpenChat, Persist
  <2>2. ASSUME NEW kept, GroupDone(kept)
        PROVE  batch'.at = "next" /\ batch'.found = {}
    BY <1>1, <2>2 DEF GroupDone
  <2>3. ASSUME OpenChat(g), ~GroupDone({})
        PROVE  batch'.at = "settle" /\ batch'.found = {}
    <3>1. batch.at = "queued"
      BY <2>3 DEF OpenChat
    <3>2. batch.found = {}
      BY <3>1 DEF DayInv, FreshStart
    <3>3. batch'.at = "settle" /\ batch'.found = batch.found
      BY <1>1, <2>3 DEF OpenChat
    <3>4. QED
      BY <3>2, <3>3
  <2>4. Persist(g) => \E kept \in SUBSET batch.found : GroupDone(kept)
    BY DEF Persist
  <2>5. batch'.at \in {"next", "settle"} /\ batch'.found = {}
    BY <1>10, <2>2, <2>3, <2>4
  <2>6. QED
    BY <1>3, <2>1, <2>5
<1>11. ASSUME NEW g \in Groups, Settle(g) \/ Scroll(g)
       PROVE  DayInv'
  <2>1. UNCHANGED <<sent, store>> /\ batch.group = {g}
    BY <1>11 DEF Settle, Scroll
  <2>2. batch.at \in {"settle", "scroll"}
    BY <1>11 DEF Settle, Scroll
  <2>3. batch.found = {}
    BY <2>2 DEF DayInv, FreshStart
  <2>4. \/ \E large \in BOOLEAN : batch' = StartHarvest(g, large)
        \/ batch'.at = "scroll" /\ batch'.found = batch.found
    <3>1. Scroll(g) => batch' = StartHarvest(g, batch.large)
      BY DEF Scroll
    <3>2. Settle(g) => \/ batch' = StartHarvest(g, TRUE)
                       \/ batch'.at = "scroll" /\ batch'.found = batch.found
      BY <1>1 DEF Settle
    <3>3. batch.large \in BOOLEAN
      BY <1>1
    <3>4. QED
      BY <1>11, <3>1, <3>2, <3>3
  <2>5. QED
    BY <1>3, <1>4, <2>1, <2>3, <2>4
<1>12. ASSUME NEW g \in Groups, Harvest(g)
       PROVE  DayInv'
  <2> DEFINE N   == PageSize * MaxPages
             got == Newest(N, store[g])
  <2>1. /\ UNCHANGED <<sent, store>> /\ batch.at = "harvest" /\ batch.group = {g}
        /\ batch'.at = "persist" /\ ~batch'.large /\ batch'.aim = batch.aim
    BY <1>1, <1>12 DEF Harvest
  <2>2. CASE used'["fault"] # 0
    BY <2>1, <2>2 DEF DayInv, FreshStart, Covering, CoversTheDay, CutShort
  <2>3. CASE batch'.found = got
    <3>1. /\ N \in Nat
          /\ store[g] \in SUBSET Nat /\ IsFiniteSet(store[g])
      <4>1. Messages \subseteq Nat /\ IsFiniteSet(Messages)
        BY MessagesAssumption, FS_Interval DEF Messages
      <4>2. store[g] \in SUBSET Messages
        BY <1>1
      <4>3. N \in Nat
        BY ProductType
      <4>4. QED
        BY <4>1, <4>2, <4>3, FS_Subset
    <3>2. batch.aim \subseteq store[g]
      BY <2>1 DEF DayInv, Covering, Recent
    <3> HIDE DEF N
    <3>3. Cardinality(got) < N => got = store[g]
      BY <3>1, ShortPage
    <3> HIDE DEF got
    <3>4. Cardinality(got) >= N \/ batch'.aim \subseteq batch'.found
      <4>1. CASE Cardinality(got) < N
        BY <2>1, <2>3, <3>2, <3>3, <4>1
      <4>2. CASE ~(Cardinality(got) < N)
        <5>1. Cardinality(got) \in Nat
          <6>1. got \subseteq store[g]
            BY DEF got, Newest
          <6>2. QED
            BY <3>1, <6>1, FS_Subset, FS_CardinalityType
        <5>2. QED
          BY <3>1, <4>2, <5>1
      <4>3. QED
        BY <4>1, <4>2
    <3>5. CoversTheDay'
      BY <2>1, <2>3, <3>4 DEF CoversTheDay, CutShort, N
    <3>6. QED
      BY <2>1, <3>5 DEF DayInv, FreshStart, Covering
  <2>4. QED
    <3>1. Happens("fault") => used'["fault"] # 0
      BY <1>5, <1>6
    <3>2. batch' = [batch EXCEPT !.at = "persist", !.found = got] => batch'.found = got
      BY <1>1
    <3>3. QED
      BY <1>12, <2>2, <2>3, <3>1, <3>2 DEF Harvest
<1>13. ASSUME NEW g \in Groups, HarvestPage(g)
       PROVE  DayInv'
  <2> DEFINE S   == store[g]
             got == Newest(PageSize, Before(batch.found, S))
  <2>1. /\ UNCHANGED <<sent, store>>
        /\ batch.at = "harvest" /\ batch.group = {g} /\ batch.large
    BY <1>13 DEF HarvestPage
  <2>2. /\ batch.aim \subseteq Recent(S)
        /\ \A m \in batch.aim : m \in batch.found \/ \A k \in batch.found : m < k
    BY <2>1 DEF DayInv, Covering
  <2>3. S \in SUBSET Nat /\ IsFiniteSet(S) /\ batch.found \in SUBSET Nat
    <3>1. Messages \subseteq Nat /\ IsFiniteSet(Messages)
      BY MessagesAssumption, FS_Interval DEF Messages
    <3>2. S \in SUBSET Messages /\ batch.found \in SUBSET Messages
      BY <1>1
    <3>3. QED
      BY <3>1, <3>2, FS_Subset
  <2>4. /\ \A m \in batch.aim : m \in batch.found \cup got
                                \/ \A k \in batch.found \cup got : m < k
        /\ Cardinality(got) < PageSize \/ got # Recent(got)
             => batch.aim \subseteq batch.found \cup got
    BY <2>2, <2>3, PageCovers
  <2>5. CASE batch'.at = "persist" /\ used'["fault"] # 0
    BY <2>1, <2>5 DEF DayInv, FreshStart, Covering, CoversTheDay, CutShort
  <2>6. CASE batch' = [batch EXCEPT
                         !.found = @ \cup got,
                         !.pages = IF got = {} THEN @ ELSE @ + 1,
                         !.at = IF LastPage(got) THEN "persist" ELSE @]
    <3> HIDE DEF got
    <3>1. /\ batch'.found = batch.found \cup got /\ batch'.aim = batch.aim
          /\ batch'.large
          /\ batch'.group = {g}
          /\ batch'.pages = IF got = {} THEN batch.pages ELSE batch.pages + 1
          /\ batch'.at = IF LastPage(got) THEN "persist" ELSE "harvest"
      BY <1>1, <2>1, <2>6
    <3>2. CASE ~LastPage(got)
      <4>1. batch'.at = "harvest"
        BY <3>1, <3>2
      <4>2. FreshStart' /\ Covering' /\ CoversTheDay'
        BY <2>1, <2>2, <2>4, <3>1, <4>1 DEF FreshStart, Covering, CoversTheDay, CutShort
      <4>3. QED
        BY <2>1, <4>2 DEF DayInv
    <3>3. CASE LastPage(got)
      <4>1. batch'.at = "persist"
        BY <3>1, <3>3
      <4>2. ASSUME batch'.pages # MaxPages
            PROVE  batch.aim \subseteq batch.found \cup got
        <5>1. CASE got = {}
          <6>1. Cardinality(got) < PageSize
            BY <5>1, FS_EmptySet, PagingAssumption
          <6>2. QED
            BY <2>4, <6>1
        <5>2. CASE got # {}
          <6>1. batch.pages + 1 # MaxPages
            BY <3>1, <4>2, <5>2, PagingAssumption
          <6>2. Cardinality(got) < PageSize \/ got # Recent(got)
            BY <3>3, <6>1 DEF LastPage
          <6>3. QED
            BY <2>4, <6>2
        <5>3. QED
          BY <5>1, <5>2
      <4>3. FreshStart' /\ Covering' /\ CoversTheDay'
        BY <3>1, <4>1, <4>2 DEF FreshStart, Covering, CoversTheDay, CutShort
      <4>4. QED
        BY <2>1, <4>3 DEF DayInv
    <3>4. QED
      BY <3>2, <3>3
  <2>7. QED
    <3>1. Happens("fault") => used'["fault"] # 0
      BY <1>5, <1>6
    <3>2. batch' = [batch EXCEPT !.at = "persist"] => batch'.at = "persist"
      BY <1>1
    <3>3. QED
      BY <1>13, <2>5, <2>6, <3>1, <3>2 DEF HarvestPage
<1>14. ASSUME NEW g \in Groups, Sync(g) \/ OnMessage(g)
       PROVE  DayInv'
  <2>1. batch' = batch /\ (used'["fault"] = 0 => used["fault"] = 0)
    BY <1>5, <1>6, <1>14 DEF Sync, OnMessage, Later
  <2>2. \A h \in Groups : /\ store[h] \subseteq 1 .. sent[h]
                          /\ sent[h] \in Nat
    BY <1>1 DEF DayInv
  <2>3. \A h \in Groups : store[h] \subseteq store'[h] /\ store'[h] \subseteq 1 .. sent'[h]
    <3>1. CASE Sync(g)
      BY <1>1, <2>2, <3>1 DEF Sync
    <3>2. CASE OnMessage(g)
      <4>1. sent' = [sent EXCEPT ![g] = @ + 1]
            /\ store' = [store EXCEPT ![g] = @ \cup {sent'[g]}]
        BY <3>2 DEF OnMessage
      <4>2. \A h \in Groups : h # g => sent'[h] = sent[h] /\ store'[h] = store[h]
        BY <1>1, <4>1
      <4>3. sent'[g] = sent[g] + 1 /\ store'[g] = store[g] \cup {sent[g] + 1}
        BY <1>1, <4>1
      <4>4. 1 .. sent[g] \subseteq 1 .. sent[g] + 1 /\ sent[g] + 1 \in 1 .. sent[g] + 1
        BY <2>2
      <4>5. store[g] \subseteq store'[g] /\ store'[g] \subseteq 1 .. sent'[g]
        BY <2>2, <4>3, <4>4
      <4>6. QED
        BY <2>2, <4>2, <4>5
    <3>3. QED
      BY <1>14, <3>1, <3>2
  <2>4. FreshStart' /\ CoversTheDay'
    BY <2>1 DEF DayInv, FreshStart, CoversTheDay, CutShort
  <2>5. Covering'
    <3>1. \A h \in Groups : Recent(store[h]) \subseteq Recent(store'[h])
      BY <2>3 DEF Recent
    <3>2. batch.group \subseteq Groups
      BY <1>1
    <3>3. QED
      BY <2>1, <3>1, <3>2 DEF DayInv, Covering
  <2>6. QED
    BY <2>3, <2>4, <2>5 DEF DayInv
<1>15. QED
  BY <1>7, <1>8, <1>9, <1>10, <1>11, <1>12, <1>13, <1>14 DEF Next

\* A paged backfill that nothing cut short covers the day, for any page size and any
\* messages that arrive between its pages.
THEOREM DayIsCovered == Spec => []CoversTheDay
<1>1. Init => DayInv
  BY DEF Init, DayInv, FreshStart, Covering, CoversTheDay, CutShort, NoBatch
<1>2. DayInv => CoversTheDay
  BY DEF DayInv
<1>3. QED
  BY <1>1, <1>2, DayStep, TypeCorrect, PTL DEF Spec
=============================================================================
