------------------------ MODULE ConnectStreamProofs ------------------------
(***************************************************************************)
(* Proofs about ConnectStream: its type invariant, that a nonce opens at   *)
(* most one stream while GETDEL works, and that a live stream carries what *)
(* the server last had to show.                                            *)
(***************************************************************************)
EXTENDS ConnectStream, TLAPS

\* A nonce that has opened its stream is nowhere to be found again, and none is
\* between GET and DEL, unless GETDEL failed for it.
SpentOnce(n) == /\ got[n] = 0
                /\ opened[n] = 0 \/ (opened[n] = 1 /\ kept[n] = "no")

Spent == \A n \in Nonces \ torn : SpentOnce(n)

Wires == Seq(Events \cup {"connected"})

\* What the streams carry stays typed by the operations on sequences.
LEMMA WireTyped ==
  /\ <<>> \in Wires /\ <<"connected">> \in Wires
  /\ \A e \in Events : <<"connected", e>> \in Wires
  /\ \A w \in Wires, e \in Events : Append(w, e) \in Wires
  /\ \A w \in Wires : w # <<>> => Tail(w) \in Wires /\ Head(w) \in Events \cup {"connected"}
BY DEF Wires

\* The event replayed to a new stream is one of the events.
LEMMA ReplayTyped ==
  ASSUME StreamsOK, Replayed # {}
  PROVE  (CHOOSE e \in Replayed : TRUE) \in Events
BY DEF StreamsOK, Replayed

\* A step that writes to the streams as _emit does keeps them typed.
LEMMA EmitTyped ==
  ASSUME StreamsOK, NEW e \in Events, Emit(e), UNCHANGED <<gone, conn>>
  PROVE  StreamsOK'
<1>1. wire' \in Wires
  BY WireTyped DEF StreamsOK, Emit, Wires
<1>2. QED
  BY <1>1 DEF StreamsOK, Emit, Wires, AtMostOne

\* Closing the dialog's EventSource, or replacing it.
LEMMA SwitchTyped ==
  ASSUME TypeOK, NEW U \in SUBSET Nonces, AtMostOne(U), Switch(U)
  PROVE  /\ url' \subseteq Nonces /\ AtMostOne(url')
         /\ gone' \subseteq Nonces /\ wire' \in Wires
BY WireTyped DEF TypeOK, StreamsOK, ModalOK, Switch, AtMostOne

\* registerSSE.
LEMMA RegisterTyped ==
  ASSUME TypeOK, NEW n \in Nonces, Register(n)
  PROVE  conn' \subseteq Nonces /\ AtMostOne(conn') /\ wire' \in Wires
<1>1. wire' \in Wires
  BY WireTyped, ReplayTyped DEF TypeOK, StreamsOK, Register, Wires
<1>2. QED
  BY <1>1 DEF Register, AtMostOne

\* What a rare event does to its counter.
LEMMA RareStep ==
  ASSUME TypeOK, NEW e \in {"cut", "redis", "getdel", "fault", "setup", "other", "reattach"},
         Happens(e)
  PROVE  used' \in Nat
BY DEF TypeOK, Happens

\* TypeOK is kept by the actions on nonces and streams.
LEMMA NonceStepTyped ==
  ASSUME TypeOK, NEW n \in Nonces,
         Closed(n) \/ Expire(n) \/ Reconnect(n) \/ Lookup(n) \/ Delete(n)
  PROVE  TypeOK'
<1> USE RareStep DEF TypeOK, NoncesOK
<1>1. CASE Closed(n)
  <2>1. NoncesOK'
    BY <1>1 DEF Closed
  <2>2. StreamsOK'
    BY <1>1 DEF Closed, StreamsOK, AtMostOne
  <2>3. QED
    BY <1>1, <2>1, <2>2 DEF Closed, ProcessOK, ModalOK, AtMostOne, process, source, modal
<1>2. CASE Expire(n)
  BY <1>2 DEF Expire, StreamsOK, ProcessOK, ModalOK, AtMostOne, streams,
              process, source, modal
<1>3. CASE Reconnect(n)
  <2>1. NoncesOK'
    BY <1>3 DEF Reconnect
  <2>2. StreamsOK' /\ ProcessOK'
    BY <1>3 DEF Reconnect, StreamsOK, ProcessOK, AtMostOne, streams, process
  <2>3. used' \in Nat
    BY <1>3 DEF Reconnect
  <2>4. ModalOK'
    BY <1>3 DEF Reconnect, OnError, ModalOK, AtMostOne, modal
  <2>5. QED
    BY <2>1, <2>2, <2>3, <2>4
<1>4. CASE Lookup(n)
  <2>1. asked' \in [Nonces -> Nat]
    BY <1>4 DEF Lookup
  <2>2. ProcessOK'
    BY <1>4 DEF Lookup, ProcessOK, process
  <2>3. last' \subseteq Events /\ AtMostOne(last')
    BY <1>4 DEF Lookup, StreamsOK, AtMostOne
  <2>4. UNCHANGED modal /\ UNCHANGED linked
    BY <1>4 DEF Lookup
  <2>5. CASE /\ OneStep(n)
             /\ kept' = [kept EXCEPT ![n] = "no"]
             /\ Open(n)
             /\ UNCHANGED <<got, torn, gone, source, used>>
    <3>1. NoncesOK'
      BY <2>1, <2>5 DEF Open
    <3>2. StreamsOK'
      BY <2>3, <2>5, RegisterTyped DEF Open, StreamsOK, Wires
    <3>3. QED
      BY <2>2, <2>4, <2>5, <3>1, <3>2 DEF ModalOK, AtMostOne, source, modal
  <2>6. CASE /\ kept[n] = "redis"
             /\ IF OneStep(n) THEN Happens("getdel") ELSE UNCHANGED used
             /\ got' = [got EXCEPT ![n] = @ + 1]
             /\ torn' = IF OneStep(n) THEN torn \cup {n} ELSE torn
             /\ UNCHANGED <<kept, opened, gone, conn, wire, source>>
    <3>1. NoncesOK' /\ used' \in Nat
      BY <2>1, <2>6 
    <3>2. StreamsOK'
      BY <2>3, <2>6 DEF StreamsOK, AtMostOne
    <3>3. QED
      BY <2>2, <2>4, <2>6, <3>1, <3>2 DEF ModalOK, AtMostOne, source, modal
  <2>7. CASE /\ \/ kept[n] = "no" /\ UNCHANGED used
                \/ kept[n] = "redis" /\ Happens("redis")
             /\ Refuse(n)
             /\ UNCHANGED <<kept, got, opened, torn, conn>>
    <3>1. NoncesOK' /\ used' \in Nat
      BY <2>1, <2>7
    <3>2. CASE Broken
      <4>1. url' \subseteq Nonces /\ AtMostOne(url') /\ gone' \subseteq Nonces /\ wire' \in Wires
        BY <3>2, SwitchTyped DEF Broken, AtMostOne
      <4>2. StreamsOK'
        BY <2>3, <2>7, <4>1 DEF StreamsOK, AtMostOne, Wires
      <4>3. ModalOK'
        BY <2>4, <3>2, <4>1 DEF ModalOK, Broken, OnError, modal
      <4>4. QED
        BY <2>2, <3>1, <4>2, <4>3
    <3>3. CASE UNCHANGED <<url, gone, wire, minting>>
      BY <2>2, <2>3, <2>4, <2>7, <3>1, <3>3 DEF StreamsOK, ModalOK, AtMostOne, modal
    <3>4. QED
      BY <2>7, <3>2, <3>3 DEF Refuse
  <2>8. QED
    BY <1>4, <2>5, <2>6, <2>7 DEF Lookup
<1>5. CASE Delete(n)
  <2>1. NoncesOK'
    BY <1>5 DEF Delete, Open
  <2>2. StreamsOK'
    BY <1>5, RegisterTyped DEF Delete, Open, StreamsOK, AtMostOne, Wires
  <2>3. QED
    BY <1>5, <2>1, <2>2 DEF Delete, ProcessOK, ModalOK, AtMostOne, process, source, modal
<1>6. QED
  BY <1>1, <1>2, <1>3, <1>4, <1>5

\* TypeOK is kept by the actions on the dialog's EventSource.
LEMMA SourceStepTyped ==
  ASSUME TypeOK,
         Cut \/ IdleClose \/ Mint \/ MintFails
  PROVE  TypeOK'
<1> USE RareStep DEF TypeOK
<1>2. ASSUME Broken, UNCHANGED <<nonces, conn, last, process, modal, linked>>,
             used' \in Nat
      PROVE  TypeOK'
  <2>1. url' \subseteq Nonces /\ AtMostOne(url') /\ gone' \subseteq Nonces /\ wire' \in Wires
    BY <1>2, SwitchTyped DEF Broken, AtMostOne
  <2>2. StreamsOK'
    BY <1>2, <2>1 DEF StreamsOK, AtMostOne, Wires
  <2>3. ModalOK'
    BY <1>2, <2>1 DEF ModalOK, Broken, OnError, modal
  <2>4. NoncesOK' /\ ProcessOK'
    BY <1>2 DEF NoncesOK, ProcessOK, nonces, process
  <2>5. QED
    BY <1>2, <2>2, <2>3, <2>4
<1>3. CASE Cut
  BY <1>2, <1>3 DEF Cut
<1>4. CASE IdleClose
  BY <1>2, <1>4 DEF IdleClose
<1>5. CASE Mint
  <2>1. PICK n \in Nonces : /\ \/ kept' = [kept EXCEPT ![n] = "redis"] /\ UNCHANGED used
                               \/ kept' = [kept EXCEPT ![n] = "memory"] /\ Happens("redis")
                            /\ asked' = [asked EXCEPT ![n] = 1]
                            /\ opened' = [opened EXCEPT ![n] = 0]
                            /\ torn' = torn \ {n}
                            /\ Switch({n})
    BY <1>5 DEF Mint
  <2>2. url' \subseteq Nonces /\ AtMostOne(url') /\ gone' \subseteq Nonces /\ wire' \in Wires
    BY <2>1, SwitchTyped DEF AtMostOne
  <2>3. NoncesOK'
    BY <1>5, <2>1 DEF Mint, NoncesOK
  <2>4. StreamsOK'
    BY <1>5, <2>2 DEF Mint, StreamsOK, AtMostOne, Wires
  <2>5. QED
    BY <1>5, <2>1, <2>2, <2>3, <2>4 DEF Mint, ProcessOK, ModalOK, process, modal
<1>6. CASE MintFails
  BY <1>6 DEF MintFails, NoncesOK, StreamsOK, ProcessOK, ModalOK, AtMostOne,
              nonces, streams, process
<1>7. QED
  BY <1>3, <1>4, <1>5, <1>6

\* TypeOK is kept by what the user does elsewhere.
LEMMA ElsewhereStepTyped ==
  ASSUME TypeOK, OtherTab \/ Reattach
  PROVE  TypeOK'
<1> USE RareStep DEF TypeOK
<1>1. CASE Reattach
  BY <1>1 DEF Reattach, NoncesOK, StreamsOK, ProcessOK, ModalOK, AtMostOne, nonces,
              streams, source, modal
<1>2. CASE OtherTab
  <2>1. NoncesOK' /\ ModalOK' /\ linked' \in BOOLEAN /\ used' \in Nat
    BY <1>2 DEF OtherTab, NoncesOK, ModalOK, AtMostOne, nonces, source, modal
  <2>2. UNCHANGED gone
    BY <1>2 DEF OtherTab
  <2>3. CASE OtherStream
    BY <2>1, <2>2, <2>3 DEF OtherStream, StreamsOK, ProcessOK, AtMostOne, process
  <2>4. CASE OtherTells
    <3>1. PICK e \in Events : Says(e)
      BY <2>4 DEF OtherTells, Events
    <3>2. StreamsOK'
      BY <2>2, <2>4, <3>1, EmitTyped DEF OtherTells, Says
    <3>3. QED
      BY <2>1, <2>4, <3>2 DEF OtherTells, ProcessOK, process
  <2>5. CASE OtherStart
    BY <2>1, <2>2, <2>5 DEF OtherStart, Begin, StreamsOK, ProcessOK, AtMostOne
  <2>6. CASE OtherDisconnect
    BY <2>1, <2>2, <2>6 DEF OtherDisconnect, Disconnect, StreamsOK, ProcessOK, AtMostOne
  <2>7. QED
    BY <1>2, <2>3, <2>4, <2>5, <2>6 DEF OtherTab
<1>3. QED
  BY <1>1, <1>2

\* TypeOK is kept by the actions of the bridge.
LEMMA BridgeStepTyped ==
  ASSUME TypeOK,
         ShowCode \/ Scan \/ Login \/ Report \/ Leave \/ OnExit
  PROVE  TypeOK'
<1> USE RareStep DEF TypeOK
<1>1. ASSUME NEW e \in Events, Says(e), NEW b, Becomes(b)
      PROVE  StreamsOK'
  BY <1>1, EmitTyped DEF Says, Becomes
<1>2. ASSUME NEW b, Becomes(b)
      PROVE  NoncesOK' /\ ModalOK' /\ used' \in Nat /\ bridge' = b
  BY <1>2 DEF Becomes, NoncesOK, ModalOK, AtMostOne, nonces, source, modal
<1>3. CASE ShowCode
  BY <1>1, <1>2, <1>3 DEF ShowCode, ProcessOK, Events
<1>4. CASE Scan
  BY <1>1, <1>2, <1>4 DEF Scan, ProcessOK, Events
<1>5. CASE Login
  BY <1>1, <1>2, <1>5 DEF Login, ProcessOK, Events
<1>6. CASE Report
  <2>1. PICK e \in Events : Says(e)
    BY <1>6 DEF Report, Events
  <2>2. QED
    BY <1>1, <1>2, <1>6, <2>1 DEF Report, ProcessOK
<1>7. CASE Leave
  <2>1. NoncesOK' /\ ModalOK' /\ used' \in Nat /\ bridge' = "closing"
    BY <1>2, <1>7 DEF Leave
  <2>2. StreamsOK'
    <3>1. CASE Says("disconnected") \/ Says("error")
      BY <1>1, <1>7, <3>1 DEF Leave, Events
    <3>2. CASE UNCHANGED <<wire, last, entry, starting>>
      BY <1>7, <3>2 DEF Leave, Becomes, StreamsOK, AtMostOne
    <3>3. QED
      BY <1>7, <3>1, <3>2 DEF Leave
  <2>3. ProcessOK'
    BY <1>7, <2>1 DEF Leave, ProcessOK
  <2>4. QED
    BY <2>1, <2>2, <2>3
<1>8. CASE OnExit
  <2>1. NoncesOK' /\ StreamsOK' /\ used' \in Nat
    BY <1>8 DEF OnExit, NoncesOK, StreamsOK, AtMostOne, nonces
  <2>2. ProcessOK'
    BY <1>8 DEF OnExit, ProcessOK
  <2>3. ModalOK'
    BY <1>8 DEF OnExit, ModalOK, AtMostOne, source, modal
  <2>4. QED
    BY <2>1, <2>2, <2>3
<1>9. QED
  BY <1>3, <1>4, <1>5, <1>6, <1>7, <1>8

\* TypeOK is kept by the dialog and the page around it.
LEMMA DialogStepTyped ==
  ASSUME TypeOK,
         \/ OpenModal \/ CloseModal \/ GroupsRefused \/ Connected \/ Deliver
         \/ Advance \/ Poll \/ Initiate \/ Spawn \/ SetupFails \/ InitiateFails
         \/ TryAgain
         \/ HostPoll \/ HostDisconnect
  PROVE  TypeOK'
<1> USE RareStep DEF TypeOK
<1>1. ASSUME Unmount, UNCHANGED <<nonces, conn, last, process, used>>, linked' \in BOOLEAN
      PROVE  TypeOK'
  <2>1. url' \subseteq Nonces /\ AtMostOne(url') /\ gone' \subseteq Nonces /\ wire' \in Wires
    BY <1>1, SwitchTyped DEF Unmount, AtMostOne
  <2>2. StreamsOK'
    BY <1>1, <2>1 DEF StreamsOK, AtMostOne, Wires
  <2>3. ModalOK'
    BY <1>1, <2>1 DEF ModalOK, Unmount
  <2>4. NoncesOK' /\ ProcessOK'
    BY <1>1 DEF NoncesOK, ProcessOK, nonces, process
  <2>5. QED
    BY <1>1, <2>2, <2>3, <2>4
<1>2. CASE OpenModal
  BY <1>2 DEF OpenModal, NoncesOK, StreamsOK, ProcessOK, ModalOK, AtMostOne, nonces,
              streams, process
<1>3. CASE CloseModal
  BY <1>1, <1>3 DEF CloseModal, ModalOK
<1>4. CASE GroupsRefused
  BY <1>1, <1>4 DEF GroupsRefused, ModalOK
<1>5. CASE Connected
  <2>1. wire' \in Wires
    BY <1>5, WireTyped DEF Connected, StreamsOK, Wires
  <2>2. StreamsOK'
    BY <1>5, <2>1 DEF Connected, StreamsOK, AtMostOne, Wires
  <2>3. NoncesOK' /\ ProcessOK' /\ used' \in Nat
    BY <1>5 DEF Connected, NoncesOK, ProcessOK, nonces, process
  <2>4. ModalOK'
    <3>1. CASE initiated
      BY <1>5, <3>1 DEF Connected, ModalOK, AtMostOne, source
    <3>2. CASE ~initiated
      BY <1>5, <3>2 DEF Connected, ModalOK, AtMostOne, source
    <3>3. QED
      BY <3>1, <3>2
  <2>5. QED
    BY <2>2, <2>3, <2>4
<1>6. CASE Deliver
  <2>1. wire' \in Wires /\ Head(wire) \in Events
    BY <1>6, WireTyped DEF Deliver, StreamsOK, Wires
  <2>2. StreamsOK'
    BY <1>6, <2>1 DEF Deliver, StreamsOK, AtMostOne, Wires
  <2>3. phase' \in {"closed", "init", "starting", "qr", "scanning",
                    "authenticated", "select_groups", "error"} /\ advance' \in BOOLEAN
    BY <1>6, <2>1 DEF Deliver, ModalOK, Shows, Terminal, Events
  <2>4. QED
    BY <1>6, <2>2, <2>3 DEF Deliver, NoncesOK, ProcessOK, ModalOK, AtMostOne, nonces,
                      process, source
<1>7. CASE Advance \/ Poll \/ InitiateFails
  <2>1. NoncesOK' /\ StreamsOK' /\ ProcessOK' /\ used' \in Nat
    BY <1>7 DEF Advance, Poll, InitiateFails, NoncesOK, StreamsOK, ProcessOK, AtMostOne,
                nonces, streams, process
  <2>2. ModalOK'
    <3>1. CASE Advance
      BY <3>1 DEF Advance, ModalOK, AtMostOne, source
    <3>2. CASE Poll
      BY <3>2 DEF Poll, ModalOK, AtMostOne, source
    <3>3. CASE InitiateFails
      BY <3>3 DEF InitiateFails, ModalOK, AtMostOne, source
    <3>4. QED
      BY <1>7, <3>1, <3>2, <3>3
  <2>3. QED
    BY <2>1, <2>2
<1>8. CASE Initiate \/ Spawn \/ SetupFails
  <2>1. /\ UNCHANGED <<nonces, streams, source, phase, initiated, advance, linked>>
        /\ used' \in Nat
    BY <1>8 DEF Initiate, Spawn, SetupFails
  <2>2. ProcessOK' /\ calling' \in {"no", "sent", "begun", "failed"}
    <3>1. CASE Initiate
      BY <3>1 DEF Initiate, Begin, ProcessOK, process
    <3>2. CASE Spawn
      BY <3>2 DEF Spawn, Answer, ProcessOK, ModalOK
    <3>3. CASE SetupFails
      BY <3>3 DEF SetupFails, Answer, ProcessOK, ModalOK
    <3>4. QED
      BY <1>8, <3>1, <3>2, <3>3
  <2>3. NoncesOK' /\ StreamsOK'
    BY <2>1 DEF NoncesOK, StreamsOK, AtMostOne, nonces, streams
  <2>4. ModalOK'
    BY <2>1, <2>2 DEF ModalOK, AtMostOne, source
  <2>5. QED
    BY <2>1, <2>2, <2>3, <2>4
<1>9. CASE TryAgain
  BY <1>9 DEF TryAgain, Disconnect, NoncesOK, StreamsOK, ProcessOK, ModalOK, AtMostOne,
              nonces
<1>10. CASE HostPoll
  <2>1. linked' \in BOOLEAN /\ UNCHANGED <<nonces, conn, last, process, used>>
    BY <1>10 DEF HostPoll
  <2>2. CASE Unmount
    BY <1>1, <2>1, <2>2
  <2>3. CASE UNCHANGED <<wire, gone, source, modal>>
    BY <2>1, <2>3 DEF NoncesOK, StreamsOK, ProcessOK, ModalOK, AtMostOne, nonces, process,
                      source, modal
  <2>4. QED
    BY <1>10, <2>2, <2>3 DEF HostPoll
<1>11. CASE HostDisconnect
  <2>1. NoncesOK' /\ StreamsOK' /\ used' \in Nat
    BY <1>11 DEF HostDisconnect, Disconnect, NoncesOK, StreamsOK, AtMostOne, nonces
  <2>2. ProcessOK'
    BY <1>11 DEF HostDisconnect, Disconnect, ProcessOK
  <2>3. ModalOK'
    BY <1>11 DEF HostDisconnect, ModalOK, AtMostOne, source, modal
  <2>4. QED
    BY <2>1, <2>2, <2>3
<1>12. QED
  BY <1>2, <1>3, <1>4, <1>5, <1>6, <1>7, <1>8, <1>9, <1>10, <1>11

\* Only the nonce actions use nonces up; the rest leave them, or make a new one.
LEMMA SpentStep ==
  ASSUME TypeOK, Spent, [Next]_vars
  PROVE  Spent'
<1> USE DEF TypeOK, NoncesOK, SpentOnce
<1> SUFFICES ASSUME NEW m \in Nonces, m \notin torn'
             PROVE  SpentOnce(m)'
  BY DEF Spent
<1>1. m \notin torn => SpentOnce(m)
  BY DEF Spent
<1>2. ASSUME UNCHANGED <<kept, got, opened, torn>>
      PROVE  SpentOnce(m)'
  BY <1>1, <1>2
<1>3. ASSUME NEW n \in Nonces, Closed(n)
      PROVE  SpentOnce(m)'
  <2>1. UNCHANGED <<kept, got>>
    BY <1>3 DEF Closed
  <2>2. CASE asked[n] + got[n] = 0
    <3>1. got[n] = 0
      BY <2>2
    <3>2. opened' = [opened EXCEPT ![n] = 0] /\ torn' = torn \ {n}
      BY <1>3, <2>2 DEF Closed
    <3>3. QED
      BY <1>1, <2>1, <3>1, <3>2
  <2>3. CASE asked[n] + got[n] # 0
    BY <1>2, <1>3, <2>1, <2>3 DEF Closed
  <2>4. QED
    BY <2>2, <2>3
<1>4. ASSUME NEW n \in Nonces, Expire(n)
      PROVE  SpentOnce(m)'
  BY <1>1, <1>4 DEF Expire
<1>5. ASSUME NEW n \in Nonces, Lookup(n)
      PROVE  SpentOnce(m)'
  <2>1. CASE /\ OneStep(n)
             /\ kept' = [kept EXCEPT ![n] = "no"]
             /\ Open(n)
             /\ UNCHANGED <<got, torn, gone, source, used>>
    <3>1. n \notin torn => opened[n] = 0
      BY <2>1 DEF Spent, OneStep
    <3>2. QED
      BY <1>1, <2>1, <3>1 DEF Open
  <2>2. CASE /\ kept[n] = "redis"
             /\ IF OneStep(n) THEN Happens("getdel") ELSE UNCHANGED used
             /\ got' = [got EXCEPT ![n] = @ + 1]
             /\ torn' = IF OneStep(n) THEN torn \cup {n} ELSE torn
             /\ UNCHANGED <<kept, opened, gone, conn, wire, source>>
    BY <1>1, <2>2 DEF OneStep
  <2>3. CASE /\ \/ kept[n] = "no" /\ UNCHANGED used
                \/ kept[n] = "redis" /\ Happens("redis")
             /\ Refuse(n)
             /\ UNCHANGED <<kept, got, opened, torn, conn>>
    BY <1>2, <2>3
  <2>4. QED
    BY <1>5, <2>1, <2>2, <2>3 DEF Lookup
<1>6. ASSUME NEW n \in Nonces, Delete(n)
      PROVE  SpentOnce(m)'
  BY <1>1, <1>6 DEF Delete, Open, Spent
<1>7. CASE Mint
  <2>1. PICK n \in Nonces : /\ Unused(n)
                            /\ torn' = torn \ {n}
                            /\ opened' = [opened EXCEPT ![n] = 0]
                            /\ \/ kept' = [kept EXCEPT ![n] = "redis"]
                               \/ kept' = [kept EXCEPT ![n] = "memory"]
    BY <1>7 DEF Mint
  <2>2. got[n] = 0 /\ got' = got
    BY <1>7, <2>1 DEF Mint, Unused
  <2>3. QED
    BY <1>1, <2>1, <2>2
<1>8. ASSUME NEW n \in Nonces, Reconnect(n)
      PROVE  SpentOnce(m)'
  BY <1>2, <1>8 DEF Reconnect
<1>9. CASE Cut \/ IdleClose \/ MintFails \/ OtherTab \/ Reattach
  BY <1>2, <1>9 DEF Cut, IdleClose, MintFails, OtherTab, Reattach, nonces
<1>10. CASE ShowCode \/ Scan \/ Login \/ Report \/ Leave \/ OnExit
  BY <1>2, <1>10 DEF ShowCode, Scan, Login, Report, Leave, OnExit, Becomes, nonces
<1>11. CASE OpenModal \/ CloseModal \/ GroupsRefused \/ Connected \/ Deliver \/ Advance
  BY <1>2, <1>11 DEF OpenModal, CloseModal, GroupsRefused, Connected, Deliver, Advance,
                     nonces
<1>12. CASE Poll \/ InitiateFails \/ TryAgain \/ HostPoll \/ HostDisconnect
  BY <1>2, <1>12 DEF Poll, InitiateFails, TryAgain, HostPoll, HostDisconnect, nonces
<1>13. CASE Initiate \/ Spawn \/ SetupFails
  BY <1>2, <1>13 DEF Initiate, Spawn, SetupFails, nonces
<1>14. CASE UNCHANGED vars
  BY <1>2, <1>14 DEF vars, nonces
<1>15. QED
  BY <1>3, <1>4, <1>5, <1>6, <1>7, <1>8, <1>9, <1>10, <1>11, <1>12, <1>13, <1>14
     DEF Next

\* The variables have their types, for any number of nonces and rare events.
THEOREM StreamTypes == Spec => []TypeOK
<1>1. Init => TypeOK
  <2> SUFFICES ASSUME Init
               PROVE  TypeOK
    OBVIOUS
  <2>1. NoncesOK
    BY DEF Init, NoncesOK
  <2>2. StreamsOK
    BY WireTyped DEF Init, StreamsOK, AtMostOne, Wires
  <2>3. ProcessOK /\ ModalOK /\ used \in Nat
    BY DEF Init, ProcessOK, ModalOK, AtMostOne
  <2>4. QED
    BY <2>1, <2>2, <2>3 DEF TypeOK
<1>2. TypeOK /\ [Next]_vars => TypeOK'
  <2>1. TypeOK /\ Next => TypeOK'
    BY NonceStepTyped, SourceStepTyped, ElsewhereStepTyped, BridgeStepTyped,
       DialogStepTyped DEF Next
  <2>2. TypeOK /\ UNCHANGED vars => TypeOK'
    BY DEF TypeOK, NoncesOK, StreamsOK, ProcessOK, ModalOK, AtMostOne, vars, nonces,
           streams, process, source, modal
  <2>3. QED
    BY <2>1, <2>2
<1>3. QED
  BY <1>1, <1>2, PTL DEF Spec

\* No nonce opens two streams, however the requests with it overlap, as long as
\* GETDEL works: "the nonce can only be consumed once".
THEOREM OneStreamPerNonce == Spec => []NonceOnce
<1>1. Init => Spent
  BY DEF Init, Spent, SpentOnce
<1>2. TypeOK /\ Spent /\ [Next]_vars => Spent'
  BY SpentStep
<1>3. TypeOK /\ Spent => NonceOnce
  <2> SUFFICES ASSUME Spent, NEW n \in Nonces, n \notin torn
               PROVE  opened[n] <= 1
    BY DEF NonceOnce
  <2>1. opened[n] = 0 \/ opened[n] = 1
    BY DEF Spent, SpentOnce
  <2>2. QED
    BY <2>1
<1>4. QED
  BY <1>1, <1>2, <1>3, StreamTypes, PTL DEF Spec

-----------------------------------------------------------------------------
(* A live stream does not lose what there is to show *)

\* The dialog shows no event yet, or "connected" is still to take it there.
Expects == phase = "starting" \/ \E i \in DOMAIN wire : wire[i] = "connected"

Carries == wire # <<>> /\ wire[Len(wire)] \in last

\* The inductive invariant: the event is behind every "connected" that the dialog has
\* yet to see.
NewsInv == last \cap News # {} /\ Reached # {} /\ Expects => Carries

\* What the operations on sequences do to the two.
LEMMA TailCarries ==
  ASSUME NEW w \in Wires, w # <<>>
  PROVE  /\ Tail(w) \in Wires
         /\ Len(w) = 1 => Tail(w) = <<>>
         /\ Len(w) # 1 => Tail(w) # <<>> /\ Tail(w)[Len(Tail(w))] = w[Len(w)]
         /\ (\E i \in DOMAIN Tail(w) : Tail(w)[i] = "connected")
              => \E i \in DOMAIN w : w[i] = "connected"
<1>1. /\ Len(w) \in Nat \ {0} /\ DOMAIN w = 1 .. Len(w)
      /\ Tail(w) \in Wires /\ Len(Tail(w)) = Len(w) - 1
      /\ DOMAIN Tail(w) = 1 .. Len(w) - 1
      /\ \A i \in 1 .. Len(w) - 1 : Tail(w)[i] = w[i + 1]
  BY DEF Wires
<1>2. Len(w) = 1 => Tail(w) = <<>>
  BY <1>1 DEF Wires
<1>3. Len(w) # 1 => Tail(w) # <<>> /\ Tail(w)[Len(Tail(w))] = w[Len(w)]
  BY <1>1
<1>4. ASSUME NEW i \in DOMAIN Tail(w), Tail(w)[i] = "connected"
      PROVE  \E j \in DOMAIN w : w[j] = "connected"
  <2>1. i + 1 \in DOMAIN w /\ w[i + 1] = "connected"
    BY <1>1, <1>4
  <2>2. QED
    BY <2>1
<1>5. QED
  BY <1>1, <1>2, <1>3, <1>4

\* A step that leaves the server's last event and the stream alone.
LEMMA NewsKept ==
  ASSUME NewsInv, UNCHANGED last,
         \/ Reached' = {}
         \/ Reached' = Reached /\ wire' = wire /\ phase' \in {phase, "closed", "init"}
         \/ Reached' = Reached /\ wire' = wire /\ phase' # "starting"
  PROVE  NewsInv'
BY DEF NewsInv, Expects, Carries

\* An event that is emitted is what the server remembers and what the stream ends with.
LEMMA SaysCarries ==
  ASSUME TypeOK, NEW e \in Events, Says(e), UNCHANGED <<gone, conn, url>>
  PROVE  NewsInv'
<1>1. wire \in Wires /\ Reached' = Reached /\ last' = {e}
  BY DEF TypeOK, StreamsOK, Wires, Reached, Says, Emit
<1>2. CASE Reached = {}
  BY <1>1, <1>2 DEF NewsInv
<1>3. CASE Reached # {}
  <2>1. wire' = Append(wire, e)
    BY <1>3 DEF Says, Emit
  <2>2. wire' # <<>> /\ wire'[Len(wire')] = e
    BY <1>1, <2>1 DEF Wires
  <2>3. QED
    BY <1>1, <2>2 DEF NewsInv, Carries
<1>4. QED
  BY <1>2, <1>3

\* A stream that is registered gets the last event, unless it is one that is not
\* replayed, which the dialog would not show as news.
LEMMA RegisterCarries ==
  ASSUME TypeOK, NewsInv, NEW n \in Nonces, Register(n), UNCHANGED <<url, last>>
  PROVE  NewsInv'
<1>1. CASE n \notin url
  <2>1. Reached' = {}
    BY <1>1 DEF Register, Reached
  <2>2. QED
    BY <2>1, NewsKept
<1>2. CASE n \in url /\ last \cap News # {}
  <2>1. Replayed = last
    BY <1>2 DEF Replayed, News
  <2>2. PICK e \in last : wire' = <<"connected", e>>
    BY <1>2, <2>1 DEF Register
  <2>3. QED
    BY <2>2 DEF NewsInv, Carries
<1>3. CASE last \cap News = {}
  BY <1>3 DEF NewsInv
<1>4. QED
  BY <1>1, <1>2, <1>3

\* Whatever the dialog's EventSource is replaced by is not registered yet.
LEMMA SwitchCuts ==
  /\ Switch({}) => Reached' = {}
  /\ \A n \in Nonces : Unused(n) /\ Switch({n}) /\ UNCHANGED conn => Reached' = {}
BY DEF Switch, Reached, Unused

LEMMA NewsStep ==
  ASSUME TypeOK, NewsInv, [Next]_vars
  PROVE  NewsInv'
<1>w. wire \in Wires
  BY DEF TypeOK, StreamsOK, Wires
<1>1. ASSUME NEW n \in Nonces, Closed(n) \/ Expire(n) \/ Reconnect(n)
      PROVE  NewsInv'
  <2>1. UNCHANGED <<last, wire, url, phase>>
    BY <1>1 DEF Closed, Expire, Reconnect, streams, source, modal
  <2>2. Reached' = {} \/ Reached' = Reached
    BY <1>1 DEF Closed, Expire, Reconnect, streams, source, Reached
  <2>3. QED
    BY <2>1, <2>2, NewsKept
<1>2. ASSUME NEW n \in Nonces, Lookup(n)
      PROVE  NewsInv'
  <2>1. UNCHANGED <<last, phase>>
    BY <1>2 DEF Lookup, modal
  <2>2. CASE Open(n) /\ UNCHANGED <<got, torn, gone, source, used>>
    BY <2>1, <2>2, RegisterCarries DEF Open, source
  <2>3. CASE UNCHANGED <<kept, opened, gone, conn, wire, source>>
    BY <2>1, <2>3, NewsKept DEF source, Reached
  <2>4. CASE Refuse(n) /\ UNCHANGED <<kept, got, opened, torn, conn>>
    <3>1. Reached' = {} \/ (Reached' = Reached /\ wire' = wire)
      BY <2>4, SwitchCuts DEF Refuse, Broken, Reached
    <3>2. QED
      BY <2>1, <3>1, NewsKept
  <2>5. QED
    BY <1>2, <2>2, <2>3, <2>4 DEF Lookup
<1>3. ASSUME NEW n \in Nonces, Delete(n)
      PROVE  NewsInv'
  BY <1>3, RegisterCarries DEF Delete, Open, source
<1>4. CASE Cut \/ IdleClose \/ Mint
  <2>1. UNCHANGED last
    BY <1>4 DEF Cut, IdleClose, Mint
  <2>2. Reached' = {}
    BY <1>4, SwitchCuts DEF Cut, IdleClose, Mint, Broken, Reached
  <2>3. QED
    BY <2>1, <2>2, NewsKept
<1>5. CASE MintFails \/ Reattach
  <2>1. UNCHANGED <<last, wire, gone, conn, url>>
    BY <1>5 DEF MintFails, Reattach, streams, source
  <2>2. phase' = phase \/ phase' # "starting"
    BY <1>5 DEF MintFails, Reattach, modal
  <2>3. QED
    BY <2>1, <2>2, NewsKept DEF Reached
<1>6. CASE ShowCode \/ Scan \/ Login \/ Report \/ Leave
  <2>1. UNCHANGED <<gone, conn, url, phase>>
    BY <1>6 DEF ShowCode, Scan, Login, Report, Leave, Becomes, source, modal
  <2>2. CASE \E e \in Events : Says(e)
    BY <2>1, <2>2, SaysCarries
  <2>3. CASE UNCHANGED <<wire, last>>
    BY <2>1, <2>3, NewsKept DEF Reached
  <2>4. QED
    BY <1>6, <2>2, <2>3 DEF ShowCode, Scan, Login, Report, Leave, Events
<1>7. CASE OnExit
  BY <1>7, NewsKept DEF OnExit, Reached
<1>8. CASE Initiate \/ Spawn \/ SetupFails
  <2>1. UNCHANGED <<streams, source, phase>>
    BY <1>8 DEF Initiate, Spawn, SetupFails
  <2>2. QED
    BY <2>1, NewsKept DEF streams, source, Reached
<1>9. CASE OpenModal \/ CloseModal \/ GroupsRefused \/ Advance \/ Poll \/ InitiateFails
  <2>1. UNCHANGED last
    BY <1>9 DEF OpenModal, CloseModal, GroupsRefused, Advance, Poll, InitiateFails, streams
  <2>2. CASE CloseModal \/ GroupsRefused
    BY <2>1, <2>2, SwitchCuts, NewsKept DEF CloseModal, GroupsRefused, Unmount
  <2>3. CASE OpenModal \/ Advance \/ Poll \/ InitiateFails
    BY <2>1, <2>3, NewsKept DEF OpenModal, Advance, Poll, InitiateFails, streams, source,
                                Reached
  <2>4. QED
    BY <1>9, <2>2, <2>3
<1>10. CASE Connected
  <2>1. /\ last' = last /\ Reached' = Reached
        /\ wire # <<>> /\ Head(wire) = "connected" /\ wire' = Tail(wire)
    BY <1>10 DEF Connected, source, Reached
  <2>2. Expects
    <3>1. 1 \in DOMAIN wire /\ wire[1] = "connected"
      BY <1>w, <2>1 DEF Wires
    <3>2. QED
      BY <3>1 DEF Expects
  <2>3. ASSUME last \cap News # {}, Reached # {}
        PROVE  Carries'
    <3>1. Carries
      BY <2>2, <2>3 DEF NewsInv
    <3>2. "connected" \notin last
      BY DEF TypeOK, StreamsOK, Events
    <3>3. Len(wire) # 1
      BY <1>w, <2>1, <3>1, <3>2 DEF Carries, Wires
    <3>4. QED
      BY <1>w, <2>1, <3>1, <3>3, TailCarries DEF Carries
  <2>4. QED
    BY <2>1, <2>3 DEF NewsInv
<1>11. CASE Deliver
  <2>1. /\ last' = last /\ Reached' = Reached
        /\ wire # <<>> /\ Head(wire) # "connected" /\ wire' = Tail(wire)
    BY <1>11 DEF Deliver, source, Reached
  <2>2. phase' = "starting" => phase = "starting"
    BY <1>11 DEF Deliver, Shows
  <2>3. ASSUME last \cap News # {}, Reached # {}, Expects'
        PROVE  Carries'
    <3>1. Expects
      BY <1>w, <2>1, <2>2, <2>3, TailCarries DEF Expects
    <3>2. Carries
      BY <2>3, <3>1 DEF NewsInv
    <3>3. CASE Len(wire) = 1
      <4>1. wire' = <<>> /\ Head(wire) \in last
        BY <1>w, <2>1, <3>2, <3>3, TailCarries DEF Carries, Wires
      <4>2. Head(wire) \in News
        BY <2>3, <4>1 DEF TypeOK, StreamsOK, AtMostOne
      <4>3. phase' = "starting"
        BY <2>3, <4>1 DEF Expects
      <4>4. phase' = Shows(Head(wire))
        BY <1>11, <3>3 DEF Deliver
      <4>5. QED
        BY <2>2, <4>2, <4>3, <4>4 DEF Shows, Terminal, News
    <3>4. CASE Len(wire) # 1
      BY <1>w, <2>1, <3>2, <3>4, TailCarries DEF Carries
    <3>5. QED
      BY <3>3, <3>4
  <2>4. QED
    BY <2>1, <2>3 DEF NewsInv
<1>12. CASE TryAgain \/ HostDisconnect
  <2>1. last' = {}
    BY <1>12 DEF TryAgain, HostDisconnect, Disconnect
  <2>2. QED
    BY <2>1 DEF NewsInv
<1>13. CASE HostPoll
  <2>1. UNCHANGED <<last, conn>>
    BY <1>13 DEF HostPoll
  <2>2. CASE Unmount
    BY <2>1, <2>2, SwitchCuts, NewsKept DEF Unmount
  <2>3. CASE UNCHANGED <<wire, gone, source, modal>>
    BY <2>1, <2>3, NewsKept DEF source, modal, Reached
  <2>4. QED
    BY <1>13, <2>2, <2>3 DEF HostPoll
<1>14. CASE OtherTab
  <2>1. UNCHANGED <<gone, url, phase>>
    BY <1>14 DEF OtherTab, source, modal
  <2>2. CASE OtherStream
    BY <2>2, NewsKept DEF OtherStream, Reached
  <2>3. CASE OtherTells
    BY <2>1, <2>3, SaysCarries DEF OtherTells, Events
  <2>4. CASE OtherStart
    BY <2>1, <2>4, NewsKept DEF OtherStart, Reached
  <2>5. CASE OtherDisconnect
    BY <2>5 DEF OtherDisconnect, Disconnect, NewsInv
  <2>6. QED
    BY <1>14, <2>2, <2>3, <2>4, <2>5 DEF OtherTab
<1>15. CASE UNCHANGED vars
  BY <1>15, NewsKept DEF vars, streams, source, modal, Reached
<1>16. QED
  BY <1>1, <1>2, <1>3, <1>4, <1>5, <1>6, <1>7, <1>8, <1>9, <1>10, <1>11, <1>12, <1>13,
     <1>14, <1>15 DEF Next

\* However streams break, are displaced, replaced and reopened, and whatever else the
\* server sends, one that is live carries what the server last had to show to a
\* dialog that has shown nothing yet.
THEOREM NewsIsUnderWayHolds == Spec => []NewsIsUnderWay
<1>1. Init => NewsInv
  BY DEF Init, NewsInv
<1>2. NewsInv => NewsIsUnderWay
  BY DEF NewsInv, Expects, Carries, NewsIsUnderWay
<1>3. QED
  BY <1>1, <1>2, NewsStep, StreamTypes, PTL DEF Spec
=============================================================================
