--------------------------- MODULE NetworkProofs ---------------------------
(***************************************************************************)
(* The theorems about the components, which hold for every value of their  *)
(* constants, at the instances in MCNetwork: the properties that TLC       *)
(* checks of them.                                                         *)
(***************************************************************************)
EXTENDS MCNetwork, SequenceLemmas

(***************************************************************************)
(* The input queue.                                                        *)
(***************************************************************************)

QueueP == INSTANCE FrameQueueProofs WITH
    SizeQ <- 2, NwkPorts <- {"ping"}, UserPorts <- {"link"}, Me <- "me", MaxFrames <- 4,
    FrameKinds <- {Kind("peer", "link", TRUE), Kind("peer", "ping", TRUE),
                   Kind("other", "link", FALSE)},
    Contexts <- {[type |-> "link", port |-> "link", peer |-> "peer"],
                 [type |-> "nwk", port |-> "ping", peer |-> "any"]},
    inq <- frameInq

LEMMA QueueAssumed == QueueP!SizeAssumption
  BY DEF QueueP!SizeAssumption

\* The two instances are one.
LEMMA QueueSame ==
    /\ Queue!Init = QueueP!Init
    /\ Queue!Next = QueueP!Next
    /\ Queue!MarkedIffHeld = QueueP!MarkedIffHeld
    /\ Queue!NoneVanishes = QueueP!NoneVanishes
    /\ Queue!StampsTellAge = QueueP!StampsTellAge
    /\ Queue!HeldStay = QueueP!HeldStay
    /\ Queue!OldestIfQuiet = QueueP!OldestIfQuiet
<1>1. Queue!Slots = QueueP!Slots /\ Queue!Idle = QueueP!Idle /\ Queue!Held = QueueP!Held
  BY DEF Queue!Slots, QueueP!Slots, Queue!Idle, QueueP!Idle, Queue!Held, QueueP!Held
<1>2. /\ \A q : Queue!InUse(q) = QueueP!InUse(q)
      /\ \A r, f : Queue!Wanted(r, f) = QueueP!Wanted(r, f)
      /\ \A f : Queue!Dispatched(f) = QueueP!Dispatched(f)
      /\ \A r, c : Queue!Advance(r, c) = QueueP!Advance(r, c)
  BY <1>1 DEF Queue!InUse, QueueP!InUse, Queue!Wanted, QueueP!Wanted, Queue!Dispatched,
     QueueP!Dispatched, Queue!Advance, QueueP!Advance
<1>3. ASSUME NEW q
      PROVE  /\ \A t : Queue!AdjustOrder(q, t) = QueueP!AdjustOrder(q, t)
             /\ Queue!Castable(q) = QueueP!Castable(q)
  BY <1>1, <1>2 DEF Queue!AdjustOrder, QueueP!AdjustOrder, Queue!Castable, QueueP!Castable
<1>4. ASSUME NEW q
      PROVE  Queue!SlotFound(q) = QueueP!SlotFound(q)
  <2>1. \A S : Queue!OldestOf(q, S) = QueueP!OldestOf(q, S)
    BY DEF Queue!OldestOf, QueueP!OldestOf
  <2>2. \A S : Queue!Max(S) = QueueP!Max(S)
    BY DEF Queue!Max, QueueP!Max
  <2> QED
    BY <1>1, <1>2, <1>3, <2>1, <2>2 DEF Queue!SlotFound, QueueP!SlotFound
<1>5. ASSUME NEW q, NEW s
      PROVE  Queue!Stamped(q, s) = QueueP!Stamped(q, s)
  <2>1. \A S : Queue!Cardinality(S) = QueueP!Cardinality(S)
    BY DEF Queue!Cardinality, QueueP!Cardinality
  <2> QED
    BY <1>2, <1>3, <2>1 DEF Queue!Stamped, QueueP!Stamped
<1>6. Queue!Init = QueueP!Init
  BY <1>1 DEF Queue!Init, QueueP!Init, Queue!QInit, QueueP!QInit, Queue!Slot, QueueP!Slot
<1>7. ASSUME NEW kind
      PROVE  Queue!RxComplete(kind) = QueueP!RxComplete(kind)
  BY <1>2, <1>4, <1>5 DEF Queue!RxComplete, QueueP!RxComplete, Queue!Store, QueueP!Store
<1>8. ASSUME NEW rcv
      PROVE  Queue!Retrieve(rcv) = QueueP!Retrieve(rcv)
  BY <1>1 DEF Queue!Retrieve, QueueP!Retrieve
<1>9. /\ Queue!Mark = QueueP!Mark /\ Queue!Compare = QueueP!Compare
      /\ Queue!Restore = QueueP!Restore /\ Queue!Take = QueueP!Take
  BY <1>2 DEF Queue!Mark, QueueP!Mark, Queue!Compare, QueueP!Compare, Queue!Restore,
     QueueP!Restore, Queue!Take, QueueP!Take
<1>10. Queue!Copy = QueueP!Copy /\ Queue!Adjust = QueueP!Adjust /\ Queue!Free = QueueP!Free
  BY <1>1, <1>2, <1>3 DEF Queue!Copy, QueueP!Copy, Queue!Adjust, QueueP!Adjust, Queue!Free,
     QueueP!Free
<1>11. Queue!Next = QueueP!Next
  BY <1>7, <1>8, <1>9, <1>10 DEF Queue!Next, QueueP!Next
<1>12. /\ Queue!MarkedIffHeld = QueueP!MarkedIffHeld
       /\ Queue!HeldStay = QueueP!HeldStay
       /\ Queue!StampsTellAge = QueueP!StampsTellAge
  BY <1>1, <1>2 DEF Queue!MarkedIffHeld, QueueP!MarkedIffHeld, Queue!HeldStay,
     QueueP!HeldStay, Queue!StampsTellAge, QueueP!StampsTellAge
<1>13. Queue!NoneVanishes = QueueP!NoneVanishes
  BY <1>2 DEF Queue!NoneVanishes, QueueP!NoneVanishes, Queue!Queued, QueueP!Queued,
     Queue!Retrieved, QueueP!Retrieved
<1>14. Queue!OldestIfQuiet = QueueP!OldestIfQuiet
  BY <1>2 DEF Queue!OldestIfQuiet, QueueP!OldestIfQuiet, Queue!TakesOldest,
     QueueP!TakesOldest
<1> QED
  BY <1>6, <1>11, <1>12, <1>13, <1>14

\* While the instance runs, its invariant holds.
QueueInv == Is("queue") => QueueP!FInv

LEMMA SpecQueueInv == Spec => []QueueInv
<1>1. Init => QueueInv
  <2> SUFFICES ASSUME Init, Is("queue")
               PROVE  QueueP!FInv
    BY DEF QueueInv
  <2>1. Queue!Init
    BY DEF Init, Is
  <2> QED
    BY <2>1, QueueSame, QueueAssumed, QueueP!InitFInv
<1>2. QueueInv /\ [Next]_vars => QueueInv'
  <2> SUFFICES ASSUME QueueInv, [Next]_vars, Is("queue")'
               PROVE  QueueP!FInv'
    BY DEF QueueInv
  <2>1. CASE Next
    <3>1. Is("queue") /\ Queue!Next
      BY <2>1 DEF Next, Runs, Is
    <3> QED
      BY <3>1, QueueSame, QueueAssumed, QueueP!NextFInv DEF QueueInv
  <2>2. CASE UNCHANGED vars
    <3>1. Is("queue") /\ UNCHANGED QueueP!vars
      BY <2>2 DEF vars, queueVars, Is, QueueP!vars
    <3> QED
      BY <3>1, QueueAssumed, QueueP!NextFInv DEF QueueInv
  <2> QED
    BY <2>1, <2>2
<1> QED
  BY <1>1, <1>2, PTL DEF Spec

\* What the theorems about the input queue say is what TLC checks
\* (nwk_QMgmt.c, nwk_retrieveFrame).
THEOREM QueueProved == Spec => []QueueSound
<1>1. QueueInv => QueueSound
  BY QueueSame DEF QueueInv, QueueSound, QueueP!FInv, QueueP!Accounted, QueueP!Stamps,
     QueueP!Counted, QueueP!InOrderOfAge, QueueP!StampsTellAge
<1> QED
  BY <1>1, SpecQueueInv, PTL

\* Its actions, too (MRFI_RxCompleteISR, nwk_QfindOldest).
THEOREM OldestProved == Spec => OldestFirst
<1>1. QueueInv /\ [Next]_vars
          => [Is("queue") => Queue!HeldStay /\ Queue!OldestIfQuiet]_vars
  <2> SUFFICES ASSUME QueueInv, Next, Is("queue")
               PROVE  Queue!HeldStay /\ Queue!OldestIfQuiet
    OBVIOUS
  <2>1. Queue!Next
    BY DEF Next, Runs, Is
  <2> QED
    BY <2>1, QueueSame, QueueAssumed, QueueP!StepHolds, QueueP!StepTakesOldest
       DEF QueueInv
<1> QED
  BY <1>1, SpecQueueInv, PTL DEF Spec, OldestFirst

(***************************************************************************)
(* Connections: acknowledged messages, and the table.                      *)
(***************************************************************************)

ConnP == INSTANCE ConnectionProofs WITH
    Devices <- {"a", "b"}, Senders <- {"a"}, NumTids <- 4, MaxSends <- 2,
    MaxLinkers <- 1, Third <- "t",
    thread <- ackThread, air <- ackAir, sends <- ackSends,
    NumConnections <- 2, PortBase <- 1, PortMax <- 3, MaxLid <- 4, NoPeer <- "none",
    Listeners <- {"a"}, Linkers <- {"b", "c"}, RemotePorts <- {7, 8},
    SecureSizeQ <- 2, FirstCounters <- {0, 3, 9, 14}, Blocks <- {1, 2, 3}, SecureSends <- 3

LEMMA AcksAssumed == ConnP!AckAssumption /\ ConnP!IdsLast /\ ConnP!CounterAssumption
<1>1. ConnP!AckAssumption /\ ConnP!IdsLast
  BY DEF ConnP!AckAssumption, ConnP!IdsLast
<1>2. ConnP!CounterAssumption
  BY CounterAssumption DEF ConnP!CounterAssumption
<1> QED
  BY <1>1, <1>2

\* The two instances are one.
LEMMA AcksSame ==
    /\ Acks!Init = ConnP!Init
    /\ Acks!Next = ConnP!Next
    /\ Acks!AckMeansReceived = ConnP!AckMeansReceived
    /\ Acks!DeliveredAsBuilt = ConnP!DeliveredAsBuilt
<1> USE DEF Acks!Idle, ConnP!Idle, Acks!Frame, ConnP!Frame, Acks!Tids, ConnP!Tids,
            Acks!Peer, ConnP!Peer
<1>1. Acks!Init = ConnP!Init
  BY DEF Acks!Init, ConnP!Init
<1>2. ASSUME NEW d
      PROVE  Acks!Thread(d) = ConnP!Thread(d)
  BY DEF Acks!Thread, ConnP!Thread, Acks!SendOpt, ConnP!SendOpt, Acks!Fill, ConnP!Fill,
         Acks!PutPort, ConnP!PutPort, Acks!PutTid, ConnP!PutTid, Acks!CountTid,
         ConnP!CountTid, Acks!NextTract, ConnP!NextTract, Acks!PutFlags, ConnP!PutFlags,
         Acks!PutBody, ConnP!PutBody, Acks!SaveTid, ConnP!SaveTid, Acks!RequestAck,
         ConnP!RequestAck, Acks!PutDst, ConnP!PutDst, Acks!Send, ConnP!Send, Acks!Meant,
         ConnP!Meant, Acks!WaitOver, ConnP!WaitOver
<1>3. ASSUME NEW d, NEW f
      PROVE  /\ Acks!LinkReply(d) = ConnP!LinkReply(d)
             /\ Acks!Message(d, f) = ConnP!Message(d, f) /\ Acks!Ack(d, f) = ConnP!Ack(d, f)
             /\ Acks!Stray(f) = ConnP!Stray(f) /\ Acks!Lose(f) = ConnP!Lose(f)
  BY DEF Acks!LinkReply, ConnP!LinkReply, Acks!NextTract, ConnP!NextTract, Acks!Message,
         ConnP!Message, Acks!Ack, ConnP!Ack, Acks!Taken, ConnP!Taken, Acks!Stray,
         ConnP!Stray, Acks!Lose, ConnP!Lose
<1>4. Acks!Next = ConnP!Next
  BY <1>2, <1>3 DEF Acks!Next, ConnP!Next
<1> QED
  BY <1>1, <1>4 DEF Acks!AckMeansReceived, ConnP!AckMeansReceived, Acks!DeliveredAsBuilt,
                    ConnP!DeliveredAsBuilt

\* While the instance runs, its invariant holds.
AcksInv == Is("acks") => ConnP!AckInv

\* What the theorem about acknowledged messages says is what TLC checks
\* (nwk_api.c:376, nwk_QfindSlot).
THEOREM AcksProved == Spec => []AcksTrue
<1>1. Init => AcksInv
  <2> SUFFICES ASSUME Init, Is("acks")
               PROVE  ConnP!AckInv
    BY DEF AcksInv
  <2>1. Acks!Init
    BY DEF Init, Is
  <2> QED
    BY <2>1, AcksSame, AcksAssumed, ConnP!InitAckInv
<1>2. AcksInv /\ [Next]_vars => AcksInv'
  <2> SUFFICES ASSUME AcksInv, [Next]_vars, Is("acks")'
               PROVE  ConnP!AckInv'
    BY DEF AcksInv
  <2>1. CASE Next
    <3>1. Is("acks") /\ Acks!Next
      BY <2>1 DEF Next, Runs, Is
    <3> QED
      BY <3>1, AcksSame, AcksAssumed, ConnP!NextAckInv DEF AcksInv
  <2>2. CASE UNCHANGED vars
    <3>1. Is("acks") /\ UNCHANGED ConnP!vars
      BY <2>2 DEF vars, ackVars, Is, ConnP!vars
    <3> QED
      BY <3>1, AcksAssumed, ConnP!NextAckInv DEF AcksInv
  <2> QED
    BY <2>1, <2>2
<1>3. AcksInv => AcksTrue
  BY AcksSame DEF AcksInv, AcksTrue, ConnP!AckInv, ConnP!SendInv
<1> QED
  BY <1>1, <1>2, <1>3, PTL DEF Spec

\* The instance's numbers are as many as the theorem asks for.
LEMMA TableAssumed == ConnP!Table!TableAssumption /\ ConnP!CounterAssumption
<1>1. ConnP!Table!TableAssumption
  BY DEF ConnP!Table!TableAssumption, ConnP!Table!ConnectionsAssumption
<1> QED
  BY <1>1, AcksAssumed

\* The two instances are one.
LEMMA TableSame ==
    /\ Table!Init = ConnP!Table!Init
    /\ Table!Next = ConnP!Table!Next
    /\ Table!IdsIdentify = ConnP!Table!IdsIdentify
    /\ Table!FramesIdentify = ConnP!Table!FramesIdentify
    /\ Table!AskedPortsApart = ConnP!Table!AskedPortsApart
    /\ Table!MarkersInBounds = ConnP!Table!MarkersInBounds
<1>1. /\ Table!ConnIdx = ConnP!Table!ConnIdx /\ Table!LinkIds = ConnP!Table!LinkIds
      /\ \A S : Table!Min(S) = ConnP!Table!Min(S)
  BY DEF Table!ConnIdx, ConnP!Table!ConnIdx, Table!LinkIds, ConnP!Table!LinkIds,
         Table!Min, ConnP!Table!Min
<1>2. /\ \A S : Table!First(S) = ConnP!Table!First(S)
      /\ \A t : Table!Connected(t) = ConnP!Table!Connected(t)
  BY <1>1 DEF Table!First, ConnP!Table!First, Table!Connected, ConnP!Table!Connected
<1>3. /\ \A t : Table!NextConnection(t) = ConnP!Table!NextConnection(t)
      /\ \A t, lid : Table!ConnOf(t, lid) = ConnP!Table!ConnOf(t, lid)
      /\ \A t, p, r : Table!ConnTo(t, p, r) = ConnP!Table!ConnTo(t, p, r)
      /\ \A t, p, r : Table!Accepting(t, p, r) = ConnP!Table!Accepting(t, p, r)
  BY <1>1, <1>2 DEF Table!NextConnection, ConnP!Table!NextConnection, Table!ConnOf,
     ConnP!Table!ConnOf, Table!ConnTo, ConnP!Table!ConnTo, Table!Accepting,
     ConnP!Table!Accepting
<1>4. ASSUME NEW t, NEW c
      PROVE  /\ Table!InitializeConn(t, c) = ConnP!Table!InitializeConn(t, c)
             /\ Table!FreeConnection(t, c) = ConnP!Table!FreeConnection(t, c)
  <2>1. \A u, id : Table!FreshLid(u, id) = ConnP!Table!FreshLid(u, id)
    BY <1>1, <1>2 DEF Table!FreshLid, ConnP!Table!FreshLid, Table!After, ConnP!Table!After
  <2> QED
    BY <2>1 DEF Table!InitializeConn, ConnP!Table!InitializeConn, Table!FreeConnection,
                ConnP!Table!FreeConnection
<1>5. \A t, which, c : Table!Markers(t, which, c) = ConnP!Table!Markers(t, which, c)
  BY <1>2 DEF Table!Markers, ConnP!Table!Markers
<1>6. ASSUME NEW t, NEW which, NEW c
      PROVE  Table!AllocatePort(t, which, c) = ConnP!Table!AllocatePort(t, which, c)
  <2>1. Table!Port(t, which, c) = ConnP!Table!Port(t, which, c)
    BY <1>1, <1>5 DEF Table!Port, ConnP!Table!Port
  <2> QED
    BY <2>1 DEF Table!AllocatePort, ConnP!Table!AllocatePort
<1>7. ASSUME NEW t
      PROVE  /\ Table!AskForLink(t) = ConnP!Table!AskForLink(t)
             /\ \A p, r : Table!AcceptLink(t, p, r) = ConnP!Table!AcceptLink(t, p, r)
  <2>1. Table!AskForLink(t) = ConnP!Table!AskForLink(t)
    BY <1>3, <1>4, <1>6 DEF Table!AskForLink, ConnP!Table!AskForLink
  <2>2. ASSUME NEW p, NEW r
        PROVE  Table!AcceptLink(t, p, r) = ConnP!Table!AcceptLink(t, p, r)
    BY <1>3, <1>4, <1>6 DEF Table!AcceptLink, ConnP!Table!AcceptLink
  <2> QED
    BY <2>1, <2>2
<1>8. Table!Init = ConnP!Table!Init
  BY <1>1 DEF Table!Init, ConnP!Table!Init, Table!TableInit, ConnP!Table!TableInit,
     Table!FreeConn, ConnP!Table!FreeConn
<1>9. Table!Next = ConnP!Table!Next
  <2>1. Table!Ask = ConnP!Table!Ask /\ Table!TimedOut = ConnP!Table!TimedOut
    BY <1>3, <1>4, <1>7 DEF Table!Ask, ConnP!Table!Ask, Table!TimedOut,
       ConnP!Table!TimedOut
  <2>2. /\ \A p, r : Table!Concluded(p, r) = ConnP!Table!Concluded(p, r)
        /\ \A p, r : Table!Accept(p, r) = ConnP!Table!Accept(p, r)
        /\ \A lid : Table!Delete(lid) = ConnP!Table!Delete(lid)
    BY <1>3, <1>4, <1>7 DEF Table!Concluded, ConnP!Table!Concluded, Table!Accept,
       ConnP!Table!Accept, Table!Delete, ConnP!Table!Delete
  <2> QED
    BY <1>1, <2>1, <2>2 DEF Table!Next, ConnP!Table!Next
<1> QED
  BY <1>2, <1>3, <1>5, <1>8, <1>9 DEF Table!IdsIdentify, ConnP!Table!IdsIdentify,
     Table!FramesIdentify, ConnP!Table!FramesIdentify, Table!AskedPortsApart,
     ConnP!Table!AskedPortsApart, Table!MarkersInBounds, ConnP!Table!MarkersInBounds

\* While the instance runs, its invariant holds.
RunningTableInv == Is("table") => ConnP!TableInv

\* What the theorem about the connection table says is what TLC checks (nwk.c:281,
\* nwk_allocateLocalRxPort).
THEOREM TableProved == Spec => []TableSound
<1>1. Init => RunningTableInv
  <2> SUFFICES ASSUME Init, Is("table")
               PROVE  ConnP!TableInv
    BY DEF RunningTableInv
  <2>1. Table!Init
    BY DEF Init, Is
  <2> QED
    BY <2>1, TableSame, TableAssumed, ConnP!InitTableInv
<1>2. RunningTableInv /\ [Next]_vars => RunningTableInv'
  <2> SUFFICES ASSUME RunningTableInv, [Next]_vars, Is("table")'
               PROVE  ConnP!TableInv'
    BY DEF RunningTableInv
  <2>1. CASE Next
    <3>1. Is("table") /\ Table!Next
      BY <2>1 DEF Next, Runs, Is
    <3> QED
      BY <3>1, TableSame, TableAssumed, ConnP!NextTableInv DEF RunningTableInv
  <2>2. CASE UNCHANGED vars
    <3>1. Is("table") /\ UNCHANGED ConnP!Table!vars
      BY <2>2 DEF vars, tableVars, Is, ConnP!Table!vars
    <3> QED
      BY <3>1, TableAssumed, ConnP!NextTableInv DEF RunningTableInv
  <2> QED
    BY <2>1, <2>2
<1>3. RunningTableInv => TableSound
  BY TableSame, TableAssumed, ConnP!TableInvSound DEF RunningTableInv, TableSound
<1> QED
  BY <1>1, <1>2, <1>3, PTL DEF Spec

(***************************************************************************)
(* Enciphered messages.                                                    *)
(***************************************************************************)

LEMMA SecureAssumed ==
    /\ ConnP!Secure!LinkAssumption /\ ConnP!Secure!CountersLast /\ ConnP!CounterAssumption
<1>1. ConnP!Secure!LinkAssumption /\ ConnP!Secure!CountersLast
  BY Instances DEF Secure!LinkAssumption, Secure!CountersLast, ConnP!Secure!LinkAssumption,
     ConnP!Secure!CountersLast, Secure!Counters, ConnP!Secure!Counters
<1> QED
  BY <1>1, AcksAssumed

\* The two instances are one.
LEMMA SecureSame ==
    /\ Secure!Init = ConnP!Secure!Init
    /\ Secure!Next = ConnP!Secure!Next
    /\ Secure!OpenedInOrder = ConnP!Secure!OpenedInOrder
    /\ Secure!MissedOpens = ConnP!Secure!MissedOpens
<1> USE DEF Secure!Advance, ConnP!Secure!Advance, Secure!Hint, ConnP!Secure!Hint,
       Secure!CtrWindow, ConnP!Secure!CtrWindow
<1>1. \A a, b : Secure!Opens(a, b) = ConnP!Secure!Opens(a, b)
  BY DEF Secure!Opens, ConnP!Secure!Opens, Secure!Guess, ConnP!Secure!Guess,
     Secure!WithinWindow, ConnP!Secure!WithinWindow
<1>2. Secure!Init = ConnP!Secure!Init
  BY DEF Secure!Init, ConnP!Secure!Init
<1>3. ASSUME NEW blocks
      PROVE  Secure!Send(blocks) = ConnP!Secure!Send(blocks)
  BY DEF Secure!Send, ConnP!Secure!Send
<1>4. ASSUME NEW m
      PROVE  Secure!Receive(m) = ConnP!Secure!Receive(m)
                /\ Secure!Lose(m) = ConnP!Secure!Lose(m)
  BY DEF Secure!Receive, ConnP!Secure!Receive, Secure!Lose, ConnP!Secure!Lose
<1>5. Secure!Retrieve = ConnP!Secure!Retrieve
  BY <1>1 DEF Secure!Retrieve, ConnP!Secure!Retrieve
<1>6. Secure!Next = ConnP!Secure!Next
  BY <1>3, <1>4, <1>5 DEF Secure!Next, ConnP!Secure!Next
<1>7. Secure!OpenedInOrder = ConnP!Secure!OpenedInOrder
  BY DEF Secure!OpenedInOrder, ConnP!Secure!OpenedInOrder
<1>8. Secure!MissedOpens = ConnP!Secure!MissedOpens
  BY <1>1 DEF Secure!MissedOpens, ConnP!Secure!MissedOpens, Secure!InQueue,
     ConnP!Secure!InQueue, Secure!Position, ConnP!Secure!Position
<1> QED
  BY <1>2, <1>6, <1>7, <1>8

SecureInv == Is("secure") => ConnP!LinkInv

\* What the theorems about enciphered messages say is what TLC checks
\* (nwk_getSecureFrame).
THEOREM SecureProved == Spec => []SecureInOrder
<1>1. Init => SecureInv
  <2> SUFFICES ASSUME Init, Is("secure")
               PROVE  ConnP!LinkInv
    BY DEF SecureInv
  <2>1. Secure!Init
    BY DEF Init, Is
  <2> QED
    BY <2>1, SecureSame, SecureAssumed, ConnP!InitLinkInv
<1>2. SecureInv /\ [Next]_vars => SecureInv'
  <2> SUFFICES ASSUME SecureInv, [Next]_vars, Is("secure")'
               PROVE  ConnP!LinkInv'
    BY DEF SecureInv
  <2>1. CASE Next
    <3>1. Is("secure") /\ Secure!Next
      BY <2>1 DEF Next, Runs, Is
    <3> QED
      BY <3>1, SecureSame, SecureAssumed, ConnP!NextLinkInv DEF SecureInv
  <2>2. CASE UNCHANGED vars
    <3>1. Is("secure") /\ UNCHANGED ConnP!Secure!vars
      BY <2>2 DEF vars, secureVars, Is, ConnP!Secure!vars
    <3> QED
      BY <3>1, SecureAssumed, ConnP!NextLinkInv DEF SecureInv
  <2> QED
    BY <2>1, <2>2
<1>3. SecureInv => SecureInOrder
  BY SecureSame, SecureAssumed, ConnP!MissedFew DEF SecureInv, SecureInOrder,
     ConnP!LinkInv
<1> QED
  BY <1>1, <1>2, <1>3, PTL DEF Spec

(***************************************************************************)
(* Pings.                                                                  *)
(***************************************************************************)

LEMMA PingAssumed == PingChannels \in SUBSET Nat /\ PingQueue \in Nat /\ PingQueue # 0
  BY Instances DEF Pings!PingAssumption

PingTypes ==
    /\ where \in [{"ap"} -> PingChannels] /\ chan \in PingChannels
    /\ pingThread \in [pc : {"idle", "next", "wait"}, peer : {"ap", "none"}, repeat : {0, 1},
                       todo : SUBSET PingChannels,
                       result : {"none", "success", "timeout", "nochannel"}]
    /\ pingThread.pc # "idle" => pingThread.peer = "ap" /\ pingThread.result = "none"
    /\ gone \in BOOLEAN

\* The one frame there may be, on its way there or back, or kept.
PingFrame(type) == [type |-> type, dst |-> "ap", to |-> "ap", tid |-> tid]

PingCourse ==
    \/ pingAir = {} /\ pingInq = <<>>
    \/ /\ pingThread.pc = "wait" /\ where["ap"] = chan
       /\ \/ pingAir = {PingFrame("ping")} /\ pingInq = <<>>
          \/ /\ <<"ap", chan>> \in pingAnswered
             /\ \/ pingAir = {PingFrame("reply")} /\ pingInq = <<>>
                \/ pingAir = {} /\ pingInq = <<"ap">>

\* Unless something was lost, the channel of the access point is still to come.
PingMissed ==
    ~gone =>
        /\ pingThread.pc = "wait" /\ where["ap"] = chan => pingAir # {} \/ pingInq # <<>>
        /\ pingThread.pc # "idle" /\ pingThread.repeat = 0
              => where["ap"] \in pingThread.todo
                    \/ (pingThread.pc = "wait" /\ where["ap"] = chan)
        /\ pingThread.result \notin {"timeout", "nochannel"}

PingSucceeds == pingThread.result = "success" => <<"ap", chan>> \in pingAnswered

PingInv == PingTypes /\ PingCourse /\ PingMissed /\ PingSucceeds

LEMMA InitPingInv ==
    ASSUME Pings!Init
    PROVE  PingInv
<1>1. PingTypes
  BY DEF Pings!Init, Pings!None, PingTypes
<1>2. PingCourse /\ PingMissed /\ PingSucceeds
  BY DEF Pings!Init, Pings!None, PingCourse, PingMissed, PingSucceeds
<1> QED
  BY <1>1, <1>2 DEF PingInv

LEMMA CallPing ==
    ASSUME PingInv, NEW p \in {"ap"}, Pings!Ping(p)
    PROVE  PingInv'
<1> USE DEF PingInv
<1>1. PingTypes'
  BY DEF PingTypes, Pings!Ping, Pings!None
<1>2. PingCourse' /\ PingMissed' /\ PingSucceeds'
  BY DEF PingTypes, PingCourse, PingMissed, PingSucceeds, Pings!Ping, Pings!None
<1> QED
  BY <1>1, <1>2

\* The next channel is one of those to do.
LEMMA NextChannel ==
    ASSUME NEW S \in SUBSET PingChannels, S # {}
    PROVE  Pings!Min(S) \in S
<1>1. PICK x \in S : \A y \in S : x <= y
  BY PingAssumed, LeastNumber
<1> QED
  BY <1>1 DEF Pings!Min

LEMMA SendsPing ==
    ASSUME PingInv, Pings!SendPing
    PROVE  PingInv'
<1> USE DEF PingInv
<1> DEFINE k == Pings!Min(pingThread.todo)
<1>1. /\ pingThread.pc = "next" /\ pingThread.todo # {}
      /\ pingThread.peer = "ap" /\ pingThread.result = "none"
      /\ pingThread.todo \in SUBSET PingChannels
  BY DEF PingTypes, Pings!SendPing
<1>2. k \in pingThread.todo /\ k \in PingChannels
  BY <1>1, NextChannel
<1>3. pingAir = {} /\ pingInq = <<>>
  BY <1>1 DEF PingCourse
<1>4. /\ chan' = k
      /\ pingThread' = [pingThread EXCEPT !.pc = "wait", !.todo = pingThread.todo \ {k}]
      /\ UNCHANGED <<where, tid, pingInq, pings, lost, pingAnswered, start, gone>>
  BY DEF Pings!SendPing
<1>5. pingAir' = IF where["ap"] = k THEN {PingFrame("ping")} ELSE {}
  <2>1. pingAir' = pingAir \cup {[type |-> "ping", dst |-> pingThread.peer, to |-> d,
            tid |-> tid] : d \in {e \in {pingThread.peer} \cup {"ap"} : where[e] = k}}
    BY DEF Pings!SendPing
  <2> QED
    BY <1>1, <1>3, <2>1 DEF PingFrame
<1>6. PingTypes'
  BY <1>1, <1>2, <1>4 DEF PingTypes
<1>7. PingCourse'
  BY <1>1, <1>3, <1>4, <1>5 DEF PingCourse, PingTypes, PingFrame
<1>8. PingMissed'
  <2>1. pingThread'.repeat = pingThread.repeat /\ pingThread'.todo = pingThread.todo \ {k}
           /\ pingThread'.pc = "wait" /\ pingThread'.result = "none"
    BY <1>1, <1>4 DEF PingTypes
  <2>2. ~gone /\ pingThread.repeat = 0 => where["ap"] \in pingThread.todo
    BY <1>1 DEF PingMissed
  <2>3. where["ap"] = k => pingAir' # {}
    BY <1>5
  <2>4. where' = where /\ chan' = k /\ gone' = gone
    BY <1>4
  <2>5. ~gone /\ pingThread.repeat = 0
            => where["ap"] \in pingThread'.todo \/ where["ap"] = k
    BY <2>1, <2>2
  <2>6. where'["ap"] = chan' => pingAir' # {}
    BY <2>3, <2>4
  <2>7. ~gone' /\ pingThread'.repeat = 0
            => where'["ap"] \in pingThread'.todo \/ where'["ap"] = chan'
    BY <2>1, <2>4, <2>5
  <2> QED
    BY <2>1, <2>6, <2>7 DEF PingMissed
<1>9. PingSucceeds'
  BY <1>1, <1>4 DEF PingSucceeds, PingTypes
<1> QED
  BY <1>6, <1>7, <1>8, <1>9

LEMMA ReadsReply ==
    ASSUME PingInv, Pings!ReadReply
    PROVE  PingInv'
<1> USE DEF PingInv
<1>1. /\ pingAir = {} /\ pingInq = <<"ap">> /\ <<"ap", chan>> \in pingAnswered
      /\ pingThread.pc = "wait"
  BY DEF PingCourse, Pings!ReadReply
<1>2. pingInq' = <<>>
  <2>1. pingInq' = Tail(<<"ap">>)
    BY <1>1 DEF Pings!ReadReply
  <2> QED
    BY <2>1
<1>3. /\ pingThread' = [pingThread EXCEPT !.pc = "idle", !.todo = {}, !.result = "success"]
      /\ UNCHANGED <<where, chan, pingAir, pings, lost, pingAnswered, start, gone>>
  BY DEF Pings!ReadReply, Pings!Returns
<1>4. PingTypes'
  BY <1>3 DEF PingTypes
<1>5. PingCourse' /\ PingMissed' /\ PingSucceeds'
  BY <1>1, <1>2, <1>3 DEF PingCourse, PingMissed, PingSucceeds, PingTypes
<1> QED
  BY <1>4, <1>5

LEMMA WaitsInVain ==
    ASSUME PingInv, Pings!NoReply \/ Pings!Rescan \/ Pings!GiveUp
    PROVE  PingInv'
<1> USE DEF PingInv
<1>1. CASE Pings!NoReply
  BY <1>1 DEF Pings!NoReply, PingTypes, PingCourse, PingMissed, PingSucceeds
<1>2. CASE Pings!Rescan
  <2>1. PICK found \in SUBSET {where[d] : d \in {"ap"}} :
             /\ IF found = {} THEN Pings!Returns("nochannel")
                ELSE pingThread' = [pingThread EXCEPT !.repeat = 0, !.todo = found]
             /\ gone' = (gone \/ found # {where[d] : d \in {"ap"}})
    BY <1>2 DEF Pings!Rescan
  <2>2. /\ pingThread.pc = "next" /\ pingThread.peer = "ap" /\ pingThread.result = "none"
        /\ UNCHANGED <<where, chan, tid, pingInq, pingAir, pings, lost, pingAnswered, start>>
    BY <1>2 DEF Pings!Rescan, PingTypes
  <2>3. found = {} \/ found = {where["ap"]}
    OBVIOUS
  <2>4. CASE found = {}
    <3>1. gone' = TRUE
             /\ pingThread' = [pingThread EXCEPT !.pc = "idle", !.todo = {},
                                  !.result = "nochannel"]
      BY <2>1, <2>4 DEF Pings!Returns
    <3>2. PingTypes'
      BY <2>2, <3>1 DEF PingTypes
    <3>3. PingCourse' /\ PingMissed' /\ PingSucceeds'
      BY <2>2, <3>1 DEF PingTypes, PingCourse, PingMissed, PingSucceeds
    <3> QED
      BY <3>2, <3>3
  <2>5. CASE found = {where["ap"]}
    <3>1. gone' = gone
             /\ pingThread' = [pingThread EXCEPT !.repeat = 0, !.todo = {where["ap"]}]
      BY <2>1, <2>5 DEF PingTypes
    <3>2. PingTypes'
      BY <2>2, <3>1 DEF PingTypes
    <3>3. /\ pingThread'.pc = "next" /\ pingThread'.todo = {where["ap"]}
          /\ pingThread'.result = "none"
      BY <2>2, <3>1 DEF PingTypes
    <3>4. PingCourse'
      BY <2>2 DEF PingCourse
    <3>5. where'["ap"] \in pingThread'.todo
      BY <2>2, <3>3
    <3>6. PingMissed' /\ PingSucceeds'
      BY <3>3, <3>5 DEF PingMissed, PingSucceeds
    <3> QED
      BY <3>2, <3>4, <3>6
  <2> QED
    BY <2>3, <2>4, <2>5
<1>3. CASE Pings!GiveUp
  <2>1. /\ pingThread.pc = "next" /\ pingThread.todo = {} /\ pingThread.repeat = 0
        /\ pingThread' = [pingThread EXCEPT !.pc = "idle", !.todo = {}, !.result = "timeout"]
        /\ UNCHANGED <<where, chan, tid, pingInq, pingAir, pings, lost, pingAnswered, start,
                       gone>>
    BY <1>3 DEF Pings!GiveUp, Pings!Returns
  <2>2. gone = TRUE
    BY <2>1 DEF PingTypes, PingMissed
  <2>3. PingTypes'
    BY <2>1 DEF PingTypes
  <2>4. PingCourse' /\ PingMissed' /\ PingSucceeds'
    BY <2>1, <2>2 DEF PingTypes, PingCourse, PingMissed, PingSucceeds
  <2> QED
    BY <2>3, <2>4
<1> QED
  BY <1>1, <1>2, <1>3

LEMMA FrameMoves ==
    ASSUME PingInv, NEW m \in pingAir, Pings!Answer(m) \/ Pings!Reply(m) \/ Pings!Lose(m)
    PROVE  PingInv'
<1> USE DEF PingInv
<1>1. /\ pingThread.pc = "wait" /\ where["ap"] = chan /\ pingInq = <<>>
      /\ pingThread.peer = "ap" /\ pingThread.result = "none"
      /\ pingAir = {m}
      /\ \/ m = PingFrame("ping")
         \/ m = PingFrame("reply") /\ <<"ap", chan>> \in pingAnswered
  BY DEF PingCourse, PingTypes
<1>2. CASE Pings!Answer(m)
  <2>1. m = PingFrame("ping")
    BY <1>1, <1>2 DEF Pings!Answer, PingFrame
  <2>2. /\ pingAir' = {PingFrame("reply")} /\ <<"ap", chan>> \in pingAnswered'
        /\ UNCHANGED <<where, chan, tid, pingInq, pingThread, pings, lost, start, gone>>
    BY <1>1, <1>2, <2>1 DEF Pings!Answer, PingFrame
  <2>3. PingTypes'
    BY <2>2 DEF PingTypes
  <2>4. PingCourse' /\ PingMissed' /\ PingSucceeds'
    BY <1>1, <2>2 DEF PingCourse, PingMissed, PingSucceeds, PingFrame
  <2> QED
    BY <2>3, <2>4
<1>3. CASE Pings!Reply(m)
  <2>1. m = PingFrame("reply") /\ <<"ap", chan>> \in pingAnswered
    BY <1>1, <1>3 DEF Pings!Reply, PingFrame
  <2>2. Pings!IsMine(m) /\ m.to = "ap"
    BY <1>1, <2>1 DEF Pings!IsMine, PingFrame
  <2>3. /\ pingAir' = {} /\ pingInq' = <<"ap">>
        /\ UNCHANGED <<where, chan, tid, pingThread, pings, lost, pingAnswered, start, gone>>
    <3>1. pingAir' = pingAir \ {m}
             /\ pingInq' = Append(IF Len(pingInq) = PingQueue THEN Tail(pingInq)
                                     ELSE pingInq, m.to)
      BY <1>3, <2>2 DEF Pings!Reply
    <3>2. Len(pingInq) # PingQueue /\ Append(pingInq, m.to) = <<"ap">>
      BY <1>1, <2>2, PingAssumed
    <3> QED
      BY <1>1, <1>3, <3>1, <3>2 DEF Pings!Reply
  <2>4. PingTypes'
    BY <2>3 DEF PingTypes
  <2>5. PingCourse' /\ PingMissed' /\ PingSucceeds'
    BY <1>1, <2>1, <2>3 DEF PingCourse, PingMissed, PingSucceeds, PingFrame
  <2> QED
    BY <2>4, <2>5
<1>4. CASE Pings!Lose(m)
  <2>1. /\ pingAir' = {} /\ gone' = TRUE
        /\ UNCHANGED <<where, chan, tid, pingInq, pingThread, pings, pingAnswered, start>>
    BY <1>1, <1>4 DEF Pings!Lose
  <2>2. PingTypes'
    BY <2>1 DEF PingTypes
  <2>3. PingCourse' /\ PingMissed' /\ PingSucceeds'
    BY <1>1, <2>1 DEF PingCourse, PingMissed, PingSucceeds
  <2> QED
    BY <2>2, <2>3
<1> QED
  BY <1>2, <1>3, <1>4

LEMMA NextPingInv ==
    ASSUME PingInv, [Pings!Next]_(Pings!vars)
    PROVE  PingInv'
<1>1. CASE Pings!Next
  BY <1>1, CallPing, SendsPing, ReadsReply, WaitsInVain, FrameMoves DEF Pings!Next
<1>2. CASE UNCHANGED Pings!vars
  BY <1>2 DEF Pings!vars, PingInv, PingTypes, PingCourse, PingMissed, PingSucceeds, PingFrame
<1> QED
  BY <1>1, <1>2

\* One frame at a time is on its way, and the channel of the access point is not passed by
\* (nwk_ping.c).
THEOREM PingProved == Spec => []PingTrue
<1> DEFINE Held == Is("pings") => PingInv
<1>1. Init => Held
  BY InitPingInv DEF Init, Is
<1>2. Held /\ [Next]_vars => Held'
  <2>1. [Next]_vars /\ Is("pings")' => Is("pings") /\ [Pings!Next]_(Pings!vars)
    BY DEF Next, Runs, Is, vars, pingVars, Pings!vars
  <2> QED
    BY <2>1, NextPingInv
<1>3. Held => PingTrue
  <2>1. PingInv => Pings!AnsweredHere
    BY DEF PingInv, PingSucceeds, Pings!AnsweredHere
  <2>2. PingInv => Pings!FailsOnlyIfAway
    BY DEF PingInv, PingMissed, Pings!FailsOnlyIfAway
  <2> QED
    BY <2>1, <2>2 DEF PingTrue
<1> QED
  BY <1>1, <1>2, <1>3, PTL DEF Spec

(***************************************************************************)
(* The queue of an access point that stores and forwards, of any size.     *)
(***************************************************************************)

Inq(n) == INSTANCE FrameSlots WITH SizeQ <- n

\* n slots with stamps, whatever the frames; the interrupt marks none of them.
IsInq(q, n) ==
    /\ q = [s \in 1..n |-> q[s]]
    /\ \A s \in 1..n :
         /\ q[s] = [usage |-> q[s].usage, stamp |-> q[s].stamp, frame |-> q[s].frame]
         /\ q[s].usage \in {"available", "until_fwd"} /\ q[s].stamp \in Nat

LEMMA InqFinite ==
    ASSUME NEW n \in Nat, NEW S \in SUBSET (1..n)
    PROVE  /\ IsFiniteSet(S) /\ Cardinality(S) \in 0..n
           /\ Cardinality(S) = n => S = 1..n
<1>1. IsFiniteSet(1..n) /\ Cardinality(1..n) = n
  BY FS_Interval
<1>2. IsFiniteSet(S) /\ Cardinality(S) <= n /\ (Cardinality(1..n) = Cardinality(S) => 1..n = S)
  BY <1>1, FS_Subset
<1> QED
  BY <1>1, <1>2, FS_CardinalityType

LEMMA LastSlot ==
    ASSUME NEW n \in Nat, NEW S \in SUBSET (1..n), S # {}
    PROVE  Inq(n)!Max(S) \in S
<1> DEFINE T == {n - s : s \in S}
<1>1. T \in SUBSET Nat /\ T # {}
  <2>1. \A s \in S : n - s \in Nat
    OBVIOUS
  <2> QED
    BY <2>1
<1>2. PICK m \in T : \A k \in T : m <= k
  BY <1>1, LeastNumber
<1>3. PICK x \in S : m = n - x
  BY <1>2
<1>4. ASSUME NEW y \in S
      PROVE  x >= y
  <2>1. m <= n - y /\ x \in Int /\ y \in Int
    BY <1>2
  <2> QED
    BY <1>3, <2>1
<1> QED
  BY <1>4 DEF Inq!Max

\* The oldest of some slots is one of them, and none has a lesser stamp.
LEMMA OldestSlot ==
    ASSUME NEW n \in Nat, NEW q, IsInq(q, n), NEW S \in SUBSET (1..n), S # {}
    PROVE  /\ Inq(n)!OldestOf(q, S) \in S
           /\ \A r \in S : q[Inq(n)!OldestOf(q, S)].stamp <= q[r].stamp
<1>1. \A s \in S : s \in Nat /\ q[s].stamp \in Nat
  BY DEF IsInq
<1> DEFINE T == {q[s].stamp : s \in S}
<1>8. T \in SUBSET Nat /\ T # {}
  BY <1>1
<1>2. PICK m \in T : \A k \in T : m <= k
  BY <1>8, LeastNumber
<1> DEFINE U == {s \in S : q[s].stamp = m}
<1>3. U \in SUBSET Nat /\ U # {}
  BY <1>1, <1>2
<1>4. PICK x \in U : \A k \in U : x <= k
  BY <1>3, LeastNumber
<1> DEFINE First(s) == \A r \in S : \/ q[s].stamp < q[r].stamp
                                    \/ q[s].stamp = q[r].stamp /\ s <= r
<1>5. First(x)
  <2> SUFFICES ASSUME NEW r \in S
               PROVE  q[x].stamp < q[r].stamp \/ (q[x].stamp = q[r].stamp /\ x <= r)
    OBVIOUS
  <2>1. m <= q[r].stamp /\ m \in Nat /\ q[r].stamp \in Nat /\ q[x].stamp = m
    BY <1>1, <1>2, <1>4
  <2>2. q[r].stamp = m => x <= r
    BY <1>4
  <2> QED
    BY <2>1, <2>2
<1>6. Inq(n)!OldestOf(q, S) = CHOOSE s \in S : First(s)
  BY DEF Inq!OldestOf
<1>7. Inq(n)!OldestOf(q, S) \in S /\ First(Inq(n)!OldestOf(q, S))
  <2> HIDE DEF First
  <2> QED
    BY <1>4, <1>5, <1>6
<1> DEFINE o == Inq(n)!OldestOf(q, S)
<1> HIDE DEF o
<1>9. o \in S /\ \A r \in S : q[o].stamp < q[r].stamp \/ q[o].stamp = q[r].stamp
  BY <1>7 DEF o
<1>10. \A r \in S : q[o].stamp <= q[r].stamp
  BY <1>1, <1>9
<1> QED
  BY <1>9, <1>10 DEF o

\* nwk_QadjustOrder, slot by slot.
LEMMA AdjustedInq ==
    ASSUME NEW n \in Nat, NEW q, IsInq(q, n), NEW stamp \in Nat
    PROVE  /\ IsInq(Inq(n)!AdjustOrder(q, stamp), n)
           /\ \A s \in 1..n :
                /\ Inq(n)!AdjustOrder(q, stamp)[s].usage = q[s].usage
                /\ Inq(n)!AdjustOrder(q, stamp)[s].frame = q[s].frame
                /\ Inq(n)!AdjustOrder(q, stamp)[s].stamp =
                       IF s \in Inq(n)!InUse(q) /\ q[s].stamp > stamp THEN q[s].stamp - 1
                       ELSE q[s].stamp
<1> DEFINE a == Inq(n)!AdjustOrder(q, stamp)
<1>1. a = [s \in 1..n |-> IF s \in Inq(n)!InUse(q) /\ q[s].stamp > stamp
                          THEN [q[s] EXCEPT !.stamp = @ - 1] ELSE q[s]]
  BY DEF Inq!AdjustOrder, Inq!Slots
<1> HIDE DEF a
<1>2. ASSUME NEW s \in 1..n
      PROVE  /\ a[s] = [usage |-> a[s].usage, stamp |-> a[s].stamp, frame |-> a[s].frame]
             /\ a[s].usage = q[s].usage /\ a[s].frame = q[s].frame /\ a[s].stamp \in Nat
             /\ a[s].stamp = IF s \in Inq(n)!InUse(q) /\ q[s].stamp > stamp
                             THEN q[s].stamp - 1 ELSE q[s].stamp
  <2> DEFINE old == q[s]
  <2>1. old = [usage |-> old.usage, stamp |-> old.stamp, frame |-> old.frame]
        /\ old.stamp \in Nat
    BY DEF IsInq
  <2>2. a[s] = IF s \in Inq(n)!InUse(q) /\ old.stamp > stamp
               THEN [old EXCEPT !.stamp = old.stamp - 1] ELSE old
    BY <1>1
  <2> HIDE DEF old
  <2>3. CASE s \in Inq(n)!InUse(q) /\ old.stamp > stamp
    <3>1. a[s] = [usage |-> old.usage, stamp |-> old.stamp - 1, frame |-> old.frame]
      BY <2>1, <2>2, <2>3
    <3> QED
      BY <2>1, <2>3, <3>1 DEF old
  <2>4. CASE ~(s \in Inq(n)!InUse(q) /\ old.stamp > stamp)
    BY <2>1, <2>2, <2>4 DEF old
  <2> QED
    BY <2>3, <2>4
<1>3. a = [s \in 1..n |-> a[s]]
  BY <1>1
<1>4. IsInq(a, n)
  BY <1>2, <1>3 DEF IsInq
<1> QED
  BY <1>2, <1>4 DEF a

\* nwk_QfindSlot finds a slot, one in use only if all are, and then the oldest.
LEMMA SlotIsFound ==
    ASSUME NEW n \in Nat \ {0}, NEW q, IsInq(q, n)
    PROVE  LET f == Inq(n)!SlotFound(q)
           IN  /\ f \in 1..n
               /\ q[f].usage # "available" =>
                     \A s \in 1..n : q[s].usage # "available" /\ q[f].stamp <= q[s].stamp
<1>1. Inq(n)!InUse(q) = {s \in 1..n : q[s].usage # "available"}
  BY DEF Inq!InUse, Inq!Slots
<1>2. CASE Inq(n)!InUse(q) # 1..n
  <2> DEFINE S == (1..n) \ Inq(n)!InUse(q)
  <2>1. S \in SUBSET (1..n) /\ S # {}
    BY <1>1, <1>2
  <2>2. Inq(n)!SlotFound(q) \in S
    BY <1>2, <2>1, LastSlot DEF Inq!SlotFound, Inq!Slots
  <2> QED
    BY <1>1, <2>2
<1>3. CASE Inq(n)!InUse(q) = 1..n
  <2>1. Inq(n)!Castable(q) = 1..n
    BY <1>3 DEF Inq!Castable, IsInq
  <2>2. 1..n # {}
    OBVIOUS
  <2>3. Inq(n)!SlotFound(q) = Inq(n)!OldestOf(q, 1..n)
    BY <1>3, <2>1, <2>2 DEF Inq!SlotFound, Inq!Slots
  <2>4. \A s \in 1..n : q[s].usage # "available"
    BY <1>1, <1>3
  <2> QED
    BY <2>2, <2>3, <2>4, OldestSlot
<1> QED
  BY <1>2, <1>3

\* The frame that comes in has the slot's usage and the greatest stamp.
Taking(q, f, n) ==
    [Inq(n)!Stamped(q, Inq(n)!SlotFound(q)) EXCEPT ![Inq(n)!SlotFound(q)].frame = f]

LEMMA TakenSlot ==
    ASSUME NEW n \in Nat \ {0}, NEW q, IsInq(q, n), NEW f
    PROVE  LET t == Taking(q, f, n)
               x == Inq(n)!SlotFound(q)
               full == q[x].usage # "available"
           IN  /\ IsInq(t, n)
               /\ \A s \in 1..n :
                    /\ t[s].usage = q[s].usage
                    /\ t[s].frame = IF s = x THEN f ELSE q[s].frame
                    /\ t[s].stamp = IF s = x
                                    THEN IF full THEN n ELSE Cardinality(Inq(n)!InUse(q)) + 1
                                    ELSE IF full /\ q[s].stamp > q[x].stamp
                                    THEN q[s].stamp - 1 ELSE q[s].stamp
<1> DEFINE t == Taking(q, f, n)
           x == Inq(n)!SlotFound(q)
           full == q[x].usage # "available"
           a == Inq(n)!AdjustOrder(q, q[x].stamp)
           c == Cardinality(Inq(n)!InUse(q))
<1>1. x \in 1..n /\ (full => \A s \in 1..n : q[s].usage # "available")
  BY SlotIsFound
<1>2. Inq(n)!InUse(q) = {s \in 1..n : q[s].usage # "available"}
  BY DEF Inq!InUse, Inq!Slots
<1>3. c \in Nat
  <2>1. Inq(n)!InUse(q) \in SUBSET (1..n)
    BY <1>2
  <2> QED
    BY <2>1, InqFinite
<1>4. x \in Inq(n)!InUse(q) <=> full
  BY <1>1, <1>2
<1>5. Inq(n)!Stamped(q, x) = IF full THEN [a EXCEPT ![x].stamp = n]
                                     ELSE [q EXCEPT ![x].stamp = c + 1]
  <2>1. Inq(n)!Cardinality(Inq(n)!InUse(q)) = c
    BY DEF Inq!Cardinality, Cardinality
  <2> QED
    BY <1>4, <2>1 DEF Inq!Stamped
<1>6. t = [Inq(n)!Stamped(q, x) EXCEPT ![x].frame = f]
  BY DEF Taking
<1>7. /\ q[x].stamp \in Nat
      /\ \A s \in 1..n : q[s] = [usage |-> q[s].usage, stamp |-> q[s].stamp, frame |-> q[s].frame]
                         /\ q[s].usage \in {"available", "until_fwd"} /\ q[s].stamp \in Nat
      /\ q = [s \in 1..n |-> q[s]]
  BY <1>1 DEF IsInq
<1>8. IsInq(a, n) /\ \A s \in 1..n : /\ a[s].usage = q[s].usage
                                     /\ a[s].frame = q[s].frame
                                     /\ a[s].stamp = IF s \in Inq(n)!InUse(q) /\ q[s].stamp > q[x].stamp
                                                     THEN q[s].stamp - 1 ELSE q[s].stamp
  <2> HIDE DEF x
  <2> DEFINE stamp == q[x].stamp
  <2>1. stamp \in Nat /\ n \in Nat
    BY <1>7
  <2> HIDE DEF stamp
  <2>2. IsInq(Inq(n)!AdjustOrder(q, stamp), n)
    BY <2>1, AdjustedInq
  <2>3. \A s \in 1..n :
           /\ Inq(n)!AdjustOrder(q, stamp)[s].usage = q[s].usage
           /\ Inq(n)!AdjustOrder(q, stamp)[s].frame = q[s].frame
           /\ Inq(n)!AdjustOrder(q, stamp)[s].stamp =
                  IF s \in Inq(n)!InUse(q) /\ q[s].stamp > stamp THEN q[s].stamp - 1
                  ELSE q[s].stamp
    BY <2>1, AdjustedInq
  <2> QED
    BY <2>2, <2>3 DEF stamp
<1> HIDE DEF a, c, x, t
<1> DEFINE u == Inq(n)!Stamped(q, x)
<1>9. /\ u = [s \in 1..n |-> u[s]]
      /\ \A s \in 1..n : /\ u[s] = [usage |-> u[s].usage, stamp |-> u[s].stamp, frame |-> u[s].frame]
                         /\ u[s].usage = q[s].usage /\ u[s].frame = q[s].frame
                         /\ u[s].stamp = IF s = x
                                         THEN IF full THEN n ELSE c + 1
                                         ELSE IF full /\ q[s].stamp > q[x].stamp
                                         THEN q[s].stamp - 1 ELSE q[s].stamp
                         /\ u[s].stamp \in Nat
  <2>1. CASE full
    <3>1. a = [s \in 1..n |-> a[s]]
          /\ \A s \in 1..n : a[s] = [usage |-> a[s].usage, stamp |-> a[s].stamp, frame |-> a[s].frame]
                             /\ a[s].stamp \in Nat
      BY <1>8 DEF IsInq
    <3>2. u = [a EXCEPT ![x].stamp = n]
      BY <1>5, <2>1
    <3>3. \A s \in 1..n : s \in Inq(n)!InUse(q)
      BY <1>1, <1>2, <2>1
    <3> HIDE DEF u
    <3>4. u = [s \in 1..n |-> IF s = x THEN [usage |-> a[s].usage, stamp |-> n, frame |-> a[s].frame]
                                     ELSE a[s]]
      <4>1. [a[x] EXCEPT !.stamp = n] = [usage |-> a[x].usage, stamp |-> n, frame |-> a[x].frame]
        BY <1>1, <3>1
      <4>2. u = [a EXCEPT ![x] = [a[x] EXCEPT !.stamp = n]]
        BY <3>2
      <4> QED
        BY <1>1, <3>1, <4>1, <4>2
    <3> QED
      BY <1>8, <2>1, <3>1, <3>3, <3>4
  <2>2. CASE ~full
    <3>1. u = [q EXCEPT ![x].stamp = c + 1]
      BY <1>5, <2>2
    <3> HIDE DEF u
    <3>2. u = [s \in 1..n |->
                 IF s = x THEN [usage |-> q[s].usage, stamp |-> c + 1, frame |-> q[s].frame]
                          ELSE q[s]]
      BY <1>1, <1>7, <3>1
    <3> QED
      BY <1>3, <1>7, <2>2, <3>2
  <2> QED
    BY <2>1, <2>2
<1> HIDE DEF u
<1>10. t = [s \in 1..n |->
             IF s = x THEN [usage |-> u[s].usage, stamp |-> u[s].stamp, frame |-> f] ELSE u[s]]
  <2>1. t = [u EXCEPT ![x] = [u[x] EXCEPT !.frame = f]]
    BY <1>6 DEF u
  <2>2. [u[x] EXCEPT !.frame = f] = [usage |-> u[x].usage, stamp |-> u[x].stamp, frame |-> f]
    BY <1>1, <1>9
  <2> QED
    BY <1>1, <1>9, <2>1, <2>2
<1>11. IsInq(t, n)
  BY <1>7, <1>9, <1>10 DEF IsInq
<1>12. \A s \in 1..n : /\ t[s].usage = q[s].usage
                       /\ t[s].frame = IF s = x THEN f ELSE q[s].frame
                       /\ t[s].stamp = IF s = x
                                       THEN IF full THEN n ELSE c + 1
                                       ELSE IF full /\ q[s].stamp > q[x].stamp
                                       THEN q[s].stamp - 1 ELSE q[s].stamp
  BY <1>9, <1>10
<1> QED
  BY <1>11, <1>12 DEF t, x, c

\* The slot that is freed or filled.
Using(q, x, u) == [q EXCEPT ![x].usage = u]

LEMMA UsedSlots ==
    ASSUME NEW n \in Nat, NEW q, IsInq(q, n), NEW x \in 1..n,
           NEW u \in {"available", "until_fwd"}
    PROVE  Using(q, x, u) = [s \in 1..n |-> IF s = x THEN [usage |-> u, stamp |-> q[s].stamp,
                                                          frame |-> q[s].frame] ELSE q[s]]
<1>1. q = [s \in 1..n |-> q[s]]
      /\ q[x] = [usage |-> q[x].usage, stamp |-> q[x].stamp, frame |-> q[x].frame]
  BY DEF IsInq
<1>2. [q[x] EXCEPT !.usage = u] = [usage |-> u, stamp |-> q[x].stamp, frame |-> q[x].frame]
  BY <1>1
<1>3. Using(q, x, u) = [q EXCEPT ![x] = [q[x] EXCEPT !.usage = u]]
  BY DEF Using
<1> QED
  BY <1>1, <1>2, <1>3

LEMMA UsedSlot ==
    ASSUME NEW n \in Nat, NEW q, IsInq(q, n), NEW x \in 1..n,
           NEW u \in {"available", "until_fwd"}, NEW s \in 1..n
    PROVE  /\ Using(q, x, u)[s].usage = IF s = x THEN u ELSE q[s].usage
           /\ Using(q, x, u)[s].stamp = q[s].stamp
           /\ Using(q, x, u)[s].frame = q[s].frame
  BY UsedSlots

LEMMA UsedInq ==
    ASSUME NEW n \in Nat, NEW q, IsInq(q, n), NEW x \in 1..n,
           NEW u \in {"available", "until_fwd"}
    PROVE  IsInq(Using(q, x, u), n)
<1> DEFINE p == Using(q, x, u)
<1>1. p = [s \in 1..n |-> IF s = x THEN [usage |-> u, stamp |-> q[s].stamp,
                                        frame |-> q[s].frame] ELSE q[s]]
  BY UsedSlots
<1> HIDE DEF p
<1>2. p = [s \in 1..n |-> p[s]]
  BY <1>1
<1>3. \A s \in 1..n : /\ p[s].usage \in {"available", "until_fwd"} /\ p[s].stamp \in Nat
                      /\ p[s] = [usage |-> p[s].usage, stamp |-> p[s].stamp,
                                 frame |-> p[s].frame]
  BY <1>1 DEF IsInq
<1> QED
  BY <1>2, <1>3 DEF IsInq, p

LEMMA StoreAssumed ==
    /\ StoreQueue \in Nat \ {0} /\ OrderQueue \in Nat \ {0} /\ OutQueue \in Nat
  BY Instances DEF Polls!StoreAssumption, Order!StoreAssumption, Polls!SizeAssumption,
     Order!SizeAssumption

\* The queue when a frame has been served: with or without an adjustment.
Served(q, f, u, n) == Using(Taking(q, f, n), Inq(n)!SlotFound(q), u)
Adjusted(q, f, stamp, n) ==
    Using(Inq(n)!AdjustOrder(Taking(q, f, n), stamp), Inq(n)!SlotFound(q), "available")

LEMMA ServedSlots ==
    ASSUME NEW n \in Nat \ {0}, NEW q, IsInq(q, n), NEW f,
           NEW u \in {"available", "until_fwd"},
           NEW x, x = Inq(n)!SlotFound(q)
    PROVE  /\ x \in 1..n
           /\ IsInq(Served(q, f, u, n), n)
           /\ Served(q, f, u, n)[x].usage = u /\ Served(q, f, u, n)[x].frame = f
           /\ \A s \in (1..n) \ {x} : /\ Served(q, f, u, n)[s].usage = q[s].usage
                                     /\ Served(q, f, u, n)[s].frame = q[s].frame
<1> DEFINE t == Taking(q, f, n)
<1>1. x \in 1..n
  BY SlotIsFound
<1>2. /\ IsInq(t, n)
      /\ \A s \in 1..n : t[s].usage = q[s].usage
                         /\ t[s].frame = IF s = x THEN f ELSE q[s].frame
  BY TakenSlot
<1>3. Served(q, f, u, n) = Using(t, x, u)
  BY DEF Served
<1> HIDE DEF t
<1>4. /\ IsInq(Using(t, x, u), n)
      /\ \A s \in 1..n : /\ Using(t, x, u)[s].usage = IF s = x THEN u ELSE t[s].usage
                         /\ Using(t, x, u)[s].frame = t[s].frame
  <2>1. IsInq(Using(t, x, u), n)
    BY <1>1, <1>2, UsedInq
  <2>2. ASSUME NEW s \in 1..n
        PROVE  /\ Using(t, x, u)[s].usage = IF s = x THEN u ELSE t[s].usage
               /\ Using(t, x, u)[s].frame = t[s].frame
    BY <1>1, <1>2, UsedSlot
  <2> QED
    BY <2>1, <2>2
<1> QED
  BY <1>1, <1>2, <1>3, <1>4

LEMMA AdjustedServed ==
    ASSUME NEW n \in Nat \ {0}, NEW q, IsInq(q, n), NEW f, NEW stamp \in Nat,
           NEW x, x = Inq(n)!SlotFound(q)
    PROVE  /\ x \in 1..n
           /\ IsInq(Adjusted(q, f, stamp, n), n)
           /\ Adjusted(q, f, stamp, n)[x].usage = "available"
           /\ \A s \in (1..n) \ {x} : /\ Adjusted(q, f, stamp, n)[s].usage = q[s].usage
                                     /\ Adjusted(q, f, stamp, n)[s].frame = q[s].frame
<1> DEFINE t == Taking(q, f, n)
           a == Inq(n)!AdjustOrder(t, stamp)
<1>1. x \in 1..n
  BY SlotIsFound
<1>2. /\ IsInq(t, n)
      /\ \A s \in 1..n : t[s].usage = q[s].usage
                         /\ t[s].frame = IF s = x THEN f ELSE q[s].frame
  BY TakenSlot
<1>3. Adjusted(q, f, stamp, n) = Using(a, x, "available")
  BY DEF Adjusted
<1> HIDE DEF t
<1>4. IsInq(a, n) /\ \A s \in 1..n : a[s].usage = t[s].usage /\ a[s].frame = t[s].frame
  BY <1>2, AdjustedInq
<1> HIDE DEF a
<1>5. /\ IsInq(Using(a, x, "available"), n)
      /\ \A s \in 1..n :
           /\ Using(a, x, "available")[s].usage = IF s = x THEN "available" ELSE a[s].usage
           /\ Using(a, x, "available")[s].frame = a[s].frame
  <2>1. IsInq(Using(a, x, "available"), n)
    BY <1>1, <1>4, UsedInq
  <2>2. ASSUME NEW s \in 1..n
        PROVE  /\ Using(a, x, "available")[s].usage
                      = IF s = x THEN "available" ELSE a[s].usage
               /\ Using(a, x, "available")[s].frame = a[s].frame
    BY <1>1, <1>4, UsedSlot
  <2> QED
    BY <2>1, <2>2
<1> QED
  BY <1>1, <1>2, <1>3, <1>4, <1>5

(***************************************************************************)
(* Two clients and their ports.                                            *)
(***************************************************************************)

LEMMA PortsSlots ==
    /\ Ports!Slots = 1..StoreQueue
    /\ \A q : Ports!InUse(q) = Inq(StoreQueue)!InUse(q)
    /\ \A q, S : Ports!OldestOf(q, S) = Inq(StoreQueue)!OldestOf(q, S)
    /\ \A q, stamp : Ports!AdjustOrder(q, stamp) = Inq(StoreQueue)!AdjustOrder(q, stamp)
    /\ \A q : Ports!SlotFound(q) = Inq(StoreQueue)!SlotFound(q)
    /\ \A f : Ports!Received(f) = Taking(inq, f, StoreQueue)
<1>1. Ports!Slots = 1..StoreQueue /\ Inq(StoreQueue)!Slots = 1..StoreQueue
  BY DEF Ports!Slots, Inq!Slots
<1>2. \A q : Ports!InUse(q) = Inq(StoreQueue)!InUse(q)
  BY <1>1 DEF Ports!InUse, Inq!InUse
<1>3. \A q, S : Ports!OldestOf(q, S) = Inq(StoreQueue)!OldestOf(q, S)
  BY DEF Ports!OldestOf, Inq!OldestOf
<1>4. \A q, stamp : Ports!AdjustOrder(q, stamp) = Inq(StoreQueue)!AdjustOrder(q, stamp)
  BY <1>1, <1>2 DEF Ports!AdjustOrder, Inq!AdjustOrder
<1>5. ASSUME NEW q
      PROVE  Ports!SlotFound(q) = Inq(StoreQueue)!SlotFound(q)
  <2>1. \A S : Ports!Max(S) = Inq(StoreQueue)!Max(S)
    BY DEF Ports!Max, Inq!Max
  <2>2. Ports!Castable(q) = Inq(StoreQueue)!Castable(q)
    BY <1>2 DEF Ports!Castable, Inq!Castable
  <2> QED
    BY <1>1, <1>2, <1>3, <2>1, <2>2 DEF Ports!SlotFound, Inq!SlotFound
<1>6. ASSUME NEW q, NEW s
      PROVE  Ports!Stamped(q, s) = Inq(StoreQueue)!Stamped(q, s)
  <2>1. \A S : Ports!Cardinality(S) = Inq(StoreQueue)!Cardinality(S)
    BY DEF Ports!Cardinality, Inq!Cardinality
  <2> QED
    BY <1>2, <1>4, <2>1 DEF Ports!Stamped, Inq!Stamped
<1> QED
  BY <1>1, <1>2, <1>3, <1>4, <1>5, <1>6 DEF Ports!Received, Taking

\* Each message goes to the client's port for the sender, and so does each poll.
PortData(m) ==
    \E c \in {"c1", "c2"} :
        m = [type |-> "data", id |-> m.id, src |-> "e", dst |-> c, port |-> Port[<<c, "e">>]]
PortPoll(f) ==
    \E c \in {"c1", "c2"}, e \in {"e", "ap"} :
        f.src = c /\ f.addr = e /\ f.port = Port[<<c, e>>]

PortsInv ==
    /\ IsInq(inq, StoreQueue)
    /\ \A s \in 1..StoreQueue : inq[s].usage = "until_fwd" => PortData(inq[s].frame)
    /\ outq = [s \in 1..OutQueue |-> NoFrame]
    /\ \A f \in air : f.type = "data" => PortData(f)
    /\ \A f \in air : f.type = "poll" => PortPoll(f)
    /\ misled = {}

LEMMA InitPorts ==
    ASSUME Ports!Init
    PROVE  PortsInv
<1>1. inq = [s \in 1..StoreQueue |-> [usage |-> "available", stamp |-> 0, frame |-> NoFrame]]
  BY PortsSlots DEF Ports!Init, Ports!QInit, Ports!Slot
<1>2. IsInq(inq, StoreQueue) /\ \A s \in 1..StoreQueue : inq[s].usage = "available"
  BY <1>1 DEF IsInq
<1> QED
  BY <1>2 DEF Ports!Init, PortsInv

\* The devices.
LEMMA DevicePorts ==
    ASSUME PortsInv,
           \/ \E c \in {"c1", "c2"} : Ports!JoinSend(c) \/ Ports!WaitOver(c)
           \/ \E c \in {"c1", "c2"}, e \in {"e"} \cup {"ap"} : Ports!Poll(c, e)
           \/ \E c \in {"c1", "c2"}, f \in air : Ports!Joined(c, f)
           \/ \E c \in {"c1", "c2"}, t \in {3} : Ports!Restart(c, t)
           \/ \E e \in {"e"}, c \in {"c1", "c2"} : Ports!Send(e, c)
           \/ \E f \in air : Ports!Lose(f)
    PROVE  PortsInv'
<1>1. inq' = inq /\ outq' = outq /\ misled' = misled
  BY DEF Ports!JoinSend, Ports!WaitOver, Ports!Poll, Ports!Joined, Ports!Restart,
     Ports!Send, Ports!Lose, Ports!histories
<1>2. ASSUME NEW f \in air', f \notin air
      PROVE  (f.type = "data" => PortData(f)) /\ (f.type = "poll" => PortPoll(f))
  <2>1. CASE \E c \in {"c1", "c2"} : Ports!JoinSend(c) \/ Ports!WaitOver(c)
    BY <1>2, <2>1 DEF Ports!JoinSend, Ports!WaitOver
  <2>2. CASE \E c \in {"c1", "c2"}, e \in {"e"} \cup {"ap"} : Ports!Poll(c, e)
    <3>1. PICK c \in {"c1", "c2"}, e \in {"e"} \cup {"ap"} : Ports!Poll(c, e)
      BY <2>2
    <3>2. f = Ports!PollFrame(c, dev[c].tid, dev[c].polls + 1, e)
      BY <1>2, <3>1 DEF Ports!Poll
    <3>3. f.type = "poll" /\ f.src = c /\ f.addr = e /\ f.port = Port[<<c, e>>]
      BY <3>2 DEF Ports!PollFrame
    <3> QED
      BY <3>3 DEF PortPoll
  <2>3. CASE \/ \E c \in {"c1", "c2"}, g \in air : Ports!Joined(c, g)
             \/ \E c \in {"c1", "c2"}, t \in {3} : Ports!Restart(c, t)
             \/ \E g \in air : Ports!Lose(g)
    BY <1>2, <2>3 DEF Ports!Joined, Ports!Restart, Ports!Lose
  <2>4. CASE \E e \in {"e"}, c \in {"c1", "c2"} : Ports!Send(e, c)
    <3>1. PICK c \in {"c1", "c2"} : Ports!Send("e", c)
      BY <2>4
    <3>2. f = Ports!Data(sends', "e", c)
      BY <1>2, <3>1 DEF Ports!Send
    <3>3. f.type = "data"
          /\ f = [type |-> "data", id |-> f.id, src |-> "e", dst |-> c, port |-> Port[<<c, "e">>]]
      BY <3>2 DEF Ports!Data
    <3> QED
      BY <3>3 DEF PortData
  <2> QED
    BY <2>1, <2>2, <2>3, <2>4
<1> QED
  BY <1>1, <1>2 DEF PortsInv

\* The interrupt: what it answers is no message and no poll.
LEMMA SlotKeepsPorts ==
    ASSUME PortsInv, NEW f \in air,
           Ports!Store(f) \/ Ports!Pass(f) \/ Ports!Join(f) \/ Ports!IgnorePoll(f)
                          \/ Ports!ForwardNone(f)
    PROVE  PortsInv'
<1> DEFINE x == Ports!SlotFound(inq)
<1>1. PICK u \in {"available", "until_fwd"} :
         inq' = Served(inq, f, u, StoreQueue) /\ (u = "until_fwd" => PortData(f))
  <2>1. ASSUME NEW u, inq' = Ports!Dispose(Ports!Received(f), u)
        PROVE  inq' = Served(inq, f, u, StoreQueue)
    BY <2>1, PortsSlots DEF Ports!Dispose, Served, Using
  <2>2. f.type = "data" => PortData(f)
    BY DEF PortsInv
  <2>3. CASE Ports!Store(f)
    BY <2>1, <2>2, <2>3 DEF Ports!Store
  <2>4. CASE Ports!Pass(f) \/ Ports!Join(f) \/ Ports!IgnorePoll(f) \/ Ports!ForwardNone(f)
    BY <2>1, <2>4 DEF Ports!Pass, Ports!Join, Ports!IgnorePoll, Ports!ForwardNone
  <2> QED
    BY <2>3, <2>4
<1>2. IsInq(inq', StoreQueue)
         /\ \A s \in 1..StoreQueue : inq'[s].usage = "until_fwd" => PortData(inq'[s].frame)
  BY <1>1, ServedSlots, StoreAssumed DEF PortsInv
<1>3. outq' = outq /\ misled' = misled
  BY DEF Ports!Store, Ports!Pass, Ports!Join, Ports!IgnorePoll, Ports!ForwardNone,
     Ports!AnswerPoll, Ports!histories
<1>4. \A m \in air' : m \in air \/ (m.type # "data" /\ m.type # "poll")
  BY DEF Ports!Store, Ports!Pass, Ports!Join, Ports!IgnorePoll, Ports!ForwardNone,
     Ports!AnswerPoll, Ports!Taken
<1> QED
  BY <1>2, <1>3, <1>4 DEF PortsInv

LEMMA ForwardKeepsPorts ==
    ASSUME PortsInv, NEW f \in air, Ports!Forward(f)
    PROVE  PortsInv'
<1> DEFINE q == Ports!Received(f)
           S == Ports!Polled(q, f)
           s == Ports!OldestOf(q, S)
           x == Inq(StoreQueue)!SlotFound(inq)
           stamp == q[s].stamp
<1>1. /\ f.type = "poll" /\ S # {}
      /\ inq' = [Ports!Dispose(Ports!AdjustOrder(q, stamp), "available") EXCEPT
                    ![s].usage = "available"]
      /\ misled' = IF q[s].frame.dst = f.src THEN misled ELSE misled \cup {q[s].frame}
      /\ Ports!AnswerPoll(f, q[s].frame) /\ outq' = outq
  BY DEF Ports!Forward
<1>2. /\ IsInq(q, StoreQueue)
      /\ \A r \in 1..StoreQueue :
           q[r].usage = inq[r].usage /\ q[r].frame = IF r = x THEN f ELSE inq[r].frame
  BY PortsSlots, TakenSlot, StoreAssumed DEF PortsInv
<1> HIDE DEF q
<1>3. /\ S \in SUBSET (1..StoreQueue)
      /\ \A r \in S : /\ q[r].usage = "until_fwd" /\ q[r].frame.type = "data"
                      /\ q[r].frame.port = f.port /\ q[r].frame.src = f.addr
  BY PortsSlots DEF Ports!Polled
<1> HIDE DEF S
<1>4. s \in S
  BY <1>1, <1>2, <1>3, PortsSlots, OldestSlot, StoreAssumed
<1> HIDE DEF s
<1>5. /\ q[s].frame = inq[s].frame /\ inq[s].usage = "until_fwd" /\ s \in 1..StoreQueue
      /\ q[s].frame.port = f.port /\ q[s].frame.src = f.addr
  BY <1>1, <1>2, <1>3, <1>4
<1>6. PICK c \in {"c1", "c2"} :
         q[s].frame = [type |-> "data", id |-> q[s].frame.id, src |-> "e", dst |-> c,
                       port |-> Port[<<c, "e">>]]
  BY <1>5 DEF PortsInv, PortData
<1>7. q[s].frame.dst = c /\ f.port = Port[<<c, "e">>] /\ f.addr = "e"
  BY <1>5, <1>6
<1>8. PICK d \in {"c1", "c2"} : f.src = d /\ f.port = Port[<<d, "e">>]
  BY <1>1, <1>7 DEF PortsInv, PortPoll
<1>9. Port[<<"c1", "e">>] = 1 /\ Port[<<"c2", "e">>] = 2
  BY DEF Port
<1>10. misled' = misled
  <2>1. Port[<<c, "e">>] = Port[<<d, "e">>]
    BY <1>7, <1>8
  <2>2. (c = "c1" \/ c = "c2") /\ (d = "c1" \/ d = "c2")
    OBVIOUS
  <2>3. c = d
    BY <1>9, <2>1, <2>2
  <2> QED
    BY <1>1, <1>7, <1>8, <2>3
<1>11. stamp \in Nat
  BY <1>2, <1>5 DEF IsInq
<1> HIDE DEF stamp
<1>12. inq' = Using(Adjusted(inq, f, stamp, StoreQueue), s, "available")
  BY <1>1, PortsSlots DEF Ports!Dispose, Adjusted, Using, q
<1>13. IsInq(inq', StoreQueue)
         /\ \A r \in 1..StoreQueue : inq'[r].usage = "until_fwd" => PortData(inq'[r].frame)
  <2> DEFINE p == Adjusted(inq, f, stamp, StoreQueue)
  <2>1. /\ IsInq(p, StoreQueue)
        /\ \A r \in 1..StoreQueue : p[r].usage = "until_fwd" => PortData(p[r].frame)
    <3>1. IsInq(inq, StoreQueue)
             /\ \A r \in 1..StoreQueue : inq[r].usage = "until_fwd" => PortData(inq[r].frame)
      BY DEF PortsInv
    <3>2. LET y == Inq(StoreQueue)!SlotFound(inq)
          IN  /\ y \in 1..StoreQueue /\ IsInq(p, StoreQueue)
              /\ p[y].usage = "available"
              /\ \A r \in (1..StoreQueue) \ {y} :
                    p[r].usage = inq[r].usage /\ p[r].frame = inq[r].frame
      BY <1>11, <3>1, AdjustedServed, StoreAssumed
    <3> HIDE DEF p
    <3> QED
      BY <3>1, <3>2
  <2> HIDE DEF p
  <2>2. /\ IsInq(Using(p, s, "available"), StoreQueue)
        /\ \A r \in 1..StoreQueue :
             /\ Using(p, s, "available")[r].usage = IF r = s THEN "available" ELSE p[r].usage
             /\ Using(p, s, "available")[r].frame = p[r].frame
    BY <1>5, <2>1, UsedSlot, UsedInq, StoreAssumed
  <2>3. inq' = Using(p, s, "available")
    BY <1>12 DEF p
  <2> QED
    BY <2>1, <2>2, <2>3
<1>14. \A m \in air' : m \in air \/ (m.type # "data" /\ m.type # "poll")
  <2>1. q[s].frame # NoFrame => [q[s].frame EXCEPT !.type = "fwd"].type = "fwd"
    BY <1>6
  <2> QED
    BY <1>1, <2>1 DEF Ports!AnswerPoll, Ports!Taken
<1> QED
  BY <1>1, <1>10, <1>13, <1>14 DEF PortsInv

LEMMA NextPorts ==
    ASSUME PortsInv, [Ports!Next]_(Ports!vars)
    PROVE  PortsInv'
<1>1. CASE UNCHANGED Ports!vars
  BY <1>1 DEF Ports!vars, PortsInv
<1>2. CASE Ports!Next
  <2>1. ASSUME NEW f \in air
        PROVE  ~Ports!ForwardOwn(f)
    <3>1. Ports!Own(f) = {}
      BY DEF PortsInv, Ports!Own
    <3> QED
      BY <3>1 DEF Ports!ForwardOwn
  <2> QED
    BY <1>2, <2>1, DevicePorts, SlotKeepsPorts, ForwardKeepsPorts
       DEF Ports!Next, Ports!ReceiveISR
<1> QED
  BY <1>1, <1>2

\* A client's poll gets it no message for another client (nwk_QfindOldest).
THEOREM OwnFramesProved == Spec => []OwnFramesOnly
<1> DEFINE Held == Is("ports") => PortsInv
<1>1. Init => Held
  BY InitPorts DEF Init, Is
<1>2. Held /\ [Next]_vars => Held'
  <2>1. [Next]_vars /\ Is("ports")' => Is("ports") /\ [Ports!Next]_(Ports!vars)
    BY DEF Next, Runs, Is, vars, storeVars, Ports!vars
  <2> QED
    BY <2>1, NextPorts
<1>3. Held => OwnFramesOnly
  BY DEF OwnFramesOnly, PortsInv, Ports!OwnFramesOnly
<1> QED
  BY <1>1, <1>2, <1>3, PTL DEF Spec

(***************************************************************************)
(* Polls.                                                                  *)
(***************************************************************************)

IsPoll(f, c) == f.type = "poll" /\ f.src = c
JoinSent(c) == \E f \in air : f.type = "join" /\ f.src = c
Awaited(c) == \E f \in air : f.type = "joined" /\ f.dst = c

\* c's id of now is as many after t as its polls are after the n-th, but for wraps.
InStep(c, t, n) ==
    \E k \in Int : dev[c].tid = t + (dev[c].polls + 1 - n) + k * (MaxTid + 1)

\* A device that has joined is a client; its entry has the id of the last poll it
\* was given an answer to in its life of now, or no id and no poll was answered.
Course(c) ==
    /\ lastPoll[c] <= dev[c].polls
    /\ \A n : <<c, n>> \in answered => n \in Nat /\ n <= lastPoll[c]
    /\ dev[c].pc = "off" => ~dev[c].joined
    /\ dev[c].joined => Polls!IsClient(c)
    /\ JoinSent(c) => ~dev[c].joined /\ dev[c].pc # "off" /\ ~Awaited(c)
    /\ Awaited(c) => Polls!IsClient(c) /\ dev[c].pc # "off"
    /\ \A f \in air : IsPoll(f, c) =>
          /\ f.tid \in Tids /\ f.n \in Nat /\ f.n <= dev[c].polls
          /\ dev[c].joined /\ InStep(c, f.tid, f.n)
    /\ \A i \in DOMAIN client : client[i].addr = c =>
          /\ (dev[c].joined \/ Awaited(c)) /\ client[i].marker
                => InStep(c, client[i].lastTID, lastPoll[c])
          /\ ~client[i].marker => \A f \in air : IsPoll(f, c) => f.n > lastPoll[c]

PollTypes ==
    /\ dev \in [Sleepers -> [pc : {"off", "idle", "joining", "listening"}, joined : BOOLEAN,
                             tid : Tids, polls : Nat]]
    /\ client \in Seq([addr : Sleepers, lastTID : Tids, marker : BOOLEAN])
    /\ \A i, j \in DOMAIN client : client[i].addr = client[j].addr => i = j
    /\ lastPoll \in [Sleepers -> Nat]
    /\ \A f \in air : /\ f.type \in {"poll", "join"} => f.src \in Sleepers
                      /\ f.type = "joined" => f.dst \in Sleepers
                      /\ f.type = "join" => f = [type |-> "join", src |-> f.src]
    /\ again = {}

\* What is stored is what was sent.
IsMessage(m) ==
    m = [type |-> "data", id |-> m.id, src |-> m.src, dst |-> m.dst, port |-> m.port]

PollStore ==
    /\ IsInq(inq, StoreQueue)
    /\ \A s \in 1..StoreQueue : inq[s].usage = "until_fwd" => IsMessage(inq[s].frame)
    /\ outq = [s \in 1..OutQueue |-> outq[s]]
    /\ \A s \in 1..OutQueue : outq[s] = NoFrame \/ IsMessage(outq[s])
    /\ \A f \in air : f.type = "data" => IsMessage(f)

PollInv == PollTypes /\ PollStore /\ \A c \in Sleepers : Course(c)

(***************************************************************************)
(* The ids.                                                                *)
(***************************************************************************)

LEMMA PollsTids ==
    /\ Polls!Tids = Tids
    /\ \A t : Polls!After(t, 1) = After(t, 1)
    /\ \A t, u : Polls!CheckTid(t, u) = CheckTid(t, u)
  BY DEF Polls!Tids, Tids, Polls!After, After, Polls!CheckTid, CheckTid,
     Polls!CheckTidWrap, CheckTidWrap, Polls!DupTidAfterWrap, DupTidAfterWrap

\* Ids that are few apart as polls are few apart as numbers, but for one wrap.
LEMMA FewWraps ==
    ASSUME NEW N \in Nat, NEW k \in Int, NEW w \in Int, w = k * N,
           w < 2 * N, w > -2 * N, N > 0
    PROVE  k \in {-1, 0, 1}
<1>1. ASSUME k >= 2
      PROVE  FALSE
  <2>1. (k - 2) * N >= 0
    BY <1>1
  <2>2. (k - 2) * N = k * N - 2 * N
    OBVIOUS
  <2> QED
    BY <2>1, <2>2
<1>2. ASSUME k <= -2
      PROVE  FALSE
  <2>1. (-2 - k) * N >= 0
    BY <1>2
  <2>2. (-2 - k) * N = -2 * N - k * N
    OBVIOUS
  <2> QED
    BY <2>1, <2>2
<1> QED
  BY <1>1, <1>2

LEMMA TellsPolls ==
    ASSUME NEW t \in Tids, NEW u \in Tids, NEW n \in Nat, NEW m \in Nat, NEW v \in Int,
           NEW p \in Int, NEW k \in Int, NEW l \in Int,
           v = t + (p + 1 - n) + k * (MaxTid + 1), v = u + (p + 1 - m) + l * (MaxTid + 1)
    PROVE  /\ m \in n + 1..n + Window + 1 => CheckTid(t, u)
           /\ m \in n - Window - 1..n => ~CheckTid(t, u)
<1>1. MaxTid \in Nat /\ Window \in Nat /\ MaxTid >= 3 * Window + 2
  BY WindowAssumption DEF WindowAssumption
<1>2. t \in 0..MaxTid /\ u \in 0..MaxTid
  BY DEF Tids
<1> SUFFICES ASSUME m \in n - Window - 1..n + Window + 1
             PROVE  /\ m > n => CheckTid(t, u)
                    /\ m <= n => ~CheckTid(t, u)
  BY <1>1
<1> DEFINE N == MaxTid + 1
           w == (k - l) * N
<1>3. w = k * N - l * N
  BY <1>1
<1>4. k * N \in Int /\ l * N \in Int /\ w \in Int
  BY <1>1
<1>5. u - t = (m - n) + w
  <2> DEFINE a == k * N
             b == l * N
  <2>1. v = t + (p + 1 - n) + a /\ v = u + (p + 1 - m) + b /\ w = a - b
    BY <1>3
  <2>2. a \in Int /\ b \in Int
    BY <1>4
  <2> HIDE DEF a, b, w
  <2> QED
    BY <1>2, <2>1, <2>2
<1>6. w < 2 * N /\ w > -2 * N
  <2> HIDE DEF w
  <2> QED
    BY <1>1, <1>2, <1>4, <1>5
<1>7. k - l \in {-1, 0, 1}
  <2>1. N \in Nat /\ N > 0 /\ k - l \in Int
    BY <1>1
  <2> QED
    BY <1>4, <1>6, <2>1, FewWraps
<1>8. w = 0 \/ w = N \/ w = -N
  BY <1>1, <1>7
<1> HIDE DEF w
<1>9. m > n => CheckTid(t, u)
  BY <1>1, <1>2, <1>5, <1>8 DEF CheckTid, CheckTidWrap, DupTidAfterWrap
<1>10. m <= n => ~CheckTid(t, u)
  BY <1>1, <1>2, <1>5, <1>8 DEF CheckTid, CheckTidWrap, DupTidAfterWrap
<1> QED
  BY <1>9, <1>10

(***************************************************************************)
(* The clients.                                                            *)
(***************************************************************************)

LEMMA ClientFound ==
    ASSUME PollTypes, NEW i \in DOMAIN client
    PROVE  Polls!IsClient(client[i].addr) /\ Polls!Loc(client[i].addr) = i
<1>1. Polls!Loc(client[i].addr) \in DOMAIN client
         /\ client[Polls!Loc(client[i].addr)].addr = client[i].addr
  BY DEF Polls!Loc
<1> QED
  BY <1>1 DEF PollTypes, Polls!IsClient

LEMMA FoundClient ==
    ASSUME PollTypes, NEW c, Polls!IsClient(c)
    PROVE  Polls!Loc(c) \in DOMAIN client /\ client[Polls!Loc(c)].addr = c
  BY DEF Polls!Loc, Polls!IsClient

\* What concerns other devices only.
LEMMA OtherDevice ==
    ASSUME NEW c, Course(c), dev'[c] = dev[c], lastPoll'[c] = lastPoll[c],
           \A n : <<c, n>> \in answered' => <<c, n>> \in answered,
           \A f \in air' : (f.type \in {"poll", "join"} /\ f.src = c) \/
                           (f.type = "joined" /\ f.dst = c) => f \in air,
           \A i \in DOMAIN client' : client'[i].addr = c =>
                i \in DOMAIN client /\ client'[i] = client[i],
           Polls!IsClient(c) => Polls!IsClient(c)'
    PROVE  Course(c)'
<1>1. /\ \A f \in air' : IsPoll(f, c) => f \in air
      /\ JoinSent(c)' => JoinSent(c)
      /\ Awaited(c)' => Awaited(c)
  BY DEF IsPoll, JoinSent, Awaited
<1>2. \A t, n : InStep(c, t, n)' <=> InStep(c, t, n)
  BY DEF InStep
<1>3. /\ lastPoll'[c] <= dev'[c].polls
      /\ \A n : <<c, n>> \in answered' => n \in Nat /\ n <= lastPoll'[c]
      /\ dev'[c].pc = "off" => ~dev'[c].joined
      /\ dev'[c].joined => Polls!IsClient(c)'
  BY DEF Course
<1>4. /\ JoinSent(c)' => ~dev'[c].joined /\ dev'[c].pc # "off" /\ ~Awaited(c)'
      /\ Awaited(c)' => Polls!IsClient(c)' /\ dev'[c].pc # "off"
  BY <1>1 DEF Course
<1>5. \A f \in air' : IsPoll(f, c) =>
          /\ f.tid \in Tids /\ f.n \in Nat /\ f.n <= dev'[c].polls
          /\ dev'[c].joined /\ InStep(c, f.tid, f.n)'
  BY <1>1, <1>2 DEF Course
<1>6. ASSUME NEW i \in DOMAIN client', client'[i].addr = c
      PROVE  /\ (dev'[c].joined \/ Awaited(c)') /\ client'[i].marker
                   => InStep(c, client[i].lastTID, lastPoll[c])'
             /\ ~client'[i].marker => \A f \in air' : IsPoll(f, c) => f.n > lastPoll'[c]
  <2>1. i \in DOMAIN client /\ client'[i] = client[i] /\ client[i].addr = c
    BY <1>6
  <2> QED
    <3>1. (dev'[c].joined \/ Awaited(c)') /\ client'[i].marker
             => InStep(c, client[i].lastTID, lastPoll[c])
      BY <1>1, <2>1 DEF Course
    <3>2. InStep(c, client[i].lastTID, lastPoll[c])
             => InStep(c, client[i].lastTID, lastPoll[c])'
      BY <2>1 DEF InStep
    <3>3. ~client'[i].marker => \A f \in air' : IsPoll(f, c) => f.n > lastPoll'[c]
      BY <1>1, <2>1 DEF Course
    <3> QED
      BY <3>1, <3>2, <3>3
<1> QED
  BY <1>3, <1>4, <1>5, <1>6 DEF Course, IsPoll

(***************************************************************************)
(* What is stored.                                                         *)
(***************************************************************************)

LEMMA PollsSlots ==
    /\ Polls!Slots = 1..StoreQueue
    /\ \A q : Polls!InUse(q) = Inq(StoreQueue)!InUse(q)
    /\ \A q, S : Polls!OldestOf(q, S) = Inq(StoreQueue)!OldestOf(q, S)
    /\ \A q, stamp : Polls!AdjustOrder(q, stamp) = Inq(StoreQueue)!AdjustOrder(q, stamp)
    /\ \A q : Polls!SlotFound(q) = Inq(StoreQueue)!SlotFound(q)
    /\ \A f : Polls!Received(f) = Taking(inq, f, StoreQueue)
<1>1. Polls!Slots = 1..StoreQueue /\ Inq(StoreQueue)!Slots = 1..StoreQueue
  BY DEF Polls!Slots, Inq!Slots
<1>2. \A q : Polls!InUse(q) = Inq(StoreQueue)!InUse(q)
  BY <1>1 DEF Polls!InUse, Inq!InUse
<1>3. \A q, S : Polls!OldestOf(q, S) = Inq(StoreQueue)!OldestOf(q, S)
  BY DEF Polls!OldestOf, Inq!OldestOf
<1>4. \A q, stamp : Polls!AdjustOrder(q, stamp) = Inq(StoreQueue)!AdjustOrder(q, stamp)
  BY <1>1, <1>2 DEF Polls!AdjustOrder, Inq!AdjustOrder
<1>5. ASSUME NEW q
      PROVE  Polls!SlotFound(q) = Inq(StoreQueue)!SlotFound(q)
  <2>1. \A S : Polls!Max(S) = Inq(StoreQueue)!Max(S)
    BY DEF Polls!Max, Inq!Max
  <2>2. Polls!Castable(q) = Inq(StoreQueue)!Castable(q)
    BY <1>2 DEF Polls!Castable, Inq!Castable
  <2> QED
    BY <1>1, <1>2, <1>3, <2>1, <2>2 DEF Polls!SlotFound, Inq!SlotFound
<1>6. ASSUME NEW q, NEW s
      PROVE  Polls!Stamped(q, s) = Inq(StoreQueue)!Stamped(q, s)
  <2>1. \A S : Polls!Cardinality(S) = Inq(StoreQueue)!Cardinality(S)
    BY DEF Polls!Cardinality, Inq!Cardinality
  <2> QED
    BY <1>2, <1>4, <2>1 DEF Polls!Stamped, Inq!Stamped
<1> QED
  BY <1>1, <1>2, <1>3, <1>4, <1>5, <1>6 DEF Polls!Received, Taking

\* The devices and the senders.
LEMMA DeviceStore ==
    ASSUME PollStore,
           \/ \E c \in Sleepers : Polls!JoinSend(c) \/ Polls!WaitOver(c)
           \/ \E c \in Sleepers, e \in Sources \cup {"ap"} : Polls!Poll(c, e)
           \/ \E c \in Sleepers, f \in air : Polls!Joined(c, f)
           \/ \E c \in Sleepers, t \in Tids : Polls!Restart(c, t)
           \/ \E e \in Sources, c \in Sleepers : Polls!Send(e, c)
           \/ \E f \in air : Polls!Lose(f)
    PROVE  PollStore'
<1>1. inq' = inq /\ outq' = outq
  BY DEF Polls!JoinSend, Polls!WaitOver, Polls!Poll, Polls!Joined, Polls!Restart,
     Polls!Send, Polls!Lose
<1>2. ASSUME NEW f \in air', f \notin air, f.type = "data"
      PROVE  IsMessage(f)
  <2>1. CASE \E c \in Sleepers : Polls!JoinSend(c) \/ Polls!WaitOver(c)
    BY <1>2, <2>1 DEF Polls!JoinSend, Polls!WaitOver
  <2>2. CASE \E c \in Sleepers, e \in Sources \cup {"ap"} : Polls!Poll(c, e)
    <3>1. PICK c \in Sleepers, e \in Sources \cup {"ap"} : Polls!Poll(c, e)
      BY <2>2
    <3>2. f = Polls!PollFrame(c, dev[c].tid, dev[c].polls + 1, e)
      BY <1>2, <3>1 DEF Polls!Poll
    <3> QED
      BY <1>2, <3>2 DEF Polls!PollFrame
  <2>3. CASE \/ \E c \in Sleepers, g \in air : Polls!Joined(c, g)
             \/ \E c \in Sleepers, t \in Tids : Polls!Restart(c, t)
             \/ \E g \in air : Polls!Lose(g)
    BY <1>2, <2>3 DEF Polls!Joined, Polls!Restart, Polls!Lose
  <2>4. CASE \E e \in Sources, c \in Sleepers : Polls!Send(e, c)
    BY <1>2, <2>4 DEF Polls!Send, Polls!Data, IsMessage
  <2> QED
    BY <2>1, <2>2, <2>3, <2>4
<1> QED
  BY <1>1, <1>2 DEF PollStore

LEMMA OwnStore ==
    ASSUME PollStore, NEW c, Polls!SendOwn(c)
    PROVE  PollStore'
<1> DEFINE k == Polls!Min({s \in DOMAIN outq : outq[s] = NoFrame})
           m == Polls!Data(sends', "ap", c)
<1>1. inq' = inq /\ air' = air /\ outq' = [outq EXCEPT ![k] = m]
  BY DEF Polls!SendOwn
<1>2. IsMessage(m)
  BY DEF Polls!Data, IsMessage
<1>3. outq = [s \in 1..OutQueue |-> outq[s]]
  BY DEF PollStore
<1> HIDE DEF k, m
<1>4. outq' = [s \in 1..OutQueue |-> IF s = k THEN m ELSE outq[s]]
  BY <1>1, <1>3
<1> QED
  BY <1>1, <1>2, <1>4 DEF PollStore

\* The interrupt.
LEMMA SlotKeepsStore ==
    ASSUME PollStore, NEW f \in air,
           Polls!Store(f) \/ Polls!Pass(f) \/ Polls!Join(f) \/ Polls!IgnorePoll(f)
                          \/ Polls!ForwardNone(f)
    PROVE  PollStore'
<1>1. PICK u \in {"available", "until_fwd"} :
         inq' = Served(inq, f, u, StoreQueue) /\ (u = "until_fwd" => IsMessage(f))
  <2>1. ASSUME NEW u, inq' = Polls!Dispose(Polls!Received(f), u)
        PROVE  inq' = Served(inq, f, u, StoreQueue)
    BY <2>1, PollsSlots DEF Polls!Dispose, Served, Using
  <2>2. f.type = "data" => IsMessage(f)
    BY DEF PollStore
  <2>3. CASE Polls!Store(f)
    BY <2>1, <2>2, <2>3 DEF Polls!Store
  <2>4. CASE Polls!Pass(f) \/ Polls!Join(f) \/ Polls!IgnorePoll(f) \/ Polls!ForwardNone(f)
    BY <2>1, <2>4 DEF Polls!Pass, Polls!Join, Polls!IgnorePoll, Polls!ForwardNone
  <2> QED
    BY <2>3, <2>4
<1>2. IsInq(inq', StoreQueue)
         /\ \A s \in 1..StoreQueue : inq'[s].usage = "until_fwd" => IsMessage(inq'[s].frame)
  BY <1>1, ServedSlots, StoreAssumed DEF PollStore
<1>3. outq' = outq
  BY DEF Polls!Store, Polls!Pass, Polls!Join, Polls!IgnorePoll, Polls!ForwardNone
<1>4. \A m \in air' : m \in air \/ m.type # "data"
  BY DEF Polls!Store, Polls!Pass, Polls!Join, Polls!IgnorePoll, Polls!ForwardNone,
     Polls!AnswerPoll, Polls!Taken
<1> QED
  BY <1>2, <1>3, <1>4 DEF PollStore

\* What a poll finds in the input queue.
LEMMA ForwardKeepsStore ==
    ASSUME PollStore, NEW f \in air, Polls!Forward(f)
    PROVE  PollStore' /\ \A m \in air' : m \in air \/ m.type = "fwd"
<1> DEFINE q == Polls!Received(f)
           S == Polls!Polled(q, f)
           s == Polls!OldestOf(q, S)
           x == Inq(StoreQueue)!SlotFound(inq)
           stamp == q[s].stamp
<1>1. /\ f.type = "poll" /\ S # {}
      /\ inq' = [Polls!Dispose(Polls!AdjustOrder(q, stamp), "available") EXCEPT
                    ![s].usage = "available"]
      /\ Polls!AnswerPoll(f, q[s].frame) /\ outq' = outq
  BY DEF Polls!Forward
<1>2. /\ IsInq(q, StoreQueue)
      /\ \A r \in 1..StoreQueue :
           q[r].usage = inq[r].usage /\ q[r].frame = IF r = x THEN f ELSE inq[r].frame
  BY PollsSlots, TakenSlot, StoreAssumed DEF PollStore
<1> HIDE DEF q
<1>3. /\ S \in SUBSET (1..StoreQueue)
      /\ \A r \in S : q[r].usage = "until_fwd" /\ q[r].frame.type = "data"
  BY PollsSlots DEF Polls!Polled
<1> HIDE DEF S
<1>4. s \in S
  BY <1>1, <1>2, <1>3, PollsSlots, OldestSlot, StoreAssumed
<1> HIDE DEF s
<1>5. q[s].frame = inq[s].frame /\ inq[s].usage = "until_fwd" /\ s \in 1..StoreQueue
  BY <1>1, <1>2, <1>3, <1>4
<1>6. IsMessage(q[s].frame)
  BY <1>5 DEF PollStore
<1>7. stamp \in Nat
  BY <1>2, <1>5 DEF IsInq
<1> HIDE DEF stamp
<1>8. inq' = Using(Adjusted(inq, f, stamp, StoreQueue), s, "available")
  BY <1>1, PollsSlots DEF Polls!Dispose, Adjusted, Using, q
<1>9. IsInq(inq', StoreQueue)
         /\ \A r \in 1..StoreQueue : inq'[r].usage = "until_fwd" => IsMessage(inq'[r].frame)
  <2> DEFINE p == Adjusted(inq, f, stamp, StoreQueue)
  <2>1. IsInq(inq, StoreQueue)
           /\ \A r \in 1..StoreQueue : inq[r].usage = "until_fwd" => IsMessage(inq[r].frame)
    BY DEF PollStore
  <2>2. LET y == Inq(StoreQueue)!SlotFound(inq)
        IN  /\ y \in 1..StoreQueue /\ IsInq(p, StoreQueue)
            /\ p[y].usage = "available"
            /\ \A r \in (1..StoreQueue) \ {y} :
                  p[r].usage = inq[r].usage /\ p[r].frame = inq[r].frame
    BY <1>7, <2>1, AdjustedServed, StoreAssumed
  <2> HIDE DEF p
  <2>3. /\ IsInq(p, StoreQueue)
        /\ \A r \in 1..StoreQueue : p[r].usage = "until_fwd" => IsMessage(p[r].frame)
    BY <2>1, <2>2
  <2>4. /\ IsInq(Using(p, s, "available"), StoreQueue)
        /\ \A r \in 1..StoreQueue :
             /\ Using(p, s, "available")[r].usage = IF r = s THEN "available" ELSE p[r].usage
             /\ Using(p, s, "available")[r].frame = p[r].frame
    BY <1>5, <2>3, UsedSlot, UsedInq, StoreAssumed
  <2>5. inq' = Using(p, s, "available")
    BY <1>8 DEF p
  <2> QED
    BY <2>3, <2>4, <2>5
<1>10. \A m \in air' : m \in air \/ m.type = "fwd"
  <2>1. [q[s].frame EXCEPT !.type = "fwd"].type = "fwd"
    BY <1>6 DEF IsMessage
  <2> QED
    BY <1>1, <2>1 DEF Polls!AnswerPoll, Polls!Taken
<1> QED
  BY <1>1, <1>9, <1>10 DEF PollStore

\* What it finds in the output queue.
LEMMA ForwardOwnKeepsStore ==
    ASSUME PollStore, NEW f \in air, Polls!ForwardOwn(f)
    PROVE  PollStore' /\ \A m \in air' : m \in air \/ m.type = "fwd"
<1> DEFINE S == Polls!Own(f)
           s == Polls!Min(S)
<1>1. /\ S # {}
      /\ inq' = Polls!Dispose(Polls!AdjustOrder(Polls!Received(f), 0), "available")
      /\ outq' = [outq EXCEPT ![s] = NoFrame]
      /\ Polls!AnswerPoll(f, outq[s])
  BY DEF Polls!ForwardOwn
<1>2. DOMAIN outq = 1..OutQueue /\ outq = [r \in 1..OutQueue |-> outq[r]]
  BY DEF PollStore
<1>3. S \in SUBSET (1..OutQueue) /\ \A r \in S : outq[r] # NoFrame
  BY <1>2 DEF Polls!Own
<1> HIDE DEF S
<1>4. s \in S
  <2>1. PICK y \in S : \A r \in S : y <= r
    BY <1>1, <1>3, LeastNumber
  <2> QED
    BY <2>1 DEF Polls!Min
<1> HIDE DEF s
<1>5. IsMessage(outq[s])
  BY <1>3, <1>4 DEF PollStore
<1>6. inq' = Adjusted(inq, f, 0, StoreQueue)
  BY <1>1, PollsSlots DEF Polls!Dispose, Adjusted, Using
<1>7. IsInq(inq', StoreQueue)
         /\ \A r \in 1..StoreQueue : inq'[r].usage = "until_fwd" => IsMessage(inq'[r].frame)
  <2> DEFINE p == Adjusted(inq, f, 0, StoreQueue)
  <2>1. IsInq(inq, StoreQueue)
           /\ \A r \in 1..StoreQueue : inq[r].usage = "until_fwd" => IsMessage(inq[r].frame)
    BY DEF PollStore
  <2>2. LET y == Inq(StoreQueue)!SlotFound(inq)
        IN  /\ y \in 1..StoreQueue /\ IsInq(p, StoreQueue)
            /\ p[y].usage = "available"
            /\ \A r \in (1..StoreQueue) \ {y} :
                  p[r].usage = inq[r].usage /\ p[r].frame = inq[r].frame
    BY <2>1, AdjustedServed, StoreAssumed
  <2>3. inq' = p
    BY <1>6
  <2> HIDE DEF p
  <2> QED
    BY <2>1, <2>2, <2>3
<1>8. \A m \in air' : m \in air \/ m.type = "fwd"
  <2>1. [outq[s] EXCEPT !.type = "fwd"].type = "fwd"
    BY <1>5 DEF IsMessage
  <2> QED
    BY <1>1, <2>1 DEF Polls!AnswerPoll, Polls!Taken
<1>9. /\ outq' = [r \in 1..OutQueue |-> outq'[r]]
      /\ \A r \in 1..OutQueue : outq'[r] = NoFrame \/ IsMessage(outq'[r])
  <2>1. outq' = [r \in 1..OutQueue |-> IF r = s THEN NoFrame ELSE outq[r]]
    BY <1>1, <1>2
  <2> QED
    BY <2>1 DEF PollStore
<1> QED
  BY <1>7, <1>8, <1>9 DEF PollStore

(***************************************************************************)
(* The course of the polls.                                                *)
(***************************************************************************)

LEMMA InitPolls ==
    ASSUME Polls!Init
    PROVE  PollInv
<1>1. PICK t \in [Sleepers -> Tids] :
         dev = [c \in Sleepers |-> [pc |-> "off", joined |-> FALSE, tid |-> t[c], polls |-> 0]]
  BY DEF Polls!Init, Polls!DevInit
<1>2. /\ inq = Polls!QInit /\ outq = [s \in 1..OutQueue |-> NoFrame]
      /\ client = <<>> /\ air = {} /\ answered = {} /\ again = {}
      /\ lastPoll = [c \in Sleepers |-> 0]
  BY DEF Polls!Init
<1>3. PollTypes
  BY <1>1, <1>2 DEF PollTypes
<1>4. PollStore
  <2>1. inq = [s \in 1..StoreQueue |->
                  [usage |-> "available", stamp |-> 0, frame |-> NoFrame]]
    BY <1>2, PollsSlots DEF Polls!QInit, Polls!Slot
  <2>2. IsInq(inq, StoreQueue) /\ \A s \in 1..StoreQueue : inq[s].usage = "available"
    BY <2>1 DEF IsInq
  <2> QED
    BY <1>2, <2>2 DEF PollStore
<1>5. ASSUME NEW c \in Sleepers
      PROVE  Course(c)
  BY <1>1, <1>2 DEF Course, JoinSent, Awaited
<1> QED
  BY <1>3, <1>4, <1>5 DEF PollInv

LEMMA ClientTypes ==
    ASSUME PollTypes, NEW i \in DOMAIN client
    PROVE  client[i] \in [addr : Sleepers, lastTID : Tids, marker : BOOLEAN]
<1>1. client \in Seq([addr : Sleepers, lastTID : Tids, marker : BOOLEAN])
  BY DEF PollTypes
<1> QED
  BY <1>1, LenProperties, ElementOfSeq

\* Nothing of the devices, the clients, the polls and the joins changes.
LEMMA CalmKeeps ==
    ASSUME PollTypes, \A c \in Sleepers : Course(c),
           UNCHANGED <<client, dev, answered, again, lastPoll>>,
           \A f \in air' : f \in air \/ f.type \notin {"poll", "join", "joined"}
    PROVE  PollTypes' /\ \A c \in Sleepers : Course(c)'
<1>1. PollTypes'
  BY DEF PollTypes
<1>2. ASSUME NEW c \in Sleepers
      PROVE  Course(c)'
  <2>1. Polls!IsClient(c) => Polls!IsClient(c)'
    BY DEF Polls!IsClient
  <2> QED
    BY <2>1, OtherDevice
<1> QED
  BY <1>1, <1>2

LEMMA SenderKeeps ==
    ASSUME PollTypes, \A c \in Sleepers : Course(c),
           \/ \E e \in Sources, c \in Sleepers : Polls!Send(e, c)
           \/ \E c \in Sleepers : Polls!SendOwn(c)
           \/ \E f \in air : Polls!Lose(f)
           \/ \E f \in air : Polls!Store(f) \/ Polls!Pass(f) \/ Polls!IgnorePoll(f)
    PROVE  PollTypes' /\ \A c \in Sleepers : Course(c)'
<1>1. UNCHANGED <<client, dev, answered, again, lastPoll>>
  BY DEF Polls!Send, Polls!SendOwn, Polls!Lose, Polls!Store, Polls!Pass, Polls!IgnorePoll,
     Polls!histories
<1>2. \A f \in air' : f \in air \/ f.type \notin {"poll", "join", "joined"}
  <2>1. CASE \E e \in Sources, c \in Sleepers : Polls!Send(e, c)
    BY <2>1 DEF Polls!Send, Polls!Data
  <2>2. CASE \/ \E c \in Sleepers : Polls!SendOwn(c)
             \/ \E f \in air : Polls!Lose(f)
    BY <2>2 DEF Polls!SendOwn, Polls!Lose
  <2>3. CASE \E f \in air : Polls!Store(f) \/ Polls!Pass(f) \/ Polls!IgnorePoll(f)
    BY <2>3 DEF Polls!Store, Polls!Pass, Polls!IgnorePoll, Polls!Taken
  <2> QED
    BY <2>1, <2>2, <2>3
<1> QED
  BY <1>1, <1>2, CalmKeeps

\* The first steps of a device's life.
LEMMA JoinSendKeeps ==
    ASSUME PollTypes, \A c \in Sleepers : Course(c), NEW d \in Sleepers, Polls!JoinSend(d)
    PROVE  PollTypes' /\ \A c \in Sleepers : Course(c)'
<1> DEFINE j == [type |-> "join", src |-> d]
<1>1. /\ dev[d].pc = "off" /\ dev' = [dev EXCEPT ![d].pc = "joining"]
      /\ air' = air \cup {j}
      /\ UNCHANGED <<client, answered, again, lastPoll>>
  BY DEF Polls!JoinSend, Polls!histories
<1>2. /\ dev'[d] = [pc |-> "joining", joined |-> dev[d].joined, tid |-> dev[d].tid,
                    polls |-> dev[d].polls]
      /\ \A c \in Sleepers \ {d} : dev'[c] = dev[c]
      /\ dev' = [c \in Sleepers |-> dev'[c]]
  BY <1>1 DEF PollTypes
<1>3. PollTypes'
  BY <1>1, <1>2 DEF PollTypes
<1>4. ASSUME NEW c \in Sleepers \ {d}
      PROVE  Course(c)'
  <2>1. Polls!IsClient(c) => Polls!IsClient(c)'
    BY <1>1 DEF Polls!IsClient
  <2> QED
    BY <1>1, <1>2, <1>4, <2>1, OtherDevice
<1>5. Course(d)'
  <2>1. ~dev[d].joined /\ ~Awaited(d) /\ \A f \in air : ~IsPoll(f, d)
    BY <1>1 DEF Course
  <2>2. ~Awaited(d)' /\ \A f \in air' : ~IsPoll(f, d)
    BY <1>1, <2>1 DEF Awaited, IsPoll
  <2>3. lastPoll[d] <= dev[d].polls
           /\ \A n : <<d, n>> \in answered => n \in Nat /\ n <= lastPoll[d]
    BY DEF Course
  <2>4. dev'[d].pc = "joining" /\ ~dev'[d].joined /\ dev'[d].polls = dev[d].polls
    BY <1>2, <2>1
  <2> QED
    BY <1>1, <2>2, <2>3, <2>4 DEF Course
<1> QED
  BY <1>3, <1>4, <1>5

LEMMA WaitOverKeeps ==
    ASSUME PollTypes, \A c \in Sleepers : Course(c), NEW d \in Sleepers, Polls!WaitOver(d)
    PROVE  PollTypes' /\ \A c \in Sleepers : Course(c)'
<1>1. /\ dev[d].pc # "off" /\ dev' = [dev EXCEPT ![d].pc = "idle"]
      /\ UNCHANGED <<air, client, answered, again, lastPoll>>
  BY DEF Polls!WaitOver, Polls!histories
<1>2. /\ dev'[d] = [pc |-> "idle", joined |-> dev[d].joined, tid |-> dev[d].tid,
                    polls |-> dev[d].polls]
      /\ \A c \in Sleepers \ {d} : dev'[c] = dev[c]
      /\ dev' = [c \in Sleepers |-> dev'[c]]
  BY <1>1 DEF PollTypes
<1>3. PollTypes'
  BY <1>1, <1>2 DEF PollTypes
<1>4. ASSUME NEW c \in Sleepers \ {d}
      PROVE  Course(c)'
  <2>1. Polls!IsClient(c) => Polls!IsClient(c)'
    BY <1>1 DEF Polls!IsClient
  <2> QED
    BY <1>1, <1>2, <1>4, <2>1, OtherDevice
<1>5. Course(d)'
  <2>1. (Polls!IsClient(d)' <=> Polls!IsClient(d)) /\ (Awaited(d)' <=> Awaited(d))
           /\ (JoinSent(d)' <=> JoinSent(d))
    BY <1>1 DEF Polls!IsClient, Awaited, JoinSent
  <2>2. \A t, n : InStep(d, t, n)' <=> InStep(d, t, n)
    BY <1>2 DEF InStep
  <2>3. dev'[d].pc = "idle" /\ dev'[d].joined = dev[d].joined /\ dev'[d].polls = dev[d].polls
    BY <1>2
  <2> QED
    BY <1>1, <2>1, <2>2, <2>3 DEF Course, IsPoll
<1> QED
  BY <1>3, <1>4, <1>5

LEMMA JoinedKeeps ==
    ASSUME PollTypes, \A c \in Sleepers : Course(c), NEW d \in Sleepers, NEW f \in air,
           Polls!Joined(d, f)
    PROVE  PollTypes' /\ \A c \in Sleepers : Course(c)'
<1> DEFINE j == dev[d].joined \/ dev[d].pc = "joining"
<1>1. /\ f.type = "joined" /\ f.dst = d /\ air' = air \ {f}
      /\ UNCHANGED <<client, answered, again, lastPoll>>
  BY DEF Polls!Joined, Polls!histories
<1>2. /\ dev'[d].pc = dev[d].pc /\ dev'[d].tid = dev[d].tid /\ dev'[d].polls = dev[d].polls
      /\ dev'[d] \in [pc : {"off", "idle", "joining", "listening"}, joined : BOOLEAN,
                      tid : Tids, polls : Nat]
      /\ dev'[d].joined \in BOOLEAN /\ (dev[d].joined => dev'[d].joined)
      /\ \A c \in Sleepers \ {d} : dev'[c] = dev[c]
      /\ dev' = [c \in Sleepers |-> dev'[c]]
  <2>1. PICK b \in BOOLEAN : b = j
    OBVIOUS
  <2>2. dev' = [dev EXCEPT ![d].joined = b]
    BY <2>1 DEF Polls!Joined
  <2>3. dev'[d] = [pc |-> dev[d].pc, joined |-> b, tid |-> dev[d].tid,
                   polls |-> dev[d].polls]
    BY <2>2 DEF PollTypes
  <2>4. dev[d] \in [pc : {"off", "idle", "joining", "listening"}, joined : BOOLEAN,
                    tid : Tids, polls : Nat]
    BY DEF PollTypes
  <2>5. \A c \in Sleepers \ {d} : dev'[c] = dev[c]
    BY <2>2 DEF PollTypes
  <2>6. dev' = [c \in Sleepers |-> dev'[c]]
    BY <2>2 DEF PollTypes
  <2>7. dev[d].joined => b
    BY <2>1
  <2> QED
    BY <2>3, <2>4, <2>5, <2>6, <2>7
<1>3. PollTypes'
  <2>1. dev' \in [Sleepers -> [pc : {"off", "idle", "joining", "listening"}, joined : BOOLEAN,
                               tid : Tids, polls : Nat]]
    BY <1>2 DEF PollTypes
  <2> QED
    BY <1>1, <2>1 DEF PollTypes
<1>4. ASSUME NEW c \in Sleepers \ {d}
      PROVE  Course(c)'
  <2>1. Polls!IsClient(c) => Polls!IsClient(c)'
    BY <1>1 DEF Polls!IsClient
  <2> QED
    BY <1>1, <1>2, <1>4, <2>1, OtherDevice
<1>5. Course(d)'
  <2>1. Awaited(d) /\ Polls!IsClient(d) /\ ~JoinSent(d) /\ dev[d].pc # "off"
    BY <1>1 DEF Awaited, Course
  <2>2. Polls!IsClient(d)' /\ ~JoinSent(d)'
    BY <1>1, <2>1 DEF Polls!IsClient, JoinSent
  <2>3. \A t, n : InStep(d, t, n)' <=> InStep(d, t, n)
    BY <1>2 DEF InStep
  <2>4. \A g \in air' : IsPoll(g, d) =>
          /\ g.tid \in Tids /\ g.n \in Nat /\ g.n <= dev'[d].polls
          /\ dev'[d].joined /\ InStep(d, g.tid, g.n)'
    BY <1>1, <1>2, <2>3 DEF Course
  <2>5. ASSUME NEW i \in DOMAIN client', client'[i].addr = d
        PROVE  /\ client'[i].marker => InStep(d, client[i].lastTID, lastPoll[d])'
               /\ ~client'[i].marker => \A g \in air' : IsPoll(g, d) => g.n > lastPoll'[d]
    <3>1. i \in DOMAIN client /\ client[i].addr = d
      BY <1>1, <2>5
    <3>2. /\ client[i].marker => InStep(d, client[i].lastTID, lastPoll[d])
          /\ ~client[i].marker => \A g \in air : IsPoll(g, d) => g.n > lastPoll[d]
      BY <2>1, <3>1 DEF Course
    <3>3. InStep(d, client[i].lastTID, lastPoll[d])
             => InStep(d, client[i].lastTID, lastPoll[d])'
      BY <1>1, <1>2 DEF InStep
    <3> QED
      BY <1>1, <3>2, <3>3
  <2>6. lastPoll'[d] <= dev'[d].polls
           /\ \A n : <<d, n>> \in answered' => n \in Nat /\ n <= lastPoll'[d]
    BY <1>1, <1>2 DEF Course
  <2> QED
    BY <1>2, <2>1, <2>2, <2>4, <2>5, <2>6 DEF Course, IsPoll
<1> QED
  BY <1>3, <1>4, <1>5

LEMMA RestartKeeps ==
    ASSUME PollTypes, \A c \in Sleepers : Course(c), NEW d \in Sleepers, NEW t \in Tids,
           Polls!Restart(d, t)
    PROVE  PollTypes' /\ \A c \in Sleepers : Course(c)'
<1>1. /\ dev' = [dev EXCEPT ![d] = [pc |-> "off", joined |-> FALSE, tid |-> t,
                                    polls |-> dev[d].polls]]
      /\ air' = {f \in air : f.src # d /\ (f.type = "joined" => f.dst # d)}
      /\ UNCHANGED <<client, answered, again, lastPoll>>
  BY DEF Polls!Restart, Polls!histories, Polls!DevInit, PollTypes
<1>2. /\ dev'[d] = [pc |-> "off", joined |-> FALSE, tid |-> t, polls |-> dev[d].polls]
      /\ \A c \in Sleepers \ {d} : dev'[c] = dev[c]
      /\ dev' = [c \in Sleepers |-> dev'[c]]
  BY <1>1 DEF PollTypes
<1>3. PollTypes'
  BY <1>1, <1>2 DEF PollTypes
<1>4. ASSUME NEW c \in Sleepers \ {d}
      PROVE  Course(c)'
  <2>1. Polls!IsClient(c) => Polls!IsClient(c)'
    BY <1>1 DEF Polls!IsClient
  <2> QED
    BY <1>1, <1>2, <1>4, <2>1, OtherDevice
<1>5. Course(d)'
  <2>1. ~Awaited(d)' /\ ~JoinSent(d)' /\ \A f \in air' : ~IsPoll(f, d)
    BY <1>1 DEF Awaited, JoinSent, IsPoll
  <2>2. lastPoll[d] <= dev[d].polls
           /\ \A n : <<d, n>> \in answered => n \in Nat /\ n <= lastPoll[d]
    BY DEF Course
  <2>3. dev'[d].pc = "off" /\ ~dev'[d].joined /\ dev'[d].polls = dev[d].polls
    BY <1>2
  <2> QED
    BY <1>1, <2>1, <2>2, <2>3 DEF Course
<1> QED
  BY <1>3, <1>4, <1>5

\* The ids go on in step, across the wrap too.
LEMMA PollKeeps ==
    ASSUME PollTypes, \A c \in Sleepers : Course(c), NEW d \in Sleepers,
           NEW e \in Sources \cup {"ap"}, Polls!Poll(d, e)
    PROVE  PollTypes' /\ \A c \in Sleepers : Course(c)'
<1>0. PICK p : p = Polls!PollFrame(d, dev[d].tid, dev[d].polls + 1, e)
  OBVIOUS
<1>1. /\ dev[d].pc = "idle" /\ dev[d].joined
      /\ dev' = [dev EXCEPT ![d].pc = "listening", ![d].tid = After(dev[d].tid, 1),
                            ![d].polls = dev[d].polls + 1]
      /\ air' = air \cup {p}
      /\ UNCHANGED <<client, answered, again, lastPoll>>
  BY <1>0, PollsTids DEF Polls!Poll, Polls!histories
<1>2. /\ dev[d].tid \in Tids /\ dev[d].polls \in Nat /\ dev[d].joined \in BOOLEAN
      /\ MaxTid \in Nat
  BY WindowAssumption DEF PollTypes, WindowAssumption
<1>3. After(dev[d].tid, 1) \in Tids
         /\ \E k \in Int : After(dev[d].tid, 1) = dev[d].tid + 1 + k * (MaxTid + 1)
  <2>1. CASE dev[d].tid + 1 > MaxTid
    <3>1. After(dev[d].tid, 1) = dev[d].tid + 1 + (-1) * (MaxTid + 1)
      BY <1>2, <2>1 DEF After, Tids
    <3> QED
      BY <1>2, <2>1, <3>1 DEF Tids
  <2>2. CASE ~(dev[d].tid + 1 > MaxTid)
    <3>1. After(dev[d].tid, 1) = dev[d].tid + 1 + 0 * (MaxTid + 1)
      BY <1>2, <2>2 DEF After, Tids
    <3> QED
      BY <1>2, <2>2, <3>1 DEF Tids
  <2> QED
    BY <2>1, <2>2
<1>4. /\ dev'[d] = [pc |-> "listening", joined |-> dev[d].joined, tid |-> After(dev[d].tid, 1),
                    polls |-> dev[d].polls + 1]
      /\ \A c \in Sleepers \ {d} : dev'[c] = dev[c]
      /\ dev' = [c \in Sleepers |-> dev'[c]]
  BY <1>1 DEF PollTypes
<1>5. p.type = "poll" /\ p.src = d /\ p.tid = dev[d].tid /\ p.n = dev[d].polls + 1
  BY <1>0 DEF Polls!PollFrame
<1>6. PollTypes'
  <2>1. dev' \in [Sleepers -> [pc : {"off", "idle", "joining", "listening"}, joined : BOOLEAN,
                               tid : Tids, polls : Nat]]
    <3>1. dev'[d] \in [pc : {"off", "idle", "joining", "listening"}, joined : BOOLEAN,
                       tid : Tids, polls : Nat]
      BY <1>2, <1>3, <1>4
    <3>2. \A c \in Sleepers \ {d} :
             dev'[c] \in [pc : {"off", "idle", "joining", "listening"}, joined : BOOLEAN,
                          tid : Tids, polls : Nat]
      BY <1>4 DEF PollTypes
    <3> QED
      BY <1>4, <3>1, <3>2
  <2> QED
    BY <1>1, <1>5, <2>1 DEF PollTypes
<1>7. ASSUME NEW c \in Sleepers \ {d}
      PROVE  Course(c)'
  <2>1. Polls!IsClient(c) => Polls!IsClient(c)'
    BY <1>1 DEF Polls!IsClient
  <2> QED
    BY <1>1, <1>4, <1>5, <1>7, <2>1, OtherDevice
<1>8. ASSUME NEW t \in Tids, NEW n \in Nat, InStep(d, t, n)
      PROVE  InStep(d, t, n)'
  <2>1. PICK k \in Int : dev[d].tid = t + (dev[d].polls + 1 - n) + k * (MaxTid + 1)
    BY <1>8 DEF InStep
  <2>2. PICK l \in Int : After(dev[d].tid, 1) = dev[d].tid + 1 + l * (MaxTid + 1)
    BY <1>3
  <2>3. (k + l) * (MaxTid + 1) = k * (MaxTid + 1) + l * (MaxTid + 1)
    BY <1>2
  <2> DEFINE a == k * (MaxTid + 1)
             b == l * (MaxTid + 1)
  <2>4. a \in Int /\ b \in Int /\ t \in Int
    BY <1>2 DEF Tids
  <2>5. dev[d].tid = t + (dev[d].polls + 1 - n) + a /\ After(dev[d].tid, 1) = dev[d].tid + 1 + b
    BY <2>1, <2>2
  <2> HIDE DEF a, b
  <2>6. After(dev[d].tid, 1) = t + (dev[d].polls + 1 + 1 - n) + (a + b)
    BY <1>2, <2>4, <2>5
  <2>7. dev'[d].tid = t + (dev'[d].polls + 1 - n) + (k + l) * (MaxTid + 1)
    BY <1>4, <2>3, <2>6 DEF a, b
  <2>8. k + l \in Int
    OBVIOUS
  <2> QED
    BY <2>7, <2>8 DEF InStep
<1>9. InStep(d, p.tid, p.n)'
  <2>1. PICK l \in Int : After(dev[d].tid, 1) = dev[d].tid + 1 + l * (MaxTid + 1)
    BY <1>3
  <2>2. dev[d].polls + 1 + 1 - (dev[d].polls + 1) = 1
    BY <1>2
  <2>3. dev'[d].tid = dev[d].tid + (dev'[d].polls + 1 - (dev[d].polls + 1)) + l * (MaxTid + 1)
    BY <1>4, <2>1, <2>2
  <2>4. dev'[d].tid = p.tid + (dev'[d].polls + 1 - p.n) + l * (MaxTid + 1)
    BY <1>5, <2>3
  <2> QED
    BY <2>4 DEF InStep
<1>10. Course(d)'
  <2>1. Polls!IsClient(d) /\ ~JoinSent(d)
    BY <1>1 DEF Course
  <2>2. Polls!IsClient(d)' /\ ~JoinSent(d)'
    BY <1>1, <1>5, <2>1 DEF Polls!IsClient, JoinSent
  <2>3. /\ dev'[d].pc = "listening" /\ dev'[d].joined /\ dev'[d].polls = dev[d].polls + 1
        /\ lastPoll[d] \in Nat
    BY <1>1, <1>4 DEF PollTypes
  <2>4. lastPoll'[d] <= dev'[d].polls /\ p.n > lastPoll[d]
           /\ \A n : <<d, n>> \in answered' => n \in Nat /\ n <= lastPoll'[d]
    BY <1>1, <1>2, <1>5, <2>3 DEF Course
  <2>5. ASSUME NEW g \in air', IsPoll(g, d)
        PROVE  /\ g.tid \in Tids /\ g.n \in Nat /\ g.n <= dev'[d].polls
               /\ InStep(d, g.tid, g.n)'
    <3>1. CASE g \in air
      <4>1. /\ g.tid \in Tids /\ g.n \in Nat /\ g.n <= dev[d].polls
            /\ InStep(d, g.tid, g.n)
        BY <2>5, <3>1 DEF Course
      <4> QED
        BY <1>2, <1>8, <2>3, <4>1
    <3>2. CASE g = p
      BY <1>2, <1>5, <1>9, <2>3, <3>2
    <3> QED
      BY <1>1, <3>1, <3>2
  <2>6. ASSUME NEW i \in DOMAIN client', client'[i].addr = d
        PROVE  /\ client'[i].marker => InStep(d, client[i].lastTID, lastPoll[d])'
               /\ ~client'[i].marker => \A g \in air' : IsPoll(g, d) => g.n > lastPoll'[d]
    <3>1. i \in DOMAIN client /\ client[i].addr = d /\ client[i].lastTID \in Tids
      <4>1. client[i] \in [addr : Sleepers, lastTID : Tids, marker : BOOLEAN]
        BY <1>1, <2>6, ClientTypes
      <4> QED
        BY <1>1, <2>6, <4>1
    <3>2. /\ client[i].marker => InStep(d, client[i].lastTID, lastPoll[d])
          /\ ~client[i].marker => \A g \in air : IsPoll(g, d) => g.n > lastPoll[d]
      BY <1>1, <3>1 DEF Course
    <3>3. InStep(d, client[i].lastTID, lastPoll[d])
             => InStep(d, client[i].lastTID, lastPoll[d])'
      <4>1. \A t, n : lastPoll' = lastPoll /\ client' = client
        BY <1>1
      <4> DEFINE t == client[i].lastTID
                 n == lastPoll[d]
      <4>2. InStep(d, t, n) => \E k \in Int :
               dev'[d].tid = t + (dev'[d].polls + 1 - n) + k * (MaxTid + 1)
        <5> HIDE DEF t, n
        <5>1. t \in Tids /\ n \in Nat
          BY <2>3, <3>1 DEF t, n
        <5> QED
          BY <1>8, <5>1 DEF InStep
      <4>3. t' = t /\ n' = n
        BY <1>1
      <4> QED
        BY <4>2, <4>3 DEF InStep
    <3>4. ~client'[i].marker => \A g \in air' : IsPoll(g, d) => g.n > lastPoll'[d]
      BY <1>1, <2>4, <3>2
    <3> QED
      BY <1>1, <3>2, <3>3, <3>4
  <2> QED
    BY <2>2, <2>3, <2>4, <2>5, <2>6 DEF Course, IsPoll
<1> QED
  BY <1>6, <1>7, <1>10

\* A client whose entry is made or unmarked has not been answered in its life of now.
LEMMA JoinKeeps ==
    ASSUME PollTypes, \A c \in Sleepers : Course(c), NEW f \in air, Polls!Join(f)
    PROVE  PollTypes' /\ \A c \in Sleepers : Course(c)'
<1> DEFINE Clients == [addr : Sleepers, lastTID : Tids, marker : BOOLEAN]
<1>1. PICK d \in Sleepers : f = [type |-> "join", src |-> d]
  BY DEF Polls!Join, PollTypes
<1>2. PICK a : a = [type |-> "joined", src |-> "ap", dst |-> d]
  OBVIOUS
<1>3. PICK entry : entry = [addr |-> d, lastTID |-> 0, marker |-> FALSE]
  OBVIOUS
<1>4. /\ UNCHANGED <<dev, answered, again, lastPoll>>
      /\ air' = (air \ {f}) \cup (IF Polls!IsClient(d) \/ Len(client) < MaxStoreClients
                                  THEN {a} ELSE {})
      /\ client' = IF Polls!IsClient(d) THEN [client EXCEPT ![Polls!Loc(d)].marker = FALSE]
                   ELSE IF Polls!IsClient(d) \/ Len(client) < MaxStoreClients
                        THEN Append(client, entry) ELSE client
  <2>1. f.src = d /\ f.type = "join" /\ f.type \notin {"poll"}
    BY <1>1
  <2>2. UNCHANGED <<dev, answered, again, lastPoll>>
    BY DEF Polls!Join, Polls!histories
  <2>3. client' = IF Polls!IsClient(d) THEN [client EXCEPT ![Polls!Loc(d)].marker = FALSE]
                  ELSE IF Polls!IsClient(d) \/ Len(client) < MaxStoreClients
                       THEN Append(client, entry) ELSE client
    BY <1>3, <2>1 DEF Polls!Join
  <2>4. Polls!Taken(f, IF Polls!IsClient(d) \/ Len(client) < MaxStoreClients THEN {a} ELSE {})
    BY <1>2, <2>1 DEF Polls!Join
  <2> QED
    BY <2>1, <2>2, <2>3, <2>4 DEF Polls!Taken
<1>5. client \in Seq(Clients) /\ DOMAIN client = 1..Len(client) /\ Len(client) \in Nat
  BY LenProperties DEF PollTypes
<1>6. JoinSent(d) /\ ~dev[d].joined /\ dev[d].pc # "off" /\ \A g \in air : ~IsPoll(g, d)
  BY <1>1 DEF JoinSent, Course
\* The entries.
<1>7. /\ client' \in Seq(Clients)
      /\ \A i \in DOMAIN client' :
           \/ i \in DOMAIN client /\ client'[i] = client[i]
                 /\ (client[i].addr = d => client' = client)
           \/ client'[i].addr = d /\ client'[i].marker = FALSE
      /\ \A i, j \in DOMAIN client' : client'[i].addr = client'[j].addr => i = j
      /\ \A c : Polls!IsClient(c) => Polls!IsClient(c)'
      /\ a \in air' => Polls!IsClient(d)'
  <2>1. CASE Polls!IsClient(d)
    <3> DEFINE l == Polls!Loc(d)
    <3>1. l \in DOMAIN client /\ client[l].addr = d
      BY <2>1, FoundClient
    <3>2. client' = [client EXCEPT ![l] = [client[l] EXCEPT !.marker = FALSE]]
      BY <1>4, <2>1
    <3>3. client[l] \in Clients
      BY <3>1, ClientTypes
    <3> HIDE DEF l
    <3>4. [client[l] EXCEPT !.marker = FALSE]
             = [addr |-> d, lastTID |-> client[l].lastTID, marker |-> FALSE]
      <4>1. PICK a0 \in Sleepers, t0 \in Tids, m0 \in BOOLEAN :
               client[l] = [addr |-> a0, lastTID |-> t0, marker |-> m0]
        BY <3>3
      <4> DEFINE e == [addr |-> a0, lastTID |-> t0, marker |-> m0]
      <4>2. \A v \in BOOLEAN : [e EXCEPT !.marker = v]
                                 = [addr |-> a0, lastTID |-> t0, marker |-> v]
        OBVIOUS
      <4>3. client[l] = e /\ a0 = d /\ t0 = client[l].lastTID
        BY <3>1, <4>1
      <4> HIDE DEF e
      <4> QED
        BY <4>2, <4>3, Zenon
    <3> DEFINE r == [addr |-> d, lastTID |-> client[l].lastTID, marker |-> FALSE]
    <3>5. r \in Clients /\ r.addr = d /\ r.marker = FALSE
      BY <3>3
    <3>6. client' = [client EXCEPT ![l] = r]
      BY <3>2, <3>4
    <3> HIDE DEF r, Clients
    <3>7. client' \in Seq(Clients)
      BY <1>5, <3>1, <3>5, <3>6, ExceptSeq
    <3>8. DOMAIN client' = DOMAIN client
             /\ \A i \in DOMAIN client : client'[i] = IF i = l THEN r ELSE client[i]
      BY <3>1, <3>6
    <3>9. \A i, j \in DOMAIN client : client[i].addr = client[j].addr => i = j
      BY DEF PollTypes
    <3>10. \A i \in DOMAIN client : client'[i].addr = client[i].addr
      BY <3>1, <3>5, <3>8
    <3>11. \A c : Polls!IsClient(c) => Polls!IsClient(c)'
      BY <3>8, <3>10 DEF Polls!IsClient
    <3> QED
      BY <2>1, <3>1, <3>5, <3>7, <3>8, <3>9, <3>10, <3>11
  <2>2. CASE ~Polls!IsClient(d) /\ Len(client) < MaxStoreClients
    <3>1. client' = Append(client, entry)
      BY <1>4, <2>2
    <3>2. entry \in Clients /\ entry.addr = d /\ entry.marker = FALSE
      BY <1>3, WindowAssumption DEF WindowAssumption, Tids
    <3> HIDE DEF Clients
    <3>3. /\ client' \in Seq(Clients) /\ DOMAIN client' = 1..Len(client) + 1
          /\ \A i \in 1..Len(client) : client'[i] = client[i]
          /\ client'[Len(client) + 1] = entry
      BY <1>5, <3>1, <3>2, AppendProperties, LenProperties
    <3>4. \A i \in DOMAIN client : client[i].addr # d
      BY <2>2 DEF Polls!IsClient
    <3>5. \A i, j \in DOMAIN client : client[i].addr = client[j].addr => i = j
      BY DEF PollTypes
    <3>6. \A i \in DOMAIN client' : i \in DOMAIN client \/ i = Len(client) + 1
      BY <1>5, <3>3
    <3>7. \A c : Polls!IsClient(c) => Polls!IsClient(c)'
      BY <1>5, <3>3 DEF Polls!IsClient
    <3>8. Polls!IsClient(d)'
      BY <1>5, <3>2, <3>3 DEF Polls!IsClient
    <3> QED
      BY <1>5, <3>2, <3>3, <3>4, <3>5, <3>6, <3>7, <3>8
  <2>3. CASE ~Polls!IsClient(d) /\ ~(Len(client) < MaxStoreClients)
    <3>1. client' = client /\ air' = air \ {f}
      BY <1>4, <2>3
    <3>2. a \notin air
      <4>1. ~Awaited(d)
        BY <1>6 DEF Course
      <4> QED
        BY <1>2, <4>1 DEF Awaited
    <3>3. \A i \in DOMAIN client : client[i].addr # d
      BY <2>3 DEF Polls!IsClient
    <3> QED
      BY <1>5, <3>1, <3>2, <3>3 DEF PollTypes, Polls!IsClient
  <2> QED
    BY <2>1, <2>2, <2>3
<1>8. a.type = "joined" /\ a.dst = d
  BY <1>2
<1>9. \A g \in air' : g = a \/ (g \in air /\ g # f)
  BY <1>4
<1>10. PollTypes'
  BY <1>4, <1>7, <1>8, <1>9 DEF PollTypes
<1>11. ASSUME NEW c \in Sleepers \ {d}
       PROVE  Course(c)'
  <2>1. \A g \in air' : (g.type \in {"poll", "join"} /\ g.src = c) \/
                           (g.type = "joined" /\ g.dst = c) => g \in air
    BY <1>8, <1>9, <1>11
  <2>2. \A i \in DOMAIN client' : client'[i].addr = c =>
                i \in DOMAIN client /\ client'[i] = client[i]
    BY <1>7, <1>11
  <2> QED
    BY <1>4, <1>7, <2>1, <2>2, OtherDevice
<1>12. Course(d)'
  <2>1. \A g \in air' : ~IsPoll(g, d)
    BY <1>6, <1>8, <1>9 DEF IsPoll
  <2>2. ~JoinSent(d)'
    <3>1. \A g \in air' : g.type = "join" => g.src # d
      BY <1>1, <1>8, <1>9 DEF PollTypes
    <3> QED
      BY <3>1 DEF JoinSent
  <2>3. Awaited(d)' => Polls!IsClient(d)'
    <3>1. ASSUME Awaited(d)'
          PROVE  a \in air'
      <4>1. ~Awaited(d)
        BY <1>6 DEF Course
      <4> QED
        BY <1>9, <3>1, <4>1 DEF Awaited
    <3> QED
      BY <1>7, <3>1
  <2>4. lastPoll'[d] <= dev'[d].polls
           /\ \A n : <<d, n>> \in answered' => n \in Nat /\ n <= lastPoll'[d]
    BY <1>4 DEF Course
  <2>5. ~dev'[d].joined /\ dev'[d].pc # "off"
    BY <1>4, <1>6
  <2>6. ASSUME NEW i \in DOMAIN client', client'[i].addr = d
        PROVE  Awaited(d)' => ~client'[i].marker
    <3>1. ASSUME Awaited(d)'
          PROVE  a \in air' /\ a \notin air
      <4>1. ~Awaited(d)
        BY <1>6 DEF Course
      <4> QED
        BY <1>8, <1>9, <3>1, <4>1 DEF Awaited
    <3>2. client'[i].marker = FALSE \/ (i \in DOMAIN client /\ client[i].addr = d)
      BY <1>7, <2>6
    <3>3. ASSUME i \in DOMAIN client, client[i].addr = d
          PROVE  client'[i].marker = FALSE
      <4>1. Polls!IsClient(d) /\ Polls!Loc(d) = i
        BY <3>3, ClientFound
      <4>2. client[i] \in Clients
        BY <3>3, ClientTypes
      <4>3. client' = [client EXCEPT ![i] = [client[i] EXCEPT !.marker = FALSE]]
        BY <1>4, <4>1
      <4> QED
        BY <3>3, <4>2, <4>3
    <3> QED
      BY <3>2, <3>3
  <2> QED
    BY <2>1, <2>2, <2>3, <2>4, <2>5, <2>6 DEF Course, IsPoll
<1> QED
  BY <1>10, <1>11, <1>12

\* A poll is accepted if it is new, and then it has not been answered before.
LEMMA AcceptsNew ==
    ASSUME PollTypes, \A c \in Sleepers : Course(c), NEW f \in air, f.type = "poll",
           Polls!IsClient(f.src), client[Polls!Loc(f.src)].marker
    PROVE  /\ f.n \in lastPoll[f.src] + 1..lastPoll[f.src] + Window + 1 => Polls!Accepts(f)
           /\ f.n \in lastPoll[f.src] - Window - 1..lastPoll[f.src] => ~Polls!Accepts(f)
<1> DEFINE c == f.src
           k == client[Polls!Loc(c)]
<1>1. c \in Sleepers /\ Polls!Loc(c) \in DOMAIN client /\ k.addr = c
  BY FoundClient DEF PollTypes
<1>2. k.lastTID \in Tids
  BY <1>1, ClientTypes
<1>3. IsPoll(f, c) /\ Course(c)
  BY <1>1 DEF IsPoll
<1>4. /\ f.tid \in Tids /\ f.n \in Nat /\ dev[c].joined /\ InStep(c, f.tid, f.n)
      /\ InStep(c, k.lastTID, lastPoll[c])
  BY <1>1, <1>3 DEF Course
<1>5. Polls!Accepts(f) <=> CheckTid(k.lastTID, f.tid)
  BY PollsTids DEF Polls!Accepts
<1> HIDE DEF k
<1>6. PICK i \in Int :
         dev[c].tid = k.lastTID + (dev[c].polls + 1 - lastPoll[c]) + i * (MaxTid + 1)
  BY <1>4 DEF InStep
<1>7. PICK j \in Int : dev[c].tid = f.tid + (dev[c].polls + 1 - f.n) + j * (MaxTid + 1)
  BY <1>4 DEF InStep
<1>8. dev[c].tid \in Int /\ dev[c].polls \in Int /\ lastPoll[c] \in Nat
  BY <1>1 DEF PollTypes, Tids
<1>9. /\ f.n \in lastPoll[c] + 1..lastPoll[c] + Window + 1 => CheckTid(k.lastTID, f.tid)
      /\ f.n \in lastPoll[c] - Window - 1..lastPoll[c] => ~CheckTid(k.lastTID, f.tid)
  BY <1>2, <1>4, <1>6, <1>7, <1>8, TellsPolls
<1> QED
  BY <1>5, <1>9

LEMMA AnswerKeeps ==
    ASSUME PollTypes, \A c \in Sleepers : Course(c), NEW f \in air, Polls!Behind(f),
           f.type = "poll", Polls!IsClient(f.src), Polls!Accepts(f),
           NEW m, Polls!AnswerPoll(f, m),
           \A g \in air' : g \in air \/ g.type = "fwd"
    PROVE  PollTypes' /\ \A c \in Sleepers : Course(c)'
<1> DEFINE Clients == [addr : Sleepers, lastTID : Tids, marker : BOOLEAN]
<1>1. PICK d \in Sleepers : d = f.src
  BY DEF PollTypes
<1> DEFINE l == Polls!Loc(d)
<1>2. l \in DOMAIN client /\ client[l].addr = d /\ client[l] \in Clients
  BY <1>1, FoundClient, ClientTypes
<1>3. /\ f.tid \in Tids /\ f.n \in Nat /\ f.n <= dev[d].polls
      /\ dev[d].joined /\ InStep(d, f.tid, f.n)
  BY <1>1 DEF Course, IsPoll
<1>4. lastPoll[d] \in Nat /\ dev[d].polls \in Nat /\ Window \in Nat /\ lastPoll[d] <= dev[d].polls
  BY WindowAssumption DEF PollTypes, WindowAssumption, Course
<1>5. f.n > lastPoll[d]
  <2>1. CASE client[l].marker
    <3>1. ~(f.n \in lastPoll[d] - Window - 1..lastPoll[d])
      BY <1>1, <2>1, AcceptsNew
    <3>2. f.n >= lastPoll[d] - Window - 1
      <4>1. dev[d].polls - f.n <= Window + 1
        BY <1>1 DEF Polls!Behind
      <4> QED
        BY <1>3, <1>4, <4>1
    <3> QED
      BY <1>3, <1>4, <3>1, <3>2
  <2>2. CASE ~client[l].marker
    BY <1>1, <1>2, <2>2 DEF Course, IsPoll
  <2> QED
    BY <2>1, <2>2
<1>6. <<d, f.n>> \notin answered
  BY <1>3, <1>4, <1>5 DEF Course
<1>7. /\ client' = [client EXCEPT ![l].lastTID = f.tid, ![l].marker = TRUE]
      /\ answered' = answered \cup {<<d, f.n>>} /\ again' = again
      /\ lastPoll' = [lastPoll EXCEPT ![d] = f.n] /\ dev' = dev
  BY <1>1, <1>6 DEF Polls!AnswerPoll
<1>8. PICK r : r = [addr |-> d, lastTID |-> f.tid, marker |-> TRUE]
  OBVIOUS
<1> HIDE DEF l
<1>9. client' = [client EXCEPT ![l] = r]
  <2>1. [[client[l] EXCEPT !.lastTID = f.tid] EXCEPT !.marker = TRUE] = r
    <3>1. PICK a0 \in Sleepers, t0 \in Tids, m0 \in BOOLEAN :
             client[l] = [addr |-> a0, lastTID |-> t0, marker |-> m0]
      BY <1>2
    <3> DEFINE e == [addr |-> a0, lastTID |-> t0, marker |-> m0]
    <3>2. [[e EXCEPT !.lastTID = f.tid] EXCEPT !.marker = TRUE]
             = [addr |-> a0, lastTID |-> f.tid, marker |-> TRUE]
      <4>1. \A t : [e EXCEPT !.lastTID = t] = [addr |-> a0, lastTID |-> t, marker |-> m0]
        OBVIOUS
      <4>2. \A t : \A v \in BOOLEAN :
               [[addr |-> a0, lastTID |-> t, marker |-> m0] EXCEPT !.marker = v]
                  = [addr |-> a0, lastTID |-> t, marker |-> v]
        OBVIOUS
      <4> HIDE DEF e
      <4> QED
        BY <4>1, <4>2, Zenon
    <3>3. client[l] = e /\ a0 = d
      BY <1>2, <3>1
    <3> HIDE DEF e
    <3> QED
      BY <1>8, <3>2, <3>3, Zenon
  <2>2. client' = [[client EXCEPT ![l] = [client[l] EXCEPT !.lastTID = f.tid]] EXCEPT
                      ![l] = [[client EXCEPT ![l] = [client[l] EXCEPT !.lastTID = f.tid]][l]
                                 EXCEPT !.marker = TRUE]]
    BY <1>7
  <2>3. [client EXCEPT ![l] = [client[l] EXCEPT !.lastTID = f.tid]][l]
           = [client[l] EXCEPT !.lastTID = f.tid]
    BY <1>2
  <2>4. client' = [[client EXCEPT ![l] = [client[l] EXCEPT !.lastTID = f.tid]] EXCEPT ![l] = r]
    BY <2>1, <2>2, <2>3
  <2> QED
    BY <2>4
<1>10. r \in Clients /\ r.addr = d /\ r.marker /\ r.lastTID = f.tid
  BY <1>3, <1>8
<1>11. client \in Seq(Clients)
  BY DEF PollTypes
<1>12. client' \in Seq(Clients)
  <2> HIDE DEF Clients
  <2> QED
    BY <1>2, <1>9, <1>10, <1>11, ExceptSeq, LenProperties
<1>13. DOMAIN client' = DOMAIN client
          /\ \A i \in DOMAIN client : client'[i] = IF i = l THEN r ELSE client[i]
  BY <1>2, <1>9
<1>14. \A i \in DOMAIN client : client'[i].addr = client[i].addr
  BY <1>2, <1>10, <1>13
<1>15. \A i, j \in DOMAIN client : client[i].addr = client[j].addr => i = j
  BY DEF PollTypes
<1>16. \A c : Polls!IsClient(c) => Polls!IsClient(c)'
  BY <1>13, <1>14 DEF Polls!IsClient
<1>17. lastPoll' \in [Sleepers -> Nat] /\ lastPoll'[d] = f.n
          /\ \A c \in Sleepers \ {d} : lastPoll'[c] = lastPoll[c]
  BY <1>3, <1>7 DEF PollTypes
<1>18. PollTypes'
  <2>1. \A i, j \in DOMAIN client' : client'[i].addr = client'[j].addr => i = j
    BY <1>13, <1>14, <1>15
  <2>2. \A g \in air' : /\ g.type \in {"poll", "join"} => g.src \in Sleepers
                        /\ g.type = "joined" => g.dst \in Sleepers
                        /\ g.type = "join" => g = [type |-> "join", src |-> g.src]
    <3>1. \A g \in air : /\ g.type \in {"poll", "join"} => g.src \in Sleepers
                         /\ g.type = "joined" => g.dst \in Sleepers
                         /\ g.type = "join" => g = [type |-> "join", src |-> g.src]
      BY DEF PollTypes
    <3> QED
      BY <3>1
  <2>3. dev' \in [Sleepers -> [pc : {"off", "idle", "joining", "listening"},
                              joined : BOOLEAN, tid : Tids, polls : Nat]]
          /\ again' = {}
    BY <1>7 DEF PollTypes
  <2> QED
    BY <1>12, <1>17, <2>1, <2>2, <2>3 DEF PollTypes
<1>19. ASSUME NEW c \in Sleepers \ {d}
       PROVE  Course(c)'
  <2>1. \A n : <<c, n>> \in answered' => <<c, n>> \in answered
    BY <1>7, <1>19
  <2>2. \A i \in DOMAIN client' : client'[i].addr = c =>
                i \in DOMAIN client /\ client'[i] = client[i]
    BY <1>10, <1>13, <1>19
  <2>3. \A g \in air' : (g.type \in {"poll", "join"} /\ g.src = c) \/
                           (g.type = "joined" /\ g.dst = c) => g \in air
    OBVIOUS
  <2> QED
    BY <1>7, <1>16, <1>17, <2>1, <2>2, <2>3, OtherDevice
<1>20. Course(d)'
  <2>1. \A g \in air' : IsPoll(g, d) => g \in air
    BY DEF IsPoll
  <2>2. (JoinSent(d)' => JoinSent(d)) /\ (Awaited(d)' => Awaited(d))
    BY DEF JoinSent, Awaited
  <2>3. \A t, n : InStep(d, t, n)' <=> InStep(d, t, n)
    BY <1>7 DEF InStep
  <2>4. \A n : <<d, n>> \in answered' => n \in Nat /\ n <= lastPoll'[d]
    <3> SUFFICES ASSUME NEW n, <<d, n>> \in answered'
                 PROVE  n \in Nat /\ n <= f.n
      BY <1>17
    <3>1. CASE <<d, n>> \in answered
      <4>1. n \in Nat /\ n <= lastPoll[d]
        BY <3>1 DEF Course
      <4> QED
        BY <1>3, <1>4, <1>5, <4>1
    <3>2. CASE n = f.n
      BY <1>3, <3>2
    <3> QED
      BY <1>7, <3>1, <3>2
  <2>5. ASSUME NEW i \in DOMAIN client', client'[i].addr = d
        PROVE  client'[i].marker /\ InStep(d, client[i].lastTID, lastPoll[d])'
    <3>1. i = l
      BY <1>2, <1>13, <1>14, <1>15, <2>5
    <3>2. client'[i] = r
      BY <1>2, <1>13, <3>1
    <3> QED
      BY <1>3, <1>7, <1>10, <1>17, <3>2 DEF InStep
  <2>6. /\ lastPoll'[d] <= dev'[d].polls
        /\ dev'[d].pc = "off" => ~dev'[d].joined
        /\ dev'[d].joined => Polls!IsClient(d)'
        /\ JoinSent(d)' => ~dev'[d].joined /\ dev'[d].pc # "off" /\ ~Awaited(d)'
        /\ Awaited(d)' => Polls!IsClient(d)' /\ dev'[d].pc # "off"
    BY <1>3, <1>7, <1>16, <1>17, <2>2 DEF Course
  <2>7. \A g \in air' : IsPoll(g, d) =>
          /\ g.tid \in Tids /\ g.n \in Nat /\ g.n <= dev'[d].polls
          /\ dev'[d].joined /\ InStep(d, g.tid, g.n)'
    BY <1>7, <2>1, <2>3 DEF Course
  <2> QED
    BY <2>4, <2>5, <2>6, <2>7 DEF Course, IsPoll
<1> QED
  BY <1>18, <1>19, <1>20

LEMMA NextPolls ==
    ASSUME PollInv, [Polls!Next]_(Polls!vars)
    PROVE  PollInv'
<1> USE DEF PollInv
<1>1. CASE UNCHANGED Polls!vars
  <2>1. UNCHANGED <<client, dev, answered, again, lastPoll, inq, outq, air>>
    BY <1>1 DEF Polls!vars
  <2>2. PollTypes' /\ \A c \in Sleepers : Course(c)'
    BY <2>1, CalmKeeps
  <2> QED
    BY <2>1, <2>2 DEF PollStore
<1>2. CASE \/ \E c \in Sleepers : Polls!JoinSend(c) \/ Polls!WaitOver(c)
           \/ \E c \in Sleepers, e \in Sources \cup {"ap"} : Polls!Poll(c, e)
           \/ \E c \in Sleepers, f \in air : Polls!Joined(c, f)
           \/ \E c \in Sleepers, t \in Tids : Polls!Restart(c, t)
  BY <1>2, DeviceStore, JoinSendKeeps, WaitOverKeeps, PollKeeps, JoinedKeeps, RestartKeeps
<1>3. CASE \/ \E e \in Sources, c \in Sleepers : Polls!Send(e, c)
           \/ \E c \in Sleepers : Polls!SendOwn(c)
           \/ \E f \in air : Polls!Lose(f)
  BY <1>3, DeviceStore, OwnStore, SenderKeeps
<1>4. ASSUME NEW f \in air, Polls!Behind(f), Polls!ReceiveISR(f)
      PROVE  PollInv'
  <2>1. CASE Polls!Store(f) \/ Polls!Pass(f) \/ Polls!IgnorePoll(f)
    BY <2>1, SlotKeepsStore, SenderKeeps
  <2>2. CASE Polls!Join(f)
    BY <2>2, SlotKeepsStore, JoinKeeps
  <2>3. CASE Polls!Forward(f)
    BY <1>4, <2>3, ForwardKeepsStore, AnswerKeeps DEF Polls!Forward
  <2>4. CASE Polls!ForwardOwn(f)
    BY <1>4, <2>4, ForwardOwnKeepsStore, AnswerKeeps DEF Polls!ForwardOwn
  <2>5. CASE Polls!ForwardNone(f)
    <3>1. \A g \in air' : g \in air
      BY <2>5 DEF Polls!ForwardNone, Polls!AnswerPoll, Polls!Taken
    <3> QED
      BY <1>4, <2>5, <3>1, SlotKeepsStore, AnswerKeeps DEF Polls!ForwardNone
  <2> QED
    BY <1>4, <2>1, <2>2, <2>3, <2>4, <2>5 DEF Polls!ReceiveISR
<1> QED
  BY <1>1, <1>2, <1>3, <1>4 DEF Polls!Next

\* A poll is accepted exactly if it is new, and none is answered twice
\* (nwk_checkAppMsgTID, nwk_mgmt.c:244).
THEOREM PollsProved == Spec => []PollsOnce
<1> DEFINE Held == Is("polls") => PollInv
<1>1. Init => Held
  BY InitPolls DEF Init, Is
<1>2. Held /\ [Next]_vars => Held'
  <2>1. [Next]_vars /\ Is("polls")' => Is("polls") /\ [Polls!Next]_(Polls!vars)
    BY DEF Next, Runs, Is, vars, storeVars, Polls!vars
  <2> QED
    BY <2>1, NextPolls
<1>3. Held => PollsOnce
  <2>1. PollInv => Polls!AcceptsExactlyNew
    BY AcceptsNew DEF PollInv, Polls!AcceptsExactlyNew
  <2>2. PollInv => Polls!AnsweredOnce
    BY DEF PollInv, PollTypes, Polls!AnsweredOnce
  <2> QED
    BY <2>1, <2>2 DEF PollsOnce
<1> QED
  BY <1>1, <1>2, <1>3, PTL DEF Spec

(***************************************************************************)
(* The order of the messages that wait.                                    *)
(***************************************************************************)

LEMMA OrderSlots ==
    /\ Order!Slots = 1..OrderQueue
    /\ \A q : Order!InUse(q) = Inq(OrderQueue)!InUse(q)
    /\ \A q, S : Order!OldestOf(q, S) = Inq(OrderQueue)!OldestOf(q, S)
    /\ \A q, stamp : Order!AdjustOrder(q, stamp) = Inq(OrderQueue)!AdjustOrder(q, stamp)
    /\ \A q : Order!SlotFound(q) = Inq(OrderQueue)!SlotFound(q)
    /\ \A f : Order!Received(f) = Taking(inq, f, OrderQueue)
<1>1. Order!Slots = 1..OrderQueue /\ Inq(OrderQueue)!Slots = 1..OrderQueue
  BY DEF Order!Slots, Inq!Slots
<1>2. \A q : Order!InUse(q) = Inq(OrderQueue)!InUse(q)
  BY <1>1 DEF Order!InUse, Inq!InUse
<1>3. \A q, S : Order!OldestOf(q, S) = Inq(OrderQueue)!OldestOf(q, S)
  BY DEF Order!OldestOf, Inq!OldestOf
<1>4. \A q, stamp : Order!AdjustOrder(q, stamp) = Inq(OrderQueue)!AdjustOrder(q, stamp)
  BY <1>1, <1>2 DEF Order!AdjustOrder, Inq!AdjustOrder
<1>5. ASSUME NEW q
      PROVE  Order!SlotFound(q) = Inq(OrderQueue)!SlotFound(q)
  <2>1. \A S : Order!Max(S) = Inq(OrderQueue)!Max(S)
    BY DEF Order!Max, Inq!Max
  <2>2. Order!Castable(q) = Inq(OrderQueue)!Castable(q)
    BY <1>2 DEF Order!Castable, Inq!Castable
  <2> QED
    BY <1>1, <1>2, <1>3, <2>1, <2>2 DEF Order!SlotFound, Inq!SlotFound
<1>6. ASSUME NEW q, NEW s
      PROVE  Order!Stamped(q, s) = Inq(OrderQueue)!Stamped(q, s)
  <2>1. \A S : Order!Cardinality(S) = Inq(OrderQueue)!Cardinality(S)
    BY DEF Order!Cardinality, Inq!Cardinality
  <2> QED
    BY <1>2, <1>4, <2>1 DEF Order!Stamped, Inq!Stamped
<1> QED
  BY <1>1, <1>2, <1>3, <1>4, <1>5, <1>6 DEF Order!Received, Taking

LEMMA OrderSequences ==
    /\ \A w, m : Order!RemoveFirst(w, m) = RemoveFirst(w, m)
    /\ \A w, m : Order!Contains(w, m) <=> Contains(w, m)
    /\ \A w : Order!ToSet(w) = ToSet(w)
    /\ \A S : Order!Cardinality(S) = Cardinality(S)
<1>1. \A S : Order!Min(S) = Min(S)
  BY DEF Order!Min, Min
<1>2. \A w, k : Order!RemoveAt(w, k) = RemoveAt(w, k)
  BY DEF Order!RemoveAt, RemoveAt
<1>3. ASSUME NEW w, NEW m
      PROVE  Order!RemoveFirst(w, m) = RemoveFirst(w, m)
  BY <1>1, <1>2 DEF Order!RemoveFirst, RemoveFirst, Order!SelectInSeq, SelectInSeq
<1> QED
  BY <1>3 DEF Order!Contains, Contains, Order!ToSet, ToSet, Order!Cardinality, Cardinality

InUseOf(q, n) == {s \in 1..n : q[s].usage # "available"}

\* w's messages are in the slots in use, each in the one whose stamp is its position.
Positions(w, q, n, M) ==
    /\ w \in Seq(M) /\ IsInjective(w)
    /\ \A s \in InUseOf(q, n) : q[s].stamp \in 1..Len(w) /\ w[q[s].stamp] = q[s].frame
    /\ \A i \in 1..Len(w) : \E s \in InUseOf(q, n) : q[s].stamp = i
    /\ \A s, r \in InUseOf(q, n) : q[s].stamp = q[r].stamp => s = r

LEMMA PositionsCount ==
    ASSUME NEW M, NEW n \in Nat, NEW q, NEW w, Positions(w, q, n, M)
    PROVE  /\ ToSet(w) = {q[s].frame : s \in InUseOf(q, n)}
           /\ Len(w) = Cardinality(InUseOf(q, n)) /\ Len(w) \in 0..n
<1> DEFINE U == InUseOf(q, n)
<1>1. U \in SUBSET (1..n)
  BY DEF InUseOf
<1>2. Len(w) \in Nat /\ DOMAIN w = 1..Len(w)
  BY LenProperties DEF Positions
<1>3. \A s \in U : q[s].stamp \in 1..Len(w) /\ w[q[s].stamp] = q[s].frame
  BY DEF Positions
<1>4. \A i \in 1..Len(w) : \E s \in U : q[s].stamp = i
  BY DEF Positions
<1>5. \A s, r \in U : q[s].stamp = q[r].stamp => s = r
  BY DEF Positions
<1> HIDE DEF U
<1>6. ToSet(w) = {q[s].frame : s \in U}
  <2>1. ASSUME NEW x \in ToSet(w)
        PROVE  \E s \in U : x = q[s].frame
    <3>1. PICK i \in 1..Len(w) : x = w[i]
      BY <1>2 DEF ToSet
    <3>2. PICK s \in U : q[s].stamp = i
      BY <1>4
    <3> QED
      BY <1>3, <3>1, <3>2
  <2>2. ASSUME NEW s \in U
        PROVE  q[s].frame \in ToSet(w)
    <3>1. q[s].stamp \in 1..Len(w) /\ w[q[s].stamp] = q[s].frame
      BY <1>3
    <3> QED
      BY <1>2, <3>1 DEF ToSet
  <2> QED
    BY <2>1, <2>2
<1>7. Cardinality(U) = Len(w)
  <2> DEFINE b == [s \in U |-> q[s].stamp]
  <2>1. b \in Bijection(U, 1..Len(w))
    <3>1. b \in [U -> 1..Len(w)]
      BY <1>3
    <3>2. \A s, r \in U : b[s] = b[r] => s = r
      BY <1>5
    <3>3. \A i \in 1..Len(w) : \E s \in U : b[s] = i
      BY <1>4
    <3> QED
      BY <3>1, <3>2, <3>3 DEF Bijection, Injection, Surjection, IsInjective
  <2>2. ExistsBijection(U, 1..Len(w))
    BY <2>1 DEF ExistsBijection
  <2>3. IsFiniteSet(U)
    BY <1>1, InqFinite
  <2>4. Cardinality(1..Len(w)) = Len(w) /\ IsFiniteSet(1..Len(w))
    <3>1. PICK k \in Nat : k = Len(w)
      BY <1>2
    <3>2. Cardinality(1..k) = k /\ IsFiniteSet(1..k)
      BY FS_Interval
    <3> QED
      BY <3>1, <3>2
  <2> QED
    BY <2>2, <2>3, <2>4, FS_Bijection
<1>8. Cardinality(U) \in 0..n
  BY <1>1, InqFinite
<1> QED
  BY <1>6, <1>7, <1>8 DEF U

\* Only the slots in use matter.
LEMMA PositionsSame ==
    ASSUME NEW M, NEW n \in Nat, NEW q, NEW w, Positions(w, q, n, M), NEW p,
           InUseOf(p, n) = InUseOf(q, n),
           \A s \in InUseOf(q, n) : p[s].stamp = q[s].stamp /\ p[s].frame = q[s].frame
    PROVE  Positions(w, p, n, M)
  BY DEF Positions

\* A message leaves its slot, and the stamps after its own are closed up.
LEMMA PositionsLess ==
    ASSUME NEW M, NEW n \in Nat, NEW q, NEW w, Positions(w, q, n, M),
           NEW x \in InUseOf(q, n), NEW p, InUseOf(p, n) = InUseOf(q, n) \ {x},
           \A s \in InUseOf(q, n) \ {x} :
              /\ p[s].frame = q[s].frame
              /\ p[s].stamp = IF q[s].stamp > q[x].stamp THEN q[s].stamp - 1 ELSE q[s].stamp
    PROVE  Positions(RemoveFirst(w, q[x].frame), p, n, M)
<1> DEFINE U == InUseOf(q, n)
           V == InUseOf(p, n)
           k == q[x].stamp
           v == RemoveFirst(w, q[x].frame)
<1>1. w \in Seq(M) /\ IsInjective(w) /\ Len(w) \in Nat /\ DOMAIN w = 1..Len(w)
  BY LenProperties DEF Positions
<1>2. k \in 1..Len(w) /\ w[k] = q[x].frame
  BY DEF Positions
<1>3. v = RemoveAt(w, k)
  BY <1>1, <1>2, RemoveFirstIs
<1>4. /\ v \in Seq(M) /\ Len(v) = Len(w) - 1 /\ IsInjective(v)
      /\ \A i \in 1..Len(w) - 1 : v[i] = IF i < k THEN w[i] ELSE w[i + 1]
  <2>1. /\ RemoveAt(w, k) \in Seq(M) /\ Len(RemoveAt(w, k)) = Len(w) - 1
        /\ \A i \in 1..Len(w) - 1 : RemoveAt(w, k)[i] = IF i < k THEN w[i] ELSE w[i + 1]
    BY <1>1, <1>2, RemoveAtProperties
  <2>2. IsInjective(RemoveAt(w, k))
    BY <1>1, <1>2, RemoveAtOnce
  <2> QED
    BY <1>3, <2>1, <2>2
<1>5. /\ \A s \in U : q[s].stamp \in 1..Len(w) /\ w[q[s].stamp] = q[s].frame
      /\ \A i \in 1..Len(w) : \E s \in U : q[s].stamp = i
      /\ \A s, r \in U : q[s].stamp = q[r].stamp => s = r
  BY DEF Positions
<1>6. /\ V = U \ {x} /\ x \in U
      /\ \A s \in V : /\ p[s].frame = q[s].frame
                      /\ p[s].stamp = IF q[s].stamp > k THEN q[s].stamp - 1 ELSE q[s].stamp
  OBVIOUS
<1> HIDE DEF U, V, k, v
<1>7. \A s \in V : q[s].stamp # k
  BY <1>5, <1>6 DEF k
<1>8. ASSUME NEW s \in V
      PROVE  p[s].stamp \in 1..Len(v) /\ v[p[s].stamp] = p[s].frame
  <2>1. q[s].stamp \in 1..Len(w) /\ q[s].stamp # k /\ w[q[s].stamp] = q[s].frame
    BY <1>5, <1>6, <1>7
  <2>2. p[s].stamp = (IF q[s].stamp > k THEN q[s].stamp - 1 ELSE q[s].stamp)
           /\ p[s].frame = q[s].frame
    BY <1>6
  <2>3. CASE q[s].stamp > k
    <3>1. p[s].stamp \in 1..Len(w) - 1 /\ ~(p[s].stamp < k) /\ p[s].stamp + 1 = q[s].stamp
      BY <1>1, <1>2, <2>1, <2>2, <2>3
    <3> QED
      BY <1>4, <2>1, <2>2, <3>1
  <2>4. CASE ~(q[s].stamp > k)
    <3>1. p[s].stamp \in 1..Len(w) - 1 /\ p[s].stamp < k /\ p[s].stamp = q[s].stamp
      BY <1>1, <1>2, <2>1, <2>2, <2>4
    <3> QED
      BY <1>4, <2>1, <2>2, <3>1
  <2> QED
    BY <2>3, <2>4
<1>9. ASSUME NEW i \in 1..Len(v)
      PROVE  \E s \in V : p[s].stamp = i
  <2>1. i \in 1..Len(w) /\ i + 1 \in 1..Len(w)
    BY <1>1, <1>4
  <2>2. CASE i < k
    <3>1. PICK s \in U : q[s].stamp = i
      BY <1>5, <2>1
    <3>2. s \in V /\ ~(q[s].stamp > k)
      BY <1>1, <1>2, <1>6, <2>2, <3>1 DEF k
    <3> QED
      BY <1>6, <3>1, <3>2
  <2>3. CASE ~(i < k)
    <3>1. PICK s \in U : q[s].stamp = i + 1
      BY <1>5, <2>1
    <3>2. s \in V /\ q[s].stamp > k
      BY <1>1, <1>2, <1>6, <2>3, <3>1 DEF k
    <3> QED
      BY <1>6, <2>1, <3>1, <3>2
  <2> QED
    BY <2>2, <2>3
<1>10. ASSUME NEW s \in V, NEW r \in V, p[s].stamp = p[r].stamp
       PROVE  s = r
  <2>1. /\ q[s].stamp \in 1..Len(w) /\ q[s].stamp # k /\ s \in U
        /\ q[r].stamp \in 1..Len(w) /\ q[r].stamp # k /\ r \in U
    BY <1>5, <1>6, <1>7
  <2>2. q[s].stamp = q[r].stamp
    BY <1>1, <1>2, <1>6, <1>10, <2>1
  <2> QED
    BY <1>5, <2>1, <2>2
<1> QED
  BY <1>4, <1>8, <1>9, <1>10 DEF Positions, V, v

\* A message comes to the end.
LEMMA PositionsMore ==
    ASSUME NEW M, NEW n \in Nat, NEW q, NEW w, Positions(w, q, n, M),
           NEW x, x \notin InUseOf(q, n), NEW p, InUseOf(p, n) = InUseOf(q, n) \cup {x},
           \A s \in InUseOf(q, n) : p[s].frame = q[s].frame /\ p[s].stamp = q[s].stamp,
           p[x].frame \in M, p[x].frame \notin ToSet(w), p[x].stamp = Len(w) + 1
    PROVE  Positions(Append(w, p[x].frame), p, n, M)
<1> DEFINE U == InUseOf(q, n)
           V == InUseOf(p, n)
           f == p[x].frame
           v == Append(w, f)
<1>1. w \in Seq(M) /\ IsInjective(w) /\ Len(w) \in Nat /\ DOMAIN w = 1..Len(w)
  BY LenProperties DEF Positions
<1>2. /\ v \in Seq(M) /\ Len(v) = Len(w) + 1 /\ IsInjective(v)
      /\ v[Len(w) + 1] = f /\ \A i \in 1..Len(w) : v[i] = w[i]
  <2>1. v \in Seq(M) /\ Len(v) = Len(w) + 1
        /\ v[Len(w) + 1] = f /\ \A i \in 1..Len(w) : v[i] = w[i]
    BY <1>1, AppendProperties
  <2>2. IsInjective(v)
    BY <1>1, AppendOnce
  <2> QED
    BY <2>1, <2>2
<1>3. /\ \A s \in U : q[s].stamp \in 1..Len(w) /\ w[q[s].stamp] = q[s].frame
      /\ \A i \in 1..Len(w) : \E s \in U : q[s].stamp = i
      /\ \A s, r \in U : q[s].stamp = q[r].stamp => s = r
  BY DEF Positions
<1>4. V = U \cup {x} /\ \A s \in U : p[s].frame = q[s].frame /\ p[s].stamp = q[s].stamp
  OBVIOUS
<1>5. p[x].stamp = Len(w) + 1 /\ p[x].frame = f
  OBVIOUS
<1> HIDE DEF U, V, f, v
<1>6. ASSUME NEW s \in V
      PROVE  p[s].stamp \in 1..Len(v) /\ v[p[s].stamp] = p[s].frame
  <2>1. CASE s \in U
    <3>1. p[s].stamp \in 1..Len(w) /\ w[p[s].stamp] = p[s].frame
      BY <1>3, <1>4, <2>1
    <3> QED
      BY <1>1, <1>2, <3>1
  <2>2. CASE s = x
    BY <1>1, <1>2, <1>5, <2>2
  <2> QED
    BY <1>4, <2>1, <2>2
<1>7. ASSUME NEW i \in 1..Len(v)
      PROVE  \E s \in V : p[s].stamp = i
  <2>1. i \in 1..Len(w) \/ i = Len(w) + 1
    BY <1>1, <1>2
  <2> QED
    BY <1>3, <1>4, <1>5, <2>1
<1>8. ASSUME NEW s \in V, NEW r \in V, p[s].stamp = p[r].stamp
      PROVE  s = r
  <2>1. \A t \in U : p[t].stamp # Len(w) + 1
    BY <1>1, <1>3, <1>4
  <2> QED
    BY <1>3, <1>4, <1>5, <1>8, <2>1
<1> QED
  BY <1>2, <1>6, <1>7, <1>8 DEF Positions, V, v, f

\* What is left when a frame has been served and its slot is free again.
LeftOf(w, q, n) == IF Inq(n)!SlotFound(q) \in InUseOf(q, n)
                   THEN RemoveFirst(w, q[Inq(n)!SlotFound(q)].frame) ELSE w

LEMMA ServedStamps ==
    ASSUME NEW n \in Nat \ {0}, NEW q, IsInq(q, n), NEW f,
           NEW u \in {"available", "until_fwd"}, NEW s \in 1..n,
           NEW x, x = Inq(n)!SlotFound(q)
    PROVE  Served(q, f, u, n)[s].stamp =
               IF s = x THEN IF q[x].usage # "available" THEN n
                             ELSE Cardinality(Inq(n)!InUse(q)) + 1
               ELSE IF q[x].usage # "available" /\ q[s].stamp > q[x].stamp
                    THEN q[s].stamp - 1 ELSE q[s].stamp
<1> DEFINE t == Taking(q, f, n)
<1>1. x \in 1..n
  BY SlotIsFound
<1>2. /\ IsInq(t, n)
      /\ t[s].stamp = IF s = x THEN IF q[x].usage # "available" THEN n
                                    ELSE Cardinality(Inq(n)!InUse(q)) + 1
                      ELSE IF q[x].usage # "available" /\ q[s].stamp > q[x].stamp
                           THEN q[s].stamp - 1 ELSE q[s].stamp
  BY TakenSlot
<1>3. Served(q, f, u, n) = Using(t, x, u)
  BY DEF Served
<1> HIDE DEF t
<1>4. Using(t, x, u)[s].stamp = t[s].stamp
  BY <1>1, <1>2, UsedSlot
<1> QED
  BY <1>2, <1>3, <1>4

LEMMA ServedPositions ==
    ASSUME NEW M, NEW n \in Nat \ {0}, NEW q, IsInq(q, n), NEW w, Positions(w, q, n, M), NEW f
    PROVE  Positions(LeftOf(w, q, n), Served(q, f, "available", n), n, M)
<1> DEFINE x == Inq(n)!SlotFound(q)
           p == Served(q, f, "available", n)
<1>1. /\ x \in 1..n /\ p[x].usage = "available"
      /\ \A s \in (1..n) \ {x} : p[s].usage = q[s].usage /\ p[s].frame = q[s].frame
  BY ServedSlots
<1>2. \A s \in (1..n) \ {x} :
         p[s].stamp = IF q[x].usage # "available" /\ q[s].stamp > q[x].stamp
                      THEN q[s].stamp - 1 ELSE q[s].stamp
  BY ServedStamps
<1>3. LeftOf(w, q, n) = IF x \in InUseOf(q, n) THEN RemoveFirst(w, q[x].frame) ELSE w
  BY DEF LeftOf
<1> HIDE DEF x, p
<1>4. InUseOf(p, n) = InUseOf(q, n) \ {x}
  BY <1>1 DEF InUseOf
<1>5. CASE x \in InUseOf(q, n)
  <2>1. \A s \in InUseOf(q, n) \ {x} :
           /\ p[s].frame = q[s].frame
           /\ p[s].stamp = IF q[s].stamp > q[x].stamp THEN q[s].stamp - 1 ELSE q[s].stamp
    BY <1>1, <1>2, <1>5 DEF InUseOf
  <2> QED
    BY <1>3, <1>4, <1>5, <2>1, PositionsLess DEF p
<1>6. CASE x \notin InUseOf(q, n)
  <2>1. q[x].usage = "available" /\ InUseOf(p, n) = InUseOf(q, n)
    BY <1>1, <1>4, <1>6 DEF InUseOf
  <2>2. \A s \in InUseOf(q, n) : p[s].frame = q[s].frame /\ p[s].stamp = q[s].stamp
    BY <1>1, <1>2, <1>6, <2>1 DEF InUseOf
  <2> QED
    BY <1>3, <1>6, <2>1, <2>2, PositionsSame DEF p
<1> QED
  BY <1>5, <1>6

LEMMA StoredPositions ==
    ASSUME NEW M, NEW n \in Nat \ {0}, NEW q, IsInq(q, n), NEW w, Positions(w, q, n, M),
           Inq(n)!SlotFound(q) \notin InUseOf(q, n), NEW f \in M, f \notin ToSet(w)
    PROVE  Positions(Append(w, f), Served(q, f, "until_fwd", n), n, M)
<1> DEFINE x == Inq(n)!SlotFound(q)
           p == Served(q, f, "until_fwd", n)
<1>1. /\ x \in 1..n /\ p[x].usage = "until_fwd" /\ p[x].frame = f
      /\ \A s \in (1..n) \ {x} : p[s].usage = q[s].usage /\ p[s].frame = q[s].frame
  BY ServedSlots
<1>2. q[x].usage = "available"
  BY <1>1 DEF InUseOf
<1>3. \A s \in (1..n) \ {x} : p[s].stamp = q[s].stamp
  BY <1>2, ServedStamps
<1>4. p[x].stamp = Cardinality(Inq(n)!InUse(q)) + 1
  BY <1>1, <1>2, ServedStamps
<1>5. Cardinality(Inq(n)!InUse(q)) = Len(w)
  BY PositionsCount DEF Inq!InUse, Inq!Slots, InUseOf
<1>6. x \notin InUseOf(q, n)
  OBVIOUS
<1> HIDE DEF x, p
<1>7. InUseOf(p, n) = InUseOf(q, n) \cup {x}
  BY <1>1 DEF InUseOf
<1>8. \A s \in InUseOf(q, n) : p[s].frame = q[s].frame /\ p[s].stamp = q[s].stamp
  BY <1>1, <1>2, <1>3 DEF InUseOf
<1>9. p[x].frame \in M /\ p[x].frame \notin ToSet(w) /\ p[x].stamp = Len(w) + 1
  BY <1>1, <1>4, <1>5
<1>10. Positions(Append(w, p[x].frame), p, n, M)
  BY <1>6, <1>7, <1>8, <1>9, PositionsMore
<1> QED
  BY <1>1, <1>10 DEF p

(***************************************************************************)
(* The messages that wait for the clients of Order.                        *)
(***************************************************************************)

OrderData ==
    {m \in [type : {"data"}, id : Nat, src : Sources, dst : Sleepers,
            port : {Port[l] : l \in Sleepers \X Sources}] :
        m.port = Port[<<m.dst, m.src>>]}

OrderInv ==
    /\ sends \in Nat
    /\ IsInq(inq, OrderQueue)
    /\ Positions(waiting, inq, OrderQueue, OrderData)
    /\ outq = [s \in 1..OutQueue |-> NoFrame]
    /\ \A f \in air : f.type = "data" => f \in OrderData

LEMMA OrderDataIs ==
    ASSUME NEW m \in OrderData
    PROVE  /\ m.type = "data" /\ m.port = Port[<<m.dst, m.src>>]
           /\ m = [type |-> "data", id |-> m.id, src |-> m.src, dst |-> m.dst,
                   port |-> m.port]
  BY DEF OrderData

LEMMA OrderLeft ==
    /\ InUseOf(inq, OrderQueue) = Order!InUse(inq)
    /\ Order!Left = LeftOf(waiting, inq, OrderQueue)
<1>1. InUseOf(inq, OrderQueue) = Order!InUse(inq)
  BY OrderSlots DEF Order!InUse, InUseOf
<1> QED
  BY <1>1, OrderSlots, OrderSequences DEF Order!Left, LeftOf

LEMMA InitOrder ==
    ASSUME Order!Init
    PROVE  OrderInv
<1>1. inq = [s \in 1..OrderQueue |-> [usage |-> "available", stamp |-> 0, frame |-> NoFrame]]
  BY OrderSlots DEF Order!Init, Order!QInit, Order!Slot
<1>2. IsInq(inq, OrderQueue) /\ InUseOf(inq, OrderQueue) = {}
  BY <1>1 DEF IsInq, InUseOf
<1>3. waiting = <<>> /\ waiting \in Seq(OrderData) /\ Len(waiting) = 0
  BY DEF Order!Init
<1>4. IsInjective(waiting)
  BY <1>3 DEF IsInjective
<1>5. Positions(waiting, inq, OrderQueue, OrderData)
  BY <1>2, <1>3, <1>4 DEF Positions
<1> QED
  BY <1>2, <1>5 DEF Order!Init, OrderInv

\* The devices.
LEMMA DeviceOrder ==
    ASSUME OrderInv,
           \/ \E c \in Sleepers : Order!JoinSend(c) \/ Order!WaitOver(c)
           \/ \E c \in Sleepers, e \in Sources \cup {"ap"} : Order!Poll(c, e)
           \/ \E c \in Sleepers, f \in air : Order!Joined(c, f)
           \/ \E c \in Sleepers, t \in {3} : Order!Restart(c, t)
           \/ \E e \in Sources, c \in Sleepers : Order!Send(e, c)
           \/ \E f \in air : Order!Lose(f)
    PROVE  OrderInv' /\ \A f \in air' \ air : f.type \in {"join", "poll", "data"}
<1>1. inq' = inq /\ outq' = outq /\ waiting' = waiting
  BY DEF Order!JoinSend, Order!WaitOver, Order!Poll, Order!Joined, Order!Restart,
     Order!Send, Order!Lose
<1>2. /\ sends' \in Nat
      /\ \A f \in air' \ air : /\ f.type \in {"join", "poll", "data"}
                               /\ f.type = "data" => f \in OrderData
  <2>1. CASE \E c \in Sleepers : Order!JoinSend(c) \/ Order!WaitOver(c)
    BY <2>1 DEF Order!JoinSend, Order!WaitOver, OrderInv
  <2>2. CASE \E c \in Sleepers, e \in Sources \cup {"ap"} : Order!Poll(c, e)
    <3>1. PICK c \in Sleepers, e \in Sources \cup {"ap"} : Order!Poll(c, e)
      BY <2>2
    <3>2. /\ sends' = sends
          /\ air' = air \cup {Order!PollFrame(c, dev[c].tid, dev[c].polls + 1, e)}
      BY <3>1 DEF Order!Poll
    <3>3. Order!PollFrame(c, dev[c].tid, dev[c].polls + 1, e).type = "poll"
      BY DEF Order!PollFrame
    <3> QED
      BY <3>2, <3>3 DEF OrderInv
  <2>3. CASE \/ \E c \in Sleepers, g \in air : Order!Joined(c, g)
             \/ \E c \in Sleepers, t \in {3} : Order!Restart(c, t)
             \/ \E g \in air : Order!Lose(g)
    BY <2>3 DEF Order!Joined, Order!Restart, Order!Lose, OrderInv
  <2>4. CASE \E e \in Sources, c \in Sleepers : Order!Send(e, c)
    <3>1. PICK e \in Sources, c \in Sleepers : Order!Send(e, c)
      BY <2>4
    <3>2. sends' = sends + 1 /\ air' = air \cup {Order!Data(sends', e, c)}
      BY <3>1 DEF Order!Send
    <3>3. sends' \in Nat
      BY <3>2 DEF OrderInv
    <3>4. PICK i \in Nat : i = sends'
      BY <3>3
    <3>5. Order!Data(i, e, c)
             = [type |-> "data", id |-> i, src |-> e, dst |-> c, port |-> Port[<<c, e>>]]
      BY DEF Order!Data
    <3>6. Order!Data(i, e, c) \in OrderData /\ Order!Data(i, e, c).type = "data"
      BY <3>5 DEF OrderData
    <3> QED
      BY <3>2, <3>3, <3>4, <3>6
  <2> QED
    BY <2>1, <2>2, <2>3, <2>4
<1>3. \A f \in air' : f.type = "data" => f \in OrderData
  BY <1>2 DEF OrderInv
<1> QED
  BY <1>1, <1>2, <1>3 DEF OrderInv

\* The interrupt: what it answers is no message.
LEMMA SlotOrder ==
    ASSUME OrderInv, NEW f \in air,
           Order!Store(f) \/ Order!Pass(f) \/ Order!Join(f) \/ Order!IgnorePoll(f)
                          \/ Order!ForwardNone(f)
    PROVE  OrderInv' /\ \A g \in air' \ air : g.type = "joined"
<1> DEFINE x == Inq(OrderQueue)!SlotFound(inq)
           left == LeftOf(waiting, inq, OrderQueue)
           freed == Served(inq, f, "available", OrderQueue)
<1>1. OrderQueue \in Nat \ {0} /\ IsInq(inq, OrderQueue)
         /\ Positions(waiting, inq, OrderQueue, OrderData)
  BY StoreAssumed DEF OrderInv
<1>2. IsInq(freed, OrderQueue) /\ Positions(left, freed, OrderQueue, OrderData)
  BY <1>1, ServedSlots, ServedPositions
<1>3. \A u : Order!Dispose(Order!Received(f), u) = Served(inq, f, u, OrderQueue)
  BY OrderSlots DEF Order!Dispose, Served, Using
<1>4. ASSUME Order!Pass(f) \/ Order!Join(f) \/ Order!IgnorePoll(f) \/ Order!ForwardNone(f)
      PROVE  IsInq(inq', OrderQueue) /\ Positions(waiting', inq', OrderQueue, OrderData)
  <2>1. inq' = freed /\ waiting' = left
    BY <1>3, <1>4, OrderLeft DEF Order!Pass, Order!Join, Order!IgnorePoll, Order!ForwardNone
  <2> QED
    BY <1>2, <2>1
<1>5. ASSUME Order!Store(f)
      PROVE  IsInq(inq', OrderQueue) /\ Positions(waiting', inq', OrderQueue, OrderData)
  <2> DEFINE q == Order!Received(f)
  <2>1. /\ f \in OrderData
        /\ inq' = IF Order!IsDup(q, f) THEN freed ELSE Served(inq, f, "until_fwd", OrderQueue)
        /\ waiting' = IF Order!IsDup(q, f) THEN left ELSE Append(left, f)
    BY <1>3, <1>5, OrderLeft DEF Order!Store, OrderInv
  <2>2. CASE Order!IsDup(q, f)
    BY <1>2, <2>1, <2>2
  <2>3. CASE ~Order!IsDup(q, f)
    <3>1. /\ x \in 1..OrderQueue
          /\ \A s \in 1..OrderQueue : /\ q[s].usage = inq[s].usage
                                      /\ q[s].frame = IF s = x THEN f ELSE inq[s].frame
      BY <1>1, OrderSlots, TakenSlot, SlotIsFound
    <3>2. \A s \in 1..OrderQueue : ~(q[s].usage = "until_fwd" /\ q[s].frame = f)
      BY <2>3, OrderSlots DEF Order!IsDup
    <3> HIDE DEF q, x
    <3>3. \A s \in 1..OrderQueue : inq[s].usage \in {"available", "until_fwd"}
      BY <1>1 DEF IsInq
    <3>4. x \notin InUseOf(inq, OrderQueue)
      BY <3>1, <3>2, <3>3 DEF InUseOf
    <3>5. f \notin {inq[s].frame : s \in InUseOf(inq, OrderQueue)}
      BY <3>1, <3>2, <3>3, <3>4 DEF InUseOf
    <3>6. f \notin ToSet(waiting)
      BY <1>1, <3>5, PositionsCount
    <3>7. left = waiting
      BY <3>4 DEF LeftOf, x
    <3>8. IsInq(Served(inq, f, "until_fwd", OrderQueue), OrderQueue)
             /\ Positions(Append(waiting, f), Served(inq, f, "until_fwd", OrderQueue),
                          OrderQueue, OrderData)
      BY <1>1, <2>1, <3>4, <3>6, ServedSlots, StoredPositions DEF x
    <3> QED
      BY <2>1, <2>3, <3>7, <3>8
  <2> QED
    BY <2>2, <2>3
<1>6. IsInq(inq', OrderQueue) /\ Positions(waiting', inq', OrderQueue, OrderData)
  BY <1>4, <1>5
<1>7. outq' = outq /\ sends' = sends
  BY DEF Order!Store, Order!Pass, Order!Join, Order!IgnorePoll, Order!ForwardNone,
     Order!AnswerPoll
<1>8. \A g \in air' \ air : g.type = "joined"
  BY DEF Order!Store, Order!Pass, Order!Join, Order!IgnorePoll, Order!ForwardNone,
     Order!AnswerPoll, Order!Taken
<1>9. \A g \in air' : g.type = "data" => g \in OrderData
  BY <1>8 DEF OrderInv
<1> QED
  BY <1>6, <1>7, <1>8, <1>9 DEF OrderInv

LEMMA AdjustedSlot ==
    ASSUME NEW n \in Nat, NEW q, IsInq(q, n), NEW stamp \in Nat, NEW s \in 1..n
    PROVE  /\ Inq(n)!AdjustOrder(q, stamp)[s].usage = q[s].usage
           /\ Inq(n)!AdjustOrder(q, stamp)[s].frame = q[s].frame
           /\ Inq(n)!AdjustOrder(q, stamp)[s].stamp =
                  IF s \in Inq(n)!InUse(q) /\ q[s].stamp > stamp THEN q[s].stamp - 1
                  ELSE q[s].stamp
  BY AdjustedInq

SameFrames(p, q, n) == \A r \in InUseOf(p, n) : p[r].frame = q[r].frame

\* The stamps when the message of slot s is taken after f has come in.
LEMMA TakenPositions ==
    ASSUME NEW M, NEW n \in Nat \ {0}, NEW q, IsInq(q, n), NEW w, Positions(w, q, n, M), NEW f,
           NEW x, x = Inq(n)!SlotFound(q), NEW s \in InUseOf(q, n) \ {x},
           NEW stamp, stamp = Taking(q, f, n)[s].stamp, NEW p,
           p = Using(Adjusted(q, f, stamp, n), s, "available")
    PROVE  /\ IsInq(p, n)
           /\ Positions(RemoveFirst(LeftOf(w, q, n), q[s].frame), p, n, M)
           /\ InUseOf(p, n) = InUseOf(q, n) \ {x, s}
           /\ SameFrames(p, q, n)
<1> DEFINE t == Taking(q, f, n)
           a == Inq(n)!AdjustOrder(t, stamp)
           b == Using(a, x, "available")
           d == Served(q, f, "available", n)
<1>1. x \in 1..n /\ s \in 1..n
  BY SlotIsFound DEF InUseOf
<1>2. /\ IsInq(t, n)
      /\ \A r \in 1..n :
           /\ t[r].usage = q[r].usage /\ t[r].frame = IF r = x THEN f ELSE q[r].frame
           /\ r # x => t[r].stamp = IF q[x].usage # "available" /\ q[r].stamp > q[x].stamp
                                    THEN q[r].stamp - 1 ELSE q[r].stamp
  BY TakenSlot
<1>3. p = Using(b, s, "available") /\ stamp = t[s].stamp
  BY DEF Adjusted
<1>4. Inq(n)!InUse(t) = {r \in 1..n : t[r].usage # "available"}
  BY DEF Inq!InUse, Inq!Slots
<1> HIDE DEF t, a
<1>5. stamp \in Nat
  BY <1>1, <1>2, <1>3 DEF IsInq
<1>6. /\ IsInq(a, n)
      /\ \A r \in 1..n :
           /\ a[r].usage = t[r].usage /\ a[r].frame = t[r].frame
           /\ a[r].stamp = IF r \in Inq(n)!InUse(t) /\ t[r].stamp > stamp
                           THEN t[r].stamp - 1 ELSE t[r].stamp
  <2>1. IsInq(a, n)
    BY <1>2, <1>5, AdjustedInq DEF a
  <2>2. IsInq(t, n)
    BY <1>2
  <2>3. ASSUME NEW r \in 1..n
        PROVE  /\ a[r].usage = t[r].usage /\ a[r].frame = t[r].frame
               /\ a[r].stamp = IF r \in Inq(n)!InUse(t) /\ t[r].stamp > stamp
                               THEN t[r].stamp - 1 ELSE t[r].stamp
    BY <1>5, <2>2, AdjustedSlot DEF a
  <2> QED
    BY <2>1, <2>3
<1>7. /\ IsInq(b, n)
      /\ \A r \in 1..n : /\ b[r].usage = IF r = x THEN "available" ELSE a[r].usage
                         /\ b[r].frame = a[r].frame /\ b[r].stamp = a[r].stamp
  <2>1. IsInq(b, n)
    BY <1>1, <1>6, UsedInq
  <2>2. ASSUME NEW r \in 1..n
        PROVE  /\ b[r].usage = IF r = x THEN "available" ELSE a[r].usage
               /\ b[r].frame = a[r].frame /\ b[r].stamp = a[r].stamp
    BY <1>1, <1>6, UsedSlot
  <2> QED
    BY <2>1, <2>2
<1> HIDE DEF b
<1>8. /\ IsInq(p, n)
      /\ \A r \in 1..n : /\ p[r].usage = IF r = s THEN "available" ELSE b[r].usage
                         /\ p[r].frame = b[r].frame /\ p[r].stamp = b[r].stamp
  <2>1. IsInq(p, n)
    BY <1>1, <1>3, <1>7, UsedInq
  <2>2. ASSUME NEW r \in 1..n
        PROVE  /\ p[r].usage = IF r = s THEN "available" ELSE b[r].usage
               /\ p[r].frame = b[r].frame /\ p[r].stamp = b[r].stamp
    BY <1>1, <1>3, <1>7, UsedSlot
  <2> QED
    BY <2>1, <2>2
\* Compared with the queue in which only f's slot is free again.
<1>9. /\ d[x].usage = "available"
      /\ \A r \in (1..n) \ {x} : d[r].usage = q[r].usage /\ d[r].frame = q[r].frame
  BY ServedSlots
<1>10. \A r \in (1..n) \ {x} : d[r].stamp = t[r].stamp
  BY <1>2, ServedStamps
<1>11. Positions(LeftOf(w, q, n), d, n, M)
  BY ServedPositions
<1> HIDE DEF d
<1>12. /\ InUseOf(d, n) = InUseOf(q, n) \ {x}
       /\ InUseOf(p, n) = InUseOf(q, n) \ {x, s}
  BY <1>1, <1>2, <1>6, <1>7, <1>8, <1>9 DEF InUseOf
<1>13. InUseOf(p, n) = InUseOf(d, n) \ {s} /\ s \in InUseOf(d, n)
          /\ d[s].frame = q[s].frame
  BY <1>1, <1>9, <1>12
<1>14. \A r \in InUseOf(d, n) \ {s} :
          /\ p[r].frame = q[r].frame /\ p[r].frame = d[r].frame
          /\ p[r].stamp = IF d[r].stamp > d[s].stamp THEN d[r].stamp - 1 ELSE d[r].stamp
  <2> SUFFICES ASSUME NEW r \in InUseOf(d, n) \ {s}
               PROVE  /\ p[r].frame = q[r].frame /\ p[r].frame = d[r].frame
                      /\ p[r].stamp = IF d[r].stamp > d[s].stamp THEN d[r].stamp - 1
                                      ELSE d[r].stamp
    OBVIOUS
  <2>1. r \in 1..n /\ r # x /\ q[r].usage # "available"
    BY <1>12 DEF InUseOf
  <2>2. r \in Inq(n)!InUse(t)
    BY <1>2, <1>4, <2>1
  <2>3. d[r].stamp = t[r].stamp /\ d[s].stamp = stamp
    BY <1>1, <1>3, <1>10, <2>1
  <2> QED
    BY <1>2, <1>6, <1>7, <1>8, <1>9, <2>1, <2>2, <2>3
<1>15. Positions(RemoveFirst(LeftOf(w, q, n), d[s].frame), p, n, M)
  BY <1>11, <1>13, <1>14, PositionsLess
<1>16. SameFrames(p, q, n)
  BY <1>13, <1>14 DEF SameFrames
<1>17. Positions(RemoveFirst(LeftOf(w, q, n), q[s].frame), p, n, M)
  BY <1>13, <1>15
<1> QED
  BY <1>8, <1>12, <1>16, <1>17

LEMMA ForwardOrder ==
    ASSUME OrderInv, NEW f \in air, Order!Forward(f)
    PROVE  OrderInv' /\ Order!ForwardsOldest
<1> DEFINE n == OrderQueue
           q == Order!Received(f)
           S == Order!Polled(q, f)
           s == Order!OldestOf(q, S)
           x == Inq(n)!SlotFound(inq)
           stamp == q[s].stamp
           m == q[s].frame
<1>1. /\ f.type = "poll" /\ S # {}
      /\ inq' = [Order!Dispose(Order!AdjustOrder(q, stamp), "available") EXCEPT
                    ![s].usage = "available"]
      /\ waiting' = Order!RemoveFirst(Order!Left, m)
      /\ sends' = sends /\ outq' = outq
      /\ \A g \in air' : g \in air \/ g = [m EXCEPT !.type = "fwd"]
  BY DEF Order!Forward, Order!AnswerPoll, Order!Taken
<1>2. OrderQueue \in Nat \ {0} /\ IsInq(inq, n) /\ Positions(waiting, inq, n, OrderData)
  BY StoreAssumed DEF OrderInv
<1>3. /\ q = Taking(inq, f, n) /\ IsInq(q, n)
      /\ \A r \in 1..n :
           /\ q[r].usage = inq[r].usage /\ q[r].frame = IF r = x THEN f ELSE inq[r].frame
           /\ r # x => q[r].stamp = IF inq[x].usage # "available" /\ inq[r].stamp > inq[x].stamp
                                    THEN inq[r].stamp - 1 ELSE inq[r].stamp
  BY <1>2, OrderSlots, TakenSlot
<1>4. S = {r \in 1..n : /\ q[r].usage = "until_fwd" /\ q[r].frame.type = "data"
                        /\ q[r].frame.port = f.port /\ q[r].frame.src = f.addr}
  BY OrderSlots DEF Order!Polled
<1> HIDE DEF q, S
<1>5. s \in S /\ \A r \in S : q[s].stamp <= q[r].stamp
  BY <1>1, <1>2, <1>3, <1>4, OrderSlots, OldestSlot
<1> HIDE DEF s, x
<1>6. /\ s \in 1..n /\ s # x /\ s \in InUseOf(inq, n) /\ m = inq[s].frame
      /\ m.port = f.port /\ m.src = f.addr
  BY <1>1, <1>3, <1>4, <1>5 DEF InUseOf
<1>7. inq' = Using(Adjusted(inq, f, stamp, n), s, "available")
  BY <1>1, <1>3, OrderSlots DEF Order!Dispose, Adjusted, Using
<1>8. waiting' = RemoveFirst(LeftOf(waiting, inq, n), inq[s].frame)
  BY <1>1, <1>6, OrderLeft, OrderSequences
<1>9. /\ IsInq(inq', n) /\ Positions(waiting', inq', n, OrderData)
      /\ InUseOf(inq', n) = InUseOf(inq, n) \ {x, s}
      /\ \A r \in InUseOf(inq', n) : inq'[r].frame = inq[r].frame
  <2>1. PICK p : p = inq'
    OBVIOUS
  <2>2. s \in InUseOf(inq, n) \ {x} /\ stamp = Taking(inq, f, n)[s].stamp
    BY <1>3, <1>6
  <2>3. p = Using(Adjusted(inq, f, stamp, n), s, "available")
    BY <1>7, <2>1
  <2> HIDE DEF stamp
  <2>4. /\ IsInq(p, n)
        /\ Positions(RemoveFirst(LeftOf(waiting, inq, n), inq[s].frame), p, n, OrderData)
        /\ InUseOf(p, n) = InUseOf(inq, n) \ {x, s}
        /\ \A r \in InUseOf(p, n) : p[r].frame = inq[r].frame
    <3>1. x = Inq(n)!SlotFound(inq)
      BY DEF x
    <3>2. IsInq(p, n)
      BY <1>2, <2>2, <2>3, <3>1, TakenPositions
    <3>3. Positions(RemoveFirst(LeftOf(waiting, inq, n), inq[s].frame), p, n, OrderData)
      BY <1>2, <2>2, <2>3, <3>1, TakenPositions
    <3>4. InUseOf(p, n) = InUseOf(inq, n) \ {x, s}
      BY <1>2, <2>2, <2>3, <3>1, TakenPositions
    <3>5. SameFrames(p, inq, n)
      BY <1>2, <2>2, <2>3, <3>1, TakenPositions
    <3> QED
      BY <3>2, <3>3, <3>4, <3>5 DEF SameFrames
  <2>5. InUseOf(inq', n) = InUseOf(p, n)
    BY <2>1 DEF InUseOf
  <2> QED
    BY <1>8, <2>1, <2>4, <2>5
\* m's position, and those of the messages on its link.
<1>10. /\ waiting \in Seq(OrderData) /\ IsInjective(waiting)
       /\ Len(waiting) \in Nat /\ DOMAIN waiting = 1..Len(waiting)
       /\ \A r \in InUseOf(inq, n) : inq[r].stamp \in 1..Len(waiting)
                                     /\ waiting[inq[r].stamp] = inq[r].frame
       /\ \A r, v \in InUseOf(inq, n) : inq[r].stamp = inq[v].stamp => r = v
  BY <1>2, LenProperties DEF Positions
<1>11. \A i \in DOMAIN waiting : waiting[i] \in OrderData
  BY <1>10
<1>12. m \in OrderData /\ m = waiting[inq[s].stamp] /\ inq[s].stamp \in DOMAIN waiting
  BY <1>6, <1>10, <1>11
<1> HIDE DEF m
<1>13. OrderInv'
  <2>1. [m EXCEPT !.type = "fwd"].type = "fwd"
    BY <1>12 DEF OrderData
  <2>2. \A g \in air' : g.type = "data" => g \in OrderData
    BY <1>1, <2>1 DEF OrderInv
  <2> QED
    BY <1>1, <1>9, <2>2 DEF OrderInv
<1>14. ASSUME NEW j \in DOMAIN waiting, [waiting[j] EXCEPT !.type = "fwd"] \in air' \ air,
              NEW i \in 1..j - 1, Order!SameLink(waiting[i], waiting[j]),
              Order!Contains(waiting', waiting[i])
       PROVE  FALSE
  <2>1. [waiting[j] EXCEPT !.type = "fwd"] = [m EXCEPT !.type = "fwd"]
    BY <1>1, <1>14
  <2>2. waiting[j] = m
    <3>1. waiting[j] \in OrderData
      BY <1>11
    <3>2. PICK a, b : a = m /\ b = waiting[j]
      OBVIOUS
    <3>3. a \in OrderData /\ b \in OrderData
      BY <1>12, <3>1, <3>2
    <3>4. /\ a = [type |-> "data", id |-> a.id, src |-> a.src, dst |-> a.dst, port |-> a.port]
          /\ b = [type |-> "data", id |-> b.id, src |-> b.src, dst |-> b.dst, port |-> b.port]
      BY <3>3, OrderDataIs
    <3>5. [b EXCEPT !.type = "fwd"] = [a EXCEPT !.type = "fwd"]
      BY <2>1, <3>2
    <3>6. /\ [a EXCEPT !.type = "fwd"] = [type |-> "fwd", id |-> a.id, src |-> a.src,
                                         dst |-> a.dst, port |-> a.port]
          /\ [b EXCEPT !.type = "fwd"] = [type |-> "fwd", id |-> b.id, src |-> b.src,
                                         dst |-> b.dst, port |-> b.port]
      BY <3>4
    <3>7. a.id = b.id /\ a.src = b.src /\ a.dst = b.dst /\ a.port = b.port
      BY <3>5, <3>6
    <3> QED
      BY <3>2, <3>4, <3>7
  <2>3. inq[s].stamp = j
    BY <1>10, <1>12, <2>2 DEF IsInjective
  <2>4. i \in DOMAIN waiting /\ i < j
    BY <1>10
  <2>5. PICK r \in InUseOf(inq', n) : waiting[i] = inq'[r].frame
    <3>1. PICK w, p : w = waiting' /\ p = inq'
      OBVIOUS
    <3>2. Positions(w, p, n, OrderData) /\ InUseOf(p, n) = InUseOf(inq', n)
      BY <1>9, <3>1 DEF InUseOf
    <3>3. ToSet(w) = {p[r].frame : r \in InUseOf(p, n)}
      BY <1>2, <3>2, PositionsCount
    <3>4. waiting[i] \in ToSet(w)
      <4>1. Contains(w, waiting[i])
        BY <1>14, <3>1, OrderSequences
      <4> QED
        BY <3>2, <4>1, LenProperties DEF Contains, ToSet, Positions
    <3> QED
      BY <3>1, <3>2, <3>3, <3>4
  <2>6. r \in InUseOf(inq, n) /\ r # s /\ r # x /\ inq[r].frame = waiting[i]
    BY <1>9, <2>5
  <2>7. inq[r].stamp = i
    BY <1>10, <2>4, <2>6 DEF IsInjective
  <2>8. r \in S
    <3>1. waiting[i].type = "data" /\ waiting[i].port = Port[<<waiting[i].dst, waiting[i].src>>]
      BY <1>11, <2>4, OrderDataIs
    <3>2. m.port = Port[<<m.dst, m.src>>]
      BY <1>12, OrderDataIs
    <3>3. waiting[i].port = f.port /\ waiting[i].src = f.addr
      BY <1>6, <1>14, <2>2, <3>1, <3>2 DEF Order!SameLink
    <3>4. r \in 1..n /\ q[r].usage = "until_fwd" /\ q[r].frame = waiting[i]
      BY <1>2, <1>3, <2>6 DEF InUseOf, IsInq
    <3> QED
      BY <1>4, <3>1, <3>3, <3>4
  <2>9. q[s].stamp <= q[r].stamp
    BY <1>5, <2>8
  <2> DEFINE k == inq[x].stamp
             full == inq[x].usage # "available"
  <2>10. /\ q[r].stamp = (IF full /\ i > k THEN i - 1 ELSE i)
         /\ q[s].stamp = (IF full /\ j > k THEN j - 1 ELSE j)
    BY <1>3, <1>4, <1>5, <1>6, <2>3, <2>6, <2>7, <2>8
  <2>11. x \in 1..n /\ k \in Nat
    BY <1>2, SlotIsFound DEF IsInq, x
  <2>12. full => i # k
    BY <1>10, <2>6, <2>7, <2>11 DEF InUseOf
  <2>13. i \in Nat /\ j \in Nat /\ k \in Nat
    BY <1>10, <2>4, <2>11
  <2> HIDE DEF k, full
  <2> QED
    BY <2>4, <2>9, <2>10, <2>12, <2>13
<1>15. Order!ForwardsOldest
  BY <1>14 DEF Order!ForwardsOldest
<1> QED
  BY <1>13, <1>15

LEMMA NextOrder ==
    ASSUME OrderInv, Order!Next
    PROVE  OrderInv' /\ Order!ForwardsOldest
<1>1. ASSUME NEW f \in air
      PROVE  ~Order!ForwardOwn(f)
  <2>1. Order!Own(f) = {}
    BY DEF OrderInv, Order!Own
  <2> QED
    BY <2>1 DEF Order!ForwardOwn
<1>2. CASE \E f \in air : Order!Forward(f)
  BY <1>2, ForwardOrder
<1>3. CASE ~\E f \in air : Order!Forward(f)
  <2>1. OrderInv' /\ \A g \in air' \ air : g.type # "fwd"
    BY <1>1, <1>3, DeviceOrder, SlotOrder DEF Order!Next, Order!ReceiveISR
  <2>2. ASSUME NEW j \in DOMAIN waiting
        PROVE  [waiting[j] EXCEPT !.type = "fwd"].type = "fwd"
    <3>1. PICK m : m = waiting[j]
      OBVIOUS
    <3>2. m \in OrderData
      BY <3>1, LenProperties DEF OrderInv, Positions
    <3>3. m = [type |-> "data", id |-> m.id, src |-> m.src, dst |-> m.dst, port |-> m.port]
      BY <3>2, OrderDataIs
    <3>4. [m EXCEPT !.type = "fwd"].type = "fwd"
      BY <3>3
    <3> QED
      BY <3>1, <3>4
  <2>3. Order!ForwardsOldest
    BY <2>1, <2>2 DEF Order!ForwardsOldest
  <2> QED
    BY <2>1, <2>3
<1> QED
  BY <1>2, <1>3

\* The messages that wait are in the slots in use, and a client gets those of one
\* peer in the order in which they came (nwk_getSandFFrame, nwk_QadjustOrder).
THEOREM WaitingProved == Spec => WaitingInOrder
<1> DEFINE Kept == Is("order") => OrderInv
<1>1. Init => Kept
  BY InitOrder DEF Init, Is
<1>2. [Next]_vars => (Is("order") <=> Is("order")')
  BY DEF Next, Runs, Is, vars
<1>3. [Next]_vars /\ Is("order") => Order!Next \/ UNCHANGED Order!vars
  BY DEF Next, Runs, Is, vars, storeVars, Order!vars
<1>4. UNCHANGED Order!vars /\ OrderInv => OrderInv'
  BY DEF Order!vars, OrderInv, Positions, IsInq, InUseOf
<1>5. Kept /\ [Next]_vars => Kept'
  BY <1>2, <1>3, <1>4, NextOrder
<1>6. Kept => (Is("order") => Order!WaitingStored)
  <2>1. OrderInv => Order!WaitingStored
    BY StoreAssumed, PositionsCount, OrderLeft, OrderSequences
       DEF OrderInv, Order!WaitingStored
  <2> QED
    BY <2>1
<1>7. Kept /\ [Next]_vars => [Is("order") => Order!ForwardsOldest]_vars
  <2>1. Order!Next /\ OrderInv => Order!ForwardsOldest
    BY NextOrder
  <2>2. OrderInv /\ UNCHANGED Order!vars => Order!ForwardsOldest
    BY DEF Order!vars, Order!ForwardsOldest
  <2> QED
    BY <1>3, <2>1, <2>2
<1> QED
  BY <1>1, <1>5, <1>6, <1>7, PTL DEF Spec, WaitingInOrder

=============================================================================
