-------------------------- MODULE ConnectionProofs -------------------------
(***************************************************************************)
(* Proofs about connections.  The first part is about AckedSend, for any   *)
(* numbers of messages, interruptions and ids: a device is given only what *)
(* its peer's application sent, and a message that is reported as          *)
(* acknowledged has arrived, as long as no id is used again.  The second   *)
(* is about ConnectionTable, for any number of connections, ports and ids: *)
(* ids and ports tell the connections apart, and marker[] is indexed       *)
(* within its bounds.  The third is about what the counters that wrap can  *)
(* tell, for every size of them: that of enciphered messages, guessed from *)
(* its lowest byte (SecureCounter, SecureLink), and the ids of polls       *)
(* (PollWindow).                                                           *)
(***************************************************************************)
EXTENDS AckedSend, SecureCounter, Integers, Sequences,
    FiniteSetTheorems, WellFoundedInduction, TLAPS

CONSTANTS NumConnections, PortBase, PortMax, MaxLid, NoPeer, Listeners, Linkers, RemotePorts
VARIABLES table, pending, asked

Table == INSTANCE ConnectionTable

\* There are two devices.
LEMMA PeerProperties ==
    ASSUME AckAssumption, NEW d \in Devices
    PROVE  /\ Peer(d) \in Devices /\ Peer(d) # d /\ Peer(Peer(d)) = d
           /\ \A e \in Devices : e # d => e = Peer(d)
<1>1. PICK a \in Devices, b \in Devices : a # b /\ Devices = {a, b}
  BY DEF AckAssumption
<1>2. \A c \in Devices : Peer(c) \in Devices /\ Peer(c) # c
  BY <1>1 DEF Peer
<1> QED
  BY <1>1, <1>2

(***************************************************************************)
(* The counter of ids goes round: the steps it has to take to an id.       *)
(***************************************************************************)

Distance(t, x) == IF x >= t THEN x - t ELSE x - t + NumTids

LEMMA NextIsNearer ==
    ASSUME AckAssumption, NEW t \in Tids, NEW x \in Tids
    PROVE  /\ NextTract(t) \in Tids
           /\ Distance(t, x) \in 0..NumTids - 1
           /\ Distance(t, x) = 0 <=> x = t
           /\ Distance(NextTract(t), x) =
                  IF x = t THEN NumTids - 1 ELSE Distance(t, x) - 1
<1>1. CASE t = NumTids
  BY <1>1 DEF AckAssumption, Tids, NextTract, Distance
<1>2. CASE t < NumTids
  BY <1>2 DEF AckAssumption, Tids, NextTract, Distance
<1> QED
  BY <1>1, <1>2 DEF AckAssumption, Tids

(***************************************************************************)
(* The invariant.                                                          *)
(***************************************************************************)

Labels == {"idle", "port", "tid", "count", "flags", "body", "save", "request", "dst",
           "send", "wait"}

Types ==
    /\ slot \in [Devices -> Frames]
    /\ tract \in [Devices -> Tids]
    /\ ackTID \in [Devices -> {0} \union Tids]
    /\ thread \in [Devices -> [pc : Labels, msg : Bodies, ack : BOOLEAN]]
    /\ air \subseteq Frames
    /\ sends \in Bodies
    /\ linkers \in 0..MaxLinkers
    /\ delivered \in [Devices -> SUBSET Bodies]
    /\ confirmed \in [Devices -> SUBSET Bodies]

\* A frame in the slot that is still the application's has the fields that are
\* written already; a link reply written over it shows by its port.
Building(d) ==
    LET pc == thread[d].pc
        slotted == slot[d].port = "app"
    IN  /\ pc # "idle" => thread[d].msg \in 1..sends
        /\ pc \in {"save", "request", "wait"} => thread[d].ack
        /\ slot[d].ack # "reply"
        /\ slotted /\ pc \in {"save", "request", "dst", "send"} => slot[d].body = thread[d].msg
        /\ slotted /\ pc = "send" => slot[d].dst = Peer(d)

\* What is in the air for an application was built by one.
Built(f) == f.port = "app" /\ f.ack # "reply" => f.body \in 1..sends

\* The messages of d and the acks for it that are in the air, and their ids.
MessagesOf(d) == {f \in air : f.port = "app" /\ f.ack # "reply" /\ f.dst = Peer(d)}
AcksFor(d) == {f \in air : f.port = "app" /\ f.ack = "reply" /\ f.dst = d}
InUse(d) == {f.tid : f \in MessagesOf(d) \union AcksFor(d)}

\* How often the counter of d may yet be moved on.
Budget(d) ==
    (MaxSends - sends) + (MaxLinkers - linkers)
    + (IF thread[d].pc \in {"port", "tid", "count"} THEN 1 ELSE 0)

\* The counter does not come to an id in use; the slot's id is not in use before
\* it is sent.
Fresh(d) ==
    LET pc == thread[d].pc
        slotted == slot[d].port = "app"
    IN  /\ \A x \in InUse(d) : x \in Tids /\ Distance(tract[d], x) >= Budget(d)
        /\ pc \in {"count", "flags", "body", "save", "request", "dst", "send"} =>
               slot[d].tid \in Tids \ InUse(d)
        /\ slotted /\ pc = "count" => slot[d].tid = tract[d]
        /\ slotted /\ pc \in {"flags", "body", "save", "request", "dst", "send"} =>
               Distance(tract[d], slot[d].tid) >= Budget(d)

\* The id that d waits for is that of the message, or of none.
Awaited(d) ==
    LET pc == thread[d].pc
        arrived == thread[d].msg \in delivered[Peer(d)]
    IN  /\ thread[d].ack /\ pc \in {"request", "dst", "send"} =>
               ackTID[d] \in Tids \ InUse(d)
        /\ pc = "wait" =>
               /\ \A f \in MessagesOf(d) : f.tid = ackTID[d] => f.body = thread[d].msg
               /\ \A f \in AcksFor(d) : f.tid = ackTID[d] => arrived
               /\ ackTID[d] = 0 => arrived

\* The part that needs no bound on the ids, and the whole.
SendInv ==
    /\ Types
    /\ \A d \in Devices : Building(d)
    /\ \A f \in air : Built(f)
    /\ DeliveredAsBuilt

AckInv ==
    /\ SendInv
    /\ \A d \in Devices : Fresh(d) /\ Awaited(d)
    /\ AckMeansReceived

(***************************************************************************)
(* The steps that build a frame.                                           *)
(***************************************************************************)

\* What they change: where the thread stands, and nothing outside the device.
LEMMA FillProperties ==
    ASSUME AckAssumption, Types, NEW d \in Devices, NEW pc, NEW next \in Labels,
           Fill(d, pc, next)
    PROVE  /\ thread[d].pc = pc
           /\ thread' \in [Devices -> [pc : Labels, msg : Bodies, ack : BOOLEAN]]
           /\ thread'[d].pc = next
           /\ \A e \in Devices : /\ e # d => thread'[e] = thread[e]
                                 /\ thread'[e].msg = thread[e].msg
                                 /\ thread'[e].ack = thread[e].ack
           /\ UNCHANGED <<air, sends, linkers, delivered, confirmed>>
  BY DEF Fill, Types

\* The ids in the air are what they were.
LEMMA SameAir ==
    ASSUME air' = air
    PROVE  \A d \in Devices : /\ MessagesOf(d)' = MessagesOf(d)
                              /\ AcksFor(d)' = AcksFor(d)
                              /\ InUse(d)' = InUse(d)
  BY DEF MessagesOf, AcksFor, InUse

\* A device that a step does not touch.
LEMMA Elsewhere ==
    ASSUME AckAssumption, Types, Types', NEW d \in Devices, Building(d),
           slot'[d] = slot[d], thread'[d] = thread[d], sends' >= sends
    PROVE  Building(d)'
  BY DEF Building, Types, Bodies

\* What is left to show of a step that builds.
LEMMA FillKeepsSendInv ==
    ASSUME AckAssumption, SendInv, NEW d \in Devices, NEW pc, NEW next \in Labels,
           Fill(d, pc, next),
           slot' \in [Devices -> Frames], tract' \in [Devices -> Tids],
           ackTID' \in [Devices -> {0} \union Tids],
           \A e \in Devices : e # d => slot'[e] = slot[e],
           Building(d)'
    PROVE  SendInv'
<1>1. /\ thread' \in [Devices -> [pc : Labels, msg : Bodies, ack : BOOLEAN]]
      /\ \A e \in Devices : e # d => thread'[e] = thread[e]
      /\ UNCHANGED <<air, sends, linkers, delivered, confirmed>>
  BY FillProperties DEF SendInv
<1>2. Types'
  BY <1>1 DEF SendInv, Types
<1>3. \A e \in Devices : Building(e)'
  <2> SUFFICES ASSUME NEW e \in Devices, e # d
               PROVE  Building(e)'
    OBVIOUS
  <2>1. sends' >= sends
    BY <1>1, <1>2 DEF SendInv, Types, Bodies, AckAssumption
  <2> QED
    BY <1>1, <1>2, <2>1, Elsewhere DEF SendInv
<1>4. \A f \in air' : Built(f)'
  BY <1>1 DEF SendInv, Built
<1>5. DeliveredAsBuilt'
  BY <1>1 DEF SendInv, DeliveredAsBuilt
<1> QED
  BY <1>2, <1>3, <1>4, <1>5 DEF SendInv

LEMMA BuildingKeepsSendInv ==
    ASSUME AckAssumption, SendInv, NEW d \in Devices,
           \/ PutPort(d) \/ PutTid(d) \/ CountTid(d) \/ PutFlags(d) \/ PutBody(d)
           \/ SaveTid(d) \/ RequestAck(d) \/ PutDst(d)
    PROVE  SendInv'
<1> USE DEF SendInv
<1>0. /\ \A l \in {"port", "tid", "count", "flags", "body", "save", "request",
                   "dst", "send"} : l \in Labels
      /\ Building(d) /\ slot[d] \in Frames /\ thread[d].msg \in Bodies
      /\ thread[d].ack \in BOOLEAN /\ tract[d] \in Tids
  BY DEF Labels, Types
<1>1. CASE PutPort(d)
  <2>1. /\ Fill(d, "port", "tid") /\ slot' = [slot EXCEPT ![d].port = "app"]
        /\ tract' = tract /\ ackTID' = ackTID
    BY <1>1 DEF PutPort
  <2>2. /\ slot' \in [Devices -> Frames] /\ \A e \in Devices : e # d => slot'[e] = slot[e]
        /\ slot'[d].ack = slot[d].ack
    BY <1>0, <2>1 DEF Types, Frames
  <2>3. Building(d)'
    BY <1>0, <2>1, <2>2, FillProperties DEF Building
  <2> QED
    BY <1>0, <2>1, <2>2, <2>3, FillKeepsSendInv DEF Types
<1>2. CASE PutTid(d)
  <2>1. /\ Fill(d, "tid", "count") /\ slot' = [slot EXCEPT ![d].tid = tract[d]]
        /\ tract' = tract /\ ackTID' = ackTID
    BY <1>2 DEF PutTid
  <2>2. /\ slot' \in [Devices -> Frames] /\ \A e \in Devices : e # d => slot'[e] = slot[e]
        /\ slot'[d].ack = slot[d].ack
    BY <1>0, <2>1 DEF Types, Frames
  <2>3. Building(d)'
    BY <1>0, <2>1, <2>2, FillProperties DEF Building
  <2> QED
    BY <1>0, <2>1, <2>2, <2>3, FillKeepsSendInv DEF Types
<1>3. CASE CountTid(d)
  <2>1. /\ Fill(d, "count", "flags") /\ tract' = [tract EXCEPT ![d] = NextTract(@)]
        /\ slot' = slot /\ ackTID' = ackTID
    BY <1>3 DEF CountTid
  <2>2. tract' \in [Devices -> Tids]
    BY <1>0, <2>1, NextIsNearer DEF Types
  <2>3. Building(d)'
    BY <1>0, <2>1, FillProperties DEF Building
  <2> QED
    BY <1>0, <2>1, <2>2, <2>3, FillKeepsSendInv DEF Types
<1>4. CASE PutFlags(d)
  <2>1. /\ Fill(d, "flags", "body") /\ slot' = [slot EXCEPT ![d].ack = "none"]
        /\ tract' = tract /\ ackTID' = ackTID
    BY <1>4 DEF PutFlags
  <2>2. /\ slot' \in [Devices -> Frames] /\ \A e \in Devices : e # d => slot'[e] = slot[e]
        /\ slot'[d].ack = "none"
    BY <1>0, <2>1 DEF Types, Frames
  <2>3. Building(d)'
    BY <1>0, <2>1, <2>2, FillProperties DEF Building
  <2> QED
    BY <1>0, <2>1, <2>2, <2>3, FillKeepsSendInv DEF Types
<1>5. CASE PutBody(d)
  <2> DEFINE next == IF thread[d].ack THEN "save" ELSE "dst"
  <2>1. /\ Fill(d, "body", next) /\ slot' = [slot EXCEPT ![d].body = thread[d].msg]
        /\ tract' = tract /\ ackTID' = ackTID
    BY <1>5 DEF PutBody
  <2>2. /\ slot' \in [Devices -> Frames] /\ \A e \in Devices : e # d => slot'[e] = slot[e]
        /\ slot'[d].ack = slot[d].ack /\ slot'[d].body = thread[d].msg
    BY <1>0, <2>1 DEF Types, Frames
  <2>3. Building(d)'
    BY <1>0, <2>1, <2>2, FillProperties DEF Building
  <2> QED
    BY <1>0, <2>1, <2>2, <2>3, FillKeepsSendInv DEF Types
<1>6. CASE SaveTid(d)
  <2>1. /\ Fill(d, "save", "request") /\ ackTID' = [ackTID EXCEPT ![d] = slot[d].tid]
        /\ slot' = slot /\ tract' = tract
    BY <1>6 DEF SaveTid
  <2>2. ackTID' \in [Devices -> {0} \union Tids]
    BY <1>0, <2>1 DEF Types, Frames
  <2>3. Building(d)'
    BY <1>0, <2>1, FillProperties DEF Building
  <2> QED
    BY <1>0, <2>1, <2>2, <2>3, FillKeepsSendInv DEF Types
<1>7. CASE RequestAck(d)
  <2>1. /\ Fill(d, "request", "dst") /\ slot' = [slot EXCEPT ![d].ack = "request"]
        /\ tract' = tract /\ ackTID' = ackTID
    BY <1>7 DEF RequestAck
  <2>2. /\ slot' \in [Devices -> Frames] /\ \A e \in Devices : e # d => slot'[e] = slot[e]
        /\ slot'[d].ack = "request" /\ slot'[d].body = slot[d].body
        /\ slot'[d].port = slot[d].port
    BY <1>0, <2>1 DEF Types, Frames
  <2>3. Building(d)'
    BY <1>0, <2>1, <2>2, FillProperties DEF Building
  <2> QED
    BY <1>0, <2>1, <2>2, <2>3, FillKeepsSendInv DEF Types
<1>8. CASE PutDst(d)
  <2>1. /\ Fill(d, "dst", "send") /\ slot' = [slot EXCEPT ![d].dst = Peer(d)]
        /\ tract' = tract /\ ackTID' = ackTID
    BY <1>8 DEF PutDst
  <2>2. /\ slot' \in [Devices -> Frames] /\ \A e \in Devices : e # d => slot'[e] = slot[e]
        /\ slot'[d].ack = slot[d].ack /\ slot'[d].body = slot[d].body
        /\ slot'[d].port = slot[d].port /\ slot'[d].dst = Peer(d)
    BY <1>0, <2>1, PeerProperties DEF Types, Frames
  <2>3. Building(d)'
    BY <1>0, <2>1, <2>2, FillProperties DEF Building
  <2> QED
    BY <1>0, <2>1, <2>2, <2>3, FillKeepsSendInv DEF Types
<1> QED
  BY <1>1, <1>2, <1>3, <1>4, <1>5, <1>6, <1>7, <1>8

\* A step that changes a device's slot or thread and leaves the rest alone.
LEMMA StepKeepsSendInv ==
    ASSUME AckAssumption, SendInv, Types', NEW d \in Devices, sends' >= sends,
           \A e \in Devices : e # d => slot'[e] = slot[e] /\ thread'[e] = thread[e],
           Building(d)',
           \A f \in air' \ air : Built(f)',
           delivered' = delivered
    PROVE  SendInv'
<1>1. \A e \in Devices : Building(e)'
  BY Elsewhere DEF SendInv
<1>2. sends \in Nat /\ sends' \in Nat
  BY DEF Types, Bodies, AckAssumption, SendInv
<1>3. \A f \in air' : Built(f)'
  <2> SUFFICES ASSUME NEW f \in air
               PROVE  Built(f)'
    OBVIOUS
  <2> QED
    BY <1>2 DEF Built, SendInv
<1>4. DeliveredAsBuilt'
  BY <1>2 DEF SendInv, DeliveredAsBuilt
<1> QED
  BY <1>1, <1>3, <1>4 DEF SendInv

LEMMA SendOptKeepsSendInv ==
    ASSUME AckAssumption, SendInv, NEW d \in Devices, NEW ack \in BOOLEAN, SendOpt(d, ack)
    PROVE  SendInv'
<1>1. /\ sends < MaxSends /\ sends' = sends + 1
      /\ thread' = [thread EXCEPT ![d] = [pc |-> "port", msg |-> sends', ack |-> ack]]
      /\ UNCHANGED <<slot, tract, ackTID, air, linkers, delivered, confirmed>>
  BY DEF SendOpt
<1>2. sends' \in Bodies /\ sends' \in 1..sends' /\ sends' >= sends
  BY <1>1 DEF SendInv, Types, Bodies, AckAssumption
<1>3. Types'
  BY <1>1, <1>2 DEF SendInv, Types, Labels
<1>4. /\ thread'[d] = [pc |-> "port", msg |-> sends', ack |-> ack]
      /\ \A e \in Devices : e # d => thread'[e] = thread[e]
  BY <1>1 DEF SendInv, Types
<1>5. Building(d)'
  BY <1>1, <1>2, <1>4 DEF SendInv, Building
<1> QED
  BY <1>1, <1>2, <1>3, <1>4, <1>5, StepKeepsSendInv

LEMMA SendKeepsSendInv ==
    ASSUME AckAssumption, SendInv, NEW d \in Devices, NEW sent \in BOOLEAN, Send(d, sent)
    PROVE  SendInv'
<1> DEFINE waiting == [pc |-> "wait", msg |-> thread[d].msg, ack |-> thread[d].ack]
           next == IF sent /\ thread[d].ack THEN waiting ELSE Idle
<1>1. /\ thread[d].pc = "send" /\ air' \subseteq air \union {slot[d]}
      /\ UNCHANGED <<slot, tract, ackTID, sends, linkers, delivered, confirmed>>
  BY DEF Send
<1>2. thread[d] \in [pc : Labels, msg : Bodies, ack : BOOLEAN]
  BY DEF SendInv, Types
<1>3. thread' = [thread EXCEPT ![d] = next]
  <2>1. [thread[d] EXCEPT !.pc = "wait"] = waiting
    BY <1>2
  <2> QED
    BY <2>1 DEF Send
<1>4. next \in [pc : Labels, msg : Bodies, ack : BOOLEAN]
  BY <1>2 DEF Idle, Labels, Bodies, AckAssumption
<1>5. Types'
  BY <1>1, <1>3, <1>4 DEF SendInv, Types
<1>6. thread'[d] = next /\ \A e \in Devices : e # d => thread'[e] = thread[e]
  BY <1>3 DEF SendInv, Types
<1>7. Building(d)'
  BY <1>1, <1>6 DEF SendInv, Building, Idle
<1>8. \A f \in air' \ air : Built(f)'
  BY <1>1 DEF SendInv, Building, Built
<1>9. sends' >= sends
  BY <1>1 DEF SendInv, Types, Bodies, AckAssumption
<1> QED
  BY <1>1, <1>5, <1>6, <1>7, <1>8, <1>9, StepKeepsSendInv

LEMMA WaitOverKeepsSendInv ==
    ASSUME AckAssumption, SendInv, NEW d \in Devices, WaitOver(d)
    PROVE  SendInv'
<1>1. /\ thread[d].pc = "wait" /\ thread' = [thread EXCEPT ![d] = Idle]
      /\ ackTID' = [ackTID EXCEPT ![d] = 0]
      /\ UNCHANGED <<slot, tract, air, sends, linkers, delivered>>
      /\ \/ confirmed' = [confirmed EXCEPT ![d] = @ \union {thread[d].msg}]
         \/ confirmed' = confirmed
  BY DEF WaitOver
<1>2. Idle \in [pc : Labels, msg : Bodies, ack : BOOLEAN]
  BY DEF Idle, Labels, Bodies, AckAssumption
<1>3. thread[d].msg \in Bodies
  BY DEF SendInv, Types
<1>4. Types'
  BY <1>1, <1>2, <1>3 DEF SendInv, Types
<1>5. thread'[d] = Idle /\ \A e \in Devices : e # d => thread'[e] = thread[e]
  BY <1>1 DEF SendInv, Types
<1>6. Building(d)'
  BY <1>1, <1>5 DEF SendInv, Building, Idle
<1>7. sends' >= sends
  BY <1>1 DEF SendInv, Types, Bodies, AckAssumption
<1> QED
  BY <1>1, <1>4, <1>5, <1>6, <1>7, StepKeepsSendInv

LEMMA LinkReplyKeepsSendInv ==
    ASSUME AckAssumption, SendInv, NEW d \in Devices, LinkReply(d)
    PROVE  SendInv'
<1> DEFINE f == Frame("link", tract[d], "none", 0, Third)
<1>1. /\ linkers < MaxLinkers /\ linkers' = linkers + 1
      /\ slot' = [slot EXCEPT ![d] = f]
      /\ tract' = [tract EXCEPT ![d] = NextTract(@)]
      /\ UNCHANGED <<ackTID, thread, air, sends, delivered, confirmed>>
  BY DEF LinkReply
<1>2. f \in Frames /\ linkers' \in 0..MaxLinkers
  BY <1>1 DEF SendInv, Types, Frame, Frames, Bodies, AckAssumption
<1>3. NextTract(tract[d]) \in Tids
  BY NextIsNearer DEF SendInv, Types
<1>4. Types'
  BY <1>1, <1>2, <1>3 DEF SendInv, Types
<1>5. slot'[d] = f /\ \A e \in Devices : e # d => slot'[e] = slot[e]
  BY <1>1 DEF SendInv, Types
<1>6. Building(d)'
  BY <1>1, <1>5 DEF SendInv, Building, Frame
<1>7. sends' >= sends
  BY <1>1 DEF SendInv, Types, Bodies, AckAssumption
<1> QED
  BY <1>1, <1>4, <1>5, <1>6, <1>7, StepKeepsSendInv

\* The interrupt: frames leave the air, and acks are the only ones it adds.
LEMMA MessageKeepsSendInv ==
    ASSUME AckAssumption, SendInv, NEW d \in Devices, NEW f \in air, Message(d, f)
    PROVE  SendInv'
<1> DEFINE ack == Frame("app", f.tid, "reply", 0, Peer(d))
<1>1. /\ f.dst = d /\ f.port = "app" /\ f.ack # "reply"
      /\ air' \subseteq air \union {ack}
      /\ delivered' = [delivered EXCEPT ![d] = @ \union {f.body}]
      /\ UNCHANGED <<slot, tract, ackTID, thread, sends, linkers, confirmed>>
  BY DEF Message, Taken
<1>2. ack \in Frames
  <2>1. f.tid \in {0} \union Tids /\ 0 \in Bodies
    BY DEF SendInv, Types, Frames, Bodies, AckAssumption
  <2> QED
    BY <2>1, PeerProperties DEF Frames, Frame
<1>3. f.body \in 1..sends /\ f.body \in Bodies
  BY <1>1 DEF SendInv, Types, Built, Frames
<1>4. Types'
  BY <1>1, <1>2, <1>3 DEF SendInv, Types
<1>5. \A e \in Devices : Building(e)'
  BY <1>1 DEF SendInv, Building
<1>6. \A g \in air' : Built(g)'
  BY <1>1 DEF SendInv, Built, Frame
<1>7. DeliveredAsBuilt'
  BY <1>1, <1>3 DEF SendInv, Types, DeliveredAsBuilt
<1> QED
  BY <1>4, <1>5, <1>6, <1>7 DEF SendInv

LEMMA FrameLeavesKeepsSendInv ==
    ASSUME AckAssumption, SendInv, NEW f \in air,
           Stray(f) \/ Lose(f) \/ \E d \in Devices : Ack(d, f)
    PROVE  SendInv'
<1>1. /\ air' \subseteq air
      /\ UNCHANGED <<slot, tract, thread, sends, linkers, delivered, confirmed>>
      /\ \/ ackTID' = ackTID
         \/ \E d \in Devices : ackTID' = [ackTID EXCEPT ![d] = IF @ = f.tid THEN 0 ELSE @]
  BY DEF Stray, Lose, Ack, Taken
<1>2. Types'
  BY <1>1 DEF SendInv, Types
<1> QED
  BY <1>1, <1>2 DEF SendInv, Building, Built, DeliveredAsBuilt

LEMMA NextSendInv ==
    ASSUME AckAssumption, SendInv, [Next]_vars
    PROVE  SendInv'
<1>1. CASE UNCHANGED vars
  BY <1>1 DEF vars, SendInv, Types, Building, Built, DeliveredAsBuilt
<1>2. ASSUME NEW d \in Devices, Thread(d) \/ LinkReply(d)
      PROVE  SendInv'
  BY <1>2, BuildingKeepsSendInv, SendOptKeepsSendInv, SendKeepsSendInv, WaitOverKeepsSendInv,
     LinkReplyKeepsSendInv DEF Thread
<1>3. ASSUME NEW f \in air, Stray(f) \/ Lose(f) \/ \E d \in Devices : Message(d, f) \/ Ack(d, f)
      PROVE  SendInv'
  BY <1>3, MessageKeepsSendInv, FrameLeavesKeepsSendInv
<1> QED
  BY <1>1, <1>2, <1>3 DEF Next

LEMMA InitSendInv ==
    ASSUME AckAssumption, Init
    PROVE  SendInv
<1>1. /\ slot = [d \in Devices |-> Frame("app", 0, "none", 0, d)]
      /\ tract \in [Devices -> Tids] /\ ackTID = [d \in Devices |-> 0]
      /\ thread = [d \in Devices |-> Idle] /\ air = {} /\ sends = 0 /\ linkers = 0
      /\ delivered = [d \in Devices |-> {}] /\ confirmed = [d \in Devices |-> {}]
  BY DEF Init
<1>2. 0 \in Bodies /\ 0 \in 0..MaxLinkers /\ 0 \in {0} \union Tids
  BY DEF Bodies, AckAssumption
<1>3. Types
  <2>1. slot \in [Devices -> Frames]
    BY <1>1, <1>2 DEF Frames, Frame
  <2>2. thread \in [Devices -> [pc : Labels, msg : Bodies, ack : BOOLEAN]]
    BY <1>1, <1>2 DEF Idle, Labels
  <2> QED
    BY <1>1, <1>2, <2>1, <2>2 DEF Types
<1>4. \A d \in Devices : Building(d)
  BY <1>1 DEF Building, Idle, Frame
<1> QED
  BY <1>1, <1>3, <1>4 DEF SendInv, DeliveredAsBuilt

\* Whatever the interrupt writes into the slot while a frame is put together there,
\* an application is given nothing but what its peer's application sent
\* (nwk_QfindSlot, nwk_buildFrame).
THEOREM OnlyBuiltDelivered ==
    ASSUME AckAssumption
    PROVE  Spec => []DeliveredAsBuilt
<1>1. Init => SendInv
  BY InitSendInv
<1>2. SendInv /\ [Next]_vars => SendInv'
  BY NextSendInv
<1>3. SendInv => DeliveredAsBuilt
  BY DEF SendInv
<1> QED
  BY <1>1, <1>2, <1>3, PTL DEF Spec

(***************************************************************************)
(* The ids.                                                                *)
(***************************************************************************)

\* The sizes, for arithmetic.
LEMMA Sizes ==
    ASSUME AckAssumption, IdsLast, SendInv, NEW d \in Devices
    PROVE  /\ sends \in Nat /\ sends <= MaxSends /\ linkers \in Nat /\ linkers <= MaxLinkers
           /\ MaxSends \in Nat /\ MaxLinkers \in Nat /\ NumTids \in Nat
           /\ MaxSends + MaxLinkers <= NumTids
           /\ tract[d] \in Tids /\ slot[d].tid \in {0} \union Tids
           /\ thread[d].pc # "idle" => sends >= 1
<1>1. sends \in 0..MaxSends /\ linkers \in 0..MaxLinkers
  BY DEF SendInv, Types, Bodies
<1>2. tract[d] \in Tids /\ slot[d].tid \in {0} \union Tids
  BY DEF SendInv, Types, Frames
<1>3. thread[d].pc # "idle" => sends >= 1
  BY <1>1 DEF SendInv, Building, AckAssumption
<1> QED
  BY <1>1, <1>2, <1>3 DEF AckAssumption, IdsLast

\* A step of the counter takes it nearer to every id but the one it leaves.
LEMMA CounterMoves ==
    ASSUME AckAssumption, IdsLast, SendInv, NEW d \in Devices, Fresh(d),
           tract'[d] = NextTract(tract[d]), Budget(d) >= 1, Budget(d)' = Budget(d) - 1
    PROVE  /\ \A x \in InUse(d) : x \in Tids /\ Distance(tract'[d], x) >= Budget(d)'
           /\ Distance(tract'[d], tract[d]) = NumTids - 1
           /\ tract[d] \notin InUse(d)
<1>1. tract[d] \in Tids /\ Budget(d) \in Int
  BY Sizes DEF Budget
<1>2. \A x \in InUse(d) : x \in Tids /\ Distance(tract[d], x) >= Budget(d)
  BY DEF Fresh
<1>3. tract[d] \notin InUse(d)
  BY <1>1, <1>2, NextIsNearer
<1>4. Distance(tract'[d], tract[d]) = NumTids - 1
  BY <1>1, NextIsNearer
<1>5. ASSUME NEW x \in InUse(d)
      PROVE  x \in Tids /\ Distance(tract'[d], x) >= Budget(d)'
  <2>1. x \in Tids /\ x # tract[d] /\ Distance(tract[d], x) >= Budget(d)
    BY <1>2, <1>3
  <2>2. Distance(tract'[d], x) = Distance(tract[d], x) - 1 /\ Distance(tract[d], x) \in Int
    BY <1>1, <2>1, NextIsNearer
  <2> QED
    BY <1>1, <2>1, <2>2
<1> QED
  BY <1>3, <1>4, <1>5

LEMMA LessIsLeft ==
    ASSUME NEW m \in Int, NEW l \in Int, NEW c \in Int, NEW i \in Int, NEW j \in Int,
           NEW k \in Int, NEW n \in Int, k >= i, n >= j
    PROVE  /\ (m - k) + (l - n) + c <= (m - i) + (l - j) + c
           /\ (m - k) + (l - n) + c \in Int /\ (m - i) + (l - j) + c \in Int
  OBVIOUS

\* A device that a step leaves alone, but that the peer may answer.
LEMMA UntouchedFresh ==
    ASSUME AckAssumption, IdsLast, SendInv, SendInv', NEW d \in Devices, Fresh(d),
           slot'[d] = slot[d], tract'[d] = tract[d], thread'[d] = thread[d],
           sends' >= sends, linkers' >= linkers,
           InUse(d)' \subseteq InUse(d)
    PROVE  Fresh(d)'
<1>1. sends \in Int /\ linkers \in Int /\ MaxSends \in Int /\ MaxLinkers \in Int
      /\ sends' \in Int /\ linkers' \in Int
  BY Sizes DEF SendInv, Types, Bodies
<1>2. Budget(d)' <= Budget(d) /\ Budget(d) \in Int /\ Budget(d)' \in Int
  <2> DEFINE c == IF thread[d].pc \in {"port", "tid", "count"} THEN 1 ELSE 0
             k == sends'
             n == linkers'
  <2>1. c \in Int /\ Budget(d) = (MaxSends - sends) + (MaxLinkers - linkers) + c
    BY DEF Budget
  <2>2. Budget(d)' = (MaxSends - k) + (MaxLinkers - n) + c
    BY DEF Budget
  <2>3. k \in Int /\ n \in Int /\ k >= sends /\ n >= linkers
    BY <1>1
  <2> HIDE DEF c, k, n
  <2> QED
    BY <1>1, <2>1, <2>2, <2>3, LessIsLeft
<1>3. \A x \in Tids : Distance(tract[d], x) \in Int
  <2>1. tract[d] \in Tids
    BY Sizes
  <2>2. \A x \in Tids : Distance(tract[d], x) \in 0..NumTids - 1
    BY <2>1, NextIsNearer
  <2> QED
    BY <2>2
<1>4. \A x \in InUse(d) : x \in Tids /\ Distance(tract'[d], x) >= Budget(d)'
  <2> SUFFICES ASSUME NEW x \in InUse(d)
               PROVE  x \in Tids /\ Distance(tract'[d], x) >= Budget(d)'
    OBVIOUS
  <2>1. x \in Tids /\ Distance(tract[d], x) >= Budget(d)
    BY DEF Fresh
  <2> QED
    BY <1>2, <1>3, <2>1
<1>5. slot[d].tid \in Tids /\ Distance(tract[d], slot[d].tid) >= Budget(d)
          => Distance(tract'[d], slot[d].tid) >= Budget(d)'
  BY <1>2, <1>3
<1> QED
  BY <1>4, <1>5 DEF Fresh

LEMMA UntouchedAwaited ==
    ASSUME AckAssumption, NEW d \in Devices, Awaited(d),
           ackTID'[d] = ackTID[d], thread'[d] = thread[d],
           delivered[Peer(d)] \subseteq delivered'[Peer(d)],
           MessagesOf(d)' \subseteq MessagesOf(d), InUse(d)' \subseteq InUse(d),
           \A g \in AcksFor(d)' :
               \/ g \in AcksFor(d)
               \/ \E f \in MessagesOf(d) : g.tid = f.tid /\ f.body \in delivered'[Peer(d)]
    PROVE  Awaited(d)'
  BY DEF Awaited

\* What is left to show of a step that only writes into a slot.
LEMMA FillKeepsAckInv ==
    ASSUME AckAssumption, IdsLast, AckInv, SendInv', NEW d \in Devices,
           NEW pc, NEW next \in Labels, Fill(d, pc, next),
           \A e \in Devices : e # d => /\ slot'[e] = slot[e] /\ tract'[e] = tract[e]
                                       /\ ackTID'[e] = ackTID[e],
           Fresh(d)', Awaited(d)'
    PROVE  AckInv'
<1>1. /\ \A e \in Devices : e # d => thread'[e] = thread[e]
      /\ UNCHANGED <<air, sends, linkers, delivered, confirmed>>
  BY FillProperties DEF AckInv, SendInv
<1>2. sends' >= sends /\ linkers' >= linkers
  BY <1>1, Sizes DEF AckInv
<1>3. ASSUME NEW e \in Devices, e # d
      PROVE  Fresh(e)' /\ Awaited(e)'
  BY <1>1, <1>2, <1>3, SameAir, UntouchedFresh, UntouchedAwaited DEF AckInv
<1>4. AckMeansReceived'
  BY <1>1 DEF AckInv, AckMeansReceived
<1> QED
  BY <1>3, <1>4 DEF AckInv

\* The budget of a device that builds.
LEMMA FillBudget ==
    ASSUME AckAssumption, IdsLast, SendInv, NEW d \in Devices, NEW pc, NEW next \in Labels,
           Fill(d, pc, next)
    PROVE  /\ Budget(d) \in Int
           /\ pc \in {"port", "tid", "count"} => Budget(d) >= 1
           /\ pc \in {"port", "tid", "count"} <=> next \in {"port", "tid", "count"}
                  => Budget(d)' = Budget(d)
           /\ pc = "count" /\ next = "flags" =>
                  Budget(d)' = Budget(d) - 1 /\ Budget(d)' <= NumTids - 1
<1>1. /\ thread[d].pc = pc /\ thread'[d].pc = next
      /\ sends' = sends /\ linkers' = linkers
  BY FillProperties DEF SendInv
<1>2. /\ Budget(d) = (MaxSends - sends) + (MaxLinkers - linkers)
                     + (IF pc \in {"port", "tid", "count"} THEN 1 ELSE 0)
      /\ Budget(d)' = (MaxSends - sends) + (MaxLinkers - linkers)
                      + (IF next \in {"port", "tid", "count"} THEN 1 ELSE 0)
  BY <1>1 DEF Budget
<1>3. /\ sends \in Nat /\ sends <= MaxSends /\ linkers \in Nat /\ linkers <= MaxLinkers
      /\ MaxSends \in Nat /\ MaxLinkers \in Nat /\ NumTids \in Nat
      /\ MaxSends + MaxLinkers <= NumTids
      /\ pc # "idle" => sends >= 1
  BY <1>1, Sizes
<1> QED
  BY <1>2, <1>3

LEMMA BuildingKeepsAckInv ==
    ASSUME AckAssumption, IdsLast, AckInv, SendInv', NEW d \in Devices,
           \/ PutPort(d) \/ PutTid(d) \/ CountTid(d) \/ PutFlags(d) \/ PutBody(d)
           \/ SaveTid(d) \/ RequestAck(d) \/ PutDst(d)
    PROVE  AckInv'
<1>0. /\ \A l \in {"port", "tid", "count", "flags", "body", "save", "request",
                   "dst", "send"} : l \in Labels
      /\ SendInv /\ Types /\ Building(d) /\ Fresh(d) /\ Awaited(d)
      /\ slot[d] \in Frames /\ tract[d] \in Tids
  BY DEF Labels, AckInv, SendInv, Types
<1>1. CASE PutPort(d)
  <2>1. /\ Fill(d, "port", "tid") /\ slot' = [slot EXCEPT ![d].port = "app"]
        /\ tract' = tract /\ ackTID' = ackTID
    BY <1>1 DEF PutPort
  <2>2. \A e \in Devices : e # d => slot'[e] = slot[e]
    BY <1>0, <2>1 DEF Types
  <2>3. /\ air' = air /\ thread[d].pc = "port" /\ thread'[d].pc = "tid"
        /\ Budget(d)' = Budget(d)
    BY <1>0, <2>1, FillProperties, FillBudget
  <2>4. Fresh(d)' /\ Awaited(d)'
    BY <1>0, <2>1, <2>3, SameAir DEF Fresh, Awaited
  <2> QED
    BY <1>0, <2>1, <2>2, <2>4, FillKeepsAckInv
<1>2. CASE PutTid(d)
  <2>1. /\ Fill(d, "tid", "count") /\ slot' = [slot EXCEPT ![d].tid = tract[d]]
        /\ tract' = tract /\ ackTID' = ackTID
    BY <1>2 DEF PutTid
  <2>2. /\ \A e \in Devices : e # d => slot'[e] = slot[e]
        /\ slot'[d].tid = tract[d]
    BY <1>0, <2>1 DEF Types, Frames
  <2>3. /\ air' = air /\ thread[d].pc = "tid" /\ thread'[d].pc = "count"
        /\ Budget(d)' = Budget(d) /\ Budget(d) \in Int /\ Budget(d) >= 1
    BY <1>0, <2>1, FillProperties, FillBudget
  <2>4. tract[d] \notin InUse(d)
    <3>1. \A x \in InUse(d) : x \in Tids /\ Distance(tract[d], x) >= Budget(d)
      BY <1>0 DEF Fresh
    <3>2. Distance(tract[d], tract[d]) = 0
      BY <1>0, NextIsNearer
    <3> QED
      BY <2>3, <3>1, <3>2
  <2>5. Fresh(d)' /\ Awaited(d)'
    BY <1>0, <2>1, <2>2, <2>3, <2>4, SameAir DEF Fresh, Awaited
  <2> QED
    BY <1>0, <2>1, <2>2, <2>5, FillKeepsAckInv
<1>3. CASE CountTid(d)
  <2>1. /\ Fill(d, "count", "flags") /\ tract' = [tract EXCEPT ![d] = NextTract(@)]
        /\ slot' = slot /\ ackTID' = ackTID
    BY <1>3 DEF CountTid
  <2>2. /\ \A e \in Devices : e # d => tract'[e] = tract[e]
        /\ tract'[d] = NextTract(tract[d])
    BY <1>0, <2>1 DEF Types
  <2>3. /\ air' = air /\ thread[d].pc = "count" /\ thread'[d].pc = "flags"
        /\ Budget(d)' = Budget(d) - 1 /\ Budget(d) >= 1 /\ Budget(d)' <= NumTids - 1
        /\ Budget(d) \in Int
    BY <1>0, <2>1, FillProperties, FillBudget
  <2>4. /\ \A x \in InUse(d) : x \in Tids /\ Distance(tract'[d], x) >= Budget(d)'
        /\ Distance(tract'[d], tract[d]) = NumTids - 1
    BY <1>0, <2>2, <2>3, CounterMoves
  <2>5. slot[d].port = "app" => Distance(tract'[d], slot[d].tid) >= Budget(d)'
    <3>1. /\ NumTids - 1 >= Budget(d)'
          /\ slot[d].port = "app" => slot[d].tid = tract[d]
      BY <1>0, <2>3 DEF Fresh, AckAssumption
    <3> QED
      BY <2>4, <3>1
  <2>6. Fresh(d)'
    BY <1>0, <2>1, <2>3, <2>4, <2>5, SameAir DEF Fresh
  <2>7. Awaited(d)'
    BY <1>0, <2>1, <2>3, SameAir DEF Awaited
  <2> QED
    BY <1>0, <2>1, <2>2, <2>6, <2>7, FillKeepsAckInv
<1>4. CASE PutFlags(d)
  <2>1. /\ Fill(d, "flags", "body") /\ slot' = [slot EXCEPT ![d].ack = "none"]
        /\ tract' = tract /\ ackTID' = ackTID
    BY <1>4 DEF PutFlags
  <2>2. /\ \A e \in Devices : e # d => slot'[e] = slot[e]
        /\ slot'[d].tid = slot[d].tid /\ slot'[d].port = slot[d].port
    BY <1>0, <2>1 DEF Types, Frames
  <2>3. /\ air' = air /\ thread[d].pc = "flags" /\ thread'[d].pc = "body"
        /\ Budget(d)' = Budget(d)
    BY <1>0, <2>1, FillProperties, FillBudget
  <2>4. Fresh(d)' /\ Awaited(d)'
    BY <1>0, <2>1, <2>2, <2>3, SameAir DEF Fresh, Awaited
  <2> QED
    BY <1>0, <2>1, <2>2, <2>4, FillKeepsAckInv
<1>5. CASE PutBody(d)
  <2> DEFINE next == IF thread[d].ack THEN "save" ELSE "dst"
  <2>1. /\ Fill(d, "body", next) /\ slot' = [slot EXCEPT ![d].body = thread[d].msg]
        /\ tract' = tract /\ ackTID' = ackTID
    BY <1>5 DEF PutBody
  <2>2. /\ \A e \in Devices : e # d => slot'[e] = slot[e]
        /\ slot'[d].tid = slot[d].tid /\ slot'[d].port = slot[d].port
    BY <1>0, <2>1 DEF Types, Frames
  <2>3. /\ air' = air /\ thread[d].pc = "body" /\ thread'[d].pc = next
        /\ thread'[d].ack = thread[d].ack /\ Budget(d)' = Budget(d)
    BY <1>0, <2>1, FillProperties, FillBudget
  <2>4. Fresh(d)' /\ Awaited(d)'
    BY <1>0, <2>1, <2>2, <2>3, SameAir DEF Fresh, Awaited
  <2> QED
    BY <1>0, <2>1, <2>2, <2>4, FillKeepsAckInv
<1>6. CASE SaveTid(d)
  <2>1. /\ Fill(d, "save", "request") /\ ackTID' = [ackTID EXCEPT ![d] = slot[d].tid]
        /\ slot' = slot /\ tract' = tract
    BY <1>6 DEF SaveTid
  <2>2. /\ \A e \in Devices : e # d => ackTID'[e] = ackTID[e]
        /\ ackTID'[d] = slot[d].tid
    BY <1>0, <2>1 DEF Types
  <2>3. /\ air' = air /\ thread[d].pc = "save" /\ thread'[d].pc = "request"
        /\ Budget(d)' = Budget(d)
    BY <1>0, <2>1, FillProperties, FillBudget
  <2>4. Fresh(d)' /\ Awaited(d)'
    BY <1>0, <2>1, <2>2, <2>3, SameAir DEF Fresh, Awaited
  <2> QED
    BY <1>0, <2>1, <2>2, <2>4, FillKeepsAckInv
<1>7. CASE RequestAck(d)
  <2>1. /\ Fill(d, "request", "dst") /\ slot' = [slot EXCEPT ![d].ack = "request"]
        /\ tract' = tract /\ ackTID' = ackTID
    BY <1>7 DEF RequestAck
  <2>2. /\ \A e \in Devices : e # d => slot'[e] = slot[e]
        /\ slot'[d].tid = slot[d].tid /\ slot'[d].port = slot[d].port
    BY <1>0, <2>1 DEF Types, Frames
  <2>3. /\ air' = air /\ thread[d].pc = "request" /\ thread'[d].pc = "dst"
        /\ Budget(d)' = Budget(d) /\ thread'[d].ack = thread[d].ack
    BY <1>0, <2>1, FillProperties, FillBudget
  <2>4. Fresh(d)' /\ Awaited(d)'
    BY <1>0, <2>1, <2>2, <2>3, SameAir DEF Fresh, Awaited
  <2> QED
    BY <1>0, <2>1, <2>2, <2>4, FillKeepsAckInv
<1>8. CASE PutDst(d)
  <2>1. /\ Fill(d, "dst", "send") /\ slot' = [slot EXCEPT ![d].dst = Peer(d)]
        /\ tract' = tract /\ ackTID' = ackTID
    BY <1>8 DEF PutDst
  <2>2. /\ \A e \in Devices : e # d => slot'[e] = slot[e]
        /\ slot'[d].tid = slot[d].tid /\ slot'[d].port = slot[d].port
    BY <1>0, <2>1 DEF Types, Frames
  <2>3. /\ air' = air /\ thread[d].pc = "dst" /\ thread'[d].pc = "send"
        /\ Budget(d)' = Budget(d) /\ thread'[d].ack = thread[d].ack
    BY <1>0, <2>1, FillProperties, FillBudget
  <2>4. Fresh(d)' /\ Awaited(d)'
    BY <1>0, <2>1, <2>2, <2>3, SameAir DEF Fresh, Awaited
  <2> QED
    BY <1>0, <2>1, <2>2, <2>4, FillKeepsAckInv
<1> QED
  BY <1>1, <1>2, <1>3, <1>4, <1>5, <1>6, <1>7, <1>8

(***************************************************************************)
(* The other steps.                                                        *)
(***************************************************************************)

\* A step that leaves the peer of d alone.
LEMMA StepKeepsAckInv ==
    ASSUME AckAssumption, IdsLast, AckInv, SendInv', NEW d \in Devices,
           LET e == Peer(d)
           IN  /\ slot'[e] = slot[e] /\ tract'[e] = tract[e] /\ thread'[e] = thread[e]
               /\ ackTID'[e] = ackTID[e]
               /\ MessagesOf(e)' \subseteq MessagesOf(e) /\ AcksFor(e)' \subseteq AcksFor(e),
           sends' >= sends, linkers' >= linkers, delivered' = delivered,
           Fresh(d)', Awaited(d)', AckMeansReceived'
    PROVE  AckInv'
<1> DEFINE e == Peer(d)
<1>1. e \in Devices /\ e # d /\ Peer(e) = d /\ \A c \in Devices : c = d \/ c = e
  BY PeerProperties
<1>2. SendInv /\ Fresh(e) /\ Awaited(e)
  BY <1>1 DEF AckInv
<1>3. InUse(e)' \subseteq InUse(e)
  BY DEF InUse
<1>4. Fresh(e)'
  BY <1>1, <1>2, <1>3, UntouchedFresh
<1>5. Awaited(e)'
  BY <1>1, <1>2, <1>3, UntouchedAwaited
<1> QED
  BY <1>1, <1>4, <1>5 DEF AckInv

LEMMA SendOptKeepsAckInv ==
    ASSUME AckAssumption, IdsLast, AckInv, SendInv', NEW d \in Devices,
           NEW ack \in BOOLEAN, SendOpt(d, ack)
    PROVE  AckInv'
<1>1. /\ thread[d] = Idle /\ sends < MaxSends /\ sends' = sends + 1
      /\ thread' = [thread EXCEPT ![d] = [pc |-> "port", msg |-> sends', ack |-> ack]]
      /\ UNCHANGED <<slot, tract, ackTID, air, linkers, delivered, confirmed>>
  BY DEF SendOpt
<1>2. /\ thread'[d] = [pc |-> "port", msg |-> sends', ack |-> ack]
      /\ thread'[Peer(d)] = thread[Peer(d)]
  BY <1>1, PeerProperties DEF AckInv, SendInv, Types
<1>3. Budget(d)' = Budget(d)
  <2>1. /\ sends \in Int /\ linkers \in Int /\ MaxSends \in Int /\ MaxLinkers \in Int
    BY Sizes DEF AckInv
  <2>2. Budget(d) = (MaxSends - sends) + (MaxLinkers - linkers) + 0
    BY <1>1 DEF Budget, Idle
  <2>3. Budget(d)' = (MaxSends - (sends + 1)) + (MaxLinkers - linkers) + 1
    BY <1>1, <1>2 DEF Budget
  <2> QED
    BY <2>1, <2>2, <2>3
<1>4. Fresh(d) /\ Awaited(d)
  BY DEF AckInv
<1>5. Fresh(d)' /\ Awaited(d)'
  BY <1>1, <1>2, <1>3, <1>4, SameAir DEF Fresh, Awaited
<1>6. AckMeansReceived'
  BY <1>1 DEF AckInv, AckMeansReceived
<1>7. sends' >= sends /\ linkers' >= linkers
  BY <1>1, Sizes DEF AckInv
<1>8. Peer(d) \in Devices
  BY PeerProperties
<1> QED
  BY <1>1, <1>2, <1>5, <1>6, <1>7, <1>8, SameAir, StepKeepsAckInv

LEMMA SendKeepsAckInv ==
    ASSUME AckAssumption, IdsLast, AckInv, SendInv', NEW d \in Devices,
           NEW sent \in BOOLEAN, Send(d, sent)
    PROVE  AckInv'
<1> DEFINE e == Peer(d)
           waiting == [pc |-> "wait", msg |-> thread[d].msg, ack |-> thread[d].ack]
           next == IF sent /\ thread[d].ack THEN waiting ELSE Idle
           mine == slot[d]
<1>0. /\ SendInv /\ Types /\ Building(d) /\ Fresh(d) /\ Awaited(d) /\ e \in Devices /\ e # d
      /\ Peer(e) = d
  BY PeerProperties DEF AckInv, SendInv
<1>1. /\ thread[d].pc = "send" /\ air' = IF sent THEN air \union {mine} ELSE air
      /\ UNCHANGED <<slot, tract, ackTID, sends, linkers, delivered, confirmed>>
  BY DEF Send
<1>2. thread'[d] = next /\ thread'[e] = thread[e]
  <2>1. [thread[d] EXCEPT !.pc = "wait"] = waiting
    BY <1>0 DEF Types
  <2> QED
    BY <1>0, <2>1 DEF Send, Types
<1>3. mine.ack # "reply" /\ (mine.port = "app" => mine.dst = e /\ mine.body = thread[d].msg)
  BY <1>0, <1>1 DEF Building
<1>4. /\ MessagesOf(e)' \subseteq MessagesOf(e) /\ AcksFor(e)' \subseteq AcksFor(e)
      /\ AcksFor(d)' \subseteq AcksFor(d)
      /\ \A f \in MessagesOf(d)' : f \in MessagesOf(d) \/ (f = mine /\ mine.port = "app")
  BY <1>0, <1>1, <1>3 DEF MessagesOf, AcksFor
<1>5. \A x \in InUse(d)' : x \in InUse(d) \/ (x = mine.tid /\ mine.port = "app")
  BY <1>4 DEF InUse
<1>6. Budget(d)' = Budget(d)
  <2>1. next.pc \notin {"port", "tid", "count"}
    BY DEF Idle
  <2> QED
    BY <1>1, <1>2, <2>1 DEF Budget
<1>7. Fresh(d)'
  <2>1. \A x \in InUse(d)' : x \in Tids /\ Distance(tract[d], x) >= Budget(d)
    BY <1>0, <1>1, <1>5 DEF Fresh
  <2>2. thread'[d].pc \in {"idle", "wait"}
    BY <1>2 DEF Idle
  <2> QED
    BY <1>1, <1>6, <2>1, <2>2 DEF Fresh
<1>8. Awaited(d)'
  <2>1. CASE sent /\ thread[d].ack
    <3>1. thread'[d] = waiting /\ ackTID[d] \in Tids \ InUse(d)
      BY <1>0, <1>1, <1>2, <2>1 DEF Awaited
    <3>2. \A f \in MessagesOf(d)' : f.tid = ackTID[d] => f.body = thread[d].msg
      BY <1>3, <1>4, <3>1 DEF InUse
    <3>3. \A f \in AcksFor(d)' : f.tid # ackTID[d]
      BY <1>4, <3>1 DEF InUse
    <3>4. ackTID[d] # 0
      BY <3>1 DEF Tids, AckAssumption
    <3> QED
      BY <1>1, <3>1, <3>2, <3>3, <3>4 DEF Awaited
  <2>2. CASE ~(sent /\ thread[d].ack)
    <3>1. thread'[d].pc = "idle"
      BY <1>2, <2>2 DEF Idle
    <3> QED
      BY <3>1 DEF Awaited
  <2> QED
    BY <2>1, <2>2
<1>9. AckMeansReceived'
  BY <1>1 DEF AckInv, AckMeansReceived
<1>10. sends' >= sends /\ linkers' >= linkers
  BY <1>0, <1>1, Sizes
<1> QED
  BY <1>0, <1>1, <1>2, <1>4, <1>7, <1>8, <1>9, <1>10, StepKeepsAckInv

LEMMA WaitOverKeepsAckInv ==
    ASSUME AckAssumption, IdsLast, AckInv, SendInv', NEW d \in Devices, WaitOver(d)
    PROVE  AckInv'
<1> DEFINE e == Peer(d)
<1>0. /\ SendInv /\ Types /\ Fresh(d) /\ Awaited(d) /\ e \in Devices /\ e # d
  BY PeerProperties DEF AckInv, SendInv
<1>1. /\ thread[d].pc = "wait" /\ thread' = [thread EXCEPT ![d] = Idle]
      /\ ackTID' = [ackTID EXCEPT ![d] = 0]
      /\ UNCHANGED <<slot, tract, air, sends, linkers, delivered>>
      /\ confirmed' = IF ackTID[d] = 0
                      THEN [confirmed EXCEPT ![d] = @ \union {thread[d].msg}] ELSE confirmed
  BY DEF WaitOver
<1>2. thread'[d] = Idle /\ thread'[e] = thread[e] /\ ackTID'[e] = ackTID[e]
  BY <1>0, <1>1 DEF Types
<1>3. Budget(d)' = Budget(d)
  BY <1>1, <1>2 DEF Budget, Idle
<1>4. Fresh(d)' /\ Awaited(d)'
  BY <1>0, <1>1, <1>2, <1>3, SameAir DEF Fresh, Awaited, Idle
<1>5. AckMeansReceived'
  <2>1. ackTID[d] = 0 => thread[d].msg \in delivered[e]
    BY <1>0, <1>1 DEF Awaited
  <2>2. \A c \in Devices : confirmed[c] \subseteq delivered[Peer(c)]
    BY DEF AckInv, AckMeansReceived
  <2>3. \A c \in Devices : confirmed'[c] \subseteq delivered[Peer(c)]
    BY <1>0, <1>1, <2>1, <2>2 DEF Types
  <2> QED
    BY <1>1, <2>3 DEF AckMeansReceived
<1>6. sends' >= sends /\ linkers' >= linkers
  BY <1>0, <1>1, Sizes
<1> QED
  BY <1>0, <1>1, <1>2, <1>4, <1>5, <1>6, SameAir, StepKeepsAckInv

LEMMA LinkReplyKeepsAckInv ==
    ASSUME AckAssumption, IdsLast, AckInv, SendInv', NEW d \in Devices, LinkReply(d)
    PROVE  AckInv'
<1> DEFINE e == Peer(d)
           f == Frame("link", tract[d], "none", 0, Third)
<1>0. /\ SendInv /\ Types /\ Fresh(d) /\ Awaited(d) /\ e \in Devices /\ e # d
  BY PeerProperties DEF AckInv, SendInv
<1>1. /\ linkers < MaxLinkers /\ linkers' = linkers + 1
      /\ slot' = [slot EXCEPT ![d] = f]
      /\ tract' = [tract EXCEPT ![d] = NextTract(@)]
      /\ UNCHANGED <<ackTID, thread, air, sends, delivered, confirmed>>
  BY DEF LinkReply
<1>2. slot'[d] = f /\ slot'[e] = slot[e] /\ tract'[e] = tract[e]
      /\ tract'[d] = NextTract(tract[d]) /\ tract[d] \in Tids
  BY <1>0, <1>1 DEF Types
<1>3. Budget(d) >= 1 /\ Budget(d)' = Budget(d) - 1
  <2> DEFINE c == IF thread[d].pc \in {"port", "tid", "count"} THEN 1 ELSE 0
  <2>1. c \in {0, 1} /\ Budget(d) = (MaxSends - sends) + (MaxLinkers - linkers) + c
    BY DEF Budget
  <2>2. Budget(d)' = (MaxSends - sends) + (MaxLinkers - (linkers + 1)) + c
    BY <1>1 DEF Budget
  <2> HIDE DEF c
  <2>3. /\ sends \in Nat /\ sends <= MaxSends /\ linkers \in Nat
        /\ MaxSends \in Nat /\ MaxLinkers \in Nat
    BY <1>0, Sizes
  <2> QED
    BY <1>1, <2>1, <2>2, <2>3
<1>4. /\ \A x \in InUse(d) : x \in Tids /\ Distance(tract'[d], x) >= Budget(d)'
      /\ tract[d] \notin InUse(d)
  BY <1>0, <1>2, <1>3, CounterMoves
<1>5. Fresh(d)'
  BY <1>0, <1>1, <1>2, <1>4, SameAir DEF Fresh, Frame
<1>6. Awaited(d)'
  BY <1>0, <1>1, SameAir DEF Awaited
<1>7. AckMeansReceived'
  BY <1>1 DEF AckInv, AckMeansReceived
<1>8. sends' >= sends /\ linkers' >= linkers
  BY <1>0, <1>1, Sizes
<1> QED
  BY <1>0, <1>1, <1>2, <1>5, <1>6, <1>7, <1>8, SameAir, StepKeepsAckInv

\* The interrupt takes a frame and leaves the devices as they are, but for the ack
\* it may answer and the id that is no longer awaited.
LEMMA ReceiptKeepsAckInv ==
    ASSUME AckAssumption, IdsLast, AckInv, SendInv',
           UNCHANGED <<slot, tract, thread, sends, linkers, confirmed>>,
           \A d \in Devices : /\ delivered[d] \subseteq delivered'[d]
                             /\ InUse(d)' \subseteq InUse(d)
                             /\ Awaited(d)'
    PROVE  AckInv'
<1>1. sends' >= sends /\ linkers' >= linkers
  BY DEF AckInv, SendInv, Types, Bodies, AckAssumption
<1>2. \A d \in Devices : Fresh(d)'
  BY <1>1, UntouchedFresh DEF AckInv
<1>3. AckMeansReceived'
  <2> SUFFICES ASSUME NEW d \in Devices
               PROVE  confirmed[d] \subseteq delivered'[Peer(d)]
    BY DEF AckMeansReceived
  <2>1. Peer(d) \in Devices /\ confirmed[d] \subseteq delivered[Peer(d)]
    BY PeerProperties DEF AckInv, AckMeansReceived
  <2> QED
    BY <2>1
<1> QED
  BY <1>2, <1>3 DEF AckInv

LEMMA MessageKeepsAckInv ==
    ASSUME AckAssumption, IdsLast, AckInv, SendInv', NEW d \in Devices, NEW f \in air,
           Message(d, f)
    PROVE  AckInv'
<1> DEFINE e == Peer(d)
           ack == Frame("app", f.tid, "reply", 0, e)
<1>0. /\ e \in Devices /\ e # d /\ Peer(e) = d /\ \A c \in Devices : c = d \/ c = e
      /\ Awaited(d) /\ Awaited(e) /\ Types
  BY PeerProperties DEF AckInv, SendInv
<1>1. /\ f.dst = d /\ f.port = "app" /\ f.ack # "reply"
      /\ air' \subseteq air \union {ack}
      /\ delivered' = [delivered EXCEPT ![d] = @ \union {f.body}]
      /\ UNCHANGED <<slot, tract, ackTID, thread, sends, linkers, confirmed>>
  BY DEF Message, Taken
<1>2. /\ delivered'[d] = delivered[d] \union {f.body} /\ delivered'[e] = delivered[e]
      /\ \A c \in Devices : delivered[c] \subseteq delivered'[c]
  BY <1>0, <1>1 DEF Types
<1>3. f \in MessagesOf(e)
  BY <1>0, <1>1 DEF MessagesOf
<1>4. /\ MessagesOf(d)' \subseteq MessagesOf(d) /\ MessagesOf(e)' \subseteq MessagesOf(e)
      /\ AcksFor(d)' \subseteq AcksFor(d)
      /\ \A g \in AcksFor(e)' : g \in AcksFor(e) \/ g.tid = f.tid
  BY <1>0, <1>1 DEF MessagesOf, AcksFor, Frame
<1>5. InUse(d)' \subseteq InUse(d) /\ InUse(e)' \subseteq InUse(e)
  BY <1>3, <1>4 DEF InUse
<1>6. Awaited(d)'
  BY <1>0, <1>1, <1>2, <1>4, <1>5, UntouchedAwaited
<1>7. Awaited(e)'
  <2>1. f.body \in delivered'[Peer(e)] /\ delivered[Peer(e)] \subseteq delivered'[Peer(e)]
    BY <1>0, <1>2
  <2> QED
    BY <1>0, <1>1, <1>3, <1>4, <1>5, <2>1, UntouchedAwaited
<1> QED
  BY <1>0, <1>1, <1>2, <1>5, <1>6, <1>7, ReceiptKeepsAckInv

\* A frame leaves the air; an ack may be the one awaited.
LEMMA FrameLeavesKeepsAckInv ==
    ASSUME AckAssumption, IdsLast, AckInv, SendInv', NEW f \in air,
           Stray(f) \/ Lose(f) \/ \E d \in Devices : Ack(d, f)
    PROVE  AckInv'
<1>1. /\ air' \subseteq air
      /\ UNCHANGED <<slot, tract, thread, sends, linkers, delivered, confirmed>>
      /\ \A c \in Devices : ackTID'[c] = ackTID[c]
                             \/ (ackTID'[c] = 0 /\ ackTID[c] = f.tid /\ f \in AcksFor(c))
  BY DEF Stray, Lose, Ack, Taken, AcksFor, AckInv, SendInv, Types
<1>2. ASSUME NEW c \in Devices
      PROVE  InUse(c)' \subseteq InUse(c) /\ Awaited(c)'
  <2>1. /\ MessagesOf(c)' \subseteq MessagesOf(c) /\ AcksFor(c)' \subseteq AcksFor(c)
    BY <1>1 DEF MessagesOf, AcksFor
  <2>2. InUse(c)' \subseteq InUse(c)
    BY <2>1 DEF InUse
  <2>3. CASE ackTID'[c] = ackTID[c]
    BY <1>1, <2>1, <2>2, <2>3, UntouchedAwaited DEF AckInv
  <2>4. CASE ackTID'[c] = 0 /\ ackTID[c] = f.tid /\ f \in AcksFor(c)
    <3>1. f.tid \in InUse(c)
      BY <2>4 DEF InUse
    <3>2. Fresh(c) /\ Awaited(c)
      BY DEF AckInv
    <3>3. thread[c].pc = "wait" => thread[c].msg \in delivered[Peer(c)]
      BY <2>4, <3>2 DEF Awaited
    <3>4. ~(thread[c].ack /\ thread[c].pc \in {"request", "dst", "send"})
      BY <2>4, <3>1, <3>2 DEF Awaited
    <3>5. 0 \notin InUse(c)
      BY <3>2 DEF Fresh, Tids, AckAssumption
    <3>6. /\ \A g \in MessagesOf(c)' : g.tid # 0
          /\ \A g \in AcksFor(c)' : g.tid # 0
      BY <2>1, <3>5 DEF InUse
    <3> QED
      BY <1>1, <2>2, <2>4, <3>3, <3>4, <3>6 DEF Awaited
  <2> QED
    BY <1>1, <2>2, <2>3, <2>4
<1> QED
  BY <1>1, <1>2, ReceiptKeepsAckInv

LEMMA NextAckInv ==
    ASSUME AckAssumption, IdsLast, AckInv, [Next]_vars
    PROVE  AckInv'
<1>0. SendInv'
  BY NextSendInv DEF AckInv
<1>1. CASE UNCHANGED vars
  <2>1. /\ UNCHANGED <<slot, tract, ackTID, thread, air, sends, linkers, delivered, confirmed>>
    BY <1>1 DEF vars
  <2>2. \A d \in Devices : Awaited(d)' /\ InUse(d)' \subseteq InUse(d)
    BY <2>1, SameAir, UntouchedAwaited DEF AckInv
  <2> QED
    BY <1>0, <2>1, <2>2, ReceiptKeepsAckInv
<1>2. ASSUME NEW d \in Devices, Thread(d) \/ LinkReply(d)
      PROVE  AckInv'
  BY <1>0, <1>2, BuildingKeepsAckInv, SendOptKeepsAckInv, SendKeepsAckInv,
     WaitOverKeepsAckInv, LinkReplyKeepsAckInv DEF Thread
<1>3. ASSUME NEW f \in air, Stray(f) \/ Lose(f) \/ \E d \in Devices : Message(d, f) \/ Ack(d, f)
      PROVE  AckInv'
  BY <1>0, <1>3, MessageKeepsAckInv, FrameLeavesKeepsAckInv
<1> QED
  BY <1>1, <1>2, <1>3 DEF Next

LEMMA InitAckInv ==
    ASSUME AckAssumption, IdsLast, Init
    PROVE  AckInv
<1>1. SendInv
  BY InitSendInv
<1>2. /\ thread = [d \in Devices |-> Idle] /\ air = {}
      /\ confirmed = [d \in Devices |-> {}]
  BY DEF Init
<1>3. \A d \in Devices : MessagesOf(d) = {} /\ AcksFor(d) = {}
  BY <1>2 DEF MessagesOf, AcksFor
<1>4. \A d \in Devices : InUse(d) = {}
  BY <1>3 DEF InUse
<1>5. \A d \in Devices : Fresh(d) /\ Awaited(d)
  BY <1>2, <1>4 DEF Fresh, Awaited, Idle
<1> QED
  BY <1>1, <1>2, <1>5 DEF AckInv, AckMeansReceived

\* A message reported as acknowledged has arrived, whatever is lost, late, repeated
\* or interrupted, until the ids have gone round (smpl_send, nwk_isConnectionValid).
THEOREM AcksTrusted ==
    ASSUME AckAssumption, IdsLast
    PROVE  Spec => []AckMeansReceived
<1>1. Init => AckInv
  BY InitAckInv
<1>2. AckInv /\ [Next]_vars => AckInv'
  BY NextAckInv
<1>3. AckInv => AckMeansReceived
  BY DEF AckInv
<1> QED
  BY <1>1, <1>2, <1>3, PTL DEF Spec

(***************************************************************************)
(* The connection table: its fields, and its invariant.                    *)
(***************************************************************************)

\* A table's fields, and those of a connection.
ConnType == [used : BOOLEAN, peer : Listeners \cup Linkers \cup {NoPeer},
             portRx : {0} \cup PortBase..PortMax, portTx : {0} \cup RemotePorts,
             lid : {0} \cup Table!LinkIds]
TableType == [conn : [Table!ConnIdx -> ConnType], nextLinkPort : PortBase - 1..PortMax,
              maxReplyPort : PortBase..PortMax, nextLid : Table!LinkIds]

\* The connections of links that this device accepted.
Accepted == Table!Connected(table) \ asked

\* The ports asked for come from the top of the range, those accepted with from the
\* bottom, each as far as there are connections, and nextLinkPort lies between.
PortRanges ==
    /\ asked \subseteq Table!Connected(table) /\ pending \in asked \cup {0}
    /\ table.nextLinkPort >= PortMax - NumConnections
    /\ \A c \in asked : /\ table.conn[c].portRx > table.nextLinkPort
                        /\ table.conn[c].portRx \in PortMax - NumConnections + 1..PortMax
    /\ \A c \in Accepted : /\ table.conn[c].portRx <= table.nextLinkPort
                           /\ table.conn[c].portRx \in PortBase..PortBase + NumConnections - 1

\* Within a range, ports tell the connections apart, those accepted per peer.
PortsDistinct ==
    /\ \A c, d \in asked : table.conn[c].portRx = table.conn[d].portRx => c = d
    /\ \A c, d \in Accepted :
           table.conn[c].portRx = table.conn[d].portRx
           /\ table.conn[c].peer = table.conn[d].peer => c = d

\* Links are concluded with listeners and accepted from linkers.
PeersOfKind ==
    /\ \A c \in asked \ {pending} : table.conn[c].peer \in Listeners
    /\ \A c \in Accepted : table.conn[c].peer \in Linkers

TableInv == Table!TypeOK /\ Table!IdsIdentify /\ PortRanges /\ PortsDistinct /\ PeersOfKind

(***************************************************************************)
(* The loops over the table and over the ids.                              *)
(***************************************************************************)

\* A set of numbers has a least one.
LEMMA LeastOf ==
    ASSUME NEW S \in SUBSET Nat, S # {}
    PROVE  Table!Min(S) \in S /\ \A n \in S : Table!Min(S) <= n
<1>1. PICK m \in S : \A k \in S : ~(<<k, m>> \in OpToRel(<, Nat))
  BY NatLessThanWellFounded, WFMin
<1>2. \A k \in S : ~(k < m)
  BY <1>1 DEF OpToRel
<1>3. \A k \in S : m <= k
  BY <1>2
<1> QED
  BY <1>3 DEF Table!Min

\* A search that finds a connection finds one that was looked for.
LEMMA FirstOf ==
    ASSUME Table!ConnectionsAssumption, NEW S \in SUBSET Table!ConnIdx, Table!First(S) # 0
    PROVE  Table!First(S) \in S
<1>1. S \in SUBSET Nat /\ S # {}
  BY DEF Table!ConnectionsAssumption, Table!ConnIdx, Table!First
<1> QED
  BY <1>1, LeastOf DEF Table!First

\* There are more ids than connections: the next id that is free exists and is free.
LEMMA IdIsFresh ==
    ASSUME Table!ConnectionsAssumption, NEW t, NEW id \in Table!LinkIds
    PROVE  /\ Table!FreshLid(t, id) \in Table!LinkIds
           /\ \A c \in Table!Connected(t) : t.conn[c].lid # Table!FreshLid(t, id)
<1> DEFINE Used == {t.conn[c].lid : c \in Table!Connected(t)}
           Free == {n \in 1..MaxLid : Table!After(id, n) \notin Used}
<1>1. Free # {}
  <2> SUFFICES ASSUME Free = {}
               PROVE  FALSE
    OBVIOUS
  <2> DEFINE f == [n \in 1..MaxLid |->
                     CHOOSE c \in Table!Connected(t) : t.conn[c].lid = Table!After(id, n)]
  <2>1. \A n \in 1..MaxLid : f[n] \in Table!Connected(t) /\ t.conn[f[n]].lid = Table!After(id, n)
    OBVIOUS
  <2>2. f \in [1..MaxLid -> Table!ConnIdx]
    BY <2>1 DEF Table!Connected
  <2>3. IsFiniteSet(1..MaxLid) /\ Cardinality(1..MaxLid) = MaxLid
    BY FS_Interval DEF Table!ConnectionsAssumption
  <2>4. IsFiniteSet(Table!ConnIdx) /\ Cardinality(Table!ConnIdx) = NumConnections
    BY FS_Interval DEF Table!ConnectionsAssumption, Table!ConnIdx
  <2>5. PICK m \in 1..MaxLid, n \in 1..MaxLid : m # n /\ f[m] = f[n]
    <3> HIDE DEF f
    <3> QED
      BY <2>2, <2>3, <2>4, FS_PigeonHole DEF Table!ConnectionsAssumption
  <2>6. Table!After(id, m) = Table!After(id, n)
    BY <2>1, <2>5
  <2> QED
    BY <2>5, <2>6 DEF Table!After, Table!LinkIds, Table!ConnectionsAssumption
<1>2. Table!Min(Free) \in Free
  <2>1. Free \in SUBSET Nat
    OBVIOUS
  <2> QED
    BY <1>1, <2>1, LeastOf
<1>3. Table!FreshLid(t, id) = Table!After(id, Table!Min(Free))
  BY DEF Table!FreshLid
<1>4. Table!After(id, Table!Min(Free)) \in Table!LinkIds
  BY <1>2 DEF Table!After, Table!LinkIds, Table!ConnectionsAssumption
<1> QED
  BY <1>2, <1>3, <1>4

(***************************************************************************)
(* What the operations do to a table.                                      *)
(***************************************************************************)

\* A connection taken has the next id, and the id after it is free.
LEMMA Initialized ==
    ASSUME Table!ConnectionsAssumption, NEW t \in TableType, NEW c \in Table!ConnIdx, NEW u,
           u = Table!InitializeConn(t, c)
    PROVE  /\ u \in TableType
           /\ u.nextLinkPort = t.nextLinkPort /\ u.maxReplyPort = t.maxReplyPort
           /\ Table!Connected(u) = Table!Connected(t) \cup {c}
           /\ u.conn[c].lid = t.nextLid /\ u.conn[c].peer = t.conn[c].peer
           /\ \A d \in Table!ConnIdx \ {c} : u.conn[d] = t.conn[d]
           /\ \A d \in Table!Connected(u) : u.conn[d].lid # u.nextLid
<1> DEFINE e == [[[t.conn[c] EXCEPT !.used = TRUE] EXCEPT !.portTx = 0] EXCEPT !.lid = t.nextLid]
           v == [t EXCEPT !.conn[c].used = TRUE, !.conn[c].portTx = 0, !.conn[c].lid = t.nextLid]
           id == Table!FreshLid(v, t.nextLid)
<1>1. t.conn[c] \in ConnType /\ t.nextLid \in Table!LinkIds
  BY DEF TableType
<1>2. e \in ConnType /\ e.used /\ e.lid = t.nextLid /\ e.peer = t.conn[c].peer
  BY <1>1 DEF ConnType
<1>3. v = [t EXCEPT !.conn = [t.conn EXCEPT ![c] = e]]
  BY DEF TableType
<1> HIDE DEF e, v
<1>4. v \in TableType /\ v.conn = [t.conn EXCEPT ![c] = e]
  BY <1>2, <1>3 DEF TableType
<1>5. id \in Table!LinkIds /\ \A d \in Table!Connected(v) : v.conn[d].lid # id
  BY <1>1, IdIsFresh
<1>6. u = [v EXCEPT !.nextLid = id]
  BY DEF Table!InitializeConn, v
<1> HIDE DEF id
<1>7. u \in TableType /\ u.conn = v.conn /\ u.nextLid = id
  BY <1>4, <1>5, <1>6 DEF TableType
<1>8. Table!Connected(u) = Table!Connected(t) \cup {c}
  BY <1>2, <1>4, <1>7 DEF Table!Connected, TableType
<1>9. u.nextLinkPort = t.nextLinkPort /\ u.maxReplyPort = t.maxReplyPort
  BY <1>3, <1>4, <1>6 DEF TableType
<1>10. /\ u.conn[c] = e
       /\ \A d \in Table!ConnIdx \ {c} : u.conn[d] = t.conn[d]
  BY <1>4, <1>7 DEF TableType
<1>11. \A d \in Table!Connected(u) : u.conn[d].lid # u.nextLid
  BY <1>5, <1>7 DEF Table!Connected
<1> QED
  BY <1>2, <1>7, <1>8, <1>9, <1>10, <1>11

(***************************************************************************)
(* The invariant is kept.                                                  *)
(***************************************************************************)

\* Whatever only frees connections, and leaves the others and the limits alone.
LEMMA Kept ==
    ASSUME Table!TableAssumption, TableInv, Table!TypeOK',
           Table!Connected(table)' \subseteq Table!Connected(table),
           \A c \in Table!Connected(table)' : table'.conn[c] = table.conn[c],
           \A c \in Table!Connected(table)' : table'.conn[c].lid # table'.nextLid,
           table'.nextLinkPort = table.nextLinkPort,
           asked' = asked \cap Table!Connected(table)', pending' \in asked' \cup {0},
           asked' \ {pending'} \subseteq asked \ {pending}
    PROVE  TableInv'
<1> DEFINE C == Table!Connected(table)
           D == Table!Connected(table)'
<1>1. D \subseteq C /\ asked' = asked \cap D /\ D \ asked' \subseteq C \ asked
  OBVIOUS
<1>2. \A c \in D : table'.conn[c] = table.conn[c]
  OBVIOUS
<1> HIDE DEF C, D
<1>3. Table!IdsIdentify'
  BY <1>1, <1>2 DEF TableInv, Table!IdsIdentify, C, D
<1>4. PortRanges'
  BY <1>1, <1>2 DEF TableInv, PortRanges, Accepted, C, D
<1>5. PortsDistinct'
  BY <1>1, <1>2 DEF TableInv, PortsDistinct, Accepted, C, D
<1>6. PeersOfKind'
  BY <1>1, <1>2 DEF TableInv, PeersOfKind, Accepted, C, D
<1> QED
  BY <1>3, <1>4, <1>5, <1>6 DEF TableInv

\* The type invariant in terms of the types above.
LEMMA TableTypeOK ==
    Table!TypeOK = (/\ table \in TableType /\ pending \in Table!ConnIdx \cup {0}
                    /\ asked \subseteq Table!ConnIdx)
  BY DEF Table!TypeOK, TableType, ConnType

\* A connection freed: the others stay what they are.
LEMMA Freed ==
    ASSUME Table!ConnectionsAssumption, NEW t \in TableType, NEW c \in Table!ConnIdx, NEW u,
           u = Table!FreeConnection(t, c)
    PROVE  /\ u \in TableType /\ Table!Connected(u) = Table!Connected(t) \ {c}
           /\ \A d \in Table!ConnIdx \ {c} : u.conn[d] = t.conn[d]
           /\ u.nextLinkPort = t.nextLinkPort /\ u.nextLid = t.nextLid
<1>1. t.conn[c] \in ConnType
  BY DEF TableType
<1> DEFINE e == [t.conn[c] EXCEPT !.used = FALSE]
<1>2. e \in ConnType /\ ~e.used
  BY <1>1 DEF ConnType
<1>3. u = [t EXCEPT !.conn = [t.conn EXCEPT ![c] = e]]
  BY DEF Table!FreeConnection, TableType
<1> HIDE DEF e
<1>4. /\ u \in TableType /\ u.conn = [t.conn EXCEPT ![c] = e]
      /\ u.nextLinkPort = t.nextLinkPort /\ u.nextLid = t.nextLid
  BY <1>2, <1>3 DEF TableType
<1> QED
  BY <1>2, <1>4 DEF Table!Connected, TableType

\* Nothing happens.
LEMMA UnchangedKeeps ==
    ASSUME Table!TableAssumption, TableInv, UNCHANGED Table!vars
    PROVE  TableInv'
  BY DEF Table!vars, TableInv, Table!TypeOK, Table!IdsIdentify, PortRanges, PortsDistinct,
         PeersOfKind, Accepted, Table!Connected

\* No reply to a link request: its connection is freed.
LEMMA TimedOutKeeps ==
    ASSUME Table!TableAssumption, TableInv, Table!TimedOut
    PROVE  TableInv'
<1>1. /\ table \in TableType /\ pending \in Table!ConnIdx
      /\ asked \subseteq Table!Connected(table) /\ asked \subseteq Table!ConnIdx
  BY TableTypeOK DEF TableInv, Table!TimedOut, PortRanges
<1>2. /\ table' \in TableType /\ Table!Connected(table') = Table!Connected(table) \ {pending}
      /\ \A d \in Table!ConnIdx \ {pending} : table'.conn[d] = table.conn[d]
      /\ table'.nextLinkPort = table.nextLinkPort /\ table'.nextLid = table.nextLid
  BY <1>1, Freed DEF Table!TimedOut, Table!TableAssumption
<1>3. asked' = asked \ {pending} /\ pending' = 0
  BY DEF Table!TimedOut
<1>4. Table!TypeOK'
  BY <1>1, <1>2, <1>3 DEF Table!TypeOK, TableType, ConnType
<1>5. \A c \in Table!Connected(table)' :
          c \in Table!ConnIdx \ {pending} /\ c \in Table!Connected(table)
  BY <1>2 DEF Table!Connected
<1>6. \A c \in Table!Connected(table)' : table'.conn[c].lid # table'.nextLid
  BY <1>2, <1>5 DEF TableInv, Table!IdsIdentify
<1>7. asked' = asked \cap Table!Connected(table)'
  BY <1>1, <1>2, <1>3
<1> QED
  BY <1>2, <1>3, <1>4, <1>5, <1>6, <1>7, Kept

\* A connection is deleted.
LEMMA DeleteKeeps ==
    ASSUME Table!TableAssumption, TableInv, NEW lid \in Table!LinkIds, Table!Delete(lid)
    PROVE  TableInv'
<1> DEFINE k == Table!ConnOf(table, lid)
<1>1. k \in Table!ConnIdx
  BY FirstOf DEF Table!Delete, Table!ConnOf, Table!TableAssumption, Table!Connected
<1>2. /\ table' = Table!FreeConnection(table, k) /\ pending = 0 /\ pending' = 0
       /\ asked' = asked \ {k}
  BY DEF Table!Delete
<1> HIDE DEF k
<1>3. table \in TableType /\ asked \subseteq Table!Connected(table)
  BY TableTypeOK DEF TableInv, PortRanges
<1>4. /\ table' \in TableType /\ Table!Connected(table') = Table!Connected(table) \ {k}
      /\ \A d \in Table!ConnIdx \ {k} : table'.conn[d] = table.conn[d]
      /\ table'.nextLinkPort = table.nextLinkPort /\ table'.nextLid = table.nextLid
  BY <1>1, <1>2, <1>3, Freed DEF Table!TableAssumption
<1>5. Table!TypeOK'
  BY <1>2, <1>3, <1>4 DEF TableInv, Table!TypeOK, TableType, ConnType
<1>6. \A c \in Table!Connected(table)' :
          c \in Table!ConnIdx \ {k} /\ c \in Table!Connected(table)
  BY <1>4 DEF Table!Connected
<1>7. \A c \in Table!Connected(table)' : table'.conn[c].lid # table'.nextLid
  BY <1>4, <1>6 DEF TableInv, Table!IdsIdentify
<1>8. asked' = asked \cap Table!Connected(table)'
  BY <1>2, <1>3, <1>4
<1>9. asked' \ {pending'} \subseteq asked \ {pending} /\ pending' \in asked' \cup {0}
  BY <1>2
<1> QED
  BY <1>4, <1>5, <1>6, <1>7, <1>8, <1>9, Kept

\* The reply to a link request: the peer is known.
LEMMA ConcludedKeeps ==
    ASSUME Table!TableAssumption, TableInv, NEW peer \in Listeners, NEW port \in RemotePorts,
           Table!Concluded(peer, port)
    PROVE  TableInv'
<1> DEFINE e == [[table.conn[pending] EXCEPT !.peer = peer] EXCEPT !.portTx = port]
<1>1. table \in TableType /\ pending \in Table!ConnIdx /\ pending \in asked
      /\ asked \subseteq Table!Connected(table)
  BY TableTypeOK DEF TableInv, Table!Concluded, PortRanges
<1>2. table.conn[pending] \in ConnType
  BY <1>1 DEF TableType
<1>3. /\ e \in ConnType /\ e.peer = peer /\ e.portRx = table.conn[pending].portRx
      /\ e.lid = table.conn[pending].lid /\ e.used = table.conn[pending].used
  BY <1>2 DEF ConnType
<1>4. table' = [table EXCEPT !.conn = [table.conn EXCEPT ![pending] = e]]
  BY <1>1 DEF Table!Concluded, TableType
<1> HIDE DEF e
<1>5. /\ table' \in TableType /\ table'.conn = [table.conn EXCEPT ![pending] = e]
      /\ table'.nextLinkPort = table.nextLinkPort /\ table'.nextLid = table.nextLid
  BY <1>1, <1>3, <1>4 DEF TableType
<1>6. \A c \in Table!ConnIdx : /\ table'.conn[c].portRx = table.conn[c].portRx
                         /\ table'.conn[c].lid = table.conn[c].lid
                         /\ table'.conn[c].used = table.conn[c].used
                         /\ table'.conn[c].peer = IF c = pending THEN peer ELSE table.conn[c].peer
  BY <1>1, <1>3, <1>5 DEF TableType
<1>7. Table!Connected(table)' = Table!Connected(table) /\ Accepted' = Accepted
      /\ asked' = asked /\ pending' = 0
      /\ Table!Connected(table) \subseteq Table!ConnIdx /\ asked \subseteq Table!ConnIdx
      /\ pending \notin Accepted /\ Accepted \subseteq Table!ConnIdx
  BY <1>1, <1>6 DEF Table!Connected, Accepted, Table!Concluded
<1>8. Table!TypeOK'
  BY <1>5, <1>7 DEF Table!TypeOK, TableType, ConnType
<1>9. Table!IdsIdentify'
  BY <1>5, <1>6, <1>7 DEF TableInv, Table!IdsIdentify
<1>10. PortRanges'
  BY <1>1, <1>5, <1>6, <1>7 DEF TableInv, PortRanges
<1>11. PortsDistinct'
  BY <1>6, <1>7 DEF TableInv, PortsDistinct
<1>12. PeersOfKind'
  BY <1>6, <1>7 DEF TableInv, PeersOfKind
<1> QED
  BY <1>8, <1>9, <1>10, <1>11, <1>12 DEF TableInv

\* An allocation sets a connection's port, and moves the limits of the ranges.
LEMMA Allocated ==
    ASSUME Table!ConnectionsAssumption, NEW t \in TableType, NEW c \in Table!ConnIdx,
           NEW which \in {"send", "reply"}, NEW num \in {0} \cup PortBase..PortMax,
           num = Table!Port(t, which, c), NEW v, v = Table!AllocatePort(t, which, c),
           which = "send" /\ num = t.nextLinkPort => num # 0
    PROVE  /\ v \in TableType /\ Table!Connected(v) = Table!Connected(t) /\ v.nextLid = t.nextLid
           /\ \A d \in Table!ConnIdx \ {c} : v.conn[d] = t.conn[d]
           /\ v.conn[c] = [t.conn[c] EXCEPT !.portRx = num]
           /\ v.nextLinkPort = IF which = "send" /\ num = t.nextLinkPort
                               THEN num - 1 ELSE t.nextLinkPort
<1> DEFINE e == [t.conn[c] EXCEPT !.portRx = num]
           m == IF which = "reply" /\ num > t.maxReplyPort THEN num ELSE t.maxReplyPort
           n == IF which = "send" /\ num = t.nextLinkPort THEN t.nextLinkPort - 1
                ELSE t.nextLinkPort
<1>1. t.conn[c] \in ConnType /\ t.nextLinkPort \in PortBase - 1..PortMax
      /\ t.maxReplyPort \in PortBase..PortMax
  BY DEF TableType
<1>2. e \in ConnType /\ e.used = t.conn[c].used
  BY <1>1 DEF ConnType
<1>3. m \in PortBase..PortMax
  BY <1>1 DEF Table!ConnectionsAssumption
<1>4. n \in PortBase - 1..PortMax
  BY <1>1 DEF Table!ConnectionsAssumption
<1>5. v = [[[t EXCEPT !.conn = [t.conn EXCEPT ![c] = e]] EXCEPT !.maxReplyPort = m]
             EXCEPT !.nextLinkPort = n]
  BY DEF Table!AllocatePort, TableType
<1> HIDE DEF e, m, n
<1>6. /\ v \in TableType /\ v.conn = [t.conn EXCEPT ![c] = e]
      /\ v.nextLinkPort = n /\ v.nextLid = t.nextLid
  BY <1>2, <1>3, <1>4, <1>5 DEF TableType
<1>7. /\ \A d \in Table!ConnIdx \ {c} : v.conn[d] = t.conn[d]
      /\ v.conn[c] = e
  BY <1>6 DEF TableType
<1>8. Table!Connected(v) = Table!Connected(t)
  BY <1>2, <1>7 DEF Table!Connected
<1> QED
  BY <1>6, <1>7, <1>8 DEF e, n

\* The port for a link request is of the upper range and unmarked, those above it are
\* marked.
LEMMA SendPort ==
    ASSUME Table!ConnectionsAssumption, NEW t \in TableType, NEW c, NEW num,
           num = Table!Port(t, "send", c)
    PROVE  /\ num \in {0} \cup PortMax - NumConnections + 1..PortMax
           /\ num # 0 => /\ PortMax - num \notin Table!Markers(t, "send", c)
                         /\ \A i \in 0..PortMax - num - 1 : i \in Table!Markers(t, "send", c)
<1> DEFINE Unmarked == (0..NumConnections - 1) \ Table!Markers(t, "send", c)
<1>1. Unmarked # {} => /\ Table!Min(Unmarked) \in Unmarked
                       /\ \A i \in Unmarked : Table!Min(Unmarked) <= i
  <2>1. Unmarked \in SUBSET Nat
    BY DEF Table!ConnectionsAssumption
  <2> QED
    BY <2>1, LeastOf
<1>2. num = 0 \/ (Unmarked # {} /\ num = PortMax - Table!Min(Unmarked))
  BY DEF Table!Port
<1>3. Unmarked \subseteq 0..NumConnections - 1
  OBVIOUS
<1>4. \A i \in 0..NumConnections - 1 : i \notin Unmarked => i \in Table!Markers(t, "send", c)
  OBVIOUS
<1>5. Unmarked \cap Table!Markers(t, "send", c) = {}
  OBVIOUS
<1> HIDE DEF Unmarked
<1>6. CASE num = 0
  BY <1>6
<1>7. CASE num # 0
  <2>1. PICK k \in 0..NumConnections - 1 : k = Table!Min(Unmarked)
    BY <1>1, <1>2, <1>3, <1>7
  <2>2. num = PortMax - k /\ k \in Unmarked /\ \A i \in Unmarked : k <= i
    BY <1>1, <1>2, <1>7, <2>1
  <2>3. num \in PortMax - NumConnections + 1..PortMax /\ PortMax - num = k
    BY <2>2 DEF Table!ConnectionsAssumption
  <2>4. ASSUME NEW i \in 0..k - 1
        PROVE  i \in Table!Markers(t, "send", c)
    BY <1>4, <2>2, <2>1 DEF Table!ConnectionsAssumption
  <2> QED
    BY <1>5, <2>2, <2>3, <2>4
<1> QED
  BY <1>6, <1>7

\* The port for a link reply is of the lower range, unmarked, and not beyond the other
\* range.
LEMMA ReplyPort ==
    ASSUME Table!ConnectionsAssumption, NEW t \in TableType, NEW c, NEW num,
           num = Table!Port(t, "reply", c)
    PROVE  /\ num \in {0} \cup PortBase..PortBase + NumConnections - 1
           /\ num # 0 => /\ num - PortBase \notin Table!Markers(t, "reply", c)
                         /\ num <= t.nextLinkPort
<1> DEFINE Unmarked == (0..NumConnections - 1) \ Table!Markers(t, "reply", c)
<1>1. Unmarked # {} => Table!Min(Unmarked) \in Unmarked
  <2>1. Unmarked \in SUBSET Nat
    BY DEF Table!ConnectionsAssumption
  <2> QED
    BY <2>1, LeastOf
<1>2. num = 0 \/ (Unmarked # {} /\ num = PortBase + Table!Min(Unmarked) /\ num <= t.nextLinkPort)
  BY DEF Table!Port
<1>3. Unmarked \subseteq 0..NumConnections - 1
  OBVIOUS
<1>5. Unmarked \cap Table!Markers(t, "reply", c) = {}
  OBVIOUS
<1> HIDE DEF Unmarked
<1>6. CASE num = 0
  BY <1>6
<1>7. CASE num # 0
  <2>1. PICK k \in 0..NumConnections - 1 : k = Table!Min(Unmarked)
    BY <1>1, <1>2, <1>3, <1>7
  <2>2. num = PortBase + k /\ k \in Unmarked
    BY <1>1, <1>2, <1>7, <2>1
  <2>3. num \in PortBase..PortBase + NumConnections - 1 /\ num - PortBase = k
    BY <2>2 DEF Table!ConnectionsAssumption
  <2> QED
    BY <1>2, <1>5, <1>7, <2>2, <2>3
<1> QED
  BY <1>6, <1>7

\* Where all ports but the last are taken by links that were asked for, no
\* connection is left for a link that was accepted.
LEMMA RoomToMeet ==
    ASSUME Table!ConnectionsAssumption, NEW t \in TableType, NEW c \in Table!ConnIdx,
           \A i \in 0..NumConnections - 2 : i \in Table!Markers(t, "send", c),
           NEW d \in Table!ConnIdx \ {c}
    PROVE  t.conn[d].portRx > t.nextLinkPort
<1> SUFFICES ASSUME ~(t.conn[d].portRx > t.nextLinkPort)
             PROVE  FALSE
  OBVIOUS
<1> DEFINE S == 0..NumConnections - 2
           f == [i \in S |->
                   CHOOSE e \in (Table!ConnIdx \ {c}) \ {d} : PortMax - t.conn[e].portRx = i]
<1>1. \A i \in S : \E e \in (Table!ConnIdx \ {c}) \ {d} : PortMax - t.conn[e].portRx = i
  BY DEF Table!Markers, Table!Connected
<1>2. \A i \in S : f[i] \in (Table!ConnIdx \ {c}) \ {d} /\ PortMax - t.conn[f[i]].portRx = i
  BY <1>1
<1>3. f \in [S -> (Table!ConnIdx \ {c}) \ {d}]
  BY <1>2
<1>4. IsFiniteSet(S) /\ Cardinality(S) = NumConnections - 1
  <2>1. 0 \in Int /\ NumConnections - 2 \in Int /\ NumConnections >= 1
    BY DEF Table!ConnectionsAssumption
  <2> QED
    BY <2>1, FS_Interval DEF Table!ConnectionsAssumption
<1>5. /\ IsFiniteSet((Table!ConnIdx \ {c}) \ {d})
      /\ Cardinality((Table!ConnIdx \ {c}) \ {d}) = NumConnections - 2
  <2>1. IsFiniteSet(Table!ConnIdx) /\ Cardinality(Table!ConnIdx) = NumConnections
    BY FS_Interval DEF Table!ConnectionsAssumption, Table!ConnIdx
  <2>2. IsFiniteSet(Table!ConnIdx \ {c}) /\ Cardinality(Table!ConnIdx \ {c}) = NumConnections - 1
    BY <2>1, FS_RemoveElement
  <2>3. d \in Table!ConnIdx \ {c}
    OBVIOUS
  <2> HIDE DEF S, f
  <2>4. Cardinality((Table!ConnIdx \ {c}) \ {d}) = NumConnections - 1 - 1
        /\ IsFiniteSet((Table!ConnIdx \ {c}) \ {d})
    BY <2>2, <2>3, FS_RemoveElement
  <2> QED
    BY <2>4 DEF Table!ConnectionsAssumption
<1> HIDE DEF S, f
<1>6. PICK i \in S, j \in S : i # j /\ f[i] = f[j]
  <2>1. NumConnections - 2 < NumConnections - 1
    BY DEF Table!ConnectionsAssumption
  <2> QED
    BY <1>3, <1>4, <1>5, <2>1, FS_PigeonHole
<1> QED
  BY <1>2, <1>6

\* A link is asked for: the port found is nobody's, for what was asked for is marked,
\* and what was accepted lies below, also where the ranges meet.
LEMMA AskKeeps ==
    ASSUME Table!TableAssumption, TableInv, Table!Ask
    PROVE  TableInv'
<1> DEFINE c == Table!NextConnection(table)
           u == Table!InitializeConn(table, c)
           num == Table!Port(u, "send", c)
           v == Table!AllocatePort(u, "send", c)
           others == Table!ConnIdx \ {c}
<1>1. Table!ConnectionsAssumption /\ table \in TableType /\ asked \subseteq Table!ConnIdx
  BY TableTypeOK DEF TableInv, Table!TableAssumption
<1>2. c \in Table!ConnIdx /\ c \notin Table!Connected(table)
  BY <1>1, FirstOf DEF Table!Ask, Table!NextConnection
<1>3. /\ pending = 0 /\ asked' = asked \cup ({pending'} \ {0})
      /\ pending' = IF table'.conn[c].used THEN c ELSE 0
      /\ table' = IF v.conn[c].portRx = 0 THEN Table!FreeConnection(v, c) ELSE v
  BY DEF Table!Ask, Table!AskForLink
<1> HIDE DEF c
<1>4. /\ u \in TableType /\ u.nextLinkPort = table.nextLinkPort
      /\ Table!Connected(u) = Table!Connected(table) \cup {c}
      /\ u.conn[c].lid = table.nextLid /\ u.conn[c].peer = table.conn[c].peer
      /\ \A d \in others : u.conn[d] = table.conn[d]
      /\ \A d \in Table!Connected(u) : u.conn[d].lid # u.nextLid
  BY <1>1, <1>2, Initialized
<1> HIDE DEF u
<1>5. /\ num \in {0} \cup PortMax - NumConnections + 1..PortMax
      /\ num # 0 => /\ PortMax - num \notin Table!Markers(u, "send", c)
                    /\ \A i \in 0..PortMax - num - 1 : i \in Table!Markers(u, "send", c)
  BY <1>1, <1>4, SendPort
<1>6. /\ asked \subseteq Table!Connected(table) /\ Table!Connected(table) \subseteq others
      /\ Accepted \subseteq others /\ asked \subseteq others
      /\ table.nextLinkPort \in PortBase - 1..PortMax
      /\ table.nextLinkPort >= PortMax - NumConnections
  BY <1>1, <1>2 DEF TableInv, PortRanges, TableType, Table!Connected, Accepted
\* Nothing is marked in an empty table of one connection.
<1>7. num = u.nextLinkPort => num # 0
  <2> SUFFICES ASSUME num = 0, u.nextLinkPort = 0
               PROVE  FALSE
    OBVIOUS
  <2>1. NumConnections = 1 /\ PortMax = 1
    BY <1>1, <1>4, <1>6 DEF Table!TableAssumption, Table!ConnectionsAssumption
  <2>2. Table!Markers(u, "send", c) = {}
    BY <1>2, <2>1 DEF Table!Markers, Table!Connected, Table!ConnIdx
  <2>3. (0..NumConnections - 1) \ Table!Markers(u, "send", c) = {0}
    BY <2>1, <2>2
  <2>4. Table!Min({0}) = 0
    BY LeastOf
  <2>5. u.maxReplyPort \in PortBase..PortMax
    BY <1>4 DEF TableType
  <2>6. 1 >= u.maxReplyPort
    BY <1>1, <2>1, <2>5 DEF Table!ConnectionsAssumption
  <2>7. num = 1
    BY <2>1, <2>3, <2>4, <2>6 DEF Table!Port
  <2> QED
    BY <2>7
<1>8. num \in {0} \cup PortBase..PortMax
  BY <1>1, <1>5 DEF Table!TableAssumption, Table!ConnectionsAssumption
<1> HIDE DEF num
<1>9. /\ v \in TableType /\ Table!Connected(v) = Table!Connected(u) /\ v.nextLid = u.nextLid
      /\ \A d \in others : v.conn[d] = u.conn[d]
      /\ v.conn[c] = [u.conn[c] EXCEPT !.portRx = num]
      /\ v.nextLinkPort = IF num = u.nextLinkPort THEN num - 1 ELSE u.nextLinkPort
  BY <1>1, <1>2, <1>4, <1>7, <1>8, Allocated DEF num
<1>10. v.conn[c].portRx = num /\ v.conn[c].lid = table.nextLid /\ v.conn[c].used
  <2>1. u.conn[c] \in ConnType /\ u.conn[c].used
    BY <1>2, <1>4 DEF TableType, Table!Connected
  <2> QED
    BY <1>4, <1>9, <2>1 DEF ConnType
<1> HIDE DEF v
<1>11. CASE num = 0
  <2>1. v.nextLinkPort = table.nextLinkPort
    BY <1>4, <1>7, <1>9, <1>11
  <2>2. table' = Table!FreeConnection(v, c)
    BY <1>3, <1>10, <1>11
  <2>3. /\ table' \in TableType /\ Table!Connected(table') = Table!Connected(v) \ {c}
        /\ \A d \in others : table'.conn[d] = v.conn[d]
        /\ table'.nextLinkPort = v.nextLinkPort /\ table'.nextLid = v.nextLid
    BY <1>1, <1>2, <1>9, <2>2, Freed
  <2>4. Table!Connected(table') = Table!Connected(table)
    BY <1>4, <1>6, <1>9, <2>3
  <2>5. ~table'.conn[c].used
    BY <1>2, <2>4 DEF Table!Connected
  <2>6. pending' = 0 /\ asked' = asked
    BY <1>3, <2>5
  <2>7. \A d \in Table!Connected(table') :
            table'.conn[d] = table.conn[d] /\ table'.conn[d] = u.conn[d]
    BY <1>4, <1>6, <1>9, <2>3, <2>4
  <2>8. \A d \in Table!Connected(table') : table'.conn[d].lid # table'.nextLid
    BY <1>4, <1>9, <2>3, <2>4, <2>7
  <2>9. Table!TypeOK'
    BY <1>1, <2>3, <2>6 DEF Table!TypeOK, TableType, ConnType
  <2>10. /\ asked' = asked \cap Table!Connected(table')
         /\ asked' \ {pending'} \subseteq asked \ {pending}
    BY <1>3, <1>6, <2>4, <2>6
  <2> QED
    BY <2>1, <2>3, <2>4, <2>6, <2>7, <2>8, <2>9, <2>10, Kept
<1>12. CASE num # 0
  <2>1. table' = v /\ pending' = c /\ asked' = asked \cup {c}
    <3>1. table' = v
      BY <1>3, <1>10, <1>12
    <3> QED
      BY <1>2, <1>3, <1>10, <3>1 DEF Table!ConnectionsAssumption, Table!ConnIdx
  <2>2. Table!Connected(table') = Table!Connected(table) \cup {c} /\ Accepted' = Accepted
    BY <1>2, <1>4, <1>9, <2>1 DEF Accepted
  <2>3. \A d \in Table!Connected(table) : d # c /\ table'.conn[d] = table.conn[d]
                                    /\ u.conn[d] = table.conn[d] /\ d \in Table!Connected(u) \ {c}
    BY <1>4, <1>6, <1>9, <2>1
  <2>4. /\ num \in PortMax - NumConnections + 1..PortMax /\ num \in Int
        /\ table.nextLinkPort \in Int /\ PortMax \in Int /\ PortBase \in Int
        /\ NumConnections \in Int
    BY <1>1, <1>5, <1>6, <1>12 DEF Table!ConnectionsAssumption
  \* What was asked for is marked.
  <2>5. \A d \in asked : table.conn[d].portRx # num
    <3> SUFFICES ASSUME NEW d \in asked, table.conn[d].portRx = num
                 PROVE  FALSE
      OBVIOUS
    <3>1. d \in Table!Connected(u) \ {c} /\ u.conn[d].portRx = num /\ num > u.nextLinkPort
      BY <1>4, <1>6, <2>3 DEF TableInv, PortRanges
    <3>2. PortMax - num \in Table!Markers(u, "send", c)
      BY <3>1 DEF Table!Markers
    <3> QED
      BY <1>5, <1>12, <3>2
  \* The ports above nextLinkPort alone are marked.
  <2>6. num >= table.nextLinkPort
    <3> SUFFICES ASSUME num < table.nextLinkPort
                 PROVE  FALSE
      BY <2>4
    <3> DEFINE i == PortMax - table.nextLinkPort
    <3>1. i \in 0..PortMax - num - 1
      BY <1>6, <2>4
    <3>2. i \in Table!Markers(u, "send", c)
      BY <1>5, <1>12, <3>1
    <3>3. PICK d \in Table!Connected(u) \ {c} : u.conn[d].portRx > u.nextLinkPort
                                          /\ i = PortMax - u.conn[d].portRx
      BY <3>2 DEF Table!Markers
    <3>4. u.conn[d].portRx \in Int
      BY <1>1, <1>4, <3>3 DEF Table!Connected, TableType, ConnType,
         Table!ConnectionsAssumption
    <3> QED
      BY <1>4, <2>4, <3>3, <3>4
  <2>7. \A d \in Accepted : table.conn[d].portRx < num
    <3> SUFFICES ASSUME NEW d \in Accepted, ~(table.conn[d].portRx < num)
                 PROVE  FALSE
      OBVIOUS
    <3>1. table.conn[d].portRx \in PortBase..PortBase + NumConnections - 1
          /\ table.conn[d].portRx <= table.nextLinkPort
      BY DEF TableInv, PortRanges
    <3>2. num = PortMax - NumConnections + 1
      BY <2>4, <3>1 DEF Table!TableAssumption
    <3>3. \A i \in 0..NumConnections - 2 : i \in Table!Markers(u, "send", c)
      BY <1>5, <1>12, <2>4, <3>2
    <3>4. d \in Table!ConnIdx \ {c} /\ d \in Table!Connected(table)
      BY <1>6 DEF Accepted
    <3>5. u.conn[d].portRx > u.nextLinkPort
      BY <1>1, <1>2, <1>4, <3>3, <3>4, RoomToMeet
    <3> QED
      BY <1>4, <2>3, <2>4, <3>1, <3>4, <3>5
  <2>8. /\ table'.nextLinkPort \in Int /\ table'.nextLinkPort < num
        /\ table'.nextLinkPort <= table.nextLinkPort
        /\ table'.nextLinkPort >= PortMax - NumConnections
        /\ \A x \in Int : x < num /\ x <= table.nextLinkPort => x <= table'.nextLinkPort
    BY <1>4, <1>6, <1>9, <2>1, <2>4, <2>6
  <2>9. table'.conn[c].portRx = num /\ table'.conn[c].lid = table.nextLid
    BY <1>10, <2>1
  <2>10. Table!TypeOK'
    BY <1>1, <1>2, <1>9, <2>1 DEF Table!TypeOK, TableType, ConnType
  <2>11. Table!IdsIdentify'
    <3>1. \A d, e \in Table!Connected(table') : table'.conn[d].lid = table'.conn[e].lid => d = e
      BY <2>2, <2>3, <2>9 DEF TableInv, Table!IdsIdentify
    <3>2. ASSUME NEW d \in Table!Connected(table')
          PROVE  table'.conn[d].lid # table'.nextLid
      <4>1. u.conn[d].lid # u.nextLid /\ table'.nextLid = u.nextLid
        BY <1>4, <1>9, <2>1
      <4>2. table'.conn[d].lid = u.conn[d].lid
        BY <1>4, <2>1, <2>2, <2>3, <2>9
      <4> QED
        BY <4>1, <4>2
    <3> QED
      BY <3>1, <3>2 DEF Table!IdsIdentify
  <2>12. PortRanges'
    <3>1. asked' \subseteq Table!Connected(table') /\ pending' \in asked' \cup {0}
      BY <1>6, <2>1, <2>2
    <3>2. ASSUME NEW d \in asked'
          PROVE  /\ table'.conn[d].portRx > table'.nextLinkPort
                 /\ table'.conn[d].portRx \in PortMax - NumConnections + 1..PortMax
      <4>1. CASE d = c
        BY <2>4, <2>8, <2>9, <4>1
      <4>2. CASE d \in asked
        <5>1. /\ table.conn[d].portRx > table.nextLinkPort
              /\ table.conn[d].portRx \in PortMax - NumConnections + 1..PortMax
          BY <4>2 DEF TableInv, PortRanges
        <5>2. table'.conn[d] = table.conn[d]
          BY <1>6, <2>3, <4>2
        <5> QED
          BY <2>4, <2>8, <5>1, <5>2
      <4> QED
        BY <2>1, <4>1, <4>2
    <3>3. ASSUME NEW d \in Accepted'
          PROVE  /\ table'.conn[d].portRx <= table'.nextLinkPort
                 /\ table'.conn[d].portRx \in PortBase..PortBase + NumConnections - 1
      <4>1. d \in Accepted /\ table'.conn[d] = table.conn[d]
        BY <2>2, <2>3 DEF Accepted
      <4>2. table.conn[d].portRx <= table.nextLinkPort
            /\ table.conn[d].portRx \in PortBase..PortBase + NumConnections - 1
        BY <4>1 DEF TableInv, PortRanges
      <4> QED
        BY <2>4, <2>7, <2>8, <4>1, <4>2
    <3> QED
      BY <2>8, <3>1, <3>2, <3>3 DEF PortRanges
  <2>13. \A d \in Table!Connected(table) : table'.conn[d] = table.conn[d]
    BY <2>3
  <2>14. PortsDistinct'
    <3>1. \A d, e \in asked' : table'.conn[d].portRx = table'.conn[e].portRx => d = e
      BY <1>6, <2>1, <2>5, <2>9, <2>13 DEF TableInv, PortsDistinct
    <3> QED
      BY <2>2, <2>13, <3>1 DEF TableInv, PortsDistinct, Accepted
  <2>15. PeersOfKind'
    <3>1. asked' \ {pending'} = asked \ {pending}
      BY <1>1, <1>2, <1>3, <1>6, <2>1 DEF Table!ConnectionsAssumption, Table!ConnIdx
    <3>2. /\ asked' \ {pending'} \subseteq Table!Connected(table)
          /\ Accepted \subseteq Table!Connected(table)
      BY <1>6, <3>1 DEF Accepted
    <3> QED
      BY <2>2, <2>13, <3>1, <3>2 DEF TableInv, PeersOfKind
  <2> QED
    BY <2>10, <2>11, <2>12, <2>14, <2>15 DEF TableInv
<1> QED
  BY <1>11, <1>12

\* A link is accepted: the port found is none that the peer has, for those are marked,
\* and lies below those of the upper range.
LEMMA AcceptKeeps ==
    ASSUME Table!TableAssumption, TableInv, NEW peer \in Linkers, NEW port \in RemotePorts,
           Table!Accept(peer, port)
    PROVE  TableInv'
<1> DEFINE c == Table!NextConnection(table)
           u == Table!InitializeConn(table, c)
           w == [u EXCEPT !.conn[c].peer = peer]
           num == Table!Port(w, "reply", c)
           v == Table!AllocatePort(w, "reply", c)
           others == Table!ConnIdx \ {c}
<1>1. /\ Table!ConnectionsAssumption /\ table \in TableType /\ asked \subseteq Table!ConnIdx
      /\ pending = 0 /\ pending' = 0 /\ asked' = asked
  BY TableTypeOK DEF TableInv, Table!TableAssumption, Table!Accept
<1>2. c \in Table!ConnIdx /\ c \notin Table!Connected(table)
  BY <1>1, FirstOf DEF Table!Accept, Table!NextConnection
<1>3. table' = IF v.conn[c].portRx = 0 THEN Table!FreeConnection(v, c)
               ELSE [v EXCEPT !.conn[c].portTx = port]
  BY DEF Table!Accept, Table!AcceptLink
<1> HIDE DEF c
<1>4. /\ u \in TableType /\ u.nextLinkPort = table.nextLinkPort
      /\ Table!Connected(u) = Table!Connected(table) \cup {c}
      /\ u.conn[c].lid = table.nextLid
      /\ \A d \in others : u.conn[d] = table.conn[d]
      /\ \A d \in Table!Connected(u) : u.conn[d].lid # u.nextLid
  BY <1>1, <1>2, Initialized
<1> HIDE DEF u
<1>5. /\ w \in TableType /\ w.nextLinkPort = table.nextLinkPort /\ w.nextLid = u.nextLid
      /\ Table!Connected(w) = Table!Connected(u)
      /\ w.conn[c].lid = table.nextLid /\ w.conn[c].peer = peer
      /\ \A d \in others : w.conn[d] = table.conn[d]
      /\ \A d \in Table!Connected(w) : w.conn[d].lid # w.nextLid
  <2> DEFINE e == [u.conn[c] EXCEPT !.peer = peer]
  <2>1. u.conn[c] \in ConnType
    BY <1>2, <1>4 DEF TableType
  <2>2. e \in ConnType /\ e.used = u.conn[c].used /\ e.lid = u.conn[c].lid /\ e.peer = peer
    BY <2>1 DEF ConnType
  <2>3. w = [u EXCEPT !.conn = [u.conn EXCEPT ![c] = e]]
    BY <1>2, <1>4 DEF TableType
  <2> HIDE DEF e, w
  <2>4. /\ w \in TableType /\ w.conn = [u.conn EXCEPT ![c] = e]
        /\ w.nextLinkPort = u.nextLinkPort /\ w.nextLid = u.nextLid
    BY <1>4, <2>2, <2>3 DEF TableType
  <2>5. w.conn[c] = e /\ \A d \in others : w.conn[d] = u.conn[d]
    BY <1>2, <1>4, <2>4 DEF TableType
  <2>6. Table!Connected(w) = Table!Connected(u)
    BY <1>2, <2>2, <2>5 DEF Table!Connected
  <2>7. \A d \in Table!Connected(w) : w.conn[d].lid = u.conn[d].lid
    BY <2>2, <2>5 DEF Table!Connected
  <2> QED
    BY <1>4, <2>2, <2>4, <2>5, <2>6, <2>7
<1> HIDE DEF w
<1>6. /\ num \in {0} \cup PortBase..PortBase + NumConnections - 1
      /\ num # 0 => num - PortBase \notin Table!Markers(w, "reply", c) /\ num <= table.nextLinkPort
  BY <1>1, <1>5, ReplyPort
<1>7. /\ asked \subseteq Table!Connected(table) /\ Table!Connected(table) \subseteq others
      /\ Accepted \subseteq Table!Connected(table)
  BY <1>1, <1>2 DEF TableInv, PortRanges, Table!Connected, Accepted
<1>8. num \in {0} \cup PortBase..PortMax
  BY <1>1, <1>6 DEF Table!ConnectionsAssumption
<1> HIDE DEF num
<1>9. /\ v \in TableType /\ Table!Connected(v) = Table!Connected(w) /\ v.nextLid = w.nextLid
      /\ \A d \in others : v.conn[d] = w.conn[d]
      /\ v.conn[c] = [w.conn[c] EXCEPT !.portRx = num]
      /\ v.nextLinkPort = table.nextLinkPort
  BY <1>1, <1>2, <1>5, <1>8, Allocated DEF num
<1>10. /\ v.conn[c].portRx = num /\ v.conn[c].lid = table.nextLid /\ v.conn[c].used
       /\ v.conn[c].peer = peer /\ v.conn[c] \in ConnType
  <2>1. w.conn[c] \in ConnType /\ w.conn[c].used
    BY <1>2, <1>4, <1>5 DEF TableType, Table!Connected
  <2>2. v.conn[c] \in ConnType
    BY <1>2, <1>9 DEF TableType
  <2> QED
    BY <1>5, <1>9, <2>1, <2>2 DEF ConnType
<1> HIDE DEF v
<1>11. CASE num = 0
  <2>1. table' = Table!FreeConnection(v, c)
    BY <1>3, <1>10, <1>11
  <2>2. /\ table' \in TableType /\ Table!Connected(table') = Table!Connected(v) \ {c}
        /\ \A d \in others : table'.conn[d] = v.conn[d]
        /\ table'.nextLinkPort = v.nextLinkPort /\ table'.nextLid = v.nextLid
    BY <1>1, <1>2, <1>9, <2>1, Freed
  <2>3. Table!Connected(table') = Table!Connected(table)
    BY <1>4, <1>5, <1>7, <1>9, <2>2
  <2>4. \A d \in Table!Connected(table') :
            table'.conn[d] = table.conn[d] /\ table'.conn[d] = w.conn[d]
    BY <1>5, <1>7, <1>9, <2>2, <2>3
  <2>5. \A d \in Table!Connected(table') : table'.conn[d].lid # table'.nextLid
    BY <1>4, <1>5, <1>9, <2>2, <2>3, <2>4
  <2>6. Table!TypeOK'
    BY <1>1, <2>2 DEF Table!TypeOK, TableType, ConnType
  <2>7. /\ asked' = asked \cap Table!Connected(table')
        /\ asked' \ {pending'} \subseteq asked \ {pending}
    BY <1>1, <1>7, <2>3
  <2> QED
    BY <1>1, <1>9, <2>2, <2>3, <2>4, <2>5, <2>6, <2>7, Kept
<1>12. CASE num # 0
  <2> DEFINE e == [v.conn[c] EXCEPT !.portTx = port]
  <2>1. /\ e \in ConnType /\ e.used /\ e.portRx = num /\ e.peer = peer /\ e.lid = table.nextLid
    BY <1>10 DEF ConnType
  <2>2. table' = [v EXCEPT !.conn = [v.conn EXCEPT ![c] = e]]
    <3>1. table' = [v EXCEPT !.conn[c].portTx = port]
      BY <1>3, <1>10, <1>12
    <3> QED
      BY <1>2, <1>9, <3>1 DEF TableType
  <2> HIDE DEF e
  <2>3. /\ table' \in TableType /\ table'.conn = [v.conn EXCEPT ![c] = e]
        /\ table'.nextLinkPort = table.nextLinkPort /\ table'.nextLid = v.nextLid
    BY <1>9, <2>1, <2>2 DEF TableType
  <2>4. table'.conn[c] = e /\ \A d \in others : table'.conn[d] = v.conn[d]
    BY <1>2, <1>9, <2>3 DEF TableType
  <2>5. Table!Connected(table') = Table!Connected(table) \cup {c}
    <3>1. Table!Connected(table') = Table!Connected(v)
      BY <1>2, <1>10, <2>1, <2>4 DEF Table!Connected
    <3> QED
      BY <1>4, <1>5, <1>9, <3>1
  <2>6. \A d \in Table!Connected(table) : d # c /\ table'.conn[d] = table.conn[d]
                                    /\ w.conn[d] = table.conn[d] /\ d \in Table!Connected(w) \ {c}
    BY <1>4, <1>5, <1>7, <1>9, <2>4
  <2>7. Accepted' = Accepted \cup {c}
    BY <1>1, <1>2, <1>7, <2>5 DEF Accepted
  \* The ports of the peer's links that were accepted are marked.
  <2>8. \A d \in Accepted : table.conn[d].peer = peer => table.conn[d].portRx # num
    <3> SUFFICES ASSUME NEW d \in Accepted, table.conn[d].peer = peer, table.conn[d].portRx = num
                 PROVE  FALSE
      OBVIOUS
    <3>1. /\ d \in Table!Connected(w) \ {c}
          /\ w.conn[d].portRx = num /\ w.conn[d].peer = w.conn[c].peer
      BY <1>5, <1>7, <2>6
    <3>2. num - PortBase \in Table!Markers(w, "reply", c)
      BY <3>1 DEF Table!Markers
    <3> QED
      BY <1>6, <1>12, <3>2
  <2>9. Table!TypeOK'
    BY <1>1, <2>3 DEF Table!TypeOK, TableType, ConnType
  <2>10. Table!IdsIdentify'
    <3>1. \A d, k \in Table!Connected(table') : table'.conn[d].lid = table'.conn[k].lid => d = k
      BY <2>1, <2>4, <2>5, <2>6 DEF TableInv, Table!IdsIdentify
    <3>2. \A d \in Table!Connected(table') :
              table'.conn[d].lid = w.conn[d].lid /\ d \in Table!Connected(w)
      BY <1>4, <1>5, <2>1, <2>4, <2>5, <2>6
    <3>3. \A d \in Table!Connected(table') : table'.conn[d].lid # table'.nextLid
      BY <1>5, <1>9, <2>3, <3>2
    <3> QED
      BY <3>1, <3>3 DEF Table!IdsIdentify
  <2>11. PortRanges'
    <3>1. asked' \subseteq Table!Connected(table') /\ pending' \in asked' \cup {0}
      BY <1>1, <1>7, <2>5
    <3>2. \A d \in asked' : d \in asked /\ table'.conn[d] = table.conn[d]
      BY <1>1, <1>7, <2>6
    <3>3. \A d \in Accepted : table'.conn[d] = table.conn[d]
      BY <1>7, <2>6
    <3>4. num \in PortBase..PortBase + NumConnections - 1 /\ num <= table.nextLinkPort
      BY <1>6, <1>12
    <3> QED
      BY <2>1, <2>3, <2>4, <2>7, <3>1, <3>2, <3>3, <3>4 DEF TableInv, PortRanges
  <2>12. \A d \in Table!Connected(table) : table'.conn[d] = table.conn[d]
    BY <2>6
  <2>13. PortsDistinct'
    <3>1. \A d, k \in asked' : table'.conn[d].portRx = table'.conn[k].portRx => d = k
      BY <1>1, <1>7, <2>12 DEF TableInv, PortsDistinct
    <3>2. \A d, k \in Accepted' :
              table'.conn[d].portRx = table'.conn[k].portRx
              /\ table'.conn[d].peer = table'.conn[k].peer => d = k
      BY <1>7, <2>1, <2>4, <2>7, <2>8, <2>12 DEF TableInv, PortsDistinct
    <3> QED
      BY <3>1, <3>2 DEF PortsDistinct
  <2>14. PeersOfKind'
    BY <1>1, <1>7, <2>1, <2>4, <2>7, <2>12 DEF TableInv, PeersOfKind
  <2> QED
    BY <2>9, <2>10, <2>11, <2>13, <2>14 DEF TableInv
<1> QED
  BY <1>11, <1>12

\* A step keeps the invariant.
LEMMA NextTableInv ==
    ASSUME Table!TableAssumption, TableInv, [Table!Next]_(Table!vars)
    PROVE  TableInv'
  BY AskKeeps, TimedOutKeeps, ConcludedKeeps, AcceptKeeps, DeleteKeeps, UnchangedKeeps
     DEF Table!Next

\* It holds of the empty table.
LEMMA InitTableInv ==
    ASSUME Table!TableAssumption, Table!Init
    PROVE  TableInv
<1>1. /\ table = Table!TableInit /\ pending = 0 /\ asked = {}
  BY DEF Table!Init
<1>2. Table!TableInit \in TableType
  BY DEF Table!TableInit, TableType, ConnType, Table!FreeConn, Table!TableAssumption,
         Table!ConnectionsAssumption, Table!LinkIds
<1>3. Table!Connected(table) = {} /\ table.nextLinkPort = PortMax
  BY <1>1 DEF Table!TableInit, Table!FreeConn, Table!Connected
<1>4. Table!TypeOK
  BY <1>1, <1>2, TableTypeOK
<1>5. PortRanges
  BY <1>1, <1>3 DEF PortRanges, Accepted, Table!TableAssumption, Table!ConnectionsAssumption
<1>6. Table!IdsIdentify /\ PortsDistinct /\ PeersOfKind
  BY <1>1, <1>3 DEF Table!IdsIdentify, PortsDistinct, PeersOfKind, Accepted
<1> QED
  BY <1>4, <1>5, <1>6 DEF TableInv

\* What it implies.
LEMMA TableInvSound ==
    ASSUME Table!TableAssumption, TableInv
    PROVE  /\ Table!IdsIdentify /\ Table!FramesIdentify
           /\ Table!AskedPortsApart /\ Table!MarkersInBounds
<1>1. /\ Table!ConnectionsAssumption /\ table \in TableType
      /\ asked \subseteq Table!Connected(table)
      /\ table.nextLinkPort \in Int /\ Table!Connected(table) \subseteq Table!ConnIdx
  <2>1. /\ Table!ConnectionsAssumption /\ table \in TableType
        /\ asked \subseteq Table!Connected(table)
    BY TableTypeOK DEF TableInv, Table!TableAssumption, PortRanges
  <2>2. table.nextLinkPort \in Int
    BY <2>1 DEF TableType, Table!ConnectionsAssumption
  <2> QED
    BY <2>1, <2>2 DEF Table!Connected
<1>2. \A c \in Table!Connected(table) : c \in asked \/ c \in Accepted
  BY DEF Accepted
<1>3. \A c \in Table!Connected(table) : table.conn[c].portRx \in Int
  BY <1>1, <1>2 DEF TableInv, PortRanges, Table!ConnectionsAssumption
<1>4. \A c \in asked, d \in Accepted : table.conn[c].portRx # table.conn[d].portRx
  BY <1>1, <1>3 DEF TableInv, PortRanges, Accepted
<1>5. Table!AskedPortsApart
  BY <1>2, <1>4, <1>1 DEF TableInv, PortsDistinct, Table!AskedPortsApart
<1>6. Table!FramesIdentify
  BY <1>1, <1>2, <1>4 DEF TableInv, PortsDistinct, Table!FramesIdentify, Table!Accepting
<1>7. Table!MarkersInBounds
  <2> SUFFICES ASSUME pending = 0, Table!NextConnection(table) # 0
               PROVE  /\ Table!Markers(table, "send", Table!NextConnection(table))
                             \subseteq 0..NumConnections - 1
                      /\ \A peer \in Linkers :
                           Table!Markers([table EXCEPT
                                             !.conn[Table!NextConnection(table)].peer = peer],
                                         "reply", Table!NextConnection(table))
                               \subseteq 0..NumConnections - 1
    BY DEF Table!MarkersInBounds
  <2> DEFINE c == Table!NextConnection(table)
  <2>1. c \in Table!ConnIdx /\ c \notin Table!Connected(table)
    BY <1>1, FirstOf DEF Table!NextConnection
  <2> HIDE DEF c
  <2>2. Table!Markers(table, "send", c) \subseteq 0..NumConnections - 1
    <3> SUFFICES ASSUME NEW d \in Table!Connected(table), table.conn[d].portRx > table.nextLinkPort
                 PROVE  PortMax - table.conn[d].portRx \in 0..NumConnections - 1
      BY DEF Table!Markers
    <3>1. d \in asked
      <4>1. \A e \in Accepted : table.conn[e].portRx <= table.nextLinkPort
        BY DEF TableInv, PortRanges
      <4>2. table.conn[d].portRx \in Int
        BY <1>3
      <4> QED
        BY <1>1, <1>2, <4>1, <4>2
    <3> QED
      BY <1>1, <3>1 DEF TableInv, PortRanges, Table!ConnectionsAssumption
  <2>3. ASSUME NEW peer \in Linkers
        PROVE  Table!Markers([table EXCEPT !.conn[c].peer = peer], "reply", c)
                   \subseteq 0..NumConnections - 1
    <3> DEFINE e == [table.conn[c] EXCEPT !.peer = peer]
               w == [table EXCEPT !.conn[c].peer = peer]
    <3>1. table.conn[c] \in ConnType
      BY <1>1, <2>1 DEF TableType
    <3>2. e.peer = peer /\ e.used = table.conn[c].used
      BY <3>1 DEF ConnType
    <3>3. w = [table EXCEPT !.conn = [table.conn EXCEPT ![c] = e]]
      BY <1>1, <2>1 DEF TableType
    <3> HIDE DEF e, w
    <3>4. w.conn[c] = e /\ \A d \in Table!ConnIdx \ {c} : w.conn[d] = table.conn[d]
      BY <1>1, <2>1, <3>3 DEF TableType
    <3>5. Table!Connected(w) = Table!Connected(table)
      BY <2>1, <3>2, <3>4 DEF Table!Connected
    <3> SUFFICES ASSUME NEW d \in Table!Connected(w) \ {c}, w.conn[d].peer = w.conn[c].peer
                 PROVE  w.conn[d].portRx - PortBase \in 0..NumConnections - 1
      BY DEF Table!Markers, w
    <3>6. d \in Table!Connected(table) /\ w.conn[d] = table.conn[d] /\ table.conn[d].peer = peer
      BY <1>1, <3>2, <3>4, <3>5
    <3>7. d \notin asked
      <4>1. d # 0
        BY <1>1, <3>6 DEF Table!ConnectionsAssumption, Table!ConnIdx
      <4> QED
        BY <3>6, <4>1 DEF TableInv, PeersOfKind, Table!TableAssumption
    <3>8. d \in Accepted
      BY <1>2, <3>6, <3>7
    <3>9. table.conn[d].portRx \in PortBase..PortBase + NumConnections - 1
      BY <3>8 DEF TableInv, PortRanges
    <3> QED
      BY <1>1, <3>6, <3>9 DEF Table!ConnectionsAssumption
  <2> QED
    BY <2>2, <2>3 DEF c
<1> QED
  BY <1>5, <1>6, <1>7 DEF TableInv

\* Ids name connections, sender and port too, the ports asked with are nobody else's,
\* and the markers lie in their array, through every sequence of links asked for,
\* accepted, concluded and deleted (nwk.c:281, 683, nwk_allocateLocalRxPort).
THEOREM TableKept ==
    ASSUME Table!TableAssumption
    PROVE  Table!Spec => [](/\ Table!TypeOK /\ Table!IdsIdentify /\ Table!FramesIdentify
                            /\ Table!AskedPortsApart /\ Table!MarkersInBounds)
<1>1. Table!Init => TableInv
  BY InitTableInv
<1>2. TableInv /\ [Table!Next]_(Table!vars) => TableInv'
  BY NextTableInv
<1>3. TableInv => /\ Table!TypeOK /\ Table!IdsIdentify /\ Table!FramesIdentify
                  /\ Table!AskedPortsApart /\ Table!MarkersInBounds
  BY TableInvSound DEF TableInv
<1> QED
  BY <1>1, <1>2, <1>3, PTL DEF Table!Spec

(***************************************************************************)
(* The guess of the counter.                                               *)
(***************************************************************************)

\* Division with remainder, and when a number is its own remainder.
LEMMA Divided ==
    ASSUME NEW C \in Nat \ {0}, NEW x \in Int
    PROVE  x % C \in 0..C - 1 /\ x \div C \in Int /\ x = C * (x \div C) + (x % C)
  BY SMT

LEMMA Unique ==
    ASSUME NEW C \in Nat \ {0}, NEW q \in Int, NEW r \in 0..C - 1
    PROVE  (C * q + r) % C = r
  BY SMT

LEMMA Remainder ==
    ASSUME NEW C \in Nat \ {0}, NEW x \in Int
    PROVE  /\ x \in 0..C - 1 => x % C = x
           /\ x \in C..2 * C - 1 => x % C = x - C
           /\ x \in -C..-1 => x % C = x + C
<1>1. x \in 0..C - 1 => x % C = x
  BY Unique, x = C * 0 + x
<1>2. x \in C..2 * C - 1 => x % C = x - C
  BY Unique, x = C * 1 + (x - C)
<1>3. x \in -C..-1 => x % C = x + C
  BY Unique, x = C * (-1) + (x + C)
<1> QED
  BY <1>1, <1>2, <1>3

\* Between a multiple of the hint's size and the end there is room for a hint.
LEMMA Multiple ==
    ASSUME NEW H \in Nat \ {0}, NEW k \in Int, H * k > 0
    PROVE  H * k >= H
  BY SMT

LEMMA Distributive ==
    ASSUME NEW H \in Nat, NEW k \in Int, NEW l \in Int
    PROVE  H * (k - l) = H * k - H * l
  BY SMT

LEMMA Room ==
    ASSUME NEW locCnt \in Counters
    PROVE  (locCnt - (locCnt % HintSize)) + HintSize <= CounterSize
<1> USE CounterAssumption
<1> DEFINE hi == locCnt \div HintSize
           m == CounterSize \div HintSize
<1>1. locCnt \in Int /\ locCnt < CounterSize
  BY DEF Counters
<1>2. hi \in Int /\ m \in Int /\ locCnt % HintSize \in 0..HintSize - 1
  BY <1>1, Divided
<1>3. locCnt - (locCnt % HintSize) = HintSize * hi
  BY <1>1, <1>2, Divided
<1>4. CounterSize = HintSize * m
  BY <1>2, Divided
<1>5. HintSize * (m - hi) = CounterSize - (locCnt - (locCnt % HintSize))
  <2>1. HintSize * (m - hi) = HintSize * m - HintSize * hi
    BY <1>2, Distributive
  <2> QED
    BY <1>3, <1>4, <2>1
<1>6. HintSize * (m - hi) > 0
  BY <1>1, <1>2, <1>5
<1>7. HintSize * (m - hi) >= HintSize
  BY <1>2, <1>6, Multiple
<1> QED
  BY <1>1, <1>2, <1>5, <1>7

\* A message whose counter is at most CtrWindow blocks ahead of the receiver's
\* is deciphered with the counter it was enciphered with, whatever has wrapped
\* round in between (nwk_getSecureFrame).
THEOREM GuessesAhead ==
    ASSUME NEW locCnt \in Counters, NEW n \in 0..CtrWindow
    PROVE  Opens(locCnt, Advance(locCnt, n))
<1> USE CounterAssumption
<1> DEFINE lo == locCnt % HintSize
           base == locCnt - lo
<1>1. locCnt \in Int /\ 0 <= locCnt /\ locCnt < CounterSize
  BY DEF Counters
<1>2. n \in Nat /\ n < HintSize /\ CtrWindow = HintSize - 1
  BY DEF CtrWindow
<1>3. lo \in 0..HintSize - 1
  BY <1>1, Divided
<1>4. base \in Int /\ base >= 0 /\ base + HintSize <= CounterSize
  <2>1. base + HintSize <= CounterSize
    BY Room
  <2>2. lo <= locCnt
    <3>1. CASE locCnt < HintSize
      BY <3>1, <1>1, Remainder
    <3>2. CASE locCnt >= HintSize
      BY <3>2, <1>1, <1>3
    <3> QED
      BY <3>1, <3>2, <1>1
  <2> QED
    BY <2>1, <2>2, <1>1, <1>3
<1>5. \A r \in 0..HintSize - 1 : (base + r) % HintSize = r
  <2>1. locCnt \div HintSize \in Int /\ base = HintSize * (locCnt \div HintSize)
    BY <1>1, <1>3, Divided
  <2> QED
    BY <2>1, Unique
\* No wrap of the hint.
<1>6. CASE lo + n < HintSize
  <2>1. Advance(locCnt, n) = locCnt + n
    <3>1. locCnt + n \in 0..CounterSize - 1
      BY <1>1, <1>2, <1>3, <1>4, <1>6
    <3> QED
      BY <3>1, Remainder DEF Advance
  <2>2. Hint(locCnt + n) = lo + n
    <3>1. locCnt + n = base + (lo + n) /\ lo + n \in 0..HintSize - 1
      BY <1>1, <1>2, <1>3, <1>6
    <3> QED
      BY <3>1, <1>5 DEF Hint
  <2>3. base + Hint(locCnt + n) = locCnt + n
    BY <1>1, <1>2, <1>3, <2>2
  <2>4. WithinWindow(locCnt + n, locCnt) \/ locCnt + n < CtrWindow
    <3>1. CASE locCnt + n >= CtrWindow
      <4>1. (locCnt + n) - CtrWindow \in 0..CounterSize - 1
        BY <3>1, <1>1, <1>2, <1>3, <1>4, <1>6
      <4>2. ((locCnt + n) - CtrWindow) % CounterSize = (locCnt + n) - CtrWindow
        BY <4>1, Remainder
      <4> QED
        BY <4>2, <1>1, <1>2 DEF WithinWindow
    <3> QED
      BY <3>1, <1>1, <1>2
  <2>5. Guess(locCnt, Hint(locCnt + n)) = locCnt + n
    BY <1>1, <1>2, <2>3, <2>4 DEF Guess
  <2> QED
    BY <2>1, <2>5 DEF Opens
\* The hint wraps: h is what it shows.
<1>7. CASE lo + n >= HintSize
  <2> DEFINE h == lo + n - HintSize
             frameCnt == base + h
  <2>1. h \in 0..HintSize - 1 /\ h < lo
    BY <1>2, <1>3, <1>7
  <2>2. frameCnt \in Int /\ frameCnt < locCnt
    BY <1>1, <1>3, <1>4, <2>1
  <2>3. frameCnt % HintSize = h
    BY <1>5, <2>1
  \* The next value with this hint is below the counter's end.
  <2>4. CASE base + HintSize < CounterSize
    <3>1. locCnt + n \in 0..CounterSize - 1
      <4>1. base + HintSize + HintSize <= CounterSize
        <5>1. base + HintSize \in Counters
          BY <1>4, <2>4 DEF Counters
        <5>2. (base + HintSize) % HintSize = 0
          <6>1. locCnt \div HintSize \in Int /\ base = HintSize * (locCnt \div HintSize)
            BY <1>1, <1>3, Divided
          <6>2. base + HintSize = HintSize * ((locCnt \div HintSize) + 1) + 0
            BY <6>1, <1>4, SMT
          <6> QED
            BY <6>1, <6>2, Unique
        <5> QED
          BY <5>1, <5>2, <1>4, Room
      <4> QED
        BY <4>1, <1>1, <1>2, <1>3, <1>4
    <3>2. Advance(locCnt, n) = locCnt + n
      BY <3>1, Remainder DEF Advance
    <3>3. Hint(locCnt + n) = h
      <4>1. locCnt \div HintSize \in Int /\ base = HintSize * (locCnt \div HintSize)
        BY <1>1, <1>3, Divided
      <4>2. locCnt + n = HintSize * ((locCnt \div HintSize) + 1) + h
        BY <4>1, <1>1, <1>2, <1>3, SMT
      <4> QED
        BY <4>1, <4>2, <2>1, Unique DEF Hint
    <3>4. Advance(frameCnt, HintSize) = locCnt + n
      <4>1. frameCnt + HintSize = locCnt + n
        BY <1>1, <1>2, <1>3
      <4> QED
        BY <4>1, <3>1, Remainder DEF Advance
    <3>5. WithinWindow(locCnt + n, locCnt)
      <4>1. (locCnt + n) - CtrWindow \in 0..CounterSize - 1
        BY <3>1, <1>1, <1>2, <1>3, <1>4, <1>7
      <4>2. ((locCnt + n) - CtrWindow) % CounterSize = (locCnt + n) - CtrWindow
        BY <4>1, Remainder
      <4> QED
        BY <4>2, <1>1, <1>2 DEF WithinWindow
    <3>6. Guess(locCnt, Hint(locCnt + n)) = locCnt + n
      <4>1. (locCnt - (locCnt % HintSize)) + Hint(locCnt + n) = frameCnt
        BY <3>3
      <4>2. frameCnt # locCnt /\ ~(frameCnt > locCnt)
        BY <2>2, <1>1
      <4> HIDE DEF frameCnt, h, base, lo
      <4> QED
        BY <4>1, <4>2, <3>4, <3>5 DEF Guess
    <3> QED
      BY <3>2, <3>6 DEF Opens
  \* The counter itself wraps.
  <2>5. CASE base + HintSize = CounterSize
    <3>1. locCnt + n = CounterSize + h
      BY <1>1, <1>2, <1>3, <2>5
    <3>2. h \in 0..CounterSize - 1 /\ CounterSize + h \in CounterSize..2 * CounterSize - 1
      BY <2>1
    <3>3. Advance(locCnt, n) = h
      BY <3>1, <3>2, Remainder DEF Advance
    <3>4. Hint(h) = h
      BY <2>1, Remainder DEF Hint
    <3>5. Advance(frameCnt, HintSize) = h
      <4>1. frameCnt + HintSize = CounterSize + h
        BY <1>4, <2>1, <2>5
      <4> QED
        BY <4>1, <3>2, Remainder DEF Advance
    <3>6. WithinWindow(h, locCnt)
      <4>1. h - CtrWindow \in -CounterSize..-1
        BY <1>2, <1>3, <2>1
      <4>2. (h - CtrWindow) % CounterSize = (h - CtrWindow) + CounterSize
        BY <4>1, Remainder
      <4>3. (h - CtrWindow) + CounterSize <= locCnt
        BY <1>1, <1>2, <1>3, <1>4, <2>1, <2>5
      <4> QED
        BY <4>2, <4>3 DEF WithinWindow
    <3>7. Guess(locCnt, Hint(h)) = h
      <4>1. (locCnt - (locCnt % HintSize)) + Hint(h) = frameCnt
        BY <3>4
      <4>2. frameCnt # locCnt /\ ~(frameCnt > locCnt)
        BY <2>2, <1>1
      <4> HIDE DEF frameCnt, h, base, lo
      <4> QED
        BY <4>1, <4>2, <3>5, <3>6 DEF Guess
    <3> QED
      BY <3>3, <3>7 DEF Opens
  <2> QED
    BY <1>4, <2>4, <2>5
<1> QED
  BY <1>2, <1>3, <1>6, <1>7

(***************************************************************************)
(* A link whose messages are enciphered.                                   *)
(***************************************************************************)

\* No message but one ahead opens.
LEMMA OpensOnlyAhead ==
    ASSUME NEW locCnt \in Counters, NEW ctr \in Counters, Opens(locCnt, ctr)
    PROVE  \E n \in 0..CtrWindow : ctr = Advance(locCnt, n)
<1> USE CounterAssumption
<1> DEFINE lo == locCnt % HintSize
           hint == ctr % HintSize
           frameCnt == (locCnt - lo) + hint
<1>1. /\ locCnt \in Int /\ 0 <= locCnt /\ locCnt < CounterSize
      /\ ctr \in Int /\ 0 <= ctr /\ ctr < CounterSize
      /\ CtrWindow = HintSize - 1
  BY DEF Counters, CtrWindow
<1>2. lo \in 0..HintSize - 1 /\ hint \in 0..HintSize - 1
  BY <1>1, Divided
<1>3. (locCnt - lo) + HintSize <= CounterSize
  BY Room
<1>4. ctr = IF frameCnt = locCnt THEN locCnt
            ELSE IF frameCnt > locCnt THEN frameCnt ELSE Advance(frameCnt, HintSize)
  <2>1. Guess(locCnt, hint) = ctr /\ ctr # -1
    BY <1>1 DEF Opens, Hint
  <2> HIDE DEF hint
  <2> QED
    BY <2>1 DEF Guess
<1> HIDE DEF lo, hint
<1>5. frameCnt \in Int /\ locCnt \in Int
  BY <1>1, <1>2
<1>6. CASE frameCnt >= locCnt
  <2>1. ctr = locCnt + (frameCnt - locCnt) /\ frameCnt - locCnt \in 0..CtrWindow
    BY <1>1, <1>2, <1>4, <1>6
  <2>2. Advance(locCnt, frameCnt - locCnt) = ctr
    <3>1. locCnt + (frameCnt - locCnt) \in 0..CounterSize - 1
      BY <1>1, <2>1
    <3> QED
      BY <2>1, <3>1, Remainder DEF Advance
  <2> QED
    BY <2>1, <2>2
<1>7. CASE frameCnt < locCnt
  <2> DEFINE n == (frameCnt + HintSize) - locCnt
  <2>1. n \in 0..CtrWindow
    BY <1>1, <1>2, <1>7
  <2>2. locCnt + n = frameCnt + HintSize
    BY <1>1, <1>2
  <2>3. ctr = Advance(frameCnt, HintSize)
    BY <1>4, <1>5, <1>7
  <2>4. ctr = Advance(locCnt, n)
    BY <2>2, <2>3 DEF Advance
  <2> QED
    BY <2>1, <2>4
<1> QED
  BY <1>5, <1>6, <1>7

\* Advancing in two steps.
LEMMA AdvanceTwice ==
    ASSUME NEW first \in Counters, NEW x \in Nat, NEW n \in Nat
    PROVE  /\ Advance(first, x) \in Counters
           /\ Advance(Advance(first, x), n) = Advance(first, x + n)
<1> USE CounterAssumption
<1> DEFINE C == CounterSize
           r == (first + x) % C
           q == (first + x) \div C
           s == (r + n) % C
           p == (r + n) \div C
<1>1. C \in Nat \ {0} /\ first + x \in Int /\ first \in Int
  BY DEF Counters
<1>2. r \in 0..C - 1 /\ q \in Int /\ first + x = C * q + r
  BY <1>1, Divided
<1>3. r + n \in Int
  BY <1>2
<1>4. s \in 0..C - 1 /\ p \in Int /\ r + n = C * p + s
  BY <1>1, <1>3, Divided
<1> HIDE DEF C, r, q, s, p
<1>5. first + (x + n) = C * (q + p) + s
  <2>1. C * (q + p) = C * q + C * p
    BY <1>1, <1>2, <1>4, SMT
  <2>2. C * q \in Int /\ C * p \in Int
    BY <1>1, <1>2, <1>4
  <2> QED
    BY <1>1, <1>2, <1>4, <2>1, <2>2
<1>6. (first + (x + n)) % C = s
  <2>1. q + p \in Int
    BY <1>2, <1>4
  <2>2. (C * (q + p) + s) % C = s
    BY <1>1, <1>4, <2>1, Unique
  <2> QED
    BY <1>5, <2>2
<1> QED
  BY <1>2, <1>4, <1>6 DEF Advance, Counters, C, r, s

\* Counters less than a round apart differ.
LEMMA FarApart ==
    ASSUME NEW first \in Counters, NEW x \in Nat, NEW y \in Nat,
           y - x \in 1..CounterSize - 1
    PROVE  Advance(first, x) # Advance(first, y)
<1> USE CounterAssumption
<1> DEFINE C == CounterSize
           p == (first + x) \div C
           q == (first + y) \div C
           r == (first + x) % C
<1>1. C \in Nat \ {0} /\ first + x \in Int /\ first + y \in Int /\ first \in Int
  BY DEF Counters
<1>2. p \in Int /\ q \in Int /\ r \in Int /\ first + x = C * p + r
  BY <1>1, Divided
<1>3. SUFFICES ASSUME (first + y) % C = r
               PROVE  FALSE
  BY DEF Advance
<1>4. first + y = C * q + r
  BY <1>1, <1>3, Divided
<1>5. C * (q - p) = y - x
  <2> HIDE DEF C, p, q, r
  <2>1. C * (q - p) = C * q - C * p
    BY <1>1, <1>2, Distributive
  <2>2. C * q \in Int /\ C * p \in Int
    BY <1>1, <1>2
  <2> QED
    BY <1>1, <1>2, <1>4, <2>1, <2>2
<1>6. C * (q - p) >= C
  <2>1. C * (q - p) > 0 /\ q - p \in Int
    BY <1>2, <1>5
  <2> HIDE DEF C, p, q
  <2> QED
    BY <1>1, <2>1, Multiple
<1> QED
  BY <1>1, <1>5, <1>6

CONSTANTS SecureSizeQ, FirstCounters, Blocks, SecureSends
VARIABLES tx, rx, secureAir, secureInq, stuck, sent, opened

Secure == INSTANCE SecureLink WITH
    SizeQ <- SecureSizeQ, MaxSends <- SecureSends, air <- secureAir, inq <- secureInq

\* The link counts as SecureCounter does.
LEMMA SecureSame ==
    /\ Secure!Counters = Counters /\ Secure!CtrWindow = CtrWindow
    /\ \A c, n : Secure!Advance(c, n) = Advance(c, n)
    /\ \A c, d : Secure!Opens(c, d) = Opens(c, d)
<1>1. /\ Secure!Counters = Counters /\ Secure!CtrWindow = CtrWindow
      /\ \A c, n : Secure!Advance(c, n) = Advance(c, n)
  BY DEF Secure!Counters, Counters, Secure!CtrWindow, CtrWindow, Secure!Advance, Advance
<1>2. \A c, d : Secure!WithinWindow(c, d) = WithinWindow(c, d)
  BY <1>1 DEF Secure!WithinWindow, WithinWindow
<1>3. \A c, h : Secure!Guess(c, h) = Guess(c, h)
  BY <1>1, <1>2 DEF Secure!Guess, Guess
<1>4. \A c, d : Secure!Opens(c, d) = Opens(c, d)
  BY <1>3 DEF Secure!Opens, Opens, Secure!Hint, Hint
<1> QED
  BY <1>1, <1>4

(***************************************************************************)
(* The invariant of the link: the counters tell the position in the stream *)
(* of blocks, which is not twice as long as what they can tell apart.      *)
(***************************************************************************)

Enciphered == [id : Nat, ctr : Counters, blocks : Nat \ {0}, before : Nat]
Retrieved == {opened[i] : i \in DOMAIN opened}
AllEnciphered == secureAir \union Secure!InQueue \union Retrieved

LinkTypes ==
    /\ tx \in Counters /\ rx \in Counters
    /\ secureAir \subseteq Enciphered /\ secureInq \in Seq(Enciphered)
          /\ opened \in Seq(Enciphered)
    /\ sent \in [n : Nat, blocks : Nat] /\ sent.n <= SecureSends

Bounded == sent.blocks = 0 \/ \E b \in Blocks : sent.blocks <= b * sent.n

\* The messages in the order of their ids take one stretch of the stream each.
Numbered ==
    /\ \A m \in AllEnciphered : m.id \in 1..sent.n /\ m.before + m.blocks <= sent.blocks
    /\ \A m, k \in AllEnciphered : /\ m.id < k.id => m.before + m.blocks <= k.before
                                   /\ m.id = k.id => m.before = k.before

\* The counter that the link started with.
Placed(first) ==
    /\ tx = Advance(first, sent.blocks) /\ rx = Advance(first, Secure!Position)
    /\ \A m \in AllEnciphered : m.ctr = Advance(first, m.before)

LinkInv ==
    /\ LinkTypes /\ Bounded /\ Numbered
    /\ \E first \in Counters : Placed(first)
    /\ Secure!OpenedInOrder

\* What the steps do with the queues.
LEMMA QueueElements ==
    ASSUME NEW S, NEW q \in Seq(S), NEW x \in S
    PROVE  /\ Append(q, x) \in Seq(S)
           /\ \A i \in DOMAIN Append(q, x) :
                  Append(q, x)[i] = x \/ \E j \in DOMAIN q : Append(q, x)[i] = q[j]
           /\ q # <<>> => /\ Tail(q) \in Seq(S) /\ Head(q) = q[1] /\ 1 \in DOMAIN q
                          /\ \A i \in DOMAIN Tail(q) : \E j \in DOMAIN q : Tail(q)[i] = q[j]
<1>1. Append(q, x) \in Seq(S)
  OBVIOUS
<1>2. ASSUME NEW i \in DOMAIN Append(q, x)
      PROVE  Append(q, x)[i] = x \/ \E j \in DOMAIN q : Append(q, x)[i] = q[j]
  OBVIOUS
<1>3. ASSUME q # <<>>
      PROVE  /\ Tail(q) \in Seq(S) /\ Head(q) = q[1] /\ 1 \in DOMAIN q
             /\ \A i \in DOMAIN Tail(q) : \E j \in DOMAIN q : Tail(q)[i] = q[j]
  <2>1. Tail(q) \in Seq(S) /\ Head(q) = q[1] /\ 1 \in DOMAIN q
    BY <1>3
  <2>2. \A i \in DOMAIN Tail(q) : i + 1 \in DOMAIN q /\ Tail(q)[i] = q[i + 1]
    BY <1>3
  <2> QED
    BY <2>1, <2>2
<1> QED
  BY <1>1, <1>2, <1>3

\* The stream is shorter than a round of the counter by a window.
LEMMA Times ==
    ASSUME NEW b \in Nat, NEW n \in Nat, NEW m \in Nat, n <= m
    PROVE  b * n <= m * b /\ b * n \in Nat
<1>1. m - n \in Nat /\ b * (m - n) = b * m - b * n
  BY Distributive
<1>2. b * (m - n) >= 0 /\ b * n \in Nat /\ b * m = m * b /\ b * m \in Nat
  BY <1>1, SMT
<1> QED
  BY <1>1, <1>2

LEMMA FewBlocks ==
    ASSUME Secure!LinkAssumption, Secure!CountersLast, LinkTypes, Bounded
    PROVE  sent.blocks <= CounterSize - HintSize
<1>1. sent.n \in Nat /\ sent.n <= SecureSends /\ SecureSends \in Nat
  BY DEF LinkTypes, Secure!LinkAssumption
<1>2. CASE sent.blocks = 0
  BY <1>2, CounterAssumption
<1>3. ASSUME NEW b \in Blocks, sent.blocks <= b * sent.n
      PROVE  sent.blocks <= CounterSize - HintSize
  <2>1. b \in Nat /\ SecureSends * b <= CounterSize - HintSize
    BY DEF Secure!LinkAssumption, Secure!CountersLast
  <2>2. b * sent.n <= SecureSends * b /\ b * sent.n \in Nat
    BY <1>1, <2>1, Times
  <2>3. SecureSends * b \in Nat /\ sent.blocks \in Nat
    BY <1>1, <2>1 DEF LinkTypes
  <2> QED
    BY <1>3, <2>1, <2>2, <2>3, CounterAssumption
<1> QED
  BY <1>2, <1>3 DEF Bounded

\* Facts about the messages, for arithmetic.
LEMMA MessageTypes ==
    ASSUME LinkTypes
    PROVE  /\ AllEnciphered \subseteq Enciphered
           /\ Secure!Position \in Nat
           /\ sent.n \in Nat /\ sent.blocks \in Nat
<1>1. AllEnciphered \subseteq Enciphered
  BY DEF LinkTypes, AllEnciphered, Secure!InQueue, Retrieved
<1>2. Secure!Position \in Nat
  <2>1. CASE opened = <<>>
    BY <2>1 DEF Secure!Position
  <2>2. CASE opened # <<>>
    <3>1. opened[Len(opened)] \in Enciphered
      BY <2>2 DEF LinkTypes
    <3> QED
      BY <2>2, <3>1 DEF Secure!Position, Enciphered
  <2> QED
    BY <2>1, <2>2
<1> QED
  BY <1>1, <1>2 DEF LinkTypes

\* A step that neither sends nor opens a message.
LEMMA FewerMessages ==
    ASSUME LinkInv, UNCHANGED <<tx, rx, sent, opened>>,
           secureAir' \subseteq Enciphered, secureInq' \in Seq(Enciphered),
           secureAir' \subseteq secureAir,
              Secure!InQueue' \subseteq Secure!InQueue \union secureAir
    PROVE  LinkInv'
<1>1. AllEnciphered' \subseteq AllEnciphered
  BY DEF AllEnciphered, Retrieved
<1>2. LinkTypes' /\ Bounded' /\ Numbered'
  BY <1>1 DEF LinkInv, LinkTypes, Bounded, Numbered
<1>3. \E first \in Counters : Placed(first)'
  BY <1>1 DEF LinkInv, Placed, Secure!Position
<1> QED
  BY <1>2, <1>3 DEF LinkInv, Secure!OpenedInOrder

LEMMA SendKeepsLinkInv ==
    ASSUME Secure!LinkAssumption, LinkInv, NEW blocks \in Blocks, Secure!Send(blocks)
    PROVE  LinkInv'
<1> DEFINE m == [id |-> sent.n + 1, ctr |-> tx, blocks |-> blocks, before |-> sent.blocks]
<1>1. /\ sent.n < SecureSends /\ secureAir' = secureAir \union {m}
            /\ tx' = Advance(tx, blocks)
      /\ sent' = [n |-> sent.n + 1, blocks |-> sent.blocks + blocks]
      /\ UNCHANGED <<rx, secureInq, stuck, opened>>
  BY SecureSame DEF Secure!Send
<1>2. /\ blocks \in Nat \ {0} /\ tx \in Counters /\ sent.n \in Nat /\ sent.blocks \in Nat
      /\ SecureSends \in Nat
  BY MessageTypes DEF Secure!LinkAssumption, LinkInv, LinkTypes
<1>3. m \in Enciphered
  BY <1>2 DEF Enciphered
<1>4. PICK first \in Counters : Placed(first)
  BY DEF LinkInv
<1>5. tx' = Advance(first, sent'.blocks) /\ tx' \in Counters
  <2>1. tx = Advance(first, sent.blocks) /\ sent'.blocks = sent.blocks + blocks
    BY <1>1, <1>4 DEF Placed
  <2>2. Advance(tx, blocks) \in Counters
    BY <1>2, AdvanceTwice
  <2> QED
    BY <1>1, <1>2, <2>1, <2>2, AdvanceTwice
<1>6. LinkTypes'
  <2>1. sent' \in [n : Nat, blocks : Nat] /\ sent'.n <= SecureSends
    BY <1>1, <1>2
  <2> QED
    BY <1>1, <1>3, <1>5, <2>1 DEF LinkInv, LinkTypes
<1>7. AllEnciphered' = AllEnciphered \union {m}
  BY <1>1 DEF AllEnciphered, Secure!InQueue, Retrieved
<1>8. Bounded'
  <2>1. /\ sent'.n = sent.n + 1 /\ sent'.blocks = sent.blocks + blocks
    BY <1>1
  <2>2. CASE sent.blocks = 0
    <3>1. blocks * 1 <= (sent.n + 1) * blocks
      BY <1>2, Times
    <3>2. sent'.blocks <= blocks * sent'.n
      BY <1>2, <2>1, <2>2, <3>1
    <3> QED
      BY <3>2 DEF Bounded
  <2>3. ASSUME NEW b \in Blocks, sent.blocks <= b * sent.n
        PROVE  \E c \in Blocks : sent'.blocks <= c * sent'.n
    <3>1. b \in Nat
      BY DEF Secure!LinkAssumption
    <3>2. CASE blocks <= b
      <4>1. b * (sent.n + 1) = b * sent.n + b /\ b * sent.n \in Nat
        BY <1>2, <3>1, SMT
      <4>2. sent.blocks + blocks <= b * (sent.n + 1)
        BY <1>2, <2>3, <3>1, <3>2, <4>1
      <4> QED
        BY <2>1, <4>2
    <3>3. CASE b <= blocks
      <4>1. b * sent.n <= blocks * sent.n /\ blocks * sent.n \in Nat /\ b * sent.n \in Nat
        <5>1. sent.n * b <= blocks * sent.n /\ sent.n * b \in Nat
          BY <1>2, <3>1, <3>3, Times
        <5>2. sent.n * b = b * sent.n /\ blocks * sent.n \in Nat
          BY <1>2, <3>1, SMT
        <5> QED
          BY <5>1, <5>2
      <4>2. blocks * (sent.n + 1) = blocks * sent.n + blocks
        BY <1>2, SMT
      <4>3. sent.blocks + blocks <= blocks * (sent.n + 1)
        BY <1>2, <2>3, <4>1, <4>2
      <4> QED
        BY <2>1, <4>3
    <3> QED
      BY <1>2, <3>1, <3>2, <3>3
  <2> QED
    BY <2>2, <2>3 DEF LinkInv, Bounded
<1>9. Numbered'
  <2>1. /\ sent'.n = sent.n + 1 /\ sent'.blocks = sent.blocks + blocks
        /\ m.id = sent.n + 1 /\ m.before = sent.blocks /\ m.blocks = blocks
    BY <1>1
  <2>2. ASSUME NEW k \in AllEnciphered
        PROVE  /\ k.id \in 1..sent.n /\ k.before + k.blocks <= sent.blocks
               /\ k.before \in Nat /\ k.blocks \in Nat
    BY MessageTypes DEF LinkInv, Numbered, Enciphered
  <2>3. \A k \in AllEnciphered' : k.id \in 1..sent'.n /\ k.before + k.blocks <= sent'.blocks
    <3> SUFFICES ASSUME NEW k \in AllEnciphered'
                 PROVE  k.id \in 1..sent'.n /\ k.before + k.blocks <= sent'.blocks
      OBVIOUS
    <3>1. CASE k \in AllEnciphered
      <4>1. k.id \in 1..sent.n + 1 /\ k.before + k.blocks <= sent.blocks + blocks
        BY <1>2, <2>2, <3>1
      <4> QED
        BY <2>1, <4>1
    <3>2. CASE k = m
      <4>1. m.id \in 1..sent.n + 1 /\ m.before + m.blocks <= sent.blocks + blocks
        BY <1>2, <2>1
      <4> QED
        BY <2>1, <3>2, <4>1
    <3> QED
      BY <1>7, <3>1, <3>2
  <2>4. ASSUME NEW k \in AllEnciphered', NEW l \in AllEnciphered'
        PROVE  /\ k.id < l.id => k.before + k.blocks <= l.before
               /\ k.id = l.id => k.before = l.before
    <3>1. CASE k \in AllEnciphered /\ l \in AllEnciphered
      BY <3>1 DEF LinkInv, Numbered
    <3>2. CASE k \in AllEnciphered /\ l = m
      BY <1>2, <2>1, <2>2, <3>2
    <3>3. CASE k = m /\ l \in AllEnciphered
      BY <1>2, <2>1, <2>2, <3>3
    <3>4. CASE k = m /\ l = m
      BY <1>2, <2>1, <3>4
    <3> QED
      BY <1>7, <3>1, <3>2, <3>3, <3>4
  <2> QED
    BY <2>3, <2>4 DEF Numbered
<1>10. Placed(first)'
  <2>1. Secure!Position' = Secure!Position
    BY <1>1 DEF Secure!Position
  <2>2. m.ctr = Advance(first, m.before)
    BY <1>4 DEF Placed
  <2> QED
    BY <1>1, <1>4, <1>5, <1>7, <2>1, <2>2 DEF Placed
<1> QED
  BY <1>1, <1>4, <1>6, <1>8, <1>9, <1>10 DEF LinkInv, Secure!OpenedInOrder

\* A message that opens comes after all that were opened: one from before would
\* have to be almost a round of the counter behind.
LEMMA OpensAhead ==
    ASSUME Secure!LinkAssumption, Secure!CountersLast, LinkInv, NEW m \in AllEnciphered,
              Opens(rx, m.ctr)
    PROVE  m.before >= Secure!Position
<1>1. PICK first \in Counters : Placed(first)
  BY DEF LinkInv
<1>2. /\ m.before \in Nat /\ m.blocks \in Nat \ {0} /\ m.ctr \in Counters
      /\ m.before + m.blocks <= sent.blocks
      /\ Secure!Position \in Nat /\ sent.blocks \in Nat /\ rx \in Counters
  BY MessageTypes DEF LinkInv, Numbered, Enciphered, LinkTypes
<1>3. PICK n \in 0..CtrWindow : m.ctr = Advance(rx, n)
  BY <1>2, OpensOnlyAhead
<1>4. n \in Nat /\ n <= HintSize - 1 /\ HintSize \in Nat /\ CounterSize \in Nat
  BY CounterAssumption DEF CtrWindow
<1>5. Advance(first, m.before) = Advance(first, Secure!Position + n)
  <2>1. rx = Advance(first, Secure!Position) /\ m.ctr = Advance(first, m.before)
    BY <1>1 DEF Placed
  <2> QED
    BY <1>2, <1>3, <1>4, <2>1, AdvanceTwice
<1>6. Secure!Position <= sent.blocks
  <2>1. CASE opened = <<>>
    BY <1>2, <2>1 DEF Secure!Position
  <2>2. CASE opened # <<>>
    <3>1. Len(opened) \in DOMAIN opened
      BY <2>2 DEF LinkInv, LinkTypes
    <3>2. opened[Len(opened)] \in AllEnciphered
      BY <3>1 DEF AllEnciphered, Retrieved
    <3> QED
      BY <2>2, <3>2 DEF Secure!Position, LinkInv, Numbered
  <2> QED
    BY <2>1, <2>2
<1>7. sent.blocks <= CounterSize - HintSize
  BY FewBlocks DEF LinkInv
<1>8. SUFFICES ASSUME m.before < Secure!Position
               PROVE  FALSE
  BY <1>2
<1>9. (Secure!Position + n) - m.before \in 1..CounterSize - 1
  BY <1>2, <1>4, <1>6, <1>7, <1>8
<1>10. Secure!Position + n \in Nat
  BY <1>2, <1>4
<1> QED
  BY <1>2, <1>5, <1>9, <1>10, FarApart

LEMMA RetrieveKeepsLinkInv ==
    ASSUME Secure!LinkAssumption, Secure!CountersLast, LinkInv, Secure!Retrieve
    PROVE  LinkInv'
<1> DEFINE m == Head(secureInq)
<1>1. secureInq # <<>> /\ secureInq' = Tail(secureInq) /\ UNCHANGED <<tx, secureAir, sent>>
  BY DEF Secure!Retrieve
<1>2. secureInq \in Seq(Enciphered) /\ opened \in Seq(Enciphered)
  BY DEF LinkInv, LinkTypes
<1>3. m \in Secure!InQueue /\ m \in Enciphered /\ secureInq' \in Seq(Enciphered)
         /\ Secure!InQueue' \subseteq Secure!InQueue
  <2>1. m \in Secure!InQueue /\ m \in Enciphered
    BY <1>1, <1>2 DEF Secure!InQueue
  <2> QED
    BY <1>1, <1>2, <2>1, QueueElements DEF Secure!InQueue
<1>4. CASE ~Opens(rx, m.ctr)
  <2>1. UNCHANGED <<rx, opened>>
    BY <1>4, SecureSame DEF Secure!Retrieve
  <2> QED
    BY <1>1, <1>3, <2>1, FewerMessages DEF LinkInv, LinkTypes
<1>5. CASE Opens(rx, m.ctr)
  <2>1. rx' = Advance(m.ctr, m.blocks) /\ opened' = Append(opened, m)
    BY <1>5, SecureSame DEF Secure!Retrieve
  <2>2. m \in AllEnciphered
    BY <1>3 DEF AllEnciphered
  <2>3. /\ m.before \in Nat /\ m.blocks \in Nat \ {0} /\ m.ctr \in Counters /\ m.id \in Nat
    BY <1>3 DEF Enciphered
  <2>4. /\ opened' \in Seq(Enciphered) /\ Len(opened') = Len(opened) + 1
        /\ \A i \in 1..Len(opened) : opened'[i] = opened[i]
        /\ opened'[Len(opened) + 1] = m
        /\ Len(opened) \in Nat
    BY <1>2, <1>3, <2>1
  <2>5. AllEnciphered' \subseteq AllEnciphered
    <3>1. Retrieved' \subseteq Retrieved \union {m}
      BY <1>2, <1>3, <2>1, QueueElements DEF Retrieved
    <3> QED
      BY <1>1, <1>3, <2>2, <3>1 DEF AllEnciphered
  <2>6. Secure!Position' = m.before + m.blocks
    <3>1. opened' # <<>>
      BY <2>4
    <3> QED
      BY <2>4, <3>1 DEF Secure!Position
  <2>7. PICK first \in Counters : Placed(first)
    BY DEF LinkInv
  <2>8. rx' = Advance(first, Secure!Position') /\ rx' \in Counters
    <3>1. m.ctr = Advance(first, m.before)
      BY <2>2, <2>7 DEF Placed
    <3>2. Advance(m.ctr, m.blocks) = Advance(first, m.before + m.blocks)
      <4>1. m.before \in Nat /\ m.blocks \in Nat
        BY <2>3
      <4>2. Advance(Advance(first, m.before), m.blocks) = Advance(first, m.before + m.blocks)
        BY <4>1, AdvanceTwice
      <4> QED
        BY <3>1, <4>2
    <3>3. Advance(first, m.before + m.blocks) \in Counters
      BY <2>3, AdvanceTwice
    <3> QED
      BY <2>1, <2>6, <3>2, <3>3
  <2>9. LinkTypes' /\ Bounded' /\ Numbered'
    BY <1>1, <1>3, <2>4, <2>5, <2>8 DEF LinkInv, LinkTypes, Bounded, Numbered
  <2>10. Placed(first)'
    BY <1>1, <2>5, <2>7, <2>8 DEF Placed
  <2>11. ASSUME opened # <<>>
         PROVE  opened[Len(opened)].id < m.id
    <3> DEFINE l == opened[Len(opened)]
    <3>1. l \in AllEnciphered
      <4>1. Len(opened) \in DOMAIN opened
        BY <1>2, <2>11
      <4> QED
        BY <4>1 DEF AllEnciphered, Retrieved
    <3>2. l.before \in Nat /\ l.blocks \in Nat \ {0} /\ l.id \in Nat
      BY <3>1, MessageTypes DEF LinkInv, Enciphered
    <3>3. m.before >= l.before + l.blocks
      BY <1>5, <2>2, <2>11, OpensAhead DEF Secure!Position
    <3>4. m.id < l.id => m.before + m.blocks <= l.before
      BY <2>2, <3>1 DEF LinkInv, Numbered
    <3>5. m.id = l.id => m.before = l.before
      BY <2>2, <3>1 DEF LinkInv, Numbered
    <3> QED
      BY <2>3, <3>2, <3>3, <3>4, <3>5
  <2>12. Secure!OpenedInOrder'
    <3> SUFFICES ASSUME NEW i \in 1..Len(opened') - 1
                 PROVE  opened'[i].id < opened'[i + 1].id
      BY DEF Secure!OpenedInOrder
    <3>1. i \in 1..Len(opened)
      BY <2>4
    <3>2. CASE i = Len(opened)
      <4>1. opened # <<>>
        BY <3>1
      <4> QED
        BY <2>4, <2>11, <3>1, <3>2, <4>1
    <3>3. CASE i # Len(opened)
      <4>1. i \in 1..Len(opened) - 1 /\ i + 1 \in 1..Len(opened)
        BY <2>4, <3>1, <3>3
      <4> QED
        BY <2>4, <3>1, <4>1 DEF LinkInv, Secure!OpenedInOrder
    <3> QED
      BY <3>2, <3>3
  <2> QED
    BY <2>7, <2>9, <2>10, <2>12 DEF LinkInv
<1> QED
  BY <1>4, <1>5

LEMMA NextLinkInv ==
    ASSUME Secure!LinkAssumption, Secure!CountersLast, LinkInv, [Secure!Next]_(Secure!vars)
    PROVE  LinkInv'
<1> USE DEF LinkTypes
<1>1. CASE UNCHANGED Secure!vars
  <2>1. UNCHANGED <<tx, rx, secureAir, secureInq, sent, opened>>
    BY <1>1 DEF Secure!vars
  <2> QED
    BY <2>1, FewerMessages DEF LinkInv, Secure!InQueue
<1>2. ASSUME NEW blocks \in Blocks, Secure!Send(blocks)
      PROVE  LinkInv'
  BY <1>2, SendKeepsLinkInv
<1>3. ASSUME NEW m \in secureAir, Secure!Receive(m)
      PROVE  LinkInv'
  <2>1. /\ UNCHANGED <<tx, rx, sent, opened>> /\ secureAir' \subseteq secureAir
        /\ \/ secureInq' = secureInq
           \/ secureInq' = Append(secureInq, m)
           \/ secureInq' = Append(Tail(secureInq), m) /\ secureInq # <<>>
    BY <1>3 DEF Secure!Receive
  <2>2. m \in Enciphered /\ secureInq \in Seq(Enciphered) /\ secureAir \subseteq Enciphered
    BY DEF LinkInv
  <2>3. secureInq'
           \in Seq(Enciphered) /\ Secure!InQueue' \subseteq Secure!InQueue \union secureAir
    <3>1. CASE secureInq' = secureInq
      BY <2>2, <3>1 DEF Secure!InQueue
    <3>2. CASE secureInq' = Append(secureInq, m)
      BY <2>2, <3>2, QueueElements DEF Secure!InQueue
    <3>3. CASE secureInq' = Append(Tail(secureInq), m) /\ secureInq # <<>>
      <4>1. /\ Tail(secureInq) \in Seq(Enciphered)
            /\ \A i \in DOMAIN Tail(secureInq) : \E j \in DOMAIN secureInq :
                  Tail(secureInq)[i] = secureInq[j]
        BY <2>2, <3>3, QueueElements
      <4>2. /\ secureInq' \in Seq(Enciphered)
            /\ \A i \in DOMAIN secureInq' : secureInq'[i] = m
                   \/ \E j \in DOMAIN Tail(secureInq) : secureInq'[i] = Tail(secureInq)[j]
        BY <2>2, <3>3, <4>1, QueueElements
      <4> QED
        BY <4>1, <4>2 DEF Secure!InQueue
    <3> QED
      BY <2>1, <3>1, <3>2, <3>3
  <2> QED
    BY <2>1, <2>2, <2>3, FewerMessages
<1>4. ASSUME NEW m \in secureAir, Secure!Lose(m)
      PROVE  LinkInv'
  <2>1. UNCHANGED <<tx, rx, secureInq, sent, opened>> /\ secureAir' \subseteq secureAir
    BY <1>4 DEF Secure!Lose
  <2> QED
    BY <2>1, FewerMessages DEF LinkInv, Secure!InQueue
<1>5. CASE Secure!Retrieve
  BY <1>5, RetrieveKeepsLinkInv
<1> QED
  BY <1>1, <1>2, <1>3, <1>4, <1>5 DEF Secure!Next

LEMMA InitLinkInv ==
    ASSUME Secure!LinkAssumption, Secure!Init
    PROVE  LinkInv
<1>1. /\ tx \in FirstCounters /\ rx = tx /\ secureAir = {} /\ secureInq = <<>>
            /\ opened = <<>>
      /\ sent = [n |-> 0, blocks |-> 0]
  BY DEF Secure!Init
<1>2. tx \in Counters /\ SecureSends \in Nat
  BY <1>1, SecureSame DEF Secure!LinkAssumption
<1>3. AllEnciphered = {}
  BY <1>1 DEF AllEnciphered, Secure!InQueue, Retrieved
<1>4. LinkTypes /\ Bounded /\ Numbered
  BY <1>1, <1>2, <1>3 DEF LinkTypes, Bounded, Numbered
<1>5. Placed(tx)
  <2>1. tx \in 0..CounterSize - 1 /\ CounterSize \in Nat \ {0} /\ tx + 0 = tx
    BY <1>2, CounterAssumption DEF Counters
  <2>2. Advance(tx, 0) = tx
    BY <2>1, Remainder DEF Advance
  <2> QED
    BY <1>1, <1>3, <2>2 DEF Placed, Secure!Position
<1>6. Secure!OpenedInOrder
  BY <1>1 DEF Secure!OpenedInOrder
<1> QED
  BY <1>2, <1>4, <1>5, <1>6 DEF LinkInv

\* Messages are received in the order in which they were sent and none twice, for
\* any sizes of hint and counter, however late and often they come: an old counter
\* never opens (nwk_getSecureFrame).
THEOREM OldNeverOpens ==
    ASSUME Secure!LinkAssumption, Secure!CountersLast
    PROVE  Secure!Spec => []Secure!OpenedInOrder
<1>1. Secure!Init => LinkInv
  BY InitLinkInv
<1>2. LinkInv /\ [Secure!Next]_(Secure!vars) => LinkInv'
  BY NextLinkInv
<1>3. LinkInv => Secure!OpenedInOrder
  BY DEF LinkInv
<1> QED
  BY <1>1, <1>2, <1>3, PTL DEF Secure!Spec

\* A message opens if no more blocks were missed than the window has.
LEMMA MissedFew ==
    ASSUME LinkInv
    PROVE  Secure!MissedOpens
<1> SUFFICES ASSUME NEW m \in secureAir \union Secure!InQueue,
                    m.before \in Secure!Position..Secure!Position + CtrWindow
             PROVE  Opens(rx, m.ctr)
  BY SecureSame DEF Secure!MissedOpens
<1>1. PICK first \in Counters : Placed(first)
  BY DEF LinkInv
<1>2. m \in AllEnciphered
  BY DEF AllEnciphered
<1>3. m.before \in Nat /\ Secure!Position \in Nat /\ rx \in Counters
  BY <1>2, MessageTypes DEF LinkInv, Enciphered, LinkTypes
<1> DEFINE n == m.before - Secure!Position
<1>4. n \in 0..CtrWindow /\ n \in Nat /\ m.before = Secure!Position + n
  BY <1>3, CounterAssumption DEF CtrWindow
<1>5. rx = Advance(first, Secure!Position) /\ m.ctr = Advance(first, m.before)
  BY <1>1, <1>2 DEF Placed
<1>6. m.ctr = Advance(rx, n)
  BY <1>3, <1>4, <1>5, AdvanceTwice
<1> QED
  BY <1>3, <1>4, <1>6, GuessesAhead

\* It stays so as the counters wrap round (nwk_getSecureFrame).
THEOREM MissedRecovered ==
    ASSUME Secure!LinkAssumption, Secure!CountersLast
    PROVE  Secure!Spec => []Secure!MissedOpens
<1>1. Secure!Init => LinkInv
  BY InitLinkInv
<1>2. LinkInv /\ [Secure!Next]_(Secure!vars) => LinkInv'
  BY NextLinkInv
<1>3. LinkInv => Secure!MissedOpens
  BY MissedFew
<1> QED
  BY <1>1, <1>2, <1>3, PTL DEF Secure!Spec

(***************************************************************************)
(* The ids of polls: a message after at most Window lost ones is new, one  *)
(* that comes at most Window + 1 later ones late, or again, is not.        *)
(***************************************************************************)

CONSTANTS MaxTid, Window

Poll == INSTANCE PollWindow

\* Up to Window messages may be lost in a row, across the wrap too, and the
\* next is accepted (nwk_checkAppMsgTID).
THEOREM NextAccepted ==
    ASSUME Poll!WindowAssumption, NEW last \in Poll!Tids, NEW k \in 1..Window + 1
    PROVE  Poll!After(last, k) \in Poll!Tids /\ Poll!CheckTid(last, Poll!After(last, k))
<1>1. CASE last + k <= MaxTid
  <2>1. Poll!After(last, k) = last + k
    BY <1>1, Poll!WindowAssumption DEF Poll!After, Poll!Tids
  <2>2. ~Poll!DupTidAfterWrap(last, last + k)
    BY Poll!WindowAssumption DEF Poll!DupTidAfterWrap, Poll!Tids
  <2> QED
    BY <1>1, <2>1, <2>2, Poll!WindowAssumption DEF Poll!CheckTid, Poll!Tids
<1>2. CASE last + k > MaxTid
  <2>1. Poll!After(last, k) = last + k - (MaxTid + 1)
    BY <1>2, Poll!WindowAssumption DEF Poll!After, Poll!Tids
  <2>2. Poll!CheckTidWrap(last, Poll!After(last, k)) /\ Poll!After(last, k) < last
    BY <1>2, <2>1, Poll!WindowAssumption DEF Poll!CheckTidWrap, Poll!Tids
  <2> QED
    BY <1>2, <2>1, <2>2, Poll!WindowAssumption DEF Poll!CheckTid, Poll!Tids
<1> QED
  BY <1>1, <1>2, Poll!WindowAssumption DEF Poll!Tids

\* A repeated message, and one that Window + 1 later ones have overtaken at
\* most, is refused, across the wrap too (nwk_checkAppMsgTID).
THEOREM LateRefused ==
    ASSUME Poll!WindowAssumption, NEW last \in Poll!Tids, NEW k \in 0..Window + 1
    PROVE  Poll!Before(last, k) \in Poll!Tids /\ ~Poll!CheckTid(last, Poll!Before(last, k))
<1>1. CASE last - k >= 0
  <2>1. Poll!Before(last, k) = last - k
    BY <1>1, Poll!WindowAssumption DEF Poll!Before, Poll!Tids
  <2>2. ~Poll!CheckTidWrap(last, last - k)
    BY Poll!WindowAssumption DEF Poll!CheckTidWrap, Poll!Tids
  <2> QED
    BY <1>1, <2>1, <2>2, Poll!WindowAssumption DEF Poll!CheckTid, Poll!Tids
<1>2. CASE last - k < 0
  <2>1. Poll!Before(last, k) = last - k + (MaxTid + 1)
    BY <1>2, Poll!WindowAssumption DEF Poll!Before, Poll!Tids
  <2>2. Poll!DupTidAfterWrap(last, Poll!Before(last, k)) /\ Poll!Before(last, k) > last
    BY <1>2, <2>1, Poll!WindowAssumption DEF Poll!DupTidAfterWrap, Poll!Tids
  <2> QED
    BY <1>2, <2>1, <2>2, Poll!WindowAssumption DEF Poll!CheckTid, Poll!Tids
<1> QED
  BY <1>1, <1>2, Poll!WindowAssumption DEF Poll!Tids
=============================================================================
