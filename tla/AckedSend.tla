----------------------------- MODULE AckedSend -----------------------------
(***************************************************************************)
(* Two linked devices send each other messages (SMPL_SendOpt), with or     *)
(* without asking for an acknowledgement (APP_AUTO_ACK).  A message is put *)
(* together in the first slot of the output queue, which is not marked in  *)
(* use, while the receive interrupt may build and send a link reply there  *)
(* to a third device.  What a device acknowledges, it keeps.               *)
(***************************************************************************)
EXTENDS Naturals

CONSTANTS
    Devices,      \* the two of them
    Senders,      \* those whose application sends
    NumTids,      \* transaction ids are 1..NumTids
    MaxSends,     \* bound on the messages
    MaxLinkers,   \* bound on the link requests of third devices
    Third         \* such a device

AckAssumption ==
    /\ \E a, b \in Devices : a # b /\ Devices = {a, b}
    /\ Senders \subseteq Devices /\ Third \notin Devices
    /\ NumTids \in Nat \ {0} /\ MaxSends \in Nat /\ MaxLinkers \in Nat

\* The ids go round only after more frames than there are in a behaviour: no id is
\* used again.
IdsLast == MaxSends + MaxLinkers <= NumTids

VARIABLES
    slot,       \* per device: the frame in sOutFrameQ[0]
    tract,      \* per device: sTRACTID
    ackTID,     \* per device: connInfo_t.ackTID
    thread,     \* per device: where its thread is, the message, and its options
    air,
    sends, linkers,
    delivered,  \* history, per device: messages put into the input queue
    confirmed,  \* history, per device: messages whose sending succeeded with an ack
    asBuilt     \* history: every frame sent so far was the one meant

vars == <<slot, tract, ackTID, thread, air, sends, linkers, delivered, confirmed, asBuilt>>

Tids == 1..NumTids

Peer(d) == CHOOSE e \in Devices : e # d
Idle == [pc |-> "idle", msg |-> 0, ack |-> FALSE]

\* Body 0 is that of a link reply.
Frame(port, tid, ack, body, dst) ==
    [port |-> port, tid |-> tid, ack |-> ack, body |-> body, dst |-> dst]

Init ==
    /\ slot = [d \in Devices |-> Frame("app", 0, "none", 0, d)]
    /\ tract \in [Devices -> Tids]
    /\ ackTID = [d \in Devices |-> 0]
    /\ thread = [d \in Devices |-> Idle]
    /\ air = {}
    /\ sends = 0 /\ linkers = 0
    /\ delivered = [d \in Devices |-> {}]
    /\ confirmed = [d \in Devices |-> {}]
    /\ asBuilt = TRUE

\* while (!(++sTRACTID)).
NextTract(t) == IF t + 1 \in Tids THEN t + 1 ELSE 1

-----------------------------------------------------------------------------
\* The thread.

SendOpt(d, ack) ==
    /\ thread[d] = Idle
    /\ sends < MaxSends
    /\ sends' = sends + 1
    /\ thread' = [thread EXCEPT ![d] = [pc |-> "port", msg |-> sends', ack |-> ack]]
    /\ UNCHANGED <<slot, tract, ackTID, air, linkers, delivered, confirmed, asBuilt>>

\* A step of the building of the frame: from pc to next.
Fill(d, pc, next) ==
    /\ thread[d].pc = pc
    /\ thread' = [thread EXCEPT ![d].pc = next]
    /\ UNCHANGED <<air, sends, linkers, delivered, confirmed, asBuilt>>

\* nwk_buildFrame writes the fields in this order.
\* Mutant: the port comes last.
PutPortLate(d) ==
    \/ Fill(d, "port", "tid") /\ UNCHANGED <<slot, tract, ackTID>>
    \/ /\ Fill(d, "dst", "send")
       /\ slot' = [slot EXCEPT ![d].port = "app", ![d].dst = Peer(d)]
       /\ UNCHANGED <<tract, ackTID>>
PutPort(d) ==
    /\ Fill(d, "port", "tid")
    /\ slot' = [slot EXCEPT ![d].port = "app"]
    /\ UNCHANGED <<tract, ackTID>>

PutTid(d) ==
    /\ Fill(d, "tid", "count")
    /\ slot' = [slot EXCEPT ![d].tid = tract[d]]
    /\ UNCHANGED <<tract, ackTID>>

CountTid(d) ==
    /\ Fill(d, "count", "flags")
    /\ tract' = [tract EXCEPT ![d] = NextTract(@)]
    /\ UNCHANGED <<slot, ackTID>>

PutFlags(d) ==
    /\ Fill(d, "flags", "body")
    /\ slot' = [slot EXCEPT ![d].ack = "none"]
    /\ UNCHANGED <<tract, ackTID>>

PutBody(d) ==
    /\ Fill(d, "body", IF thread[d].ack THEN "save" ELSE "dst")
    /\ slot' = [slot EXCEPT ![d].body = thread[d].msg]
    /\ UNCHANGED <<tract, ackTID>>

\* nwk_buildAckReqFrame.
SaveTid(d) ==
    /\ Fill(d, "save", "request")
    /\ ackTID' = [ackTID EXCEPT ![d] = slot[d].tid]
    /\ UNCHANGED <<slot, tract>>

RequestAck(d) ==
    /\ Fill(d, "request", "dst")
    /\ slot' = [slot EXCEPT ![d].ack = "request"]
    /\ UNCHANGED <<tract, ackTID>>

PutDst(d) ==
    /\ Fill(d, "dst", "send")
    /\ slot' = [slot EXCEPT ![d].dst = Peer(d)]
    /\ UNCHANGED <<tract, ackTID>>

\* nwk_sendFrame: the channel may be busy.
Meant(d, f) ==
    /\ f.port = "app" /\ f.body = thread[d].msg /\ f.dst = Peer(d)
    /\ f.ack = IF thread[d].ack THEN "request" ELSE "none"

Send(d, sent) ==
    /\ thread[d].pc = "send"
    /\ air' = IF sent THEN air \cup {slot[d]} ELSE air
    /\ asBuilt' = (asBuilt /\ (sent => Meant(d, slot[d])))
    /\ thread' = [thread EXCEPT ![d] = IF sent /\ @.ack THEN [@ EXCEPT !.pc = "wait"]
                                       ELSE Idle]
    /\ UNCHANGED <<slot, tract, ackTID, sends, linkers, delivered, confirmed>>

\* NWK_REPLY_DELAY is over: a critical section tells whether the ack has come.
WaitOver(d) ==
    /\ thread[d].pc = "wait"
    /\ confirmed' = IF ackTID[d] = 0
                    THEN [confirmed EXCEPT ![d] = @ \cup {thread[d].msg}] ELSE confirmed
    /\ ackTID' = [ackTID EXCEPT ![d] = 0]
    /\ thread' = [thread EXCEPT ![d] = Idle]
    /\ UNCHANGED <<slot, tract, air, sends, linkers, delivered, asBuilt>>

-----------------------------------------------------------------------------
\* The receive interrupt.

\* smpl_send_link_reply to a third device: built and sent in one go.
LinkReply(d) ==
    LET f == Frame("link", tract[d], "none", 0, Third)
    IN  /\ linkers < MaxLinkers
        /\ linkers' = linkers + 1
        /\ slot' = [slot EXCEPT ![d] = f]
        /\ tract' = [tract EXCEPT ![d] = NextTract(@)]
        /\ UNCHANGED <<ackTID, thread, air, sends, delivered, confirmed, asBuilt>>

\* The frame leaves the air, or a range extender repeats it.
Taken(f, answers) ==
    \E again \in BOOLEAN : air' = (IF again THEN air ELSE air \ {f}) \cup answers

\* nwk_isConnectionValid: the ack is sent from a frame of its own, and the
\* message is kept.
Message(d, f) ==
    /\ f.dst = d /\ f.port = "app" /\ f.ack # "reply"
    /\ Taken(f, IF f.ack = "request" THEN {Frame("app", f.tid, "reply", 0, Peer(d))} ELSE {})
    /\ delivered' = [delivered EXCEPT ![d] = @ \cup {f.body}]
    /\ UNCHANGED <<slot, tract, ackTID, thread, sends, linkers, confirmed, asBuilt>>

Ack(d, f) ==
    /\ f.dst = d /\ f.port = "app" /\ f.ack = "reply"
    /\ Taken(f, {})
    /\ ackTID' = [ackTID EXCEPT ![d] = IF @ = f.tid THEN 0 ELSE @]
    /\ UNCHANGED <<slot, tract, thread, sends, linkers, delivered, confirmed, asBuilt>>

\* A mangled frame on the link port: not an application's.
Stray(f) ==
    /\ f.port = "link" \/ f.dst = Third
    /\ air' = air \ {f}
    /\ UNCHANGED <<slot, tract, ackTID, thread, sends, linkers, delivered, confirmed, asBuilt>>

Lose(f) ==
    /\ air' = air \ {f}
    /\ UNCHANGED <<slot, tract, ackTID, thread, sends, linkers, delivered, confirmed, asBuilt>>

Thread(d) ==
    \/ d \in Senders /\ \E ack \in BOOLEAN : SendOpt(d, ack)
    \/ PutPort(d) \/ PutTid(d) \/ CountTid(d) \/ PutFlags(d) \/ PutBody(d)
    \/ SaveTid(d) \/ RequestAck(d) \/ PutDst(d)
    \/ \E sent \in BOOLEAN : Send(d, sent)
    \/ WaitOver(d)

Next ==
    \/ \E d \in Devices : Thread(d) \/ LinkReply(d)
    \/ \E d \in Devices, f \in air : Message(d, f) \/ Ack(d, f)
    \/ \E f \in air : Stray(f) \/ Lose(f)

Spec == Init /\ [][Next]_vars

-----------------------------------------------------------------------------
Bodies == 0..MaxSends
Frames == [port : {"app", "link"}, tid : {0} \cup Tids, ack : {"none", "request", "reply"},
           body : Bodies, dst : Devices \cup {Third}]

TypeOK ==
    /\ slot \in [Devices -> Frames]
    /\ tract \in [Devices -> Tids]
    /\ ackTID \in [Devices -> {0} \cup Tids]
    /\ \A d \in Devices : thread[d].msg \in Bodies /\ thread[d].ack \in BOOLEAN
    /\ air \subseteq Frames
    /\ delivered \in [Devices -> SUBSET Bodies]
    /\ confirmed \in [Devices -> SUBSET Bodies]

\* Whatever the interrupt writes into the slot, an application is never given
\* anything but a message that its peer's application sent.
DeliveredAsBuilt == \A d \in Devices : delivered[d] \subseteq 1..sends

\* A message reported as acknowledged has reached the peer's queue, in spite of
\* lost, late and repeated acks and of interrupts while it was built.
AckMeansReceived == \A d \in Devices : confirmed[d] \subseteq delivered[Peer(d)]

\* "The output frame queue can be small since Tx is done synchronously.
\* Actually 1 is probably enough." (radioconfig.h:69): the frame that is sent
\* is the one that was built.
\* The code breaks it: README, section 5.
SentAsBuilt == asBuilt
=============================================================================
