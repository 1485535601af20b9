-------------------------- MODULE StoreAndForward --------------------------
(***************************************************************************)
(* An access point keeps frames for devices that sleep and poll            *)
(* (nwk_join.c, nwk_mgmt.c, nwk_frame.c).  All of it happens in the access *)
(* point's receive interrupt, one frame at a time; every frame, a poll     *)
(* too, first takes a slot of the input queue.  The air loses and reorders *)
(* frames, and range extenders repeat them.                                *)
(***************************************************************************)
EXTENDS FrameSlots, PollWindow, Sequences, SequencesExt

CONSTANTS
    Clients,      \* the polling devices
    Senders,      \* devices that send to them
    AP,           \* the access point
    Port,         \* Port[<<c, e>>]: c's port for the connection with e
    MaxClients,   \* NUM_STORE_AND_FWD_CLIENTS
    SizeOutQ,     \* SIZE_OUTFRAME_Q
    OwnSends,     \* the access point sends messages of its own
    FirstTids,    \* the random transaction ids that devices start with
    Repeated,     \* types of the frames that the air may deliver again
    MaxSends, MaxPolls, MaxRestarts   \* bounds

StoreAssumption == SizeAssumption /\ SizeOutQ \in Nat

VARIABLES
    inq, outq,    \* the access point's queues
    client,       \* sSandFContext: [addr, lastTID, marker], in the order of joining
    dev,          \* per polling device: [pc, joined, tid, polls]
    air,
    sends, restarts,
    waiting,      \* history: the stored messages in the order of their coming
    answered,     \* history: the polls answered, <<device, number>>
    again,        \* history: those answered once more
    lastPoll,     \* history, per device: number of the poll lastTID is from
    misled,       \* history: messages forwarded for a poll of another device
    refused       \* history: messages refused as stored already that were not

vars == <<inq, outq, client, dev, air, sends, restarts, waiting, answered, again,
          lastPoll, misled, refused>>
histories == <<answered, again, lastPoll, misled>>

Data(id, src, dst) ==
    [type |-> "data", id |-> id, src |-> src, dst |-> dst, port |-> Port[<<dst, src>>]]
PollFrame(c, tid, n, e) ==
    [type |-> "poll", src |-> c, tid |-> tid, n |-> n, addr |-> e, port |-> Port[<<c, e>>]]

DevInit(tid, polls) == [pc |-> "off", joined |-> FALSE, tid |-> tid, polls |-> polls]

Init ==
    /\ inq = QInit
    /\ outq = [s \in 1..SizeOutQ |-> NoFrame]
    /\ client = <<>>
    /\ \E tid \in [Clients -> FirstTids] : dev = [c \in Clients |-> DevInit(tid[c], 0)]
    /\ air = {}
    /\ sends = 0 /\ restarts = 0
    /\ waiting = <<>>
    /\ answered = {} /\ again = {}
    /\ lastPoll = [c \in Clients |-> 0]
    /\ misled = {} /\ refused = {}

-----------------------------------------------------------------------------
\* The polling devices.

\* SMPL_Init: nwk_join.
JoinSend(c) ==
    /\ dev[c].pc = "off"
    /\ dev' = [dev EXCEPT ![c].pc = "joining"]
    /\ air' = air \cup {[type |-> "join", src |-> c]}
    /\ UNCHANGED <<inq, outq, client, sends, restarts, waiting, refused>>
    /\ UNCHANGED histories

\* SMPL_Receive of the connection with e: nwk_poll.
Poll(c, e) ==
    LET n == dev[c].polls + 1
    IN  /\ dev[c].pc = "idle" /\ dev[c].joined
        /\ n <= MaxPolls
        /\ dev' = [dev EXCEPT ![c].pc = "listening", ![c].tid = After(@, 1), ![c].polls = n]
        /\ air' = air \cup {PollFrame(c, dev[c].tid, n, e)}
        /\ UNCHANGED <<inq, outq, client, sends, restarts, waiting, refused>>
        /\ UNCHANGED histories

\* The radio is on for NWK_REPLY_DELAY.
WaitOver(c) ==
    /\ dev[c].pc \in {"joining", "listening"}
    /\ dev' = [dev EXCEPT ![c].pc = "idle"]
    /\ UNCHANGED <<inq, outq, client, air, sends, restarts, waiting, refused>>
    /\ UNCHANGED histories

Joined(c, f) ==
    /\ f.type = "joined" /\ f.dst = c
    /\ dev' = [dev EXCEPT ![c].joined = @ \/ dev[c].pc = "joining"]
    /\ air' = air \ {f}
    /\ UNCHANGED <<inq, outq, client, sends, restarts, waiting, refused>>
    /\ UNCHANGED histories

\* The transaction id is random again; no frame of before outlives the restart.
Restart(c, tid) ==
    /\ restarts < MaxRestarts
    /\ restarts' = restarts + 1
    /\ dev' = [dev EXCEPT ![c] = DevInit(tid, @.polls)]
    /\ air' = {f \in air : f.src # c /\ (f.type = "joined" => f.dst # c)}
    /\ UNCHANGED <<inq, outq, client, sends, waiting, refused>>
    /\ UNCHANGED histories

-----------------------------------------------------------------------------
\* The others send; the access point keeps its own frames in the output queue,
\* in the first slot that is free.

Send(e, c) ==
    /\ sends < MaxSends
    /\ sends' = sends + 1
    /\ air' = air \cup {Data(sends', e, c)}
    /\ UNCHANGED <<inq, outq, client, dev, restarts, waiting, refused>>
    /\ UNCHANGED histories

IsClient(c) == \E i \in DOMAIN client : client[i].addr = c
Loc(c) == CHOOSE i \in DOMAIN client : client[i].addr = c

SendOwn(c) ==
    LET free == {s \in DOMAIN outq : outq[s] = NoFrame}
    IN  /\ sends < MaxSends
        /\ IsClient(c)
        /\ free # {}
        /\ sends' = sends + 1
        /\ outq' = [outq EXCEPT ![Min(free)] = Data(sends', AP, c)]
        /\ UNCHANGED <<inq, client, dev, air, restarts, waiting, refused>>
        /\ UNCHANGED histories

-----------------------------------------------------------------------------
\* The access point's receive interrupt.

Taken(f, answers) ==
    \E repeat \in {FALSE} \cup {f.type \in Repeated} :
        air' = (IF repeat THEN air ELSE air \ {f}) \cup answers

\* The frame in its slot, whose usage is still that of the frame cast out.
Received(f) == [Stamped(inq, SlotFound(inq)) EXCEPT ![SlotFound(inq)].frame = f]
Dispose(q, usage) == [q EXCEPT ![SlotFound(inq)].usage = usage]

\* What is left of the stored messages when a frame has taken its slot.
Left == IF SlotFound(inq) \in InUse(inq)
        THEN RemoveFirst(waiting, inq[SlotFound(inq)].frame) ELSE waiting

\* isDupSandFFrame.
IsDup(q, f) == \E s \in Slots : q[s].usage = "until_fwd" /\ q[s].frame = f

\* dispatchFrame: a frame for a client.
Store(f) ==
    LET q == Received(f)
    IN  /\ f.type = "data"
        /\ IsClient(f.dst)
        /\ inq' = Dispose(q, IF IsDup(q, f) THEN "available" ELSE "until_fwd")
        /\ waiting' = IF IsDup(q, f) THEN Left ELSE Append(Left, f)
        /\ refused' = IF IsDup(q, f) /\ ~Contains(waiting, f) THEN refused \cup {f} ELSE refused
        /\ Taken(f, {})
        /\ UNCHANGED <<outq, client, dev, sends, restarts>>
        /\ UNCHANGED histories

\* Not a client's, or forwarded already and echoed: it leaves its slot.
Pass(f) ==
    /\ (f.type = "data" /\ ~IsClient(f.dst)) \/ f.type = "fwd"
    /\ inq' = Dispose(Received(f), "available")
    /\ waiting' = Left
    /\ Taken(f, {})
    /\ UNCHANGED <<outq, client, dev, sends, restarts, refused>>
    /\ UNCHANGED histories

\* smpl_send_join_reply: a client that joins again has its transaction id taken
\* from its next poll.
\* Mutant: the marker stays.
JoinMarked(f) ==
    LET c == f.src
    IN  /\ f.type = "join"
        /\ inq' = Dispose(Received(f), "available")
        /\ waiting' = Left
        /\ client' = IF IsClient(c) THEN client
                     ELSE IF Len(client) < MaxClients
                          THEN Append(client, [addr |-> c, lastTID |-> 0, marker |-> FALSE])
                          ELSE client
        /\ Taken(f, IF IsClient(c) \/ Len(client) < MaxClients
                    THEN {[type |-> "joined", src |-> AP, dst |-> c]} ELSE {})
        /\ UNCHANGED <<outq, dev, sends, restarts, refused>>
        /\ UNCHANGED histories
Join(f) ==
    LET c == f.src
        room == IsClient(c) \/ Len(client) < MaxClients
    IN  /\ f.type = "join"
        /\ inq' = Dispose(Received(f), "available")
        /\ waiting' = Left
        /\ client' = IF IsClient(c) THEN [client EXCEPT ![Loc(c)].marker = FALSE]
                     ELSE IF room
                          THEN Append(client, [addr |-> c, lastTID |-> 0, marker |-> FALSE])
                          ELSE client
        /\ Taken(f, IF room THEN {[type |-> "joined", src |-> AP, dst |-> c]} ELSE {})
        /\ UNCHANGED <<outq, dev, sends, restarts, refused>>
        /\ UNCHANGED histories

\* send_poll_reply: is the poll a new one?
Accepts(f) == LET k == client[Loc(f.src)] IN ~k.marker \/ CheckTid(k.lastTID, f.tid)

IgnorePoll(f) ==
    /\ f.type = "poll"
    /\ ~IsClient(f.src) \/ ~Accepts(f)
    /\ inq' = Dispose(Received(f), "available")
    /\ waiting' = Left
    /\ Taken(f, {})
    /\ UNCHANGED <<outq, client, dev, sends, restarts, refused>>
    /\ UNCHANGED histories

\* nwk_QfindOldest for a poll: the destination is not compared.
\* Mutant: nor is the port.
PolledAnyPort(q, f) ==
    {s \in Slots : /\ q[s].usage = "until_fwd" /\ q[s].frame.type = "data"
                   /\ q[s].frame.src = f.addr}
Polled(q, f) ==
    {s \in Slots : /\ q[s].usage = "until_fwd" /\ q[s].frame.type = "data"
                   /\ q[s].frame.port = f.port /\ q[s].frame.src = f.addr}

\* The access point's own frames are looked for by destination and port.
Own(f) == {s \in DOMAIN outq : /\ outq[s] # NoFrame
                               /\ outq[s].dst = f.src /\ outq[s].port = f.port}

AnswerPoll(f, m) ==
    /\ client' = [client EXCEPT ![Loc(f.src)].lastTID = f.tid, ![Loc(f.src)].marker = TRUE]
    /\ Taken(f, IF m = NoFrame THEN {} ELSE {[m EXCEPT !.type = "fwd"]})
    /\ answered' = answered \cup {<<f.src, f.n>>}
    /\ again' = again \cup ({<<f.src, f.n>>} \cap answered)
    /\ lastPoll' = [lastPoll EXCEPT ![f.src] = f.n]
    /\ UNCHANGED <<dev, sends, restarts, refused>>

\* nwk_getSandFFrame finds a frame in the input queue, ...
\* Mutant: the first one in the array.
ForwardFirst(f) ==
    LET q == Received(f)
        S == Polled(q, f)
        s == Min(S)
    IN  /\ f.type = "poll" /\ IsClient(f.src) /\ Accepts(f)
        /\ S # {}
        /\ inq' = [Dispose(AdjustOrder(q, q[s].stamp), "available") EXCEPT ![s].usage = "available"]
        /\ waiting' = RemoveFirst(Left, q[s].frame)
        /\ misled' = IF q[s].frame.dst = f.src THEN misled ELSE misled \cup {q[s].frame}
        /\ AnswerPoll(f, q[s].frame)
        /\ UNCHANGED outq
Forward(f) ==
    LET q == Received(f)
        S == Polled(q, f)
        s == OldestOf(q, S)
    IN  /\ f.type = "poll" /\ IsClient(f.src) /\ Accepts(f)
        /\ S # {}
        /\ inq' = [Dispose(AdjustOrder(q, q[s].stamp), "available") EXCEPT ![s].usage = "available"]
        /\ waiting' = RemoveFirst(Left, q[s].frame)
        /\ misled' = IF q[s].frame.dst = f.src THEN misled ELSE misled \cup {q[s].frame}
        /\ AnswerPoll(f, q[s].frame)
        /\ UNCHANGED outq

\* ... or in the output queue, whose frames have the stamp 0, and the stamps of
\* the input queue are adjusted all the same, ...
ForwardOwn(f) ==
    LET q == Received(f)
        S == Own(f)
    IN  /\ f.type = "poll" /\ IsClient(f.src) /\ Accepts(f)
        /\ Polled(q, f) = {}
        /\ S # {}
        /\ inq' = Dispose(AdjustOrder(q, 0), "available")
        /\ waiting' = Left
        /\ outq' = [outq EXCEPT ![Min(S)] = NoFrame]
        /\ AnswerPoll(f, outq[Min(S)])
        /\ UNCHANGED misled

\* ... or none: an empty frame is the answer.
ForwardNone(f) ==
    LET q == Received(f)
    IN  /\ f.type = "poll" /\ IsClient(f.src) /\ Accepts(f)
        /\ Polled(q, f) = {} /\ Own(f) = {}
        /\ inq' = Dispose(q, "available")
        /\ waiting' = Left
        /\ AnswerPoll(f, NoFrame)
        /\ UNCHANGED <<outq, misled>>

\* The frame is lost, or for a device that needs no model of its own.
Lose(f) ==
    /\ air' = air \ {f}
    /\ UNCHANGED <<inq, outq, client, dev, sends, restarts, waiting, refused>>
    /\ UNCHANGED histories

ReceiveISR(f) ==
    \/ Store(f) \/ Pass(f) \/ Join(f)
    \/ IgnorePoll(f) \/ Forward(f) \/ ForwardOwn(f) \/ ForwardNone(f)

\* The air does not hold a poll back longer than this many later ones.
Behind(f) == f.type = "poll" => dev[f.src].polls - f.n <= Window + 1

Next ==
    \/ \E c \in Clients : JoinSend(c) \/ WaitOver(c)
    \/ \E c \in Clients, e \in Senders \cup {AP} : Poll(c, e)
    \/ \E c \in Clients, f \in air : Joined(c, f)
    \/ \E c \in Clients, tid \in FirstTids : Restart(c, tid)
    \/ \E e \in Senders, c \in Clients : Send(e, c)
    \/ OwnSends /\ \E c \in Clients : SendOwn(c)
    \/ \E f \in air : Behind(f) /\ ReceiveISR(f)
    \/ \E f \in air : Lose(f)

Spec == Init /\ [][Next]_vars

-----------------------------------------------------------------------------
Messages == {Data(i, e, c) : i \in 1..MaxSends, e \in Senders \cup {AP}, c \in Clients}

TypeOK ==
    /\ \A s \in Slots : /\ inq[s].usage \in {"available", "until_fwd"}
                        /\ inq[s].stamp \in 0..SizeQ
                        /\ inq[s].usage = "until_fwd" => inq[s].frame \in Messages
    /\ \A s \in DOMAIN outq : outq[s] \in Messages \cup {NoFrame}
    /\ client \in Seq([addr : Clients, lastTID : Tids, marker : BOOLEAN])
    /\ Len(client) <= MaxClients
    /\ dev \in [Clients -> [pc : {"off", "idle", "joining", "listening"}, joined : BOOLEAN,
                            tid : Tids, polls : 0..MaxPolls]]

\* The messages waiting are exactly those stored and neither forwarded nor cast
\* out, each in one slot, however often it is repeated on the air.
WaitingStored ==
    /\ ToSet(waiting) = {inq[s].frame : s \in InUse(inq)}
    /\ Len(waiting) = Cardinality(InUse(inq))

\* A client gets the messages of one peer in the order in which they came.
SameLink(m, n) == m.src = n.src /\ m.dst = n.dst
ForwardsOldest ==
    \A j \in DOMAIN waiting :
        [waiting[j] EXCEPT !.type = "fwd"] \in air' \ air =>
            \A i \in 1..j - 1 : SameLink(waiting[i], waiting[j]) =>
                ~Contains(waiting', waiting[i])
InOrder == [][ForwardsOldest]_vars

\* The transaction ids tell a poll that is new, though polls before it were
\* lost, from one that is late, also across the wrap and after a restart.
AcceptsExactlyNew ==
    \A f \in air :
        f.type = "poll" /\ IsClient(f.src) /\ client[Loc(f.src)].marker =>
            LET n == lastPoll[f.src]
            IN  /\ f.n \in n + 1..n + Window + 1 => Accepts(f)
                /\ f.n \in n - Window - 1..n => ~Accepts(f)

\* "If we've seen this poll frame before ignore it." (nwk_mgmt.c:244)
AnsweredOnce == again = {}

\* "Get any frame waiting for the client" (nwk_frame.c:804): no other client's.
OwnFramesOnly == misled = {}

\* "this adjustment is safe" (nwk_mgmt.c:258): the stamps tell which message has
\* waited longer.
\* The code breaks it: README, section 5.
AdjustmentSafe ==
    \A s, r \in InUse(inq) : \A i, j \in DOMAIN waiting :
        waiting[i] = inq[s].frame /\ waiting[j] = inq[r].frame /\ i < j =>
            inq[s].stamp < inq[r].stamp

\* "Have we already stored this frame on behalf of a client?"
\* (nwk_frame.c:912): a frame is refused only if it is stored.
\* The code breaks it: README, section 5.
RefusedIsStored == refused = {}
=============================================================================
