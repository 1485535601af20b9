-------------------------------- MODULE Link --------------------------------
(***************************************************************************)
(* Linking two devices (nwk_link.c, SMPL_Link, SMPL_LinkListen and, in the *)
(* EXTENDED_API build, SMPL_Unlink).  Each device has one thread in the    *)
(* API, which holds the guard, and the receive interrupt, which answers    *)
(* link requests while the thread works on the same table.  A frame with a *)
(* wrong token or version is ignored and stands with the lost ones.        *)
(***************************************************************************)
EXTENDS Connections, Sequences

CONSTANTS
    Devices,
    Linkers, Listeners, Unlinkers, Restarters,   \* who makes which calls
    Tids,         \* the transaction ids in use: 1..n
    SizeQ,        \* SIZE_INFRAME_Q
    Duplicates,   \* the air may deliver a frame twice (a range extender)
    Late,         \* a reply may come after the time it is waited for
    MaxCalls      \* bound on the calls of all devices

VARIABLES
    dev,       \* per device: table, listen, service, num, tid, inq
    thread,    \* per device: where its thread is
    air,       \* the frames sent and not received yet
    calls,
    held,      \* history, per device: link ids the application has
    leaked,    \* history, per device: ids of requests that could not be sent
    dropped,   \* history: pairs <<d, e>>, d gave up a connection with e
    raced      \* history: devices interrupted in the window of PollTake

vars == <<dev, thread, air, calls, held, leaked, dropped, raced>>

Idle == [pc |-> "idle", conn |-> 0]

DeviceInit(tid) ==
    [table |-> TableInit, listen |-> FALSE, num |-> 0, tid |-> tid, inq |-> <<>>,
     service |-> [i \in ConnIdx |-> 0]]

Init ==
    /\ \E tid \in [Devices -> Tids] : dev = [d \in Devices |-> DeviceInit(tid[d])]
    /\ thread = [d \in Devices |-> Idle]
    /\ air = {}
    /\ calls = 0
    /\ held = [d \in Devices |-> {}]
    /\ leaked = [d \in Devices |-> {}]
    /\ dropped = {}
    /\ raced = {}

Frame(type, src, dst, tid, port) ==
    [type |-> type, src |-> src, dst |-> dst, tid |-> tid, port |-> port]

\* ++sTid, skipping 0.
NextTid(tid) == IF tid + 1 \in Tids THEN tid + 1 ELSE 1

Call(d) == thread[d] = Idle /\ calls < MaxCalls /\ calls' = calls + 1
Goto(d, pc, c) == thread' = [thread EXCEPT ![d] = [pc |-> pc, conn |-> c]]

\* The wait for a reply ends while it may still come only if it may be late.
WaitOver(d) == Late \/ \A m \in air : d \notin {m.src, m.dst}

-----------------------------------------------------------------------------
\* nwk_link.

\* The request goes to every device, or the channel is busy: then nwk_link
\* returns with the connection still in use.
LinkSend(d, sent) ==
    LET c == NextConnection(dev[d].table)
        t == AskForLink(dev[d].table)
    IN  /\ Call(d)
        /\ c # 0
        /\ dev' = [dev EXCEPT ![d].table = t]
        /\ IF t.conn[c].used /\ sent
           THEN /\ air' = air \cup {Frame("link", d, e, dev[d].tid, t.conn[c].portRx) :
                                        e \in Devices \ {d}}
                /\ Goto(d, "linking", c)
                /\ UNCHANGED leaked
           ELSE /\ leaked' = IF t.conn[c].used
                             THEN [leaked EXCEPT ![d] = @ \cup {t.conn[c].lid}] ELSE leaked
                /\ UNCHANGED <<air, thread>>
        /\ UNCHANGED <<held, dropped, raced>>

\* The oldest frame on the link port is taken for the reply.
LinkReplied(d) ==
    LET c == thread[d].conn
        m == Head(dev[d].inq)
    IN  /\ thread[d].pc = "linking"
        /\ dev[d].inq # <<>>
        /\ m.type = "reply"
        /\ dev' = [dev EXCEPT ![d].inq = Tail(@), ![d].table.conn[c].peer = m.src,
                              ![d].table.conn[c].portTx = m.port, ![d].tid = NextTid(@)]
        /\ held' = [held EXCEPT ![d] = @ \cup {dev[d].table.conn[c].lid}]
        /\ Goto(d, "idle", 0)
        /\ UNCHANGED <<air, calls, leaked, dropped, raced>>

\* It is no link reply (SMPL_NO_LINK); its sender has been written already.
LinkRefused(d) ==
    LET c == thread[d].conn
        m == Head(dev[d].inq)
    IN  /\ thread[d].pc = "linking"
        /\ dev[d].inq # <<>>
        /\ m.type # "reply"
        /\ dev' = [dev EXCEPT ![d].inq = Tail(@), ![d].table.conn[c].peer = m.src,
                              ![d].table.conn[c].used = FALSE]
        /\ Goto(d, "idle", 0)
        /\ UNCHANGED <<air, calls, held, leaked, dropped, raced>>

LinkTimesOut(d) ==
    /\ thread[d].pc = "linking"
    /\ dev[d].inq = <<>>
    /\ WaitOver(d)
    /\ dev' = [dev EXCEPT ![d].table = FreeConnection(@, thread[d].conn)]
    /\ Goto(d, "idle", 0)
    /\ UNCHANGED <<air, calls, held, leaked, dropped, raced>>

-----------------------------------------------------------------------------
\* SMPL_LinkListen.

Listen(d) ==
    /\ Call(d)
    /\ dev' = [dev EXCEPT ![d].listen = TRUE]
    /\ Goto(d, "polling", 0)
    /\ UNCHANGED <<air, held, leaked, dropped, raced>>

\* nwk_getLocalLinkID, the critical section: the count alone.
PollTake(d) ==
    /\ thread[d].pc = "polling"
    /\ dev[d].num > 0
    /\ dev' = [dev EXCEPT ![d].num = @ - 1]
    /\ Goto(d, "off", 0)
    /\ UNCHANGED <<air, calls, held, leaked, dropped, raced>>

\* Then listening ends, ...
PollOff(d) ==
    /\ thread[d].pc = "off"
    /\ dev' = [dev EXCEPT ![d].listen = FALSE]
    /\ Goto(d, "take", 0)
    /\ UNCHANGED <<air, calls, held, leaked, dropped, raced>>

\* ... the first id is taken and the others move up; the slot behind the array
\* may be read.  No id, 0, lets SMPL_LinkListen poll on.
\* Mutant: the others stay where they are.
PollIdUnshifted(d) ==
    LET lid == dev[d].service[1]
    IN  /\ thread[d].pc = "take"
        /\ held' = [held EXCEPT ![d] = @ \cup ({lid} \ {0})]
        /\ Goto(d, IF lid = 0 THEN "polling" ELSE "idle", 0)
        /\ UNCHANGED <<dev, air, calls, leaked, dropped, raced>>
PollId(d) ==
    LET lid == dev[d].service[1]
        num == dev[d].num
    IN  /\ thread[d].pc = "take"
        /\ \E beyond \in IF num = NumConnections THEN LinkIds ELSE {0} :
             dev' = [dev EXCEPT ![d].service =
                       [i \in ConnIdx |-> IF i > num THEN @[i]
                                          ELSE IF i < NumConnections THEN @[i + 1]
                                          ELSE beyond]]
        /\ held' = [held EXCEPT ![d] = @ \cup ({lid} \ {0})]
        /\ Goto(d, IF lid = 0 THEN "polling" ELSE "idle", 0)
        /\ UNCHANGED <<air, calls, leaked, dropped, raced>>

\* The last poll finds nothing; listening ends after one more delay.
PollGivesUp(d) ==
    /\ thread[d].pc = "polling"
    /\ dev[d].num = 0
    /\ Goto(d, "timeout", 0)
    /\ UNCHANGED <<dev, air, calls, held, leaked, dropped, raced>>

ListenTimesOut(d) ==
    /\ thread[d].pc = "timeout"
    /\ dev' = [dev EXCEPT ![d].listen = FALSE]
    /\ Goto(d, "idle", 0)
    /\ UNCHANGED <<air, calls, held, leaked, dropped, raced>>

-----------------------------------------------------------------------------
\* nwk_unlink; whether the request is sent makes no difference to it.

Unlink(d, lid, sent) ==
    LET c == ConnOf(dev[d].table, lid)
        conn == dev[d].table.conn[c]
    IN  /\ Call(d)
        /\ lid \in held[d]
        /\ c # 0
        /\ conn.portTx # 0
        /\ air' = IF sent THEN air \cup {Frame("unlink", d, conn.peer, dev[d].tid, conn.portRx)}
                  ELSE air
        /\ Goto(d, "unlinking", c)
        /\ dropped' = dropped \cup {<<d, conn.peer>>}
        /\ UNCHANGED <<dev, held, leaked, raced>>

\* A frame on the link port: the answer, or something to be passed over.
UnlinkRead(d) ==
    LET c == thread[d].conn
        done == Head(dev[d].inq).type = "unlinked"
    IN  /\ thread[d].pc = "unlinking"
        /\ dev[d].inq # <<>>
        /\ dev' = [dev EXCEPT ![d].inq = Tail(@),
                              ![d].table = IF done THEN FreeConnection(@, c) ELSE @]
        /\ held' = IF done THEN [held EXCEPT ![d] = @ \ {dev[d].table.conn[c].lid}] ELSE held
        /\ IF done THEN Goto(d, "idle", 0) ELSE UNCHANGED thread
        /\ UNCHANGED <<air, calls, leaked, dropped, raced>>

UnlinkTimesOut(d) ==
    LET c == thread[d].conn
    IN  /\ thread[d].pc = "unlinking"
        /\ dev[d].inq = <<>>
        /\ WaitOver(d)
        /\ dev' = [dev EXCEPT ![d].table = FreeConnection(@, c)]
        /\ held' = [held EXCEPT ![d] = @ \ {dev[d].table.conn[c].lid}]
        /\ Goto(d, "idle", 0)
        /\ UNCHANGED <<air, calls, leaked, dropped, raced>>

-----------------------------------------------------------------------------
\* The receive interrupt: nwk_processLink, handleLinkRequest.

\* The frame leaves the air, or a copy of it is still to come.
Received(m, answers) ==
    \E again \in IF Duplicates THEN BOOLEAN ELSE {FALSE} :
        air' = (IF again THEN air ELSE air \ {m}) \cup answers

\* smpl_send_link_reply: a request seen before is answered as before.
\* Mutant: the two ports of the connection are mixed up.
AnswerSwapped(d, m) ==
    LET c == ConnTo(dev[d].table, m.src, m.port)
    IN  /\ m.type = "link" /\ m.dst = d
        /\ c # 0
        /\ Received(m, {Frame("reply", d, m.src, m.tid, dev[d].table.conn[c].portTx)})
        /\ UNCHANGED <<dev, thread, calls, held, leaked, dropped, raced>>
Answer(d, m) ==
    LET c == ConnTo(dev[d].table, m.src, m.port)
    IN  /\ m.type = "link" /\ m.dst = d
        /\ c # 0
        /\ Received(m, {Frame("reply", d, m.src, m.tid, dev[d].table.conn[c].portRx)})
        /\ UNCHANGED <<dev, thread, calls, held, leaked, dropped, raced>>

\* A new one is answered while listening, if there is room.
Seen(d, m) == ConnTo(dev[d].table, m.src, m.port) # 0

Accept(d, m) ==
    LET c == NextConnection(dev[d].table)
        t == AcceptLink(dev[d].table, m.src, m.port)
    IN  /\ m.type = "link" /\ m.dst = d
        /\ ~Seen(d, m)
        /\ dev[d].listen
        /\ c # 0
        /\ IF t.conn[c].used /\ dev[d].num < NumConnections
           THEN /\ dev' = [dev EXCEPT ![d].table = t, ![d].num = @ + 1,
                             ![d].service[dev[d].num + 1] = t.conn[c].lid]
                /\ Received(m, {Frame("reply", d, m.src, m.tid, t.conn[c].portRx)})
           ELSE /\ dev' = [dev EXCEPT ![d].table = FreeConnection(t, c)]
                /\ Received(m, {})
        /\ raced' = IF thread[d].pc = "off" THEN raced \cup {d} ELSE raced
        /\ UNCHANGED <<thread, calls, held, leaked, dropped>>

Ignore(d, m) ==
    /\ m.type = "link" /\ m.dst = d
    /\ ~Seen(d, m)
    /\ ~dev[d].listen \/ NextConnection(dev[d].table) = 0
    /\ Received(m, {})
    /\ UNCHANGED <<dev, thread, calls, held, leaked, dropped, raced>>

\* smpl_send_unlink_reply.
Unlinked(d, m) ==
    LET c == ConnTo(dev[d].table, m.src, m.port)
    IN  /\ m.type = "unlink" /\ m.dst = d
        /\ dev' = IF c = 0 THEN dev
                  ELSE [dev EXCEPT ![d].table = FreeConnection(@, c)]
        /\ held' = IF c = 0 THEN held
                   ELSE [held EXCEPT ![d] = @ \ {dev[d].table.conn[c].lid}]
        /\ Received(m, {Frame("unlinked", d, m.src, m.tid, 0)})
        /\ UNCHANGED <<thread, calls, leaked, dropped, raced>>

\* A reply with the current transaction id is kept, whether or not anyone waits
\* for it; the oldest is cast out when the queue is full.
IsMyReply(d, m) == m.tid = dev[d].tid

Reply(d, m) ==
    LET kept == Append(dev[d].inq, m)
    IN  /\ m.type \in {"reply", "unlinked"} /\ m.dst = d
        /\ dev' = IF ~IsMyReply(d, m) THEN dev
                  ELSE [dev EXCEPT ![d].inq = IF Len(kept) > SizeQ THEN Tail(kept) ELSE kept]
        /\ Received(m, {})
        /\ UNCHANGED <<thread, calls, held, leaked, dropped, raced>>

-----------------------------------------------------------------------------
Lose(m) ==
    /\ air' = air \ {m}
    /\ UNCHANGED <<dev, thread, calls, held, leaked, dropped, raced>>

\* The battery is changed: nwk_nwkInit, with a random transaction id.  No frame
\* of before outlives it.
Restart(d, tid) ==
    /\ calls < MaxCalls
    /\ calls' = calls + 1
    /\ dev' = [dev EXCEPT ![d] = DeviceInit(tid)]
    /\ thread' = [thread EXCEPT ![d] = Idle]
    /\ air' = {m \in air : d \notin {m.src, m.dst}}
    /\ held' = [held EXCEPT ![d] = {}]
    /\ leaked' = [leaked EXCEPT ![d] = {}]
    /\ dropped' = dropped \cup ({d} \X Devices)
    /\ raced' = raced \ {d}

Thread(d) ==
    \/ d \in Linkers /\ \E sent \in BOOLEAN : LinkSend(d, sent)
    \/ LinkReplied(d) \/ LinkRefused(d) \/ LinkTimesOut(d)
    \/ d \in Listeners /\ Listen(d)
    \/ PollTake(d) \/ PollOff(d) \/ PollId(d) \/ PollGivesUp(d) \/ ListenTimesOut(d)
    \/ d \in Unlinkers /\ \E lid \in LinkIds, sent \in BOOLEAN : Unlink(d, lid, sent)
    \/ UnlinkRead(d) \/ UnlinkTimesOut(d)

Interrupt(d, m) == Answer(d, m) \/ Accept(d, m) \/ Ignore(d, m) \/ Unlinked(d, m) \/ Reply(d, m)

Next ==
    \/ \E d \in Devices : Thread(d)
    \/ \E d \in Devices, m \in air : Interrupt(d, m)
    \/ \E m \in air : Lose(m)
    \/ \E d \in Restarters, tid \in Tids : Restart(d, tid)

Spec == Init /\ [][Next]_vars

-----------------------------------------------------------------------------
Frames ==
    [type : {"link", "reply", "unlink", "unlinked"}, src : Devices, dst : Devices,
     tid : Tids, port : 0..PortMax]

TypeOK ==
    /\ \A d \in Devices :
        /\ dev[d].tid \in Tids
        /\ dev[d].num \in 0..NumConnections
        /\ dev[d].service \in [ConnIdx -> {0} \cup LinkIds]
        /\ dev[d].inq \in Seq(Frames) /\ Len(dev[d].inq) <= SizeQ
        /\ thread[d].pc \in {"idle", "linking", "polling", "off", "take", "timeout",
                             "unlinking"}
        /\ thread[d].pc \in {"linking", "unlinking"} => thread[d].conn \in ConnIdx
        /\ held[d] \subseteq LinkIds
    /\ air \subseteq Frames

\* The interrupt takes connections only while the thread listens: nwk_link works
\* on the table without a critical section.
ListensOnlyInCall ==
    \A d \in Devices : dev[d].listen => thread[d].pc \in {"polling", "off", "timeout"}

\* The ids of accepted links that a LinkListen will still hand out.
Waiting(d) ==
    {dev[d].service[i] : i \in 1..Min({NumConnections,
        dev[d].num + IF thread[d].pc \in {"off", "take"} THEN 1 ELSE 0})}

\* "Age any existing entries" (nwk_link.c:756): every connection in the table
\* has an owner: an application has its id, a LinkListen will return it, or a
\* request is under way.
Owned(d) ==
    \A c \in Connected(dev[d].table) :
        \/ dev[d].table.conn[c].lid \in held[d] \cup Waiting(d) \cup leaked[d]
        \/ thread[d].pc = "linking" /\ thread[d].conn = c
NoneForgotten == \A d \in Devices : Owned(d)

\* The same, but for a second request that comes between the two steps of
\* nwk_getLocalLinkID that take the first.
NoneForgottenQuietly == \A d \in Devices : d \in raced \/ Owned(d)

\* However late or often a reply comes, a link is concluded with a device that
\* has a connection for this one, and messages go to a port of that connection;
\* unless one of the two gave up a connection with the other before.
PeerKnows ==
    \A d \in Linkers : \A c \in Connected(dev[d].table) :
        LET conn == dev[d].table.conn[c]
        IN  conn.portTx # 0 /\ conn.lid \in held[d] =>
              \/ {<<conn.peer, d>>, <<d, conn.peer>>} \cap dropped # {}
              \/ Accepting(dev[conn.peer].table, d, conn.portTx) # {}

\* A concluded link has its mate: the peer has a connection with this device,
\* each sends to the port the other receives on; unless the peer gave one up,
\* or this one is being given up.
\* Restarts of the linking device and repeated requests do no harm.
Agreed(d) ==
    \A c \in Connected(dev[d].table) :
        LET conn == dev[d].table.conn[c]
        IN  conn.portRx > dev[d].table.nextLinkPort /\ conn.portTx # 0 =>
              \/ <<conn.peer, d>> \in dropped
              \/ thread[d].pc = "unlinking" /\ thread[d].conn = c
              \/ \E k \in Connected(dev[conn.peer].table) :
                    LET mate == dev[conn.peer].table.conn[k]
                    IN  mate.peer = d /\ mate.portTx = conn.portRx
                                      /\ mate.portRx = conn.portTx
LinksAgree == \A d \in Devices : Agreed(d)
=============================================================================
