------------------------------ MODULE Channels ------------------------------
(***************************************************************************)
(* Changing channels (nwk_freq.c, the FREQUENCY_AGILITY build).  An access *)
(* point orders a MOVE twice and then moves; clients and range extenders   *)
(* obey in their receive interrupt, whatever their thread is doing; who    *)
(* has missed it scans: a ping on every channel, the own one restored, the *)
(* channel found set by the application.                                   *)
(***************************************************************************)
EXTENDS Naturals, Sequences, FiniteSets

CONSTANTS
    APs,
    Clients,      \* end devices and range extenders
    Extenders,    \* the range extenders among them
    Scanners,     \* the clients that scan
    Knows,        \* the access point a client has joined, or NoAp
    NoAp,
    Hears,        \* pairs <<sender, receiver>> in radio range of one another
    TableSize,    \* NWK_FREQ_TBL_SIZE
    Tids,         \* the transaction ids: 0 .. n-1, a byte in the code
    MaxHops,      \* MAX_HOPS_FROM_AP
    SizeQ,        \* SIZE_INFRAME_Q
    MaxMoves,     \* bound on the moves of all access points
    MaxLost,      \* bound on the frames lost
    MaxIdle       \* bound on the scans of those who need none

Devices == APs \cup Clients
Channel == 0 .. TableSize - 1

ASSUME ChannelsAssumption ==
    /\ Extenders \cup Scanners \subseteq Clients
    /\ Knows \in [Clients -> APs \cup {NoAp}]
    /\ Hears \subseteq Devices \X Devices

VARIABLES
    chan,      \* sCurLogicalChan, per device
    tid,       \* sTid, per client
    inq,       \* per client: the senders of the replies kept, oldest first
    thread,    \* per device
    air,       \* frames sent and not received yet, one for each who may hear it
    moves, lost, needless,
    told,      \* history, per client: the channel last ordered or set
    heard,     \* history, per client: channels a reply came from in this scan
    missed     \* history: clients whose scan saw a loss or a move

vars == <<chan, tid, inq, thread, air, moves, lost, needless, told, heard, missed>>

Idle == [pc |-> "idle", i |-> 0, saved |-> 0, found |-> {}]

Init ==
    /\ chan = [d \in Devices |-> 0]
    /\ tid \in [Clients -> Tids]
    /\ inq = [c \in Clients |-> <<>>]
    /\ thread = [d \in Devices |-> Idle]
    /\ air = {}
    /\ moves = 0 /\ lost = 0 /\ needless = 0
    /\ told = [c \in Clients |-> 0]
    /\ heard = [c \in Clients |-> {}]
    /\ missed = {}

\* A frame from src for dst (a device or "all"), in the air from via to each
\* device in range that listens on the sender's channel.
Frames(via, m) ==
    {[m EXCEPT !.via = via, !.to = p[2], !.on = chan[via]] :
        p \in {q \in Hears : q[1] = via /\ chan[q[2]] = chan[via]}}

Frame(type, src, dst, data) ==
    [type |-> type, src |-> src, dst |-> dst, data |-> data, hops |-> MaxHops,
     via |-> src, to |-> src, on |-> 0]

\* nwk_replayFrame, what it sends.
Replayed(d, m) ==
    IF d \in Extenders /\ m.hops > 0 THEN Frames(d, [m EXCEPT !.hops = @ - 1]) ELSE {}

\* Every frame sent on behalf of d is received or lost before a wait ends.
Settled(d) == \A m \in air : d \notin {m.src, m.dst} /\ (m.dst = "all" => d # m.to)

-----------------------------------------------------------------------------
\* freqControl(SET) of an access point, broadcast_channel_change: the MOVE, ...
Move(a, k) ==
    /\ thread[a] = Idle
    /\ moves < MaxMoves
    /\ moves' = moves + 1
    /\ air' = air \cup Frames(a, Frame("move", a, "all", k))
    /\ thread' = [thread EXCEPT ![a].pc = "moving", ![a].i = k]
    /\ missed' = missed \cup Clients
    /\ UNCHANGED <<chan, tid, inq, lost, needless, told, heard>>

\* ... 250 ms later, longer than a frame or the way to a ping takes, the same
\* again, and then nwk_setChannel.
Moved(a) ==
    /\ thread[a].pc = "moving"
    /\ Settled(a)
    /\ \A c \in Clients : thread[c].pc # "ping"
    /\ air' = air \cup Frames(a, Frame("move", a, "all", thread[a].i))
    /\ thread' = [thread EXCEPT ![a] = Idle]
    /\ chan' = [chan EXCEPT ![a] = thread[a].i]
    /\ missed' = missed \cup Clients
    /\ UNCHANGED <<tid, inq, moves, lost, needless, told, heard>>

Together(c) == thread[c] = Idle /\ chan[c] = chan[Knows[c]]

-----------------------------------------------------------------------------
\* nwk_scanForChannels.
ScanStart(c) ==
    /\ thread[c] = Idle
    /\ IF Knows[c] # NoAp /\ ~Together(c)
       THEN UNCHANGED needless
       ELSE needless < MaxIdle /\ needless' = needless + 1
    /\ thread' = [thread EXCEPT ![c] = [pc |-> "tune", i |-> 0, saved |-> chan[c],
                                        found |-> {}]]
    /\ heard' = [heard EXCEPT ![c] = {}]
    /\ missed' = IF (\A a \in APs : thread[a] = Idle) /\ \A m \in air : m.type # "move"
                 THEN missed \ {c} ELSE missed
    /\ UNCHANGED <<chan, tid, inq, air, moves, lost, told>>

ScanTune(c) ==
    /\ thread[c].pc = "tune"
    /\ chan' = [chan EXCEPT ![c] = thread[c].i]
    /\ thread' = [thread EXCEPT ![c].pc = "ping"]
    /\ UNCHANGED <<tid, inq, air, moves, lost, needless, told, heard, missed>>

ScanPing(c) ==
    /\ thread[c].pc = "ping"
    /\ air' = air \cup Frames(c, Frame("ping", c,
                                 IF Knows[c] = NoAp THEN "all" ELSE Knows[c], tid[c]))
    /\ thread' = [thread EXCEPT ![c].pc = "wait"]
    /\ UNCHANGED <<chan, tid, inq, moves, lost, needless, told, heard, missed>>

\* The oldest reply kept; a reply ends the wait early, otherwise the time is up.
\* Mutant: whether there is a reply at all is not tested.
ScanReadAlways(c) ==
    /\ thread[c].pc = "wait"
    /\ inq[c] # <<>> \/ Settled(c)
    /\ inq' = [inq EXCEPT ![c] = IF @ = <<>> THEN @ ELSE Tail(@)]
    /\ thread' = [thread EXCEPT ![c].pc = "next", ![c].found = @ \cup {thread[c].i}]
    /\ UNCHANGED <<chan, tid, air, moves, lost, needless, told, heard, missed>>
ScanRead(c) ==
    /\ thread[c].pc = "wait"
    /\ inq[c] # <<>> \/ Settled(c)
    /\ inq' = [inq EXCEPT ![c] = IF @ = <<>> THEN @ ELSE Tail(@)]
    /\ thread' = [thread EXCEPT ![c].pc = "next",
          ![c].found = @ \cup {i \in {thread[c].i} :
                inq[c] # <<>> /\ Knows[c] \in {NoAp, Head(inq[c])}}]
    /\ UNCHANGED <<chan, tid, air, moves, lost, needless, told, heard, missed>>

\* The known access point is found, or the table is at its end.
\* Mutants: the last channel is left out; the end is not tested.
ScanEndsEarly(c) == thread[c].i + 2 = TableSize
ScanEnds(c) == thread[c].i + 1 = TableSize \/ (thread[c].found # {} /\ Knows[c] # NoAp)

\* ++sTid, and the next channel.
ScanNext(c) ==
    /\ thread[c].pc = "next"
    /\ tid' = [tid EXCEPT ![c] = (@ + 1) % Cardinality(Tids)]
    /\ IF ScanEnds(c)
       THEN /\ chan' = [chan EXCEPT ![c] = thread[c].saved]
            /\ thread' = [thread EXCEPT ![c].pc = "done"]
       ELSE /\ thread' = [thread EXCEPT ![c].pc = "tune", ![c].i = @ + 1]
            /\ UNCHANGED chan
    /\ UNCHANGED <<inq, air, moves, lost, needless, told, heard, missed>>

\* The application sets a channel found, or stays where it is.
SetFound(c) ==
    /\ thread[c].pc = "done"
    /\ \/ \E k \in thread[c].found : /\ chan' = [chan EXCEPT ![c] = k]
                                     /\ told' = [told EXCEPT ![c] = k]
       \/ thread[c].found = {} /\ UNCHANGED <<chan, told>>
    /\ thread' = [thread EXCEPT ![c] = Idle]
    /\ UNCHANGED <<tid, inq, air, moves, lost, needless, heard, missed>>

-----------------------------------------------------------------------------
\* nwk_processFreq, in the receive interrupt of m.to.
Gone(m) == air \ {m}

\* An access point answers every ping, whoever it is for.
AnswerPing(m) ==
    /\ m.type = "ping"
    /\ m.to \in APs
    /\ m.on = chan[m.to]
    /\ air' = Gone(m) \cup Frames(m.to, Frame("reply", m.to, m.src, m.data))
    /\ UNCHANGED <<chan, tid, inq, thread, moves, lost, needless, told, heard, missed>>

\* A reply to the ping of now is kept; a full queue casts out its oldest.
KeepReply(m) ==
    LET c == m.to
        q == IF Len(inq[c]) = SizeQ THEN Tail(inq[c]) ELSE inq[c]
    IN  /\ m.type = "reply"
        /\ c \in Clients
        /\ m.on = chan[c]
        /\ m.dst = c /\ m.data = tid[c]
        /\ inq' = [inq EXCEPT ![c] = Append(q, m.src)]
        /\ heard' = [heard EXCEPT ![c] = @ \cup {chan[c]}]
        /\ air' = Gone(m)
        /\ UNCHANGED <<chan, tid, thread, moves, lost, needless, told, missed>>

\* change_channel_cmd_is_valid, change_channel_cmd; an extender replays first.
\* Mutant: the sender is not compared with the own access point.
ObeyAny(m) ==
    /\ m.type = "move"
    /\ m.to \in Clients
    /\ m.on = chan[m.to]
    /\ chan' = [chan EXCEPT ![m.to] = m.data]
    /\ told' = [told EXCEPT ![m.to] = m.data]
    /\ air' = Gone(m) \cup Replayed(m.to, m)
    /\ missed' = missed \cup {m.to}
    /\ UNCHANGED <<tid, inq, thread, moves, lost, needless, heard>>
Obey(m) ==
    /\ m.type = "move"
    /\ m.to \in Clients
    /\ m.on = chan[m.to]
    /\ Knows[m.to] = m.src
    /\ chan' = [chan EXCEPT ![m.to] = m.data]
    /\ told' = [told EXCEPT ![m.to] = m.data]
    /\ air' = Gone(m) \cup Replayed(m.to, m)
    /\ missed' = missed \cup {m.to}
    /\ UNCHANGED <<tid, inq, thread, moves, lost, needless, heard>>

\* Everything else: the own frames, pings at clients, the replies of others,
\* the orders of foreign access points; an extender passes them on.
Other(m) ==
    \/ m.src = m.to
    \/ m.type = "ping" <=> m.to \in Clients
    \/ m.type = "reply" /\ m.dst # m.to
    \/ m.type = "reply" /\ m.to \in Clients /\ m.data # tid[m.to]
    \/ m.type = "move" /\ m.to \in Clients /\ Knows[m.to] # m.src

PassOn(m) ==
    /\ m.on = chan[m.to]
    /\ Other(m)
    /\ air' = Gone(m) \cup (IF m.src = m.to THEN {} ELSE Replayed(m.to, m))
    /\ UNCHANGED <<chan, tid, inq, thread, moves, lost, needless, told, heard, missed>>

Receive(m) == AnswerPing(m) \/ KeepReply(m) \/ Obey(m) \/ PassOn(m)

\* The receiver has left the channel, or the frame is damaged.
Miss(m) ==
    /\ m.on # chan[m.to]
    /\ air' = Gone(m)
    /\ UNCHANGED <<chan, tid, inq, thread, moves, lost, needless, told, heard, missed>>
Lose(m) ==
    /\ lost < MaxLost
    /\ lost' = lost + 1
    /\ air' = Gone(m)
    /\ missed' = missed \cup Clients
    /\ UNCHANGED <<chan, tid, inq, thread, moves, needless, told, heard>>

Scan(c) == ScanTune(c) \/ ScanPing(c) \/ ScanRead(c) \/ ScanNext(c) \/ SetFound(c)

Next ==
    \/ \E a \in APs : Moved(a) \/ \E k \in Channel : Move(a, k)
    \/ \E c \in Scanners : ScanStart(c) \/ Scan(c)
    \/ \E m \in air : Receive(m) \/ Miss(m) \/ Lose(m)

Arrives(d, type) == \E m \in air : m.to = d /\ m.type = type /\ (Receive(m) \/ Miss(m))

\* The threads run on (the 250 ms end even if others keep the air busy), frames
\* in the air arrive, and the application of a client that has lost its access
\* point scans.
Fairness ==
    /\ \A a \in APs : SF_vars(Moved(a))
    /\ \A c \in Scanners : /\ WF_vars(Scan(c))
                           /\ WF_vars(~Together(c) /\ ScanStart(c))
    /\ \A d \in Devices, type \in {"ping", "reply", "move"} :
          WF_vars(Arrives(d, type))

Spec == Init /\ [][Next]_vars /\ Fairness

-----------------------------------------------------------------------------
TypeOK ==
    /\ chan \in [Devices -> Channel]
    /\ tid \in [Clients -> Tids]
    /\ \A c \in Clients : inq[c] \in Seq(APs) /\ Len(inq[c]) <= SizeQ
    /\ \A d \in Devices : thread[d].pc \in {"idle", "moving", "tune", "ping", "wait", "next", "done"}
    /\ \A m \in air : m.hops \in 0 .. MaxHops

\* Unless something is lost or somebody moves meanwhile, a scan reports no other
\* channel than the access point's, and that one if the extenders are there
\* (nwk_scanForChannels): earlier replies and the restored channel do not mislead.
ScanFindsAP ==
    \A c \in Clients :
        (thread[c].pc = "done" /\ c \notin missed /\ Knows[c] # NoAp) =>
            /\ thread[c].found \subseteq {chan[Knows[c]]}
            /\ (\A r \in Extenders \ {c} : Together(r)) => thread[c].found # {}

\* The list holds only channels from which a reply was received.
\* The code breaks it: README, section 5.
ListIsTrue ==
    \A c \in Clients : thread[c].pc = "done" => thread[c].found \subseteq heard[c]

\* An order obeyed, or a channel set, stays until the next one.
\* The code breaks it: README, section 5.
OrderKept == \A c \in Clients : thread[c] = Idle => chan[c] = told[c]

\* Two copies of the order are one more than may be lost (CC_REDUNDANCY): with
\* one frame lost, and orders of another access point about, all clients follow.
Followed ==
    (lost <= 1 /\ (\A a \in APs : thread[a] = Idle) /\ \A m \in air : m.type # "move") =>
        \A c \in Clients : Together(c)

\* However many frames are lost, a client meets its access point again once the
\* losses and the moves end.
Reunited == \A c \in Clients : Knows[c] # NoAp => []<>Together(c)
=============================================================================
