-------------------------------- MODULE Ping --------------------------------
(***************************************************************************)
(* Pinging a peer (nwk_ping.c).  The first ping goes out on the channel of *)
(* now; if nobody answers, a FREQUENCY_AGILITY build scans and pings on    *)
(* each channel found.  End devices receive what is addressed to them;     *)
(* access points and range extenders receive everything.                   *)
(***************************************************************************)
EXTENDS Naturals, Sequences, FiniteSets, FiniteSetsExt

CONSTANTS
    Devices,     \* the devices in range of the caller
    Peers,       \* those it has a link with
    APs,         \* the access points, which a scan finds
    Unfiltered,  \* access points and range extenders
    Channels,    \* a set of numbers
    Tids,        \* the transaction ids: 0 .. n-1, a byte in the code
    SizeQ,       \* SIZE_INFRAME_Q
    Duplicates,  \* a range extender may deliver a reply a second time
    MaxPings,    \* bound on the calls
    MaxLost      \* bound on the frames lost

PingAssumption ==
    /\ Peers \cup Unfiltered \subseteq Devices /\ APs \subseteq Unfiltered
    /\ Channels \subseteq Nat /\ SizeQ \in Nat \ {0}

None == "none"

VARIABLES
    where,       \* the channel of each device, which stays
    chan, tid,   \* the caller's
    inq,         \* the senders of the replies kept, oldest first
    thread,      \* pc, peer, repeat (repeatIt), todo (channels), result
    air,
    pings, lost,
    answered,    \* history: the peers that answered a ping of the last call, and where
    start,       \* history: the channel the last call began on
    gone         \* history: something was lost in the last call

vars == <<where, chan, tid, inq, thread, air, pings, lost, answered, start, gone>>

Init ==
    /\ where \in [Devices -> Channels]
    /\ chan \in Channels
    /\ tid \in Tids
    /\ inq = <<>>
    /\ thread = [pc |-> "idle", peer |-> None, repeat |-> 0, todo |-> {}, result |-> None]
    /\ air = {}
    /\ pings = 0 /\ lost = 0
    /\ answered = {}
    /\ start = chan
    /\ gone = FALSE

Returns(result) == thread' = [thread EXCEPT !.pc = "idle", !.todo = {}, !.result = result]

-----------------------------------------------------------------------------
Ping(p) ==
    /\ thread.pc = "idle"
    /\ pings < MaxPings
    /\ pings' = pings + 1
    /\ thread' = [pc |-> "next", peer |-> p, repeat |-> 1, todo |-> {chan}, result |-> None]
    /\ answered' = {}
    /\ start' = chan
    /\ gone' = FALSE
    /\ UNCHANGED <<where, chan, tid, inq, air, lost>>

\* nwk_setChannel and the ping on the next channel of the list.
SendPing ==
    LET k == Min(thread.todo)
    IN  /\ thread.pc = "next"
        /\ thread.todo # {}
        /\ chan' = k
        /\ thread' = [thread EXCEPT !.pc = "wait", !.todo = @ \ {k}]
        /\ air' = air \cup {[type |-> "ping", dst |-> thread.peer, to |-> d, tid |-> tid] :
                               d \in {e \in {thread.peer} \cup Unfiltered : where[e] = k}}
        /\ UNCHANGED <<where, tid, inq, pings, lost, answered, start, gone>>

\* A reply kept ends the call, from whom it may be; its id is not used again.
\* Mutants: whether there is a reply is not tested; the id does not wrap.
ReadAlways ==
    /\ thread.pc = "wait"
    /\ inq # <<>> \/ air = {}
    /\ inq' = IF inq = <<>> THEN inq ELSE Tail(inq)
    /\ tid' = (tid + 1) % Cardinality(Tids)
    /\ Returns("success")
    /\ UNCHANGED <<where, chan, air, pings, lost, answered, start, gone>>
ReadReply ==
    /\ thread.pc = "wait"
    /\ inq # <<>>
    /\ inq' = Tail(inq)
    /\ tid' = (tid + 1) % Cardinality(Tids)
    /\ Returns("success")
    /\ UNCHANGED <<where, chan, air, pings, lost, answered, start, gone>>

\* Nothing came in time: the next channel.
NoReply ==
    /\ thread.pc = "wait"
    /\ inq = <<>>
    /\ air = {}
    /\ thread' = [thread EXCEPT !.pc = "next"]
    /\ UNCHANGED <<where, chan, tid, inq, air, pings, lost, answered, start, gone>>

\* No channel is left: a scan, once (its own pings are not modelled: it finds the
\* channels the access points are on, or misses some), or the end.
Rescan ==
    /\ thread.pc = "next"
    /\ thread.todo = {}
    /\ thread.repeat = 1
    /\ \E found \in SUBSET {where[d] : d \in APs} :
          /\ IF found = {}
             THEN Returns("nochannel")
             ELSE thread' = [thread EXCEPT !.repeat = 0, !.todo = found]
          /\ gone' = (gone \/ found # {where[d] : d \in APs})
    /\ UNCHANGED <<where, chan, tid, inq, air, pings, lost, answered, start>>

GiveUp ==
    /\ thread.pc = "next"
    /\ thread.todo = {}
    /\ thread.repeat = 0
    /\ Returns("timeout")
    /\ UNCHANGED <<where, chan, tid, inq, air, pings, lost, answered, start, gone>>

-----------------------------------------------------------------------------
\* handlePingRequest, smpl_send_ping_reply: whoever receives a ping answers it.
Answer(m) ==
    /\ m.type = "ping"
    /\ air' = (air \ {m}) \cup {[m EXCEPT !.type = "reply"]}
    /\ answered' = answered \cup {<<m.to, where[m.to]>>}
    /\ UNCHANGED <<where, chan, tid, inq, thread, pings, lost, start, gone>>

\* nwk_processPing of a reply: kept if its id is the one of the ping of now.
IsMine(m) == where[m.to] = chan /\ m.tid = tid

Reply(m) ==
    /\ m.type = "reply"
    /\ IF Duplicates THEN air' \in {air, air \ {m}} ELSE air' = air \ {m}
    /\ inq' = IF ~IsMine(m) THEN inq
              ELSE Append(IF Len(inq) = SizeQ THEN Tail(inq) ELSE inq, m.to)
    /\ UNCHANGED <<where, chan, tid, thread, pings, lost, answered, start, gone>>

Lose(m) ==
    /\ lost < MaxLost
    /\ lost' = lost + 1
    /\ air' = air \ {m}
    /\ gone' = TRUE
    /\ UNCHANGED <<where, chan, tid, inq, thread, pings, answered, start>>

Next ==
    \/ \E p \in Peers : Ping(p)
    \/ SendPing \/ ReadReply \/ NoReply \/ Rescan \/ GiveUp
    \/ \E m \in air : Answer(m) \/ Reply(m) \/ Lose(m)

Spec == Init /\ [][Next]_vars

-----------------------------------------------------------------------------
TypeOK ==
    /\ chan \in Channels /\ tid \in Tids
    /\ inq \in Seq(Devices) /\ Len(inq) <= SizeQ
    /\ thread.pc \in {"idle", "next", "wait"} /\ thread.todo \subseteq Channels
    /\ thread.result \in {None, "success", "timeout", "nochannel"}

\* A ping that succeeds was answered during the call, on the channel the caller
\* is left on; nothing of an earlier call, or of another channel, ends it.
AnsweredHere ==
    thread.result = "success" => \E d \in Devices : <<d, chan>> \in answered

\* ... and by the peer.
\* The code breaks it: README, section 5.
PeerAnswered ==
    thread.result = "success" => \E k \in Channels : <<thread.peer, k>> \in answered

\* A ping fails only if something was lost or the peer is neither where the
\* caller was nor with an access point.
FailsOnlyIfAway ==
    (thread.result \in {"timeout", "nochannel"} /\ ~gone) =>
        where[thread.peer] \notin {start} \cup {where[d] : d \in APs}
=============================================================================
