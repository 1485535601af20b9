----------------------------- MODULE MCNetwork -----------------------------
(***************************************************************************)
(* Small instances of the components of SimpliciTI.  Each module has a     *)
(* part of the network's state of its own, so they are explored one at a   *)
(* time: in each behaviour one instance runs, and the variables of the     *)
(* others stay at 0.                                                       *)
(***************************************************************************)
EXTENDS PollWindow, SecureCounter, Sequences, TLC

CONSTANTS
    NoFrame,
    PingChannels, PingTids, PingQueue, MaxPings, MaxPingsLost,
    Sleepers, Sources,     \* the clients and the senders of Polls and Order
    MaxStoreClients, StoreQueue, OrderQueue, OutQueue,
    MaxPollSends, MaxPolls, MaxRestarts, MaxPortSends, MaxPortPolls,
    MaxOrderSends, MaxOrderPolls

VARIABLES
    instance,
    frameInq, reader, arrived, kept, castOut, got, scanQuiet, disturbed,
    table, pending, asked,
    linkDev, linkThread, linkAir, calls, held, leaked, dropped, raced,
    slot, tract, ackTID, ackThread, ackAir, ackSends, linkers, delivered, confirmed, asBuilt,
    tx, rx, secureAir, secureInq, stuck, sent, opened,
    where, chan, tid, pingInq, pingThread, pingAir, pings, lost, pingAnswered, start, gone,
    inq, outq, client, dev, air, sends, restarts, waiting, answered, again, lastPoll,
    misled, refused,
    chans, replyTid, replies, threads, ether, moves, chanLost, needless, told, heard, missed

-----------------------------------------------------------------------------
Kind(src, port, ok) == [src |-> src, encrypted |-> FALSE, port |-> port, ok |-> ok]

\* A link with one peer, the ping port, frames that are dropped: the input queue.
Queue == INSTANCE FrameQueue WITH
    SizeQ <- 2, NwkPorts <- {"ping"}, UserPorts <- {"link"}, Me <- "me", MaxFrames <- 4,
    FrameKinds <- {Kind("peer", "link", TRUE), Kind("peer", "ping", TRUE),
                   Kind("other", "link", FALSE)},
    Contexts <- {[type |-> "link", port |-> "link", peer |-> "peer"],
                 [type |-> "nwk", port |-> "ping", peer |-> "any"]},
    inq <- frameInq

\* Two connections, four ids, more ports than connections.
Table == INSTANCE ConnectionTable WITH
    NumConnections <- 2, PortBase <- 1, PortMax <- 3, MaxLid <- 4, NoPeer <- "none",
    Listeners <- {"a"}, Linkers <- {"b", "c"}, RemotePorts <- {7, 8}

\* Both give links up, the watch restarts.
Links == INSTANCE Link WITH
    Devices <- {"watch", "peer"}, Linkers <- {"watch"}, Listeners <- {"peer"},
    Unlinkers <- {"watch", "peer"}, Restarters <- {"watch"}, Tids <- {1, 2}, SizeQ <- 2,
    Duplicates <- FALSE, Late <- FALSE, MaxCalls <- 6,
    NumConnections <- 2, PortBase <- 1, PortMax <- 4, MaxLid <- 4, NoPeer <- "none",
    dev <- linkDev, thread <- linkThread, air <- linkAir

\* Replies come late too.
Late == INSTANCE Link WITH
    Devices <- {"watch", "peer"}, Linkers <- {"watch"}, Listeners <- {"peer"},
    Unlinkers <- {"watch"}, Restarters <- {"watch"}, Tids <- {1, 2}, SizeQ <- 2,
    Duplicates <- FALSE, Late <- TRUE, MaxCalls <- 5,
    NumConnections <- 2, PortBase <- 1, PortMax <- 4, MaxLid <- 4, NoPeer <- "none",
    dev <- linkDev, thread <- linkThread, air <- linkAir

\* Two messages, interrupted anywhere by the link request of a third device.
Acks == INSTANCE AckedSend WITH
    Devices <- {"a", "b"}, Senders <- {"a"}, NumTids <- 4, MaxSends <- 2,
    MaxLinkers <- 1, Third <- "t",
    thread <- ackThread, air <- ackAir, sends <- ackSends

\* Every position in the hint's byte and in the counter, one to three blocks.
Secure == INSTANCE SecureLink WITH
    SizeQ <- 2, FirstCounters <- {0, 3, 9, 14}, Blocks <- {1, 2, 3}, MaxSends <- 3,
    air <- secureAir, inq <- secureInq

\* One peer, the access point.
Pings == INSTANCE Ping WITH
    Devices <- {"ap"}, Peers <- {"ap"}, APs <- {"ap"}, Unfiltered <- {"ap"},
    Channels <- PingChannels, Tids <- PingTids, SizeQ <- PingQueue, Duplicates <- FALSE,
    MaxLost <- MaxPingsLost,
    inq <- pingInq, thread <- pingThread, air <- pingAir, answered <- pingAnswered

\* Each device numbers its links from the same base; c2 linked with the access
\* point first, so its port for e is not that of c1.
Port == [l \in {"c1", "c2"} \X {"e", "ap"} |->
            IF l \in {<<"c1", "e">>, <<"c2", "ap">>} THEN 1 ELSE 2]

\* The clients restart, with any id; polls are lost, late and repeated.
Polls == INSTANCE StoreAndForward WITH
    Clients <- Sleepers, Senders <- Sources, AP <- "ap", MaxClients <- MaxStoreClients,
    SizeQ <- StoreQueue, SizeOutQ <- OutQueue, OwnSends <- TRUE, FirstTids <- Tids,
    Repeated <- {"poll"}, MaxSends <- MaxPollSends

\* Two clients; messages are lost, late and repeated.
Ports == INSTANCE StoreAndForward WITH
    Clients <- {"c1", "c2"}, Senders <- {"e"}, AP <- "ap", MaxClients <- MaxStoreClients,
    SizeQ <- StoreQueue, SizeOutQ <- OutQueue, MaxTid <- 3, Window <- 0, OwnSends <- FALSE,
    FirstTids <- {3}, Repeated <- {"data"}, MaxSends <- MaxPortSends,
    MaxPolls <- MaxPortPolls, MaxRestarts <- 0

\* The queue fills; messages are lost, late and repeated.
Order == INSTANCE StoreAndForward WITH
    Clients <- Sleepers, Senders <- Sources, AP <- "ap", MaxClients <- MaxStoreClients,
    SizeQ <- OrderQueue, SizeOutQ <- OutQueue, MaxTid <- 3, Window <- 0, OwnSends <- FALSE,
    FirstTids <- {3}, Repeated <- {"data"}, MaxSends <- MaxOrderSends,
    MaxPolls <- MaxOrderPolls, MaxRestarts <- 0

\* Two access points, an extender and an end device, which hear one another.
Near == INSTANCE Channels WITH
    APs <- {"ap", "other"}, Clients <- {"re", "ed"}, Extenders <- {"re"}, Scanners <- {},
    Knows <- [c \in {"re", "ed"} |-> "ap"], NoAp <- "none",
    Hears <- {p \in {"ap", "other", "re", "ed"} \X {"ap", "other", "re", "ed"} : p[1] # p[2]},
    TableSize <- 2, Tids <- {0}, MaxHops <- 1, SizeQ <- 2, MaxMoves <- 2, MaxLost <- 1,
    MaxIdle <- 1,
    chan <- chans, tid <- replyTid, inq <- replies, thread <- threads, air <- ether,
    lost <- chanLost

ASSUME Instances ==
    /\ Queue!SizeAssumption /\ Polls!StoreAssumption /\ Ports!StoreAssumption
    /\ Order!StoreAssumption
    /\ Table!TableAssumption /\ Links!ConnectionsAssumption /\ Pings!PingAssumption
    /\ Acks!AckAssumption /\ Acks!IdsLast /\ Secure!LinkAssumption /\ Secure!CountersLast

-----------------------------------------------------------------------------
queueVars == <<frameInq, reader, arrived, kept, castOut, got, scanQuiet, disturbed>>
tableVars == <<table, pending, asked>>
linkVars == <<linkDev, linkThread, linkAir, calls, held, leaked, dropped, raced>>
ackVars == <<slot, tract, ackTID, ackThread, ackAir, ackSends, linkers, delivered, confirmed,
             asBuilt>>
secureVars == <<tx, rx, secureAir, secureInq, stuck, sent, opened>>
pingVars == <<where, chan, tid, pingInq, pingThread, pingAir, pings, lost, pingAnswered, start,
              gone>>
storeVars == <<inq, outq, client, dev, air, sends, restarts, waiting, answered, again, lastPoll,
               misled, refused>>
chanVars == <<chans, replyTid, replies, threads, ether, moves, chanLost, needless, told, heard,
              missed>>
vars == <<instance, queueVars, tableVars, linkVars, ackVars, secureVars, pingVars, storeVars,
          chanVars>>

NoQueue == /\ frameInq = 0 /\ reader = 0 /\ arrived = 0 /\ kept = 0 /\ castOut = 0 /\ got = 0
           /\ scanQuiet = 0 /\ disturbed = 0
NoTable == table = 0 /\ pending = 0 /\ asked = 0
NoLinks == /\ linkDev = 0 /\ linkThread = 0 /\ linkAir = 0 /\ calls = 0 /\ held = 0
           /\ leaked = 0 /\ dropped = 0 /\ raced = 0
NoAcks == /\ slot = 0 /\ tract = 0 /\ ackTID = 0 /\ ackThread = 0 /\ ackAir = 0 /\ ackSends = 0
          /\ linkers = 0 /\ delivered = 0 /\ confirmed = 0 /\ asBuilt = 0
NoSecure == /\ tx = 0 /\ rx = 0 /\ secureAir = 0 /\ secureInq = 0 /\ stuck = 0 /\ sent = 0
            /\ opened = 0
NoPings == /\ where = 0 /\ chan = 0 /\ tid = 0 /\ pingInq = 0 /\ pingThread = 0 /\ pingAir = 0
           /\ pings = 0 /\ lost = 0 /\ pingAnswered = 0 /\ start = 0 /\ gone = 0
NoStore == /\ inq = 0 /\ outq = 0 /\ client = 0 /\ dev = 0 /\ air = 0 /\ sends = 0
           /\ restarts = 0 /\ waiting = 0 /\ answered = 0 /\ again = 0 /\ lastPoll = 0
           /\ misled = 0 /\ refused = 0
NoChans == /\ chans = 0 /\ replyTid = 0 /\ replies = 0 /\ threads = 0 /\ ether = 0 /\ moves = 0
           /\ chanLost = 0 /\ needless = 0 /\ told = 0 /\ heard = 0 /\ missed = 0

Init ==
    \/ /\ instance = "queue" /\ Queue!Init
       /\ NoTable /\ NoLinks /\ NoAcks /\ NoSecure /\ NoPings /\ NoStore /\ NoChans
    \/ /\ instance = "table" /\ Table!Init
       /\ NoQueue /\ NoLinks /\ NoAcks /\ NoSecure /\ NoPings /\ NoStore /\ NoChans
    \/ /\ \/ instance = "links" /\ Links!Init
          \/ instance = "late" /\ Late!Init
       /\ NoQueue /\ NoTable /\ NoAcks /\ NoSecure /\ NoPings /\ NoStore /\ NoChans
    \/ /\ instance = "acks" /\ Acks!Init
       /\ NoQueue /\ NoTable /\ NoLinks /\ NoSecure /\ NoPings /\ NoStore /\ NoChans
    \/ /\ instance = "secure" /\ Secure!Init
       /\ NoQueue /\ NoTable /\ NoLinks /\ NoAcks /\ NoPings /\ NoStore /\ NoChans
    \/ /\ instance = "pings" /\ Pings!Init
       /\ NoQueue /\ NoTable /\ NoLinks /\ NoAcks /\ NoSecure /\ NoStore /\ NoChans
    \/ /\ \/ instance = "polls" /\ Polls!Init
          \/ instance = "ports" /\ Ports!Init
          \/ instance = "order" /\ Order!Init
       /\ NoQueue /\ NoTable /\ NoLinks /\ NoAcks /\ NoSecure /\ NoPings /\ NoChans
    \/ /\ instance = "near" /\ Near!Init
       /\ NoQueue /\ NoTable /\ NoLinks /\ NoAcks /\ NoSecure /\ NoPings /\ NoStore

\* What an instance does not change: all but its own variables.
OnlyQueue == UNCHANGED <<tableVars, linkVars, ackVars, secureVars, pingVars, storeVars, chanVars>>
OnlyTable == UNCHANGED <<queueVars, linkVars, ackVars, secureVars, pingVars, storeVars, chanVars>>
OnlyLinks == UNCHANGED <<queueVars, tableVars, ackVars, secureVars, pingVars, storeVars, chanVars>>
OnlyAcks == UNCHANGED <<queueVars, tableVars, linkVars, secureVars, pingVars, storeVars, chanVars>>
OnlySecure == UNCHANGED <<queueVars, tableVars, linkVars, ackVars, pingVars, storeVars, chanVars>>
OnlyPings == UNCHANGED <<queueVars, tableVars, linkVars, ackVars, secureVars, storeVars, chanVars>>
OnlyStore == UNCHANGED <<queueVars, tableVars, linkVars, ackVars, secureVars, pingVars, chanVars>>
OnlyChans == UNCHANGED <<queueVars, tableVars, linkVars, ackVars, secureVars, pingVars, storeVars>>

Is(name) == instance = name
Runs(name) == Is(name) /\ UNCHANGED instance

Next ==
    \/ Runs("queue") /\ Queue!Next /\ OnlyQueue
    \/ Runs("table") /\ Table!Next /\ OnlyTable
    \/ Runs("links") /\ Links!Next /\ OnlyLinks
    \/ Runs("late") /\ Late!Next /\ OnlyLinks
    \/ Runs("acks") /\ Acks!Next /\ OnlyAcks
    \/ Runs("secure") /\ Secure!Next /\ OnlySecure
    \/ Runs("pings") /\ Pings!Next /\ OnlyPings
    \/ Runs("polls") /\ Polls!Next /\ OnlyStore
    \/ Runs("ports") /\ Ports!Next /\ OnlyStore
    \/ Runs("order") /\ Order!Next /\ OnlyStore
    \/ Runs("near") /\ Near!Next /\ OnlyChans

Spec == Init /\ [][Next]_vars

-----------------------------------------------------------------------------
\* The types of the running instance.
TypeOK ==
    /\ Is("queue") => Queue!TypeOK
    /\ Is("table") => Table!TypeOK
    /\ Is("links") => Links!TypeOK
    /\ Is("late") => Late!TypeOK
    /\ Is("acks") => Acks!TypeOK
    /\ Is("secure") => Secure!TypeOK
    /\ Is("pings") => Pings!TypeOK
    /\ Is("polls") => Polls!TypeOK
    /\ Is("ports") => Ports!TypeOK
    /\ Is("order") => Order!TypeOK
    /\ Is("near") => Near!TypeOK

\* The slots in transition are those the reader works on, a frame kept waits, was
\* retrieved once or was cast out, and the stamps order the frames by age, but for
\* the window behind nwk_QadjustOrder (nwk_QMgmt.c, nwk_retrieveFrame).
QueueSound ==
    Is("queue") => Queue!MarkedIffHeld /\ Queue!NoneVanishes /\ Queue!StampsTellAge

\* The interrupt leaves alone the frame that is compared or copied, and an
\* undisturbed retrieval gets the oldest frame it asks for (nwk_QfindOldest).
OldestFirst == [][Is("queue") => Queue!HeldStay /\ Queue!OldestIfQuiet]_vars

\* A link id names one connection, also when the ids have wrapped; sender and port
\* belong to one connection at most; the port a link is asked for with is no other
\* connection's; marker[] is indexed within its bounds (nwk.c:281, 692).
TableSound ==
    Is("table") => /\ Table!IdsIdentify /\ Table!FramesIdentify
                   /\ Table!AskedPortsApart /\ Table!MarkersInBounds

\* Both ends of a concluded link send to the port the other receives on, after
\* restarts and repeated requests too; however late a reply comes, the peer has a
\* connection for the link, unless one end gave one up (nwk_link,
\* smpl_send_link_reply).
EndsAgree == /\ Is("links") => Links!LinksAgree
             /\ Is("late") => Late!PeerKnows

\* Every connection has an owner, but for a second request between the two steps of
\* nwk_getLocalLinkID; and the interrupt takes connections only during a
\* LinkListen: nwk_link works on the table without a critical section.
NoneForgottenQuietly == Is("late") => Late!NoneForgottenQuietly /\ Late!ListensOnlyInCall

\* A message reported as acknowledged has reached the peer's queue, and an
\* application is given only messages its peer's application sent, whatever the
\* interrupt writes into the one output slot (nwk_api.c:376, nwk_QfindSlot).
AcksTrue == Is("acks") => Acks!AckMeansReceived /\ Acks!DeliveredAsBuilt

\* Enciphered messages are received in order and once, however late and often they
\* come, and one opens if the receiver missed no more blocks than the window has,
\* also across the wrap of hint and counter (nwk_getSecureFrame).
SecureInOrder == Is("secure") => Secure!OpenedInOrder /\ Secure!MissedOpens

\* A ping that succeeds was answered during the call on the channel the caller is
\* left on; it fails only if a frame was lost or the peer is not to be found
\* (nwk_ping, nwk_scanForChannels).
PingTrue == Is("pings") => Pings!AnsweredHere /\ Pings!FailsOnlyIfAway

\* A poll is accepted exactly if it is new, though polls before it were lost, and
\* also across the wrap of the ids and after a restart; none is answered twice
\* (nwk_checkAppMsgTID, nwk_mgmt.c:244).
PollsOnce == Is("polls") => Polls!AcceptsExactlyNew /\ Polls!AnsweredOnce

\* A client's poll gets it no message for another client, whose port for the
\* sender is a different one (nwk_QfindOldest).
OwnFramesOnly == Is("ports") => Ports!OwnFramesOnly

\* The slots hold the messages that wait, each once, however often it is repeated
\* on the air and whatever is cast out for a new frame, and a client gets the
\* messages of one peer in the order in which they came (isDupSandFFrame,
\* nwk_getSandFFrame, nwk_QadjustOrder).
WaitingInOrder ==
    /\ [](Is("order") => Order!WaitingStored)
    /\ [][Is("order") => Order!ForwardsOldest]_vars

\* Both copies of an order together survive one loss: all clients follow their
\* access point (broadcast_channel_change).
Followed == Is("near") => Near!Followed
=============================================================================
