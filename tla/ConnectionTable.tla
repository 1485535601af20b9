-------------------------- MODULE ConnectionTable --------------------------
(***************************************************************************)
(* One device's connection table under every sequence of the operations    *)
(* that change it: links asked for and concluded with some peer, links     *)
(* accepted, and connections deleted, with ports and ids few enough that   *)
(* the port ranges meet and the ids wrap.                                  *)
(***************************************************************************)
EXTENDS Connections

CONSTANTS
    Listeners,    \* peers that this device may conclude a link with
    Linkers,      \* peers whose requests it may accept
    RemotePorts   \* the peers' ports

\* A device asks the peers of one kind for links and is asked by those of another,
\* and a range has a port for every connection without reaching into the other.
TableAssumption ==
    /\ ConnectionsAssumption
    /\ PortMax - PortBase + 2 >= 2 * NumConnections
    /\ Listeners \cap Linkers = {}

VARIABLES
    table,
    pending,      \* the connection a link was asked for with; 0 if none
    asked         \* the connections that were asked for by this device

vars == <<table, pending, asked>>

Init == table = TableInit /\ pending = 0 /\ asked = {}

\* nwk_link until the request is sent.  Only one thread links at a time.
Ask ==
    /\ pending = 0
    /\ NextConnection(table) # 0
    /\ table' = AskForLink(table)
    /\ pending' = IF table'.conn[NextConnection(table)].used
                  THEN NextConnection(table) ELSE 0
    /\ asked' = asked \cup ({pending'} \ {0})

\* nwk_link from the reply on, or without one.
Concluded(peer, port) ==
    /\ pending # 0
    /\ table' = [table EXCEPT !.conn[pending].peer = peer, !.conn[pending].portTx = port]
    /\ pending' = 0
    /\ UNCHANGED asked

TimedOut ==
    /\ pending # 0
    /\ table' = FreeConnection(table, pending)
    /\ asked' = asked \ {pending}
    /\ pending' = 0

\* smpl_send_link_reply while listening, which excludes asking.
Accept(peer, port) ==
    /\ pending = 0
    /\ ConnTo(table, peer, port) = 0
    /\ NextConnection(table) # 0
    /\ table' = AcceptLink(table, peer, port)
    /\ UNCHANGED <<pending, asked>>

\* nwk_connectionControl.
Delete(lid) ==
    /\ pending = 0
    /\ ConnOf(table, lid) # 0
    /\ table' = FreeConnection(table, ConnOf(table, lid))
    /\ asked' = asked \ {ConnOf(table, lid)}
    /\ UNCHANGED pending

Next ==
    \/ Ask \/ TimedOut
    \/ \E peer \in Listeners, port \in RemotePorts : Concluded(peer, port)
    \/ \E peer \in Linkers, port \in RemotePorts : Accept(peer, port)
    \/ \E lid \in LinkIds : Delete(lid)

Spec == Init /\ [][Next]_vars

-----------------------------------------------------------------------------
TypeOK ==
    /\ table \in [conn : [ConnIdx -> [used : BOOLEAN,
                                      peer : Listeners \cup Linkers \cup {NoPeer},
                                      portRx : {0} \cup PortBase..PortMax,
                                      portTx : {0} \cup RemotePorts,
                                      lid : {0} \cup LinkIds]],
                  nextLinkPort : PortBase - 1..PortMax, maxReplyPort : PortBase..PortMax,
                  nextLid : LinkIds]
    /\ pending \in ConnIdx \cup {0}
    /\ asked \subseteq ConnIdx

\* An application's link id names one connection, also after the ids have
\* wrapped round; the id handed out next is not in use.
IdsIdentify ==
    /\ \A c, d \in Connected(table) : table.conn[c].lid = table.conn[d].lid => c = d
    /\ \A c \in Connected(table) : table.conn[c].lid # table.nextLid

\* A received frame, known by its sender and port, belongs to one connection at
\* most: nwk_isConnectionValid takes the first that fits and would give the
\* frames of one link to the other.
FramesIdentify ==
    \A src \in Listeners \cup Linkers, port \in PortBase..PortMax :
        \A c, d \in Accepting(table, src, port) \ {pending} : c = d

\* A link's port is fixed before its peer is known: no other connection of the
\* device may have it, whoever answers.
AskedPortsApart ==
    \A c \in asked : \A d \in Connected(table) \ {c} :
        table.conn[c].portRx # table.conn[d].portRx

\* The ports of a device that links or listens, but never does both with one
\* peer: the marker array of nwk_allocateLocalRxPort is indexed within bounds.
MarkersInBounds ==
    pending = 0 /\ NextConnection(table) # 0 =>
        /\ Markers(table, "send", NextConnection(table)) \subseteq 0..NumConnections - 1
        /\ \A peer \in Linkers :
             Markers([table EXCEPT !.conn[NextConnection(table)].peer = peer], "reply",
                     NextConnection(table)) \subseteq 0..NumConnections - 1
=============================================================================
