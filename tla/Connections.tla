---------------------------- MODULE Connections ----------------------------
(***************************************************************************)
(* The connection table of a SimpliciTI device (nwk.c): NUM_CONNECTIONS    *)
(* connections, the limits of the two port ranges and the next link id.    *)
(* Ports for links that this device asks for are taken from the top of the *)
(* port range, ports for links it accepts from the bottom, one range per   *)
(* peer.  The broadcast connection, which never changes, is left out.      *)
(***************************************************************************)
EXTENDS Integers, FiniteSets, FiniteSetsExt

CONSTANTS
    NumConnections,   \* NUM_CONNECTIONS
    PortBase,         \* PORT_BASE_NUMBER
    PortMax,          \* SMPL_PORT_USER_MAX
    MaxLid,           \* the last link id before SMPL_LINKID_USER_UUD
    NoPeer            \* the address in a connection never used

ConnectionsAssumption ==
    /\ NumConnections \in Nat \ {0}
    /\ PortBase \in Nat \ {0} /\ PortMax \in Nat
    /\ PortBase + NumConnections - 1 <= PortMax
    /\ MaxLid \in Nat /\ MaxLid > NumConnections

ConnIdx == 1..NumConnections
LinkIds == 1..MaxLid

\* connInfo_t: what tells connections apart.
FreeConn == [used |-> FALSE, peer |-> NoPeer, portRx |-> 0, portTx |-> 0, lid |-> 0]

\* nwk_nwkInit.
TableInit ==
    [conn |-> [c \in ConnIdx |-> FreeConn],
     nextLinkPort |-> PortMax, maxReplyPort |-> PortBase, nextLid |-> 1]

Connected(t) == {c \in ConnIdx : t.conn[c].used}

\* The first of a set of connections, 0 when it is empty: the loops over the table.
First(S) == IF S = {} THEN 0 ELSE Min(S)

\* nwk_getConnInfo, map_lid2idx.
ConnOf(t, lid) == First({c \in Connected(t) : t.conn[c].lid = lid})

\* nwk_isLinkDuplicate and nwk_findPeer: a connection by its remote end.
ConnTo(t, peer, remotePort) ==
    First({c \in Connected(t) : t.conn[c].peer = peer /\ t.conn[c].portTx = remotePort})

\* nwk_isConnectionValid: the connections that accept a frame; the first counts.
Accepting(t, src, port) ==
    {c \in Connected(t) : t.conn[c].portRx = port /\ t.conn[c].peer = src}

\* nwk_getNextConnection: the first that is free.
NextConnection(t) == First(ConnIdx \ Connected(t))

\* The n-th link id after id, and the first after id that no connection has.  0 and
\* the broadcast's id are skipped.
After(id, n) == IF id + n <= MaxLid THEN id + n ELSE id + n - MaxLid
FreshLid(t, id) ==
    LET Used == {t.conn[c].lid : c \in Connected(t)}
    IN  After(id, Min({n \in 1..MaxLid : After(id, n) \notin Used}))

\* initializeConnection: the peer's address and the port stay what they were.
InitializeConn(t, c) ==
    LET u == [t EXCEPT !.conn[c].used = TRUE, !.conn[c].portTx = 0,
                       !.conn[c].lid = t.nextLid]
    IN  [u EXCEPT !.nextLid = FreshLid(u, t.nextLid)]

\* nwk_freeConnection.
FreeConnection(t, c) == [t EXCEPT !.conn[c].used = FALSE]

-----------------------------------------------------------------------------
\* nwk_allocateLocalRxPort.  marker[i] says that the i-th port of the range is
\* taken.  A peer that this device asked for a link has a port of the upper
\* range, and its marker lies outside the array when it asks for one itself.
Markers(t, which, c) ==
    {IF which = "send" THEN PortMax - t.conn[d].portRx ELSE t.conn[d].portRx - PortBase :
        d \in {d \in Connected(t) \ {c} :
                   IF which = "send" THEN t.conn[d].portRx > t.nextLinkPort
                   ELSE t.conn[d].peer = t.conn[c].peer}}

\* The first unmarked port of the range; 0 when all are taken, or when the two
\* ranges would meet.
\* Mutant: the markers are not looked at.
PortUnmarked(t, which, c) ==
    IF which = "send" THEN (IF PortMax >= t.maxReplyPort THEN PortMax ELSE 0)
    ELSE (IF PortBase <= t.nextLinkPort THEN PortBase ELSE 0)
Port(t, which, c) ==
    LET Unmarked == (0..NumConnections - 1) \ Markers(t, which, c)
        num == IF Unmarked = {} THEN 0
               ELSE IF which = "send" THEN PortMax - Min(Unmarked)
               ELSE PortBase + Min(Unmarked)
        fits == IF which = "send" THEN num >= t.maxReplyPort ELSE num <= t.nextLinkPort
    IN  IF fits THEN num ELSE 0

AllocatePort(t, which, c) ==
    LET num == Port(t, which, c)
    IN  [t EXCEPT !.conn[c].portRx = num,
                  !.maxReplyPort = IF which = "reply" /\ num > @ THEN num ELSE @,
                  !.nextLinkPort = IF which = "send" /\ num = @ THEN @ - 1 ELSE @]

\* The two allocations, with the connection freed again when there is no port;
\* the connection they take is NextConnection(t) # 0.
AskForLink(t) ==
    LET c == NextConnection(t)
        u == AllocatePort(InitializeConn(t, c), "send", c)
    IN  IF u.conn[c].portRx = 0 THEN FreeConnection(u, c) ELSE u

AcceptLink(t, peer, remotePort) ==
    LET c == NextConnection(t)
        u == AllocatePort([InitializeConn(t, c) EXCEPT !.conn[c].peer = peer], "reply", c)
    IN  IF u.conn[c].portRx = 0 THEN FreeConnection(u, c)
        ELSE [u EXCEPT !.conn[c].portTx = remotePort]
=============================================================================
