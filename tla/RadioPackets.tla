---------------------------- MODULE RadioPackets ----------------------------
(***************************************************************************)
(* Kernel with a history variable that counts the packets whose interrupt  *)
(* asked for Radio::epilogue() and whose signal is still to come.          *)
(***************************************************************************)
EXTENDS Kernel

VARIABLE owed

PacketArrives == GateInterrupt("radio") /\ owed < MaxCount + 1 /\ owed' = owed + 1

PacketSignalled == (\E t \in Threads : RadioEpilogue(t)) /\ owed' = owed - 1

Otherwise ==
    /\ Next
    /\ ~GateInterrupt("radio")
    /\ ~\E t \in Threads : RadioEpilogue(t)
    /\ UNCHANGED owed

PacketSpec ==
    /\ Init /\ owed = 0
    /\ [][PacketArrives \/ PacketSignalled \/ Otherwise]_<<vars, owed>>

Pending == Cardinality({t \in Threads : pc[t] = "radio"})
           + (IF queued["radio"] THEN 1 ELSE 0)

\* The semaphore gets one signal() for every packet received (machine/radio.h):
\* as many epilogues of the radio are still to run as packets are owed a signal.
EveryPacketSignalled == owed <= Pending

=============================================================================
