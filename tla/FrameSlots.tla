---------------------------- MODULE FrameSlots ----------------------------
(***************************************************************************)
(* The input frame queue of SimpliciTI (nwk_QMgmt.c): an array of slots,   *)
(* each with a usage, an order stamp and a frame.  The stamps of the slots *)
(* in use count them from the oldest, 1, upwards.  The slots are operated  *)
(* on by the receive interrupt and by whoever retrieves a frame.           *)
(***************************************************************************)
EXTENDS Integers, FiniteSets, FiniteSetsExt

CONSTANTS
    SizeQ,      \* SIZE_INFRAME_Q
    NoFrame     \* what an unused slot holds

SizeAssumption == SizeQ \in Nat \ {0}

Slots == 1..SizeQ

\* frameInfo_t.fi_usage.
Usages == {"available", "until_del", "until_fwd", "transition"}

Slot(usage, stamp, frame) == [usage |-> usage, stamp |-> stamp, frame |-> frame]

QInit == [s \in Slots |-> Slot("available", 0, NoFrame)]

InUse(q) == {s \in Slots : q[s].usage # "available"}

\* nwk_QadjustOrder: closes the gap that stamp leaves.
\* Mutant: it renumbers the slots before the gap too.
AdjustAll(q, stamp) ==
    [s \in Slots |-> IF s \in InUse(q) THEN [q[s] EXCEPT !.stamp = @ - 1] ELSE q[s]]
AdjustOrder(q, stamp) ==
    [s \in Slots |-> IF s \in InUse(q) /\ q[s].stamp > stamp
                     THEN [q[s] EXCEPT !.stamp = @ - 1] ELSE q[s]]

\* Slots that the interrupt may overwrite when none is free.
\* Mutant: a frame that is being retrieved may be cast out.
CastableBusy(q) == InUse(q)
Castable(q) == {s \in InUse(q) : q[s].usage # "transition"}

\* The castable slot with the least stamp; the first in the array on a tie.
OldestOf(q, S) ==
    CHOOSE s \in S : \A r \in S : \/ q[s].stamp < q[r].stamp
                                  \/ q[s].stamp = q[r].stamp /\ s <= r

\* nwk_QfindSlot(INQ): the last free slot, or the oldest frame is cast out,
\* or there is none (0).  The slot is stamped here and marked by the caller.
SlotFound(q) ==
    IF InUse(q) # Slots THEN Max(Slots \ InUse(q))
    ELSE IF Castable(q) # {} THEN OldestOf(q, Castable(q)) ELSE 0

Stamped(q, s) ==
    IF s \notin InUse(q) THEN [q EXCEPT ![s].stamp = Cardinality(InUse(q)) + 1]
    ELSE [AdjustOrder(q, q[s].stamp) EXCEPT ![s].stamp = SizeQ]
=============================================================================
