-------------------------------- MODULE Fifo --------------------------------
(***************************************************************************)
(* What a Queue promises: a sequence of distinct items, appended at its    *)
(* end or inserted elsewhere, taken from the front, and removed wherever   *)
(* they stand.  out is what the last dequeue returned.                     *)
(***************************************************************************)
EXTENDS SequencesExt

CONSTANTS Items, NULL

VARIABLES items, out

Init == items = << >> /\ out = NULL

Enqueue(i) ==
    /\ i \notin ToSet(items)
    /\ items' = Append(items, i)
    /\ UNCHANGED out

InsertFirst(i) ==
    /\ i \notin ToSet(items)
    /\ items' = <<i>> \o items
    /\ UNCHANGED out

\* Right behind old.
InsertAfter(old, i) ==
    /\ i \notin ToSet(items)
    /\ \E k \in DOMAIN items :
         items[k] = old /\ items' = InsertAt(items, k + 1, i)
    /\ UNCHANGED out

Dequeue ==
    IF items = << >>
      THEN out' = NULL /\ UNCHANGED items
      ELSE out' = Head(items) /\ items' = Tail(items)

Unlink(i) == items' = RemoveFirst(items, i) /\ UNCHANGED out

Next ==
    \/ Dequeue
    \/ \E i \in Items : Enqueue(i) \/ InsertFirst(i) \/ Unlink(i)
    \/ \E old, i \in Items : InsertAfter(old, i)

Spec == Init /\ [][Next]_<<items, out>>

=============================================================================
