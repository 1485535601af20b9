------------------------------- MODULE Chain -------------------------------
(***************************************************************************)
(* The intrusive list of object/: Queue (queue.cc) and List (list.cc).     *)
(* Items are linked through Chain::next; a queue is a head pointer and a   *)
(* pointer `tail` to the cell that the next enqueue writes: the next field *)
(* of the last item, or head itself.  A list is a record                   *)
(*   head   the first item, or NULL,                                       *)
(*   tail   the item whose next field tail points to; NULL stands for &head,*)
(*   next   the next field of every item, linked or not.                   *)
(* Each operator is one method; it returns the list after the call.        *)
(***************************************************************************)
EXTENDS Naturals, FiniteSets, Sequences

CONSTANTS Items, NULL

ASSUME ItemsAssumption == IsFiniteSet(Items) /\ NULL \notin Items

\* Queue::Queue().  The fields of unlinked items mean nothing.
EmptyList == [head |-> NULL, tail |-> NULL, next |-> [i \in Items |-> NULL]]

(***************************************************************************)
(* What a list holds, following the links from head.                       *)
(***************************************************************************)

\* The k-th item, from 0; NULL behind the last.
Nth(l) ==
    LET Follow == [i \in Items \union {NULL} |->
                     IF i = NULL THEN NULL ELSE l.next[i]]
        nth[k \in 0..Cardinality(Items)] ==
          IF k = 0 THEN l.head ELSE Follow[nth[k - 1]]
    IN  [k \in 0..Cardinality(Items) |-> nth[k]]

\* The links end before an item can come twice.
IsAcyclic(l) == Nth(l)[Cardinality(Items)] = NULL

\* The items in order, up to one more than there are where the links form a cycle.
Contents(l) ==
    LET nth == Nth(l)
    IN  [k \in 1..Cardinality({i \in DOMAIN nth : nth[i] # NULL}) |-> nth[k - 1]]

Linked(l) == LET c == Contents(l) IN {c[k] : k \in DOMAIN c}

(***************************************************************************)
(* Queue                                                                   *)
(***************************************************************************)

Enqueue(l, item) ==
    LET ended == [l.next EXCEPT ![item] = NULL]
    IN  IF l.tail = NULL
          THEN [head |-> item, tail |-> item, next |-> ended]
          ELSE [head |-> l.head, tail |-> item,
                next |-> [ended EXCEPT ![l.tail] = item]]

\* Mutant: tail keeps pointing into an item that has left the queue.
DequeueKeepingTail(l) ==
    IF l.head = NULL THEN l
    ELSE [l EXCEPT !.head = l.next[l.head]]

\* dequeue() returns the head of l, NULL when there is none.
Dequeue(l) ==
    IF l.head = NULL THEN l
    ELSE IF l.next[l.head] = NULL
      THEN [l EXCEPT !.head = NULL, !.tail = NULL]
      ELSE [l EXCEPT !.head = l.next[l.head], !.next[l.head] = NULL]

\* Unlink item, which is behind cur.
UnlinkAfter(l, cur, item) ==
    [head |-> l.head,
     tail |-> IF l.next[item] = NULL THEN cur ELSE l.tail,
     next |-> [l.next EXCEPT ![cur] = l.next[item], ![item] = NULL]]

\* remove(); nothing happens to an item that is not linked.
QueueRemove(l, item) ==
    IF l.head = item THEN Dequeue(l)
    ELSE IF \E cur \in Linked(l) : l.next[cur] = item
      THEN UnlinkAfter(l, CHOOSE cur \in Linked(l) : l.next[cur] = item, item)
      ELSE l

(***************************************************************************)
(* List                                                                    *)
(***************************************************************************)

InsertFirst(l, item) ==
    IF l.head = NULL THEN Enqueue(l, item)
    ELSE [l EXCEPT !.head = item, !.next[item] = l.head]

\* tail is left alone, also when old is the last item.
InsertAfter(l, old, item) ==
    [l EXCEPT !.next = [@ EXCEPT ![item] = l.next[old], ![old] = item]]

=============================================================================
