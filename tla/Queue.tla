------------------------------- MODULE Queue -------------------------------
(***************************************************************************)
(* A Queue or List object, as pointers, in the two ways the kernel uses    *)
(* one.  The ready queue, the waiting rooms and the epilogue queue see any *)
(* sequence of enqueue, dequeue and remove.  The Bellringer's list sees    *)
(* insert_first, insert_after, dequeue and remove, and enqueue only while  *)
(* it is empty.  No caller links an item that is linked (Kernel!OneChain,  *)
(* Kernel!GatesQueuedOnce); some remove one that is not.                   *)
(***************************************************************************)
EXTENDS Chain

VARIABLES
    use,     \* which of the two, for the object's whole life
    queue,   \* the object: a list of Chain
    out      \* what the last dequeue() returned

vars == <<use, queue, out>>

Init ==
    /\ use \in {"ready queue", "bell list"}
    /\ queue = EmptyList
    /\ out = NULL

EnqueueItem(i) ==
    /\ i \notin Linked(queue)
    /\ use = "bell list" => queue.head = NULL
    /\ queue' = Enqueue(queue, i)
    /\ UNCHANGED <<use, out>>

InsertFirstItem(i) ==
    /\ use = "bell list"
    /\ i \notin Linked(queue)
    /\ queue' = InsertFirst(queue, i)
    /\ UNCHANGED <<use, out>>

InsertAfterItem(old, i) ==
    /\ use = "bell list"
    /\ old \in Linked(queue)
    /\ i \notin Linked(queue)
    /\ queue' = InsertAfter(queue, old, i)
    /\ UNCHANGED <<use, out>>

DequeueItem ==
    /\ queue' = Dequeue(queue)
    /\ out' = queue.head
    /\ UNCHANGED use

RemoveItem(i) == queue' = QueueRemove(queue, i) /\ UNCHANGED <<use, out>>

Next ==
    \/ DequeueItem
    \/ \E i \in Items : EnqueueItem(i) \/ InsertFirstItem(i) \/ RemoveItem(i)
    \/ \E old, i \in Items : InsertAfterItem(old, i)

Spec == Init /\ [][Next]_vars

Abstract == INSTANCE Fifo WITH items <- Contents(queue)

\* What each call does to the sequence.  A call that does nothing is a stuttering
\* step of Fifo, so that implementing it is not enough.
CallsAreFifo ==
    /\ DequeueItem => Abstract!Dequeue
    /\ \A i \in Items :
         /\ EnqueueItem(i) => Abstract!Enqueue(i)
         /\ InsertFirstItem(i) => Abstract!InsertFirst(i)
         /\ RemoveItem(i) => Abstract!Unlink(i)
    /\ \A old, i \in Items : InsertAfterItem(old, i) => Abstract!InsertAfter(old, i)

\* tail is at head whenever the list is empty, and elsewhere at the last item,
\* except that List::insert_after() leaves it behind when it appends: only an
\* object that is never appended to again may use it.
TailIsRight ==
    LET c == Contents(queue)
    IN  /\ IsAcyclic(queue)
        /\ c = << >> => queue.tail = NULL
        /\ c # << >> /\ use = "ready queue" => queue.tail = c[Len(c)]

\* The pointer structure behaves as a sequence, through any history of calls,
\* every call has its effect, and the tail is right whenever it is used.
IsFifo == Abstract!Spec /\ [][CallsAreFifo /\ TailIsRight']_vars
=============================================================================
