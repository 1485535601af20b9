------------------------------- MODULE Guard -------------------------------
(***************************************************************************)
(* The guard (guard/guard.cc, guard/locker.h, guard/locker_checking.ah):   *)
(* one lock protects the whole kernel.  A task-level system call enters    *)
(* it and leaves it through Guard::leave(), which first runs every         *)
(* epilogue queued meanwhile.  An interrupt relays its gate's epilogue: at *)
(* once, when the lock is free, and otherwise into the epilogue queue.     *)
(*                                                                         *)
(* Interrupts are taken only between two steps: every stretch the code     *)
(* executes with interrupts disabled is one step.  Each coroutine's stack  *)
(* is abstracted to                                                        *)
(*   pc[c]    where its innermost activity stands,                         *)
(*   depth[c] how many interrupt frames lie on it,                         *)
(*   base[c]  the task-level place below the outermost frame, to which     *)
(*            leave() or the last RETI gives control back.                 *)
(***************************************************************************)
EXTENDS Naturals, Sequences, FiniteSets

CONSTANTS
    Threads,    \* the threads of the application
    Gates,      \* the interrupt sources with an epilogue
    NULL,       \* the null pointer; as a coroutine, main() on the boot stack
    MaxDepth    \* bound: nested interrupt frames on one stack

ASSUME ThreadsAssumption == IsFiniteSet(Threads) /\ NULL \notin Threads
ASSUME GatesAssumption == Gates \subseteq {"watch", "radio"}
ASSUME MaxDepthAssumption == MaxDepth \in Nat \ {0}

VARIABLES
    free,         \* Locker::free
    panic,        \* what Panic::panic() was called with, "none" before
    epilogqueue,  \* Guard::epilogqueue
    queued,       \* Gate::queued(), per gate
    asleep,       \* the CPU is in LPM2
    life,         \* Dispatcher::life, the running coroutine
    pc, base, depth

guardVars == <<free, panic, epilogqueue, queued>>
frameVars == <<base, depth>>

Coroutines == Threads \union {NULL}

\* Where a coroutine gives control back to: the thread's own code, the idle
\* loop before it disables interrupts, and between EINT and LPM2 in CPU::idle().
Bases == {"user", "check", "lpm"}

\* "reti" is the end of an interrupt handler, after leave() has freed the lock.
Unguarded == Bases \union {"reti"}

\* "boot": main() before schedule(); "leave": at the head of leave()'s loop;
\* a gate: about to run that gate's epilogue.
Labels == Unguarded \union Gates \union {"boot", "leave"}

GuardTypeOK ==
    /\ free \in BOOLEAN
    /\ panic \in {"none", "doubleEnter", "doubleRetne"}
    /\ epilogqueue \in Seq(Gates)
    /\ queued \in [Gates -> BOOLEAN]
    /\ asleep \in BOOLEAN
    /\ life \in Coroutines
    /\ pc \in [Coroutines -> Labels]
    /\ base \in [Coroutines -> Bases]
    /\ depth \in [Coroutines -> Nat]

\* main() has entered the guard and started the timer; every thread's stack is
\* set up so that its first switch lands in kickoff(), which calls leave().
GuardInit ==
    /\ free = FALSE
    /\ panic = "none"
    /\ epilogqueue = << >>
    /\ queued = [g \in Gates |-> FALSE]
    /\ asleep = FALSE
    /\ life = NULL
    /\ pc = [c \in Coroutines |-> IF c = NULL THEN "boot" ELSE "leave"]
    /\ base = [c \in Coroutines |-> "user"]
    /\ depth = [c \in Coroutines |-> 0]

(***************************************************************************)
(* Locker, with the checks that LockerChecking weaves in (DEBUG_GUARD).    *)
(***************************************************************************)

\* Mutant: an interrupt takes the lock for free.
AvailAlways == TRUE

Avail == free

\* Mutant: the lock is not set.
EnterForgotten == UNCHANGED <<free, panic>>

Enter ==
    /\ free' = FALSE
    /\ panic' = IF free THEN panic ELSE "doubleEnter"

Retne ==
    /\ free' = TRUE
    /\ panic' = IF free THEN "doubleRetne" ELSE panic

\* The CPU executes code of the running coroutine.
Runs(c) == life = c /\ ~asleep /\ panic = "none"

(***************************************************************************)
(* Guard::leave(): one step per iteration of its loop.                     *)
(***************************************************************************)

\* Dequeue the next gate, clear its flag, and go on to its epilogue.
StartEpilogue(c) ==
    /\ Runs(c)
    /\ pc[c] = "leave"
    /\ epilogqueue # << >>
    /\ LET g == Head(epilogqueue)
       IN  /\ epilogqueue' = Tail(epilogqueue)
           /\ queued' = [queued EXCEPT ![g] = FALSE]
           /\ pc' = [pc EXCEPT ![c] = g]
    /\ UNCHANGED <<free, panic, asleep, life, frameVars>>

\* Mutant: the handler's frame is forgotten.
AfterLeaveNoFrame(c) == base[c]

AfterLeave(c) == IF depth[c] = 0 THEN base[c] ELSE "reti"

\* Nothing is queued: free the lock before interrupts are enabled again.
LeaveGuard(c) ==
    /\ Runs(c)
    /\ pc[c] = "leave"
    /\ epilogqueue = << >>
    /\ Retne
    /\ pc' = [pc EXCEPT ![c] = AfterLeave(c)]
    /\ UNCHANGED <<epilogqueue, queued, asleep, life, frameVars>>

\* RETI: back to the frame below, itself at its RETI, or to the task level.
ReturnFromInterrupt(c) ==
    /\ Runs(c)
    /\ pc[c] = "reti"
    /\ depth' = [depth EXCEPT ![c] = @ - 1]
    /\ pc' = [pc EXCEPT ![c] = IF depth[c] = 1 THEN base[c] ELSE "reti"]
    /\ UNCHANGED <<guardVars, asleep, life, base>>

(***************************************************************************)
(* guardian() and Guard::relay(): an interrupt of gate g whose prologue    *)
(* asks for the epilogue, on the stack of the running coroutine.  It wakes *)
(* the CPU (attribute "wakeup" of the handlers in machine/wrapper.c).      *)
(***************************************************************************)

\* The lock is free: enter it and run the epilogue in this handler.
RelayNow(g) ==
    /\ Avail
    /\ depth[life] < MaxDepth
    /\ Enter
    /\ base' = [base EXCEPT ![life] = IF depth[life] = 0 THEN pc[life] ELSE @]
    /\ depth' = [depth EXCEPT ![life] = @ + 1]
    /\ pc' = [pc EXCEPT ![life] = g]
    /\ UNCHANGED <<epilogqueue, queued>>

\* Mutant: Gate::queued() is not asked.
RelayLaterAgain(g) ==
    /\ ~Avail
    /\ queued' = [queued EXCEPT ![g] = TRUE]
    /\ epilogqueue' = Append(epilogqueue, g)
    /\ UNCHANGED <<free, panic, pc, frameVars>>

\* The lock is taken: queue the gate, unless it is queued already.
RelayLater(g) ==
    /\ ~Avail
    /\ ~queued[g]
    /\ queued' = [queued EXCEPT ![g] = TRUE]
    /\ epilogqueue' = Append(epilogqueue, g)
    /\ UNCHANGED <<free, panic, pc, frameVars>>

RelayDropped(g) ==
    /\ ~Avail
    /\ queued[g]
    /\ UNCHANGED <<guardVars, pc, frameVars>>

Interrupt(g) ==
    /\ panic = "none"
    /\ asleep' = FALSE
    /\ RelayNow(g) \/ RelayLater(g) \/ RelayDropped(g)
    /\ UNCHANGED life

\* An interrupt whose prologue asks for no epilogue still wakes the CPU.
PrologueOnly ==
    /\ panic = "none"
    /\ asleep
    /\ asleep' = FALSE
    /\ UNCHANGED <<guardVars, life, pc, frameVars>>

=============================================================================
