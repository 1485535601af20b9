---------------------------- MODULE KernelProofs ----------------------------
(***************************************************************************)
(* Proofs about Kernel, for any set of threads, gates and semaphores and   *)
(* any bounds.  First, IInv: the state is well typed, the guard is held    *)
(* exactly by the code that must hold it, and LockerChecking never panics. *)
(* Then, beside it, the queues and lists: a gate's flag tells the truth    *)
(* about the epilogue queue; no thread waits at a semaphore it could take; *)
(* and the ready queue, the rooms and what the threads know of them        *)
(* (myroom, idling, the bells) agree after any sequence of blocking,       *)
(* wake-ups, kills, ticks and preemptions.                                 *)
(***************************************************************************)
EXTENDS Kernel, SequenceLemmas, FunctionTheorems

(***************************************************************************)
(* Typing of the operators on the ready queue.                             *)
(***************************************************************************)

\* Removing a thread, in the queue or not, leaves a queue of threads.
LEMMA UnlinkType ==
    ASSUME NEW queue \in Seq(Threads), NEW t
    PROVE  Unlink(queue, t) \in Seq(Threads)
<1>1. CASE t \notin ToSet(queue)
  BY <1>1 DEF Unlink
<1>2. CASE t \in ToSet(queue)
  <2>1. (CHOOSE k \in DOMAIN queue : queue[k] = t) \in 1..Len(queue)
    BY <1>2 DEF ToSet
  <2> QED
    BY <1>2, <2>1, RemoveAtProperties DEF Unlink
<1> QED
  BY <1>1, <1>2

\* Readying threads leaves a queue of threads.
LEMMA ReadiedType ==
    ASSUME processqueue \in Seq(Threads),
           NEW ts \in SUBSET Threads, NEW q \in Readied(ts)
    PROVE  q \in Seq(Threads)
<1>1. PICK order \in SetToSeqs(ts \ {life}) : q = processqueue \o order
  BY DEF Readied
<1>2. IsFiniteSet(ts \ {life})
  BY ThreadsAssumption, FS_Subset
<1>3. order \in Seq(ts \ {life})
  BY <1>2, OrdersAreSequences
<1>4. order \in Seq(Threads)
  BY <1>3, SeqMonotonic
<1> QED
  BY <1>1, <1>4, ConcatProperties

\* resume() and the switch pick a thread and leave a queue of threads.
LEMMA ResumeType ==
    ASSUME life \in Threads, NEW queue \in Seq(Threads), NEW idles,
           Resume(queue, idles)
    PROVE  life' \in Threads /\ processqueue' \in Seq(Threads)
<1>1. CASE life = NULL \/ idles
  BY <1>1 DEF Resume
<1>2. CASE ~(life = NULL \/ idles)
  <2> DEFINE q == Append(queue, life)
  <2>1. q \in Seq(Threads) /\ q # << >>
    BY AppendProperties
  <2>2. life' = Head(q) /\ processqueue' = Tail(q)
    BY <1>2 DEF Resume
  <2> QED
    BY <2>1, <2>2, HeadTailProperties
<1> QED
  BY <1>1, <1>2

\* exit() and block() pick a thread or start to idle; the caller is in leave().
LEMMA SwitchAwayType ==
    ASSUME life \in Threads, SchedulerTypeOK, SwitchAway,
           base \in [Coroutines -> Bases]
    PROVE  /\ life' \in Threads
           /\ processqueue' \in Seq(Threads)
           /\ idling' \in BOOLEAN
           /\ pc' = [pc EXCEPT ![life] = "leave"]
           /\ base' \in [Coroutines -> Bases]
<1>1. CASE processqueue # << >>
  <2>1. /\ life' = Head(processqueue) /\ processqueue' = Tail(processqueue)
        /\ pc' = [pc EXCEPT ![life] = "leave"] /\ base' = base /\ idling' = idling
    BY <1>1 DEF SwitchAway
  <2> QED
    BY <1>1, <2>1, HeadTailProperties DEF SchedulerTypeOK
<1>2. CASE processqueue = << >>
  <2>1. /\ life' = life /\ processqueue' = processqueue
        /\ pc' = [pc EXCEPT ![life] = "leave"] /\ idling' = TRUE
        /\ base' = [base EXCEPT ![life] = "check"]
    BY <1>2 DEF SwitchAway
  <2> QED
    BY <2>1 DEF SchedulerTypeOK, Bases
<1> QED
  BY <1>1, <1>2

(***************************************************************************)
(* Typing of the operators on rooms, semaphores and buzzers.               *)
(***************************************************************************)

\* wakeup() leaves every thread in a room or in none.
LEMMA WakeUpType ==
    ASSUME SchedulerTypeOK, MeetingTypeOK, NEW ts \in SUBSET Threads, WakeUp(ts)
    PROVE  /\ myroom' \in [Threads -> Rooms \union {NULL}]
           /\ idling' \in BOOLEAN
  BY DEF WakeUp, StillIdling, SchedulerTypeOK, MeetingTypeOK

\* block() appends the running thread to a room.
LEMMA BlockType ==
    ASSUME life \in Threads, MeetingTypeOK, NEW r \in Rooms, Block(r)
    PROVE  /\ myroom' \in [Threads -> Rooms \union {NULL}]
           /\ waiters' \in [Rooms -> Seq(Threads)]
<1>1. waiters[r] \in Seq(Threads)
  BY DEF MeetingTypeOK
<1>2. Append(waiters[r], life) \in Seq(Threads)
  BY <1>1, AppendProperties
<1> QED
  BY <1>2 DEF Block, MeetingTypeOK

\* v() keeps the types of all it touches: queue, rooms and counter.
LEMMA SignalType ==
    ASSUME SchedulerTypeOK, MeetingTypeOK, NEW s \in Semaphores, Signal(s)
    PROVE  /\ SchedulerTypeOK'
           /\ myroom' \in [Threads -> Rooms \union {NULL}]
           /\ waiters' \in [Rooms -> Seq(Threads)]
           /\ counter' \in [Semaphores -> Nat]
<1>0. s \in Rooms /\ waiters[s] \in Seq(Threads)
  BY DEF Rooms, MeetingTypeOK
<1>1. CASE waiters[s] # << >>
  <2>1. Head(waiters[s]) \in Threads /\ Tail(waiters[s]) \in Seq(Threads)
    BY <1>0, <1>1, HeadTailProperties
  <2>2. /\ waiters' = [waiters EXCEPT ![s] = Tail(@)]
        /\ WakeUp({Head(waiters[s])})
        /\ processqueue' \in Readied({Head(waiters[s])})
        /\ counter' = counter
    BY <1>1 DEF Signal
  <2>3. processqueue' \in Seq(Threads)
    BY <2>1, <2>2, ReadiedType DEF SchedulerTypeOK
  <2>4. myroom' \in [Threads -> Rooms \union {NULL}] /\ idling' \in BOOLEAN
    BY <2>1, <2>2, WakeUpType
  <2>5. waiters' \in [Rooms -> Seq(Threads)]
    BY <1>0, <2>1, <2>2 DEF MeetingTypeOK
  <2> QED
    BY <2>2, <2>3, <2>4, <2>5 DEF SchedulerTypeOK, MeetingTypeOK
<1>2. CASE waiters[s] = << >>
  <2>1. /\ counter' = [counter EXCEPT ![s] = @ + 1]
        /\ UNCHANGED <<waiters, myroom, schedulerVars>>
    BY <1>2 DEF Signal
  <2> QED
    BY <2>1 DEF SchedulerTypeOK, MeetingTypeOK, schedulerVars
<1> QED
  BY <1>1, <1>2

\* Those that a tick wakes are threads.
LEMMA SleepersType ==
    ASSUME MeetingTypeOK
    PROVE  Sleepers \in SUBSET Threads
<1>1. ASSUME NEW b \in Ringing
      PROVE  ToSet(waiters[b]) \subseteq Threads
  <2>1. waiters[b] \in Seq(Threads)
    BY <1>1 DEF Ringing, MeetingTypeOK, Rooms
  <2> QED
    BY <2>1 DEF ToSet
<1> QED
  BY <1>1 DEF Sleepers

\* A tick keeps the types of rooms and bells.
LEMMA RingBellsType ==
    ASSUME SchedulerTypeOK, MeetingTypeOK, RingBells
    PROVE  MeetingTypeOK' /\ idling' \in BOOLEAN
<1>1. myroom' \in [Threads -> Rooms \union {NULL}] /\ idling' \in BOOLEAN
  BY SleepersType, WakeUpType DEF RingBells
<1>2. waiters' \in [Rooms -> Seq(Threads)]
  <2>1. \A r \in Rooms : waiters[r] \in Seq(Threads) /\ << >> \in Seq(Threads)
    BY EmptySeq DEF MeetingTypeOK
  <2> QED
    BY <2>1 DEF RingBells
<1>3. due' \in [Threads -> Nat]
  BY DEF RingBells, MeetingTypeOK
<1> QED
  BY <1>1, <1>2, <1>3 DEF RingBells, MeetingTypeOK

(***************************************************************************)
(* The inductive invariant.  GuardInv alone is not inductive: that the     *)
(* running coroutine is a well-formed one needs the types, and that RETI   *)
(* never goes below the bottom of a stack needs FrameInv.                  *)
(***************************************************************************)

GuardPart == GuardTypeOK /\ FrameInv /\ GuardInv /\ NoPanic

DataPart == SchedulerTypeOK /\ MeetingTypeOK /\ alive \subseteq Threads

IInv == GuardPart /\ DataPart

\* main() establishes the invariant before it calls schedule().
LEMMA InitIInv == Init => IInv
<1> SUFFICES ASSUME Init PROVE IInv
  OBVIOUS
<1> USE ThreadsAssumption, BootAssumption
<1>1. GuardPart
  BY EmptySeq DEF Init, GuardInit, GuardPart, GuardTypeOK, FrameInv, GuardInv,
     NoPanic, Coroutines, Labels, Bases, Unguarded
<1>2. SchedulerTypeOK
  <2>1. IsFiniteSet(BootThreads)
    BY FS_Subset
  <2>2. processqueue \in Seq(BootThreads)
    BY <2>1, OrdersAreSequences DEF Init, SchedulerInit
  <2> QED
    BY <2>2, SeqMonotonic DEF Init, SchedulerInit, SchedulerTypeOK
<1>3. MeetingTypeOK
  BY EmptySeq DEF Init, MeetingInit, MeetingTypeOK
<1>4. alive \subseteq Threads
  BY DEF Init
<1> QED
  BY <1>1, <1>2, <1>3, <1>4 DEF IInv, DataPart

(***************************************************************************)
(* System calls.                                                           *)
(***************************************************************************)

\* Whatever a system call does under the guard, the thread that runs after it
\* stands in leave(), with the guard held.
LEMMA SyscallKeepsGuard ==
    ASSUME GuardPart, NEW t \in Threads, Syscall(t),
           life' \in Threads,
           pc' = [pc EXCEPT ![life] = "leave"],
           base' \in [Coroutines -> Bases]
    PROVE  GuardPart'
<1> USE ThreadsAssumption
<1>1. /\ life = t /\ pc[t] = "user" /\ free = TRUE
      /\ free' = FALSE /\ panic' = "none"
      /\ UNCHANGED <<epilogqueue, queued, asleep, depth>>
  BY DEF GuardPart, GuardInv, Syscall, Runs, Enter, Unguarded, Bases, NoPanic
<1>2. \A c \in Coroutines : pc'[c] = IF c = t THEN "leave" ELSE pc[c]
  BY <1>1 DEF GuardPart, GuardTypeOK
<1>3. GuardTypeOK'
  BY <1>1 DEF GuardPart, GuardTypeOK, Labels, Coroutines
<1>4. FrameInv'
  BY <1>1, <1>2 DEF GuardPart, FrameInv, Bases
<1>5. GuardInv'
  <2>1. \A u \in Threads : pc'[u] = "leave"
    BY <1>1, <1>2 DEF GuardPart, GuardInv, Coroutines
  <2>2. pc'[NULL] = "boot"
    BY <1>1, <1>2 DEF GuardPart, GuardInv, Coroutines
  <2> QED
    BY <1>1, <2>1, <2>2 DEF GuardInv, Unguarded, Bases
<1> QED
  BY <1>1, <1>3, <1>4, <1>5 DEF GuardPart, NoPanic

\* p(), whether it takes a count or waits, keeps the invariant.
LEMMA PStep ==
    ASSUME IInv, NEW t \in Threads, NEW s \in Semaphores, P(t, s)
    PROVE  IInv'
<1> USE DEF IInv
<1>1. life = t /\ s \in Rooms /\ base \in [Coroutines -> Bases]
  BY DEF P, Syscall, Runs, Rooms, GuardPart, GuardTypeOK
<1>2. TakeOrWait(s) /\ alive' = alive
  BY DEF P
<1>3. CASE counter[s] > 0
  <2>1. /\ counter' = [counter EXCEPT ![s] = @ - 1]
        /\ pc' = [pc EXCEPT ![life] = "leave"]
        /\ UNCHANGED <<life, base, schedulerVars, myroom, waiters, due>>
    BY <1>2, <1>3 DEF TakeOrWait, DataPart, MeetingTypeOK
  <2>2. GuardPart'
    BY <1>1, <2>1, SyscallKeepsGuard DEF P
  <2>3. counter' \in [Semaphores -> Nat]
    BY <1>3, <2>1 DEF DataPart, MeetingTypeOK
  <2>4. DataPart'
    BY <1>2, <2>1, <2>3 DEF DataPart, SchedulerTypeOK, MeetingTypeOK, schedulerVars
  <2> QED
    BY <2>2, <2>4
<1>4. CASE ~(counter[s] > 0)
  <2>1. Block(s) /\ UNCHANGED <<counter, due>>
    BY <1>2, <1>4 DEF TakeOrWait
  <2>2. SwitchAway
    BY <2>1 DEF Block
  <2>3. GuardPart'
    BY <1>1, <2>2, SwitchAwayType, SyscallKeepsGuard DEF P, DataPart
  <2>4. SchedulerTypeOK'
    BY <1>1, <2>2, SwitchAwayType DEF DataPart, SchedulerTypeOK
  <2>5. MeetingTypeOK'
    BY <1>1, <2>1, BlockType DEF DataPart, MeetingTypeOK
  <2> QED
    BY <1>2, <2>3, <2>4, <2>5 DEF DataPart
<1> QED
  BY <1>3, <1>4

\* v() of a thread keeps the invariant.
LEMMA VStep ==
    ASSUME IInv, NEW t \in Threads, NEW s \in Semaphores, V(t, s)
    PROVE  IInv'
<1> USE DEF IInv
<1>1. /\ life = t /\ Syscall(t) /\ Signal(s)
      /\ pc' = [pc EXCEPT ![life] = "leave"]
      /\ UNCHANGED <<life, base, due, alive>>
  BY DEF V, Syscall, Runs
<1>2. GuardPart'
  BY <1>1, SyscallKeepsGuard DEF GuardPart, GuardTypeOK
<1>3. SchedulerTypeOK' /\ MeetingTypeOK'
  BY <1>1, SignalType DEF DataPart, MeetingTypeOK
<1> QED
  BY <1>1, <1>2, <1>3 DEF DataPart

\* sleep() keeps the invariant.
LEMMA SleepStep ==
    ASSUME IInv, NEW t \in Threads, NEW n \in 1..MaxTicks, Sleep(t, n)
    PROVE  IInv'
<1> USE DEF IInv
<1>1. /\ life = t /\ Syscall(t) /\ t \in Rooms /\ alive' = alive
      /\ due' = [due EXCEPT ![life] = n] /\ Block(life) /\ counter' = counter
      /\ base \in [Coroutines -> Bases]
  BY DEF Sleep, SleepTicks, Syscall, Runs, Rooms, GuardPart, GuardTypeOK
<1>2. SwitchAway
  BY <1>1 DEF Block
<1>3. GuardPart'
  BY <1>1, <1>2, SwitchAwayType, SyscallKeepsGuard DEF DataPart
<1>4. SchedulerTypeOK'
  BY <1>1, <1>2, SwitchAwayType DEF DataPart, SchedulerTypeOK
<1>5. due' \in [Threads -> Nat]
  BY <1>1, BoundsAssumption DEF DataPart, MeetingTypeOK
<1>6. MeetingTypeOK'
  BY <1>1, <1>5, BlockType DEF DataPart, MeetingTypeOK
<1> QED
  BY <1>1, <1>3, <1>4, <1>6 DEF DataPart

\* resume(), called by a thread, keeps the invariant.
LEMMA YieldStep ==
    ASSUME IInv, NEW t \in Threads, Yield(t)
    PROVE  IInv'
<1> USE DEF IInv
<1>1. /\ life = t /\ Syscall(t) /\ Resume(processqueue, idling)
      /\ pc' = [pc EXCEPT ![life] = "leave"]
      /\ UNCHANGED <<base, idling, meetingVars, alive>>
  BY DEF Yield, Syscall, Runs
<1>2. life' \in Threads /\ processqueue' \in Seq(Threads)
  BY <1>1, ResumeType DEF DataPart, SchedulerTypeOK
<1>3. GuardPart'
  BY <1>1, <1>2, SyscallKeepsGuard DEF GuardPart, GuardTypeOK
<1> QED
  BY <1>1, <1>2, <1>3 DEF DataPart, SchedulerTypeOK, MeetingTypeOK, meetingVars

\* exit() keeps the invariant.
LEMMA ExitStep ==
    ASSUME IInv, NEW t \in Threads, Exit(t)
    PROVE  IInv'
<1> USE DEF IInv
<1>1. /\ life = t /\ Syscall(t) /\ SwitchAway /\ alive' = alive \ {t}
      /\ UNCHANGED meetingVars /\ base \in [Coroutines -> Bases]
  BY DEF Exit, Syscall, Runs, GuardPart, GuardTypeOK
<1>2. GuardPart' /\ SchedulerTypeOK'
  BY <1>1, SwitchAwayType, SyscallKeepsGuard DEF DataPart, SchedulerTypeOK
<1> QED
  BY <1>1, <1>2 DEF DataPart, MeetingTypeOK, meetingVars

\* A system call that only touches a device keeps the invariant.
LEMMA DeviceCallStep ==
    ASSUME IInv, NEW t \in Threads, DeviceCall(t)
    PROVE  IInv'
<1> USE DEF IInv
<1>1. /\ life = t /\ Syscall(t) /\ pc' = [pc EXCEPT ![life] = "leave"]
      /\ UNCHANGED <<life, base, schedulerVars, meetingVars, alive>>
  BY DEF DeviceCall, Done, Syscall, Runs
<1>2. GuardPart'
  BY <1>1, SyscallKeepsGuard DEF GuardPart, GuardTypeOK
<1> QED
  BY <1>1, <1>2 DEF DataPart, SchedulerTypeOK, MeetingTypeOK, meetingVars, schedulerVars

\* kill() of a waiting thread, of oneself or of another keeps the invariant.
LEMMA KillStep ==
    ASSUME IInv, NEW t \in Threads, NEW target \in Threads, Kill(t, target)
    PROVE  IInv'
<1> USE DEF IInv
<1>1. /\ life = t /\ Syscall(t) /\ alive' = alive \ {target}
      /\ base \in [Coroutines -> Bases]
  BY DEF Kill, Syscall, Runs, GuardPart, GuardTypeOK
<1>2. CASE KillWaiting(target)
  <2>1. /\ myroom[target] # NULL
        /\ waiters' = [waiters EXCEPT ![myroom[target]] = Unlink(@, target)]
        /\ due' = DueWithout(target, myroom[target])
        /\ myroom' = [myroom EXCEPT ![target] = NULL]
        /\ pc' = [pc EXCEPT ![life] = "leave"]
        /\ UNCHANGED <<life, base, schedulerVars, counter>>
    BY <1>2 DEF KillWaiting
  <2>2. GuardPart'
    BY <1>1, <2>1, SyscallKeepsGuard
  <2>3. myroom[target] \in Rooms /\ waiters[myroom[target]] \in Seq(Threads)
    BY <2>1 DEF DataPart, MeetingTypeOK
  <2>4. waiters' \in [Rooms -> Seq(Threads)]
    BY <2>1, <2>3, UnlinkType DEF DataPart, MeetingTypeOK
  <2>5. due' \in [Threads -> Nat]
    BY <2>1 DEF DueWithout, DataPart, MeetingTypeOK
  <2> QED
    BY <1>1, <2>1, <2>2, <2>4, <2>5
    DEF DataPart, MeetingTypeOK, SchedulerTypeOK, schedulerVars
<1>3. CASE KillSelf(target)
  <2>1. SwitchAway /\ UNCHANGED meetingVars
    BY <1>3 DEF KillSelf
  <2>2. GuardPart' /\ SchedulerTypeOK'
    BY <1>1, <2>1, SwitchAwayType, SyscallKeepsGuard DEF DataPart, SchedulerTypeOK
  <2> QED
    BY <1>1, <2>1, <2>2 DEF DataPart, MeetingTypeOK, meetingVars
<1>4. CASE KillOther(target)
  <2>1. /\ processqueue' = Unlink(processqueue, target)
        /\ pc' = [pc EXCEPT ![life] = "leave"]
        /\ UNCHANGED <<life, base, idling, meetingVars>>
    BY <1>4 DEF KillOther
  <2>2. GuardPart'
    BY <1>1, <2>1, SyscallKeepsGuard
  <2>3. SchedulerTypeOK'
    BY <2>1, UnlinkType DEF DataPart, SchedulerTypeOK
  <2> QED
    BY <1>1, <2>1, <2>2, <2>3 DEF DataPart, MeetingTypeOK, meetingVars
<1> QED
  BY <1>2, <1>3, <1>4 DEF Kill

\* ready() keeps the invariant.
LEMMA ReadyStep ==
    ASSUME IInv, NEW t \in Threads, NEW target \in Threads, Ready(t, target)
    PROVE  IInv'
<1> USE DEF IInv
<1>1. /\ life = t /\ Syscall(t)
      /\ processqueue' \in Readied({target}) /\ idling' = StillIdling({target})
      /\ pc' = [pc EXCEPT ![life] = "leave"] /\ alive' = alive \union {target}
      /\ UNCHANGED <<life, base, meetingVars>>
  BY DEF Ready, Syscall, Runs
<1>2. GuardPart'
  BY <1>1, SyscallKeepsGuard DEF GuardPart, GuardTypeOK
<1>3. SchedulerTypeOK'
  BY <1>1, ReadiedType DEF DataPart, SchedulerTypeOK, StillIdling
<1> QED
  BY <1>1, <1>2, <1>3 DEF DataPart, MeetingTypeOK, meetingVars

(***************************************************************************)
(* Epilogues.                                                              *)
(***************************************************************************)

\* An epilogue runs under the guard, and whoever runs after it is in leave().
LEMMA EpilogueKeepsGuard ==
    ASSUME GuardPart, NEW c \in Threads, NEW g \in {"watch", "radio"},
           Epilogue(c, g), life' \in Threads
    PROVE  GuardPart'
<1> USE ThreadsAssumption
<1>1. /\ life = c /\ pc[c] = g /\ pc' = [pc EXCEPT ![c] = "leave"]
      /\ UNCHANGED <<free, panic, epilogqueue, queued, asleep, base, depth>>
  BY DEF Epilogue, Runs, guardVars, frameVars
<1>2. \A d \in Coroutines : pc'[d] = IF d = c THEN "leave" ELSE pc[d]
  BY <1>1 DEF GuardPart, GuardTypeOK
<1>3. free = FALSE
  BY <1>1 DEF GuardPart, GuardInv, GuardTypeOK, Unguarded, Bases
<1>4. GuardTypeOK'
  BY <1>1 DEF GuardPart, GuardTypeOK, Labels, Coroutines
<1>5. FrameInv'
  BY <1>1, <1>2 DEF GuardPart, FrameInv, Bases
<1>6. GuardInv'
  <2>1. \A u \in Threads : pc'[u] = "leave"
    BY <1>1, <1>2 DEF GuardPart, GuardInv, Coroutines
  <2>2. pc'[NULL] = "boot"
    BY <1>1, <1>2 DEF GuardPart, GuardInv, Coroutines
  <2> QED
    BY <1>1, <1>3, <2>1, <2>2 DEF GuardInv, Unguarded, Bases
<1> QED
  BY <1>1, <1>4, <1>5, <1>6 DEF GuardPart, NoPanic

\* The tick, with its preemption, keeps the invariant.
LEMMA WatchEpilogueStep ==
    ASSUME IInv, NEW c \in Threads, WatchEpilogue(c)
    PROVE  IInv'
<1> USE DEF IInv
<1>1. /\ Epilogue(c, "watch") /\ RingBells /\ life = c /\ alive' = alive
  BY DEF WatchEpilogue, Epilogue, Runs
<1>2. MeetingTypeOK' /\ idling' \in BOOLEAN
  BY <1>1, RingBellsType DEF DataPart
<1>3. PICK queue \in Readied(Sleepers) : Resume(queue, StillIdling(Sleepers))
  BY DEF WatchEpilogue
<1>4. queue \in Seq(Threads)
  BY <1>3, SleepersType, ReadiedType DEF DataPart, SchedulerTypeOK
<1>5. life' \in Threads /\ processqueue' \in Seq(Threads)
  BY <1>1, <1>3, <1>4, ResumeType
<1>6. GuardPart'
  BY <1>1, <1>5, EpilogueKeepsGuard
<1> QED
  BY <1>1, <1>2, <1>5, <1>6 DEF DataPart, SchedulerTypeOK

\* The radio's signal keeps the invariant.
LEMMA RadioEpilogueStep ==
    ASSUME IInv, NEW c \in Threads, RadioEpilogue(c)
    PROVE  IInv'
<1> USE DEF IInv
<1>1. /\ Epilogue(c, "radio") /\ Signal(RadioSem) /\ life = c
      /\ UNCHANGED <<life, due, alive>>
  BY DEF RadioEpilogue, Epilogue, Runs
<1>2. SchedulerTypeOK' /\ MeetingTypeOK'
  BY <1>1, SignalType, RadioAssumption DEF DataPart, MeetingTypeOK
<1>3. GuardPart'
  BY <1>1, EpilogueKeepsGuard
<1> QED
  BY <1>1, <1>2, <1>3 DEF DataPart

(***************************************************************************)
(* leave(), RETI, the idle loop and interrupts.                            *)
(***************************************************************************)

\* DataPart depends on these variables only.
LEMMA DataUnchanged ==
    ASSUME DataPart, UNCHANGED <<schedulerVars, meetingVars, alive>>
    PROVE  DataPart'
  BY DEF DataPart, SchedulerTypeOK, MeetingTypeOK, schedulerVars, meetingVars

\* leave() goes on to the next epilogue with the lock held.
LEMMA StartEpilogueStep ==
    ASSUME GuardPart, NEW c \in Threads, StartEpilogue(c)
    PROVE  GuardPart'
<1> USE ThreadsAssumption
<1> DEFINE g == Head(epilogqueue)
<1>1. /\ life = c /\ pc[c] = "leave" /\ epilogqueue # << >>
      /\ epilogqueue' = Tail(epilogqueue)
      /\ queued' = [queued EXCEPT ![g] = FALSE]
      /\ pc' = [pc EXCEPT ![c] = g]
      /\ UNCHANGED <<free, panic, asleep, life, base, depth>>
  BY DEF StartEpilogue, Runs, frameVars
<1>2. g \in Gates /\ Tail(epilogqueue) \in Seq(Gates)
  BY <1>1, HeadTailProperties DEF GuardPart, GuardTypeOK
<1>3. g \in {"watch", "radio"} /\ g \in Labels
  BY <1>2, GatesAssumption DEF Labels
<1> HIDE DEF g
<1>4. \A d \in Coroutines : pc'[d] = IF d = c THEN g ELSE pc[d]
  BY <1>1 DEF GuardPart, GuardTypeOK
<1>5. GuardTypeOK'
  BY <1>1, <1>2, <1>3 DEF GuardPart, GuardTypeOK
<1>6. FrameInv'
  BY <1>1, <1>3, <1>4 DEF GuardPart, FrameInv, Bases
<1>7. GuardInv'
  <2>1. /\ \A u \in Threads \ {life'} : pc'[u] = "leave"
        /\ pc'[NULL] = "boot"
    BY <1>1, <1>4 DEF GuardPart, GuardInv, Coroutines
  <2>2. free' = FALSE /\ pc'[life'] \notin Unguarded
    BY <1>1, <1>3, <1>4 DEF GuardPart, GuardInv, GuardTypeOK, Unguarded, Bases, Coroutines
  <2> QED
    BY <2>1, <2>2 DEF GuardInv
<1> QED
  BY <1>1, <1>5, <1>6, <1>7 DEF GuardPart, NoPanic

\* leave() frees the lock exactly when it gets out of the guard.
LEMMA LeaveGuardStep ==
    ASSUME GuardPart, NEW c \in Threads, LeaveGuard(c)
    PROVE  GuardPart'
<1> USE ThreadsAssumption
<1>1. /\ life = c /\ pc[c] = "leave" /\ Retne
      /\ pc' = [pc EXCEPT ![c] = AfterLeave(c)]
      /\ UNCHANGED <<epilogqueue, queued, asleep, life, base, depth>>
  BY DEF LeaveGuard, Runs, frameVars
<1>2. free = FALSE
  BY <1>1 DEF GuardPart, GuardInv, GuardTypeOK, Unguarded, Bases
<1>3. free' = TRUE /\ panic' = panic
  BY <1>1, <1>2 DEF Retne
<1>4. /\ AfterLeave(c) \in Unguarded
      /\ AfterLeave(c) \in Bases => depth[c] = 0
      /\ AfterLeave(c) = "reti" => depth[c] > 0
  BY DEF AfterLeave, GuardPart, GuardTypeOK, Unguarded, Bases, Coroutines
<1>5. \A d \in Coroutines : pc'[d] = IF d = c THEN AfterLeave(c) ELSE pc[d]
  BY <1>1 DEF GuardPart, GuardTypeOK
<1>6. GuardTypeOK'
  BY <1>1, <1>3, <1>4 DEF GuardPart, GuardTypeOK, Labels
<1>7. FrameInv'
  BY <1>1, <1>4, <1>5 DEF GuardPart, FrameInv
<1>8. GuardInv'
  BY <1>1, <1>3, <1>4, <1>5 DEF GuardPart, GuardInv, Coroutines
<1> QED
  BY <1>3, <1>6, <1>7, <1>8 DEF GuardPart, NoPanic

\* RETI uncovers a frame that is outside the guard as well.
LEMMA ReturnFromInterruptStep ==
    ASSUME GuardPart, NEW c \in Threads, ReturnFromInterrupt(c)
    PROVE  GuardPart'
<1> USE ThreadsAssumption
<1> DEFINE below == IF depth[c] = 1 THEN base[c] ELSE "reti"
<1>1. /\ life = c /\ pc[c] = "reti"
      /\ depth' = [depth EXCEPT ![c] = @ - 1]
      /\ pc' = [pc EXCEPT ![c] = below]
      /\ UNCHANGED <<free, panic, epilogqueue, queued, asleep, life, base>>
  BY DEF ReturnFromInterrupt, Runs, guardVars
<1>2. depth[c] \in Nat /\ depth[c] > 0 /\ c \in Coroutines
  BY <1>1 DEF GuardPart, GuardTypeOK, FrameInv, Coroutines
<1>3. /\ below \in Unguarded
      /\ below \in Bases => depth[c] - 1 = 0
      /\ below = "reti" => depth[c] - 1 > 0
  BY <1>2 DEF GuardPart, GuardTypeOK, Unguarded, Bases
<1> HIDE DEF below
<1>4. \A d \in Coroutines : /\ pc'[d] = IF d = c THEN below ELSE pc[d]
                            /\ depth'[d] = IF d = c THEN depth[c] - 1 ELSE depth[d]
  BY <1>1 DEF GuardPart, GuardTypeOK
<1>5. GuardTypeOK'
  BY <1>1, <1>2, <1>3 DEF GuardPart, GuardTypeOK, Labels
<1>6. FrameInv'
  BY <1>3, <1>4 DEF GuardPart, FrameInv
<1>7. GuardInv'
  BY <1>1, <1>2, <1>3, <1>4 DEF GuardPart, GuardInv, Coroutines, Unguarded
<1> QED
  BY <1>1, <1>5, <1>6, <1>7 DEF GuardPart, NoPanic

\* Leaving the idle loop takes the free lock, and hands it to who runs next.
LEMMA EndIdlingStep ==
    ASSUME IInv, NEW t \in Threads, EndIdling(t)
    PROVE  GuardPart' /\ SchedulerTypeOK'
<1> USE ThreadsAssumption DEF IInv
<1>1. /\ life = t /\ pc[t] = "check" /\ free = TRUE /\ free' = FALSE
      /\ panic' = panic
      /\ pc' = [pc EXCEPT ![t] = "leave"] /\ base' = [base EXCEPT ![t] = "user"]
      /\ UNCHANGED <<epilogqueue, queued, asleep, depth>>
  BY DEF EndIdling, Runs, Enter, GuardPart, GuardInv, Unguarded, Bases
<1>2. SchedulerTypeOK' /\ life' \in Threads
  <2>1. CASE idling
    <3>1. /\ processqueue # << >> /\ idling' = FALSE
          /\ life' = Head(processqueue) /\ processqueue' = Tail(processqueue)
      BY <2>1 DEF EndIdling
    <3> QED
      BY <3>1, HeadTailProperties DEF DataPart, SchedulerTypeOK
  <2>2. CASE ~idling
    <3>1. life' = t /\ processqueue' = processqueue /\ idling' = FALSE
      BY <2>2 DEF EndIdling
    <3> QED
      BY <3>1 DEF DataPart, SchedulerTypeOK
  <2> QED
    BY <2>1, <2>2
<1>3. \A d \in Coroutines : pc'[d] = IF d = t THEN "leave" ELSE pc[d]
  BY <1>1 DEF GuardPart, GuardTypeOK
<1>4. GuardTypeOK'
  BY <1>1, <1>2 DEF GuardPart, GuardTypeOK, Labels, Bases, Coroutines
<1>5. FrameInv'
  BY <1>1, <1>3 DEF GuardPart, FrameInv, Bases
<1>6. GuardInv'
  <2>1. /\ \A u \in Threads : pc'[u] = "leave"
        /\ pc'[NULL] = "boot"
    BY <1>1, <1>3 DEF GuardPart, GuardInv, Coroutines
  <2> QED
    BY <1>1, <1>2, <2>1 DEF GuardInv, Unguarded, Bases
<1> QED
  BY <1>1, <1>2, <1>4, <1>5, <1>6 DEF GuardPart, NoPanic

\* Within the idle loop the thread stays outside the guard.
LEMMA IdlingKeepsGuard ==
    ASSUME GuardPart, NEW t \in Threads, PrepareSleep(t) \/ SleepNow(t)
    PROVE  GuardPart'
<1> USE ThreadsAssumption
<1> DEFINE place == IF pc[t] = "check" THEN "lpm" ELSE "check"
<1>1. /\ life = t /\ pc[t] \in {"check", "lpm"} /\ asleep' \in BOOLEAN
      /\ pc' = [pc EXCEPT ![t] = place]
      /\ UNCHANGED <<free, panic, epilogqueue, queued, life, base, depth>>
  BY DEF PrepareSleep, SleepNow, Runs, guardVars, frameVars, GuardPart, GuardTypeOK
<1>2. place \in Bases /\ place \in Unguarded /\ place # "reti"
  BY DEF Bases, Unguarded
<1> HIDE DEF place
<1>3. \A d \in Coroutines : pc'[d] = IF d = t THEN place ELSE pc[d]
  BY <1>1 DEF GuardPart, GuardTypeOK
<1>4. t \in Coroutines /\ pc[t] \in Bases
  BY <1>1 DEF Coroutines, Bases
<1>5. GuardTypeOK'
  BY <1>1, <1>2 DEF GuardPart, GuardTypeOK, Labels
<1>6. FrameInv'
  BY <1>1, <1>2, <1>3, <1>4 DEF GuardPart, FrameInv
<1>7. GuardInv'
  BY <1>1, <1>2, <1>3, <1>4 DEF GuardPart, GuardInv, Coroutines, Unguarded
<1> QED
  BY <1>1, <1>5, <1>6, <1>7 DEF GuardPart, NoPanic

\* main() hands the lock it has entered to the first thread.
LEMMA BootStep ==
    ASSUME IInv, Boot
    PROVE  IInv'
<1> USE ThreadsAssumption DEF IInv
<1>1. /\ life = NULL /\ processqueue # << >>
      /\ life' = Head(processqueue) /\ processqueue' = Tail(processqueue)
      /\ UNCHANGED <<free, panic, epilogqueue, queued, asleep, pc, base, depth,
                     idling, meetingVars, alive>>
  BY DEF Boot, Schedule, Runs, guardVars, frameVars
<1>2. life' \in Threads /\ processqueue' \in Seq(Threads)
  BY <1>1, HeadTailProperties DEF DataPart, SchedulerTypeOK
<1>3. free = FALSE
  BY <1>1 DEF GuardPart, GuardInv, GuardTypeOK, Unguarded, Bases
<1>4. GuardTypeOK' /\ FrameInv' /\ NoPanic'
  BY <1>1, <1>2 DEF GuardPart, GuardTypeOK, FrameInv, NoPanic, Coroutines
<1>5. GuardInv'
  BY <1>1, <1>2, <1>3 DEF GuardPart, GuardInv, Unguarded, Bases
<1> QED
  BY <1>1, <1>2, <1>4, <1>5
  DEF GuardPart, DataPart, SchedulerTypeOK, MeetingTypeOK, meetingVars

\* An interrupt enters the guard only when it is free, and then from task level
\* or from the RETI of another handler.
LEMMA InterruptStep ==
    ASSUME GuardPart, NEW g \in Gates, Interrupt(g)
    PROVE  GuardPart'
<1> USE ThreadsAssumption
<1>1. asleep' = FALSE /\ life' = life /\ panic = "none" /\ g \in {"watch", "radio"}
  BY GatesAssumption DEF Interrupt
<1>2. CASE RelayNow(g)
  <2>1. /\ free = TRUE /\ free' = FALSE /\ panic' = panic
        /\ base' = [base EXCEPT ![life] = IF depth[life] = 0 THEN pc[life] ELSE @]
        /\ depth' = [depth EXCEPT ![life] = @ + 1]
        /\ pc' = [pc EXCEPT ![life] = g]
        /\ UNCHANGED <<epilogqueue, queued>>
    BY <1>2 DEF RelayNow, Avail, Enter
  <2>2. pc[life] \in Unguarded /\ life \in Threads
    BY <2>1 DEF GuardPart, GuardInv, GuardTypeOK, Unguarded, Bases, Coroutines
  <2>3. depth[life] = 0 => pc[life] \in Bases
    BY <2>2 DEF GuardPart, FrameInv, Unguarded, Coroutines
  <2>4. base' \in [Coroutines -> Bases]
    BY <2>1, <2>3 DEF GuardPart, GuardTypeOK
  <2>5. \A d \in Coroutines :
          /\ pc'[d] = IF d = life THEN g ELSE pc[d]
          /\ depth'[d] = IF d = life THEN depth[d] + 1 ELSE depth[d]
    BY <2>1 DEF GuardPart, GuardTypeOK
  <2>6. GuardTypeOK'
    <3>1. depth' \in [Coroutines -> Nat]
      BY <2>1 DEF GuardPart, GuardTypeOK
    <3>2. pc' \in [Coroutines -> Labels] /\ Labels' = Labels
      BY <2>1 DEF GuardPart, GuardTypeOK, Labels
    <3> QED
      BY <1>1, <2>1, <2>4, <3>1, <3>2 DEF GuardPart, GuardTypeOK
  <2>7. FrameInv'
    BY <1>1, <2>5 DEF GuardPart, FrameInv, Bases
  <2>8. GuardInv'
    <3>1. /\ \A u \in Threads \ {life'} : pc'[u] = "leave"
          /\ pc'[NULL] = "boot"
      BY <1>1, <2>2, <2>5 DEF GuardPart, GuardInv, Coroutines
    <3>2. free' = FALSE /\ pc'[life'] \notin Unguarded
      BY <1>1, <2>1, <2>2, <2>5 DEF Coroutines, Unguarded, Bases
    <3> QED
      BY <3>1, <3>2 DEF GuardInv
  <2> QED
    BY <1>1, <2>1, <2>6, <2>7, <2>8 DEF GuardPart, NoPanic
<1>3. CASE RelayLater(g)
  <2>1. /\ queued' = [queued EXCEPT ![g] = TRUE]
        /\ epilogqueue' = Append(epilogqueue, g)
        /\ UNCHANGED <<free, panic, pc, base, depth>>
    BY <1>3 DEF RelayLater, frameVars
  <2>2. epilogqueue' \in Seq(Gates)
    BY <2>1, AppendProperties DEF GuardPart, GuardTypeOK
  <2> QED
    BY <1>1, <2>1, <2>2 DEF GuardPart, GuardTypeOK, FrameInv, GuardInv, NoPanic
<1>4. CASE RelayDropped(g)
  <2>1. UNCHANGED <<free, panic, epilogqueue, queued, pc, base, depth>>
    BY <1>4 DEF RelayDropped, guardVars, frameVars
  <2> QED
    BY <1>1, <2>1 DEF GuardPart, GuardTypeOK, FrameInv, GuardInv, NoPanic
<1> QED
  BY <1>2, <1>3, <1>4 DEF Interrupt

\* An interrupt without an epilogue only wakes the CPU.
LEMMA PrologueOnlyStep ==
    ASSUME GuardPart, PrologueOnly
    PROVE  GuardPart'
<1>1. /\ asleep' = FALSE
      /\ UNCHANGED <<free, panic, epilogqueue, queued, life, pc, base, depth>>
  BY DEF PrologueOnly, guardVars, frameVars
<1> QED
  BY <1>1 DEF GuardPart, GuardTypeOK, FrameInv, GuardInv, NoPanic

(***************************************************************************)
(* The theorems.                                                           *)
(***************************************************************************)

\* Every step of the kernel keeps the inductive invariant.
LEMMA NextIInv == IInv /\ [Next]_vars => IInv'
<1> SUFFICES ASSUME IInv, [Next]_vars
             PROVE  IInv'
  OBVIOUS
<1>1. ASSUME NEW t \in Threads, GuardStep(t)
      PROVE  IInv'
  <2>1. GuardPart'
    BY <1>1, StartEpilogueStep, LeaveGuardStep, ReturnFromInterruptStep
    DEF GuardStep, IInv
  <2>2. DataPart'
    BY <1>1, DataUnchanged DEF GuardStep, IInv
  <2> QED
    BY <2>1, <2>2 DEF IInv
<1>2. ASSUME NEW t \in Threads, IdleStep(t)
      PROVE  IInv'
  <2>1. UNCHANGED <<meetingVars, alive>>
    BY <1>2 DEF IdleStep
  <2>2. CASE EndIdling(t)
    BY <2>1, <2>2, EndIdlingStep DEF IInv, DataPart, MeetingTypeOK, meetingVars
  <2>3. CASE PrepareSleep(t) \/ SleepNow(t)
    <3>1. GuardPart'
      BY <2>3, IdlingKeepsGuard DEF IInv
    <3>2. UNCHANGED schedulerVars
      BY <2>3 DEF PrepareSleep, SleepNow
    <3>3. DataPart'
      BY <2>1, <3>2, DataUnchanged DEF IInv
    <3> QED
      BY <3>1, <3>3 DEF IInv
  <2> QED
    BY <1>2, <2>2, <2>3 DEF IdleStep
<1>3. ASSUME NEW t \in Threads, WatchEpilogue(t) \/ RadioEpilogue(t)
      PROVE  IInv'
  BY <1>3, WatchEpilogueStep, RadioEpilogueStep
<1>4. ASSUME NEW t \in Threads, SyscallStep(t)
      PROVE  IInv'
  BY <1>4, PStep, VStep, SleepStep, YieldStep, ExitStep, DeviceCallStep, KillStep,
     ReadyStep
  DEF SyscallStep
<1>5. ASSUME NEW g \in Gates, GateInterrupt(g)
      PROVE  IInv'
  <2>1. GuardPart'
    BY <1>5, InterruptStep DEF GateInterrupt, IInv
  <2>2. DataPart'
    BY <1>5, DataUnchanged DEF GateInterrupt, IInv
  <2> QED
    BY <2>1, <2>2 DEF IInv
<1>6. CASE OtherInterrupt
  <2>1. GuardPart'
    BY <1>6, PrologueOnlyStep DEF OtherInterrupt, IInv
  <2>2. DataPart'
    BY <1>6, DataUnchanged DEF OtherInterrupt, IInv
  <2> QED
    BY <2>1, <2>2 DEF IInv
<1>7. CASE UNCHANGED vars
  <2>1. UNCHANGED <<free, panic, epilogqueue, queued, asleep, life, pc, base, depth,
                    schedulerVars, meetingVars, alive>>
    BY <1>7 DEF vars, guardVars, frameVars
  <2>2. GuardPart'
    BY <2>1 DEF IInv, GuardPart, GuardTypeOK, FrameInv, GuardInv, NoPanic
  <2>3. DataPart'
    BY <2>1, DataUnchanged DEF IInv
  <2> QED
    BY <2>2, <2>3 DEF IInv
<1> QED
  BY <1>1, <1>2, <1>3, <1>4, <1>5, <1>6, <1>7, BootStep DEF Next, KernelStep

\* IInv holds in every reachable state, whatever the threads call and whenever
\* the interrupts come.
THEOREM Invariance == Spec => []IInv
<1> QED
  BY InitIInv, NextIInv, PTL DEF Spec

\* Every variable of the kernel keeps its type: the ready queue, the rooms and
\* the epilogue queue hold threads and gates only, and no counter goes below 0
\* (Semaphore::p() decrements one).
THEOREM TypeCorrect == Spec => []TypeOK
<1>1. IInv => TypeOK
  BY DEF IInv, GuardPart, DataPart, TypeOK
<1> QED
  BY <1>1, Invariance, PTL

\* The lock is free exactly while the running coroutine is outside the guard,
\* and every other one has still a leave() to do: Secure, kickoff(), relay() and
\* the switch hand the one lock on correctly.
THEOREM GuardHeld == Spec => []GuardInv
<1>1. IInv => GuardInv
  BY DEF IInv, GuardPart
<1> QED
  BY <1>1, Invariance, PTL

\* Threads' code and the idle loop never run on top of an interrupt frame, and
\* no stack returns from more interrupts than it took.
THEOREM FramesNested == Spec => []FrameInv
<1>1. IInv => FrameInv
  BY DEF IInv, GuardPart
<1> QED
  BY <1>1, Invariance, PTL

\* The checks of locker_checking.ah never fire: no enter() of a taken lock, no
\* retne() of a free one.
THEOREM NeverPanics == Spec => []NoPanic
<1>1. IInv => NoPanic
  BY DEF IInv, GuardPart
<1> QED
  BY <1>1, Invariance, PTL


(***************************************************************************)
(* Gate::queued() and the epilogue queue.                                  *)
(***************************************************************************)

\* The two steps that write the epilogue queue keep it in line with the flags.
LEMMA GatesStep ==
    ASSUME GuardTypeOK, GatesQueuedOnce,
           \/ \E c \in Coroutines : StartEpilogue(c)
           \/ \E g \in Gates : RelayLater(g)
           \/ UNCHANGED <<epilogqueue, queued>>
    PROVE  GatesQueuedOnce'
<1>1. ASSUME NEW c \in Coroutines, StartEpilogue(c)
      PROVE  GatesQueuedOnce'
  <2> DEFINE g == Head(epilogqueue)
  <2>1. /\ epilogqueue # << >> /\ epilogqueue' = Tail(epilogqueue)
        /\ queued' = [queued EXCEPT ![g] = FALSE]
    BY <1>1 DEF StartEpilogue
  <2>2. /\ IsInjective(epilogqueue')
        /\ ToSet(epilogqueue') = ToSet(epilogqueue) \ {g}
    BY <2>1, TailOnce DEF GuardTypeOK, GatesQueuedOnce
  <2>3. \A h \in Gates : queued'[h] <=> queued[h] /\ h # g
    BY <2>1 DEF GuardTypeOK
  <2> QED
    BY <2>2, <2>3 DEF GatesQueuedOnce
<1>2. ASSUME NEW g \in Gates, RelayLater(g)
      PROVE  GatesQueuedOnce'
  <2>1. /\ ~queued[g]
        /\ queued' = [queued EXCEPT ![g] = TRUE]
        /\ epilogqueue' = Append(epilogqueue, g)
    BY <1>2 DEF RelayLater
  <2>2. g \notin ToSet(epilogqueue)
    BY <2>1 DEF GatesQueuedOnce
  <2>3. /\ IsInjective(epilogqueue')
        /\ ToSet(epilogqueue') = ToSet(epilogqueue) \union {g}
    BY <2>1, <2>2, AppendOnce DEF GuardTypeOK, GatesQueuedOnce
  <2>4. \A h \in Gates : queued'[h] <=> queued[h] \/ h = g
    BY <2>1 DEF GuardTypeOK
  <2> QED
    BY <2>3, <2>4 DEF GatesQueuedOnce
<1>3. CASE UNCHANGED <<epilogqueue, queued>>
  BY <1>3 DEF GatesQueuedOnce
<1> QED
  BY <1>1, <1>2, <1>3

\* Every other step leaves the epilogue queue alone.
LEMMA EpiloguesTouchedBy ==
    ASSUME [Next]_vars
    PROVE  \/ \E c \in Coroutines : StartEpilogue(c)
           \/ \E g \in Gates : RelayLater(g)
           \/ UNCHANGED <<epilogqueue, queued>>
<1>1. ASSUME NEW t \in Threads, SyscallStep(t)
      PROVE  UNCHANGED <<epilogqueue, queued>>
  BY <1>1 DEF SyscallStep, P, V, Sleep, Yield, Exit, DeviceCall, Kill, Ready, Syscall
<1>2. ASSUME NEW t \in Threads, WatchEpilogue(t) \/ RadioEpilogue(t) \/ IdleStep(t)
      PROVE  UNCHANGED <<epilogqueue, queued>>
  BY <1>2 DEF WatchEpilogue, RadioEpilogue, Epilogue, IdleStep, EndIdling,
     PrepareSleep, SleepNow, guardVars
<1>3. ASSUME NEW t \in Threads, GuardStep(t)
      PROVE  StartEpilogue(t) \/ UNCHANGED <<epilogqueue, queued>>
  BY <1>3 DEF GuardStep, LeaveGuard, ReturnFromInterrupt, guardVars
<1>4. ASSUME NEW g \in Gates, GateInterrupt(g)
      PROVE  RelayLater(g) \/ UNCHANGED <<epilogqueue, queued>>
  BY <1>4 DEF GateInterrupt, Interrupt, RelayNow, RelayDropped, guardVars
<1>5. CASE Boot \/ OtherInterrupt
  BY <1>5 DEF Boot, Schedule, OtherInterrupt, PrologueOnly, guardVars
<1>6. CASE UNCHANGED vars
  BY <1>6 DEF vars, guardVars
<1> QED
  BY <1>1, <1>2, <1>3, <1>4, <1>5, <1>6 DEF Next, KernelStep, Coroutines

\* A gate is in the epilogue queue exactly while its flag is set, and at most
\* once: relay() and leave() never let a flag go stale.
THEOREM GatesInStep == Spec => []GatesQueuedOnce
<1>1. Init => GatesQueuedOnce
  BY DEF Init, GuardInit, GatesQueuedOnce, IsInjective, ToSet
<1>2. IInv /\ GatesQueuedOnce /\ [Next]_vars => GatesQueuedOnce'
  BY GatesStep, EpiloguesTouchedBy DEF IInv, GuardPart
<1> QED
  BY <1>1, <1>2, Invariance, PTL DEF Spec

(***************************************************************************)
(* Semaphores.                                                             *)
(***************************************************************************)

\* Removing a thread from an empty room leaves it empty.
LEMMA UnlinkNothing ==
    ASSUME NEW t
    PROVE  Unlink(<< >>, t) = << >>
  BY DEF Unlink, ToSet

\* p() waits only at a counter of 0, and takes only from a positive one.
LEMMA TakeOrWaitInVain ==
    ASSUME MeetingTypeOK, NoneWaitsInVain, NEW s \in Semaphores, TakeOrWait(s)
    PROVE  NoneWaitsInVain'
<1>1. CASE counter[s] > 0 /\ counter' = [counter EXCEPT ![s] = @ - 1] /\ waiters' = waiters
  BY <1>1 DEF MeetingTypeOK, NoneWaitsInVain
<1>2. CASE counter[s] = 0 /\ Block(s) /\ counter' = counter
  BY <1>2 DEF Block, MeetingTypeOK, NoneWaitsInVain, Rooms
<1> QED
  BY <1>1, <1>2 DEF TakeOrWait

\* v() counts only when nobody waits.
LEMMA SignalInVain ==
    ASSUME MeetingTypeOK, NoneWaitsInVain, NEW s \in Semaphores, Signal(s)
    PROVE  NoneWaitsInVain'
<1>1. CASE waiters[s] # << >>
  <2>1. /\ waiters' = [waiters EXCEPT ![s] = Tail(@)] /\ counter' = counter
        /\ counter[s] = 0
    BY <1>1 DEF Signal, NoneWaitsInVain, MeetingTypeOK
  <2> QED
    BY <2>1 DEF MeetingTypeOK, NoneWaitsInVain, Rooms
<1>2. CASE waiters[s] = << >>
  <2>1. counter' = [counter EXCEPT ![s] = @ + 1] /\ waiters' = waiters
    BY <1>2 DEF Signal
  <2> QED
    BY <1>2, <2>1 DEF MeetingTypeOK, NoneWaitsInVain
<1> QED
  BY <1>1, <1>2

\* kill() takes a thread out of a room and puts none in.
LEMMA KillWaitingInVain ==
    ASSUME MeetingTypeOK, NoneWaitsInVain, NEW t \in Threads, KillWaiting(t)
    PROVE  NoneWaitsInVain'
<1>1. /\ waiters' = [waiters EXCEPT ![myroom[t]] = Unlink(@, t)]
      /\ counter' = counter
  BY DEF KillWaiting
<1>2. \A s \in Semaphores : waiters[s] = << >> => waiters'[s] = << >>
  BY <1>1, UnlinkNothing DEF MeetingTypeOK, Rooms
<1> QED
  BY <1>1, <1>2 DEF NoneWaitsInVain

\* Buzzers are no semaphores: sleeping and ringing leave the latter alone.
LEMMA BuzzersInVain ==
    ASSUME MeetingTypeOK, NoneWaitsInVain, counter' = counter,
           \/ RingBells
           \/ life \in Threads /\ Block(life)
    PROVE  NoneWaitsInVain'
<1>1. \A s \in Semaphores : waiters'[s] = waiters[s] \/ waiters'[s] = << >>
  <2>1. CASE RingBells
    BY <2>1 DEF RingBells, Rooms
  <2>2. CASE life \in Threads /\ Block(life)
    BY <2>2, RoomsAssumption DEF Block, MeetingTypeOK, Rooms, Coroutines
  <2> QED
    BY <2>1, <2>2
<1> QED
  BY <1>1 DEF NoneWaitsInVain

\* No thread waits at a semaphore whose counter is positive: p() and v() never
\* leave a signal unused while somebody waits for it.
THEOREM NoneInVain == Spec => []NoneWaitsInVain
<1>1. Init => NoneWaitsInVain
  BY DEF Init, MeetingInit, NoneWaitsInVain, Rooms
<1>2. IInv /\ NoneWaitsInVain /\ [Next]_vars => NoneWaitsInVain'
  <2> SUFFICES ASSUME IInv, NoneWaitsInVain, [Next]_vars
               PROVE  NoneWaitsInVain'
    OBVIOUS
  <2>1. MeetingTypeOK
    BY DEF IInv, DataPart
  <2>2. CASE UNCHANGED <<counter, waiters>>
    BY <2>2 DEF NoneWaitsInVain
  <2>3. ASSUME NEW t \in Threads, SyscallStep(t)
        PROVE  NoneWaitsInVain'
    <3>1. ASSUME NEW s \in Semaphores, P(t, s) \/ V(t, s)
          PROVE  NoneWaitsInVain'
      BY <2>1, <3>1, TakeOrWaitInVain, SignalInVain DEF P, V
    <3>2. ASSUME NEW n \in 1..MaxTicks, Sleep(t, n)
          PROVE  NoneWaitsInVain'
      BY <2>1, <3>2, BuzzersInVain DEF Sleep, SleepTicks, Syscall, Runs
    <3>3. ASSUME NEW target \in Threads, Kill(t, target)
          PROVE  NoneWaitsInVain'
      BY <2>1, <2>2, <3>3, KillWaitingInVain DEF Kill, KillSelf, KillOther, meetingVars
    <3>4. ASSUME NEW target \in Threads, Ready(t, target)
          PROVE  NoneWaitsInVain'
      BY <2>2, <3>4 DEF Ready, meetingVars
    <3>5. CASE Yield(t) \/ Exit(t) \/ DeviceCall(t)
      BY <2>2, <3>5 DEF Yield, Exit, DeviceCall, meetingVars
    <3> QED
      BY <2>3, <3>1, <3>2, <3>3, <3>4, <3>5 DEF SyscallStep
  <2>4. ASSUME NEW t \in Threads, WatchEpilogue(t)
        PROVE  NoneWaitsInVain'
    BY <2>1, <2>4, BuzzersInVain DEF WatchEpilogue, RingBells
  <2>5. ASSUME NEW t \in Threads, RadioEpilogue(t)
        PROVE  NoneWaitsInVain'
    BY <2>1, <2>5, SignalInVain, RadioAssumption DEF RadioEpilogue
  <2>6. ASSUME NEW t \in Threads, GuardStep(t) \/ IdleStep(t)
        PROVE  NoneWaitsInVain'
    BY <2>2, <2>6 DEF GuardStep, IdleStep, meetingVars
  <2>7. ASSUME NEW g \in Gates, GateInterrupt(g)
        PROVE  NoneWaitsInVain'
    BY <2>2, <2>7 DEF GateInterrupt, meetingVars
  <2>8. CASE Boot \/ OtherInterrupt \/ UNCHANGED vars
    BY <2>2, <2>8 DEF Boot, OtherInterrupt, vars, meetingVars
  <2> QED
    BY <2>3, <2>4, <2>5, <2>6, <2>7, <2>8 DEF Next, KernelStep
<1> QED
  BY <1>1, <1>2, Invariance, PTL DEF Spec

(***************************************************************************)
(* The lists.                                                              *)
(***************************************************************************)

\* Queue::remove() takes the thread out and leaves the others, once each.
LEMMA UnlinkOnce ==
    ASSUME NEW q \in Seq(Threads), IsInjective(q), NEW t
    PROVE  /\ IsInjective(Unlink(q, t))
           /\ ToSet(Unlink(q, t)) = ToSet(q) \ {t}
<1>1. CASE t \notin ToSet(q)
  BY <1>1 DEF Unlink
<1>2. CASE t \in ToSet(q)
  <2> DEFINE k == CHOOSE i \in DOMAIN q : q[i] = t
  <2>1. k \in 1..Len(q) /\ q[k] = t
    BY <1>2, LenProperties DEF ToSet
  <2>2. Unlink(q, t) = RemoveAt(q, k)
    BY <1>2 DEF Unlink
  <2> HIDE DEF k
  <2> QED
    BY <2>1, <2>2, RemoveAtOnce
<1> QED
  BY <1>1, <1>2

(***************************************************************************)
(* The invariant.  ListsInv and FlagsInv are not inductive: that a system  *)
(* call comes from a thread that is not blocked rests on IdlesInLoop, and  *)
(* that the tick and kill() leave no alarm without a sleeper on            *)
(* BuzzersOwn.  OneChain follows from NoneTwice, RoomsAgree and            *)
(* ReadyWaitsNot.                                                          *)
(***************************************************************************)

NoneTwice ==
    /\ IsInjective(processqueue)
    /\ \A r \in Rooms : IsInjective(waiters[r])

\* A thread in the ready queue waits in no room.
ReadyWaitsNot == \A t \in ToSet(processqueue) : myroom[t] = NULL

ListsPart == NoneTwice /\ RoomsAgree /\ ReadyWaitsNot /\ NoZombie /\ NoLostThread

\* The task-level place of the running coroutine, below its interrupt frames.
TaskLevel == IF pc[life] \in Bases THEN pc[life] ELSE base[life]

\* `idling' is set only while a thread is in, or on its way to, the idle loop.
IdlesInLoop == idling => life # NULL /\ TaskLevel \in {"check", "lpm"}

\* A buzzer belongs to one thread, which alone sleeps on it.
BuzzersOwn == \A t, b \in Threads : myroom[t] = b => t = b

BellPart == SleeperHasAlarm /\ BuzzersOwn

LInv == ListsPart /\ IdlesIffBlocked /\ IdlesInLoop /\ BellPart

(***************************************************************************)
(* What the scheduler's operators do to the ready queue as a set.          *)
(***************************************************************************)

\* ready() appends the threads that do not run, once each.
LEMMA ReadiedOnce ==
    ASSUME processqueue \in Seq(Threads), IsInjective(processqueue),
           NEW ts \in SUBSET Threads, ts \intersect ToSet(processqueue) = {},
           NEW queue \in Readied(ts)
    PROVE  /\ queue \in Seq(Threads)
           /\ IsInjective(queue)
           /\ ToSet(queue) = ToSet(processqueue) \union (ts \ {life})
<1>1. PICK order \in SetToSeqs(ts \ {life}) : queue = processqueue \o order
  BY DEF Readied
<1>2. IsFiniteSet(ts \ {life})
  BY ThreadsAssumption, FS_Subset
<1>3. /\ order \in Seq(ts \ {life}) /\ IsInjective(order)
      /\ ToSet(order) = ts \ {life}
  BY <1>2, OrdersOnce
<1>4. order \in Seq(Threads)
  BY <1>3, SeqMonotonic
<1>5. ToSet(processqueue) \intersect ToSet(order) = {}
  BY <1>3
<1> QED
  BY <1>1, <1>3, <1>4, <1>5, ConcatOnce

\* exit() and block() take the next thread out of the queue, or idle.
LEMMA SwitchAwayOnce ==
    ASSUME processqueue \in Seq(Threads), IsInjective(processqueue), SwitchAway
    PROVE  \/ /\ life' \in ToSet(processqueue)
              /\ IsInjective(processqueue')
              /\ ToSet(processqueue') = ToSet(processqueue) \ {life'}
              /\ UNCHANGED <<idling, base>>
           \/ /\ ToSet(processqueue) = {}
              /\ UNCHANGED <<life, processqueue>>
              /\ idling' = TRUE
              /\ base' = [base EXCEPT ![life] = "check"]
<1>1. CASE processqueue # << >>
  <2>1. /\ life' = Head(processqueue) /\ processqueue' = Tail(processqueue)
        /\ UNCHANGED <<idling, base>>
    BY <1>1 DEF SwitchAway
  <2>2. /\ IsInjective(processqueue')
        /\ ToSet(processqueue') = ToSet(processqueue) \ {life'}
    BY <1>1, <2>1, TailOnce
  <2>3. life' \in ToSet(processqueue)
    BY <1>1, <2>1, HeadInQueue
  <2> QED
    BY <2>1, <2>2, <2>3
<1>2. CASE processqueue = << >>
  <2>1. ToSet(processqueue) = {}
    BY <1>2, EmptyToSet
  <2> QED
    BY <1>2, <2>1 DEF SwitchAway
<1> QED
  BY <1>1, <1>2

\* resume() puts the running thread behind the others and takes the first.
LEMMA ResumeOnce ==
    ASSUME life \in Threads, NEW queue \in Seq(Threads), IsInjective(queue),
           life \notin ToSet(queue), NEW idles, Resume(queue, idles)
    PROVE  \/ /\ idles
              /\ life' = life /\ processqueue' = queue
           \/ /\ ~idles
              /\ life' \in ToSet(queue) \union {life}
              /\ IsInjective(processqueue')
              /\ ToSet(processqueue') = (ToSet(queue) \union {life}) \ {life'}
<1>1. life # NULL
  BY ThreadsAssumption
<1>2. CASE ~idles
  <2> DEFINE q == Append(queue, life)
  <2>1. life' = Head(q) /\ processqueue' = Tail(q)
    BY <1>1, <1>2 DEF Resume
  <2>2. q \in Seq(Threads) /\ q # << >>
    BY AppendProperties
  <2>3. IsInjective(q) /\ ToSet(q) = ToSet(queue) \union {life}
    BY AppendOnce
  <2> HIDE DEF q
  <2>4. /\ IsInjective(processqueue')
        /\ ToSet(processqueue') = ToSet(q) \ {life'}
    BY <2>1, <2>2, <2>3, TailOnce
  <2>5. life' \in ToSet(q)
    BY <2>1, <2>2, HeadInQueue
  <2> QED
    BY <1>2, <2>3, <2>4, <2>5
<1>3. CASE idles
  BY <1>3 DEF Resume
<1> QED
  BY <1>2, <1>3

(***************************************************************************)
(* The two ways the lists change: the running thread gives up the CPU, or  *)
(* threads are readied, with or without a preemption.                      *)
(***************************************************************************)

\* The running thread waits from now on or is dead, and the next one runs or the
\* thread idles.
LEMMA GivesUp ==
    ASSUME SchedulerTypeOK, ListsPart, life \in Threads, life \notin ToSet(processqueue),
           ~idling, SwitchAway,
           RoomsAgree', \A r \in Rooms : IsInjective(waiters'[r]),
           \A u \in Threads \ {life} :
             myroom'[u] = myroom[u] /\ (u \in alive' <=> u \in alive),
           life \in alive' <=> myroom'[life] # NULL,
           alive' \subseteq Threads
    PROVE  ListsPart' /\ IdlesIffBlocked'
<1>1. processqueue \in Seq(Threads) /\ IsInjective(processqueue)
  BY DEF SchedulerTypeOK, ListsPart, NoneTwice
<1>2. ToSet(processqueue) \subseteq Threads
  BY <1>1 DEF ToSet
<1>3. CASE /\ life' \in ToSet(processqueue)
           /\ IsInjective(processqueue')
           /\ ToSet(processqueue') = ToSet(processqueue) \ {life'}
           /\ UNCHANGED <<idling, base>>
  <2>1. /\ life' # life /\ life' \in Threads /\ life' \in alive /\ life' \in alive'
        /\ myroom'[life'] = NULL /\ myroom[life'] = NULL
    BY <1>2, <1>3 DEF ListsPart, ReadyWaitsNot, NoZombie
  <2>2. NoneTwice'
    BY <1>3 DEF NoneTwice, Rooms
  <2>3. ReadyWaitsNot' /\ NoZombie'
    BY <1>2, <1>3 DEF ListsPart, ReadyWaitsNot, NoZombie
  <2>4. NoLostThread'
    BY <1>2, <1>3 DEF ListsPart, NoLostThread
  <2>5. IdlesIffBlocked'
    BY <1>3, <2>1 DEF IdlesIffBlocked
  <2> QED
    BY <2>2, <2>3, <2>4, <2>5 DEF ListsPart
<1>4. CASE /\ ToSet(processqueue) = {}
           /\ UNCHANGED <<life, processqueue>>
           /\ idling' = TRUE
  <2>1. NoneTwice'
    BY <1>1, <1>4 DEF NoneTwice, Rooms
  <2>2. ReadyWaitsNot' /\ NoZombie'
    BY <1>4 DEF ListsPart, ReadyWaitsNot, NoZombie
  <2>3. NoLostThread'
    BY <1>4 DEF ListsPart, NoLostThread
  <2>4. IdlesIffBlocked'
    BY <1>4 DEF IdlesIffBlocked
  <2> QED
    BY <2>1, <2>2, <2>3, <2>4 DEF ListsPart
<1> QED
  BY <1>1, <1>3, <1>4, SwitchAwayOnce

\* The threads ts leave their rooms and are readied; then the running thread goes on,
\* or resume() puts it behind the others.
LEMMA Readies ==
    ASSUME SchedulerTypeOK, ListsPart, IdlesIffBlocked, life \in Threads,
           NEW ts \in SUBSET Threads, ts \intersect ToSet(processqueue) = {},
           NEW queue \in Readied(ts),
           idling' = StillIdling(ts), ts \subseteq alive', alive' \subseteq Threads,
           RoomsAgree', \A r \in Rooms : IsInjective(waiters'[r]),
           \A u \in Threads :
             /\ myroom'[u] = IF u \in ts THEN NULL ELSE myroom[u]
             /\ u \in alive' <=> u \in alive \union ts,
           \/ life' = life /\ processqueue' = queue
           \/ Resume(queue, StillIdling(ts))
    PROVE  ListsPart' /\ IdlesIffBlocked'
<1>1. processqueue \in Seq(Threads) /\ IsInjective(processqueue)
  BY DEF SchedulerTypeOK, ListsPart, NoneTwice
<1>2. life \notin ToSet(processqueue) /\ (idling <=> life \notin alive \/ myroom[life] # NULL)
  BY ThreadsAssumption DEF IdlesIffBlocked
<1>3. /\ queue \in Seq(Threads) /\ IsInjective(queue)
      /\ ToSet(queue) = ToSet(processqueue) \union (ts \ {life})
  BY <1>1, ReadiedOnce
<1>4. life \notin ToSet(queue) /\ ToSet(processqueue) \subseteq Threads
  BY <1>1, <1>2, <1>3 DEF ToSet
<1>5. \A u \in ToSet(queue) : u \in Threads /\ u \in alive' /\ myroom'[u] = NULL
  BY <1>3, <1>4 DEF ListsPart, NoZombie, ReadyWaitsNot
<1>6. \A u \in Threads \ alive' : u \notin ToSet(queue) /\ myroom'[u] = NULL
  BY <1>3, <1>4 DEF ListsPart, NoZombie
<1>7. idling' <=> (life \notin alive' \/ myroom'[life] # NULL)
  BY <1>2 DEF StillIdling
<1>8. \A u \in alive' \ {life} : u \in ToSet(queue) \/ myroom'[u] # NULL
  BY <1>3, <1>4 DEF ListsPart, NoLostThread
<1>9. CASE life' = life /\ processqueue' = queue
  <2>1. NoneTwice' /\ ReadyWaitsNot' /\ NoZombie'
    BY <1>3, <1>5, <1>6, <1>9 DEF NoneTwice, ReadyWaitsNot, NoZombie, Rooms
  <2>2. NoLostThread'
    BY <1>7, <1>8, <1>9 DEF NoLostThread
  <2>3. IdlesIffBlocked'
    BY <1>4, <1>7, <1>9 DEF IdlesIffBlocked
  <2> QED
    BY <2>1, <2>2, <2>3 DEF ListsPart
<1>10. CASE /\ ~StillIdling(ts)
            /\ life' \in ToSet(queue) \union {life}
            /\ IsInjective(processqueue')
            /\ ToSet(processqueue') = (ToSet(queue) \union {life}) \ {life'}
  <2>1. life \in alive' /\ myroom'[life] = NULL /\ idling' = FALSE
    BY <1>7, <1>10 DEF StillIdling
  <2>2. NoneTwice'
    BY <1>10 DEF NoneTwice, Rooms
  <2>3. ReadyWaitsNot' /\ NoZombie'
    BY <1>5, <1>6, <1>10, <2>1 DEF ReadyWaitsNot, NoZombie
  <2>4. NoLostThread'
    BY <1>8, <1>10, <2>1 DEF NoLostThread
  <2>5. IdlesIffBlocked'
    BY <1>5, <1>10, <2>1 DEF IdlesIffBlocked
  <2> QED
    BY <2>2, <2>3, <2>4, <2>5 DEF ListsPart
<1> QED
  BY <1>3, <1>4, <1>9, <1>10, ResumeOnce

(***************************************************************************)
(* System calls.                                                           *)
(***************************************************************************)

\* The thread that makes a system call is neither dead nor in any list.
LEMMA CallerIsFree ==
    ASSUME IInv, LInv, NEW t \in Threads, Syscall(t)
    PROVE  /\ life = t /\ ~idling /\ t \in alive /\ myroom[t] = NULL
           /\ t \notin ToSet(processqueue)
           /\ SchedulerTypeOK /\ MeetingTypeOK /\ pc \in [Coroutines -> Labels]
           /\ base \in [Coroutines -> Bases] /\ alive \subseteq Threads
<1>1. life = t /\ pc[t] = "user"
  BY DEF Syscall, Runs
<1>2. ~idling
  BY <1>1 DEF LInv, IdlesInLoop, TaskLevel, Bases
<1> QED
  BY <1>1, <1>2, ThreadsAssumption
  DEF LInv, IdlesIffBlocked, IInv, DataPart, GuardPart, GuardTypeOK

\* After a system call nobody idles, or the caller does and goes on to the loop.
LEMMA SyscallLoop ==
    ASSUME IInv, LInv, NEW t \in Threads, Syscall(t),
           pc' = [pc EXCEPT ![life] = "leave"],
           \/ idling' = FALSE
           \/ life' = life /\ base' = [base EXCEPT ![life] = "check"]
    PROVE  IdlesInLoop'
<1>1. CASE idling' = FALSE
  BY <1>1 DEF IdlesInLoop
<1>2. CASE life' = life /\ base' = [base EXCEPT ![life] = "check"]
  <2>1. /\ life = t /\ t # NULL /\ t \in Coroutines
        /\ pc \in [Coroutines -> Labels] /\ base \in [Coroutines -> Bases]
    BY CallerIsFree, ThreadsAssumption DEF Coroutines
  <2>2. pc'[t] = "leave" /\ base'[t] = "check"
    BY <1>2, <2>1
  <2> QED
    BY <1>2, <2>1, <2>2 DEF IdlesInLoop, TaskLevel, Bases
<1> QED
  BY <1>1, <1>2

\* block(): the running thread, linked nowhere, is appended to a room's queue.
LEMMA BlockLists ==
    ASSUME IInv, LInv, NEW t \in Threads, Syscall(t), NEW r \in Rooms, Block(r),
           alive' = alive
    PROVE  /\ ListsPart' /\ IdlesIffBlocked' /\ IdlesInLoop'
           /\ \A u \in Threads : myroom'[u] = IF u = t THEN r ELSE myroom[u]
<1>1. /\ life = t /\ ~idling /\ t \in alive /\ myroom[t] = NULL
      /\ t \notin ToSet(processqueue) /\ SchedulerTypeOK /\ MeetingTypeOK
      /\ alive \subseteq Threads
  BY CallerIsFree
<1>2. /\ waiters' = [waiters EXCEPT ![r] = Append(@, t)]
      /\ myroom' = [myroom EXCEPT ![t] = r]
      /\ SwitchAway
  BY <1>1 DEF Block
<1>3. r # NULL
  BY RoomsAssumption, ThreadsAssumption DEF Rooms, Coroutines
<1>4. \A u \in Threads : myroom'[u] = IF u = t THEN r ELSE myroom[u]
  BY <1>1, <1>2 DEF MeetingTypeOK
<1>5. waiters[r] \in Seq(Threads) /\ IsInjective(waiters[r]) /\ t \notin ToSet(waiters[r])
  BY <1>1, <1>3 DEF MeetingTypeOK, LInv, ListsPart, NoneTwice, RoomsAgree
<1>6. /\ IsInjective(Append(waiters[r], t))
      /\ ToSet(Append(waiters[r], t)) = ToSet(waiters[r]) \union {t}
  BY <1>5, AppendOnce
<1>7. \A q \in Rooms : waiters'[q] = IF q = r THEN Append(waiters[r], t) ELSE waiters[q]
  BY <1>1, <1>2 DEF MeetingTypeOK
<1>8. \A q \in Rooms : IsInjective(waiters'[q])
  BY <1>6, <1>7 DEF LInv, ListsPart, NoneTwice
<1>9. RoomsAgree'
  <2> SUFFICES ASSUME NEW u \in Threads, NEW q \in Rooms
               PROVE  myroom'[u] = q <=> u \in ToSet(waiters'[q])
    BY DEF RoomsAgree
  <2>1. myroom[u] = q <=> u \in ToSet(waiters[q])
    BY DEF LInv, ListsPart, RoomsAgree
  <2>2. q # NULL
    BY RoomsAssumption, ThreadsAssumption DEF Rooms, Coroutines
  <2> QED
    BY <1>1, <1>4, <1>6, <1>7, <2>1, <2>2
<1>10. ListsPart' /\ IdlesIffBlocked'
  <2>1. \A u \in Threads \ {life} :
          myroom'[u] = myroom[u] /\ (u \in alive' <=> u \in alive)
    BY <1>1, <1>4
  <2>2. life \in alive' <=> myroom'[life] # NULL
    BY <1>1, <1>3, <1>4
  <2> QED
    BY <1>1, <1>2, <1>8, <1>9, <2>1, <2>2, GivesUp DEF LInv
<1>11. IdlesInLoop'
  <2>1. processqueue \in Seq(Threads) /\ IsInjective(processqueue)
    BY <1>1 DEF SchedulerTypeOK, LInv, ListsPart, NoneTwice
  <2>2. \/ idling' = FALSE
        \/ life' = life /\ base' = [base EXCEPT ![life] = "check"]
    BY <1>1, <1>2, <2>1, SwitchAwayOnce DEF SchedulerTypeOK
  <2>3. pc' = [pc EXCEPT ![life] = "leave"]
    BY <1>2 DEF SwitchAway
  <2> QED
    BY <2>2, <2>3, SyscallLoop
<1> QED
  BY <1>4, <1>10, <1>11

\* exit(), of the caller's own will or by kill(): the thread is dead, and the next
\* one runs, or its stack idles.
LEMMA ExitLists ==
    ASSUME IInv, LInv, NEW t \in Threads, Syscall(t), SwitchAway,
           UNCHANGED meetingVars, alive' = alive \ {t}
    PROVE  LInv'
<1>1. /\ life = t /\ ~idling /\ t \in alive /\ myroom[t] = NULL
      /\ t \notin ToSet(processqueue) /\ SchedulerTypeOK /\ MeetingTypeOK
      /\ alive \subseteq Threads
  BY CallerIsFree
<1>2. UNCHANGED <<myroom, waiters, counter, due>>
  BY DEF meetingVars
<1>3. RoomsAgree' /\ BellPart'
  BY <1>2 DEF LInv, ListsPart, RoomsAgree, BellPart, SleeperHasAlarm, BuzzersOwn
<1>4. \A r \in Rooms : IsInjective(waiters'[r])
  BY <1>2 DEF LInv, ListsPart, NoneTwice
<1>5. ListsPart' /\ IdlesIffBlocked'
  BY <1>1, <1>2, <1>3, <1>4, GivesUp DEF LInv
<1>6. IdlesInLoop'
  <2>1. processqueue \in Seq(Threads) /\ IsInjective(processqueue)
    BY <1>1 DEF SchedulerTypeOK, LInv, ListsPart, NoneTwice
  <2>2. \/ idling' = FALSE
        \/ life' = life /\ base' = [base EXCEPT ![life] = "check"]
    BY <1>1, <2>1, SwitchAwayOnce DEF SchedulerTypeOK
  <2>3. pc' = [pc EXCEPT ![life] = "leave"]
    BY DEF SwitchAway
  <2> QED
    BY <2>2, <2>3, SyscallLoop
<1> QED
  BY <1>3, <1>5, <1>6 DEF LInv

\* A step that changes neither lists nor bells, with nobody idling after it.
LEMMA ListsUnchanged ==
    ASSUME LInv, UNCHANGED <<life, schedulerVars, meetingVars, alive>>, IdlesInLoop'
    PROVE  LInv'
<1>1. UNCHANGED <<life, processqueue, idling, myroom, waiters, counter, due, alive>>
  BY DEF schedulerVars, meetingVars
<1>2. ListsPart'
  BY <1>1 DEF LInv, ListsPart, NoneTwice, RoomsAgree, ReadyWaitsNot, NoZombie,
     NoLostThread
<1>3. IdlesIffBlocked' /\ BellPart'
  BY <1>1 DEF LInv, IdlesIffBlocked, BellPart, SleeperHasAlarm, BuzzersOwn
<1> QED
  BY <1>2, <1>3 DEF LInv

\* p(): the thread takes a count, or waits at the semaphore.
LEMMA PLists ==
    ASSUME IInv, LInv, NEW t \in Threads, NEW s \in Semaphores, P(t, s)
    PROVE  LInv'
<1>1. Syscall(t) /\ TakeOrWait(s) /\ alive' = alive /\ s \in Rooms
  BY DEF P, Rooms
<1>2. CASE /\ pc' = [pc EXCEPT ![life] = "leave"]
           /\ UNCHANGED <<life, base, schedulerVars, myroom, waiters, due>>
  <2>1. idling' = FALSE
    BY <1>1, <1>2, CallerIsFree DEF schedulerVars, SchedulerTypeOK
  <2>2. IdlesInLoop'
    BY <1>1, <1>2, <2>1, SyscallLoop
  <2>3. UNCHANGED <<life, processqueue, idling, myroom, waiters, due, alive>>
    BY <1>1, <1>2 DEF schedulerVars
  <2>4. ListsPart'
    BY <2>3 DEF LInv, ListsPart, NoneTwice, RoomsAgree, ReadyWaitsNot, NoZombie,
       NoLostThread
  <2>5. IdlesIffBlocked' /\ BellPart'
    BY <2>3 DEF LInv, IdlesIffBlocked, BellPart, SleeperHasAlarm, BuzzersOwn
  <2> QED
    BY <2>2, <2>4, <2>5 DEF LInv
<1>3. CASE Block(s) /\ UNCHANGED <<counter, due>>
  <2>1. /\ ListsPart' /\ IdlesIffBlocked' /\ IdlesInLoop'
        /\ \A u \in Threads : myroom'[u] = IF u = t THEN s ELSE myroom[u]
    BY <1>1, <1>3, BlockLists
  <2>2. myroom[t] = NULL /\ s \notin Threads /\ NULL \notin Threads
    BY <1>1, CallerIsFree, RoomsAssumption, ThreadsAssumption DEF Coroutines
  <2>3. BellPart'
    BY <1>3, <2>1, <2>2 DEF LInv, BellPart, SleeperHasAlarm, BuzzersOwn
  <2> QED
    BY <2>1, <2>3 DEF LInv
<1> QED
  BY <1>1, <1>2, <1>3 DEF TakeOrWait

\* sleep(): the thread waits at its own buzzer, whose bell is set.
LEMMA SleepLists ==
    ASSUME IInv, LInv, NEW t \in Threads, NEW n \in 1..MaxTicks, Sleep(t, n)
    PROVE  LInv'
<1>1. /\ Syscall(t) /\ life = t /\ t \in Rooms /\ alive' = alive
      /\ due' = [due EXCEPT ![t] = n] /\ Block(t)
  BY DEF Sleep, SleepTicks, Syscall, Runs, Rooms
<1>2. /\ ListsPart' /\ IdlesIffBlocked' /\ IdlesInLoop'
      /\ \A u \in Threads : myroom'[u] = IF u = t THEN t ELSE myroom[u]
  BY <1>1, BlockLists
<1>3. \A u \in Threads : due'[u] = IF u = t THEN n ELSE due[u]
  BY <1>1 DEF IInv, DataPart, MeetingTypeOK
<1>4. n > 0
  BY BoundsAssumption
<1>5. BellPart'
  BY <1>2, <1>3, <1>4 DEF LInv, BellPart, SleeperHasAlarm, BuzzersOwn
<1> QED
  BY <1>2, <1>5 DEF LInv

\* v(), from a thread or from the radio's epilogue: the first in the room is readied.
LEMMA SignalLists ==
    ASSUME IInv, LInv, life \in Threads, NEW s \in Semaphores, Signal(s),
           UNCHANGED <<life, due, alive>>
    PROVE  ListsPart' /\ IdlesIffBlocked' /\ BellPart' /\ (idling' => idling)
<1>1. /\ SchedulerTypeOK /\ MeetingTypeOK /\ alive \subseteq Threads /\ s \in Rooms
      /\ s \notin Threads /\ NULL \notin Threads /\ NULL \notin Rooms
  BY RoomsAssumption, ThreadsAssumption DEF IInv, DataPart, Rooms, Coroutines
<1>2. CASE waiters[s] # << >>
  <2> DEFINE h == Head(waiters[s])
  <2>1. /\ waiters' = [waiters EXCEPT ![s] = Tail(@)]
        /\ WakeUp({h}) /\ processqueue' \in Readied({h})
    BY <1>2 DEF Signal
  <2>2. waiters[s] \in Seq(Threads) /\ IsInjective(waiters[s])
    BY <1>1 DEF MeetingTypeOK, LInv, ListsPart, NoneTwice
  <2>3. h \in Threads /\ h \in ToSet(waiters[s])
    BY <1>2, <2>2, HeadTailProperties, HeadInQueue
  <2>4. /\ IsInjective(Tail(waiters[s]))
        /\ ToSet(Tail(waiters[s])) = ToSet(waiters[s]) \ {h}
    BY <1>2, <2>2, TailOnce
  <2> HIDE DEF h
  <2>5. myroom[h] = s /\ h \in alive /\ h \notin ToSet(processqueue)
    BY <1>1, <2>3 DEF LInv, ListsPart, RoomsAgree, NoZombie, ReadyWaitsNot
  <2>6. \A u \in Threads : myroom'[u] = IF u \in {h} THEN NULL ELSE myroom[u]
    BY <2>1 DEF WakeUp
  <2>7. \A q \in Rooms : waiters'[q] = IF q = s THEN Tail(waiters[s]) ELSE waiters[q]
    BY <1>1, <2>1 DEF MeetingTypeOK
  <2>8. \A q \in Rooms : IsInjective(waiters'[q])
    BY <2>4, <2>7 DEF LInv, ListsPart, NoneTwice
  <2>9. RoomsAgree'
    <3> SUFFICES ASSUME NEW u \in Threads, NEW q \in Rooms
                 PROVE  myroom'[u] = q <=> u \in ToSet(waiters'[q])
      BY DEF RoomsAgree
    <3>1. myroom[u] = q <=> u \in ToSet(waiters[q])
      BY DEF LInv, ListsPart, RoomsAgree
    <3> QED
      BY <1>1, <2>4, <2>5, <2>6, <2>7, <3>1
  <2>10. idling' = StillIdling({h})
    BY <2>1 DEF WakeUp
  <2>11. ListsPart' /\ IdlesIffBlocked'
    <3>1. {h} \in SUBSET Threads /\ {h} \intersect ToSet(processqueue) = {}
      BY <2>3, <2>5
    <3>2. {h} \subseteq alive' /\ alive' \subseteq Threads
      BY <1>1, <2>5
    <3>3. \A u \in Threads : u \in alive' <=> u \in alive \union {h}
      BY <2>5
    <3> QED
      BY <1>1, <2>1, <2>6, <2>8, <2>9, <2>10, <3>1, <3>2, <3>3, Readies DEF LInv
  <2>12. BellPart'
    BY <1>1, <2>5, <2>6 DEF LInv, BellPart, SleeperHasAlarm, BuzzersOwn
  <2> QED
    BY <2>10, <2>11, <2>12 DEF StillIdling
<1>3. CASE waiters[s] = << >>
  <2>1. UNCHANGED <<waiters, myroom, processqueue, idling>>
    BY <1>3 DEF Signal, schedulerVars
  <2>2. ListsPart'
    BY <2>1 DEF LInv, ListsPart, NoneTwice, RoomsAgree, ReadyWaitsNot, NoZombie,
       NoLostThread
  <2>3. IdlesIffBlocked' /\ BellPart'
    BY <2>1 DEF LInv, IdlesIffBlocked, BellPart, SleeperHasAlarm, BuzzersOwn
  <2> QED
    BY <2>1, <2>2, <2>3
<1> QED
  BY <1>2, <1>3

\* v() of a thread.
LEMMA VLists ==
    ASSUME IInv, LInv, NEW t \in Threads, NEW s \in Semaphores, V(t, s)
    PROVE  LInv'
<1>1. /\ Syscall(t) /\ Signal(s) /\ life = t
      /\ pc' = [pc EXCEPT ![life] = "leave"] /\ UNCHANGED <<life, base, due, alive>>
  BY DEF V, Syscall, Runs
<1>2. ListsPart' /\ IdlesIffBlocked' /\ BellPart' /\ (idling' => idling)
  BY <1>1, SignalLists
<1>3. idling' = FALSE
  <2>1. idling' \in BOOLEAN
    BY <1>1, SignalType DEF IInv, DataPart, SchedulerTypeOK
  <2> QED
    BY <1>1, <1>2, <2>1, CallerIsFree
<1> QED
  BY <1>1, <1>2, <1>3, SyscallLoop DEF LInv

\* yield(): the caller goes behind the others.
LEMMA YieldLists ==
    ASSUME IInv, LInv, NEW t \in Threads, Yield(t)
    PROVE  LInv'
<1>1. /\ Syscall(t) /\ Resume(processqueue, idling)
      /\ pc' = [pc EXCEPT ![life] = "leave"]
      /\ UNCHANGED <<base, idling, myroom, waiters, due, alive>>
  BY DEF Yield, meetingVars, Syscall, Runs
<1>2. /\ life = t /\ ~idling /\ t \in alive /\ myroom[t] = NULL
      /\ t \notin ToSet(processqueue) /\ SchedulerTypeOK
  BY <1>1, CallerIsFree
<1>3. processqueue \in Seq(Threads) /\ IsInjective(processqueue)
  BY <1>2 DEF SchedulerTypeOK, LInv, ListsPart, NoneTwice
<1>4. /\ life' \in ToSet(processqueue) \union {t}
      /\ IsInjective(processqueue')
      /\ ToSet(processqueue') = (ToSet(processqueue) \union {t}) \ {life'}
  BY <1>1, <1>2, <1>3, ResumeOnce
<1>5. \A u \in ToSet(processqueue) : u \in Threads
  BY <1>3 DEF ToSet
<1>6. ListsPart'
  <2>1. NoneTwice' /\ RoomsAgree'
    BY <1>1, <1>4 DEF LInv, ListsPart, NoneTwice, RoomsAgree, Rooms
  <2>2. ReadyWaitsNot' /\ NoZombie'
    BY <1>1, <1>2, <1>4 DEF LInv, ListsPart, ReadyWaitsNot, NoZombie
  <2>3. NoLostThread'
    BY <1>1, <1>2, <1>4 DEF LInv, ListsPart, NoLostThread
  <2> QED
    BY <2>1, <2>2, <2>3 DEF ListsPart
<1>7. IdlesIffBlocked'
  BY <1>1, <1>2, <1>4, <1>5 DEF LInv, ListsPart, IdlesIffBlocked, ReadyWaitsNot, NoZombie
<1>8. IdlesInLoop' /\ BellPart'
  BY <1>1, <1>2 DEF LInv, IdlesInLoop, BellPart, SleeperHasAlarm, BuzzersOwn
<1> QED
  BY <1>6, <1>7, <1>8 DEF LInv

\* kill() of a waiting thread: it leaves its room, and if that was its buzzer, the
\* bell is cancelled.
LEMMA KillWaitingLists ==
    ASSUME IInv, LInv, NEW t \in Threads, Syscall(t), NEW target \in Threads,
           KillWaiting(target), alive' = alive \ {target}
    PROVE  LInv'
<1> DEFINE r == myroom[target]
<1>1. /\ life = t /\ ~idling /\ t \in alive /\ myroom[t] = NULL
      /\ t \notin ToSet(processqueue) /\ SchedulerTypeOK /\ MeetingTypeOK
  BY CallerIsFree
<1>2. /\ r # NULL
      /\ waiters' = [waiters EXCEPT ![r] = Unlink(@, target)]
      /\ due' = DueWithout(target, r)
      /\ myroom' = [myroom EXCEPT ![target] = NULL]
      /\ pc' = [pc EXCEPT ![life] = "leave"]
      /\ UNCHANGED <<life, base, processqueue, idling, counter>>
  BY DEF KillWaiting, schedulerVars
<1>3. r \in Rooms /\ target # t /\ NULL \notin Rooms /\ NULL \notin Threads
  BY <1>1, <1>2, RoomsAssumption, ThreadsAssumption
  DEF MeetingTypeOK, Rooms, Coroutines
<1>4. waiters[r] \in Seq(Threads) /\ IsInjective(waiters[r])
  BY <1>1, <1>3 DEF MeetingTypeOK, LInv, ListsPart, NoneTwice
<1>5. /\ IsInjective(Unlink(waiters[r], target))
      /\ ToSet(Unlink(waiters[r], target)) = ToSet(waiters[r]) \ {target}
      /\ Unlink(waiters[r], target) \in Seq(Threads)
  BY <1>4, UnlinkOnce, UnlinkType
<1>6. \A u \in Threads : myroom'[u] = IF u = target THEN NULL ELSE myroom[u]
  BY <1>1, <1>2 DEF MeetingTypeOK
<1>7. \A q \in Rooms : waiters'[q] = IF q = r THEN Unlink(waiters[r], target)
                                              ELSE waiters[q]
  BY <1>1, <1>2 DEF MeetingTypeOK
<1>8. ListsPart'
  <2>1. NoneTwice'
    BY <1>2, <1>5, <1>7 DEF LInv, ListsPart, NoneTwice
  <2>2. RoomsAgree'
    <3> SUFFICES ASSUME NEW u \in Threads, NEW q \in Rooms
                 PROVE  myroom'[u] = q <=> u \in ToSet(waiters'[q])
      BY DEF RoomsAgree
    <3>1. myroom[u] = q <=> u \in ToSet(waiters[q])
      BY DEF LInv, ListsPart, RoomsAgree
    <3> QED
      BY <1>3, <1>5, <1>6, <1>7, <3>1
  <2>3. \A u \in ToSet(processqueue) : u \in Threads
    BY <1>1 DEF SchedulerTypeOK, ToSet
  <2>4. target \notin ToSet(processqueue)
    BY <1>2 DEF LInv, ListsPart, ReadyWaitsNot
  <2>5. ReadyWaitsNot' /\ NoZombie'
    BY <1>2, <1>6, <2>3, <2>4 DEF LInv, ListsPart, ReadyWaitsNot, NoZombie
  <2>6. NoLostThread'
    BY <1>1, <1>2, <1>6 DEF LInv, ListsPart, NoLostThread, IInv, DataPart
  <2> QED
    BY <2>1, <2>2, <2>5, <2>6 DEF ListsPart
<1>9. IdlesIffBlocked'
  BY <1>1, <1>2, <1>3, <1>6 DEF LInv, IdlesIffBlocked
<1>10. IdlesInLoop'
  BY <1>1, <1>2 DEF IdlesInLoop
<1>11. BellPart'
  <2>1. \A u, b \in Threads : myroom'[u] = b => u = b
    BY <1>3, <1>6 DEF LInv, BellPart, BuzzersOwn
  <2>2. CASE r \in Threads
    <3>1. r = target
      BY <2>2 DEF LInv, BellPart, BuzzersOwn
    <3>2. ToSet(waiters[r]) \subseteq {target}
      <4> SUFFICES ASSUME NEW u \in ToSet(waiters[r])
                   PROVE  u = target
        OBVIOUS
      <4>1. u \in Threads
        BY <1>4 DEF ToSet
      <4>2. myroom[u] = r
        BY <1>3, <4>1 DEF LInv, ListsPart, RoomsAgree
      <4> QED
        BY <2>2, <3>1, <4>1, <4>2 DEF LInv, BellPart, BuzzersOwn
    <3>3. Unlink(waiters[r], target) = << >>
      BY <1>5, <3>2, EmptyToSet
    <3>4. due' = [due EXCEPT ![target] = 0]
      BY <1>2, <2>2, <3>1, <3>3 DEF DueWithout
    <3>5. \A u \in Threads : due'[u] = IF u = target THEN 0 ELSE due[u]
      BY <1>1, <3>4 DEF MeetingTypeOK
    <3> QED
      BY <1>3, <1>6, <2>1, <3>5 DEF LInv, BellPart, SleeperHasAlarm, BuzzersOwn
  <2>3. CASE r \notin Threads
    <3>1. due' = due
      BY <1>2, <2>3 DEF DueWithout
    <3> QED
      BY <1>3, <1>6, <2>1, <2>3, <3>1 DEF LInv, BellPart, SleeperHasAlarm, BuzzersOwn
  <2> QED
    BY <2>2, <2>3
<1> QED
  BY <1>8, <1>9, <1>10, <1>11 DEF LInv

\* kill() of a thread that neither runs nor waits: it leaves the ready queue.
LEMMA KillOtherLists ==
    ASSUME IInv, LInv, NEW t \in Threads, Syscall(t), NEW target \in Threads,
           KillOther(target), alive' = alive \ {target}
    PROVE  LInv'
<1>1. /\ life = t /\ ~idling /\ t \in alive /\ myroom[t] = NULL
      /\ t \notin ToSet(processqueue) /\ SchedulerTypeOK
  BY CallerIsFree
<1>2. /\ myroom[target] = NULL /\ target # t
      /\ processqueue' = Unlink(processqueue, target)
      /\ UNCHANGED <<life, idling, myroom, waiters, due>>
  BY <1>1 DEF KillOther, meetingVars
<1>3. /\ IsInjective(processqueue')
      /\ ToSet(processqueue') = ToSet(processqueue) \ {target}
  BY <1>1, <1>2, UnlinkOnce DEF SchedulerTypeOK, LInv, ListsPart, NoneTwice
<1>4. ListsPart'
  <2>1. NoneTwice' /\ RoomsAgree'
    BY <1>2, <1>3 DEF LInv, ListsPart, NoneTwice, RoomsAgree, Rooms
  <2>2. ReadyWaitsNot' /\ NoZombie' /\ NoLostThread'
    BY <1>2, <1>3 DEF LInv, ListsPart, ReadyWaitsNot, NoZombie, NoLostThread
  <2> QED
    BY <2>1, <2>2 DEF ListsPart
<1>5. IdlesIffBlocked'
  BY <1>1, <1>2, <1>3 DEF LInv, IdlesIffBlocked
<1>6. IdlesInLoop' /\ BellPart'
  BY <1>1, <1>2 DEF LInv, IdlesInLoop, BellPart, SleeperHasAlarm, BuzzersOwn
<1> QED
  BY <1>4, <1>5, <1>6 DEF LInv

\* kill(), in its three cases.
LEMMA KillLists ==
    ASSUME IInv, LInv, NEW t \in Threads, NEW target \in Threads, Kill(t, target)
    PROVE  LInv'
<1>1. Syscall(t) /\ life = t /\ alive' = alive \ {target}
  BY DEF Kill, Syscall, Runs
<1>2. CASE KillWaiting(target)
  BY <1>1, <1>2, KillWaitingLists
<1>3. CASE KillSelf(target)
  BY <1>1, <1>3, ExitLists DEF KillSelf
<1>4. CASE KillOther(target)
  BY <1>1, <1>4, KillOtherLists
<1> QED
  BY <1>2, <1>3, <1>4 DEF Kill

\* ready() of a dead thread, or of the running one.
LEMMA ReadyLists ==
    ASSUME IInv, LInv, NEW t \in Threads, NEW target \in Threads, Ready(t, target)
    PROVE  LInv'
<1>1. /\ Syscall(t) /\ (target \notin alive \/ target = t)
      /\ processqueue' \in Readied({target}) /\ idling' = StillIdling({target})
      /\ alive' = alive \union {target}
      /\ UNCHANGED <<life, myroom, waiters, due>>
  BY DEF Ready, meetingVars
<1>2. /\ life = t /\ ~idling /\ t \in alive /\ myroom[t] = NULL
      /\ t \notin ToSet(processqueue) /\ SchedulerTypeOK /\ alive \subseteq Threads
  BY <1>1, CallerIsFree
<1>3. target \notin ToSet(processqueue) /\ myroom[target] = NULL
  BY <1>1, <1>2 DEF LInv, ListsPart, NoZombie
<1>4. RoomsAgree' /\ \A r \in Rooms : IsInjective(waiters'[r])
  BY <1>1 DEF LInv, ListsPart, RoomsAgree, NoneTwice
<1>5. ListsPart' /\ IdlesIffBlocked'
  <2>1. {target} \in SUBSET Threads /\ {target} \intersect ToSet(processqueue) = {}
    BY <1>3
  <2>2. {target} \subseteq alive' /\ alive' \subseteq Threads
    BY <1>1, <1>2
  <2>3. \A u \in Threads :
          /\ myroom'[u] = IF u \in {target} THEN NULL ELSE myroom[u]
          /\ u \in alive' <=> u \in alive \union {target}
    BY <1>1, <1>3
  <2> QED
    BY <1>1, <1>2, <1>4, <2>1, <2>2, <2>3, Readies DEF LInv
<1>6. IdlesInLoop' /\ BellPart'
  BY <1>1, <1>2 DEF LInv, IdlesInLoop, StillIdling, BellPart, SleeperHasAlarm, BuzzersOwn
<1> QED
  BY <1>5, <1>6 DEF LInv

\* A section around a device's method.
LEMMA DeviceCallLists ==
    ASSUME IInv, LInv, NEW t \in Threads, DeviceCall(t)
    PROVE  LInv'
<1>1. Syscall(t) /\ UNCHANGED <<life, schedulerVars, meetingVars, alive>>
  BY DEF DeviceCall, Done
<1>2. IdlesInLoop'
  BY <1>1, CallerIsFree DEF schedulerVars, IdlesInLoop
<1> QED
  BY <1>1, <1>2, ListsUnchanged

(***************************************************************************)
(* Epilogues.                                                              *)
(***************************************************************************)

\* Whoever still idles after an epilogue ran it on his own stack.
LEMMA EpilogueLoop ==
    ASSUME IInv, LInv, NEW c \in Threads, NEW g \in {"watch", "radio"}, Epilogue(c, g),
           idling' => idling /\ life' = life
    PROVE  IdlesInLoop'
<1>1. /\ life = c /\ pc[c] = g /\ pc' = [pc EXCEPT ![c] = "leave"] /\ base' = base
  BY DEF Epilogue, Runs, frameVars
<1>2. pc'[c] = "leave"
  BY <1>1 DEF IInv, GuardPart, GuardTypeOK, Coroutines
<1> QED
  BY <1>1, <1>2 DEF LInv, IdlesInLoop, TaskLevel, Bases

\* The radio's signal.
LEMMA RadioEpilogueLists ==
    ASSUME IInv, LInv, NEW c \in Threads, RadioEpilogue(c)
    PROVE  LInv'
<1>1. /\ Epilogue(c, "radio") /\ Signal(RadioSem) /\ life = c
      /\ UNCHANGED <<life, due, alive>>
  BY DEF RadioEpilogue, Epilogue, Runs
<1>2. ListsPart' /\ IdlesIffBlocked' /\ BellPart' /\ (idling' => idling)
  BY <1>1, SignalLists, RadioAssumption
<1> QED
  BY <1>1, <1>2, EpilogueLoop DEF LInv

\* Those whose bells ring wait at their own buzzers.
LEMMA SleepersAre ==
    ASSUME IInv, LInv
    PROVE  Sleepers = Ringing /\ \A b \in Ringing : myroom[b] = b
<1>1. \A b \in Ringing : b \in Threads /\ b \in Rooms /\ myroom[b] = b
  BY DEF Ringing, Rooms, LInv, BellPart, SleeperHasAlarm
<1>2. ASSUME NEW b \in Ringing
      PROVE  ToSet(waiters[b]) = {b}
  <2>1. waiters[b] \in Seq(Threads)
    BY <1>1 DEF IInv, DataPart, MeetingTypeOK
  <2>2. \A u \in ToSet(waiters[b]) : u \in Threads
    BY <2>1 DEF ToSet
  <2> QED
    BY <1>1, <2>2 DEF LInv, ListsPart, RoomsAgree, BellPart, BuzzersOwn
<1> QED
  BY <1>1, <1>2 DEF Sleepers

\* The tick: the sleepers whose bells ring are readied, and the running thread is
\* preempted.
LEMMA WatchEpilogueLists ==
    ASSUME IInv, LInv, NEW c \in Threads, WatchEpilogue(c)
    PROVE  LInv'
<1>1. /\ Epilogue(c, "watch") /\ life = c /\ alive' = alive
      /\ due' = [b \in Threads |-> IF due[b] = 0 THEN 0 ELSE due[b] - 1]
      /\ waiters' = [r \in Rooms |-> IF r \in Ringing THEN << >> ELSE waiters[r]]
      /\ WakeUp(Sleepers)
  BY DEF WatchEpilogue, Epilogue, Runs, RingBells
<1>2. PICK queue \in Readied(Sleepers) : Resume(queue, StillIdling(Sleepers))
  BY DEF WatchEpilogue
<1>3. /\ SchedulerTypeOK /\ MeetingTypeOK /\ alive \subseteq Threads
      /\ NULL \notin Threads /\ NULL \notin Rooms
  BY RoomsAssumption, ThreadsAssumption DEF IInv, DataPart, Rooms, Coroutines
<1>4. /\ Sleepers \in SUBSET Threads
      /\ \A u \in Threads : u \in Sleepers <=> due[u] = 1
      /\ \A u \in Sleepers : myroom[u] = u
  BY SleepersAre DEF Ringing
<1>5. \A u \in Threads : myroom'[u] = IF u \in Sleepers THEN NULL ELSE myroom[u]
  BY <1>1 DEF WakeUp
<1>6. idling' = StillIdling(Sleepers)
  BY <1>1 DEF WakeUp
<1>7. \A u \in Sleepers : u \in alive /\ u \notin ToSet(processqueue)
  BY <1>3, <1>4 DEF LInv, ListsPart, NoZombie, ReadyWaitsNot
<1>8. \A r \in Rooms : waiters'[r] = IF r \in Sleepers THEN << >> ELSE waiters[r]
  BY <1>1, SleepersAre
<1>9. \A r \in Rooms : IsInjective(waiters'[r])
  <2>1. IsInjective(<< >>)
    BY DEF IsInjective
  <2> QED
    BY <1>8, <2>1 DEF LInv, ListsPart, NoneTwice
<1>10. RoomsAgree'
  <2> SUFFICES ASSUME NEW u \in Threads, NEW r \in Rooms
               PROVE  myroom'[u] = r <=> u \in ToSet(waiters'[r])
    BY DEF RoomsAgree
  <2>1. myroom[u] = r <=> u \in ToSet(waiters[r])
    BY DEF LInv, ListsPart, RoomsAgree
  <2>2. CASE r \in Sleepers
    <3>1. ToSet(waiters'[r]) = {}
      BY <1>8, <2>2 DEF ToSet
    <3>2. myroom[u] = r => u = r
      BY <1>4, <2>2 DEF LInv, BellPart, BuzzersOwn
    <3> QED
      BY <1>3, <1>5, <2>2, <3>1, <3>2
  <2>3. CASE r \notin Sleepers
    BY <1>3, <1>4, <1>5, <1>8, <2>1, <2>3
  <2> QED
    BY <2>2, <2>3
<1>11. ListsPart' /\ IdlesIffBlocked'
  <2>1. Sleepers \intersect ToSet(processqueue) = {}
    BY <1>7
  <2>2. Sleepers \subseteq alive' /\ alive' \subseteq Threads
    BY <1>1, <1>3, <1>7
  <2>3. \A u \in Threads : u \in alive' <=> u \in alive \union Sleepers
    BY <1>1, <1>7
  <2> QED
    BY <1>1, <1>2, <1>3, <1>4, <1>5, <1>6, <1>9, <1>10, <2>1, <2>2, <2>3, Readies
    DEF LInv
<1>12. BellPart'
  <2>1. \A u \in Threads : due'[u] = (IF due[u] = 0 THEN 0 ELSE due[u] - 1) /\ due[u] \in Nat
    BY <1>1, <1>3 DEF MeetingTypeOK
  <2>2. \A u \in Threads : due'[u] > 0 <=> due[u] > 0 /\ due[u] # 1
    BY <2>1
  <2> QED
    BY <1>3, <1>4, <1>5, <2>2 DEF LInv, BellPart, SleeperHasAlarm, BuzzersOwn
<1>13. IdlesInLoop'
  <2>1. idling' => idling /\ life' = life
    BY <1>2, <1>6 DEF Resume, StillIdling
  <2> QED
    BY <1>1, <2>1, EpilogueLoop
<1> QED
  BY <1>11, <1>12, <1>13 DEF LInv

(***************************************************************************)
(* schedule(), the idle loop, leave(), RETI and interrupts.                *)
(***************************************************************************)

\* The first of the queue runs, and nobody idles: from main(), or when an idling
\* thread finds another one in the queue.
LEMMA SwitchToFirst ==
    ASSUME IInv, LInv, processqueue # << >>,
           life \notin Threads \/ (idling /\ life \notin ToSet(processqueue)),
           life' = Head(processqueue), processqueue' = Tail(processqueue),
           idling' = FALSE, UNCHANGED <<meetingVars, alive>>
    PROVE  LInv'
<1>1. processqueue \in Seq(Threads) /\ IsInjective(processqueue)
  BY DEF IInv, DataPart, SchedulerTypeOK, LInv, ListsPart, NoneTwice
<1>2. /\ life' \in ToSet(processqueue)
      /\ IsInjective(processqueue')
      /\ ToSet(processqueue') = ToSet(processqueue) \ {life'}
  BY <1>1, TailOnce, HeadInQueue
<1>3. UNCHANGED <<myroom, waiters, due, alive>>
  BY DEF meetingVars
<1>4. life' \in Threads /\ life' \in alive /\ myroom[life'] = NULL
  BY <1>1, <1>2 DEF ToSet, LInv, ListsPart, NoZombie, ReadyWaitsNot
<1>5. alive \subseteq Threads
  BY DEF IInv, DataPart
<1>6. ListsPart'
  <2>1. NoneTwice' /\ RoomsAgree'
    BY <1>2, <1>3 DEF LInv, ListsPart, NoneTwice, RoomsAgree, Rooms
  <2>2. ReadyWaitsNot' /\ NoZombie'
    BY <1>2, <1>3 DEF LInv, ListsPart, ReadyWaitsNot, NoZombie
  <2>3. NoLostThread'
    BY <1>2, <1>3, <1>5 DEF LInv, ListsPart, NoLostThread
  <2> QED
    BY <2>1, <2>2, <2>3 DEF ListsPart
<1>7. IdlesIffBlocked'
  BY <1>2, <1>3, <1>4 DEF IdlesIffBlocked
<1>8. IdlesInLoop' /\ BellPart'
  BY <1>3 DEF LInv, IdlesInLoop, BellPart, SleeperHasAlarm, BuzzersOwn
<1> QED
  BY <1>6, <1>7, <1>8 DEF LInv

\* schedule() from main().
LEMMA BootLists ==
    ASSUME IInv, LInv, Boot
    PROVE  LInv'
<1>1. /\ life = NULL /\ processqueue # << >>
      /\ life' = Head(processqueue) /\ processqueue' = Tail(processqueue)
      /\ UNCHANGED <<idling, meetingVars, alive>>
  BY DEF Boot, Schedule, Runs
<1>2. idling' = FALSE
  BY <1>1 DEF LInv, IdlesInLoop, IInv, DataPart, SchedulerTypeOK
<1> QED
  BY <1>1, <1>2, SwitchToFirst, ThreadsAssumption

\* The idle loop ends.
LEMMA EndIdlingLists ==
    ASSUME IInv, LInv, NEW t \in Threads, EndIdling(t), UNCHANGED <<meetingVars, alive>>
    PROVE  LInv'
<1>1. /\ life = t /\ idling' = FALSE /\ (~idling \/ processqueue # << >>)
      /\ IF idling
           THEN life' = Head(processqueue) /\ processqueue' = Tail(processqueue)
           ELSE life' = t /\ UNCHANGED processqueue
  BY DEF EndIdling, Runs
<1>2. CASE idling
  <2>1. life \notin ToSet(processqueue)
    BY <1>1, ThreadsAssumption DEF LInv, IdlesIffBlocked
  <2> QED
    BY <1>1, <1>2, <2>1, SwitchToFirst
<1>3. CASE ~idling
  <2>1. idling = FALSE
    BY <1>3 DEF IInv, DataPart, SchedulerTypeOK
  <2>2. UNCHANGED <<life, schedulerVars, meetingVars, alive>>
    BY <1>1, <1>3, <2>1 DEF schedulerVars
  <2>3. IdlesInLoop'
    BY <1>1 DEF IdlesInLoop
  <2> QED
    BY <2>2, <2>3, ListsUnchanged
<1> QED
  BY <1>2, <1>3

\* leave() and RETI go back to where the outermost interrupt came from.
LEMMA GuardStepLists ==
    ASSUME IInv, LInv, NEW c \in Threads, GuardStep(c)
    PROVE  LInv'
<1>1. UNCHANGED <<schedulerVars, meetingVars, alive>>
  BY DEF GuardStep
<1>2. /\ life = c /\ c \in Coroutines /\ pc \in [Coroutines -> Labels]
      /\ base \in [Coroutines -> Bases] /\ depth \in [Coroutines -> Nat]
      /\ UNCHANGED <<life, base>>
  BY DEF GuardStep, StartEpilogue, LeaveGuard, ReturnFromInterrupt, Runs, Coroutines,
     IInv, GuardPart, GuardTypeOK, frameVars
<1>3. pc[c] \notin Bases
  BY DEF GuardStep, StartEpilogue, LeaveGuard, ReturnFromInterrupt, Bases
<1>4. pc'[c] \notin Bases \/ pc'[c] = base[c]
  <2>1. CASE StartEpilogue(c)
    <3>1. Head(epilogqueue) \in Gates /\ pc'[c] = Head(epilogqueue)
      BY <1>2, <2>1, HeadTailProperties DEF StartEpilogue, IInv, GuardPart, GuardTypeOK
    <3> QED
      BY <3>1, GatesAssumption DEF Bases
  <2>2. CASE LeaveGuard(c) \/ ReturnFromInterrupt(c)
    BY <1>2, <2>2 DEF LeaveGuard, AfterLeave, ReturnFromInterrupt, Bases
  <2> QED
    BY <2>1, <2>2 DEF GuardStep
<1>5. TaskLevel' = TaskLevel
  BY <1>2, <1>3, <1>4 DEF TaskLevel
<1>6. UNCHANGED <<idling, life>>
  BY <1>1, <1>2 DEF schedulerVars
<1>7. IdlesInLoop'
  BY <1>5, <1>6 DEF LInv, IdlesInLoop
<1> QED
  BY <1>1, <1>6, <1>7, ListsUnchanged

\* On to CPU::idle(), and to sleep.
LEMMA IdlingLists ==
    ASSUME IInv, LInv, NEW t \in Threads, PrepareSleep(t) \/ SleepNow(t),
           UNCHANGED <<meetingVars, alive>>
    PROVE  LInv'
<1>1. UNCHANGED <<life, schedulerVars>> /\ life = t
  BY DEF PrepareSleep, SleepNow, Runs
<1>2. pc'[t] \in {"check", "lpm"}
  BY DEF PrepareSleep, SleepNow, IInv, GuardPart, GuardTypeOK, Coroutines
<1>3. IdlesInLoop'
  BY <1>1, <1>2, ThreadsAssumption DEF IdlesInLoop, TaskLevel, Bases
<1> QED
  BY <1>1, <1>3, ListsUnchanged

\* An interrupt puts its frame on top of the task level.
LEMMA InterruptLists ==
    ASSUME IInv, LInv, NEW g \in Gates, GateInterrupt(g)
    PROVE  LInv'
<1>1. UNCHANGED <<life, schedulerVars, meetingVars, alive>>
  BY DEF GateInterrupt, Interrupt
<1>2. /\ life \in Coroutines /\ pc \in [Coroutines -> Labels]
      /\ base \in [Coroutines -> Bases] /\ depth \in [Coroutines -> Nat]
  BY DEF IInv, GuardPart, GuardTypeOK
<1>3. TaskLevel' = TaskLevel
  <2>1. CASE RelayNow(g)
    <3>1. /\ base' = [base EXCEPT ![life] = IF depth[life] = 0 THEN pc[life] ELSE @]
          /\ pc' = [pc EXCEPT ![life] = g] /\ free
      BY <2>1 DEF RelayNow, Avail
    <3>2. pc'[life] = g /\ base'[life] = IF depth[life] = 0 THEN pc[life] ELSE base[life]
      BY <1>2, <3>1
    <3>3. g \notin Bases
      BY GatesAssumption DEF Bases
    <3>4. pc[life] \in Bases <=> depth[life] = 0
      BY <1>2, <3>1 DEF IInv, GuardPart, GuardInv, FrameInv, Unguarded
    <3> QED
      BY <1>1, <3>2, <3>3, <3>4 DEF TaskLevel
  <2>2. CASE RelayLater(g) \/ RelayDropped(g)
    <3>1. UNCHANGED <<pc, base>>
      BY <2>2 DEF RelayLater, RelayDropped, frameVars
    <3> QED
      BY <1>1, <3>1 DEF TaskLevel
  <2> QED
    BY <2>1, <2>2 DEF GateInterrupt, Interrupt
<1>4. IdlesInLoop'
  BY <1>1, <1>3 DEF LInv, IdlesInLoop, schedulerVars
<1> QED
  BY <1>1, <1>4, ListsUnchanged

\* Nothing that the invariant speaks about changes.
LEMMA OtherLists ==
    ASSUME LInv, UNCHANGED <<life, pc, base, schedulerVars, meetingVars, alive>>
    PROVE  LInv'
<1>1. IdlesInLoop'
  BY DEF LInv, IdlesInLoop, TaskLevel, schedulerVars
<1> QED
  BY <1>1, ListsUnchanged

(***************************************************************************)
(* The theorems.                                                           *)
(***************************************************************************)

\* main() has readied some threads, and nothing else has happened.
LEMMA InitLInv == Init => LInv
<1> SUFFICES ASSUME Init PROVE LInv
  OBVIOUS
<1>1. /\ processqueue \in SetToSeqs(BootThreads) /\ alive = BootThreads
      /\ idling = FALSE /\ life = NULL
      /\ myroom = [t \in Threads |-> NULL] /\ waiters = [r \in Rooms |-> << >>]
      /\ due = [t \in Threads |-> 0]
  BY DEF Init, GuardInit, SchedulerInit, MeetingInit
<1>2. IsInjective(processqueue) /\ ToSet(processqueue) = BootThreads
  BY <1>1, OrdersOnce, FS_Subset, ThreadsAssumption, BootAssumption
<1>3. IsInjective(<< >>) /\ ToSet(<< >>) = {}
  BY DEF IsInjective, ToSet
<1>4. NULL \notin Rooms /\ NULL \notin Threads
  BY RoomsAssumption, ThreadsAssumption DEF Rooms, Coroutines
<1>5. NoneTwice
  BY <1>1, <1>2, <1>3 DEF NoneTwice
<1>6. RoomsAgree
  BY <1>1, <1>3, <1>4 DEF RoomsAgree
<1>7. ReadyWaitsNot /\ NoZombie /\ NoLostThread
  BY <1>1, <1>2, BootAssumption DEF ReadyWaitsNot, NoZombie, NoLostThread
<1>8. IdlesIffBlocked /\ IdlesInLoop
  BY <1>1 DEF IdlesIffBlocked, IdlesInLoop
<1>9. BellPart
  BY <1>1, <1>4 DEF BellPart, SleeperHasAlarm, BuzzersOwn
<1> QED
  BY <1>5, <1>6, <1>7, <1>8, <1>9 DEF LInv, ListsPart

\* Every step of the kernel keeps the lists, the flags and the bells in agreement.
LEMMA NextLInv == IInv /\ LInv /\ [Next]_vars => LInv'
<1> SUFFICES ASSUME IInv, LInv, [Next]_vars
             PROVE  LInv'
  OBVIOUS
<1>1. ASSUME NEW t \in Threads, SyscallStep(t)
      PROVE  LInv'
  <2>1. CASE Exit(t)
    BY <2>1, ExitLists DEF Exit
  <2> QED
    BY <1>1, <2>1, PLists, VLists, SleepLists, YieldLists, DeviceCallLists, KillLists,
       ReadyLists
    DEF SyscallStep
<1>2. ASSUME NEW t \in Threads, IdleStep(t)
      PROVE  LInv'
  BY <1>2, EndIdlingLists, IdlingLists DEF IdleStep
<1>3. CASE OtherInterrupt \/ UNCHANGED vars
  <2>1. UNCHANGED <<life, pc, base, schedulerVars, meetingVars, alive>>
    BY <1>3 DEF OtherInterrupt, PrologueOnly, vars, frameVars
  <2> QED
    BY <2>1, OtherLists
<1> QED
  BY <1>1, <1>2, <1>3, BootLists, GuardStepLists, WatchEpilogueLists,
     RadioEpilogueLists, InterruptLists
  DEF Next, KernelStep

\* LInv holds in every reachable state.
THEOREM ListsInvariance == Spec => []LInv
<1> QED
  BY InitLInv, NextLInv, Invariance, PTL DEF Spec

\* The ready queue and the rooms are disjoint, because a thread knows of one room
\* and of none while it is ready.
LEMMA OneChainFollows ==
    ASSUME IInv, LInv
    PROVE  OneChain
<1>1. NULL \notin Rooms
  BY RoomsAssumption, ThreadsAssumption DEF Rooms, Coroutines
<1>2. ToSet(processqueue) \subseteq Threads /\ \A r \in Rooms : ToSet(waiters[r]) \subseteq Threads
  BY DEF IInv, DataPart, SchedulerTypeOK, MeetingTypeOK, ToSet
<1>3. \A r \in Rooms : ToSet(processqueue) \intersect ToSet(waiters[r]) = {}
  BY <1>1, <1>2 DEF LInv, ListsPart, RoomsAgree, ReadyWaitsNot
<1>4. \A r, q \in Rooms : r # q => ToSet(waiters[r]) \intersect ToSet(waiters[q]) = {}
  BY <1>2 DEF LInv, ListsPart, RoomsAgree
<1> DEFINE lists == [l \in Rooms \union {NULL} |->
                       IF l = NULL THEN processqueue ELSE waiters[l]]
<1>5. /\ DOMAIN lists = Rooms \union {NULL} /\ lists[NULL] = processqueue
      /\ \A r \in Rooms : lists[r] = waiters[r]
  BY <1>1
<1> HIDE DEF lists
<1>6. \A l \in DOMAIN lists : IsInjective(lists[l])
  BY <1>5 DEF LInv, ListsPart, NoneTwice
<1>7. \A l, m \in DOMAIN lists :
        l # m => ToSet(lists[l]) \intersect ToSet(lists[m]) = {}
  BY <1>3, <1>4, <1>5
<1> QED
  BY <1>6, <1>7 DEF OneChain, lists

\* Chain::next serves one list at a time, Customer::myroom tells which room, no
\* thread is lost and no dead one is left in a list (scheduler.cc, organizer.cc,
\* waitingroom.cc), whatever the threads call and whenever interrupts come.
THEOREM ListsAgree == Spec => []ListsInv
<1>1. IInv /\ LInv => ListsInv
  BY OneChainFollows DEF LInv, ListsPart, ListsInv
<1> QED
  BY <1>1, Invariance, ListsInvariance, PTL

\* `idling' is set exactly while the running thread is blocked or dead, and a bell
\* is pending exactly while its thread sleeps (scheduler.cc:103, buzzer.cc:44).
THEOREM FlagsTrue == Spec => []FlagsInv
<1>1. IInv /\ LInv => FlagsInv
  BY DEF LInv, BellPart, FlagsInv
<1> QED
  BY <1>1, Invariance, ListsInvariance, PTL

=============================================================================
