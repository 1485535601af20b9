------------------------------- MODULE Kernel -------------------------------
(***************************************************************************)
(* The kernel as a whole: the system calls of syscall/, each of which      *)
(* enters the guard, runs one operation and leaves it; the epilogues of    *)
(* the two gates that have one, Watch (device/watch.cc) and Radio          *)
(* (machine/radio.cc); and interrupts at every point where the code lets   *)
(* them in.                                                                *)
(*                                                                         *)
(* Entering the guard and the operation's body are one step: while the     *)
(* guard is held interrupts only queue epilogues, which commutes with the  *)
(* body.  The guard is left by the steps of Guard.                         *)
(***************************************************************************)
EXTENDS Meeting

CONSTANTS
    RadioSem,   \* Radio::packet_received
    MaxTicks,   \* bound: the longest sleep, in ticks
    MaxCount    \* bound: a semaphore is not signalled beyond this count

ASSUME RadioAssumption == RadioSem \in Semaphores
ASSUME BoundsAssumption == MaxTicks \in Nat \ {0} /\ MaxCount \in Nat \ {0}

VARIABLE
    alive       \* history: readied, and neither exited nor killed since

vars == <<guardVars, asleep, life, pc, frameVars, schedulerVars, meetingVars,
          alive>>

TypeOK ==
    /\ GuardTypeOK
    /\ SchedulerTypeOK
    /\ MeetingTypeOK
    /\ alive \subseteq Threads

Init ==
    /\ GuardInit
    /\ SchedulerInit
    /\ MeetingInit
    /\ alive = BootThreads

(***************************************************************************)
(* System calls of the running thread t.                                   *)
(***************************************************************************)

\* A call from the thread's own code: Secure enters the guard.
Syscall(t) ==
    /\ Runs(t)
    /\ pc[t] = "user"
    /\ Enter
    /\ UNCHANGED <<epilogqueue, queued, asleep, depth>>

\* The call returns without touching the scheduler.
Done(t) ==
    /\ pc' = [pc EXCEPT ![t] = "leave"]
    /\ UNCHANGED <<life, base, schedulerVars>>

P(t, s) == Syscall(t) /\ TakeOrWait(s) /\ UNCHANGED alive

\* packet_received is signalled by the radio's epilogue alone.
V(t, s) ==
    /\ s # RadioSem /\ counter[s] < MaxCount
    /\ Syscall(t)
    /\ Signal(s)
    /\ pc' = [pc EXCEPT ![t] = "leave"]
    /\ UNCHANGED <<life, base, due, alive>>

Sleep(t, n) == Syscall(t) /\ SleepTicks(n) /\ UNCHANGED alive

Yield(t) ==
    /\ Syscall(t)
    /\ Resume(processqueue, idling)
    /\ pc' = [pc EXCEPT ![t] = "leave"]
    /\ UNCHANGED <<base, idling, meetingVars, alive>>

Exit(t) ==
    /\ Syscall(t)
    /\ SwitchAway
    /\ alive' = alive \ {t}
    /\ UNCHANGED meetingVars

Kill(t, target) ==
    /\ Syscall(t)
    /\ KillWaiting(target) \/ KillSelf(target) \/ KillOther(target)
    /\ alive' = alive \ {target}

\* Guarded_Organizer::ready().  Readying a thread that is queued or waiting
\* would link its Chain twice; no caller in the tree does, so none does here.
Ready(t, target) ==
    /\ target \notin alive \/ target = t
    /\ Syscall(t)
    /\ processqueue' \in Readied({target})
    /\ idling' = StillIdling({target})
    /\ pc' = [pc EXCEPT ![t] = "leave"]
    /\ alive' = alive \union {target}
    /\ UNCHANGED <<life, base, meetingVars>>

\* Any other Guarded_* wrapper: a Secure section around a device's method.
DeviceCall(t) == Syscall(t) /\ Done(t) /\ UNCHANGED <<meetingVars, alive>>

(***************************************************************************)
(* Epilogues, run by leave() or by an interrupt handler of c.              *)
(***************************************************************************)

Epilogue(c, g) ==
    /\ Runs(c)
    /\ pc[c] = g
    /\ pc' = [pc EXCEPT ![c] = "leave"]
    /\ UNCHANGED <<guardVars, asleep, frameVars, alive>>

\* Watch::epilogue(): ring the bells that are due, then preempt.
WatchEpilogue(c) ==
    /\ Epilogue(c, "watch")
    /\ RingBells
    /\ \E queue \in Readied(Sleepers) : Resume(queue, StillIdling(Sleepers))

\* Radio::epilogue(): one signal.
RadioEpilogue(c) ==
    /\ Epilogue(c, "radio")
    /\ Signal(RadioSem)
    /\ UNCHANGED <<life, due>>

(***************************************************************************)
(* The next-state relation.                                                *)
(***************************************************************************)

GuardStep(c) ==
    /\ StartEpilogue(c) \/ LeaveGuard(c) \/ ReturnFromInterrupt(c)
    /\ UNCHANGED <<schedulerVars, meetingVars, alive>>

IdleStep(t) ==
    /\ EndIdling(t) \/ PrepareSleep(t) \/ SleepNow(t)
    /\ UNCHANGED <<meetingVars, alive>>

Boot == Schedule /\ UNCHANGED <<meetingVars, alive>>

\* The radio is plugged in by its first user, hence by a thread; a packet
\* arrives only while its signal stays within the bound.
GateInterrupt(g) ==
    /\ g = "radio" => life # NULL /\ counter[RadioSem] < MaxCount
    /\ Interrupt(g)
    /\ UNCHANGED <<schedulerVars, meetingVars, alive>>

OtherInterrupt == PrologueOnly /\ UNCHANGED <<schedulerVars, meetingVars, alive>>

SyscallStep(t) ==
    \/ \E s \in Semaphores : P(t, s) \/ V(t, s)
    \/ \E n \in 1..MaxTicks : Sleep(t, n)
    \/ Yield(t) \/ Exit(t) \/ DeviceCall(t)
    \/ \E target \in Threads : Kill(t, target) \/ Ready(t, target)

\* What the CPU does by itself.
KernelStep ==
    \/ Boot
    \/ \E t \in Threads :
         GuardStep(t) \/ IdleStep(t) \/ WatchEpilogue(t) \/ RadioEpilogue(t)

Next ==
    \/ KernelStep
    \/ \E t \in Threads : SyscallStep(t)
    \/ \E g \in Gates : GateInterrupt(g)
    \/ OtherInterrupt

Spec == Init /\ [][Next]_vars

\* Interrupts leave the CPU time for the tasks: again and again it gets out of
\* the guard and of every handler (a tick comes each 10 ms, an epilogue takes
\* microseconds).
TasksGetTime == []<>(pc[life] \in Bases)

\* The CPU goes on with what it executes; it gets through the few instructions
\* of the idle loop although interrupts may delay it; the timer keeps ticking.
\* No thread is assumed to make any system call.
Fairness ==
    /\ WF_vars(KernelStep)
    /\ SF_vars(\E t \in Threads : IdleStep(t))
    /\ SF_vars(GateInterrupt("watch"))
    /\ TasksGetTime

FairSpec == Spec /\ Fairness

(***************************************************************************)
(* Invariants.                                                             *)
(***************************************************************************)

\* The lock is free exactly while the running coroutine is outside the guard,
\* and every coroutine that does not run stands in a leave() it has still to
\* do: the lock is handed over by a switch, from the thread that entered it to
\* the one that frees it (Secure in syscall/, kickoff(), Watch::epilogue()).
GuardInv ==
    /\ free <=> pc[life] \in Unguarded
    /\ \A t \in Threads \ {life} : pc[t] = "leave"
    /\ pc[NULL] = "boot"

\* System calls and the idle loop run at the bottom of a stack, never on top of
\* an interrupt frame: a thread that is switched out inside a handler finishes
\* that handler before anything else runs on its stack.
FrameInv ==
    \A c \in Coroutines :
      /\ pc[c] \in Bases => depth[c] = 0
      /\ pc[c] = "reti" => depth[c] > 0

\* No interrupt, switch or idle loop ever enters a guard that is taken or
\* leaves one that is free, the two events locker_checking.ah panics about.
NoPanic == panic = "none"

\* Gate::queued() is the truth about the epilogue queue, and no gate is linked
\* in twice: a stale flag would silence a device for good.
GatesQueuedOnce ==
    /\ IsInjective(epilogqueue)
    /\ \A g \in Gates : queued[g] <=> g \in ToSet(epilogqueue)

\* Chain::next of a thread serves one list at a time: whatever sequence of
\* blocks, wake-ups, kills and preemptions, a thread is linked at most once
\* into the ready queue and all waiting rooms together.
OneChain ==
    LET lists == [l \in Rooms \union {NULL} |->
                    IF l = NULL THEN processqueue ELSE waiters[l]]
    IN  /\ \A l \in DOMAIN lists : IsInjective(lists[l])
        /\ \A l, m \in DOMAIN lists :
             l # m => ToSet(lists[l]) \intersect ToSet(lists[m]) = {}

\* No thread is lost: one that is readied and has neither exited nor been
\* killed runs, is in the ready queue, or waits in a room.
NoLostThread ==
    \A t \in alive : \/ t = life /\ ~idling
                     \/ t \in ToSet(processqueue)
                     \/ myroom[t] # NULL

\* The running thread is never in the ready queue, and it idles exactly when
\* it has nothing to do: it waits in a room or is dead.  Between the wake-up
\* of an idling thread and its return from the idle loop, neither an epilogue
\* nor a switch may read a stale `idling`.
IdlesIffBlocked ==
    life # NULL =>
      /\ life \notin ToSet(processqueue)
      /\ idling <=> (life \notin alive \/ myroom[life] # NULL)

\* Customer::waiting_in() and the rooms' queues agree, through every order of
\* blocking, waking and killing: kill() trusts myroom to find the queue.
RoomsAgree ==
    \A t \in Threads, r \in Rooms : myroom[t] = r <=> t \in ToSet(waiters[r])

\* A buzzer's bell is pending exactly while its thread sleeps on it: neither a
\* sleeper without an alarm, nor an alarm that outlives a killed sleeper.
SleeperHasAlarm ==
    \A t \in Threads : due[t] > 0 <=> myroom[t] = t

\* No thread waits at a semaphore that could be taken.
NoneWaitsInVain ==
    \A s \in Semaphores : counter[s] > 0 => waiters[s] = << >>

\* A dead thread is in no list: an exit or a kill at any moment leaves nothing
\* behind through which the scheduler could switch to it again.
NoZombie ==
    \A t \in Threads \ alive : t \notin ToSet(processqueue) /\ myroom[t] = NULL

\* The lists and what the threads know of them agree: no sequence of blocking,
\* wake-ups, kills and preemptions loses a thread, links it twice or leaves a dead
\* one behind (Chain::next, myroom).
ListsInv == OneChain /\ RoomsAgree /\ NoZombie /\ NoLostThread

\* `idling' and the bells tell the truth about who is blocked: a wake-up goes the
\* right way, and every sleeper has one to come (scheduler.cc:103, buzzer.cc:44).
FlagsInv == IdlesIffBlocked /\ SleeperHasAlarm

\* The comment in Scheduler::exit(): it idles until the flag is reset or another
\* thread is in the queue.  The CPU sleeps only while there is nothing to run.
SleepsOnlyWhenIdle == asleep => idling /\ processqueue = << >>

(***************************************************************************)
(* Liveness.                                                               *)
(***************************************************************************)

\* Round robin: whatever the other threads do, a thread in the ready queue gets
\* the CPU, unless it is killed.
ReadyRuns ==
    \A t \in Threads :
      t \in ToSet(processqueue) ~> (life = t /\ ~idling) \/ t \notin alive

\* A sleeping thread is woken and runs again, unless it is killed.
SleeperRuns ==
    \A t \in Threads :
      myroom[t] = t ~> (life = t /\ ~idling) \/ t \notin alive

=============================================================================
