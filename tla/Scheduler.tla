----------------------------- MODULE Scheduler -----------------------------
(***************************************************************************)
(* The scheduler (thread/scheduler.cc, thread/dispatch.cc): a round-robin  *)
(* queue of runnable threads.  The running thread is not in it.  When the  *)
(* running thread gives up the CPU and the queue is empty, there is no     *)
(* idle thread: the thread itself leaves the guard and idles on its own    *)
(* stack, `idling` being TRUE, until it is readied itself or another       *)
(* thread appears in the queue.                                            *)
(*                                                                         *)
(* The operators below are bodies of system calls and epilogues: they run  *)
(* with the guard held, for the running coroutine.                         *)
(***************************************************************************)
EXTENDS Guard, SequencesExt

CONSTANT BootThreads    \* the threads main() readies before schedule()

ASSUME BootAssumption == BootThreads \subseteq Threads /\ BootThreads # {}

VARIABLES
    processqueue,  \* Scheduler::processqueue
    idling         \* Scheduler::idling

schedulerVars == <<processqueue, idling>>

\* Queue::remove(): an item that is not in the queue is left alone.
Unlink(queue, t) ==
    IF t \in ToSet(queue)
      THEN RemoveAt(queue, CHOOSE i \in DOMAIN queue : queue[i] = t)
      ELSE queue

SchedulerTypeOK ==
    /\ processqueue \in Seq(Threads)
    /\ idling \in BOOLEAN

\* ready_threads() in main(), before any thread runs: plain enqueues.
SchedulerInit ==
    /\ processqueue \in SetToSeqs(BootThreads)
    /\ idling = FALSE

\* Scheduler::schedule() from main(): go() to the first thread, for ever.
Schedule ==
    /\ Runs(NULL)
    /\ processqueue # << >>
    /\ life' = Head(processqueue)
    /\ processqueue' = Tail(processqueue)
    /\ UNCHANGED <<guardVars, asleep, pc, frameVars, idling>>

\* Mutant: readying the running coroutine leaves `idling` set.
StillIdlingAlways(ts) == idling

\* Scheduler::ready() for each of the threads ts: readying the running coroutine
\* ends its idling ...
StillIdling(ts) == idling /\ life \notin ts

\* ... and the others are appended to the queue, in some order.
Readied(ts) == {processqueue \o order : order \in SetToSeqs(ts \ {life})}

\* Scheduler::exit() up to the switch or to the idle loop's first leave().
SwitchAway ==
    \/ /\ processqueue # << >>
       /\ life' = Head(processqueue)
       /\ processqueue' = Tail(processqueue)
       /\ pc' = [pc EXCEPT ![life] = "leave"]
       /\ UNCHANGED <<base, idling>>
    \/ /\ processqueue = << >>
       /\ idling' = TRUE
       /\ pc' = [pc EXCEPT ![life] = "leave"]
       /\ base' = [base EXCEPT ![life] = "check"]
       /\ UNCHANGED <<life, processqueue>>

\* Mutant: the running thread goes on while others are ready.
ResumeSame(queue, idles) == life' = life /\ processqueue' = queue

\* Scheduler::resume(), given what is in the queue and whether it idles.
Resume(queue, idles) ==
    IF life = NULL \/ idles
      THEN life' = life /\ processqueue' = queue
      ELSE LET q == Append(queue, life)
           IN  life' = Head(q) /\ processqueue' = Tail(q)

(***************************************************************************)
(* The idle loop of Scheduler::exit(), outside the guard.                  *)
(***************************************************************************)

\* With interrupts disabled, leave the loop: re-enter the guard and switch to
\* the first thread in the queue, or to oneself when readied meanwhile.
EndIdling(t) ==
    /\ Runs(t)
    /\ pc[t] = "check"
    /\ ~idling \/ processqueue # << >>
    /\ Enter
    /\ IF idling
         THEN life' = Head(processqueue) /\ processqueue' = Tail(processqueue)
         ELSE life' = t /\ UNCHANGED processqueue
    /\ idling' = FALSE
    /\ pc' = [pc EXCEPT ![t] = "leave"]
    /\ base' = [base EXCEPT ![t] = "user"]
    /\ UNCHANGED <<epilogqueue, queued, asleep, depth>>

\* Nothing to run: on to CPU::idle(), which enables interrupts ...
PrepareSleep(t) ==
    /\ Runs(t)
    /\ pc[t] = "check"
    /\ idling /\ processqueue = << >>
    /\ pc' = [pc EXCEPT ![t] = "lpm"]
    /\ UNCHANGED <<guardVars, asleep, life, frameVars, schedulerVars>>

\* ... and then stops the CPU, whatever an interrupt did in between.
SleepNow(t) ==
    /\ Runs(t)
    /\ pc[t] = "lpm"
    /\ asleep' = TRUE
    /\ pc' = [pc EXCEPT ![t] = "check"]
    /\ UNCHANGED <<guardVars, life, frameVars, schedulerVars>>

=============================================================================
