------------------------------ MODULE Meeting ------------------------------
(***************************************************************************)
(* Waiting: Organizer (thread/organizer.cc), Customer (thread/customer.h), *)
(* Waitingroom, Semaphore and Buzzer (meeting/).  A thread waits in at     *)
(* most one room, a semaphore or a buzzer; Customer::myroom remembers      *)
(* which.  A UserThread has a buzzer of its own (syscall/thread.h), named  *)
(* by the thread here; the bells of all buzzers hang in the Bellringer,    *)
(* of which this module keeps what AlarmClock specifies: how many ticks    *)
(* each has left.                                                          *)
(*                                                                         *)
(* As in Scheduler, the operators are bodies that run under the guard.     *)
(***************************************************************************)
EXTENDS Scheduler

CONSTANT Semaphores

ASSUME RoomsAssumption == Semaphores \intersect Coroutines = {}

VARIABLES
    myroom,   \* Customer::myroom
    waiters,  \* the queue of each Waitingroom
    counter,  \* Semaphore::counter
    due       \* ticks until a buzzer rings, 0 when its bell is not pending

meetingVars == <<myroom, waiters, counter, due>>

Rooms == Semaphores \union Threads

MeetingTypeOK ==
    /\ myroom \in [Threads -> Rooms \union {NULL}]
    /\ waiters \in [Rooms -> Seq(Threads)]
    /\ counter \in [Semaphores -> Nat]
    /\ due \in [Threads -> Nat]

MeetingInit ==
    /\ myroom = [t \in Threads |-> NULL]
    /\ waiters = [r \in Rooms |-> << >>]
    /\ counter = [s \in Semaphores |-> 0]
    /\ due = [t \in Threads |-> 0]

(***************************************************************************)
(* Organizer                                                               *)
(***************************************************************************)

\* Organizer::block(), after the caller's enqueue in the room.
Block(r) ==
    /\ waiters' = [waiters EXCEPT ![r] = Append(@, life)]
    /\ myroom' = [myroom EXCEPT ![life] = r]
    /\ SwitchAway

\* Organizer::wakeup() of each of the threads ts, but for the ready queue.
WakeUp(ts) ==
    /\ myroom' = [t \in Threads |-> IF t \in ts THEN NULL ELSE myroom[t]]
    /\ idling' = StillIdling(ts)

\* Mutant: the bell of a killed thread stays.
DueKept(t, r) == due

\* Buzzer::remove() cancels the bell when it takes the last waiter out.
DueWithout(t, r) ==
    IF r \in Threads /\ Unlink(waiters[r], t) = << >>
      THEN [due EXCEPT ![r] = 0]
      ELSE due

\* Organizer::kill() of a waiting thread takes it out of its room; of the
\* running thread, it is exit(); of any other, out of the ready queue.
KillWaiting(t) ==
    /\ myroom[t] # NULL
    /\ waiters' = [waiters EXCEPT ![myroom[t]] = Unlink(@, t)]
    /\ due' = DueWithout(t, myroom[t])
    /\ myroom' = [myroom EXCEPT ![t] = NULL]
    /\ pc' = [pc EXCEPT ![life] = "leave"]
    /\ UNCHANGED <<life, base, schedulerVars, counter>>

KillSelf(t) ==
    /\ myroom[t] = NULL
    /\ t = life
    /\ SwitchAway
    /\ UNCHANGED meetingVars

KillOther(t) ==
    /\ myroom[t] = NULL
    /\ t # life
    /\ processqueue' = Unlink(processqueue, t)
    /\ pc' = [pc EXCEPT ![life] = "leave"]
    /\ UNCHANGED <<life, base, idling, meetingVars>>

(***************************************************************************)
(* Semaphore                                                               *)
(***************************************************************************)

\* Mutant: p() never waits.
TakeAnyway(s) ==
    /\ counter' = [counter EXCEPT ![s] = @ - 1]
    /\ pc' = [pc EXCEPT ![life] = "leave"]
    /\ UNCHANGED <<life, base, schedulerVars, myroom, waiters, due>>

TakeOrWait(s) ==
    \/ /\ counter[s] > 0
       /\ counter' = [counter EXCEPT ![s] = @ - 1]
       /\ pc' = [pc EXCEPT ![life] = "leave"]
       /\ UNCHANGED <<life, base, schedulerVars, myroom, waiters, due>>
    \/ /\ counter[s] = 0
       /\ Block(s)
       /\ UNCHANGED <<counter, due>>

\* Mutant: v() counts although it hands its signal to a waiting thread.
SignalTwice(s) ==
    /\ waiters[s] # << >>
    /\ waiters' = [waiters EXCEPT ![s] = Tail(@)]
    /\ WakeUp({Head(waiters[s])})
    /\ processqueue' \in Readied({Head(waiters[s])})
    /\ counter' = [counter EXCEPT ![s] = @ + 1]

\* Semaphore::v(), from a thread or from an epilogue.
Signal(s) ==
    \/ /\ waiters[s] # << >>
       /\ waiters' = [waiters EXCEPT ![s] = Tail(@)]
       /\ WakeUp({Head(waiters[s])})
       /\ processqueue' \in Readied({Head(waiters[s])})
       /\ UNCHANGED counter
    \/ /\ waiters[s] = << >>
       /\ counter' = [counter EXCEPT ![s] = @ + 1]
       /\ UNCHANGED <<waiters, myroom, schedulerVars>>

(***************************************************************************)
(* Buzzer                                                                  *)
(***************************************************************************)

\* Buzzer::sleep() of the running thread on its own buzzer, n ticks long.
SleepTicks(n) ==
    /\ due' = [due EXCEPT ![life] = n]
    /\ Block(life)
    /\ UNCHANGED counter

\* The buzzers whose bell runs down at this tick.
Ringing == {b \in Threads : due[b] = 1}

\* All who sleep on a buzzer that rings.
Sleepers == UNION {ToSet(waiters[b]) : b \in Ringing}

\* Bellringer::check() with Buzzer::ring(): one tick for every pending bell,
\* and the sleepers of those that ring wake up.
RingBells ==
    /\ due' = [b \in Threads |-> IF due[b] = 0 THEN 0 ELSE due[b] - 1]
    /\ waiters' = [r \in Rooms |-> IF r \in Ringing THEN << >> ELSE waiters[r]]
    /\ WakeUp(Sleepers)
    /\ UNCHANGED counter

=============================================================================
