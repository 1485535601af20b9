----------------------------- MODULE Bellringer -----------------------------
(***************************************************************************)
(* The Bellringer (meeting/bellringer.cc): the pending bells in a List,    *)
(* here a sequence (Queue shows that List is one), in the order they ring; *)
(* each holds in Bell::m_value the ticks between the bell before it and    *)
(* itself, so that a tick only touches the first.  All methods run under   *)
(* the guard, hence one after the other; check() is taken apart into the   *)
(* iterations of its loop.                                                 *)
(***************************************************************************)
EXTENDS SequencesExt

CONSTANTS
    Bells,
    Beepers,     \* the bells that are a Guarded_Beeper; the others are Buzzers
    MaxTicks     \* bound: the greatest number of ticks a job is given

ASSUME BellAssumption ==
    Beepers \subseteq Bells /\ MaxTicks \in Nat

VARIABLES
    bells,     \* the List
    m_value,   \* Bell::m_value
    checking   \* in the loop of check()

vars == <<bells, m_value, checking>>

TypeOK ==
    /\ bells \in Seq(Bells)
    /\ m_value \in [Bells -> 0..MaxTicks]
    /\ checking \in BOOLEAN

Init ==
    /\ bells = << >>
    /\ m_value = [b \in Bells |-> 0]
    /\ checking = FALSE

Linked == ToSet(bells)

\* Under these values, the ticks until the k-th bell rings; 0 for k = 0.
Elapsed(value) ==
    LET sum[k \in 0..Len(bells)] ==
          IF k = 0 THEN 0 ELSE sum[k - 1] + value[bells[k]]
    IN  [k \in 0..Len(bells) |-> sum[k]]

(***************************************************************************)
(* job()                                                                   *)
(***************************************************************************)

\* How many bells job() passes: those that ring no later than the new one.
BellsBefore(value, ticks) ==
    LET sum == Elapsed(value)
    IN  Cardinality({k \in 1..Len(bells) : sum[k] <= ticks})

\* The bell behind the new one now waits for what is left.
DelayNext(value, p, ticks) ==
    IF p = Len(bells) THEN value
    ELSE [value EXCEPT ![bells[p + 1]] = @ - ticks]

Job(bell, ticks) ==
    LET value == [m_value EXCEPT ![bell] = ticks]
        p     == BellsBefore(value, ticks)
        rest  == ticks - Elapsed(value)[p]
    IN  /\ m_value' = [DelayNext(value, p, rest) EXCEPT ![bell] = rest]
        /\ bells' = InsertAt(bells, p + 1, bell)
        /\ UNCHANGED checking

\* Buzzer::sleep(): its thread runs, so the bell is not pending.
Sleep(bell, ticks) ==
    /\ ~checking
    /\ bell \notin Beepers \union Linked
    /\ Job(bell, ticks)

\* Guarded_Beeper::beep() takes a bell that has run down for one not pending.
Beep(bell, ticks) ==
    /\ ~checking
    /\ bell \in Beepers
    /\ m_value[bell] = 0
    /\ Job(bell, ticks)

(***************************************************************************)
(* cancel(), from Buzzer::remove() when its thread is killed               *)
(***************************************************************************)

\* Mutant: the time of the cancelled bell is not handed on.
InheritForgotten(k) == m_value

\* The bell behind the k-th takes over its time.
Inherit(k) ==
    IF k = Len(bells) THEN m_value
    ELSE [m_value EXCEPT ![bells[k + 1]] = @ + m_value[bells[k]]]

Cancel(bell) ==
    /\ ~checking
    /\ bell \notin Beepers
    /\ \E k \in DOMAIN bells :
         /\ bells[k] = bell
         /\ m_value' = Inherit(k)
         /\ bells' = RemoveAt(bells, k)
    /\ UNCHANGED checking

(***************************************************************************)
(* check(), once per tick                                                  *)
(***************************************************************************)

\* Bell::tick() of the first bell.
CheckFirst ==
    /\ ~checking
    /\ bells # << >>
    /\ m_value' = [m_value EXCEPT ![Head(bells)] = IF @ = 0 THEN 0 ELSE @ - 1]
    /\ checking' = TRUE
    /\ UNCHANGED bells

RunDown == bells # << >> /\ m_value[Head(bells)] = 0

\* Dequeue the first bell and let it ring().
RingFirst ==
    /\ checking
    /\ RunDown
    /\ bells' = Tail(bells)
    /\ UNCHANGED <<m_value, checking>>

CheckDone ==
    /\ checking
    /\ ~RunDown
    /\ checking' = FALSE
    /\ UNCHANGED <<bells, m_value>>

Next ==
    \/ \E b \in Bells, n \in 1..MaxTicks : Sleep(b, n)
    \/ \E b \in Bells : Cancel(b)
    \/ CheckFirst \/ RingFirst \/ CheckDone

Spec == Init /\ [][Next]_vars

\* With the beeper, the one other user of the Bellringer.
BeeperNext == Next \/ \E b \in Beepers, n \in 1..MaxTicks : Beep(b, n)

BeeperSpec == Init /\ [][BeeperNext]_vars

(***************************************************************************)
(* Properties                                                              *)
(***************************************************************************)

\* The ticks left to a bell: its value and those before it; 0 if it is not linked.
TicksLeft ==
    [b \in Bells |->
       IF b \in Linked
         THEN Elapsed(m_value)[CHOOSE k \in DOMAIN bells : bells[k] = b]
         ELSE 0]

Clock == INSTANCE AlarmClock WITH
    due     <- TicksLeft,
    ringing <- IF checking THEN {b \in Linked : TicksLeft[b] = 0} ELSE {}

\* What each call does to the times; one that does nothing is no stuttering step.
CallsKeepTime ==
    /\ \A b \in Bells, n \in 1..MaxTicks : Sleep(b, n) => Clock!Set(b, n)
    /\ \A b \in Bells : Cancel(b) => Clock!Cancel(b)
    /\ CheckFirst => Clock!Tick
    /\ RingFirst => Clock!Ring(Head(bells))

\* Every bell rings at its tick, with the delta list standing for the times:
\* no insertion, cancellation or simultaneous bell shifts another one, and no
\* call is without effect.
RingsOnTime == Clock!Spec /\ [][CallsKeepTime]_vars

=============================================================================
