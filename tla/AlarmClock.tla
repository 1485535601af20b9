----------------------------- MODULE AlarmClock -----------------------------
(***************************************************************************)
(* What the Bellringer promises (meeting/bell.h, meeting/bellringer.h): a  *)
(* bell set to n ticks rings at the n-th tick from then, unless it is      *)
(* cancelled before, and other bells make no difference to it.  Meeting    *)
(* uses this abstraction.                                                  *)
(***************************************************************************)
EXTENDS Naturals

CONSTANTS Bells, MaxTicks

VARIABLES
    due,      \* ticks until the bell rings, 0 when it is not pending
    ringing   \* the bells that the last tick has made ring, and have not yet

Init == due = [b \in Bells |-> 0] /\ ringing = {}

Set(b, n) ==
    /\ ringing = {} /\ due[b] = 0
    /\ due' = [due EXCEPT ![b] = n]
    /\ UNCHANGED ringing

Cancel(b) ==
    /\ ringing = {}
    /\ due' = [due EXCEPT ![b] = 0]
    /\ UNCHANGED ringing

Tick ==
    /\ ringing = {}
    /\ due' = [b \in Bells |-> IF due[b] = 0 THEN 0 ELSE due[b] - 1]
    /\ ringing' = {b \in Bells : due[b] = 1}

Ring(b) == b \in ringing /\ ringing' = ringing \ {b} /\ UNCHANGED due

Next ==
    \/ Tick
    \/ \E b \in Bells : Cancel(b) \/ Ring(b)
    \/ \E b \in Bells, n \in 1..MaxTicks : Set(b, n)

Spec == Init /\ [][Next]_<<due, ringing>>

=============================================================================
