--------------------------- MODULE ButtonService ---------------------------
(***************************************************************************)
(* The buttons as the threads see them: buttons.cc reads the pins,         *)
(* ButtonService (buttonservice.cc) publishes a press and waits for a      *)
(* change, and a thread such as ClickerThread (clicker.cc) takes the press *)
(* with get_buttons().  Any of the two may be preempted between two        *)
(* instructions.  Time passes in ticks, while both threads sleep.          *)
(***************************************************************************)
EXTENDS Naturals

CONSTANTS
    Names,       \* the buttons
    Debounce,    \* debounce_time, in ticks
    Repeats,     \* times it is waited for before a press counts again
    Period,      \* ticks from one get_buttons() to the next
    Bouncing,    \* ticks for which a contact bounces when it opens
    MaxPresses,  \* bound on the presses
    MaxTime      \* bound on the ticks of one press or pause

None == "none"

ButtonAssumption ==
    /\ Debounce \in Nat \ {0} /\ Repeats \in Nat \ {0} /\ Period \in Nat \ {0}
    /\ Bouncing \in Nat /\ MaxPresses \in Nat /\ MaxTime \in Nat
    /\ None \notin Names

VARIABLES
    contact,     \* the button that is pressed
    pin,         \* what the port reads
    since, gap,  \* ticks since the contact changed, and from the change before
    state,       \* button_state
    pc, timer, i, current,        \* of ButtonService::action()
    taker, wait, taken,           \* of the thread that calls get_buttons()
    presses,
    published,   \* history: how often the press of now was published
    fresh,       \* history: state is a press nobody has taken
    lost, twice, undue
                 \* history: a press nobody took, one taken twice, one published
                 \* once more after its end

hand == <<contact, pin, since, gap, presses>>
service == <<pc, timer, i, current>>
thread == <<taker, wait, taken>>
history == <<published, fresh, lost, twice, undue>>
vars == <<hand, state, service, thread, history>>

Init ==
    /\ contact = None /\ pin = None /\ since = MaxTime /\ gap = MaxTime
    /\ state = None
    /\ pc = "read" /\ timer = 0 /\ i = 0 /\ current = None
    /\ taker = "asleep" /\ wait = Period /\ taken = None
    /\ presses = 0
    /\ published = 0 /\ fresh = FALSE
    /\ lost = FALSE /\ twice = FALSE /\ undue = FALSE

-----------------------------------------------------------------------------
(* The hand and the contact. *)

Press(b) ==
    /\ contact = None
    /\ since >= Bouncing
    /\ presses < MaxPresses
    /\ presses' = presses + 1
    /\ contact' = b /\ pin' = b
    /\ since' = 0 /\ gap' = since
    /\ published' = 0
    /\ UNCHANGED <<state, service, thread, fresh, lost, twice, undue>>

Release ==
    /\ contact # None
    /\ contact' = None /\ pin' = None
    /\ since' = 0 /\ gap' = since
    /\ UNCHANGED <<presses, state, service, thread, history>>

\* An opened contact closes and opens for a while.
Bounce(b) ==
    /\ contact = None /\ presses > 0 /\ since < Bouncing
    /\ pin' = IF pin = None THEN b ELSE None
    /\ UNCHANGED <<contact, since, gap, presses, state, service, thread, history>>

-----------------------------------------------------------------------------
(* ButtonService::action(). *)

Sleep(ticks, next) ==
    /\ timer' = ticks
    /\ pc' = next

\* A press is published for as long as nobody takes it: the next one replaces it.
Publish ==
    /\ state' = pin
    /\ fresh' = TRUE
    /\ published' = published + 1
    /\ undue' = (undue \/ (contact = None /\ published > 0))
    /\ UNCHANGED <<lost, twice>>

Read ==
    /\ pc = "read"
    /\ current' = pin
    /\ i' = 0
    /\ IF pin # None
       THEN Publish /\ Sleep(Debounce, "debounce")
       ELSE Sleep(1, "pause") /\ UNCHANGED <<state, history>>
    /\ UNCHANGED <<hand, thread>>

Same == pin = current

More == i + 1 < Repeats

Check ==
    /\ pc = "debounce" /\ timer = 0
    /\ IF Same /\ More
       THEN i' = i + 1 /\ Sleep(Debounce, "debounce")
       ELSE i' = 0 /\ pc' = "read" /\ UNCHANGED timer
    /\ UNCHANGED <<hand, state, current, thread, history>>

Resume ==
    /\ pc = "pause" /\ timer = 0
    /\ pc' = "read"
    /\ UNCHANGED <<hand, state, timer, i, current, thread, history>>

-----------------------------------------------------------------------------
(* The thread that takes the presses. *)

Get ==
    /\ taker = "asleep" /\ wait = 0
    /\ taken' = state
    /\ twice' = (twice \/ (state # None /\ ~fresh))
    /\ taker' = IF state = None THEN "return" ELSE "clear"
    /\ fresh' = FALSE
    /\ UNCHANGED <<hand, state, service, wait, published, lost, undue>>

\* Mutant: the press stays.
ConsumedNot == state
Consumed == None

Clear ==
    /\ taker = "clear"
    /\ state' = Consumed
    /\ lost' = (lost \/ fresh)
    /\ taker' = "return"
    /\ UNCHANGED <<hand, service, wait, taken, published, fresh, twice, undue>>

\* ClickerThread counts what it got and sleeps.
Return ==
    /\ taker = "return"
    /\ taker' = "asleep"
    /\ wait' = Period
    /\ UNCHANGED <<hand, state, service, taken, history>>

-----------------------------------------------------------------------------
Tick ==
    /\ pc \in {"debounce", "pause"} /\ timer > 0
    /\ taker = "asleep" /\ wait > 0
    /\ contact # None => since < MaxTime
    /\ timer' = timer - 1
    /\ wait' = wait - 1
    /\ since' = IF since < MaxTime THEN since + 1 ELSE since
    /\ pin' = IF since' >= Bouncing THEN contact ELSE pin
    /\ UNCHANGED <<contact, gap, presses, state, pc, i, current, taker, taken, history>>

Next ==
    \/ \E b \in Names : Press(b) \/ Bounce(b)
    \/ Release
    \/ Read \/ Check \/ Resume
    \/ Get \/ Clear \/ Return
    \/ Tick

Spec == Init /\ [][Next]_vars

-----------------------------------------------------------------------------
TypeOK ==
    /\ {contact, pin, state, current, taken} \subseteq Names \cup {None}
    /\ since \in 0 .. MaxTime /\ gap \in 0 .. MaxTime
    /\ pc \in {"read", "debounce", "pause"} /\ timer \in 0 .. Debounce
    /\ i \in 0 .. Repeats - 1
    /\ taker \in {"asleep", "clear", "return"} /\ wait \in 0 .. Period
    /\ presses \in 0 .. MaxPresses /\ published \in Nat

\* A press that is held is published again only when it has lasted as long as the
\* loop waits, whatever the service was waiting for when it began
\* (buttonservice.cc:16).
RepeatsSlowly ==
    contact # None /\ published > 1 => since >= (published - 1) * Debounce * Repeats

\* A press that is held a little longer than the debounce time, after a pause as
\* long and the bouncing, has been published, whatever the service was waiting for
\* (buttonservice.cc:18, 24).
PressSeen == contact # None /\ since > Debounce + 1 /\ gap > Debounce + Bouncing => published > 0

\* What get_buttons() returns, it returns once (buttonservice.cc:32).
TakenOnce == ~twice

\* As buttonservice.h:35 has it, the state is debounced: a press that was published
\* is not published again by the bouncing of its end.
\* The code breaks it: README, section 5.
Debounced == ~undue

\* As buttonservice.cc:32 has it: the press that get_buttons() returns is the one it
\* consumes.
\* The code breaks it: README, section 5.
NoneLost == ~lost
=============================================================================
