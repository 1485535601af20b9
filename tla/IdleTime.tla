------------------------------ MODULE IdleTime ------------------------------
(***************************************************************************)
(* What the scheduler measures as its idle time: the loop of               *)
(* Scheduler::exit(), the counter of timer.cc which the timer's interrupt  *)
(* continues, and the interrupts that end CPU::idle().  The timer's        *)
(* register is external: it counts to Top, falls to 0 and raises its flag. *)
(* The counters are unsigned int, a word of Size values.                   *)
(***************************************************************************)
EXTENDS Integers

CONSTANTS
    Top,         \* TA0CCR0
    Divisor,     \* to_ms_divisor
    Size,        \* values of an unsigned int
    MaxLoops,    \* bound on the turns of the loop
    MaxAwake,    \* what a turn of the loop takes at most, in counts
    MaxTime      \* bound on the counts

IdleAssumption ==
    /\ Top \in Nat /\ Divisor \in Nat \ {0}
    /\ Size \in Nat /\ Size > 2 * (Top + 1) * (MaxTime + 1)
    /\ MaxLoops \in Nat /\ MaxAwake \in 0 .. Top - 1 /\ MaxTime \in Nat

VARIABLES
    pc,          \* of exit()
    reg, flag,   \* TA0R, and the timer's interrupt request
    ints,        \* interrupts are enabled
    counter, overflow, \* of Timer
    total,       \* temp_idle_time
    loops, awake, time,
    real         \* history: the counts since the counter was read

vars == <<pc, reg, flag, ints, counter, overflow, total, loops, awake, time, real>>

Init ==
    /\ pc = "start"
    /\ reg \in 0 .. Top /\ flag = FALSE
    /\ ints = FALSE
    /\ counter = 0 /\ overflow = 0 /\ total = 0
    /\ loops = 0 /\ awake = 0 /\ time = 0 /\ real = 0

-----------------------------------------------------------------------------
\* The timer goes on, whatever the processor does, which is faster.
Count ==
    /\ time < MaxTime
    /\ (pc = "asleep" /\ ~flag) \/ awake < MaxAwake
    /\ awake' = IF pc = "asleep" /\ ~flag THEN awake ELSE awake + 1
    /\ time' = time + 1
    /\ reg' = IF reg = Top THEN 0 ELSE reg + 1
    /\ flag' = (flag \/ reg = Top)
    /\ real' = IF pc \in {"idle", "asleep", "stop"} THEN real + 1 ELSE real
    /\ UNCHANGED <<pc, ints, counter, overflow, total, loops>>

\* What the prologue adds for a turn of the timer.
\* Mutant: the whole range of the register, as in the timer's third variant.
TurnRange == Size - 1
Turn == Top

\* prologue(), with interrupts off; on return the processor is awake, but not if it
\* has yet to fall asleep.
Prologue ==
    /\ ints /\ flag
    /\ flag' = FALSE
    /\ overflow' = (overflow + Turn) % Size
    /\ pc' = IF pc = "asleep" THEN "stop" ELSE pc
    /\ UNCHANGED <<reg, ints, counter, total, loops, awake, time, real>>

\* Any other interrupt.
Interrupt ==
    /\ pc = "asleep"
    /\ pc' = "stop"
    /\ UNCHANGED <<reg, flag, ints, counter, overflow, total, loops, awake, time, real>>

\* The program's next instruction: an interrupt that is enabled and requested is
\* taken before it.
Instruction == ~(ints /\ flag)

\* Timer::start(): the overflow, then the counter.
Start ==
    /\ pc = "start"
    /\ Instruction
    /\ loops < MaxLoops
    /\ loops' = loops + 1
    /\ overflow' = 0
    /\ awake' = 0
    /\ pc' = "read"
    /\ UNCHANGED <<reg, flag, ints, counter, total, time, real>>

ReadStart ==
    /\ pc = "read"
    /\ Instruction
    /\ counter' = reg
    /\ real' = 0
    /\ pc' = "idle"
    /\ UNCHANGED <<reg, flag, ints, overflow, total, loops, awake, time>>

\* CPU::idle(): interrupts on, then asleep.
Enable ==
    /\ pc = "idle" /\ ~ints
    /\ Instruction
    /\ ints' = TRUE
    /\ UNCHANGED <<pc, reg, flag, counter, overflow, total, loops, awake, time, real>>

Sleep ==
    /\ pc = "idle" /\ ints
    /\ Instruction
    /\ pc' = "asleep"
    /\ UNCHANGED <<reg, flag, ints, counter, overflow, total, loops, awake, time, real>>

\* Timer::stop().
Elapsed == (reg - counter) % Size

Stop ==
    /\ pc = "stop"
    /\ Instruction
    /\ counter' = Elapsed
    /\ pc' = "get"
    /\ UNCHANGED <<reg, flag, ints, overflow, total, loops, awake, time, real>>

\* temp_idle_time += getcycles().
Get ==
    /\ pc = "get"
    /\ Instruction
    /\ total' = total + ((counter + overflow) % Size) \div Divisor
    /\ pc' = "disable"
    /\ UNCHANGED <<reg, flag, ints, counter, overflow, loops, awake, time, real>>

Disable ==
    /\ pc = "disable"
    /\ Instruction
    /\ ints' = FALSE
    /\ pc' = "start"
    /\ UNCHANGED <<reg, flag, counter, overflow, total, loops, awake, time, real>>

Next ==
    \/ Count \/ Prologue \/ Interrupt
    \/ Start \/ ReadStart \/ Enable \/ Sleep
    \/ Stop \/ Get \/ Disable

Spec == Init /\ [][Next]_vars

-----------------------------------------------------------------------------
TypeOK ==
    /\ pc \in {"start", "read", "idle", "asleep", "stop", "get", "disable"}
    /\ reg \in 0 .. Top /\ flag \in BOOLEAN /\ ints \in BOOLEAN
    /\ counter \in 0 .. Size - 1 /\ overflow \in 0 .. Size - 1
    /\ total \in Nat
    /\ loops \in 0 .. MaxLoops /\ awake \in 0 .. MaxAwake /\ time \in 0 .. MaxTime /\ real \in Nat

Measure == (counter + overflow) % Size

\* A turn of the timer may be pending when a measurement begins, and another come
\* when it has ended: they add a turn each, however the interrupts fall, and no
\* measurement runs away, although a difference of the register may be negative
\* (timer.cc:61, 85, 91).
WithinTwoTurns == pc = "get" => Measure - real \in -2 .. 2 * Top

\* As timer.h:35 has it: what is counted is the time between start() and stop().
\* The code breaks it: README, section 5.
CountsIdle == pc = "get" => Measure - real \in -1 .. 1
=============================================================================
