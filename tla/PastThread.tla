----------------------------- MODULE PastThread -----------------------------
(***************************************************************************)
(* The speed governor (pastthread.cc): every interval it takes the idle    *)
(* time of the last one and the work that was left over, and sets the      *)
(* processor's frequency (clocks_init in system.c).  long has 32 bits and  *)
(* unsigned long takes part in its arithmetic; a word is a pair of halves  *)
(* of 16 bits here.                                                        *)
(***************************************************************************)
EXTENDS Integers

CONSTANTS
    IdleTimes,     \* what getLastIdle() may return, in ms
    MaxIntervals   \* bound on the intervals

\* Halves that are not negative.
Millis == 0 .. 32767

PastAssumption ==
    /\ IdleTimes \subseteq Millis /\ IdleTimes # {}
    /\ MaxIntervals \in Nat

Half == 65536
Word == [hi : 0 .. Half - 1, lo : 0 .. Half - 1]

VARIABLES
    speed,       \* speed_scaled
    excess,      \* excess_cycles, a word
    mul,         \* the multiplier of the clock, 0 before it is set
    intervals,
    busy         \* history: the intervals without idle time up to now

vars == <<speed, excess, mul, intervals, busy>>

-----------------------------------------------------------------------------
(* Words: sums, products with less than a half, quotients of them. *)

W(n) == [hi |-> n \div Half, lo |-> n % Half]
Sum(a, b) ==
    [hi |-> (a.hi + b.hi + (a.lo + b.lo) \div Half) % Half, lo |-> (a.lo + b.lo) % Half]
Difference(a, b) ==
    LET borrow == IF a.lo < b.lo THEN 1 ELSE 0
    IN  [hi |-> (a.hi - b.hi - borrow) % Half, lo |-> (a.lo - b.lo) % Half]
Product(a, n) ==
    [hi |-> (((a.hi * n) % Half) + ((a.lo * n) \div Half)) % Half, lo |-> (a.lo * n) % Half]
Quotient(a, n) ==
    [hi |-> a.hi \div n, lo |-> ((a.hi % n) * Half + a.lo) \div n]
Negative(a) == a.hi >= 32768
Opposite(a) == Difference(W(0), a)
\* Division of C, towards 0.
SignedQuotient(a, n) ==
    IF Negative(a) THEN Opposite(Quotient(Opposite(a), n)) ELSE Quotient(a, n)
\* a > n, as long.
Exceeds(a, n) == ~Negative(a) /\ (a.hi > n \div Half \/ (a.hi = n \div Half /\ a.lo > n % Half))

-----------------------------------------------------------------------------
Interval == 50                 \* UPDATE_INTERVAL_MS
Scale == 1000                  \* SCALE_FACTOR
MaxFreq == W(27000000)
MaxSpeed == Scale
\* MIN_FREQ_HZ * SCALE_FACTOR / MAX_FREQ_HZ, whose product is more than a word.
MinSpeed == Quotient(Quotient(Product(W(5000000), Scale), 8000), 3375).lo

Init ==
    /\ speed = MaxSpeed
    /\ excess = W(0)
    /\ mul = 0
    /\ intervals = 0 /\ busy = 0

Run(idle) == Sum(W(IF idle >= Interval THEN 0 ELSE Interval - idle), excess)

Over(idle) ==
    Difference(Product(Run(idle), Scale), Product(Sum(Run(idle), W(idle)), speed))
\* Mutant: less than nothing may be left over.
NextExcessRaw(idle) == Over(idle)
NextExcess(idle) == IF Negative(Over(idle)) THEN W(0) ELSE Over(idle)

Percent(idle) == Quotient(Product(Run(idle), Scale), Interval)

Clamped(s) == IF s > MaxSpeed THEN MaxSpeed ELSE IF s < MinSpeed THEN MinSpeed ELSE s

NewSpeed(idle) ==
    Clamped(CASE Exceeds(excess, idle) -> MaxSpeed
              [] ~Exceeds(excess, idle) /\ Exceeds(Percent(idle), 700) -> speed + 200
              [] ~Exceeds(excess, idle) /\ ~Exceeds(Percent(idle), 499) ->
                     speed - (600 - Percent(idle).lo)
              [] OTHER -> speed)

Frequency(s) == SignedQuotient(Product(MaxFreq, s), Scale)

\* clocks_init(): the nearest multiple of the crystal's 32768 Hz, an int, unless it
\* is too high.
AsInt(a) == IF a.lo >= 32768 THEN a.lo - Half ELSE a.lo
Multiplier(f) == AsInt(SignedQuotient(Sum(f, W(16384)), 32768))
Clocks(s) ==
    LET m == Multiplier(Frequency(s)) IN IF m >= 1024 THEN mul ELSE m

Update(idle) ==
    /\ intervals < MaxIntervals
    /\ intervals' = intervals + 1
    /\ speed' = NewSpeed(idle)
    /\ excess' = NextExcess(idle)
    /\ mul' = Clocks(speed')
    /\ busy' = IF idle = 0 THEN busy + 1 ELSE 0

Next == \E idle \in IdleTimes : Update(idle)

Spec == Init /\ [][Next]_vars

-----------------------------------------------------------------------------
TypeOK ==
    /\ speed \in MinSpeed .. MaxSpeed
    /\ excess \in Word
    /\ mul \in -66 .. 1023
    /\ intervals \in 0 .. MaxIntervals /\ busy \in 0 .. MaxIntervals

\* A processor that did not idle in two intervals runs at full speed from then on,
\* however slow it was and although the excess is a thousandth of what it is
\* compared with (pastthread.cc:25, 38).
FullSpeedIfBusy == busy >= 2 => speed = MaxSpeed

\* An interval at full speed leaves nothing over, although its products may be more
\* than a word (pastthread.cc:29).
NothingOver == speed = MaxSpeed /\ intervals' # intervals => excess' = W(0)
FullSpeedDrains == [][NothingOver]_vars

\* As pastthread.cc:61 has it: the frequency is the highest one times the speed,
\* which at full speed is 824 times the crystal's.
FrequencyIsSpeed == mul # 0 => Scale * mul - 824 * speed \in -Scale .. Scale
=============================================================================
