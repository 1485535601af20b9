---------------------------- MODULE AccelSensor ----------------------------
(***************************************************************************)
(* The acceleration sensors of the two boards (bma250.cc, cma3000.cc) and  *)
(* the SPI transfers they make (accel_spi.cc): two bytes under one         *)
(* selection, each waited for, and a flag that a timeout clears.  The      *)
(* chip is external: it has registers, the byte it expects next, what it   *)
(* measures and what its data register shows.  Its calls run under the     *)
(* guard, one at a time; an axis of the chip is as good as the others.     *)
(***************************************************************************)
EXTENDS Integers, Sequences

CONSTANTS
    Outputs,      \* what the chip measures along an axis, as a byte
    MaxCalls,     \* bound on the calls
    MaxSlow       \* bound on the bytes that take too long

AccelAssumption ==
    /\ Outputs \subseteq 0 .. 255 /\ Outputs # {}
    /\ MaxCalls \in Nat /\ MaxSlow \in Nat

\* The least value of the byte has no negative (bma250.cc:96).
Negatable == 128 \notin Outputs

Kinds == {"bma", "cma"}
Ranges == {2, 8}
Rates == {"LOW", "MED", "HIGH"}
Axes == {"x", "y", "z"}

VARIABLES
    kind,        \* the sensor of the board
    asOk,        \* as_ok
    csn,         \* the chip select pin is high
    powered,     \* AS_PWR_PIN
    pc,          \* of accel_read_write_register
    call,        \* the call: its name, range, rate and axis
    todo,        \* the register accesses left of it
    result,      \* what its last access returned
    chip,        \* the chip's registers
    got,         \* the bytes it has got since it was selected
    out, shadow, \* what it measures, and what its data register shows
    calls, slow,
    seen,        \* history: what it measured during the call
    torn         \* history: a selection ended after its first byte

driver == <<asOk, csn, powered, pc, call, todo, result>>
sensor == <<chip, got, shadow, torn>>
vars == <<kind, driver, sensor, out, calls, slow, seen>>

Write(reg, val) == [op |-> "write", reg |-> reg, val |-> val]
Read(reg) == [op |-> "read", reg |-> reg, val |-> 0]

-----------------------------------------------------------------------------
(* What the calls of the two classes access. *)

\* The filter's bandwidth in Hz and the time asleep in ms.
Bandwidth(rate) == CASE rate = "LOW" -> 16 [] rate = "MED" -> 63 [] rate = "HIGH" -> 250
SleepPhase(rate) == CASE rate = "LOW" -> 25 [] rate = "MED" -> 6 [] rate = "HIGH" -> 2
Suspended == 128

BmaEnable(range, rate) ==
    <<Write("range", range), Write("bwd", Bandwidth(rate)), Write("pm", SleepPhase(rate))>>

CmaMode(range, rate) ==
    CASE rate = "LOW" -> (IF range = 2 THEN 100 ELSE 40)
      [] rate = "MED" -> 100
      [] rate = "HIGH" -> 400

Enable(range, rate) ==
    IF kind = "bma" THEN BmaEnable(range, rate)
    ELSE <<Write("ctrl", <<CmaMode(range, rate), range>>)>>

Suspend ==
    IF kind = "bma" THEN <<Write("pm", Suspended)>> ELSE <<Write("ctrl", <<0, 2>>)>>

\* plugin(), behind accel_setup_spi().
Configure ==
    (IF kind = "bma" THEN <<Write("range", 2), Write("bwd", 63)>>
     ELSE [i \in 1 .. 3 |-> Write("rstr", i)]) \o Suspend

\* read_x(), read_y(), read_z(): BMA250 brings the high byte up to date by
\* reading the low one, and reads nothing from a sensor without power.
ReadAxis ==
    CASE kind = "cma" -> <<Read("dout")>>
      [] kind = "bma" /\ powered -> <<Read("lsb"), Read("msb")>>
      [] OTHER -> <<>>

SignedChar(x) == ((x + 128) % 256) - 128

\* The return value in the axes of the CMA3000, and the acceleration there.
Turned(byte) ==
    IF kind = "bma" /\ call.axis = "y" THEN SignedChar(-SignedChar(byte)) ELSE SignedChar(byte)
Along(byte) ==
    IF kind = "bma" /\ call.axis = "y" THEN -SignedChar(byte) ELSE SignedChar(byte)

-----------------------------------------------------------------------------
(* The chip. *)

Reset == [range |-> 2, bwd |-> 1000, pm |-> 0, ctrl |-> <<0, 8>>, rstr |-> 0]

Measuring == IF kind = "bma" THEN chip.pm # Suspended ELSE chip.ctrl[1] # 0

\* New values per second: the bandwidth allows twice as many, a cycle of sleep one.
Rate ==
    IF kind = "cma" THEN chip.ctrl[1]
    ELSE LET filtered == CASE chip.bwd = 16 -> 31 [] chip.bwd = 63 -> 125
                           [] chip.bwd = 250 -> 500 [] OTHER -> 2000
             awake == IF chip.pm \in {0, Suspended} THEN 2000 ELSE 1000 \div chip.pm
         IN  IF filtered < awake THEN filtered ELSE awake
Range == IF kind = "cma" THEN chip.ctrl[2] ELSE chip.range

\* A byte arrives: the second one writes a register or fetches its content.
Gets(a) ==
    /\ chip' = IF Len(got) = 1 /\ a.op = "write"
               THEN [chip EXCEPT ![a.reg] = a.val] ELSE chip
    /\ shadow' = IF Len(got) = 1 /\ a.reg \in {"lsb", "dout"} /\ Measuring
                 THEN out ELSE shadow

-----------------------------------------------------------------------------
Init ==
    /\ kind \in Kinds
    /\ asOk = FALSE /\ csn = FALSE /\ powered = FALSE
    /\ pc = "idle"
    /\ call = [name |-> "none", range |-> 2, rate |-> "LOW", axis |-> "x", slow |-> 0]
    /\ todo = <<>> /\ result = 0
    /\ chip = Reset
    /\ got = <<>>
    /\ out \in Outputs /\ shadow = out
    /\ calls = 0 /\ slow = 0
    /\ seen = {} /\ torn = FALSE

Begin(name, range, rate, axis, accesses) ==
    /\ pc = "idle" /\ todo = <<>>
    /\ calls < MaxCalls
    /\ calls' = calls + 1
    /\ call' = [name |-> name, range |-> range, rate |-> rate, axis |-> axis, slow |-> slow]
    /\ todo' = accesses
    /\ result' = 0
    /\ seen' = {out}

\* plugin(): accel_setup_spi() takes the power off and gives it back, and the
\* chip is not selected; its registers are to be set.
Setup ==
    /\ asOk' = TRUE
    /\ csn' = TRUE /\ powered' = TRUE
    /\ chip' = Reset /\ got' = <<>>

Plugin ==
    /\ Begin("plugin", 2, "LOW", "x", Configure)
    /\ Setup
    /\ UNCHANGED <<kind, pc, shadow, torn, out, slow>>

Call ==
    /\ \/ \E range \in Ranges, rate \in Rates :
             Begin("enable", range, rate, "x", Enable(range, rate))
       \/ Begin("suspend", 2, "LOW", "x", Suspend)
       \/ \E axis \in Axes : Begin("read", 2, "LOW", axis, ReadAxis)
    /\ UNCHANGED <<kind, asOk, csn, powered, pc, sensor, out, slow>>

\* An access begins: refused after an error, otherwise the chip is selected.
\* Mutant: the flag is not looked at.
UsableAlways == TRUE
Usable == asOk

Return(value) ==
    /\ result' = value
    /\ todo' = Tail(todo)
    /\ pc' = "idle"

Refuse ==
    /\ pc = "idle" /\ todo # <<>>
    /\ ~Usable
    /\ Return(0)
    /\ UNCHANGED <<kind, asOk, csn, powered, call, sensor, out, calls, slow, seen>>

Select ==
    /\ pc = "idle" /\ todo # <<>>
    /\ Usable
    /\ csn' = FALSE
    /\ pc' = "address"
    /\ UNCHANGED <<kind, asOk, powered, call, todo, result, sensor, out, calls, slow, seen>>

Address ==
    /\ pc = "address"
    /\ Gets(Head(todo))
    /\ got' = Append(got, "address")
    /\ pc' = "data"
    /\ UNCHANGED <<kind, asOk, csn, powered, call, todo, result, torn, out, calls, slow, seen>>

\* The second byte came back: the access returns.
Data ==
    /\ pc = "data"
    /\ Gets(Head(todo))
    /\ Return(IF Head(todo).op = "read" THEN shadow' ELSE 0)
    /\ csn' = TRUE
    /\ got' = <<>>
    /\ UNCHANGED <<kind, asOk, powered, call, torn, out, calls, slow, seen>>

\* The count runs out: the flag falls and the chip stays selected, whether the
\* byte still reaches it or not.
GiveUp == asOk' = FALSE /\ UNCHANGED <<csn, torn>>

Timeout ==
    /\ pc \in {"address", "data"}
    /\ slow < MaxSlow
    /\ slow' = slow + 1
    /\ GiveUp
    /\ Return(0)
    /\ \/ Gets(Head(todo)) /\ got' = Append(got, pc)
       \/ UNCHANGED <<chip, shadow, got>>
    /\ UNCHANGED <<kind, powered, call, out, calls, seen>>

\* The watch moves.
Measure(v) ==
    /\ v # out
    /\ out' = v
    /\ seen' = seen \cup {v}
    /\ UNCHANGED <<kind, driver, sensor, calls, slow>>

Next ==
    \/ Plugin \/ Call
    \/ Refuse \/ Select \/ Address \/ Data \/ Timeout
    \/ \E v \in Outputs : Measure(v)

Spec == Init /\ [][Next]_vars

-----------------------------------------------------------------------------
TypeOK ==
    /\ kind \in Kinds
    /\ asOk \in BOOLEAN /\ csn \in BOOLEAN /\ powered \in BOOLEAN /\ torn \in BOOLEAN
    /\ pc \in {"idle", "address", "data"}
    /\ call.name \in {"none", "plugin", "enable", "suspend", "read"}
    /\ Len(todo) <= 4
    /\ chip.pm \in {0, 2, 6, 25, Suspended} /\ chip.ctrl[1] \in {0, 40, 100, 400}
    /\ result \in 0 .. 255 /\ out \in Outputs /\ shadow \in Outputs
    /\ calls \in 0 .. MaxCalls /\ slow \in 0 .. MaxSlow
    /\ seen \subseteq Outputs

Returned(name) == call.name = name /\ pc = "idle" /\ todo = <<>>

\* A selection carries an address and a byte of data and nothing else: after a
\* timeout at any byte no later call adds to the broken transfer or ends it
\* (accel_spi.cc:75, 90, 102).
TwoBytes == Len(got) <= 2 /\ ~torn

\* An enable() that ended without an error leaves the range that was asked for and
\* at least as many values per second, whatever calls came before (bma250.cc:57,
\* cma3000.cc:50).
Least(rate) == CASE rate = "LOW" -> 30 [] rate = "MED" -> 100 [] rate = "HIGH" -> 400
EnableWhole ==
    Returned("enable") /\ asOk =>
        Measuring /\ Range = call.range /\ Rate >= Least(call.rate)

\* A value read without an error is what the sensor measured during the call along
\* that axis of the watch, where the sensor is enabled (bma250.cc:80).
FreshSample ==
    Returned("read") /\ asOk /\ Measuring => Turned(result) \in {Along(v) : v \in seen}

\* plugin() brings a sensor back that an error had cut off, and leaves it suspended
\* and not selected (accel_spi.cc:13, 20).
PluginRecovers ==
    Returned("plugin") /\ slow = call.slow => asOk /\ csn /\ ~Measuring

\* As accel_sensor.h:15 has it: LOW is 30 to 40 values per second, MED 100 to 125,
\* HIGH 400 to 500.
\* The code breaks it: README, section 5.
Most(rate) == CASE rate = "LOW" -> 40 [] rate = "MED" -> 125 [] rate = "HIGH" -> 500
RateAsAsked == Returned("enable") /\ asOk => Rate \in Least(call.rate) .. Most(call.rate)
=============================================================================
