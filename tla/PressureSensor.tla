--------------------------- MODULE PressureSensor ---------------------------
(***************************************************************************)
(* The temperature and pressure sensor behind TPSensor: which of the two   *)
(* chips the board has (board.cc, tp_sensor.cc), and the measurements of   *)
(* the BMP085 (bmp085.cc) and the SCP1000 (scp1000.cc), register access by *)
(* register access, each of which the chip may refuse.  The chip is        *)
(* external.  A pressure is a word of the lower bits and what is above it; *)
(* the compensation of the BMP085 is the temperature and the calibration   *)
(* it was made with.  Calls run under the guard, one at a time.            *)
(***************************************************************************)
EXTENDS Integers

CONSTANTS
    Pressures,    \* what the air may have, in Pa
    Word,         \* values of the register of the lower bits
    MaxCalls,     \* bound on the calls
    MaxRefusals   \* bound on the accesses the chip does not acknowledge

PressureAssumption ==
    /\ Pressures \subseteq Nat /\ Pressures # {}
    /\ Word \in Nat \ {0}
    /\ MaxCalls \in Nat /\ MaxRefusals \in Nat

Modes == {"LOW_POWER", "HIGH_RESOLUTION"}
Parts == {"bmp", "scp"}

VARIABLES
    part,        \* the chip on the board
    available,   \* of BMP085::is_sensor_available()
    rev,         \* of Board::getRevision()
    tps,         \* of TPSensor::instance()
    calibration, \* none, broken (an access failed) or whole
    mode, b5,    \* currentMode; b5: zero, wrong, or true
    pc, call,    \* the access that comes next, in which call
    bytes,       \* the lower word read_pressure() has read
    result,      \* what the call returned
    conv, adc, done, \* the chip: measurement, its last outcome, the data pin
    air,         \* the pressure of now
    calls, refused,
    first,       \* history: what the chip had measured when the lower word was read
    bad,         \* history: an access of the call was refused
    seen         \* history: what the air had during the call

driver == <<available, rev, tps, calibration, mode, b5, pc, call, bytes, result>>
chip == <<conv, adc, done>>
vars == <<part, driver, chip, air, calls, refused, first, bad, seen>>

None == "none"
Error == [val |-> -1, temp |-> "true", cal |-> "whole", error |-> TRUE]
Measured(val, temp, cal) == [val |-> val, temp |-> temp, cal |-> cal, error |-> FALSE]

\* BMP085 puts a value of more bits into the same register for a higher mode.
Resolution(m) == IF m = "HIGH_RESOLUTION" THEN 8 ELSE 1
Oversampling(m) == CASE m = "HIGH_RESOLUTION" -> 8 [] m = "LOW_POWER" -> 1

\* Integer division of C.
Quotient(a, b) == IF a < 0 THEN -((-a) \div b) ELSE a \div b

Init ==
    /\ part \in Parts
    /\ available = None /\ rev = None /\ tps = None
    /\ calibration = None /\ mode = "LOW_POWER" /\ b5 = "zero"
    /\ pc = "idle" /\ call = None /\ bytes = 0
    /\ result = Measured(0, "true", "whole")
    /\ conv = {} /\ adc = 0 /\ done = FALSE
    /\ air \in Pressures
    /\ calls = 0 /\ refused = 0 /\ first = 0
    /\ bad = FALSE /\ seen = {}

-----------------------------------------------------------------------------
\* An access to one of the parts, and whether it is acknowledged.
Answers(p) == IF part # p THEN {FALSE} ELSE IF refused < MaxRefusals THEN BOOLEAN ELSE {TRUE}
Access(p, ok) ==
    /\ refused' = IF part = p /\ ~ok THEN refused + 1 ELSE refused
    /\ bad' = (bad \/ ~ok)

Begin(name) ==
    /\ pc = "idle"
    /\ calls < MaxCalls
    /\ calls' = calls + 1
    /\ call' = name
    /\ seen' = {air}

\* The chip's identification decides, once.
\* Mutant: at each call.
AvailableFresh(ok) == available' = IF ok THEN "yes" ELSE "no"
Available(ok) == IF available = None THEN AvailableFresh(ok) ELSE UNCHANGED available

GetRevision ==
    /\ rev = None
    /\ Begin("board")
    /\ \E ok \in Answers("bmp") :
          /\ Available(ok)
          /\ refused' = IF part = "bmp" /\ ~ok THEN refused + 1 ELSE refused
          /\ bad' = ~ok
    /\ rev' = IF available' = "yes" THEN "White" ELSE "Black"
    /\ UNCHANGED <<part, tps, calibration, mode, b5, pc, bytes, result, chip, air, first>>

\* TPSensor::instance(): bmp.init(), else scp.init(), which checks nothing.
Instance ==
    /\ tps = None
    /\ Begin("instance")
    /\ \E ok \in Answers("bmp") :
          /\ Available(ok)
          /\ refused' = IF part = "bmp" /\ ~ok THEN refused + 1 ELSE refused
          /\ bad' = ~ok
    /\ IF available' = "yes" THEN pc' = "calibrate" ELSE pc' = "scp_init"
    /\ UNCHANGED <<part, rev, tps, calibration, mode, b5, bytes, result, chip, air, first>>

\* read_calibration_data(): a refused access gives 0 for a parameter.
ReadCalibration(ok) == calibration' = IF ok THEN "whole" ELSE "broken"

Calibrate ==
    /\ pc = "calibrate"
    /\ \E ok \in Answers("bmp") :
          /\ Access("bmp", ok)
          /\ ReadCalibration(ok)
    /\ tps' = "bmp"
    /\ pc' = "idle"
    /\ UNCHANGED <<part, available, rev, mode, b5, call, bytes, result, chip, air, first, calls, seen>>

\* The chip begins to measure what the air has now; the data pin falls.
Starts(what, scale) ==
    /\ conv' = {[of |-> what, val |-> scale * air]}
    /\ done' = FALSE
    /\ UNCHANGED adc

ScpInit ==
    /\ pc = "scp_init"
    /\ \E ok \in Answers("scp") :
          /\ Access("scp", ok)
          /\ IF ok THEN Starts("press", 1) ELSE UNCHANGED chip
    /\ tps' = "scp"
    /\ pc' = "idle"
    /\ UNCHANGED <<part, available, rev, calibration, mode, b5, call, bytes, result, air, first, calls, seen>>

SetMode(m) ==
    /\ tps = "bmp"
    /\ Begin("mode")
    /\ mode' = m
    /\ bad' = FALSE
    /\ UNCHANGED <<part, available, rev, tps, calibration, b5, pc, bytes, result, chip, air, first, refused>>

-----------------------------------------------------------------------------
(* BMP085. *)

GetTemperature ==
    /\ tps = "bmp"
    /\ Begin("temp")
    /\ pc' = "write_temp"
    /\ bad' = FALSE
    /\ UNCHANGED <<part, available, rev, tps, calibration, mode, b5, bytes, result, chip, air, first, refused>>

GetPressure ==
    /\ tps = "bmp"
    /\ Begin("press")
    /\ pc' = IF b5 = "zero" THEN "write_temp" ELSE "write_press"
    /\ bad' = FALSE
    /\ UNCHANGED <<part, available, rev, tps, calibration, mode, b5, bytes, result, chip, air, first, refused>>

Return(value) ==
    /\ result' = value
    /\ pc' = "idle"

\* read_temp() ends: for read_pressure(), which does not look at what it returns,
\* the measurement of the pressure comes next.
TempEnds(value) ==
    IF call = "press" THEN pc' = "write_press" /\ UNCHANGED result ELSE Return(value)

\* A measurement is asked for; if that fails there is nothing to wait for.
\* Mutant: the failure is not noticed.
StartedAlways(ok) == TRUE
Started(ok) == ok

WriteTemp ==
    /\ pc = "write_temp"
    /\ \E ok \in Answers("bmp") :
          /\ Access("bmp", ok)
          /\ IF ok THEN Starts("temp", 1) ELSE UNCHANGED chip
          /\ IF Started(ok) THEN pc' = "wait_temp" /\ UNCHANGED result ELSE TempEnds(Error)
    /\ UNCHANGED <<part, available, rev, tps, calibration, mode, b5, call, bytes, air, first, calls, seen>>

DataAvailable == done

ReadTemp ==
    /\ pc = "wait_temp"
    /\ DataAvailable
    /\ \E ok \in Answers("bmp") :
          /\ Access("bmp", ok)
          /\ b5' = IF ok /\ calibration = "whole" THEN "true" ELSE "wrong"
    /\ TempEnds(Measured(0, b5', calibration))
    /\ UNCHANGED <<part, available, rev, tps, calibration, mode, call, bytes, chip, air, first, calls, seen>>

WritePress ==
    /\ pc = "write_press"
    /\ \E ok \in Answers("bmp") :
          /\ Access("bmp", ok)
          /\ IF ok THEN Starts("press", Resolution(mode)) ELSE UNCHANGED chip
          /\ IF Started(ok) THEN pc' = "wait_press" /\ UNCHANGED result ELSE Return(Error)
    /\ UNCHANGED <<part, available, rev, tps, calibration, mode, b5, call, bytes, air, first, calls, seen>>

ReadPress ==
    /\ pc = "wait_press"
    /\ DataAvailable
    /\ \E ok \in Answers("bmp") :
          /\ Access("bmp", ok)
          /\ Return(Measured((IF ok THEN adc ELSE 0) \div Oversampling(mode), b5, calibration))
    /\ UNCHANGED <<part, available, rev, tps, calibration, mode, b5, call, bytes, chip, air, first, calls, seen>>

-----------------------------------------------------------------------------
(* SCP1000: a measurement is asked for and what is there is read. *)

ScpGetPressure ==
    /\ tps = "scp"
    /\ Begin("press")
    /\ \E ok \in Answers("scp") :
          /\ refused' = IF part = "scp" /\ ~ok THEN refused + 1 ELSE refused
          /\ bad' = ~ok
          /\ IF ok THEN Starts("press", 4) ELSE UNCHANGED chip
    /\ pc' = "low"
    /\ UNCHANGED <<part, available, rev, tps, calibration, mode, b5, bytes, result, air, first>>

\* read_pressure(): a lower word of 0 counts as a failed access; get_pressure()
\* divides what it returns.
ReadLow ==
    /\ pc = "low"
    /\ \E ok \in Answers("scp") :
          /\ Access("scp", ok)
          /\ bytes' = IF ok THEN adc % Word ELSE 0
    /\ first' = adc
    /\ IF bytes' = 0 THEN Return(Measured(Quotient(-1, 4), "true", "whole"))
       ELSE pc' = "high" /\ UNCHANGED result
    /\ UNCHANGED <<part, available, rev, tps, calibration, mode, b5, call, chip, air, calls, seen>>

ReadHigh ==
    /\ pc = "high"
    /\ \E ok \in Answers("scp") :
          /\ Access("scp", ok)
          /\ LET high == IF ok THEN adc \div Word ELSE 0
             IN  Return(Measured(Quotient(high * Word + bytes, 4), "true", "whole"))
    /\ UNCHANGED <<part, available, rev, tps, calibration, mode, b5, call, bytes, chip, air, first, calls, seen>>

-----------------------------------------------------------------------------
\* The chip has measured.
Finish ==
    /\ \E c \in conv : adc' = c.val
    /\ conv' = {}
    /\ done' = TRUE
    /\ UNCHANGED <<part, driver, air, first, calls, refused, bad, seen>>

Weather(p) ==
    /\ p # air
    /\ air' = p
    /\ seen' = seen \cup {p}
    /\ UNCHANGED <<part, driver, chip, calls, refused, first, bad>>

Calls ==
    \/ GetRevision \/ Instance
    \/ \E m \in Modes : SetMode(m)
    \/ GetTemperature \/ GetPressure \/ ScpGetPressure

Step ==
    \/ Calibrate \/ ScpInit
    \/ WriteTemp \/ ReadTemp \/ WritePress \/ ReadPress
    \/ ReadLow \/ ReadHigh

Next == Calls \/ Step \/ Finish \/ \E p \in Pressures : Weather(p)

\* The processor goes on, and a measurement takes its time and no longer.
Spec == Init /\ [][Next]_vars /\ WF_vars(Step) /\ WF_vars(Finish)

-----------------------------------------------------------------------------
TypeOK ==
    /\ part \in Parts /\ tps \in Parts \cup {None}
    /\ available \in {None, "yes", "no"}
    /\ rev \in {None, "White", "Black"}
    /\ calibration \in {None, "broken", "whole"} /\ (tps = "bmp" => calibration # None)
    /\ mode \in Modes /\ b5 \in {"zero", "wrong", "true"}
    /\ bytes \in 0 .. Word - 1
    /\ done \in BOOLEAN /\ bad \in BOOLEAN
    /\ calls \in 0 .. MaxCalls /\ refused \in 0 .. MaxRefusals

\* The board's revision, which chooses the acceleration sensor, and the pressure
\* sensor that was chosen go together, whatever was refused in between
\* (bmp085.cc:60, board.cc:6, tp_sensor.cc:10).
OneBoard == rev # None /\ tps # None => (rev = "White" <=> tps = "bmp")

Answered == call = "press" /\ pc = "idle"

\* A pressure that the BMP085 gave with no access refused is one the air had during
\* the call, in the mode that is set, whatever was measured before (bmp085.cc:152,
\* 176).
MeasuredNow == Answered /\ tps = "bmp" /\ ~bad => result.val \in seen /\ ~result.error

\* Every call returns, also one that an access of fails: no wait is begun that no
\* measurement ends (bmp085.cc:117, 152).
Returns == (pc # "idle") ~> (pc = "idle")

\* As bmp085.cc:135 has it: what is not the pressure in Pa is an error.
\* The code breaks it: README, section 5.
ErrorShown ==
    Answered /\ tps = "bmp" =>
        result.error \/ (result.val \in seen /\ result.temp = "true" /\ result.cal = "whole")

\* As scp1000.h:56 has it: the pressure that was measured last, when the
\* first or when the second access is made.
\* The code breaks it: README, section 5.
LastMeasured ==
    [][pc = "high" /\ pc' = "idle" /\ ~bad' =>
          result'.val \in {Quotient(first, 4), Quotient(adc, 4)}]_vars

\* As tp_sensor.h:26 has it: the pressure in Pascal, if no access fails.
\* The code breaks it: README, section 5.
InPascal ==
    [][pc = "low" /\ pc' = "idle" /\ ~bad' => result'.val = Quotient(adc, 4)]_vars
=============================================================================
