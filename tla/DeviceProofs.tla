---------------------------- MODULE DeviceProofs ----------------------------
(***************************************************************************)
(* The theorems about the device drivers and the programs next to them: an *)
(* inductive invariant of each instance of MCDevices, for every value of   *)
(* its parameters, and with it the properties that TLC checks of the run.  *)
(***************************************************************************)
EXTENDS MCDevices, Integers, SequenceTheorems, TLAPS

(***************************************************************************)
(* The watch that sleeps (Standby): where the button may have been touched *)
(* at each place, and what the handler needs.                              *)
(***************************************************************************)

SleepTypes ==
    /\ sleepPc \in Sleep!Labels /\ handler \in {"none", "wait", "act"}
    /\ gie \in BOOLEAN /\ lpm \in BOOLEAN /\ ie \in BOOLEAN /\ ifg \in BOOLEAN
    /\ running \in BOOLEAN /\ watchdog \in BOOLEAN /\ byWatchdog \in BOOLEAN
    /\ pressed \in BOOLEAN /\ bounces \in BOOLEAN /\ appHung \in BOOLEAN
    /\ sleepPresses \in 0..MaxPresses /\ resets \in 0..MaxResets

\* What is true of the button at each place: nobody touched it before the watch
\* sleeps; then a press, and another one, or a hang, before the loader.
Untouched == ~pressed /\ ~ifg /\ ~running
Starting == {"clear", "enable", "main", "app", "panic"}

PressedTwice == sleepPresses >= 2 \/ appHung

SleepTouches ==
    /\ bounces => pressed
    /\ sleepPc \in {"pins", "display", "halt"} => Untouched
    /\ sleepPc = "reset" /\ ~byWatchdog => Untouched
    /\ sleepPc = "reset" /\ byWatchdog => PressedTwice
    /\ sleepPc = "loop" /\ ~running => Untouched
    /\ sleepPc = "asleep" /\ (pressed \/ ifg \/ running \/ handler # "none")
          => sleepPresses >= 1
    /\ sleepPc = "asleep" /\ (handler = "act" \/ running) /\ pressed => PressedTwice
    /\ sleepPc = "asleep" /\ running /\ ifg => PressedTwice
    /\ running => sleepPresses >= 1
    /\ sleepPc \in Starting \cup {"loop"} /\ running
           /\ (pressed \/ ifg \/ handler # "none") => PressedTwice
    /\ sleepPc \in {"bslcall", "bsl", "hung"} => PressedTwice

\* Where the handler may run, and what it needs.
SleepPlaces ==
    /\ handler # "none" => ~gie /\ sleepPc \in {"asleep", "app", "panic"}
    /\ watchdog => sleepPc \in {"hung", "bslcall"}
    /\ byWatchdog => sleepPc = "reset"
    /\ lpm => sleepPc = "asleep"
    /\ sleepPc = "asleep" => (lpm <=> ~running)
    /\ sleepPc \in {"display", "halt"} => ie
    /\ sleepPc = "loop" /\ ~running => ie
    /\ sleepPc = "halt" => gie
    /\ sleepPc = "asleep" /\ ~running => ie /\ (handler = "none" => gie)
    /\ sleepPc = "asleep" /\ running => handler = "none" /\ ~ie
    /\ sleepPc = "loop" /\ running => ~ie
    /\ sleepPc = "clear" => ~ie
    /\ sleepPc \in {"reset", "enable", "main", "panic", "hung", "bslcall", "bsl"} => ~gie
    /\ sleepPc \in Starting => running
    /\ sleepPc = "panic" \/ sleepPc = "app" => running

SleepInv == SleepTypes /\ SleepTouches /\ SleepPlaces

LEMMA InitSleepInv ==
    ASSUME Sleep!StandbyAssumption, Sleep!Init
    PROVE  SleepInv
<1>1. SleepTypes
  <2>1. sleepPresses \in 0..MaxPresses /\ resets \in 0..MaxResets
    BY DEF Sleep!Init, Sleep!StandbyAssumption
  <2>2. sleepPc \in Sleep!Labels /\ handler \in {"none", "wait", "act"}
    BY DEF Sleep!Init, Sleep!Labels
  <2>3. /\ gie = FALSE /\ lpm = FALSE /\ ie = FALSE /\ ifg = FALSE
        /\ running = FALSE /\ watchdog = FALSE /\ byWatchdog = FALSE
        /\ pressed = FALSE /\ bounces = FALSE /\ appHung = FALSE
    BY DEF Sleep!Init
  <2> QED
    BY <2>1, <2>2, <2>3 DEF SleepTypes
<1>2. SleepTouches /\ SleepPlaces
  BY DEF Sleep!Init, SleepTouches, SleepPlaces, Untouched, Starting
<1> QED
  BY <1>1, <1>2 DEF SleepInv

LEMMA SleepInvWakes ==
    ASSUME SleepInv
    PROVE  Sleep!WakesOnPress /\ Sleep!OnePressOneEffect
<1>1. Sleep!WakesOnPress
  BY DEF SleepInv, SleepTypes, SleepPlaces, Sleep!WakesOnPress
<1>2. Sleep!OnePressOneEffect
  BY DEF SleepInv, SleepTouches, PressedTwice, Sleep!OnePressOneEffect
<1> QED
  BY <1>1, <1>2

LEMMA NextSleepInv ==
    ASSUME Sleep!StandbyAssumption, SleepInv, [Sleep!Next]_(Sleep!vars)
    PROVE  SleepInv'
<1> USE DEF SleepInv, SleepTypes, SleepTouches, SleepPlaces, Untouched, Starting,
               PressedTwice, Sleep!StandbyAssumption, Sleep!cpu, Sleep!button
<1>1. CASE Sleep!CheckWdtReset
  BY <1>1 DEF Sleep!Main, Sleep!Labels, Sleep!CheckWdtReset
<1>2. CASE Sleep!Pins
  BY <1>2 DEF Sleep!Main, Sleep!Labels, Sleep!Pins
<1>3. CASE Sleep!Display
  BY <1>3 DEF Sleep!Main, Sleep!Labels, Sleep!Display
<1>4. CASE Sleep!Loop
  BY <1>4 DEF Sleep!Main, Sleep!Labels, Sleep!Loop
<1>5. CASE Sleep!Halt
  BY <1>5 DEF Sleep!Main, Sleep!Labels, Sleep!Pending, Sleep!Halt
<1>6. CASE Sleep!Woken
  BY <1>6 DEF Sleep!Main, Sleep!Labels, Sleep!Woken
<1>7. CASE Sleep!Clear
  BY <1>7 DEF Sleep!Main, Sleep!Labels, Sleep!Clear
<1>8. CASE Sleep!Enable
  BY <1>8 DEF Sleep!Main, Sleep!Labels, Sleep!Enable
<1>9. CASE Sleep!Start
  BY <1>9 DEF Sleep!Main, Sleep!Labels, Sleep!Start
<1>10. CASE Sleep!Hang
  BY <1>10 DEF Sleep!Main, Sleep!Labels, Sleep!Hang
<1>11. CASE Sleep!PanicHook
  BY <1>11 DEF Sleep!Main, Sleep!Labels, Sleep!PanicHook
<1>12. CASE Sleep!Enter
  <2>1. SleepTypes'
    BY <1>12 DEF Sleep!Pending, Sleep!Labels, Sleep!Enter
  <2>2. SleepTouches'
    BY <1>12 DEF Sleep!Pending, Sleep!Labels, Sleep!Enter
  <2>3. SleepPlaces'
    BY <1>12 DEF Sleep!Pending, Sleep!Labels, Sleep!Enter
  <2> QED
    BY <2>1, <2>2, <2>3
<1>13. CASE Sleep!WaitRelease
  BY <1>13 DEF Sleep!Released, Sleep!WaitRelease
<1>14. CASE Sleep!Act
  BY <1>14 DEF Sleep!Labels, Sleep!Act
<1>15. CASE Sleep!WatchdogStrikes
  <2>1. SleepTypes'
    <3>1. resets' \in 0..MaxResets
      BY <1>15 DEF Sleep!Reset, Sleep!WatchdogStrikes
    <3>2. pressed' \in BOOLEAN /\ bounces' \in BOOLEAN /\ appHung' \in BOOLEAN
             /\ sleepPresses' \in 0..MaxPresses
      BY <1>15 DEF Sleep!Reset, Sleep!WatchdogStrikes
    <3>3. gie' \in BOOLEAN /\ lpm' \in BOOLEAN /\ ie' \in BOOLEAN /\ ifg' \in BOOLEAN
             /\ running' \in BOOLEAN /\ watchdog' \in BOOLEAN /\ byWatchdog' \in BOOLEAN
      BY <1>15 DEF Sleep!Reset, Sleep!WatchdogStrikes
    <3> QED
      BY <1>15, <3>1, <3>2, <3>3 DEF Sleep!Reset, Sleep!Labels, Sleep!WatchdogStrikes
  <2>2. SleepTouches'
    BY <1>15 DEF Sleep!Reset, Sleep!Labels, Sleep!WatchdogStrikes
  <2>3. SleepPlaces'
    BY <1>15 DEF Sleep!Reset, Sleep!Labels, Sleep!WatchdogStrikes
  <2> QED
    BY <2>1, <2>2, <2>3
<1>16. CASE Sleep!LoaderDone
  <2>1. SleepTypes'
    <3>1. resets' \in 0..MaxResets
      BY <1>16 DEF Sleep!Reset, Sleep!LoaderDone
    <3>2. pressed' \in BOOLEAN /\ bounces' \in BOOLEAN
      BY <1>16 DEF Sleep!Reset, Sleep!LoaderDone
    <3>4. appHung' \in BOOLEAN
      BY <1>16 DEF Sleep!Reset, Sleep!LoaderDone
    <3>6. sleepPresses' \in 0..MaxPresses
      BY <1>16 DEF Sleep!Reset, Sleep!LoaderDone
    <3>5. handler' \in {"none", "wait", "act"} /\ sleepPc' \in Sleep!Labels
      BY <1>16 DEF Sleep!Reset, Sleep!LoaderDone, Sleep!Labels
    <3>3. gie' \in BOOLEAN /\ lpm' \in BOOLEAN /\ ie' \in BOOLEAN /\ ifg' \in BOOLEAN
             /\ running' \in BOOLEAN /\ watchdog' \in BOOLEAN /\ byWatchdog' \in BOOLEAN
      BY <1>16 DEF Sleep!Reset, Sleep!LoaderDone
    <3> QED
      BY <3>1, <3>2, <3>3, <3>4, <3>5, <3>6
  <2>2. SleepTouches'
    BY <1>16 DEF Sleep!Reset, Sleep!Labels, Sleep!LoaderDone
  <2>3. SleepPlaces'
    BY <1>16 DEF Sleep!Reset, Sleep!Labels, Sleep!LoaderDone
  <2> QED
    BY <2>1, <2>2, <2>3
<1>17. CASE Sleep!Press
  BY <1>17 DEF Sleep!Usable, Sleep!Labels, Sleep!Press
<1>18. CASE Sleep!Bounce
  BY <1>18 DEF Sleep!Bounce
<1>19. CASE Sleep!Settle
  BY <1>19 DEF Sleep!Settle
<1>20. CASE Sleep!Release
  <2>1. SleepTypes'
    BY <1>20 DEF Sleep!Release
  <2>2. SleepTouches'
    BY <1>20 DEF Sleep!Release
  <2>3. SleepPlaces'
    BY <1>20 DEF Sleep!Release
  <2> QED
    BY <2>1, <2>2, <2>3
<1>21. CASE UNCHANGED Sleep!vars
  BY <1>21 DEF Sleep!vars
<1> QED
  BY <1>1, <1>2, <1>3, <1>4, <1>5, <1>6, <1>7, <1>8, <1>9, <1>10, <1>11, <1>12, <1>13,
     <1>14, <1>15, <1>16, <1>17, <1>18, <1>19, <1>20, <1>21 DEF Sleep!Next,
     Sleep!Program

(***************************************************************************)
(* The pressure sensor (PressureSensor): what the driver knows of the chip *)
(* at each wait, and that a value in the chip was measured in the air of   *)
(* the call.                                                               *)
(***************************************************************************)

DriverTypes ==
    /\ part \in Pressure!Parts /\ tps \in Pressure!Parts \cup {Pressure!None}
    /\ available \in {Pressure!None, "yes", "no"}
    /\ rev \in {Pressure!None, "White", "Black"}
    /\ calibration \in {Pressure!None, "broken", "whole"}
          /\ (tps = "bmp" => calibration # Pressure!None)
    /\ mode \in Pressure!Modes /\ b5 \in {"zero", "wrong", "true"}
    /\ pressPc \in {"idle", "calibrate", "scp_init", "write_temp", "wait_temp",
                    "write_press", "wait_press", "low", "high"}

SensorTypes ==
    /\ conv \subseteq [of : {"temp", "press"}, val : Nat]
    /\ adc \in Nat

PressFlagTypes == done \in BOOLEAN /\ bad \in BOOLEAN

PressWordTypes == lower \in 0 .. LowerSize - 1

AirTypes == air \in Pressures /\ airSeen \subseteq Pressures

PressCallTypes == pressCalls \in 0 .. MaxPressCalls /\ accRefused \in 0 .. MaxRefusals

\* The chip's identification, once made, is what the board and the sensor go by.
OneChip ==
    /\ rev # Pressure!None => available # Pressure!None
          /\ (rev = "White" <=> available = "yes")
    /\ tps # Pressure!None => available # Pressure!None
          /\ (tps = "bmp" <=> available = "yes")
    /\ pressPc = "calibrate" => available = "yes" /\ pressCall = "instance"
    /\ pressPc = "scp_init" => available = "no"
    /\ pressPc \in {"write_temp", "wait_temp", "write_press", "wait_press"} => tps = "bmp"
    /\ pressPc \in {"low", "high"} => tps = "scp"

\* What the chip measures while it is waited for, and has measured when it is read.
Awaited ==
    /\ done => conv = {}
    /\ pressPc # "idle" => air \in airSeen
    /\ pressPc = "wait_press" /\ ~bad =>
           \E p \in airSeen :
              IF done THEN adc = Pressure!Resolution(mode) * p
              ELSE conv = {[of |-> "press", val |-> Pressure!Resolution(mode) * p]}

PressureInv == DriverTypes /\ SensorTypes /\ PressWordTypes /\ AirTypes /\ PressFlagTypes
    /\ PressCallTypes /\ OneChip /\ Awaited /\ Pressure!MeasuredNow
LEMMA InitPressureInv ==
    ASSUME Pressure!PressureAssumption, Pressure!Init
    PROVE  PressureInv
<1> USE DEF Pressure!PressureAssumption, Pressure!Init, Pressure!None
<1>1. DriverTypes
  BY DEF DriverTypes, Pressure!Modes, Pressure!Parts
<1>2. SensorTypes /\ PressWordTypes /\ AirTypes
  BY DEF SensorTypes, PressWordTypes, AirTypes
<1>3. PressFlagTypes
  BY DEF PressFlagTypes
<1>4. PressCallTypes
  BY DEF PressCallTypes
<1>5. OneChip /\ Awaited /\ Pressure!MeasuredNow
  BY DEF OneChip, Awaited, Pressure!MeasuredNow, Pressure!Answered
<1> QED
  BY <1>1, <1>2, <1>3, <1>4, <1>5 DEF PressureInv

\* An access that is made may be refused as often as the bound says.
LEMMA RefusedStep ==
    ASSUME Pressure!PressureAssumption, PressCallTypes, NEW p,
              NEW acked \in Pressure!Answers(p),
           accRefused' = IF part = p /\ ~acked THEN accRefused + 1 ELSE accRefused
    PROVE  accRefused' \in 0 .. MaxRefusals /\ acked \in BOOLEAN
<1>1. acked \in BOOLEAN
  BY DEF Pressure!Answers
<1>2. CASE part = p /\ ~acked
  <2>1. accRefused < MaxRefusals
    BY <1>2, <1>1 DEF Pressure!Answers
  <2> QED
    BY <1>1, <1>2, <2>1 DEF PressCallTypes, Pressure!PressureAssumption
<1>3. CASE ~(part = p /\ ~acked)
  BY <1>1, <1>3 DEF PressCallTypes
<1> QED
  BY <1>2, <1>3

LEMMA PressureValues ==
    ASSUME NEW m \in Pressure!Modes, NEW p \in Nat
    PROVE  Pressure!Resolution(m) * p
              \in Nat /\ (Pressure!Resolution(m) * p) \div Pressure!Oversampling(m) = p
  BY DEF Pressure!Modes, Pressure!Resolution, Pressure!Oversampling

LEMMA NextPressureInv ==
    ASSUME Pressure!PressureAssumption, PressureInv, [Pressure!Next]_(Pressure!vars)
    PROVE  PressureInv'
<1> USE DEF Pressure!PressureAssumption, PressureInv, DriverTypes, SensorTypes,
               PressWordTypes, AirTypes, PressFlagTypes, PressCallTypes, Pressure!Modes,
                  Pressure!Parts, Pressure!None, Pressure!driver, Pressure!chip
<1>1. CASE Pressure!GetRevision
  <2>1a. DriverTypes'
    BY <1>1 DEF Pressure!Begin, Pressure!Available, Pressure!AvailableFresh,
       Pressure!Answers, Pressure!GetRevision
  <2>1b. SensorTypes'
    BY <1>1 DEF Pressure!Begin, Pressure!Available, Pressure!AvailableFresh,
       Pressure!Answers, Pressure!GetRevision
  <2>1c. PressWordTypes'
    BY <1>1 DEF Pressure!Begin, Pressure!Available, Pressure!AvailableFresh,
       Pressure!Answers, Pressure!GetRevision
  <2>1d. AirTypes'
    BY <1>1 DEF Pressure!Begin, Pressure!Available, Pressure!AvailableFresh,
       Pressure!Answers, Pressure!GetRevision
  <2>1e. PressCallTypes'
    <3>1. PICK acked \in Pressure!Answers("bmp") :
              accRefused' = IF part = "bmp" /\ ~acked THEN accRefused + 1 ELSE accRefused
      BY <1>1 DEF Pressure!Access, Pressure!GetRevision
    <3>2. accRefused' \in 0 .. MaxRefusals
      BY <3>1, RefusedStep
    <3>3. pressCalls' \in 0 .. MaxPressCalls
      BY <1>1 DEF Pressure!Begin, Pressure!GetRevision
    <3> QED
      BY <3>2, <3>3
  <2>1f. PressFlagTypes'
    BY <1>1 DEF Pressure!Begin, Pressure!Available, Pressure!AvailableFresh,
       Pressure!Answers, Pressure!GetRevision
  <2>2. OneChip'
    BY <1>1 DEF Pressure!Begin, Pressure!Available, Pressure!AvailableFresh,
       Pressure!Answers, Pressure!GetRevision, OneChip
  <2>3. Awaited'
    BY <1>1 DEF Pressure!Begin, Pressure!Available, Pressure!AvailableFresh,
       Pressure!Answers, Pressure!GetRevision, Awaited
  <2>4. Pressure!MeasuredNow'
    BY <1>1 DEF Pressure!Begin, Pressure!Available, Pressure!AvailableFresh,
       Pressure!Answers, Pressure!GetRevision, Pressure!MeasuredNow, Pressure!Answered,
       OneChip
  <2> QED
    BY <2>1a, <2>1b, <2>1c, <2>1d, <2>1e, <2>1f, <2>2, <2>3, <2>4
<1>2. CASE Pressure!Instance
  <2>1a. DriverTypes'
    BY <1>2 DEF Pressure!Begin, Pressure!Available, Pressure!AvailableFresh,
       Pressure!Answers, Pressure!Instance
  <2>1b. SensorTypes'
    BY <1>2 DEF Pressure!Begin, Pressure!Available, Pressure!AvailableFresh,
       Pressure!Answers, Pressure!Instance
  <2>1c. PressWordTypes'
    BY <1>2 DEF Pressure!Begin, Pressure!Available, Pressure!AvailableFresh,
       Pressure!Answers, Pressure!Instance
  <2>1d. AirTypes'
    BY <1>2 DEF Pressure!Begin, Pressure!Available, Pressure!AvailableFresh,
       Pressure!Answers, Pressure!Instance
  <2>1e. PressCallTypes'
    <3>1. PICK acked \in Pressure!Answers("bmp") :
              accRefused' = IF part = "bmp" /\ ~acked THEN accRefused + 1 ELSE accRefused
      BY <1>2 DEF Pressure!Access, Pressure!Instance
    <3>2. accRefused' \in 0 .. MaxRefusals
      BY <3>1, RefusedStep
    <3>3. pressCalls' \in 0 .. MaxPressCalls
      BY <1>2 DEF Pressure!Begin, Pressure!Instance
    <3> QED
      BY <3>2, <3>3
  <2>1f. PressFlagTypes'
    BY <1>2 DEF Pressure!Begin, Pressure!Available, Pressure!AvailableFresh,
       Pressure!Answers, Pressure!Instance
  <2>2. OneChip'
    BY <1>2 DEF Pressure!Begin, Pressure!Available, Pressure!AvailableFresh,
       Pressure!Answers, Pressure!Instance, OneChip
  <2>3. Awaited'
    BY <1>2 DEF Pressure!Begin, Pressure!Available, Pressure!AvailableFresh,
       Pressure!Answers, Pressure!Instance, Awaited
  <2>4. Pressure!MeasuredNow'
    BY <1>2 DEF Pressure!Begin, Pressure!Available, Pressure!AvailableFresh,
       Pressure!Answers, Pressure!Instance, Pressure!MeasuredNow, Pressure!Answered,
       OneChip
  <2> QED
    BY <2>1a, <2>1b, <2>1c, <2>1d, <2>1e, <2>1f, <2>2, <2>3, <2>4
<1>3. CASE \E m \in Pressure!Modes : Pressure!SetMode(m)
  <2>1a. DriverTypes'
    BY <1>3 DEF Pressure!Begin, Pressure!SetMode
  <2>1b. SensorTypes'
    BY <1>3 DEF Pressure!Begin, Pressure!SetMode
  <2>1c. PressWordTypes'
    BY <1>3 DEF Pressure!Begin, Pressure!SetMode
  <2>1d. AirTypes'
    BY <1>3 DEF Pressure!Begin, Pressure!SetMode
  <2>1e. PressCallTypes'
    BY <1>3 DEF Pressure!Begin, Pressure!SetMode
  <2>1f. PressFlagTypes'
    BY <1>3 DEF Pressure!Begin, Pressure!SetMode
  <2>2. OneChip'
    BY <1>3 DEF Pressure!Begin, Pressure!SetMode, OneChip
  <2>3. Awaited'
    BY <1>3 DEF Pressure!Begin, Pressure!SetMode, Awaited
  <2>4. Pressure!MeasuredNow'
    BY <1>3 DEF Pressure!Begin, Pressure!SetMode, Pressure!MeasuredNow,
       Pressure!Answered, OneChip
  <2> QED
    BY <2>1a, <2>1b, <2>1c, <2>1d, <2>1e, <2>1f, <2>2, <2>3, <2>4
<1>4. CASE Pressure!GetTemperature
  <2>1a. DriverTypes'
    BY <1>4 DEF Pressure!Begin, Pressure!GetTemperature
  <2>1b. SensorTypes'
    BY <1>4 DEF Pressure!Begin, Pressure!GetTemperature
  <2>1c. PressWordTypes'
    BY <1>4 DEF Pressure!Begin, Pressure!GetTemperature
  <2>1d. AirTypes'
    BY <1>4 DEF Pressure!Begin, Pressure!GetTemperature
  <2>1e. PressCallTypes'
    BY <1>4 DEF Pressure!Begin, Pressure!GetTemperature
  <2>1f. PressFlagTypes'
    BY <1>4 DEF Pressure!Begin, Pressure!GetTemperature
  <2>2. OneChip'
    BY <1>4 DEF Pressure!Begin, Pressure!GetTemperature, OneChip
  <2>3. Awaited'
    BY <1>4 DEF Pressure!Begin, Pressure!GetTemperature, Awaited
  <2>4. Pressure!MeasuredNow'
    BY <1>4 DEF Pressure!Begin, Pressure!GetTemperature, Pressure!MeasuredNow,
       Pressure!Answered, OneChip
  <2> QED
    BY <2>1a, <2>1b, <2>1c, <2>1d, <2>1e, <2>1f, <2>2, <2>3, <2>4
<1>5. CASE Pressure!GetPressure
  <2>1a. DriverTypes'
    BY <1>5 DEF Pressure!Begin, Pressure!GetPressure
  <2>1b. SensorTypes'
    BY <1>5 DEF Pressure!Begin, Pressure!GetPressure
  <2>1c. PressWordTypes'
    BY <1>5 DEF Pressure!Begin, Pressure!GetPressure
  <2>1d. AirTypes'
    BY <1>5 DEF Pressure!Begin, Pressure!GetPressure
  <2>1e. PressCallTypes'
    BY <1>5 DEF Pressure!Begin, Pressure!GetPressure
  <2>1f. PressFlagTypes'
    BY <1>5 DEF Pressure!Begin, Pressure!GetPressure
  <2>2. OneChip'
    BY <1>5 DEF Pressure!Begin, Pressure!GetPressure, OneChip
  <2>3. Awaited'
    BY <1>5 DEF Pressure!Begin, Pressure!GetPressure, Awaited
  <2>4. Pressure!MeasuredNow'
    BY <1>5 DEF Pressure!Begin, Pressure!GetPressure, Pressure!MeasuredNow,
       Pressure!Answered, OneChip
  <2> QED
    BY <2>1a, <2>1b, <2>1c, <2>1d, <2>1e, <2>1f, <2>2, <2>3, <2>4
<1>6. CASE Pressure!ScpGetPressure
  <2>1a. DriverTypes'
    BY <1>6 DEF Pressure!Begin, Pressure!Starts, Pressure!Answers, Pressure!ScpGetPressure
  <2>1b. SensorTypes'
    BY <1>6 DEF Pressure!Begin, Pressure!Starts, Pressure!Answers, Pressure!ScpGetPressure
  <2>1c. PressWordTypes'
    BY <1>6 DEF Pressure!Begin, Pressure!Starts, Pressure!Answers, Pressure!ScpGetPressure
  <2>1d. AirTypes'
    BY <1>6 DEF Pressure!Begin, Pressure!Starts, Pressure!Answers, Pressure!ScpGetPressure
  <2>1e. PressCallTypes'
    <3>1. PICK acked \in Pressure!Answers("scp") :
              accRefused' = IF part = "scp" /\ ~acked THEN accRefused + 1 ELSE accRefused
      BY <1>6 DEF Pressure!Access, Pressure!ScpGetPressure
    <3>2. accRefused' \in 0 .. MaxRefusals
      BY <3>1, RefusedStep
    <3>3. pressCalls' \in 0 .. MaxPressCalls
      BY <1>6 DEF Pressure!Begin, Pressure!ScpGetPressure
    <3> QED
      BY <3>2, <3>3
  <2>1f. PressFlagTypes'
    BY <1>6 DEF Pressure!Begin, Pressure!Starts, Pressure!Answers, Pressure!ScpGetPressure
  <2>2. OneChip'
    BY <1>6 DEF Pressure!Begin, Pressure!Starts, Pressure!Answers,
       Pressure!ScpGetPressure, OneChip
  <2>3. Awaited'
    BY <1>6 DEF Pressure!Begin, Pressure!Starts, Pressure!Answers,
       Pressure!ScpGetPressure, Awaited
  <2>4. Pressure!MeasuredNow'
    BY <1>6 DEF Pressure!Begin, Pressure!Starts, Pressure!Answers,
       Pressure!ScpGetPressure, Pressure!MeasuredNow, Pressure!Answered, OneChip
  <2> QED
    BY <2>1a, <2>1b, <2>1c, <2>1d, <2>1e, <2>1f, <2>2, <2>3, <2>4
<1>7. CASE Pressure!Calibrate
  <2>1a. DriverTypes'
    BY <1>7 DEF Pressure!Access, Pressure!ReadCalibration, Pressure!Answers,
       Pressure!Calibrate, OneChip
  <2>1b. SensorTypes'
    BY <1>7 DEF Pressure!Access, Pressure!ReadCalibration, Pressure!Answers,
       Pressure!Calibrate, OneChip
  <2>1c. PressWordTypes'
    BY <1>7 DEF Pressure!Access, Pressure!ReadCalibration, Pressure!Answers,
       Pressure!Calibrate, OneChip
  <2>1d. AirTypes'
    BY <1>7 DEF Pressure!Access, Pressure!ReadCalibration, Pressure!Answers,
       Pressure!Calibrate, OneChip
  <2>1e. PressCallTypes'
    <3>1. PICK acked \in Pressure!Answers("bmp") :
              accRefused' = IF part = "bmp" /\ ~acked THEN accRefused + 1 ELSE accRefused
      BY <1>7 DEF Pressure!Access, Pressure!Calibrate
    <3>2. accRefused' \in 0 .. MaxRefusals
      BY <3>1, RefusedStep
    <3>3. pressCalls' \in 0 .. MaxPressCalls
      BY <1>7 DEF Pressure!Calibrate
    <3> QED
      BY <3>2, <3>3
  <2>1f. PressFlagTypes'
    BY <1>7 DEF Pressure!Access, Pressure!ReadCalibration, Pressure!Answers,
       Pressure!Calibrate, OneChip
  <2>2. OneChip'
    BY <1>7 DEF Pressure!Access, Pressure!ReadCalibration, Pressure!Answers,
       Pressure!Calibrate, OneChip
  <2>3. Awaited'
    BY <1>7 DEF Pressure!Access, Pressure!ReadCalibration, Pressure!Answers,
       Pressure!Calibrate, Awaited
  <2>4. Pressure!MeasuredNow'
    BY <1>7 DEF Pressure!Access, Pressure!ReadCalibration, Pressure!Answers,
       Pressure!Calibrate, Pressure!MeasuredNow, Pressure!Answered, OneChip
  <2> QED
    BY <2>1a, <2>1b, <2>1c, <2>1d, <2>1e, <2>1f, <2>2, <2>3, <2>4
<1>8. CASE Pressure!ScpInit
  <2>1a. DriverTypes'
    BY <1>8 DEF Pressure!Access, Pressure!Starts, Pressure!Answers, Pressure!ScpInit
  <2>1b. SensorTypes'
    BY <1>8 DEF Pressure!Access, Pressure!Starts, Pressure!Answers, Pressure!ScpInit
  <2>1c. PressWordTypes'
    BY <1>8 DEF Pressure!Access, Pressure!Starts, Pressure!Answers, Pressure!ScpInit
  <2>1d. AirTypes'
    BY <1>8 DEF Pressure!Access, Pressure!Starts, Pressure!Answers, Pressure!ScpInit
  <2>1e. PressCallTypes'
    <3>1. PICK acked \in Pressure!Answers("scp") :
              accRefused' = IF part = "scp" /\ ~acked THEN accRefused + 1 ELSE accRefused
      BY <1>8 DEF Pressure!Access, Pressure!ScpInit
    <3>2. accRefused' \in 0 .. MaxRefusals
      BY <3>1, RefusedStep
    <3>3. pressCalls' \in 0 .. MaxPressCalls
      BY <1>8 DEF Pressure!Begin, Pressure!ScpInit
    <3> QED
      BY <3>2, <3>3
  <2>1f. PressFlagTypes'
    BY <1>8 DEF Pressure!Access, Pressure!Starts, Pressure!Answers, Pressure!ScpInit
  <2>2. OneChip'
    BY <1>8 DEF Pressure!Access, Pressure!Starts, Pressure!Answers, Pressure!ScpInit,
       OneChip
  <2>3. Awaited'
    BY <1>8 DEF Pressure!Access, Pressure!Starts, Pressure!Answers, Pressure!ScpInit,
       Awaited
  <2>4. Pressure!MeasuredNow'
    BY <1>8 DEF Pressure!Access, Pressure!Starts, Pressure!Answers, Pressure!ScpInit,
       Pressure!MeasuredNow, Pressure!Answered, OneChip
  <2> QED
    BY <2>1a, <2>1b, <2>1c, <2>1d, <2>1e, <2>1f, <2>2, <2>3, <2>4
<1>9. CASE Pressure!WriteTemp
  <2>1a. DriverTypes'
    BY <1>9 DEF Pressure!Access, Pressure!Starts, Pressure!Answers, Pressure!Started,
       Pressure!TempEnds, Pressure!Return, Pressure!Error, Pressure!WriteTemp
  <2>1b. SensorTypes'
    BY <1>9 DEF Pressure!Access, Pressure!Starts, Pressure!Answers, Pressure!Started,
       Pressure!TempEnds, Pressure!Return, Pressure!Error, Pressure!WriteTemp
  <2>1c. PressWordTypes'
    BY <1>9 DEF Pressure!Access, Pressure!Starts, Pressure!Answers, Pressure!Started,
       Pressure!TempEnds, Pressure!Return, Pressure!Error, Pressure!WriteTemp
  <2>1d. AirTypes'
    BY <1>9 DEF Pressure!Access, Pressure!Starts, Pressure!Answers, Pressure!Started,
       Pressure!TempEnds, Pressure!Return, Pressure!Error, Pressure!WriteTemp
  <2>1e. PressCallTypes'
    <3>1. PICK acked \in Pressure!Answers("bmp") :
              accRefused' = IF part = "bmp" /\ ~acked THEN accRefused + 1 ELSE accRefused
      BY <1>9 DEF Pressure!Access, Pressure!WriteTemp
    <3>2. accRefused' \in 0 .. MaxRefusals
      BY <3>1, RefusedStep
    <3>3. pressCalls' \in 0 .. MaxPressCalls
      BY <1>9 DEF Pressure!Begin, Pressure!WriteTemp
    <3> QED
      BY <3>2, <3>3
  <2>1f. PressFlagTypes'
    BY <1>9 DEF Pressure!Access, Pressure!Starts, Pressure!Answers, Pressure!Started,
       Pressure!TempEnds, Pressure!Return, Pressure!Error, Pressure!WriteTemp
  <2>2. OneChip'
    BY <1>9 DEF Pressure!Access, Pressure!Starts, Pressure!Answers, Pressure!Started,
       Pressure!TempEnds, Pressure!Return, Pressure!Error, Pressure!WriteTemp, OneChip
  <2>3. Awaited'
    BY <1>9 DEF Pressure!Access, Pressure!Starts, Pressure!Answers, Pressure!Started,
       Pressure!TempEnds, Pressure!Return, Pressure!Error, Pressure!WriteTemp, Awaited
  <2>4. Pressure!MeasuredNow'
    BY <1>9 DEF Pressure!Access, Pressure!Starts, Pressure!Answers, Pressure!Started,
       Pressure!TempEnds, Pressure!Return, Pressure!Error, Pressure!WriteTemp,
       Pressure!MeasuredNow, Pressure!Answered, OneChip
  <2> QED
    BY <2>1a, <2>1b, <2>1c, <2>1d, <2>1e, <2>1f, <2>2, <2>3, <2>4
<1>10. CASE Pressure!ReadTemp
  <2>1a. DriverTypes'
    BY <1>10 DEF Pressure!Access, Pressure!Answers, Pressure!DataAvailable,
       Pressure!TempEnds, Pressure!Return, Pressure!Measured, Pressure!ReadTemp
  <2>1b. SensorTypes'
    BY <1>10 DEF Pressure!Access, Pressure!Answers, Pressure!DataAvailable,
       Pressure!TempEnds, Pressure!Return, Pressure!Measured, Pressure!ReadTemp
  <2>1c. PressWordTypes'
    BY <1>10 DEF Pressure!Access, Pressure!Answers, Pressure!DataAvailable,
       Pressure!TempEnds, Pressure!Return, Pressure!Measured, Pressure!ReadTemp
  <2>1d. AirTypes'
    BY <1>10 DEF Pressure!Access, Pressure!Answers, Pressure!DataAvailable,
       Pressure!TempEnds, Pressure!Return, Pressure!Measured, Pressure!ReadTemp
  <2>1e. PressCallTypes'
    <3>1. PICK acked \in Pressure!Answers("bmp") :
              accRefused' = IF part = "bmp" /\ ~acked THEN accRefused + 1 ELSE accRefused
      BY <1>10 DEF Pressure!Access, Pressure!ReadTemp
    <3>2. accRefused' \in 0 .. MaxRefusals
      BY <3>1, RefusedStep
    <3>3. pressCalls' \in 0 .. MaxPressCalls
      BY <1>10 DEF Pressure!Begin, Pressure!ReadTemp
    <3> QED
      BY <3>2, <3>3
  <2>1f. PressFlagTypes'
    BY <1>10 DEF Pressure!Access, Pressure!Answers, Pressure!DataAvailable,
       Pressure!TempEnds, Pressure!Return, Pressure!Measured, Pressure!ReadTemp
  <2>2. OneChip'
    BY <1>10 DEF Pressure!Access, Pressure!Answers, Pressure!DataAvailable,
       Pressure!TempEnds, Pressure!Return, Pressure!Measured, Pressure!ReadTemp, OneChip
  <2>3. Awaited'
    BY <1>10 DEF Pressure!Access, Pressure!Answers, Pressure!DataAvailable,
       Pressure!TempEnds, Pressure!Return, Pressure!Measured, Pressure!ReadTemp, Awaited
  <2>4. Pressure!MeasuredNow'
    BY <1>10 DEF Pressure!Access, Pressure!Answers, Pressure!DataAvailable,
       Pressure!TempEnds, Pressure!Return, Pressure!Measured, Pressure!ReadTemp,
       Pressure!MeasuredNow, Pressure!Answered, OneChip
  <2> QED
    BY <2>1a, <2>1b, <2>1c, <2>1d, <2>1e, <2>1f, <2>2, <2>3, <2>4
<1>11. CASE Pressure!WritePress
  <2>1a. DriverTypes'
    BY <1>11 DEF Pressure!Access, Pressure!Answers, Pressure!Starts, Pressure!Started,
       Pressure!Return, Pressure!Error, Pressure!WritePress
  <2>1b. SensorTypes'
    BY <1>11, PressureValues DEF Pressure!Access, Pressure!Answers, Pressure!Starts,
       Pressure!Started, Pressure!Return, Pressure!Error, Pressure!WritePress
  <2>1c. PressWordTypes'
    BY <1>11 DEF Pressure!Access, Pressure!Answers, Pressure!Starts, Pressure!Started,
       Pressure!Return, Pressure!Error, Pressure!WritePress
  <2>1d. AirTypes'
    BY <1>11 DEF Pressure!Access, Pressure!Answers, Pressure!Starts, Pressure!Started,
       Pressure!Return, Pressure!Error, Pressure!WritePress
  <2>1e. PressCallTypes'
    <3>1. PICK acked \in Pressure!Answers("bmp") :
              accRefused' = IF part = "bmp" /\ ~acked THEN accRefused + 1 ELSE accRefused
      BY <1>11 DEF Pressure!Access, Pressure!WritePress
    <3>2. accRefused' \in 0 .. MaxRefusals
      BY <3>1, RefusedStep
    <3>3. pressCalls' \in 0 .. MaxPressCalls
      BY <1>11 DEF Pressure!Begin, Pressure!WritePress
    <3> QED
      BY <3>2, <3>3
  <2>1f. PressFlagTypes'
    BY <1>11 DEF Pressure!Access, Pressure!Answers, Pressure!Starts, Pressure!Started,
       Pressure!Return, Pressure!Error, Pressure!WritePress
  <2>2. OneChip'
    BY <1>11 DEF Pressure!Access, Pressure!Answers, Pressure!Starts, Pressure!Started,
       Pressure!Return, Pressure!Error, Pressure!WritePress, OneChip
  <2>3. Awaited'
    <3>1. PICK acked \in BOOLEAN : /\ bad' = (bad \/ ~acked)
                               /\ IF acked THEN Pressure!Starts("press",
                                     Pressure!Resolution(mode)) ELSE UNCHANGED Pressure!chip
      BY <1>11 DEF Pressure!WritePress, Pressure!Access, Pressure!Answers
    <3>2. airSeen' = airSeen /\ air' = air /\ mode' = mode /\ pressPc = "write_press"
      BY <1>11 DEF Pressure!WritePress
    <3>3. CASE acked
      <4>1. conv' = {[of |-> "press", val |-> Pressure!Resolution(mode) * air]}
               /\ done' = FALSE
        BY <3>1, <3>3 DEF Pressure!Starts
      <4>2. air \in airSeen
        BY <3>2 DEF Awaited
      <4> QED
        BY <3>2, <4>1, <4>2 DEF Awaited
    <3>4. CASE ~acked
      <4>1. bad' /\ conv' = conv /\ done' = done
        BY <3>1, <3>4
      <4> QED
        BY <3>2, <4>1 DEF Awaited
    <3> QED
      BY <3>1, <3>3, <3>4
  <2>4. Pressure!MeasuredNow'
    BY <1>11 DEF Pressure!Access, Pressure!Answers, Pressure!Starts, Pressure!Started,
       Pressure!Return, Pressure!Error, Pressure!WritePress, Pressure!MeasuredNow,
       Pressure!Answered, OneChip
  <2> QED
    BY <2>1a, <2>1b, <2>1c, <2>1d, <2>1e, <2>1f, <2>2, <2>3, <2>4
<1>12. CASE Pressure!ReadPress
  <2>1a. DriverTypes'
    BY <1>12 DEF Pressure!Access, Pressure!Answers, Pressure!DataAvailable,
       Pressure!Return, Pressure!Measured, Pressure!ReadPress, OneChip
  <2>1b. SensorTypes'
    BY <1>12 DEF Pressure!Access, Pressure!Answers, Pressure!DataAvailable,
       Pressure!Return, Pressure!Measured, Pressure!ReadPress, OneChip
  <2>1c. PressWordTypes'
    BY <1>12 DEF Pressure!Access, Pressure!Answers, Pressure!DataAvailable,
       Pressure!Return, Pressure!Measured, Pressure!ReadPress, OneChip
  <2>1d. AirTypes'
    BY <1>12 DEF Pressure!Access, Pressure!Answers, Pressure!DataAvailable,
       Pressure!Return, Pressure!Measured, Pressure!ReadPress, OneChip
  <2>1e. PressCallTypes'
    <3>1. PICK acked \in Pressure!Answers("bmp") :
              accRefused' = IF part = "bmp" /\ ~acked THEN accRefused + 1 ELSE accRefused
      BY <1>12 DEF Pressure!Access, Pressure!ReadPress
    <3>2. accRefused' \in 0 .. MaxRefusals
      BY <3>1, RefusedStep
    <3>3. pressCalls' \in 0 .. MaxPressCalls
      BY <1>12 DEF Pressure!ReadPress
    <3> QED
      BY <3>2, <3>3
  <2>1f. PressFlagTypes'
    BY <1>12 DEF Pressure!Access, Pressure!Answers, Pressure!DataAvailable,
       Pressure!Return, Pressure!Measured, Pressure!ReadPress, OneChip
  <2>2. OneChip'
    BY <1>12 DEF Pressure!Access, Pressure!Answers, Pressure!DataAvailable,
       Pressure!Return, Pressure!Measured, Pressure!ReadPress, OneChip
  <2>3. Awaited'
    BY <1>12 DEF Pressure!Access, Pressure!Answers, Pressure!DataAvailable,
       Pressure!Return, Pressure!Measured, Pressure!ReadPress, Awaited
  <2>4. Pressure!MeasuredNow'
    <3> SUFFICES ASSUME ~bad' PROVE pressure'.val \in airSeen' /\ ~pressure'.error
      BY DEF Pressure!MeasuredNow
    <3>0. PICK acked \in BOOLEAN :
              /\ bad' = (bad \/ ~acked)
              /\ pressure' = Pressure!Measured((IF acked THEN adc
                    ELSE 0) \div Pressure!Oversampling(mode), b5, calibration)
      BY <1>12 DEF Pressure!ReadPress, Pressure!Access, Pressure!Answers, Pressure!Return
    <3>4. ~bad /\ acked
      BY <3>0
    <3>1. /\ ~bad /\ pressPc = "wait_press" /\ done
          /\ pressure'.val = adc \div Pressure!Oversampling(mode) /\ pressure'.error = FALSE
          /\ airSeen' = airSeen
      BY <1>12, <3>0, <3>4 DEF Pressure!ReadPress, Pressure!DataAvailable,
         Pressure!Measured
    <3>2. PICK p \in airSeen : adc = Pressure!Resolution(mode) * p
      BY <3>1 DEF Awaited
    <3>3. p \in Nat
      BY <3>2
    <3> QED
      BY <3>1, <3>2, <3>3, PressureValues
  <2> QED
    BY <2>1a, <2>1b, <2>1c, <2>1d, <2>1e, <2>1f, <2>2, <2>3, <2>4
<1>13. CASE Pressure!ReadLow
  <2>1a. DriverTypes'
    BY <1>13 DEF Pressure!Access, Pressure!Answers, Pressure!Return, Pressure!Measured,
       Pressure!Quotient, Pressure!ReadLow
  <2>1b. SensorTypes'
    BY <1>13 DEF Pressure!Access, Pressure!Answers, Pressure!Return, Pressure!Measured,
       Pressure!Quotient, Pressure!ReadLow
  <2>1c. PressWordTypes'
    BY <1>13 DEF Pressure!Access, Pressure!Answers, Pressure!Return, Pressure!Measured,
       Pressure!Quotient, Pressure!ReadLow
  <2>1d. AirTypes'
    BY <1>13 DEF Pressure!Access, Pressure!Answers, Pressure!Return, Pressure!Measured,
       Pressure!Quotient, Pressure!ReadLow
  <2>1e. PressCallTypes'
    <3>1. PICK acked \in Pressure!Answers("scp") :
              accRefused' = IF part = "scp" /\ ~acked THEN accRefused + 1 ELSE accRefused
      BY <1>13 DEF Pressure!Access, Pressure!ReadLow
    <3>2. accRefused' \in 0 .. MaxRefusals
      BY <3>1, RefusedStep
    <3>3. pressCalls' \in 0 .. MaxPressCalls
      BY <1>13 DEF Pressure!Begin, Pressure!ReadLow
    <3> QED
      BY <3>2, <3>3
  <2>1f. PressFlagTypes'
    BY <1>13 DEF Pressure!Access, Pressure!Answers, Pressure!Return, Pressure!Measured,
       Pressure!Quotient, Pressure!ReadLow
  <2>2. OneChip'
    BY <1>13 DEF Pressure!Access, Pressure!Answers, Pressure!Return, Pressure!Measured,
       Pressure!Quotient, Pressure!ReadLow, OneChip
  <2>3. Awaited'
    BY <1>13 DEF Pressure!Access, Pressure!Answers, Pressure!Return, Pressure!Measured,
       Pressure!Quotient, Pressure!ReadLow, Awaited
  <2>4. Pressure!MeasuredNow'
    BY <1>13 DEF Pressure!Access, Pressure!Answers, Pressure!Return, Pressure!Measured,
       Pressure!Quotient, Pressure!ReadLow, Pressure!MeasuredNow, Pressure!Answered,
       OneChip
  <2> QED
    BY <2>1a, <2>1b, <2>1c, <2>1d, <2>1e, <2>1f, <2>2, <2>3, <2>4
<1>14. CASE Pressure!ReadHigh
  <2>1a. DriverTypes'
    BY <1>14 DEF Pressure!Access, Pressure!Answers, Pressure!Return, Pressure!Measured,
       Pressure!Quotient, Pressure!ReadHigh
  <2>1b. SensorTypes'
    BY <1>14 DEF Pressure!Access, Pressure!Answers, Pressure!Return, Pressure!Measured,
       Pressure!Quotient, Pressure!ReadHigh
  <2>1c. PressWordTypes'
    BY <1>14 DEF Pressure!Access, Pressure!Answers, Pressure!Return, Pressure!Measured,
       Pressure!Quotient, Pressure!ReadHigh
  <2>1d. AirTypes'
    BY <1>14 DEF Pressure!Access, Pressure!Answers, Pressure!Return, Pressure!Measured,
       Pressure!Quotient, Pressure!ReadHigh
  <2>1e. PressCallTypes'
    <3>1. PICK acked \in Pressure!Answers("scp") :
              accRefused' = IF part = "scp" /\ ~acked THEN accRefused + 1 ELSE accRefused
      BY <1>14 DEF Pressure!Access, Pressure!ReadHigh
    <3>2. accRefused' \in 0 .. MaxRefusals
      BY <3>1, RefusedStep
    <3>3. pressCalls' \in 0 .. MaxPressCalls
      BY <1>14 DEF Pressure!Begin, Pressure!ReadHigh
    <3> QED
      BY <3>2, <3>3
  <2>1f. PressFlagTypes'
    BY <1>14 DEF Pressure!Access, Pressure!Answers, Pressure!Return, Pressure!Measured,
       Pressure!Quotient, Pressure!ReadHigh
  <2>2. OneChip'
    BY <1>14 DEF Pressure!Access, Pressure!Answers, Pressure!Return, Pressure!Measured,
       Pressure!Quotient, Pressure!ReadHigh, OneChip
  <2>3. Awaited'
    BY <1>14 DEF Pressure!Access, Pressure!Answers, Pressure!Return, Pressure!Measured,
       Pressure!Quotient, Pressure!ReadHigh, Awaited
  <2>4. Pressure!MeasuredNow'
    BY <1>14 DEF Pressure!Access, Pressure!Answers, Pressure!Return, Pressure!Measured,
       Pressure!Quotient, Pressure!ReadHigh, Pressure!MeasuredNow, Pressure!Answered,
       OneChip
  <2> QED
    BY <2>1a, <2>1b, <2>1c, <2>1d, <2>1e, <2>1f, <2>2, <2>3, <2>4
<1>15. CASE Pressure!Finish
  <2>1a. DriverTypes'
    BY <1>15 DEF Pressure!Finish
  <2>1b. SensorTypes'
    BY <1>15 DEF Pressure!Finish
  <2>1c. PressWordTypes'
    BY <1>15 DEF Pressure!Finish
  <2>1d. AirTypes'
    BY <1>15 DEF Pressure!Finish
  <2>1e. PressCallTypes'
    BY <1>15 DEF Pressure!Finish
  <2>1f. PressFlagTypes'
    BY <1>15 DEF Pressure!Finish
  <2>2. OneChip'
    BY <1>15 DEF Pressure!Finish, OneChip
  <2>3. Awaited'
    BY <1>15 DEF Pressure!Finish, Awaited
  <2>4. Pressure!MeasuredNow'
    BY <1>15 DEF Pressure!Finish, Pressure!MeasuredNow, Pressure!Answered, OneChip
  <2> QED
    BY <2>1a, <2>1b, <2>1c, <2>1d, <2>1e, <2>1f, <2>2, <2>3, <2>4
<1>16. CASE \E p \in Pressures : Pressure!Weather(p)
  <2>1a. DriverTypes'
    BY <1>16 DEF Pressure!Weather
  <2>1b. SensorTypes'
    BY <1>16 DEF Pressure!Weather
  <2>1c. PressWordTypes'
    BY <1>16 DEF Pressure!Weather
  <2>1d. AirTypes'
    BY <1>16 DEF Pressure!Weather
  <2>1e. PressCallTypes'
    BY <1>16 DEF Pressure!Weather
  <2>1f. PressFlagTypes'
    BY <1>16 DEF Pressure!Weather
  <2>2. OneChip'
    BY <1>16 DEF Pressure!Weather, OneChip
  <2>3. Awaited'
    BY <1>16 DEF Pressure!Weather, Awaited
  <2>4. Pressure!MeasuredNow'
    BY <1>16 DEF Pressure!Weather, Pressure!MeasuredNow, Pressure!Answered, OneChip
  <2> QED
    BY <2>1a, <2>1b, <2>1c, <2>1d, <2>1e, <2>1f, <2>2, <2>3, <2>4
<1>17. CASE UNCHANGED Pressure!vars
  BY <1>17 DEF Pressure!vars, OneChip, Awaited, Pressure!MeasuredNow, Pressure!Answered
<1> QED
  BY <1>1, <1>2, <1>3, <1>4, <1>5, <1>6, <1>7, <1>8, <1>9, <1>10, <1>11, <1>12, <1>13,
     <1>14, <1>15, <1>16, <1>17 DEF Pressure!Next, Pressure!Calls, Pressure!Step

LEMMA PressureInvTrue == PressureInv => Pressure!OneBoard
  BY DEF PressureInv, DriverTypes, SensorTypes, PressWordTypes, AirTypes,
     PressFlagTypes, PressCallTypes, OneChip, Pressure!OneBoard, Pressure!None

(***************************************************************************)
(* The acceleration sensors (AccelSensor): what is left of a call is the   *)
(* tail of its accesses; those before it were made unless one failed.      *)
(***************************************************************************)

\* The accesses of the call that runs, or ran last.
Accesses ==
    CASE accelCall.name = "plugin" -> Accel!Configure
      [] accelCall.name = "enable" -> Accel!Enable(accelCall.range, accelCall.rate)
      [] accelCall.name = "suspend" -> Accel!Suspend
      [] accelCall.name = "read" -> Accel!ReadAxis
      [] OTHER -> <<>>

BitValues == {FALSE, TRUE}
AccelCallTypes ==
    /\ accelCall \in [name : {"none", "plugin", "enable", "suspend", "read"},
                      range : Accel!Ranges, rate : Accel!Rates, axis : Accel!Axes,
                      slow : Nat]
    /\ accelCalls \in 0 .. MaxAccelCalls /\ slow \in 0 .. MaxSlow /\ accelCall.slow <= slow

AccelFlagTypes == asOk \in BOOLEAN /\ csn \in BOOLEAN /\ powered \in BOOLEAN /\ torn = FALSE

RegisterTypes ==
    /\ DOMAIN registers = {"range", "bwd", "pm", "ctrl", "rstr"}
    /\ registers.pm \in {0, 2, 6, 25, Accel!Suspended}
    /\ registers.ctrl[1] \in {0, 40, 100, 400}

AccelDataTypes ==
    /\ kind \in Accel!Kinds
    /\ result \in Outputs \cup {0} /\ out \in Outputs /\ shadow \in Outputs
    /\ seen \subseteq Outputs

\* The bytes the chip got: a timeout leaves some of them, and the flag down.
Transfer ==
    /\ accelPc \in {"idle", "address", "data"}
    /\ accelPc # "idle" => asOk /\ accesses # <<>>
    /\ bytes \in Seq({"address", "data"}) /\ Len(bytes) <= 2
    /\ asOk => Len(bytes) = (IF accelPc = "data" THEN 1 ELSE 0) /\ powered
    /\ asOk /\ accelPc = "idle" => csn

\* What is left of the call; the accesses before it were made, unless one failed.
Made(k) ==
    /\ \A j \in 1 .. k :
          LET a == Accesses[j] IN a.op = "write" /\ a.reg # "rstr" => registers[a.reg] = a.val
    /\ accelCall.name = "read" /\ k > 0 /\ Accel!Measuring
          => shadow \in seen /\ result \in seen

RegisterNames == {"range", "bwd", "pm", "ctrl", "rstr"}
CtrlValues == {0, 40, 100, 400} \X Accel!Ranges
Entries ==
    [op : {"write", "read"}, reg : RegisterNames \cup {"lsb", "msb", "dout"},
     val : 0 .. 1000 \cup CtrlValues]

LeftOut ==
    /\ accesses \in Seq(Entries)
    /\ \E k \in 0 .. Len(Accesses) :
          /\ Len(accesses) = Len(Accesses) - k
          /\ \A idx \in 1 .. Len(accesses) : accesses[idx] = Accesses[k + idx]
          /\ asOk => Made(k)

AccelHistory ==
    /\ accelCall.name # "none" => out \in seen
    /\ accelCall.name = "plugin" /\ slow = accelCall.slow => asOk

AccelInv == AccelCallTypes /\ AccelFlagTypes /\ RegisterTypes /\ AccelDataTypes /\ Transfer
    /\ LeftOut /\ AccelHistory
LEMMA SameAccesses == UNCHANGED <<kind, accelCall, powered>> => Accesses' = Accesses
  BY DEF Accesses, Accel!Configure, Accel!Enable, Accel!BmaEnable, Accel!CmaMode,
     Accel!Suspend, Accel!ReadAxis

\* What the accesses are.
AccessFacts ==
    /\ Accesses \in Seq(Entries) /\ Len(Accesses) \in 0 .. 4
    /\ accelCall.name \in {"plugin", "suspend", "enable"} =>
          \A j \in 1 .. Len(Accesses) :
             /\ Accesses[j].op = "write" /\ Accesses[j].reg \in RegisterNames
             /\ Accesses[j].reg = "pm" => Accesses[j].val \in {2, 6, 25, Accel!Suspended}
             /\ Accesses[j].reg = "ctrl" => Accesses[j].val[1] \in {0, 40, 100, 400}
             /\ \A l \in 1 .. Len(Accesses) :
                   Accesses[l].reg = Accesses[j].reg /\ l # j => Accesses[j].reg = "rstr"
    /\ accelCall.name = "read" =>
          /\ \A j \in 1 .. Len(Accesses) :
                Accesses[j].op = "read" /\ Accesses[1].reg \in {"lsb", "dout"}
          /\ powered => Len(Accesses) > 0
    /\ accelCall.name = "none" => Len(Accesses) = 0

LEMMA AccessList == AccelCallTypes /\ kind \in Accel!Kinds => AccessFacts
<1> SUFFICES ASSUME AccelCallTypes, kind \in Accel!Kinds PROVE AccessFacts
  OBVIOUS
<1> USE DEF AccessFacts
<1> USE DEF Accel!Kinds, AccelCallTypes, Accel!Write, Accel!Read, Entries, RegisterNames,
               CtrlValues, Accel!Ranges, Accel!Rates
<1>1. CASE accelCall.name = "plugin"
  <2>1. CASE kind = "bma"
    <3> DEFINE a == <<Accel!Write("range", 2), Accel!Write("bwd", 63)>>
               b == <<Accel!Write("pm", Accel!Suspended)>>
    <3>1. /\ Accesses \in Seq(Entries) /\ Len(Accesses) = 3
          /\ Accesses[1] = a[1] /\ Accesses[2] = a[2] /\ Accesses[3] = b[1]
      <4>1. Accesses = a \o b
        BY <1>1, <2>1 DEF Accesses, Accel!Configure, Accel!Suspend
      <4>2. a \in Seq(Entries) /\ b \in Seq(Entries) /\ Len(a) = 2 /\ Len(b) = 1
        BY DEF Accel!Suspended
      <4> QED
        BY <4>1, <4>2, ConcatProperties
    <3> QED
      BY <1>1, <3>1 DEF Accel!Suspended
  <2>2. CASE kind = "cma"
    <3> DEFINE a == [idx \in 1 .. 3 |-> Accel!Write("rstr", idx)]
               b == <<Accel!Write("ctrl", <<0, 2>>)>>
    <3>1. /\ Accesses \in Seq(Entries) /\ Len(Accesses) = 4
          /\ \A idx \in 1 .. 3 : Accesses[idx] = Accel!Write("rstr", idx)
          /\ Accesses[4] = b[1]
      <4>1. Accesses = a \o b
        BY <1>1, <2>2 DEF Accesses, Accel!Configure, Accel!Suspend
      <4>2. a \in Seq(Entries) /\ b \in Seq(Entries) /\ Len(a) = 3 /\ Len(b) = 1
        OBVIOUS
      <4> QED
        BY <4>1, <4>2, ConcatProperties
    <3> QED
      BY <1>1, <3>1
  <2> QED
    BY <2>1, <2>2
<1>2. CASE accelCall.name = "suspend"
  <2>1. CASE kind = "bma"
    <3>1. Accesses = <<Accel!Write("pm", Accel!Suspended)>>
      BY <1>2, <2>1 DEF Accesses, Accel!Suspend
    <3> QED
      BY <1>2, <3>1 DEF Accel!Suspended
  <2>2. CASE kind = "cma"
    <3>1. Accesses = <<Accel!Write("ctrl", <<0, 2>>)>>
      BY <1>2, <2>2 DEF Accesses, Accel!Suspend
    <3> QED
      BY <1>2, <3>1
  <2> QED
    BY <2>1, <2>2
<1>3. CASE accelCall.name = "enable"
  <2>1. CASE kind = "bma"
    <3>1. Accesses = <<Accel!Write("range", accelCall.range), Accel!Write("bwd",
             Accel!Bandwidth(accelCall.rate)), Accel!Write("pm",
                Accel!SleepPhase(accelCall.rate))>>
      BY <1>3, <2>1 DEF Accesses, Accel!Enable, Accel!BmaEnable
    <3>2. Accel!SleepPhase(accelCall.rate) \in {25, 6, 2}
             /\ Accel!Bandwidth(accelCall.rate) \in 0 .. 1000
                   /\ accelCall.range \in Accel!Ranges
      BY DEF Accel!SleepPhase, Accel!Bandwidth
    <3> QED
      BY <1>3, <3>1, <3>2
  <2>2. CASE kind = "cma"
    <3>1. Accesses = <<Accel!Write("ctrl", <<Accel!CmaMode(accelCall.range, accelCall.rate),
             accelCall.range>>)>>
      BY <1>3, <2>2 DEF Accesses, Accel!Enable
    <3>2. Accel!CmaMode(accelCall.range, accelCall.rate) \in {40, 100, 400}
             /\ accelCall.range \in Accel!Ranges
      BY DEF Accel!CmaMode
    <3> QED
      BY <1>3, <3>1, <3>2
  <2> QED
    BY <2>1, <2>2
<1>4. CASE accelCall.name = "read"
  <2>1. Accesses \in {<<Accel!Read("dout")>>, <<Accel!Read("lsb"), Accel!Read("msb")>>, <<>>}
           /\ (powered => Accesses # <<>>)
    BY <1>4 DEF Accesses, Accel!ReadAxis
  <2>2. CASE Accesses = <<Accel!Read("dout")>>
    BY <1>4, <2>2
  <2>3. CASE Accesses = <<Accel!Read("lsb"), Accel!Read("msb")>>
    BY <1>4, <2>3
  <2>4. CASE Accesses = <<>>
    BY <1>4, <2>1, <2>4
  <2> QED
    BY <2>1, <2>2, <2>3, <2>4
<1>5. CASE accelCall.name = "none"
  BY <1>5 DEF Accesses
<1> QED
  BY <1>1, <1>2, <1>3, <1>4, <1>5
LEMMA NextAccessList == (AccelCallTypes /\ kind \in Accel!Kinds)' => AccessFacts'
  BY AccessList, PTL

\* A call begins.
LEMMA CallBegun ==
    ASSUME AccelCallTypes', kind' \in Accel!Kinds, accesses' = Accesses'
    PROVE  LeftOut'
<1>1. AccessFacts'
  BY NextAccessList
<1>2. Made(0)'
  BY DEF Made
<1> QED
  BY <1>1, <1>2 DEF LeftOut, AccessFacts

\* The access that is made.
LEMMA CurrentAccess ==
    ASSUME AccelCallTypes, kind \in Accel!Kinds, LeftOut, accesses # <<>>
    PROVE  \E k \in 0 .. Len(Accesses) - 1 :
              /\ Head(accesses) = Accesses[k + 1]
              /\ Tail(accesses) \in Seq(Entries) /\ Len(Tail(accesses))
                    = Len(Accesses) - (k + 1)
              /\ \A idx \in 1 .. Len(Tail(accesses)) :
                    Tail(accesses)[idx] = Accesses[(k + 1) + idx]
              /\ asOk => Made(k)
<1>1. AccessFacts
  BY AccessList
<1>2. PICK k \in 0 .. Len(Accesses) :
              /\ Len(accesses) = Len(Accesses) - k
              /\ \A idx \in 1 .. Len(accesses) : accesses[idx] = Accesses[k + idx]
              /\ asOk => Made(k)
  BY DEF LeftOut
<1>3. /\ accesses \in Seq(Entries) /\ Len(accesses) > 0 /\ Head(accesses) = accesses[1]
      /\ Tail(accesses) \in Seq(Entries) /\ Len(Tail(accesses)) = Len(accesses) - 1
      /\ \A idx \in 1 .. Len(Tail(accesses)) : Tail(accesses)[idx] = accesses[idx + 1]
  BY DEF LeftOut
<1>4. k \in 0 .. Len(Accesses) - 1 /\ Len(Accesses) \in Nat
  BY <1>1, <1>2, <1>3 DEF AccessFacts
<1>5. Head(accesses) = Accesses[k + 1]
  BY <1>2, <1>3
<1>6. \A idx \in 1 .. Len(Tail(accesses)) : Tail(accesses)[idx] = Accesses[(k + 1) + idx]
  <2> SUFFICES ASSUME NEW idx \in 1 .. Len(Tail(accesses))
                         PROVE Tail(accesses)[idx] = Accesses[(k + 1) + idx]
    OBVIOUS
  <2>1. idx + 1 \in 1 .. Len(accesses) /\ k + (idx + 1) = (k + 1) + idx
    BY <1>3
  <2>2. Tail(accesses)[idx] = accesses[idx + 1]
    BY <1>3
  <2> QED
    BY <1>2, <2>1, <2>2
<1> QED
  BY <1>2, <1>3, <1>4, <1>5, <1>6

\* What a byte that arrives does to the chip.
LEMMA ByteArrives ==
    ASSUME AccelCallTypes, kind \in Accel!Kinds, RegisterTypes, AccelDataTypes, LeftOut,
              accesses # <<>>, Accel!Gets(Head(accesses))
    PROVE  RegisterTypes' /\ shadow' \in Outputs
<1> DEFINE a == Head(accesses)
<1>1. AccessFacts
  BY AccessList
<1>2. PICK k \in 0 .. Len(Accesses) - 1 : a = Accesses[k + 1]
  BY CurrentAccess
<1>3. shadow' \in Outputs
  BY DEF Accel!Gets, AccelDataTypes
<1>4. CASE registers' = registers
  BY <1>3, <1>4 DEF RegisterTypes
<1>5. CASE a.op = "write" /\ registers' = [registers EXCEPT ![a.reg] = a.val]
  <2>1. k + 1 \in 1 .. Len(Accesses)
    BY <1>1 DEF AccessFacts
  <2>2. accelCall.name \in {"plugin", "suspend", "enable"}
    BY <1>1, <1>2, <1>5, <2>1 DEF AccessFacts, AccelCallTypes
  <2>3. /\ a.reg \in RegisterNames /\ (a.reg = "pm" => a.val \in {2, 6, 25, Accel!Suspended})
        /\ a.reg = "ctrl" => a.val[1] \in {0, 40, 100, 400}
    BY <1>1, <1>2, <2>1, <2>2 DEF AccessFacts
  <2> HIDE DEF a
  <2>4. registers'.pm \in {0, 2, 6, 25, Accel!Suspended}
    BY <1>5, <2>3 DEF RegisterTypes
  <2>5. registers'.ctrl[1] \in {0, 40, 100, 400}
    BY <1>5, <2>3 DEF RegisterTypes
  <2> QED
    BY <1>3, <1>5, <2>4, <2>5 DEF RegisterTypes
<1> QED
  BY <1>4, <1>5 DEF Accel!Gets
LEMMA PluginAccelInv ==
    ASSUME Accel!AccelAssumption, AccelInv, Accel!Plugin
    PROVE  AccelInv'
<1> USE DEF AccelInv, Accel!Plugin, Accel!Begin, Accel!Setup
<1>1. AccelCallTypes'
  BY DEF AccelCallTypes, Accel!Ranges, Accel!Rates, Accel!Axes, Accel!AccelAssumption
<1>2. AccelFlagTypes'
  BY DEF AccelFlagTypes
<1>3. RegisterTypes'
  BY DEF RegisterTypes, Accel!Reset
<1>4. AccelDataTypes'
  BY DEF AccelDataTypes
<1>5. Transfer'
  BY DEF Transfer
<1>6. LeftOut'
  <2>1. accesses' = Accesses'
    BY DEF Accesses, Accel!Configure, Accel!Suspend
  <2> QED
    BY <1>1, <1>4, <2>1, CallBegun DEF AccelDataTypes
<1>7. AccelHistory'
  BY DEF AccelHistory
<1> QED
  BY <1>1, <1>2, <1>3, <1>4, <1>5, <1>6, <1>7

LEMMA CallAccelInv ==
    ASSUME Accel!AccelAssumption, AccelInv, Accel!Call
    PROVE  AccelInv'
<1> USE DEF AccelInv
<1>1. PICK name, range, rate, axis, plan :
         /\ name \in {"enable", "suspend", "read"}
         /\ range \in Accel!Ranges /\ rate \in Accel!Rates /\ axis \in Accel!Axes
         /\ Accel!Begin(name, range, rate, axis, plan)
         /\ plan = CASE name = "enable" -> Accel!Enable(range, rate)
                         [] name = "suspend" -> Accel!Suspend
                         [] name = "read" -> Accel!ReadAxis
  BY DEF Accel!Call, Accel!Ranges, Accel!Rates, Accel!Axes
<1>2. UNCHANGED <<kind, asOk, csn, powered, accelPc, Accel!sensor, out, slow>>
  BY DEF Accel!Call
<1>3. AccelCallTypes'
  BY <1>1, <1>2 DEF AccelCallTypes, Accel!Begin, Accel!AccelAssumption
<1>4. AccelFlagTypes' /\ RegisterTypes'
  BY <1>2 DEF AccelFlagTypes, RegisterTypes, Accel!sensor
<1>5. AccelDataTypes'
  BY <1>1, <1>2 DEF AccelDataTypes, Accel!Begin, Accel!sensor
<1>6. Transfer'
  BY <1>1, <1>2 DEF Transfer, Accel!Begin, Accel!sensor
<1>7. LeftOut'
  <2>1. accesses' = plan /\ accelCall'.name = name /\ accelCall'.range = range
           /\ accelCall'.rate = rate
    BY <1>1 DEF Accel!Begin
  <2>2. ASSUME name = "enable" PROVE accesses' = Accesses'
    <3>1. accesses' = Accel!Enable(range, rate)
      BY <1>1, <2>1, <2>2
    <3>2. Accesses' = (Accel!Enable(accelCall.range, accelCall.rate))'
      BY <2>1, <2>2 DEF Accesses
    <3>3. (Accel!Enable(accelCall.range, accelCall.rate))' = Accel!Enable(range, rate)
      BY <1>2, <2>1 DEF Accel!Enable, Accel!BmaEnable, Accel!CmaMode
    <3> QED
      BY <3>1, <3>2, <3>3
  <2>3. ASSUME name = "suspend" PROVE accesses' = Accesses'
    <3>1. accesses' = Accel!Suspend
      BY <1>1, <2>1, <2>3
    <3>2. Accesses' = (Accel!Suspend)'
      BY <2>1, <2>3 DEF Accesses
    <3>3. (Accel!Suspend)' = Accel!Suspend
      BY <1>2, <2>1 DEF Accel!Suspend
    <3> QED
      BY <3>1, <3>2, <3>3
  <2>4. ASSUME name = "read" PROVE accesses' = Accesses'
    <3>1. accesses' = Accel!ReadAxis
      BY <1>1, <2>1, <2>4
    <3>2. Accesses' = (Accel!ReadAxis)'
      BY <2>1, <2>4 DEF Accesses
    <3>3. (Accel!ReadAxis)' = Accel!ReadAxis
      BY <1>2, <2>1 DEF Accel!ReadAxis
    <3> QED
      BY <3>1, <3>2, <3>3
  <2>5. name \in {"enable", "suspend", "read"}
    BY <1>1
  <2> QED
    BY <1>3, <1>5, <2>2, <2>3, <2>4, <2>5, CallBegun DEF AccelDataTypes
<1>8. AccelHistory'
  BY <1>1, <1>2 DEF AccelHistory, Accel!Begin
<1> QED
  BY <1>3, <1>4, <1>5, <1>6, <1>7, <1>8

\* An access returns without having changed a register.
LEMMA FailedLeft ==
    ASSUME AccelCallTypes, kind \in Accel!Kinds, LeftOut, accesses # <<>>,
              accesses' = Tail(accesses), ~asOk',
           UNCHANGED <<kind, accelCall, powered>>
    PROVE  LeftOut'
<1>1. Accesses' = Accesses
  BY SameAccesses
<1>2. AccessFacts
  BY AccessList
<1>3. PICK k \in 0 .. Len(Accesses) - 1 :
              /\ Tail(accesses) \in Seq(Entries) /\ Len(Tail(accesses))
                    = Len(Accesses) - (k + 1)
              /\ \A idx \in 1 .. Len(Tail(accesses)) :
                    Tail(accesses)[idx] = Accesses[(k + 1) + idx]
  BY CurrentAccess
<1>4. k + 1 \in 0 .. Len(Accesses)
  BY <1>2 DEF AccessFacts
<1> QED
  BY <1>1, <1>3, <1>4 DEF LeftOut

LEMMA RefuseAccelInv ==
    ASSUME Accel!AccelAssumption, AccelInv, Accel!Refuse
    PROVE  AccelInv'
<1> USE DEF AccelInv, Accel!Refuse, Accel!Return, Accel!Usable, Accel!sensor
<1>1. AccelCallTypes'
  BY DEF AccelCallTypes
<1>5. AccelFlagTypes'
  BY DEF AccelFlagTypes
<1>6. RegisterTypes'
  BY DEF RegisterTypes
<1>2. AccelDataTypes'
  BY DEF AccelDataTypes
<1>3. Transfer' /\ AccelHistory'
  BY DEF Transfer, AccelHistory
<1>4. LeftOut'
  BY FailedLeft DEF AccelDataTypes
<1> QED
  BY <1>1, <1>2, <1>3, <1>4, <1>5, <1>6

LEMMA SelectAccelInv ==
    ASSUME Accel!AccelAssumption, AccelInv, Accel!Select
    PROVE  AccelInv'
<1> USE DEF AccelInv, Accel!Select, Accel!Usable, Accel!sensor
<1>1. AccelCallTypes'
  BY DEF AccelCallTypes
<1>5. AccelFlagTypes'
  BY DEF AccelFlagTypes
<1>6. RegisterTypes'
  BY DEF RegisterTypes
<1>2. AccelDataTypes'
  BY DEF AccelDataTypes
<1>3. Transfer' /\ AccelHistory'
  BY DEF Transfer, AccelHistory
<1>4. LeftOut'
  <2>1. Accesses' = Accesses
    BY SameAccesses
  <2>2. \A k : Made(k)' = Made(k)
    BY <2>1 DEF Made, Accel!Measuring
  <2> QED
    BY <2>1, <2>2 DEF LeftOut
<1> QED
  BY <1>1, <1>2, <1>3, <1>4, <1>5, <1>6

LEMMA AddressAccelInv ==
    ASSUME Accel!AccelAssumption, AccelInv, Accel!Address
    PROVE  AccelInv'
<1> USE DEF AccelInv
<1>1. /\ asOk /\ accesses # <<>> /\ bytes = <<>> /\ accelPc = "address"
  BY DEF Transfer, Accel!Address
<1>2. registers' = registers /\ shadow' = shadow /\ bytes' = <<"address">>
         /\ accelPc' = "data"
  BY <1>1 DEF Accel!Address, Accel!Gets
<1>3. UNCHANGED <<kind, asOk, csn, powered, accelCall, accesses, result, torn, out,
         accelCalls, slow, seen>>
  BY DEF Accel!Address
<1>4. AccelCallTypes' /\ AccelFlagTypes' /\ RegisterTypes'
  BY <1>2, <1>3 DEF AccelCallTypes, AccelFlagTypes, RegisterTypes
<1>5. AccelDataTypes'
  BY <1>2, <1>3 DEF AccelDataTypes
<1>6. Transfer' /\ AccelHistory'
  BY <1>1, <1>2, <1>3 DEF Transfer, AccelHistory
<1>7. LeftOut'
  <2>1. Accesses' = Accesses
    BY <1>3, SameAccesses
  <2>2. \A k : Made(k)' = Made(k)
    BY <1>2, <1>3, <2>1 DEF Made, Accel!Measuring
  <2> QED
    BY <1>3, <2>1, <2>2 DEF LeftOut
<1> QED
  BY <1>4, <1>5, <1>6, <1>7
LEMMA DataAccelInv ==
    ASSUME Accel!AccelAssumption, AccelInv, Accel!Data
    PROVE  AccelInv'
<1> USE DEF AccelInv
<1> DEFINE a == Head(accesses)
<1>1. asOk /\ accesses # <<>> /\ Len(bytes) = 1 /\ powered
  BY DEF Transfer, Accel!Data
<1>2. /\ Accel!Gets(a) /\ accesses' = Tail(accesses) /\ accelPc' = "idle" /\ csn' = TRUE
            /\ bytes' = <<>>
      /\ result' = IF a.op = "read" THEN shadow' ELSE 0
  BY DEF Accel!Data, Accel!Return
<1>3. UNCHANGED <<kind, asOk, powered, accelCall, torn, out, accelCalls, slow, seen>>
  BY DEF Accel!Data
<1>4. RegisterTypes' /\ shadow' \in Outputs
  BY <1>1, <1>2, ByteArrives DEF AccelDataTypes
<1>5. AccelCallTypes'
  BY <1>3 DEF AccelCallTypes
<1>6. AccelFlagTypes'
  BY <1>2, <1>3 DEF AccelFlagTypes
<1>7. AccelDataTypes'
  BY <1>2, <1>3, <1>4 DEF AccelDataTypes
<1>8. Transfer'
  BY <1>1, <1>2, <1>3 DEF Transfer
<1>9. AccelHistory'
  BY <1>3 DEF AccelHistory
<1>10. LeftOut'
  <2>1. PICK k \in 0 .. Len(Accesses) - 1 :
              /\ a = Accesses[k + 1]
              /\ Tail(accesses) \in Seq(Entries) /\ Len(Tail(accesses))
                    = Len(Accesses) - (k + 1)
              /\ \A idx \in 1 .. Len(Tail(accesses)) :
                    Tail(accesses)[idx] = Accesses[(k + 1) + idx]
              /\ Made(k)
    BY <1>1, CurrentAccess DEF AccelDataTypes
  <2>2. AccessFacts
    BY AccessList DEF AccelDataTypes
  <2>3. Accesses' = Accesses
    BY <1>3, SameAccesses
  <2>4. k + 1 \in 0 .. Len(Accesses) /\ k \in Nat /\ k + 1 \in 1 .. Len(Accesses)
    BY <2>2 DEF AccessFacts
  <2>5. Made(k + 1)'
    <3> HIDE DEF a
    <3>1. ASSUME NEW j \in 1 .. k + 1, Accesses[j].op = "write", Accesses[j].reg # "rstr"
          PROVE  registers'[Accesses[j].reg] = Accesses[j].val
      <4>1. j \in 1 .. Len(Accesses)
        BY <2>4
      <4>2. accelCall.name \in {"plugin", "suspend", "enable"}
        BY <2>2, <3>1, <4>1 DEF AccessFacts, AccelCallTypes
      <4>3. a.op = "write" /\ a.reg \in RegisterNames
        BY <2>1, <2>2, <2>4, <4>2 DEF AccessFacts
      <4>4. registers' = [registers EXCEPT ![a.reg] = a.val]
        BY <1>1, <1>2, <4>3 DEF Accel!Gets, a
      <4>5. CASE j = k + 1
        BY <2>1, <4>3, <4>4, <4>5 DEF RegisterTypes, RegisterNames
      <4>6. CASE j \in 1 .. k
        <5>1. Accesses[j].reg # a.reg
          BY <2>1, <2>2, <2>4, <3>1, <4>1, <4>2, <4>6 DEF AccessFacts
        <5>2. registers[Accesses[j].reg] = Accesses[j].val
          BY <2>1, <3>1, <4>6 DEF Made
        <5>3. Accesses[j].reg \in DOMAIN registers
          BY <2>2, <4>1, <4>2 DEF AccessFacts, RegisterTypes, RegisterNames
        <5> QED
          BY <4>4, <5>1, <5>2, <5>3
      <4> QED
        BY <2>4, <4>5, <4>6
    <3>2. ASSUME accelCall.name = "read", Accel!Measuring'
          PROVE  shadow' \in seen /\ result' \in seen
      <4>1. a.op = "read" /\ (k = 0 => a.reg \in {"lsb", "dout"})
        BY <2>1, <2>2, <2>4, <3>2 DEF AccessFacts
      <4>2. registers' = registers /\ Accel!Measuring
        BY <1>2, <1>3, <3>2, <4>1 DEF Accel!Gets, Accel!Measuring, a
      <4>3. out \in seen
        BY <3>2 DEF AccelHistory
      <4>4. shadow' \in seen
        <5>1. CASE k = 0
          BY <1>1, <1>2, <4>1, <4>2, <4>3, <5>1 DEF Accel!Gets, a
        <5>2. CASE k > 0
          <6>1. shadow \in seen
            BY <2>1, <3>2, <4>2, <5>2 DEF Made
          <6> QED
            BY <1>2, <4>3, <6>1 DEF Accel!Gets
        <5> QED
          BY <2>4, <5>1, <5>2
      <4> QED
        BY <1>2, <4>1, <4>4
    <3>3. UNCHANGED <<accelCall, seen>>
      BY <1>3
    <3> QED
      BY <2>3, <3>1, <3>2, <3>3 DEF Made
  <2> QED
    BY <1>2, <1>3, <2>1, <2>3, <2>4, <2>5 DEF LeftOut
<1> QED
  BY <1>4, <1>5, <1>6, <1>7, <1>8, <1>9, <1>10

LEMMA TimeoutAccelInv ==
    ASSUME Accel!AccelAssumption, AccelInv, Accel!Timeout
    PROVE  AccelInv'
<1> USE DEF AccelInv
<1>1. asOk /\ accesses # <<>> /\ Len(bytes) \in 0 .. 1 /\ accelPc \in {"address", "data"}
  BY DEF Transfer, Accel!Timeout
<1>2. /\ slow' = slow + 1 /\ slow < MaxSlow /\ asOk' = FALSE /\ torn' = torn /\ csn' = csn
      /\ result' = 0 /\ accesses' = Tail(accesses) /\ accelPc' = "idle"
      /\ \/ Accel!Gets(Head(accesses)) /\ bytes' = Append(bytes, accelPc)
         \/ UNCHANGED <<registers, shadow, bytes>>
  BY DEF Accel!Timeout, Accel!GiveUp, Accel!Return
<1>3. UNCHANGED <<kind, powered, accelCall, out, accelCalls, seen>>
  BY DEF Accel!Timeout
<1>4. RegisterTypes' /\ shadow' \in Outputs
  <2>1. CASE Accel!Gets(Head(accesses))
    BY <1>1, <2>1, ByteArrives DEF AccelDataTypes
  <2>2. CASE UNCHANGED <<registers, shadow, bytes>>
    BY <2>2 DEF RegisterTypes, AccelDataTypes
  <2> QED
    BY <1>2, <2>1, <2>2
<1>5. AccelCallTypes'
  BY <1>2, <1>3 DEF AccelCallTypes, Accel!AccelAssumption
<1>6. AccelFlagTypes'
  BY <1>2, <1>3 DEF AccelFlagTypes
<1>7. AccelDataTypes'
  BY <1>2, <1>3, <1>4 DEF AccelDataTypes
<1>8. Transfer'
  BY <1>1, <1>2 DEF Transfer
<1>9. AccelHistory'
  BY <1>2, <1>3 DEF AccelHistory, AccelCallTypes
<1>10. LeftOut'
  BY <1>1, <1>2, <1>3, FailedLeft DEF AccelDataTypes
<1> QED
  BY <1>4, <1>5, <1>6, <1>7, <1>8, <1>9, <1>10

LEMMA MeasureAccelInv ==
    ASSUME Accel!AccelAssumption, AccelInv, NEW v \in Outputs, Accel!Measure(v)
    PROVE  AccelInv'
<1> USE DEF AccelInv, Accel!Measure, Accel!driver, Accel!sensor
<1>1. AccelCallTypes'
  BY DEF AccelCallTypes
<1>2. AccelFlagTypes'
  BY DEF AccelFlagTypes
<1>3. RegisterTypes'
  BY DEF RegisterTypes
<1>4. AccelDataTypes'
  BY DEF AccelDataTypes
<1>5. Transfer' /\ AccelHistory'
  BY DEF Transfer, AccelHistory
<1>6. LeftOut'
  <2>1. Accesses' = Accesses
    BY SameAccesses
  <2>2. \A k : Made(k) => Made(k)'
    BY <2>1 DEF Made, Accel!Measuring
  <2> QED
    BY <2>1, <2>2 DEF LeftOut
<1> QED
  BY <1>1, <1>2, <1>3, <1>4, <1>5, <1>6

LEMMA InitAccelInv ==
    ASSUME Accel!AccelAssumption, Accel!Init
    PROVE  AccelInv
<1> USE DEF Accel!Init, Accel!AccelAssumption
<1>1. AccelCallTypes
  BY DEF AccelCallTypes, Accel!Ranges, Accel!Rates, Accel!Axes
<1>2. AccelFlagTypes
  BY DEF AccelFlagTypes
<1>3. RegisterTypes
  BY DEF RegisterTypes, Accel!Reset
<1>4. AccelDataTypes
  BY DEF AccelDataTypes
<1>5. Transfer /\ AccelHistory
  BY DEF Transfer, AccelHistory
<1>6. LeftOut
  <2>1. Accesses = <<>>
    BY DEF Accesses
  <2> QED
    BY <2>1 DEF LeftOut, Made
<1> QED
  BY <1>1, <1>2, <1>3, <1>4, <1>5, <1>6 DEF AccelInv

LEMMA NextAccelInv ==
    ASSUME Accel!AccelAssumption, AccelInv, [Accel!Next]_(Accel!vars)
    PROVE  AccelInv'
<1>1. CASE UNCHANGED Accel!vars
  <2> USE <1>1 DEF AccelInv, Accel!vars, Accel!driver, Accel!sensor
  <2>1. AccelCallTypes'
    BY DEF AccelCallTypes
  <2>2. AccelFlagTypes'
    BY DEF AccelFlagTypes
  <2>3. RegisterTypes'
    BY DEF RegisterTypes
  <2>4. AccelDataTypes'
    BY DEF AccelDataTypes
  <2>5. Transfer' /\ AccelHistory'
    BY DEF Transfer, AccelHistory
  <2>6. LeftOut'
    <3>1. Accesses' = Accesses
      BY SameAccesses
    <3>2. \A k : Made(k) => Made(k)'
      BY <3>1 DEF Made, Accel!Measuring
    <3> QED
      BY <3>1, <3>2 DEF LeftOut
  <2> QED
    BY <2>1, <2>2, <2>3, <2>4, <2>5, <2>6
<1> QED
  BY <1>1, PluginAccelInv, CallAccelInv, RefuseAccelInv, SelectAccelInv, AddressAccelInv,
     DataAccelInv, TimeoutAccelInv, MeasureAccelInv DEF Accel!Next

\* A call that is over has made all its accesses.
LEMMA AllMade ==
    ASSUME AccelInv, accesses = <<>>, asOk
    PROVE  AccessFacts /\ Made(Len(Accesses))
<1>1. AccessFacts
  BY AccessList DEF AccelInv, AccelDataTypes
<1>2. PICK k \in 0 .. Len(Accesses) : Len(accesses) = Len(Accesses) - k /\ Made(k)
  BY DEF AccelInv, LeftOut
<1>3. k = Len(Accesses)
  BY <1>1, <1>2 DEF AccessFacts
<1> QED
  BY <1>1, <1>2, <1>3

LEMMA AccelInvTwoBytes ==
    ASSUME AccelInv
    PROVE  Accel!TwoBytes
  BY DEF AccelInv, Accel!TwoBytes, Transfer, AccelFlagTypes

LEMMA AccelInvPlugin ==
    ASSUME AccelInv
    PROVE  Accel!PluginRecovers
<1> SUFFICES ASSUME Accel!Returned("plugin"), slow = accelCall.slow
             PROVE  asOk /\ csn /\ ~Accel!Measuring
  BY DEF Accel!PluginRecovers
<1>1. asOk /\ csn /\ accesses = <<>> /\ accelCall.name = "plugin"
  BY DEF AccelInv, AccelHistory, Transfer, Accel!Returned
<1>2. Made(Len(Accesses))
  BY <1>1, AllMade
<1>3. CASE kind = "bma"
  <2> DEFINE a == <<Accel!Write("range", 2), Accel!Write("bwd", 63)>>
             b == <<Accel!Write("pm", Accel!Suspended)>>
  <2>1. Len(Accesses) = 3 /\ Accesses[3] = Accel!Write("pm", Accel!Suspended)
    <3>1. Accesses = a \o b
      BY <1>1, <1>3 DEF Accesses, Accel!Configure, Accel!Suspend
    <3>2. a \in Seq({a[1], a[2], b[1]}) /\ b \in Seq({a[1], a[2], b[1]}) /\ Len(a) = 2
             /\ Len(b) = 1
      OBVIOUS
    <3> QED
      BY <3>1, <3>2, ConcatProperties
  <2>2. registers.pm = Accel!Suspended
    BY <1>2, <2>1 DEF Made, Accel!Write
  <2> QED
    BY <1>1, <1>3, <2>2 DEF Accel!Measuring
<1>4. CASE kind = "cma"
  <2> DEFINE a == [idx \in 1 .. 3 |-> Accel!Write("rstr", idx)]
             b == <<Accel!Write("ctrl", <<0, 2>>)>>
  <2>1. Len(Accesses) = 4 /\ Accesses[4] = Accel!Write("ctrl", <<0, 2>>)
    <3>1. Accesses = a \o b
      BY <1>1, <1>4 DEF Accesses, Accel!Configure, Accel!Suspend
    <3>2. a \in Seq({a[1], a[2], a[3], b[1]}) /\ b \in Seq({a[1], a[2], a[3], b[1]})
             /\ Len(a) = 3 /\ Len(b) = 1
      OBVIOUS
    <3> QED
      BY <3>1, <3>2, ConcatProperties
  <2>2. registers.ctrl = <<0, 2>>
    BY <1>2, <2>1 DEF Made, Accel!Write
  <2> QED
    BY <1>1, <1>4, <2>2 DEF Accel!Measuring
<1> QED
  BY <1>3, <1>4 DEF AccelInv, AccelDataTypes, Accel!Kinds

LEMMA AccelInvEnable ==
    ASSUME AccelInv
    PROVE  Accel!EnableWhole
<1> SUFFICES ASSUME Accel!Returned("enable"), asOk
             PROVE  Accel!Measuring /\ Accel!Range = accelCall.range
                       /\ Accel!Rate >= Accel!Least(accelCall.rate)
  BY DEF Accel!EnableWhole
<1>1. accesses = <<>> /\ accelCall.name = "enable" /\ accelCall.range \in Accel!Ranges
         /\ accelCall.rate \in Accel!Rates
  BY DEF AccelInv, AccelCallTypes, Accel!Returned
<1>2. Made(Len(Accesses))
  BY <1>1, AllMade
<1>3. CASE kind = "bma"
  <2>1. Accesses = <<Accel!Write("range", accelCall.range), Accel!Write("bwd",
           Accel!Bandwidth(accelCall.rate)), Accel!Write("pm",
              Accel!SleepPhase(accelCall.rate))>>
    BY <1>1, <1>3 DEF Accesses, Accel!Enable, Accel!BmaEnable
  <2>2. registers.range = accelCall.range /\ registers.bwd = Accel!Bandwidth(accelCall.rate)
           /\ registers.pm = Accel!SleepPhase(accelCall.rate)
    BY <1>2, <2>1 DEF Made, Accel!Write
  <2>3. Accel!Measuring /\ Accel!Range = accelCall.range
    BY <1>1, <1>3, <2>2 DEF Accel!Measuring, Accel!Range, Accel!SleepPhase, Accel!Rates,
       Accel!Suspended
  <2>4. Accel!Rate >= Accel!Least(accelCall.rate)
    <3>1. CASE accelCall.rate = "LOW"
      <4>1. registers.bwd = 16 /\ registers.pm = 25 /\ Accel!Least(accelCall.rate) = 30
        BY <2>2, <3>1 DEF Accel!Bandwidth, Accel!SleepPhase, Accel!Least
      <4>2. Accel!Rate = 31
        BY <1>3, <4>1 DEF Accel!Rate, Accel!Suspended
      <4> QED
        BY <4>1, <4>2
    <3>2. CASE accelCall.rate = "MED"
      <4>1. registers.bwd = 63 /\ registers.pm = 6 /\ Accel!Least(accelCall.rate) = 100
        BY <2>2, <3>2 DEF Accel!Bandwidth, Accel!SleepPhase, Accel!Least
      <4>2. Accel!Rate = 125
        BY <1>3, <4>1 DEF Accel!Rate, Accel!Suspended
      <4> QED
        BY <4>1, <4>2
    <3>3. CASE accelCall.rate = "HIGH"
      <4>1. registers.bwd = 250 /\ registers.pm = 2 /\ Accel!Least(accelCall.rate) = 400
        BY <2>2, <3>3 DEF Accel!Bandwidth, Accel!SleepPhase, Accel!Least
      <4>2. Accel!Rate = 500
        BY <1>3, <4>1 DEF Accel!Rate, Accel!Suspended
      <4> QED
        BY <4>1, <4>2
    <3> QED
      BY <1>1, <3>1, <3>2, <3>3 DEF Accel!Rates
  <2> QED
    BY <2>3, <2>4
<1>4. CASE kind = "cma"
  <2>1. Accesses = <<Accel!Write("ctrl", <<Accel!CmaMode(accelCall.range, accelCall.rate),
           accelCall.range>>)>>
    BY <1>1, <1>4 DEF Accesses, Accel!Enable
  <2>2. registers.ctrl = <<Accel!CmaMode(accelCall.range, accelCall.rate), accelCall.range>>
    BY <1>2, <2>1 DEF Made, Accel!Write
  <2>3. /\ Accel!CmaMode(accelCall.range, accelCall.rate) \in {40, 100, 400}
        /\ Accel!CmaMode(accelCall.range, accelCall.rate) >= Accel!Least(accelCall.rate)
    BY <1>1 DEF Accel!CmaMode, Accel!Least, Accel!Rates
  <2> QED
    BY <1>4, <2>2, <2>3 DEF Accel!Measuring, Accel!Range, Accel!Rate
<1> QED
  BY <1>3, <1>4 DEF AccelInv, AccelDataTypes, Accel!Kinds

LEMMA AccelInvFresh ==
    ASSUME Accel!AccelAssumption, Accel!Negatable, AccelInv
    PROVE  Accel!FreshSample
<1> SUFFICES ASSUME Accel!Returned("read"), asOk, Accel!Measuring
             PROVE  Accel!Turned(result) \in {Accel!Along(v) : v \in seen}
  BY DEF Accel!FreshSample
<1>1. accesses = <<>> /\ accelCall.name = "read" /\ powered
  BY DEF AccelInv, Transfer, Accel!Returned
<1>2. Made(Len(Accesses)) /\ Len(Accesses) > 0
  BY <1>1, AllMade DEF AccessFacts
<1>3. result \in seen
  BY <1>1, <1>2 DEF Made
<1>4. result \in 0 .. 255 /\ result # 128
  BY <1>3 DEF Accel!AccelAssumption, Accel!Negatable, AccelInv, AccelDataTypes
<1>5. Accel!SignedChar(-Accel!SignedChar(result)) = -Accel!SignedChar(result)
  BY <1>4 DEF Accel!SignedChar
<1>6. Accel!Turned(result) = Accel!Along(result)
  BY <1>5 DEF Accel!Turned, Accel!Along
<1> QED
  BY <1>3, <1>6

(***************************************************************************)
(* The idle time (IdleTime): the measured time is the real one and the     *)
(* remainders cut off at each place, at most three of them.                *)
(***************************************************************************)

IdleTypes ==
    /\ idlePc \in {"start", "read", "idle", "asleep", "stop", "get", "disable"}
    /\ reg \in 0 .. Top /\ flag \in BOOLEAN /\ ints \in BOOLEAN
    /\ counter \in 0 .. TimerSize - 1 /\ overflow \in 0 .. TimerSize - 1
    /\ total \in Nat
    /\ loops \in 0 .. MaxLoops /\ awake \in 0 .. MaxAwake /\ time \in 0 .. MaxIdleTime
    /\ real \in 0 .. time

\* Where interrupts are enabled.
IdleEnabled ==
    /\ idlePc \in {"start", "read"} => ~ints
    /\ idlePc \in {"asleep", "stop", "get", "disable"} => ints
    /\ idlePc = "read" => overflow = 0

IdlePending == IF flag THEN 1 ELSE 0

\* The register has fallen to 0 since the processor was last awake.
IdleFallen == reg <= awake

\* While the idle time is measured: the turns of the register, and how many of
\* them, or of one that was pending before, were added.
IdleMeasuring(w, n) ==
    /\ counter <= Top
    /\ reg - counter = real - w * (Top + 1)
    /\ overflow = n * Top
    /\ n + IdlePending - w \in {0, 1}
    /\ flag /\ n + 1 = w => IdleFallen
    /\ w = 2 => IdleFallen
    /\ idlePc = "idle" => w \in {0, 1} /\ (w = 1 => IdleFallen)
    /\ idlePc = "asleep" => IF flag THEN IdleFallen ELSE w \in {0, 1}

\* When it was measured, one more turn may be added.
IdleEnded(w, n) ==
    /\ counter = (real - w * (Top + 1)) % TimerSize
    /\ real >= w * (Top + 1) - Top
    /\ overflow = n * Top
    /\ n + IdlePending - w \in {0, 1, 2}
    /\ n >= w
    /\ n + IdlePending = w + 2 => IdleFallen

IdleInv ==
    /\ IdleTypes
    /\ IdleEnabled
    /\ idlePc \in {"idle", "asleep", "stop"} =>
          \E w \in 0 .. 2, n \in 0 .. 3 : IdleMeasuring(w, n)
    /\ idlePc = "get" => \E w \in 0 .. 2, n \in 0 .. 4 : IdleEnded(w, n)

-----------------------------------------------------------------------------
LEMMA ItsRemainder ==
    ASSUME NEW C \in Nat \ {0}, NEW q \in Int, NEW r \in 0..C - 1
    PROVE  (C * q + r) % C = r
  BY SMT

LEMMA ItsRange ==
    ASSUME NEW C \in Nat \ {0}, NEW x \in Int
    PROVE  x % C \in 0..C - 1
  BY SMT

LEMMA IdleRemainders ==
    ASSUME NEW C \in Nat \ {0}, NEW x \in Int
    PROVE  /\ x \in 0..C - 1 => x % C = x
           /\ x \in -C..-1 => x % C = x + C
           /\ x \in C..2 * C - 1 => x % C = x - C
<1>2. x \in 0..C - 1 => x % C = x
  BY ItsRemainder, x = C * 0 + x
<1>3. x \in -C..-1 => x % C = x + C
  BY ItsRemainder, x = C * (-1) + (x + C)
<1>4. x \in C..2 * C - 1 => x % C = x - C
  BY ItsRemainder, x = C * 1 + (x - C)
<1> QED
  BY <1>2, <1>3, <1>4

\* What is subtracted in a word, and added again, is not lost.
LEMMA ThereAndBack ==
    ASSUME NEW C \in Nat \ {0}, NEW x \in -C .. C - 1, NEW o \in 0 .. C - 1,
              x + o \in 0 .. C - 1
    PROVE  ((x % C) + o) % C = x + o
<1>1. CASE x >= 0
  <2>0. x \in 0 .. C - 1
    BY <1>1
  <2>1. x % C = x
    BY <2>0, IdleRemainders
  <2>2. (x + o) % C = x + o
    BY IdleRemainders
  <2> QED
    BY <2>1, <2>2
<1>2. CASE x < 0
  <2>1. x % C = x + C
    <3>1. C \in Nat \ {0} /\ x \in Int /\ x + C \in 0 .. C - 1 /\ x = C * (-1) + (x + C)
      BY <1>2
    <3> QED
      BY <3>1, ItsRemainder
  <2>2. x + C + o \in C .. 2 * C - 1
    OBVIOUS
  <2> DEFINE y == x + C + o
  <2>3. y % C = y - C
    <3> HIDE DEF y
    <3>1. y \in C .. 2 * C - 1 /\ y \in Int
      BY <2>2 DEF y
    <3> QED
      BY <3>1, IdleRemainders
  <2> QED
    BY <2>1, <2>3
<1> QED
  BY <1>1, <1>2

\* A word holds the turns of a measurement.
LEMMA IdleSizes ==
    ASSUME Idle!IdleAssumption
    PROVE  /\ Top \in Nat /\ MaxIdleTime \in Nat /\ TimerSize \in Nat \ {0}
           /\ MaxAwake \in Nat /\ MaxAwake < Top
           /\ TimerSize > 2 * Top + 2 + MaxIdleTime
           /\ MaxIdleTime >= 1 => TimerSize > 4 * Top + 4
<1>1. Top \in Nat /\ MaxIdleTime \in Nat /\ TimerSize \in Nat /\ MaxAwake \in Nat
         /\ MaxAwake < Top
  BY DEF Idle!IdleAssumption
<1>2. 2 * (Top + 1) * (MaxIdleTime + 1)
         = 2 * (Top * MaxIdleTime) + 2 * Top + 2 * MaxIdleTime + 2
  BY <1>1
<1>3. Top * MaxIdleTime \in Nat /\ (MaxIdleTime >= 1 => Top * MaxIdleTime >= Top)
  BY <1>1
<1> QED
  BY <1>1, <1>2, <1>3 DEF Idle!IdleAssumption

LEMMA IdleTypesStep ==
    ASSUME Idle!IdleAssumption, IdleInv, Idle!Next
    PROVE  IdleTypes'
<1> USE IdleSizes
<1>0. IdleTypes /\ IdleEnabled
  BY DEF IdleInv
<1>1. CASE Idle!Count
  BY <1>0, <1>1 DEF IdleTypes, Idle!Count
<1>2. CASE Idle!Prologue
  <2>1. (overflow + Top) % TimerSize \in 0 .. TimerSize - 1
    <3>1. overflow + Top \in Int
      BY <1>0 DEF IdleTypes
    <3> QED
      BY <3>1, ItsRange
  <2> QED
    BY <1>0, <1>2, <2>1 DEF IdleTypes, Idle!Prologue, Idle!Turn
<1>3. CASE Idle!Interrupt
  BY <1>0, <1>3 DEF IdleTypes, Idle!Interrupt
<1>4. CASE Idle!Start
  BY <1>0, <1>4, Idle!IdleAssumption DEF IdleTypes, Idle!Start, Idle!IdleAssumption
<1>5. CASE Idle!ReadStart
  BY <1>0, <1>5 DEF IdleTypes, Idle!ReadStart
<1>6. CASE Idle!Enable
  BY <1>0, <1>6 DEF IdleTypes, Idle!Enable
<1>7. CASE Idle!Sleep
  BY <1>0, <1>7 DEF IdleTypes, Idle!Sleep
<1>8. CASE Idle!Stop
  <2>1. (reg - counter) % TimerSize \in 0 .. TimerSize - 1
    <3>1. reg - counter \in Int
      BY <1>0 DEF IdleTypes
    <3> QED
      BY <3>1, ItsRange
  <2> QED
    BY <1>0, <1>8, <2>1 DEF IdleTypes, Idle!Stop, Idle!Elapsed
<1>9. CASE Idle!Get
  <2>1. ((counter + overflow) % TimerSize) \div Divisor \in Nat
    <3>0. counter + overflow \in Int
      BY <1>0 DEF IdleTypes
    <3>1. (counter + overflow) % TimerSize \in 0 .. TimerSize - 1
      BY <3>0, ItsRange
    <3>2. Divisor \in Nat \ {0}
      BY DEF Idle!IdleAssumption
    <3> QED
      BY <3>1, <3>2, SMT
  <2> QED
    BY <1>0, <1>9, <2>1 DEF IdleTypes, Idle!Get
<1>10. CASE Idle!Disable
  BY <1>0, <1>10 DEF IdleTypes, Idle!Disable
<1> QED
  BY <1>1, <1>2, <1>3, <1>4, <1>5, <1>6, <1>7, <1>8, <1>9, <1>10 DEF Idle!Next

LEMMA IdleEnabledStep ==
    ASSUME IdleInv, Idle!Next
    PROVE  IdleEnabled'
  BY DEF IdleInv, IdleTypes, IdleEnabled, Idle!Next, Idle!Count, Idle!Prologue,
     Idle!Interrupt, Idle!Start, Idle!ReadStart, Idle!Enable, Idle!Sleep, Idle!Stop, Idle!Get,
     Idle!Disable

LEMMA IdleMeasuringStep ==
    ASSUME Idle!IdleAssumption, IdleInv, Idle!Next, idlePc \in {"idle", "asleep", "stop"},
           idlePc' \in {"idle", "asleep", "stop"}
    PROVE  \E w \in 0 .. 2, n \in 0 .. 3 : IdleMeasuring(w, n)'
<1> USE IdleSizes
<1>0. IdleTypes /\ IdleEnabled
  BY DEF IdleInv
<1>a. PICK w \in 0 .. 2, n \in 0 .. 3 : IdleMeasuring(w, n)
  BY DEF IdleInv
<1>1. CASE Idle!Count
  <2>1. CASE reg = Top
    <3>1. w \in {0, 1}
      BY <1>0, <1>a, <1>1, <2>1 DEF IdleMeasuring, Idle!Count, IdleTypes, IdleEnabled,
         IdleFallen, IdlePending
    <3>2. (w + 1) * (Top + 1) = w * (Top + 1) + Top + 1
      BY <3>1
    <3>3. reg' - counter' = real' - (w + 1) * (Top + 1)
      BY <1>0, <1>a, <1>1, <2>1, <3>1, <3>2 DEF IdleMeasuring, Idle!Count, IdleTypes
    <3>0. reg' = 0 /\ flag' /\ idlePc' = idlePc /\ counter' = counter /\ overflow' = overflow
      BY <1>0, <1>1, <2>1 DEF Idle!Count, IdleTypes
    <3>9. awake' \in Nat
      BY <1>0, <1>1 DEF Idle!Count, IdleTypes
    <3>4. counter' <= Top /\ overflow' = n * Top
      BY <1>a, <3>0 DEF IdleMeasuring
    <3>5. n + 1 - (w + 1) \in {0, 1}
      BY <1>0, <1>a, <1>1, <2>1, <3>1 DEF IdleMeasuring, Idle!Count, IdleTypes,
         IdleEnabled, IdleFallen, IdlePending
    <3>6. IdleFallen'
      BY <3>0, <3>9 DEF IdleFallen
    <3>7. idlePc = "idle" => w + 1 \in {0, 1}
      BY <1>0, <1>a, <1>1, <2>1, <3>1 DEF IdleMeasuring, Idle!Count, IdleTypes,
         IdleEnabled, IdleFallen
    <3>8. w + 1 \in 0 .. 2 /\ IdleMeasuring(w + 1, n)'
      BY <3>0, <3>1, <3>3, <3>4, <3>5, <3>6, <3>7 DEF IdleMeasuring, IdlePending
    <3> QED
      BY <3>8
  <2>2. CASE reg # Top
    <3>1. IdleMeasuring(w, n)'
      BY <1>0, <1>a, <1>1, <2>2 DEF IdleMeasuring, Idle!Count, IdleTypes, IdleEnabled,
         IdleFallen, IdlePending
    <3> QED
      BY <3>1
  <2> QED
    BY <2>1, <2>2
<1>2. CASE Idle!Prologue
  <2>1. n + 1 \in 0 .. 3
    BY <1>0, <1>a, <1>2 DEF IdleMeasuring, Idle!Prologue, IdleTypes, IdlePending
  <2>0. w * (Top + 1) \in Int /\ (w >= 1 => w * (Top + 1) >= Top + 1)
    BY IdleSizes
  <2>2. w >= 1 => real >= 1
    BY <1>0, <1>a, <2>0 DEF IdleMeasuring, IdleTypes
  <2>3. (n + 1) * Top < TimerSize
    <3>1. CASE n <= 1
      BY <1>a, <3>1
    <3>2. CASE n = 2
      BY <1>0, <1>a, <1>2, <2>2, <3>2 DEF IdleMeasuring, Idle!Prologue, IdleTypes,
         IdlePending
    <3> QED
      BY <2>1, <3>1, <3>2
  <2>4. (overflow + Top) % TimerSize = (n + 1) * Top
    <3>1. overflow + Top = (n + 1) * Top
      BY <1>a DEF IdleMeasuring
    <3>2. (n + 1) * Top \in 0 .. TimerSize - 1
      BY <2>3
    <3> QED
      BY <3>1, <3>2, IdleRemainders, (n + 1) * Top \in Int
  <2>5. IdleMeasuring(w, n + 1)'
    BY <1>0, <1>a, <1>2, <2>1, <2>4 DEF IdleMeasuring, Idle!Prologue, Idle!Turn,
       IdleTypes, IdleEnabled, IdleFallen, IdlePending
  <2> QED
    BY <2>1, <2>5
<1>3. CASE Idle!Interrupt
  BY <1>0, <1>a, <1>3 DEF IdleMeasuring, Idle!Interrupt, IdleTypes, IdleEnabled,
     IdleFallen, IdlePending
<1>4. CASE Idle!Enable
  BY <1>0, <1>a, <1>4 DEF IdleMeasuring, Idle!Enable, IdleTypes, IdleEnabled,
     IdleFallen, IdlePending
<1>5. CASE Idle!Sleep
  BY <1>0, <1>a, <1>5 DEF IdleMeasuring, Idle!Sleep, Idle!Instruction, IdleTypes,
     IdleEnabled, IdleFallen, IdlePending
<1> QED
  BY <1>1, <1>2, <1>3, <1>4, <1>5 DEF Idle!Next, Idle!Start, Idle!ReadStart, Idle!Stop,
     Idle!Get, Idle!Disable

LEMMA IdleEndedStep ==
    ASSUME Idle!IdleAssumption, IdleInv, Idle!Next, idlePc = "get", idlePc' = "get"
    PROVE  \E w \in 0 .. 2, n \in 0 .. 4 : IdleEnded(w, n)'
<1> USE IdleSizes
<1>0. IdleTypes /\ IdleEnabled
  BY DEF IdleInv
<1>a. PICK w \in 0 .. 2, n \in 0 .. 4 : IdleEnded(w, n)
  BY DEF IdleInv
<1>1. CASE Idle!Count
  <2>1. w * (Top + 1) \in Int
    OBVIOUS
  <2>2. counter' = (real - w * (Top + 1)) % TimerSize /\ real' = real /\ overflow' = overflow
    BY <1>a, <1>1 DEF IdleEnded, Idle!Count
  <2>3. n + IdlePending' - w \in {0, 1, 2} /\ (n + IdlePending' = w + 2 => IdleFallen')
    BY <1>0, <1>a, <1>1 DEF IdleEnded, Idle!Count, IdleTypes, IdleFallen, IdlePending
  <2>4. IdleEnded(w, n)'
    BY <1>a, <2>2, <2>3 DEF IdleEnded
  <2> QED
    BY <2>4
<1>2. CASE Idle!Prologue
  <2>1. n + 1 \in 0 .. 4
    BY <1>0, <1>a, <1>2 DEF IdleEnded, Idle!Prologue, IdleTypes, IdlePending
  <2>2. w >= 1 => real >= 1
    BY <1>0, <1>a DEF IdleEnded, IdleTypes
  <2>3. (n + 1) * Top < TimerSize
    <3>1. CASE n <= 1
      BY <1>a, <3>1
    <3>2. CASE n \in {2, 3}
      <4>1. w >= 1
        BY <1>0, <1>a, <1>2, <3>2 DEF IdleEnded, Idle!Prologue, IdleTypes, IdlePending
      <4>2. MaxIdleTime >= 1
        BY <1>0, <2>2, <4>1 DEF IdleTypes
      <4> QED
        BY <3>2, <4>2
    <3> QED
      BY <2>1, <3>1, <3>2
  <2>4. (overflow + Top) % TimerSize = (n + 1) * Top
    <3>1. overflow + Top = (n + 1) * Top
      BY <1>a DEF IdleEnded
    <3>2. (n + 1) * Top \in 0 .. TimerSize - 1
      BY <2>3
    <3> QED
      BY <3>1, <3>2, IdleRemainders, (n + 1) * Top \in Int
  <2>5. IdleEnded(w, n + 1)'
    BY <1>0, <1>a, <1>2, <2>1, <2>4 DEF IdleEnded, Idle!Prologue, Idle!Turn, IdleTypes,
       IdleFallen, IdlePending
  <2> QED
    BY <2>1, <2>5
<1> QED
  BY <1>1, <1>2 DEF Idle!Next, Idle!Interrupt, Idle!Start, Idle!ReadStart, Idle!Enable,
     Idle!Sleep, Idle!Stop, Idle!Get, Idle!Disable

LEMMA InitIdleInv ==
    ASSUME Idle!IdleAssumption, Idle!Init
    PROVE  IdleInv
<1> USE IdleSizes
<1>1. MaxLoops \in Nat
  BY DEF Idle!IdleAssumption
<1>2. IdleTypes
  <2>1. time \in 0 .. MaxIdleTime /\ awake \in 0 .. MaxAwake /\ loops \in 0 .. MaxLoops
           /\ real \in 0 .. time
    BY <1>1 DEF Idle!Init
  <2>2. counter \in 0 .. TimerSize - 1 /\ overflow \in 0 .. TimerSize - 1
    BY DEF Idle!Init
  <2> QED
    BY <2>1, <2>2 DEF Idle!Init, IdleTypes
<1> QED
  BY <1>2 DEF Idle!Init, IdleInv, IdleEnabled

LEMMA NextIdleInv ==
    ASSUME Idle!IdleAssumption, IdleInv, [Idle!Next]_(Idle!vars)
    PROVE  IdleInv'
<1> USE IdleSizes
<1>0. IdleTypes /\ IdleEnabled
  BY DEF IdleInv
<1>1. CASE Idle!Next
  <2>1. IdleTypes' /\ IdleEnabled'
    BY <1>1, IdleTypesStep, IdleEnabledStep
  <2>2. idlePc' \in {"idle", "asleep", "stop"} => \E w \in 0 .. 2,
           n \in 0 .. 3 : IdleMeasuring(w, n)'
    <3>1. CASE Idle!ReadStart
      <4>1. IdleMeasuring(0, 0)'
        BY <1>0, <3>1 DEF Idle!ReadStart, IdleMeasuring, IdleTypes, IdleEnabled,
           IdlePending
      <4> QED
        BY <4>1
    <3>2. CASE ~Idle!ReadStart /\ idlePc' \in {"idle", "asleep", "stop"}
      <4>1. idlePc \in {"idle", "asleep", "stop"}
        BY <1>1, <3>2 DEF Idle!Next, Idle!Count, Idle!Prologue, Idle!Interrupt,
           Idle!Start, Idle!Enable, Idle!Sleep, Idle!Stop, Idle!Get, Idle!Disable
      <4> QED
        BY <1>1, <3>2, <4>1, IdleMeasuringStep
    <3> QED
      BY <3>1, <3>2
  <2>3. idlePc' = "get" => \E w \in 0 .. 2, n \in 0 .. 4 : IdleEnded(w, n)'
    <3>1. CASE Idle!Stop
      <4>1. PICK w \in 0 .. 2, n \in 0 .. 3 : IdleMeasuring(w, n)
        BY <3>1 DEF IdleInv, Idle!Stop
      <4>2. ~flag
        BY <1>0, <3>1 DEF Idle!Stop, Idle!Instruction, IdleEnabled
      <4>3. counter' = (real - w * (Top + 1)) % TimerSize
        BY <3>1, <4>1 DEF Idle!Stop, Idle!Elapsed, IdleMeasuring
      <4>4. real >= w * (Top + 1) - Top
        BY <1>0, <4>1 DEF IdleMeasuring, IdleTypes
      <4>5. IdleEnded(w, n)'
        BY <1>0, <3>1, <4>1, <4>2, <4>3, <4>4 DEF Idle!Stop, IdleEnded, IdleMeasuring,
           IdleTypes, IdlePending
      <4> QED
        BY <4>5
    <3>2. CASE ~Idle!Stop /\ idlePc' = "get"
      <4>1. idlePc = "get"
        BY <1>1, <3>2 DEF Idle!Next, Idle!Count, Idle!Prologue, Idle!Interrupt,
           Idle!Start, Idle!ReadStart, Idle!Enable, Idle!Sleep, Idle!Get, Idle!Disable
      <4> QED
        BY <1>1, <3>2, <4>1, IdleEndedStep
    <3> QED
      BY <3>1, <3>2
  <2> QED
    BY <2>1, <2>2, <2>3 DEF IdleInv
<1>2. CASE UNCHANGED Idle!vars
  BY <1>2 DEF Idle!vars, IdleInv, IdleTypes, IdleEnabled, IdleMeasuring, IdleEnded,
     IdlePending, IdleFallen
<1> QED
  BY <1>1, <1>2

\* The idle time measured is off by two turns at most.
LEMMA IdleInvWithin ==
    ASSUME Idle!IdleAssumption, IdleInv
    PROVE  Idle!WithinTwoTurns
<1> SUFFICES ASSUME idlePc = "get"
             PROVE  Idle!Measure - real \in -2 .. 2 * Top
  BY DEF Idle!WithinTwoTurns
<1> USE IdleSizes
<1>0. IdleTypes
  BY DEF IdleInv
<1>1. PICK w \in 0 .. 2, n \in 0 .. 4 : IdleEnded(w, n)
  BY DEF IdleInv
<1>2. n - w \in 0 .. 2
  BY <1>1, <1>0 DEF IdleEnded, IdlePending, IdleTypes
<1>3. real - w * (Top + 1) \in -TimerSize .. TimerSize - 1
  <2>1. w * (Top + 1) \in Nat /\ real >= w * (Top + 1) - Top
    BY <1>1 DEF IdleEnded
  <2> QED
    BY <2>1, <1>0 DEF IdleTypes
<1>4. overflow \in 0 .. TimerSize - 1
  BY <1>0 DEF IdleTypes
<1>p. w * (Top + 1) = w * Top + w /\ n * Top = (n - w) * Top + w * Top
  OBVIOUS
<1>q. w * Top \in Int /\ (n - w) * Top \in Int
  OBVIOUS
<1>5. real - w * (Top + 1) + overflow = real + (n - w) * Top - w
  BY <1>0, <1>1, <1>p, <1>q DEF IdleEnded, IdleTypes
<1>6. (n - w) * Top - w \in -2 .. 2 * Top
  BY <1>1, <1>2
<1>7. real + (n - w) * Top - w \in 0 .. TimerSize - 1
  <2>1. real + (n - w) * Top - w >= 0
    <3>1. CASE w = 0
      BY <1>0, <1>2, <3>1, <1>q DEF IdleTypes
    <3>2. CASE w >= 1
      <4>1. (w - 1) * Top >= 0 /\ w * Top = (w - 1) * Top + Top /\ (n - w) * Top >= 0
        BY <1>2, <3>2
      <4>2. real >= w * Top + w - Top
        BY <1>1, <1>p, <1>q DEF IdleEnded
      <4> QED
        BY <1>0, <4>1, <4>2, <1>q DEF IdleTypes
    <3> QED
      BY <3>1, <3>2
  <2>2. real + (n - w) * Top - w < TimerSize
    BY <1>0, <1>6, <1>q DEF IdleTypes
  <2> QED
    BY <2>1, <2>2, <1>0, <1>q DEF IdleTypes
<1>8. Idle!Measure = real + (n - w) * Top - w
  BY <1>1, <1>3, <1>4, <1>5, <1>7, ThereAndBack DEF Idle!Measure, IdleEnded
<1> QED
  BY <1>0, <1>6, <1>8 DEF IdleTypes

LEMMA IdleInvType ==
    ASSUME Idle!IdleAssumption, IdleInv
    PROVE  Idle!TypeOK
  BY IdleSizes DEF IdleInv, IdleTypes, Idle!TypeOK

(***************************************************************************)
(* The printer (RingBuffer): what was printed is what was sent, then       *)
(* register, buffer and hand; the buffer's slots are one sequence.         *)
(***************************************************************************)

UartCalling == {"wait", "off", "test", "send", "store", "advance"}
UartLabels == UartCalling \cup {"idle", "on", "flush"}

UartTypes ==
    /\ txbuf \in [Uart!Indices -> Uart!Bytes \cup {Uart!None}]
    /\ readIdx \in Uart!Indices /\ writeIdx \in Uart!Indices
    /\ txie \in BOOLEAN /\ txreg \in Uart!Bytes \cup {Uart!None}
    /\ uartT \in [{"a"} -> Uart!Indices] /\ uartC \in [{"a"} -> Uart!Bytes \cup {Uart!None}]
    /\ uartPc \in [{"a"} -> UartLabels]
    /\ sent \in Seq(Uart!Bytes) /\ put \in Seq(Uart!Bytes)

\* Where the one writer is in putc(), and what it knows there.
UartPlaces ==
    /\ uartPc["a"] \in UartCalling => uartT["a"] = Uart!After(writeIdx)
    /\ uartPc["a"] \in UartCalling \ {"wait"} => uartT["a"] # readIdx
    /\ uartPc["a"] \in UartCalling \cup {"on"} => uartC["a"] \in Uart!Bytes
    /\ uartPc["a"] \in {"test", "send", "store", "advance", "on"} => ~txie
    /\ uartPc["a"] = "send" => readIdx = writeIdx /\ txreg = Uart!None
    /\ uartPc["a"] = "advance" => txbuf[writeIdx] = uartC["a"]

RingInv ==
    /\ UartTypes /\ UartPlaces
    /\ Uart!Buffered \in Seq(Uart!Bytes)
    /\ sent \o Uart!InRegister \o Uart!Buffered \o Uart!InHand("a") = put

-----------------------------------------------------------------------------
UartCount(r, idx) == IF idx >= r THEN idx - r ELSE idx + BufferSize - r

LEMMA RingOver ==
    ASSUME NEW C \in Nat \ {0}, NEW x \in 0..2 * C - 1
    PROVE  x % C = IF x < C THEN x ELSE x - C
<1>1. \A q \in Int, r \in 0..C - 1 : (C * q + r) % C = r
  BY SMT
<1>2. CASE x < C
  BY <1>1, <1>2, x = C * 0 + x
<1>3. CASE x >= C
  BY <1>1, <1>3, x = C * 1 + (x - C)
<1> QED
  BY <1>2, <1>3

LEMMA NextIndex ==
    ASSUME Uart!RingAssumption, NEW idx \in Uart!Indices
    PROVE  /\ Uart!After(idx) \in Uart!Indices
           /\ Uart!After(idx) = IF idx + 1 = BufferSize THEN 0 ELSE idx + 1
<1> DEFINE x == idx + 1
<1>1. BufferSize \in Nat \ {0} /\ idx \in 0..BufferSize - 1
  BY DEF Uart!Indices, Uart!RingAssumption
<1>2. x \in 0 .. 2 * BufferSize - 1 /\ x \in Nat /\ x <= BufferSize
  BY <1>1
<1> HIDE DEF x
<1>3. x % BufferSize = IF x < BufferSize THEN x ELSE x - BufferSize
  BY <1>1, <1>2, RingOver
<1>4. x % BufferSize \in 0 .. BufferSize - 1 /\ x % BufferSize = IF x = BufferSize THEN 0
         ELSE x
  BY <1>1, <1>2, <1>3
<1> QED
  BY <1>4 DEF x, Uart!After, Uart!Indices

\* What is in the buffer, without the remainders.
UartSlot(r, k) == IF r + k - 1 < BufferSize THEN r + k - 1 ELSE r + k - 1 - BufferSize
LEMMA InBuffer ==
    Uart!RingAssumption /\ UartTypes => Uart!Buffered = [k \in 1..UartCount(readIdx,
       writeIdx) |-> txbuf[UartSlot(readIdx, k)]]
<1> SUFFICES ASSUME Uart!RingAssumption, UartTypes
             PROVE  Uart!Buffered = [k \in 1..UartCount(readIdx,
                       writeIdx) |-> txbuf[UartSlot(readIdx, k)]]
  OBVIOUS
<1> DEFINE n == UartCount(readIdx, writeIdx)
<1>1. BufferSize \in Nat \ {0} /\ readIdx \in 0 .. BufferSize - 1
         /\ writeIdx \in 0 .. BufferSize - 1
  BY DEF Uart!RingAssumption, UartTypes, Uart!Indices
<1>2. n \in 0 .. BufferSize - 1
  BY <1>1 DEF UartCount
<1>3. (writeIdx + BufferSize - readIdx) % BufferSize = n
  <2>1. writeIdx + BufferSize - readIdx \in 0 .. 2 * BufferSize - 1
    BY <1>1
  <2> DEFINE x == writeIdx + BufferSize - readIdx
  <2>2. x % BufferSize = IF x < BufferSize THEN x ELSE x - BufferSize
    BY <1>1, <2>1, RingOver
  <2> QED
    BY <1>1, <2>2 DEF UartCount
<1>4. ASSUME NEW k \in 1..n
      PROVE  (readIdx + k - 1) % BufferSize = UartSlot(readIdx, k)
  <2> DEFINE x == readIdx + k - 1
  <2>1. x \in 0 .. 2 * BufferSize - 1
    BY <1>1, <1>2
  <2>2. x % BufferSize = IF x < BufferSize THEN x ELSE x - BufferSize
    BY <1>1, <2>1, RingOver
  <2>3. UartSlot(readIdx, k) = IF x < BufferSize THEN x ELSE x - BufferSize
    BY <1>1, <1>2, <2>1 DEF UartSlot
  <2> HIDE DEF x
  <2>4. x % BufferSize = UartSlot(readIdx, k)
    BY <2>2, <2>3
  <2> QED
    BY <2>4 DEF x
<1> HIDE DEF n
<1> QED
  BY <1>3, <1>4 DEF Uart!Buffered, n

LEMMA InBufferNext ==
    (Uart!RingAssumption /\ UartTypes)' =>
        Uart!Buffered' = [k \in 1..UartCount(readIdx',
           writeIdx') |-> txbuf'[UartSlot(readIdx', k)]]
<1>1. (Uart!RingAssumption /\ UartTypes)' => (Uart!Buffered = [k \in 1..UartCount(readIdx,
         writeIdx) |-> txbuf[UartSlot(readIdx, k)]])'
  BY InBuffer, PTL
<1> QED
  BY <1>1 DEF UartCount, UartSlot

\* The interrupt takes the oldest byte.
LEMMA TakenOut ==
    ASSUME Uart!RingAssumption, UartTypes, UartTypes', Uart!Buffered \in Seq(Uart!Bytes),
              readIdx # writeIdx,
           readIdx' = Uart!After(readIdx), UNCHANGED <<txbuf, writeIdx>>
    PROVE  /\ txbuf[readIdx] \in Uart!Bytes
           /\ Uart!Buffered' \in Seq(Uart!Bytes)
           /\ Uart!Buffered = <<txbuf[readIdx]>> \o Uart!Buffered'
<1> DEFINE n == UartCount(readIdx, writeIdx)
           m == UartCount(readIdx', writeIdx')
<1>1. BufferSize \in Nat \ {0} /\ readIdx \in 0 .. BufferSize - 1
         /\ writeIdx \in 0 .. BufferSize - 1
  BY DEF Uart!RingAssumption, UartTypes, Uart!Indices
<1>2. readIdx' = IF readIdx + 1 = BufferSize THEN 0 ELSE readIdx + 1
  BY NextIndex DEF UartTypes
<1>3. n \in 1 .. BufferSize - 1 /\ m = n - 1
  BY <1>1, <1>2 DEF UartCount
<1>4. Uart!Buffered = [k \in 1..n |-> txbuf[UartSlot(readIdx, k)]]
  BY InBuffer
<1>5. Uart!Buffered' = [k \in 1..m |-> txbuf[UartSlot(readIdx', k)]]
  BY InBufferNext DEF Uart!RingAssumption
<1>6. \A k \in 1..m : UartSlot(readIdx', k) = UartSlot(readIdx, k + 1)
  BY <1>1, <1>2, <1>3 DEF UartSlot
<1>7. UartSlot(readIdx, 1) = readIdx
  BY <1>1 DEF UartSlot
<1> HIDE DEF n, m
<1>8. \A k \in 1..n : Uart!Buffered[k] \in Uart!Bytes
         /\ Uart!Buffered[k] = txbuf[UartSlot(readIdx, k)]
  <2>1. DOMAIN Uart!Buffered = 1..n
    BY <1>4
  <2>2. Len(Uart!Buffered) = n
    BY <1>3, <2>1, LenProperties
  <2> QED
    BY <1>4, <2>2, ElementOfSeq
<1>9. txbuf[readIdx] \in Uart!Bytes
  BY <1>3, <1>7, <1>8
<1>10. \A k \in 1..m : txbuf[UartSlot(readIdx', k)] \in Uart!Bytes
  BY <1>3, <1>6, <1>8
<1>11. Uart!Buffered' \in Seq(Uart!Bytes) /\ Len(Uart!Buffered') = m
          /\ \A k \in 1..m : Uart!Buffered'[k] = txbuf[UartSlot(readIdx, k + 1)]
  <2>1. m \in Nat
    BY <1>3
  <2>2. Uart!Buffered' \in Seq(Uart!Bytes)
    BY <1>5, <1>10, <2>1
  <2> QED
    BY <1>5, <1>6, <2>1, <2>2
<1>12. <<txbuf[readIdx]>> \in Seq(Uart!Bytes) /\ Len(<<txbuf[readIdx]>>) = 1
  BY <1>9
<1> DEFINE s == <<txbuf[readIdx]>> \o Uart!Buffered'
<1>13. s \in Seq(Uart!Bytes) /\ Len(s) = n
  BY <1>3, <1>11, <1>12, ConcatProperties
<1>14. ASSUME NEW k \in 1..n PROVE s[k] = Uart!Buffered[k]
  <2>1. CASE k = 1
    <3>1. s[k] = <<txbuf[readIdx]>>[1]
      BY <1>3, <1>11, <1>12, <2>1, ConcatProperties
    <3> QED
      BY <1>3, <1>7, <1>8, <2>1, <3>1
  <2>2. CASE k > 1
    <3>1. s[k] = Uart!Buffered'[k - 1]
      BY <1>3, <1>11, <1>12, <2>2, ConcatProperties
    <3>2. k - 1 \in 1..m /\ k - 1 + 1 = k
      BY <1>3, <2>2
    <3>3. Uart!Buffered'[k - 1] = txbuf[UartSlot(readIdx, k)]
      BY <1>11, <3>2
    <3> QED
      BY <1>8, <3>1, <3>3
  <2>3. k = 1 \/ k > 1
    BY <1>3
  <2> QED
    BY <2>1, <2>2, <2>3
<1>15. Len(Uart!Buffered) = n
  BY <1>3, <1>4, LenProperties
<1> HIDE DEF s
<1>16. s = Uart!Buffered
  BY <1>13, <1>14, <1>15, SeqEqual
<1> QED
  BY <1>9, <1>11, <1>16 DEF s

\* A store at writeIdx is not seen ...
LEMMA StoredIn ==
    ASSUME Uart!RingAssumption, UartTypes, UartTypes', NEW b \in Uart!Bytes,
           txbuf' = [txbuf EXCEPT ![writeIdx] = b], UNCHANGED <<readIdx, writeIdx>>
    PROVE  Uart!Buffered' = Uart!Buffered
<1> DEFINE n == UartCount(readIdx, writeIdx)
<1>1. BufferSize \in Nat \ {0} /\ readIdx \in 0 .. BufferSize - 1
         /\ writeIdx \in 0 .. BufferSize - 1
  BY DEF Uart!RingAssumption, UartTypes, Uart!Indices
<1>2. Uart!Buffered = [k \in 1..n |-> txbuf[UartSlot(readIdx, k)]]
  BY InBuffer
<1>3. Uart!Buffered' = [k \in 1..n |-> txbuf'[UartSlot(readIdx, k)]]
  BY InBufferNext DEF Uart!RingAssumption
<1>4. \A k \in 1..n : UartSlot(readIdx, k) \in Uart!Indices /\ UartSlot(readIdx, k) # writeIdx
  BY <1>1 DEF UartSlot, UartCount, Uart!Indices
<1>5. \A k \in 1..n : txbuf'[UartSlot(readIdx, k)] = txbuf[UartSlot(readIdx, k)]
  BY <1>4 DEF UartTypes
<1> QED
  BY <1>2, <1>3, <1>5

\* ... before writeIdx is moved.
LEMMA AdvancedOne ==
    ASSUME Uart!RingAssumption, UartTypes, UartTypes', Uart!Buffered \in Seq(Uart!Bytes),
              txbuf[writeIdx] \in Uart!Bytes,
           writeIdx' = Uart!After(writeIdx), writeIdx' # readIdx, UNCHANGED <<txbuf, readIdx>>
    PROVE  Uart!Buffered' = Uart!Buffered \o <<txbuf[writeIdx]>>
<1> DEFINE n == UartCount(readIdx, writeIdx)
           m == UartCount(readIdx', writeIdx')
<1>1. BufferSize \in Nat \ {0} /\ readIdx \in 0 .. BufferSize - 1
         /\ writeIdx \in 0 .. BufferSize - 1
  BY DEF Uart!RingAssumption, UartTypes, Uart!Indices
<1>2. writeIdx' = IF writeIdx + 1 = BufferSize THEN 0 ELSE writeIdx + 1
  BY NextIndex DEF UartTypes
<1>3. n \in Nat /\ m = n + 1
  BY <1>1, <1>2 DEF UartCount
<1>4. Uart!Buffered = [k \in 1..n |-> txbuf[UartSlot(readIdx, k)]]
  BY InBuffer
<1>5. Uart!Buffered' = [k \in 1..m |-> txbuf[UartSlot(readIdx, k)]]
  BY InBufferNext DEF Uart!RingAssumption
<1>6. UartSlot(readIdx, n + 1) = writeIdx
  BY <1>1 DEF UartSlot, UartCount
<1> HIDE DEF n, m
<1>7. Len(Uart!Buffered) = n
  BY <1>3, <1>4, LenProperties
<1>8. \A k \in 1..n : Uart!Buffered[k] \in Uart!Bytes
         /\ Uart!Buffered[k] = txbuf[UartSlot(readIdx, k)]
  BY <1>4, <1>7, ElementOfSeq
<1> DEFINE e == <<txbuf[writeIdx]>>
           s == Uart!Buffered \o e
<1>9. e \in Seq(Uart!Bytes) /\ Len(e) = 1 /\ e[1] = txbuf[writeIdx]
  OBVIOUS
<1> HIDE DEF e
<1>10. s \in Seq(Uart!Bytes) /\ Len(s) = m
  BY <1>3, <1>7, <1>9, ConcatProperties
<1>11. \A k \in 1..m : txbuf[UartSlot(readIdx, k)] \in Uart!Bytes
  <2>1. \A k \in 1..m : k \in 1..n \/ k = n + 1
    BY <1>3
  <2> QED
    BY <1>6, <1>8, <2>1
<1>12. Uart!Buffered' \in Seq(Uart!Bytes) /\ Len(Uart!Buffered') = m
          /\ \A k \in 1..m : Uart!Buffered'[k] = txbuf[UartSlot(readIdx, k)]
  <2>1. m \in Nat
    BY <1>3
  <2>2. Uart!Buffered' \in Seq(Uart!Bytes)
    BY <1>5, <1>11, <2>1
  <2> QED
    BY <1>5, <2>1, <2>2
<1>13. ASSUME NEW k \in 1..m PROVE Uart!Buffered'[k] = s[k]
  <2>1. CASE k = n + 1
    <3>1. k \in 1..Len(Uart!Buffered) + Len(e) /\ ~(k <= Len(Uart!Buffered))
             /\ k - Len(Uart!Buffered) = 1
      BY <1>3, <1>7, <1>9, <2>1
    <3>2. (Uart!Buffered \o e)[k] = IF k <= Len(Uart!Buffered) THEN Uart!Buffered[k]
             ELSE e[k - Len(Uart!Buffered)]
      BY <3>1, <1>9, ConcatProperties
    <3>3. s[k] = e[1]
      BY <3>1, <3>2
    <3> QED
      BY <1>6, <1>9, <1>12, <2>1, <3>3
  <2>2. CASE k \in 1..n
    <3>1. k \in 1..Len(Uart!Buffered) + Len(e) /\ k <= Len(Uart!Buffered)
      BY <1>3, <1>7, <1>9, <2>2
    <3>2. s[k] = Uart!Buffered[k]
      BY <3>1, <1>9, ConcatProperties
    <3> QED
      BY <1>8, <1>12, <2>2, <3>2
  <2>3. k = n + 1 \/ k \in 1..n
    BY <1>3
  <2> QED
    BY <2>1, <2>2, <2>3
<1> HIDE DEF s
<1>14. s = Uart!Buffered'
  BY <1>10, <1>12, <1>13, SeqEqual
<1> QED
  BY <1>14 DEF s, e

-----------------------------------------------------------------------------
LEMMA UartTypesStep ==
    ASSUME Uart!RingAssumption, RingInv, Uart!Next
    PROVE  UartTypes'
<1>0. UartTypes /\ UartPlaces
  BY DEF RingInv
<1>1. \A idx \in Uart!Indices : Uart!After(idx) \in Uart!Indices
  BY NextIndex
<1>2. ASSUME Uart!Printed("a"), writeIdx' = writeIdx, uartPc["a"] \in UartCalling \cup {"on"}
      PROVE  /\ uartT' \in [{"a"} -> Uart!Indices] /\ uartC'
                   \in [{"a"} -> Uart!Bytes \cup {Uart!None}]
             /\ uartPc' \in [{"a"} -> UartLabels] /\ put' \in Seq(Uart!Bytes)
  <2>1. "cr" \in Uart!Bytes /\ writeIdx \in Uart!Indices
    BY <1>0 DEF Uart!Bytes, UartTypes
  <2>2. CASE uartC["a"] = "nl"
    <3>1. /\ uartT' = [uartT EXCEPT !["a"] = Uart!After(writeIdx)]
                /\ uartC' = [uartC EXCEPT !["a"] = "cr"]
          /\ put' = Append(put, "cr") /\ uartPc' = [uartPc EXCEPT !["a"] = "wait"]
      BY <1>2, <2>2 DEF Uart!Printed, Uart!Goto
    <3>2. put' \in Seq(Uart!Bytes)
      BY <1>0, <2>1, <3>1 DEF UartTypes
    <3> QED
      BY <1>0, <1>1, <2>1, <3>1, <3>2 DEF UartTypes, UartCalling, UartLabels
  <2>3. CASE uartC["a"] # "nl"
    BY <1>0, <1>2, <2>3 DEF Uart!Printed, Uart!Goto, UartTypes, UartCalling, UartLabels
  <2> QED
    BY <2>2, <2>3
<1>3. CASE Uart!Putc("a", "x") \/ Uart!Putc("a", "nl")
  <2>1. PICK b \in Uart!Bytes : Uart!Putc("a", b)
    BY <1>3 DEF Uart!Bytes
  <2>2. put' \in Seq(Uart!Bytes)
    BY <1>0, <2>1 DEF Uart!Putc, UartTypes
  <2> QED
    BY <1>0, <1>1, <2>1, <2>2 DEF Uart!Putc, Uart!Goto, UartTypes, UartCalling,
       UartLabels, Uart!ring
<1>4. CASE Uart!Wait("a") \/ Uart!SwitchOff("a") \/ Uart!Test("a") \/ Uart!Flush("a") \/ Uart!Flushed("a")
  BY <1>0, <1>4 DEF Uart!Wait, Uart!SwitchOff, Uart!Test, Uart!Flush, Uart!Flushed,
     Uart!Goto, UartTypes, UartCalling, UartLabels, Uart!ring
<1>5. CASE Uart!Send("a")
  <2>1. txreg' \in Uart!Bytes \cup {Uart!None}
    BY <1>0, <1>5 DEF Uart!Send, UartPlaces, UartCalling
  <2> QED
    BY <1>0, <1>2, <1>5, <2>1 DEF Uart!Send, UartTypes, UartCalling, Uart!ring
<1>6. CASE Uart!Store("a")
  BY <1>0, <1>6 DEF Uart!Store, Uart!Goto, UartTypes, UartCalling, UartLabels
<1>7. CASE Uart!Advance("a")
  BY <1>0, <1>7 DEF Uart!Advance, Uart!Goto, UartTypes, UartCalling, UartLabels
<1>8. CASE Uart!SwitchOn("a")
  BY <1>0, <1>2, <1>8 DEF Uart!SwitchOn, UartTypes, Uart!ring
<1>9. CASE Uart!Prologue
  BY <1>0, <1>1, <1>9 DEF Uart!Prologue, UartTypes, Uart!ring
<1>10. CASE Uart!Shift
  BY <1>0, <1>10 DEF Uart!Shift, UartTypes, Uart!ring
<1> QED
  BY <1>3, <1>4, <1>5, <1>6, <1>7, <1>8, <1>9, <1>10 DEF Uart!Next, Uart!InPutc

LEMMA UartPlacesStep ==
    ASSUME Uart!RingAssumption, RingInv, Uart!Next
    PROVE  UartPlaces'
<1>0. UartTypes /\ UartPlaces /\ Uart!None \notin Uart!Bytes
  BY DEF RingInv, Uart!RingAssumption, Uart!None, Uart!Bytes
<1>1. \A idx \in Uart!Indices : /\ Uart!After(idx) \in Uart!Indices
                                /\ Uart!After(idx) = IF idx + 1 = BufferSize THEN 0
                                      ELSE idx + 1
  BY NextIndex
<1>2. ASSUME Uart!Printed("a"), writeIdx' = writeIdx, uartPc["a"] \in UartCalling \cup {"on"}
      PROVE  UartPlaces'
  BY <1>0, <1>2 DEF Uart!Printed, Uart!Goto, UartTypes, UartPlaces, UartCalling,
     UartLabels, Uart!Bytes
<1>3. CASE Uart!Putc("a", "x") \/ Uart!Putc("a", "nl")
  BY <1>0, <1>3 DEF Uart!Putc, Uart!Goto, UartTypes, UartPlaces, UartCalling,
     UartLabels, Uart!ring, Uart!Bytes
<1>4. CASE Uart!Wait("a") \/ Uart!SwitchOff("a") \/ Uart!Flush("a") \/ Uart!Flushed("a")
  BY <1>0, <1>4 DEF Uart!Wait, Uart!HasRoom, Uart!SwitchOff, Uart!Flush, Uart!Flushed,
     Uart!Goto, UartTypes, UartPlaces, UartCalling, UartLabels, Uart!ring
<1>11. CASE Uart!Test("a")
  BY <1>0, <1>11 DEF Uart!Test, Uart!MaySend, Uart!Goto, UartTypes, UartPlaces,
     UartCalling, UartLabels, Uart!ring
<1>5. CASE Uart!Send("a")
  BY <1>2, <1>5 DEF Uart!Send, UartCalling, Uart!ring
<1>6. CASE Uart!Store("a")
  BY <1>0, <1>6 DEF Uart!Store, Uart!Goto, UartTypes, UartPlaces, UartCalling, UartLabels
<1>7. CASE Uart!Advance("a")
  BY <1>0, <1>7 DEF Uart!Advance, Uart!Goto, UartTypes, UartPlaces, UartCalling,
     UartLabels
<1>8. CASE Uart!SwitchOn("a")
  BY <1>2, <1>8 DEF Uart!SwitchOn, Uart!ring
<1>9. CASE Uart!Prologue
  <2>1. UNCHANGED <<txbuf, writeIdx, uartPc, uartT, uartC>>
    BY <1>9 DEF Uart!Prologue, Uart!ring
  <2>2. uartPc["a"] \notin {"test", "send", "store", "advance", "on"}
    BY <1>0, <1>9 DEF Uart!Prologue, UartPlaces
  <2>3. uartPc["a"] \in UartCalling \ {"wait"} => uartT["a"] # readIdx'
    <3>1. CASE readIdx = writeIdx
      BY <1>0, <1>9, <3>1 DEF Uart!Prologue, UartPlaces, Uart!ring
    <3>2. CASE readIdx # writeIdx
      <4>1. readIdx' = Uart!After(readIdx) /\ readIdx \in Uart!Indices
               /\ writeIdx \in Uart!Indices
        BY <1>0, <1>9, <3>2 DEF Uart!Prologue, UartTypes
      <4>2. Uart!After(readIdx) # Uart!After(writeIdx)
        BY <1>1, <3>2, <4>1 DEF Uart!Indices
      <4> QED
        BY <1>0, <4>1, <4>2 DEF UartPlaces
    <3> QED
      BY <3>1, <3>2
  <2> QED
    BY <1>0, <2>1, <2>2, <2>3 DEF UartPlaces, UartCalling
<1>10. CASE Uart!Shift
  BY <1>0, <1>10 DEF Uart!Shift, UartTypes, UartPlaces, Uart!ring
<1> QED
  BY <1>3, <1>4, <1>5, <1>6, <1>7, <1>8, <1>9, <1>10, <1>11 DEF Uart!Next, Uart!InPutc

\* What the four places hold is a sequence of bytes.
LEMMA UartHeld ==
    ASSUME Uart!RingAssumption, RingInv
    PROVE  /\ Uart!InRegister \in Seq(Uart!Bytes) /\ Uart!InHand("a") \in Seq(Uart!Bytes)
           /\ sent \in Seq(Uart!Bytes) /\ Uart!Buffered \in Seq(Uart!Bytes)
                 /\ put \in Seq(Uart!Bytes)
  BY DEF RingInv, UartTypes, UartPlaces, UartCalling, Uart!InRegister, Uart!InHand

LEMMA SameBuffer ==
    ASSUME Uart!RingAssumption, UartTypes, UartTypes', UNCHANGED <<txbuf, readIdx, writeIdx>>
    PROVE  Uart!Buffered' = Uart!Buffered
  BY InBuffer, InBufferNext DEF Uart!RingAssumption

LEMMA OrderStep ==
    ASSUME Uart!RingAssumption, RingInv, Uart!Next
    PROVE  /\ Uart!Buffered' \in Seq(Uart!Bytes)
           /\ sent' \o Uart!InRegister' \o Uart!Buffered' \o Uart!InHand("a")' = put'
<1>0. UartTypes /\ UartPlaces /\ Uart!None \notin Uart!Bytes /\ UartTypes' /\ UartPlaces'
  BY UartTypesStep, UartPlacesStep DEF RingInv, Uart!RingAssumption, Uart!None, Uart!Bytes
<1> DEFINE A == sent \o Uart!InRegister
<1>a. /\ Uart!InRegister \in Seq(Uart!Bytes) /\ Uart!InHand("a") \in Seq(Uart!Bytes)
      /\ sent \in Seq(Uart!Bytes) /\ Uart!Buffered \in Seq(Uart!Bytes)
            /\ put \in Seq(Uart!Bytes)
      /\ A \in Seq(Uart!Bytes)
  BY UartHeld, ConcatProperties
<1>b. A \o Uart!Buffered \o Uart!InHand("a") = put
  BY DEF RingInv
<1>c. A \o Uart!Buffered \in Seq(Uart!Bytes)
  BY <1>a, ConcatProperties
\* One more byte is printed, with an empty hand before it.
<1>d. ASSUME Uart!InHand("a") = <<>>, NEW b \in Uart!Bytes, Uart!InHand("a")' = <<b>>,
                put' = Append(put, b),
             UNCHANGED <<txbuf, readIdx, writeIdx, txreg, sent>>
      PROVE  Uart!Buffered'
                \in Seq(Uart!Bytes)
                   /\ sent' \o Uart!InRegister' \o Uart!Buffered' \o Uart!InHand("a")' = put'
  <2>1. Uart!Buffered' = Uart!Buffered /\ sent' \o Uart!InRegister' = A
    BY <1>0, <1>d, SameBuffer DEF Uart!InRegister
  <2>2. A \o Uart!Buffered = put
    BY <1>a, <1>b, <1>c, <1>d, ConcatEmptySeq
  <2>3. put \o <<b>> = Append(put, b)
    BY <1>a, AppendIsConcat
  <2> QED
    BY <1>a, <1>d, <2>1, <2>2, <2>3
\* Nothing moves.
<1>e. ASSUME Uart!InHand("a")' = Uart!InHand("a"), UNCHANGED <<txbuf, readIdx, writeIdx,
                txreg, sent, put>>
      PROVE  Uart!Buffered'
                \in Seq(Uart!Bytes)
                   /\ sent' \o Uart!InRegister' \o Uart!Buffered' \o Uart!InHand("a")' = put'
  <2>1. Uart!Buffered' = Uart!Buffered /\ Uart!InRegister' = Uart!InRegister
    BY <1>0, <1>e, SameBuffer DEF Uart!InRegister
  <2> QED
    BY <1>a, <1>b, <1>e, <2>1
<1>3. CASE Uart!Putc("a", "x") \/ Uart!Putc("a", "nl")
  <2>1. PICK b \in Uart!Bytes : Uart!Putc("a", b)
    BY <1>3 DEF Uart!Bytes
  <2>2. Uart!InHand("a") = <<>> /\ Uart!InHand("a")' = <<b>>
    BY <1>0, <2>1 DEF Uart!Putc, Uart!Goto, Uart!InHand, UartTypes
  <2> QED
    BY <1>d, <2>1, <2>2 DEF Uart!Putc, Uart!ring
<1>4. CASE Uart!Wait("a") \/ Uart!SwitchOff("a") \/ Uart!Test("a") \/ Uart!Flush("a") \/ Uart!Flushed("a")
  <2>1. Uart!InHand("a")' = Uart!InHand("a")
    BY <1>0, <1>4 DEF Uart!Wait, Uart!SwitchOff, Uart!Test, Uart!Flush, Uart!Flushed,
       Uart!Goto, UartTypes, Uart!InHand
  <2> QED
    BY <1>4, <1>e, <2>1 DEF Uart!Wait, Uart!SwitchOff, Uart!Test, Uart!Flush,
       Uart!Flushed, Uart!ring
<1>5. CASE Uart!Send("a")
  <2> DEFINE b == uartC["a"]
  <2>1. b \in Uart!Bytes /\ readIdx = writeIdx /\ txreg = Uart!None
           /\ Uart!InHand("a") = <<b>>
    BY <1>0, <1>5 DEF Uart!Send, UartPlaces, UartCalling, Uart!InHand
  <2>2. Uart!InRegister = <<>> /\ Uart!InRegister' = <<b>> /\ sent' = sent
    BY <1>0, <1>5, <2>1 DEF Uart!Send, Uart!InRegister
  <2>3. Uart!Buffered = <<>> /\ Uart!Buffered' = <<>>
    <3>1. Uart!Buffered = <<>>
      BY <1>0, <2>1, InBuffer DEF UartCount, UartTypes, Uart!Indices, Uart!RingAssumption
    <3> QED
      BY <1>0, <1>5, <3>1, SameBuffer DEF Uart!Send, Uart!ring
  <2> HIDE DEF b
  <2>4. <<b>> \in Seq(Uart!Bytes)
    BY <2>1
  <2>5. put = sent \o <<b>>
    BY <1>a, <1>b, <2>1, <2>2, <2>3, ConcatEmptySeq
  <2>6. sent' \o Uart!InRegister' \o Uart!Buffered' = put
    BY <1>a, <2>2, <2>3, <2>4, <2>5, ConcatEmptySeq
  <2>7. CASE b = "nl"
    <3>1. put' = Append(put, "cr") /\ Uart!InHand("a")' = <<"cr">>
      BY <1>0, <1>5, <2>7 DEF Uart!Send, Uart!Printed, Uart!Goto, Uart!InHand,
         UartTypes, b
    <3>2. "cr" \in Uart!Bytes
      BY DEF Uart!Bytes
    <3>3. put \o <<"cr">> = Append(put, "cr")
      BY <1>a, <3>2, AppendIsConcat
    <3>4. sent' \o Uart!InRegister' \o Uart!Buffered' \o Uart!InHand("a")' = put \o <<"cr">>
      BY <2>6, <3>1
    <3>5. Uart!Buffered' \in Seq(Uart!Bytes)
      BY <2>3
    <3> QED
      BY <3>1, <3>3, <3>4, <3>5
  <2>8. CASE b # "nl"
    <3>1. put' = put /\ Uart!InHand("a")' = <<>>
      BY <1>0, <1>5, <2>8 DEF Uart!Send, Uart!Printed, Uart!Goto, Uart!InHand,
         UartTypes, b
    <3> QED
      BY <1>a, <2>3, <2>6, <3>1, ConcatEmptySeq
  <2> QED
    BY <2>7, <2>8
<1>6. CASE Uart!Store("a")
  <2>1. uartC["a"] \in Uart!Bytes /\ txbuf' = [txbuf EXCEPT ![writeIdx] = uartC["a"]]
           /\ UNCHANGED <<readIdx, writeIdx>>
    BY <1>0, <1>6 DEF Uart!Store, UartPlaces, UartCalling
  <2>2. Uart!Buffered' = Uart!Buffered
    BY <1>0, <2>1, StoredIn
  <2>3. Uart!InHand("a")' = Uart!InHand("a") /\ Uart!InRegister' = Uart!InRegister
           /\ sent' = sent /\ put' = put
    BY <1>0, <1>6 DEF Uart!Store, Uart!Goto, UartTypes, Uart!InHand, Uart!InRegister
  <2> QED
    BY <1>a, <1>b, <2>2, <2>3
<1>7. CASE Uart!Advance("a")
  <2>1. /\ txbuf[writeIdx] = uartC["a"] /\ uartC["a"] \in Uart!Bytes
        /\ writeIdx' = Uart!After(writeIdx) /\ writeIdx' # readIdx
              /\ UNCHANGED <<txbuf, readIdx>>
    BY <1>0, <1>7 DEF Uart!Advance, UartPlaces, UartCalling
  <2>2. Uart!Buffered' = Uart!Buffered \o <<uartC["a"]>>
    BY <1>0, <1>a, <2>1, AdvancedOne
  <2>3. Uart!InHand("a") = <<uartC["a"]>> /\ Uart!InHand("a")' = <<>>
           /\ Uart!InRegister' = Uart!InRegister /\ sent' = sent /\ put' = put
    BY <1>0, <1>7 DEF Uart!Advance, Uart!Goto, UartTypes, Uart!InHand, Uart!InRegister
  <2>4. <<uartC["a"]>> \in Seq(Uart!Bytes)
    BY <2>1
  <2>5. Uart!Buffered' \in Seq(Uart!Bytes)
    BY <1>a, <2>2, <2>4, ConcatProperties
  <2>6. A \o Uart!Buffered' = put
    <3> HIDE DEF A
    <3>1. (A \o Uart!Buffered) \o <<uartC["a"]>> = A \o (Uart!Buffered \o <<uartC["a"]>>)
      <4>1. PICK e \in Seq(Uart!Bytes) : e = <<uartC["a"]>>
        BY <2>4
      <4>2. PICK f \in Seq(Uart!Bytes) : f = A
        BY <1>a
      <4>3. PICK g \in Seq(Uart!Bytes) : g = Uart!Buffered
        BY <1>a
      <4>4. (f \o g) \o e = f \o (g \o e)
        BY ConcatAssociative
      <4> QED
        BY <4>1, <4>2, <4>3, <4>4
    <3> QED
      BY <1>b, <2>2, <2>3, <3>1
  <2> QED
    BY <1>a, <2>3, <2>5, <2>6, ConcatEmptySeq
<1>8. CASE Uart!SwitchOn("a")
  <2>1. Uart!InHand("a") = <<>> /\ UNCHANGED <<txbuf, readIdx, writeIdx, txreg, sent>>
    BY <1>8 DEF Uart!SwitchOn, Uart!InHand, Uart!ring
  <2>2. CASE uartC["a"] = "nl"
    <3>1. put' = Append(put, "cr") /\ Uart!InHand("a")' = <<"cr">> /\ "cr" \in Uart!Bytes
      BY <1>0, <1>8, <2>2 DEF Uart!SwitchOn, Uart!Printed, Uart!Goto, Uart!InHand,
         UartTypes, Uart!Bytes
    <3> QED
      BY <1>d, <2>1, <3>1
  <2>3. CASE uartC["a"] # "nl"
    <3>1. put' = put /\ Uart!InHand("a")' = <<>>
      BY <1>0, <1>8, <2>3 DEF Uart!SwitchOn, Uart!Printed, Uart!Goto, Uart!InHand,
         UartTypes
    <3> QED
      BY <1>e, <2>1, <3>1
  <2> QED
    BY <2>2, <2>3
<1>9. CASE Uart!Prologue
  <2>1. UNCHANGED <<txbuf, writeIdx, sent, put, uartPc, uartC>>
           /\ Uart!InHand("a")' = Uart!InHand("a")
    BY <1>9 DEF Uart!Prologue, Uart!ring, Uart!InHand
  <2>2. CASE readIdx = writeIdx
    BY <1>9, <1>e, <2>1, <2>2 DEF Uart!Prologue, Uart!ring
  <2>3. CASE readIdx # writeIdx
    <3> DEFINE b == txbuf[readIdx]
    <3>1. readIdx' = Uart!After(readIdx) /\ txreg' = b /\ txreg = Uart!None
      BY <1>9, <2>3 DEF Uart!Prologue
    <3>2. b \in Uart!Bytes /\ Uart!Buffered' \in Seq(Uart!Bytes)
             /\ Uart!Buffered = <<b>> \o Uart!Buffered'
      BY <1>0, <1>a, <2>1, <2>3, <3>1, TakenOut
    <3> HIDE DEF b
    <3>3. Uart!InRegister = <<>> /\ Uart!InRegister' = <<b>> /\ <<b>> \in Seq(Uart!Bytes)
      BY <1>0, <3>1, <3>2 DEF Uart!InRegister
    <3>4. A = sent
      BY <1>a, <3>3, ConcatEmptySeq
    <3>5. sent \o Uart!Buffered = (sent \o <<b>>) \o Uart!Buffered'
      <4>1. (sent \o <<b>>) \o Uart!Buffered' = sent \o (<<b>> \o Uart!Buffered')
        BY <1>a, <3>2, <3>3, ConcatAssociative
      <4> QED
        BY <3>2, <4>1
    <3> QED
      BY <1>b, <2>1, <3>2, <3>3, <3>4, <3>5
  <2> QED
    BY <2>2, <2>3
<1>10. CASE Uart!Shift
  <2>1. /\ txreg \in Uart!Bytes /\ sent' = Append(sent, txreg) /\ txreg' = Uart!None
        /\ UNCHANGED <<txbuf, readIdx, writeIdx, put, uartPc, uartC>>
    BY <1>0, <1>10 DEF Uart!Shift, UartTypes, Uart!ring
  <2>2. Uart!Buffered' = Uart!Buffered
    BY <1>0, <2>1, SameBuffer
  <2>3. Uart!InRegister = <<txreg>> /\ Uart!InRegister' = <<>>
           /\ Uart!InHand("a")' = Uart!InHand("a")
    BY <1>0, <2>1 DEF Uart!InRegister, Uart!InHand
  <2>4. sent' = sent \o <<txreg>>
    BY <1>a, <2>1, AppendIsConcat
  <2>5. sent' \o Uart!InRegister' = A
    <3>1. sent' \in Seq(Uart!Bytes)
      BY <1>0 DEF UartTypes
    <3>2. sent' \o Uart!InRegister' = sent'
      BY <2>3, <3>1, ConcatEmptySeq
    <3> QED
      BY <2>3, <2>4, <3>2
  <2> QED
    BY <1>a, <1>b, <2>1, <2>2, <2>3, <2>5
<1> QED
  BY <1>3, <1>4, <1>5, <1>6, <1>7, <1>8, <1>9, <1>10 DEF Uart!Next, Uart!InPutc

LEMMA InitRingInv ==
    ASSUME Uart!RingAssumption, Uart!Init
    PROVE  RingInv
<1>1. UartTypes
  <2>1. 0 \in Uart!Indices /\ <<>> \in Seq(Uart!Bytes)
    BY DEF Uart!Indices, Uart!RingAssumption
  <2>2. "idle" \in UartLabels
    BY DEF UartLabels
  <2> QED
    BY <2>1, <2>2 DEF Uart!Init, UartTypes
<1>2. UartPlaces
  BY DEF Uart!Init, UartPlaces, UartCalling
<1>3. Uart!Buffered = <<>>
  BY <1>1, InBuffer DEF Uart!Init, UartCount, Uart!RingAssumption
<1>4. Uart!InRegister = <<>> /\ Uart!InHand("a") = <<>> /\ sent = <<>> /\ put = <<>>
  BY DEF Uart!Init, Uart!InRegister, Uart!InHand
<1>5. <<>> \o <<>> = <<>> /\ <<>> \in Seq(Uart!Bytes)
  OBVIOUS
<1>6. sent \o Uart!InRegister \o Uart!Buffered \o Uart!InHand("a") = put
  BY <1>3, <1>4, <1>5
<1> QED
  BY <1>1, <1>2, <1>3, <1>5, <1>6 DEF RingInv

LEMMA NextRingInv ==
    ASSUME Uart!RingAssumption, RingInv, [Uart!Next]_(Uart!vars)
    PROVE  RingInv'
<1>1. CASE Uart!Next
  BY <1>1, UartTypesStep, UartPlacesStep, OrderStep DEF RingInv
<1>2. CASE UNCHANGED Uart!vars
  <2>1. UartTypes' /\ UartPlaces'
    BY <1>2 DEF Uart!vars, Uart!ring, RingInv, UartTypes, UartPlaces
  <2>2. Uart!Buffered' = Uart!Buffered
    BY <1>2, <2>1, SameBuffer DEF Uart!vars, Uart!ring, RingInv
  <2>3. Uart!InRegister' = Uart!InRegister /\ Uart!InHand("a")' = Uart!InHand("a")
           /\ sent' = sent /\ put' = put
    BY <1>2 DEF Uart!vars, Uart!InRegister, Uart!InHand
  <2> QED
    BY <2>1, <2>2, <2>3 DEF RingInv
<1> QED
  BY <1>1, <1>2

\* Nothing overtakes and nothing is written over.
LEMMA RingInvInOrder ==
    ASSUME RingInv
    PROVE  Uart!InOrder /\ Uart!TypeOK
  BY DEF RingInv, UartTypes, Uart!InOrder, Uart!TypeOK

(***************************************************************************)
(* The buttons (ButtonService): how long a contact has been as it is, and  *)
(* what the service and the thread know of it.                             *)
(***************************************************************************)

ButtonTypeInv ==
    /\ {contact, pin, state, current, taken} \subseteq Names \cup {Buttons!None}
    /\ since \in 0 .. MaxButtonTime /\ gap \in 0 .. MaxButtonTime
    /\ buttonPc \in {"read", "debounce", "pause"} /\ timer \in 0 .. Debounce
    /\ i \in 0 .. Repeats - 1
    /\ taker \in {"asleep", "clear", "return"} /\ wait \in 0 .. Period
    /\ presses \in 0 .. MaxButtonPresses /\ published \in Nat
    /\ fresh \in BOOLEAN /\ twice \in BOOLEAN

\* What the port reads, and what the service waits for.
PinsTrue ==
    /\ contact # Buttons!None => pin = contact
    /\ contact = Buttons!None /\ since >= Bouncing => pin = Buttons!None
    /\ buttonPc = "debounce" => current # Buttons!None
    /\ buttonPc = "pause" => timer <= 1

\* A press that was published is waited for.
WaitedLong ==
    contact # Buttons!None /\ published > 0 =>
        \/ /\ buttonPc = "debounce" /\ current = contact
           /\ since >= (published - 1) * (Debounce * Repeats) + i * Debounce
                          + (Debounce - timer)
        \/ buttonPc = "read" /\ since >= published * (Debounce * Repeats)

\* No wait for the press before outlasts a pause; a press after it is seen at once.
PausedLong ==
    /\ contact = Buttons!None /\ since >= Bouncing /\ buttonPc = "debounce"
          => since + timer <= Debounce + Bouncing
    /\ contact # Buttons!None /\ published = 0 /\ gap > Debounce + Bouncing =>
           \/ buttonPc = "read" /\ since <= 1
           \/ buttonPc = "pause" /\ since + timer <= 1

\* A press that was taken is in the state until it is cleared.
TakenBefore == ~twice /\ (state # Buttons!None /\ ~fresh => taker = "clear")

ButtonInv == ButtonTypeInv /\ PinsTrue /\ WaitedLong /\ PausedLong /\ TakenBefore

-----------------------------------------------------------------------------
LEMMA ButtonConstants ==
    ASSUME Buttons!ButtonAssumption
    PROVE  /\ Debounce \in Nat /\ Debounce >= 1 /\ Repeats \in Nat /\ Repeats >= 1
           /\ Period \in Nat /\ Bouncing \in Nat /\ MaxButtonPresses \in Nat
                 /\ MaxButtonTime \in Nat
           /\ Buttons!None \notin Names /\ Debounce * Repeats \in Nat
  BY DEF Buttons!ButtonAssumption

LEMMA ButtonTypes ==
    ASSUME Buttons!ButtonAssumption, ButtonTypeInv, PinsTrue, Buttons!Next
    PROVE  ButtonTypeInv'
<1> USE ButtonConstants
<1>1. ASSUME NEW b \in Names, Buttons!Press(b) PROVE ButtonTypeInv'
  <2>1. {contact', pin', state', current', taken'} \subseteq Names \cup {Buttons!None}
    BY <1>1 DEF Buttons!Press, ButtonTypeInv, Buttons!service, Buttons!thread
  <2>2. since' \in 0 .. MaxButtonTime /\ gap' \in 0 .. MaxButtonTime
           /\ presses' \in 0 .. MaxButtonPresses /\ published' \in Nat
    BY <1>1 DEF Buttons!Press, ButtonTypeInv
  <2> QED
    BY <1>1, <2>1, <2>2 DEF Buttons!Press, ButtonTypeInv, Buttons!service, Buttons!thread
<1>10. ASSUME NEW b \in Names, Buttons!Bounce(b) PROVE ButtonTypeInv'
  <2>1. {contact', pin', state', current', taken'} \subseteq Names \cup {Buttons!None}
    BY <1>10 DEF Buttons!Bounce, ButtonTypeInv, Buttons!service, Buttons!thread
  <2> QED
    BY <1>10, <2>1 DEF Buttons!Bounce, ButtonTypeInv, Buttons!service, Buttons!thread,
       Buttons!history
<1>2. CASE Buttons!Release
  BY <1>2 DEF Buttons!Release, ButtonTypeInv, Buttons!service, Buttons!thread,
     Buttons!history
<1>3. CASE Buttons!Read
  <2>0. UNCHANGED <<Buttons!hand, Buttons!thread>> /\ i' = 0 /\ current' = pin
    BY <1>3 DEF Buttons!Read
  <2>1. CASE pin # Buttons!None
    <3>1. /\ state' = pin /\ fresh' = TRUE /\ twice' = twice /\ published' = published + 1
          /\ timer' = Debounce /\ buttonPc' = "debounce"
      BY <1>3, <2>1 DEF Buttons!Read, Buttons!Publish, Buttons!Sleep
    <3> QED
      BY <2>0, <3>1 DEF ButtonTypeInv, Buttons!hand, Buttons!thread
  <2>2. CASE pin = Buttons!None
    <3>1. UNCHANGED <<state, Buttons!history>> /\ timer' = 1 /\ buttonPc' = "pause"
      BY <1>3, <2>2 DEF Buttons!Read, Buttons!Sleep
    <3> QED
      BY <2>0, <3>1 DEF ButtonTypeInv, Buttons!hand, Buttons!thread, Buttons!history
  <2> QED
    BY <2>1, <2>2
<1>4. CASE Buttons!Check
  BY <1>4 DEF Buttons!Check, Buttons!More, Buttons!Sleep, ButtonTypeInv, Buttons!hand,
     Buttons!thread, Buttons!history
<1>5. CASE Buttons!Resume
  BY <1>5 DEF Buttons!Resume, ButtonTypeInv, Buttons!hand, Buttons!thread, Buttons!history
<1>6. CASE Buttons!Get
  BY <1>6 DEF Buttons!Get, ButtonTypeInv, Buttons!hand, Buttons!service
<1>7. CASE Buttons!Clear
  BY <1>7 DEF Buttons!Clear, Buttons!Consumed, ButtonTypeInv, Buttons!hand,
     Buttons!service
<1>8. CASE Buttons!Return
  BY <1>8 DEF Buttons!Return, ButtonTypeInv, Buttons!hand, Buttons!service,
     Buttons!history
<1>9. CASE Buttons!Tick
  <2>1. {contact', pin', state', current', taken'} \subseteq Names \cup {Buttons!None}
    BY <1>9 DEF Buttons!Tick, ButtonTypeInv, Buttons!history
  <2> QED
    BY <1>9, <2>1 DEF Buttons!Tick, ButtonTypeInv, Buttons!history
<1> QED
  BY <1>1, <1>2, <1>3, <1>4, <1>5, <1>6, <1>7, <1>8, <1>9, <1>10 DEF Buttons!Next

LEMMA ButtonPins ==
    ASSUME Buttons!ButtonAssumption, ButtonTypeInv, PinsTrue, Buttons!Next
    PROVE  PinsTrue'
<1> USE ButtonConstants
<1>1. ASSUME NEW b \in Names, Buttons!Press(b) \/ Buttons!Bounce(b) PROVE PinsTrue'
  BY <1>1 DEF Buttons!Press, Buttons!Bounce, ButtonTypeInv, PinsTrue, Buttons!service
<1>2. CASE Buttons!Release
  BY <1>2 DEF Buttons!Release, ButtonTypeInv, PinsTrue, Buttons!service
<1>3. CASE Buttons!Read
  BY <1>3 DEF Buttons!Read, Buttons!Sleep, ButtonTypeInv, PinsTrue, Buttons!hand
<1>4. CASE Buttons!Check
  BY <1>4 DEF Buttons!Check, Buttons!Sleep, ButtonTypeInv, PinsTrue, Buttons!hand
<1>5. CASE Buttons!Resume \/ Buttons!Get \/ Buttons!Clear \/ Buttons!Return
  BY <1>5 DEF Buttons!Resume, Buttons!Get, Buttons!Clear, Buttons!Return, ButtonTypeInv,
     PinsTrue, Buttons!hand, Buttons!service
<1>6. CASE Buttons!Tick
  BY <1>6 DEF Buttons!Tick, ButtonTypeInv, PinsTrue
<1> QED
  BY <1>1, <1>2, <1>3, <1>4, <1>5, <1>6 DEF Buttons!Next

LEMMA ButtonWaited ==
    ASSUME Buttons!ButtonAssumption, ButtonTypeInv, PinsTrue, WaitedLong, Buttons!Next
    PROVE  WaitedLong'
<1> USE ButtonConstants
<1> DEFINE W == Debounce * Repeats
<1>a. /\ published * W \in Nat /\ (published + 1) * W = published * W + W
      /\ (published - 1) * W = published * W - W
      /\ i * Debounce \in Nat /\ (i + 1) * Debounce = i * Debounce + Debounce
  BY DEF ButtonTypeInv
<1>1. ASSUME NEW b \in Names, Buttons!Press(b) \/ Buttons!Bounce(b) PROVE WaitedLong'
  BY <1>1 DEF Buttons!Press, Buttons!Bounce, WaitedLong
<1>2. CASE Buttons!Release
  BY <1>2 DEF Buttons!Release, WaitedLong
<1>3. CASE Buttons!Read
  <2> SUFFICES ASSUME contact # Buttons!None
               PROVE  WaitedLong'
    BY <1>3 DEF Buttons!Read, WaitedLong, Buttons!hand
  <2>1. /\ contact' = contact /\ since' = since /\ current' = contact /\ i' = 0
        /\ published' = published + 1 /\ timer' = Debounce /\ buttonPc' = "debounce"
    BY <1>3 DEF Buttons!Read, Buttons!Publish, Buttons!Sleep, PinsTrue, Buttons!hand
  <2>2. since >= published * W
    BY <1>3, <1>a DEF WaitedLong, ButtonTypeInv, Buttons!Read
  <2>3. published' - 1 = published /\ i' * Debounce = 0 /\ Debounce - timer' = 0
    BY <2>1 DEF ButtonTypeInv
  <2> HIDE DEF W
  <2>4. since' >= (published' - 1) * W + i' * Debounce + (Debounce - timer')
    BY <1>a, <2>1, <2>2, <2>3 DEF ButtonTypeInv
  <2> QED
    BY <2>1, <2>4 DEF WaitedLong, W
<1>4. CASE Buttons!Check
  <2> SUFFICES ASSUME contact # Buttons!None, published > 0
               PROVE  WaitedLong'
    BY <1>4 DEF Buttons!Check, WaitedLong, Buttons!hand, Buttons!history
  <2>1. /\ contact' = contact /\ since' = since /\ published' = published
              /\ current' = current
    BY <1>4 DEF Buttons!Check, Buttons!hand, Buttons!history
  <2>2. /\ buttonPc = "debounce" /\ timer = 0 /\ current = contact /\ Buttons!Same
        /\ since >= (published - 1) * W + i * Debounce + Debounce
    BY <1>4 DEF Buttons!Check, WaitedLong, PinsTrue, Buttons!Same
  <2>3. CASE Buttons!More
    <3>1. i' = i + 1 /\ timer' = Debounce /\ buttonPc' = "debounce"
      BY <1>4, <2>2, <2>3 DEF Buttons!Check, Buttons!Sleep
    <3>2. since' >= (published' - 1) * W + i' * Debounce + (Debounce - timer')
      BY <1>a, <2>1, <2>2, <3>1 DEF ButtonTypeInv
    <3> QED
      BY <2>1, <2>2, <3>1, <3>2 DEF WaitedLong
  <2>4. CASE ~Buttons!More
    <3>1. buttonPc' = "read"
      BY <1>4, <2>4 DEF Buttons!Check
    <3>2. i = Repeats - 1
      BY <2>4 DEF Buttons!More, ButtonTypeInv
    <3>3. i * Debounce + Debounce = W
      BY <3>2
    <3> HIDE DEF W
    <3>4. since' >= published' * W
      BY <1>a, <2>1, <2>2, <3>3 DEF ButtonTypeInv
    <3> QED
      BY <3>1, <3>4 DEF WaitedLong, W
  <2> QED
    BY <2>3, <2>4
<1>5. CASE Buttons!Resume \/ Buttons!Get \/ Buttons!Clear \/ Buttons!Return
  BY <1>5 DEF Buttons!Resume, Buttons!Get, Buttons!Clear, Buttons!Return, WaitedLong,
     Buttons!hand, Buttons!service, Buttons!history
<1>6. CASE Buttons!Tick
  <2> SUFFICES ASSUME contact # Buttons!None, published > 0
               PROVE  WaitedLong'
    BY <1>6 DEF Buttons!Tick, WaitedLong, Buttons!history
  <2>1. /\ contact' = contact /\ since' = since + 1 /\ published' = published
              /\ current' = current
        /\ buttonPc' = buttonPc /\ timer' = timer - 1 /\ i' = i
    BY <1>6 DEF Buttons!Tick, Buttons!history, ButtonTypeInv
  <2>2. /\ buttonPc = "debounce" /\ current = contact
        /\ since >= (published - 1) * W + i * Debounce + (Debounce - timer)
    BY <1>6 DEF Buttons!Tick, WaitedLong
  <2>4. W \in Nat
    OBVIOUS
  <2> HIDE DEF W
  <2>5. (published' - 1) * W = (published - 1) * W /\ i' * Debounce = i * Debounce
    BY <2>1
  <2>6. (published - 1) * W \in Int
    BY <2>4 DEF ButtonTypeInv
  <2>3. since' >= (published' - 1) * W + i' * Debounce + (Debounce - timer')
    BY <1>a, <2>1, <2>2, <2>5, <2>6 DEF ButtonTypeInv
  <2> QED
    BY <2>1, <2>2, <2>3 DEF WaitedLong, W
<1> QED
  BY <1>1, <1>2, <1>3, <1>4, <1>5, <1>6 DEF Buttons!Next

LEMMA ButtonPaused ==
    ASSUME Buttons!ButtonAssumption, ButtonTypeInv, PinsTrue, PausedLong, Buttons!Next
    PROVE  PausedLong'
<1> USE ButtonConstants
<1>1. ASSUME NEW b \in Names, Buttons!Press(b) PROVE PausedLong'
  BY <1>1 DEF Buttons!Press, ButtonTypeInv, PinsTrue, PausedLong, Buttons!service
<1>2. ASSUME NEW b \in Names, Buttons!Bounce(b) PROVE PausedLong'
  BY <1>2 DEF Buttons!Bounce, ButtonTypeInv, PinsTrue, PausedLong, Buttons!service,
     Buttons!history
<1>3. CASE Buttons!Release
  BY <1>3 DEF Buttons!Release, ButtonTypeInv, PinsTrue, PausedLong, Buttons!service,
     Buttons!history
<1>4. CASE Buttons!Read
  BY <1>4 DEF Buttons!Read, Buttons!Publish, Buttons!Sleep, ButtonTypeInv, PinsTrue,
     PausedLong, Buttons!hand, Buttons!history
<1>5. CASE Buttons!Check
  BY <1>5 DEF Buttons!Check, Buttons!Same, Buttons!Sleep, ButtonTypeInv, PinsTrue,
     PausedLong, Buttons!hand, Buttons!history
<1>6. CASE Buttons!Resume \/ Buttons!Get \/ Buttons!Clear \/ Buttons!Return
  BY <1>6 DEF Buttons!Resume, Buttons!Get, Buttons!Clear, Buttons!Return, ButtonTypeInv,
     PinsTrue, PausedLong, Buttons!hand, Buttons!service, Buttons!history
<1>7. CASE Buttons!Tick
  BY <1>7 DEF Buttons!Tick, ButtonTypeInv, PinsTrue, PausedLong, Buttons!history
<1> QED
  BY <1>1, <1>2, <1>3, <1>4, <1>5, <1>6, <1>7 DEF Buttons!Next

LEMMA ButtonTaken ==
    ASSUME ButtonTypeInv, TakenBefore, Buttons!Next
    PROVE  TakenBefore'
<1>1. CASE Buttons!Read
  BY <1>1 DEF Buttons!Read, Buttons!Publish, ButtonTypeInv, TakenBefore, Buttons!thread,
     Buttons!history
<1>2. CASE Buttons!Get
  BY <1>2 DEF Buttons!Get, ButtonTypeInv, TakenBefore
<1>3. CASE Buttons!Clear
  BY <1>3 DEF Buttons!Clear, Buttons!Consumed, ButtonTypeInv, TakenBefore
<1> QED
  BY <1>1, <1>2, <1>3 DEF Buttons!Next, Buttons!Press, Buttons!Bounce, Buttons!Release,
     Buttons!Check, Buttons!Resume, Buttons!Return, Buttons!Tick, TakenBefore,
     Buttons!thread, Buttons!history

LEMMA InitButtonInv ==
    ASSUME Buttons!ButtonAssumption, Buttons!Init
    PROVE  ButtonInv
<1> USE ButtonConstants
<1>1. ButtonTypeInv
  <2>1. since \in 0 .. MaxButtonTime /\ gap \in 0 .. MaxButtonTime /\ wait \in 0 .. Period
    BY DEF Buttons!Init
  <2>2. timer \in 0 .. Debounce /\ i \in 0 .. Repeats - 1 /\ presses \in 0 .. MaxButtonPresses
    BY DEF Buttons!Init
  <2> QED
    BY <2>1, <2>2 DEF Buttons!Init, ButtonTypeInv
<1> QED
  BY <1>1 DEF Buttons!Init, ButtonInv, PinsTrue, WaitedLong, PausedLong, TakenBefore

LEMMA NextButtonInv ==
    ASSUME Buttons!ButtonAssumption, ButtonInv, [Buttons!Next]_(Buttons!vars)
    PROVE  ButtonInv'
<1>1. CASE Buttons!Next
  BY <1>1, ButtonTypes, ButtonPins, ButtonWaited, ButtonPaused, ButtonTaken DEF ButtonInv
<1>2. CASE UNCHANGED Buttons!vars
  BY <1>2 DEF Buttons!vars, Buttons!hand, Buttons!service, Buttons!thread,
     Buttons!history, ButtonInv, ButtonTypeInv, PinsTrue, WaitedLong, PausedLong,
     TakenBefore
<1> QED
  BY <1>1, <1>2

LEMMA ButtonInvTold ==
    ASSUME Buttons!ButtonAssumption, ButtonInv
    PROVE  Buttons!PressSeen /\ Buttons!RepeatsSlowly /\ Buttons!TakenOnce /\ Buttons!TypeOK
<1> USE ButtonConstants
<1>1. Buttons!PressSeen
  BY DEF ButtonInv, ButtonTypeInv, PausedLong, Buttons!PressSeen
<1>2. Buttons!RepeatsSlowly
  <2> SUFFICES ASSUME contact # Buttons!None, published > 1
               PROVE  since >= (published - 1) * Debounce * Repeats
    BY DEF Buttons!RepeatsSlowly
  <2> DEFINE W == Debounce * Repeats
  <2>1. (published - 1) * Debounce * Repeats = (published - 1) * W
    BY DEF ButtonInv, ButtonTypeInv
  <2>2. published * W = (published - 1) * W + W /\ (published - 1) * W \in Int
           /\ i * Debounce \in Nat
    BY DEF ButtonInv, ButtonTypeInv
  <2> HIDE DEF W
  <2>3. \/ since >= (published - 1) * W + i * Debounce + (Debounce - timer)
        \/ since >= published * W
    BY DEF ButtonInv, ButtonTypeInv, WaitedLong, W
  <2>4. W \in Nat
    BY DEF W
  <2> QED
    BY <2>1, <2>2, <2>3, <2>4 DEF ButtonInv, ButtonTypeInv
<1> QED
  BY <1>1, <1>2 DEF ButtonInv, ButtonTypeInv, TakenBefore, Buttons!TakenOnce,
     Buttons!TypeOK

(***************************************************************************)
(* The clock that follows the load (PastThread): arithmetic of two words.  *)
(***************************************************************************)

\* A word of halves; what is left over is never negative; after an interval
\* without idle time something is, or the speed is the highest.
PastInv ==
    /\ speed \in Past!MinSpeed .. Past!MaxSpeed
    /\ excess \in Past!Word /\ excess.hi < 32768
    /\ busy \in Nat
    /\ busy >= 1 => speed = Past!MaxSpeed \/ excess # Past!W(0)
    /\ busy >= 2 => speed = Past!MaxSpeed

-----------------------------------------------------------------------------
LEMMA HalfNat == Past!Half \in Nat \ {0, 1}
  BY DEF Past!Half

LEMMA SmallHalf ==
    ASSUME NEW idx \in Past!Millis
    PROVE  idx \in 0 .. Past!Half - 1 /\ idx \in Int
  BY DEF Past!Half, Past!Millis

LEMMA SmallMillis == 0 .. 50 \subseteq Past!Millis
  BY DEF Past!Millis

LEMMA DividedBy ==
    ASSUME NEW C \in Nat \ {0}, NEW x \in Int
    PROVE  x % C \in 0..C - 1 /\ x \div C \in Int /\ x = C * (x \div C) + (x % C)
  BY SMT

LEMMA LeavesOver ==
    ASSUME NEW C \in Nat \ {0}, NEW q \in Int, NEW r \in 0..C - 1
    PROVE  (C * q + r) % C = r
  BY SMT

LEMMA LeavesNothing ==
    ASSUME NEW C \in Nat \ {0}, NEW q \in Int
    PROVE  (C * q + 0) % C = 0
  BY SMT

LEMMA HalfDivided ==
    ASSUME NEW x \in Int
    PROVE  /\ x % Past!Half \in 0..Past!Half - 1 /\ x \div Past!Half \in Int
           /\ x = Past!Half * (x \div Past!Half) + (x % Past!Half)
  BY DividedBy, HalfNat

LEMMA HalfUnique ==
    ASSUME NEW q \in Int, NEW r \in 0..Past!Half - 1
    PROVE  (Past!Half * q + r) % Past!Half = r
  BY LeavesOver, HalfNat

LEMMA WordParts ==
    ASSUME NEW a \in Past!Word
    PROVE  /\ a.lo \in 0 .. Past!Half - 1 /\ a.hi \in 0 .. Past!Half - 1
           /\ a.lo \in Int /\ a.hi \in Int
<1>1. a.lo \in 0 .. Past!Half - 1 /\ a.hi \in 0 .. Past!Half - 1
  BY DEF Past!Word
<1> QED
  BY <1>1, HalfNat

LEMMA Halves ==
    ASSUME NEW x \in 0..Past!Half - 1
    PROVE  Past!W(x) = [hi |-> 0, lo |-> x] /\ Past!W(x) \in Past!Word
<1>1. x \in Int /\ x >= 0 /\ x < Past!Half
  BY HalfNat
<1>2. x = Past!Half * (x \div Past!Half) + (x % Past!Half) /\ x \div Past!Half \in Int
         /\ x % Past!Half \in 0..Past!Half - 1
  BY <1>1, HalfDivided
<1>3. x % Past!Half = x
  <2>1. x = Past!Half * 0 + x
    BY <1>1, HalfNat
  <2> QED
    BY <2>1, HalfUnique
<1>4. x \div Past!Half = 0
  BY <1>1, <1>2, <1>3, HalfNat
<1>5. 0 \in 0 .. Past!Half - 1
  BY HalfNat
<1> QED
  BY <1>3, <1>4, <1>5 DEF Past!W, Past!Word

LEMMA SumWord ==
    ASSUME NEW a \in Past!Word, NEW b \in Past!Word
    PROVE  Past!Sum(a, b) \in Past!Word
<1>0. a.lo + b.lo \in Int /\ a.hi + b.hi \in Int
  BY WordParts
<1>1. (a.lo + b.lo) \div Past!Half \in Int /\ (a.lo + b.lo) % Past!Half \in 0 .. Past!Half - 1
  BY <1>0, HalfDivided
<1>2. a.hi + b.hi + (a.lo + b.lo) \div Past!Half \in Int
  BY <1>0, <1>1
<1>3. (a.hi + b.hi + (a.lo + b.lo) \div Past!Half) % Past!Half \in 0 .. Past!Half - 1
  BY <1>2, HalfDivided
<1> QED
  BY <1>1, <1>3 DEF Past!Sum, Past!Word

LEMMA ProductWord ==
    ASSUME NEW a \in Past!Word, NEW n \in Int
    PROVE  Past!Product(a, n) \in Past!Word
<1>0. a.lo \in Int /\ a.hi \in Int
  BY WordParts
<1>1. a.lo * n \in Int /\ a.hi * n \in Int
  BY <1>0
<1>2. (a.lo * n) \div Past!Half \in Int /\ (a.lo * n) % Past!Half \in 0 .. Past!Half - 1
         /\ (a.hi * n) % Past!Half \in 0 .. Past!Half - 1
  BY <1>1, HalfDivided
<1>4. ((a.hi * n) % Past!Half) + ((a.lo * n) \div Past!Half) \in Int
  BY <1>2, HalfNat
<1>3. (((a.hi * n) % Past!Half) + ((a.lo * n) \div Past!Half)) % Past!Half
         \in 0 .. Past!Half - 1
  BY <1>4, HalfDivided
<1> QED
  BY <1>2, <1>3 DEF Past!Product, Past!Word

LEMMA DifferenceWord ==
    ASSUME NEW a \in Past!Word, NEW b \in Past!Word
    PROVE  Past!Difference(a, b) \in Past!Word
<1> DEFINE borrow == IF a.lo < b.lo THEN 1 ELSE 0
<1>0. a.lo - b.lo \in Int /\ a.hi - b.hi - borrow \in Int
  BY WordParts
<1>1. (a.lo - b.lo) % Past!Half \in 0 .. Past!Half - 1
  BY <1>0, HalfDivided
<1> HIDE DEF borrow
<1>3. (a.hi - b.hi - borrow) % Past!Half \in 0 .. Past!Half - 1
  BY <1>0, HalfDivided
<1> QED
  BY <1>1, <1>3 DEF Past!Difference, Past!Word, borrow

\* The products of two words whose difference is i, over the integers: the lower
\* halves, and the upper ones.
LEMMA LowerHalves ==
    ASSUME NEW idx \in Int, NEW l \in Int, NEW bl \in Int, NEW pl \in Int, NEW sl \in Int,
           NEW Hc \in Int, NEW Hq \in Int, NEW Hr \in Int,
           l + idx = Hc + bl, l * 1000 = Hq + pl, bl * 1000 = Hr + sl
    PROVE  Hq - Hr - 1000 * Hc = sl - pl - 1000 * idx
  OBVIOUS

LEMMA UpperHalves ==
    ASSUME NEW h \in Int, NEW bh \in Int, NEW c \in Int, NEW q \in Int, NEW r \in Int,
           NEW x \in Int, NEW x2 \in Int, NEW ph \in Int, NEW sh \in Int,
           NEW Hc2 \in Int, NEW Hv \in Int, NEW Hv2 \in Int, NEW Hu \in Int, NEW Hw \in Int,
           h + c = Hc2 + bh, h * 1000 = Hv + x, bh * 1000 = Hv2 + x2,
           x + q = Hu + ph, x2 + r = Hw + sh
    PROVE  ph - sh = q - r - 1000 * c + (1000 * Hc2 + Hv2 + Hw - Hv - Hu)
  OBVIOUS

LEMMA ProductsOut ==
    ASSUME NEW H \in Int, NEW q \in Int, NEW r \in Int, NEW c \in Int,
           NEW c2 \in Int, NEW v \in Int, NEW v2 \in Int, NEW u \in Int, NEW w \in Int
    PROVE  /\ H * (q - r - 1000 * c) = H * q - H * r - 1000 * (H * c)
           /\ H * (1000 * c2 + v2 + w - v - u)
                 = 1000 * (H * c2) + H * v2 + H * w - H * v - H * u
  OBVIOUS

LEMMA ProductInt ==
    ASSUME NEW a \in Int, NEW b \in Int
    PROVE  a * b \in Int
  OBVIOUS

LEMMA RemainderInt ==
    ASSUME NEW C \in Nat \ {0}, NEW x \in Int
    PROVE  x % C \in Int
<1>1. x % C \in 0..C - 1
  BY DividedBy
<1> QED
  BY <1>1

\* Less one from the upper half is less than nothing.
LEMMA Borrowed ==
    ASSUME NEW H \in Int, NEW k \in Int, NEW z \in Int, NEW ph \in Int, NEW sh \in Int,
           NEW b \in Int, ph - sh = k + H * z
    PROVE  /\ z - 1 \in Int /\ k - b + H \in Int
           /\ ph - sh - b = H * (z - 1) + (k - b + H)
           /\ k = 0 /\ b = 0 => ph - sh - b = H * z + 0
<1>1. H * (z - 1) = H * z - H /\ H * z \in Int
  OBVIOUS
<1> QED
  BY <1>1

LEMMA NothingLeft ==
    ASSUME NEW H \in Nat \ {0, 1}, NEW k \in Int, NEW s \in 0 .. H - 1, NEW p \in 0 .. H - 1,
              H * k = s - p
    PROVE  k = 0 /\ s = p
<1>1. k >= 1 => H * k >= H
  OBVIOUS
<1>2. k <= -1 => H * k <= -H
  OBVIOUS
<1> QED
  BY <1>1, <1>2

\* What an interval of so much idle time leaves over at the highest speed: nothing,
\* or less, though the products may wrap.
LEMMA AtFullSpeed ==
    ASSUME NEW a \in Past!Word, NEW idx \in Past!Millis
    PROVE  LET d == Past!Difference(Past!Product(a, 1000), Past!Product(Past!Sum(a,
              Past!W(idx)), 1000))
           IN  (idx = 0 => d = Past!W(0)) /\ (idx # 0 => Past!Negative(d))
<1> DEFINE b == Past!Sum(a, Past!W(idx))
           p == Past!Product(a, 1000)
           s == Past!Product(b, 1000)
\* The numbers in it.
<1>1. PICK H \in Nat \ {0} : H = Past!Half
  BY HalfNat
<1>2. Past!W(idx) = [hi |-> 0, lo |-> idx] /\ Past!W(0) = [hi |-> 0, lo |-> 0]
         /\ Past!W(idx) \in Past!Word
  <2>1. idx \in 0 .. Past!Half - 1 /\ 0 \in 0 .. Past!Half - 1
    BY SmallHalf, HalfNat
  <2> QED
    BY <2>1, Halves
<1>3. b \in Past!Word /\ p \in Past!Word /\ s \in Past!Word
  BY <1>2, SumWord, ProductWord
<1>4. PICK l \in Int : l = a.lo
  BY WordParts
<1>5. PICK h \in Int : h = a.hi
  BY WordParts
<1>6. PICK bl \in Int : bl = b.lo
  BY <1>3, WordParts
<1>7. PICK bh \in Int : bh = b.hi
  BY <1>3, WordParts
<1>8. PICK pl \in Int : pl = p.lo /\ pl \in 0 .. H - 1
  BY <1>1, <1>3, WordParts
<1>9. PICK ph \in Int : ph = p.hi
  BY <1>3, WordParts
<1>10. PICK sl \in Int : sl = s.lo /\ sl \in 0 .. H - 1
  BY <1>1, <1>3, WordParts
<1>11. PICK sh \in Int : sh = s.hi
  BY <1>3, WordParts
<1>12. PICK j \in Int : j = idx
  BY SmallHalf
<1>13. bl = (l + j) % H /\ bh = (h + 0 + (l + j) \div H) % H
  BY <1>1, <1>2, <1>4, <1>5, <1>6, <1>7, <1>12 DEF Past!Sum
<1>14. /\ pl = (l * 1000) % H /\ ph = (((h * 1000) % H) + ((l * 1000) \div H)) % H
       /\ sl = (bl * 1000) % H /\ sh = (((bh * 1000) % H) + ((bl * 1000) \div H)) % H
  BY <1>1, <1>4, <1>5, <1>6, <1>7, <1>8, <1>9, <1>10, <1>11 DEF Past!Product
<1>15. PICK borrow \in Int : /\ borrow = IF pl < sl THEN 1 ELSE 0
                             /\ borrow = 0 \/ borrow = 1
  OBVIOUS
<1>16. Past!Difference(p, s) = [hi |-> (ph - sh - borrow) % H, lo |-> (pl - sl) % H]
  BY <1>1, <1>8, <1>9, <1>10, <1>11, <1>15 DEF Past!Difference
<1> HIDE DEF b, p, s
\* The quotients.
<1>17. PICK c \in Int : c = (l + j) \div H /\ l + j = H * c + bl
  <2>1. l + j \in Int
    OBVIOUS
  <2>2. l + j = H * ((l + j) \div H) + ((l + j) % H) /\ (l + j) \div H \in Int
    BY <2>1, DividedBy
  <2> QED
    BY <1>13, <2>2
<1>18. bh = (h + c) % H
  <2>1. h + 0 + c = h + c
    OBVIOUS
  <2>2. bh = (h + 0 + c) % H
    BY <1>13, <1>17
  <2> QED
    BY <2>1, <2>2
<1>19. PICK c2 \in Int : c2 = (h + c) \div H /\ h + c = H * c2 + bh
  <2>1. h + c \in Int
    OBVIOUS
  <2>2. h + c = H * ((h + c) \div H) + ((h + c) % H) /\ (h + c) \div H \in Int
    BY <2>1, DividedBy
  <2> QED
    BY <1>18, <2>2
<1>20. PICK q \in Int : q = (l * 1000) \div H /\ l * 1000 = H * q + pl
  <2>1. l * 1000 \in Int
    OBVIOUS
  <2>2. l * 1000 = H * ((l * 1000) \div H) + ((l * 1000) % H) /\ (l * 1000) \div H \in Int
    BY <2>1, DividedBy
  <2>3. pl = (l * 1000) % H
    BY <1>14
  <2>4. l * 1000 = H * ((l * 1000) \div H) + pl
    BY <2>2, <2>3
  <2> QED
    BY <2>2, <2>4
<1>21. PICK r \in Int : r = (bl * 1000) \div H /\ bl * 1000 = H * r + sl
  <2>1. bl * 1000 \in Int
    OBVIOUS
  <2>2. bl * 1000 = H * ((bl * 1000) \div H) + ((bl * 1000) % H) /\ (bl * 1000) \div H \in Int
    BY <2>1, DividedBy
  <2> QED
    BY <1>14, <2>2
<1>22. PICK x \in Int : x = (h * 1000) % H
  BY RemainderInt
<1>23. PICK v \in Int : v = (h * 1000) \div H /\ h * 1000 = H * v + x
  <2>1. h * 1000 \in Int
    OBVIOUS
  <2>2. h * 1000 = H * ((h * 1000) \div H) + ((h * 1000) % H) /\ (h * 1000) \div H \in Int
    BY <2>1, DividedBy
  <2> QED
    BY <1>22, <2>2
<1>24. PICK x2 \in Int : x2 = (bh * 1000) % H
  BY RemainderInt
<1>25. PICK v2 \in Int : v2 = (bh * 1000) \div H /\ bh * 1000 = H * v2 + x2
  <2>1. bh * 1000 \in Int
    OBVIOUS
  <2>2. bh * 1000 = H * ((bh * 1000) \div H) + ((bh * 1000) % H) /\ (bh * 1000) \div H \in Int
    BY <2>1, DividedBy
  <2> QED
    BY <1>24, <2>2
<1>26. ph = (x + q) % H /\ sh = (x2 + r) % H
  BY <1>14, <1>20, <1>21, <1>22, <1>24
<1>27. PICK u \in Int : u = (x + q) \div H /\ x + q = H * u + ph
  <2>1. x + q \in Int
    OBVIOUS
  <2>2. x + q = H * ((x + q) \div H) + ((x + q) % H) /\ (x + q) \div H \in Int
    BY <2>1, DividedBy
  <2> QED
    BY <1>26, <2>2
<1>28. PICK w \in Int : w = (x2 + r) \div H /\ x2 + r = H * w + sh
  <2>1. x2 + r \in Int
    OBVIOUS
  <2>2. x2 + r = H * ((x2 + r) \div H) + ((x2 + r) % H) /\ (x2 + r) \div H \in Int
    BY <2>1, DividedBy
  <2> QED
    BY <1>26, <2>2
\* Together.
<1>29. PICK k \in Int : k = q - r - 1000 * c
  OBVIOUS
<1>30. PICK z \in Int : z = 1000 * c2 + v2 + w - v - u
  OBVIOUS
<1>31. /\ H * k = H * q - H * r - 1000 * (H * c)
       /\ H * z = 1000 * (H * c2) + H * v2 + H * w - H * v - H * u
  BY <1>29, <1>30, ProductsOut
<1>32. H * k = sl - pl - 1000 * j
  BY <1>17, <1>20, <1>21, <1>31, LowerHalves
<1>33. ph - sh = k + H * z
  BY <1>19, <1>23, <1>25, <1>27, <1>28, <1>29, <1>31, UpperHalves
<1>34. /\ ph - sh - borrow = H * (z - 1) + (k - borrow + H)
       /\ k = 0 /\ borrow = 0 => ph - sh - borrow = H * z + 0
  BY <1>33, Borrowed
<1>35. CASE idx = 0
  <2>1. H * k = sl - pl
    BY <1>12, <1>32, <1>35
  <2>2. k = 0 /\ sl = pl
    <3>1. H \in Nat \ {0, 1}
      BY <1>1, HalfNat
    <3>2. sl \in 0 .. H - 1 /\ pl \in 0 .. H - 1
      BY <1>8, <1>10
    <3> QED
      BY <2>1, <3>1, <3>2, NothingLeft
  <2>3. borrow = 0
    BY <1>15, <2>2
  <2>4. 0 \in 0 .. H - 1
    OBVIOUS
  <2>5. (H * z + 0) % H = 0
    BY LeavesNothing
  <2>6. (ph - sh - borrow) % H = 0
    BY <1>34, <2>2, <2>3, <2>5
  <2>7. (pl - sl) % H = 0
    <3>1. pl - sl = H * 0 + 0
      BY <2>2
    <3>2. (H * 0 + 0) % H = 0
      BY LeavesNothing
    <3> QED
      BY <3>1, <3>2
  <2> QED
    BY <1>2, <1>16, <1>35, <2>6, <2>7 DEF p, s, b
<1>36. CASE idx # 0
  <2>1. PICK e \in Int : e = k - borrow + H
    OBVIOUS
  <2>2. e >= 0 /\ e <= H - 1 /\ e >= 32768
    <3>1. /\ sl >= 0 /\ pl >= 0 /\ sl < H /\ pl < H
      BY <1>8, <1>10
    <3>2. j >= 1 /\ j <= 32767
      BY <1>12, <1>36 DEF Past!Millis
    <3>3. pl < sl => borrow = 1
      BY <1>15
    <3>4. H = 65536
      BY <1>1 DEF Past!Half
    <3>5. k - borrow <= -1
      BY <1>15, <1>32, <3>1, <3>2, <3>3, <3>4
    <3>6. k >= -501
      BY <1>32, <3>1, <3>2, <3>4
    <3> QED
      BY <1>15, <2>1, <3>4, <3>5, <3>6
  <2>3. (H * (z - 1) + e) % H = e
    <3>1. PICK y \in Int : y = z - 1
      OBVIOUS
    <3>2. e >= 0 /\ e <= H - 1
      BY <2>2
    <3>4. (Past!Half * y + e) % Past!Half = e
      <4>1. e \in 0 .. Past!Half - 1
        BY <1>1, <3>2
      <4> QED
        BY <4>1, HalfUnique
    <3>3. (H * y + e) % H = e
      BY <1>1, <3>4
    <3> QED
      BY <3>1, <3>3
  <2>4. (ph - sh - borrow) % H = e
    BY <1>34, <2>1, <2>3
  <2> QED
    BY <1>16, <1>36, <2>2, <2>4 DEF p, s, b, Past!Negative
<1> QED
  BY <1>35, <1>36

LEMMA ZeroWord == Past!W(0) = [hi |-> 0, lo |-> 0] /\ Past!W(0) \in Past!Word
    /\ Past!W(0).hi = 0 /\ ~Past!Negative(Past!W(0))
<1>1. 0 \in 0 .. Past!Half - 1
  BY HalfNat
<1>2. Past!W(0) = [hi |-> 0, lo |-> 0] /\ Past!W(0) \in Past!Word
  BY <1>1, Halves
<1> QED
  BY <1>2 DEF Past!Negative

\* The least speed: 26, and not 185, as the product is cut off.
LEMMA LeastSpeed == Past!MinSpeed = 26
<1>1. 5000000 \div 65536 = 76 /\ 5000000 % 65536 = 19264
  BY SMT
<1>2. Past!W(5000000) = [hi |-> 76, lo |-> 19264]
  BY <1>1 DEF Past!W, Past!Half
<1>3. (76 * 1000) % 65536 = 10464 /\ (19264 * 1000) \div 65536 = 293
         /\ (19264 * 1000) % 65536 = 61952
  BY SMT
<1>4. (10464 + 293) % 65536 = 10757
  BY SMT
<1>5. Past!Product(Past!W(5000000), 1000) = [hi |-> 10757, lo |-> 61952]
  BY <1>2, <1>3, <1>4 DEF Past!Product, Past!Half
<1>6. 10757 \div 8000 = 1 /\ ((10757 % 8000) * 65536 + 61952) \div 8000 = 22593
  BY SMT
<1>7. Past!Quotient([hi |-> 10757, lo |-> 61952], 8000) = [hi |-> 1, lo |-> 22593]
  BY <1>6 DEF Past!Quotient, Past!Half
<1>8. ((1 % 3375) * 65536 + 22593) \div 3375 = 26
  BY SMT
<1>9. Past!Quotient([hi |-> 1, lo |-> 22593], 3375).lo = 26
  BY <1>8 DEF Past!Quotient, Past!Half
<1> QED
  BY <1>5, <1>7, <1>9 DEF Past!MinSpeed, Past!Scale

LEMMA RunWord ==
    ASSUME PastInv, NEW idle \in Past!Millis
    PROVE  Past!Run(idle) \in Past!Word /\ Past!W(idle) \in Past!Word
<1>1. (IF idle >= Past!Interval THEN 0 ELSE Past!Interval - idle) \in Past!Millis
  <2>1. idle \in Nat
    BY DEF Past!Millis
  <2>2. (IF idle >= Past!Interval THEN 0 ELSE Past!Interval - idle) \in 0 .. 50
    BY <2>1 DEF Past!Interval
  <2> QED
    BY <2>2, SmallMillis
<1>2. Past!W(IF idle >= Past!Interval THEN 0 ELSE Past!Interval - idle) \in Past!Word
  BY <1>1, SmallHalf, Halves
<1>3. Past!W(idle) \in Past!Word
  BY SmallHalf, Halves
<1> QED
  BY <1>2, <1>3, SumWord DEF Past!Run, PastInv

LEMMA ExcessStep ==
    ASSUME PastInv, NEW idle \in Past!Millis
    PROVE  /\ Past!NextExcess(idle) \in Past!Word /\ Past!NextExcess(idle).hi < 32768
           /\ speed = Past!MaxSpeed => Past!NextExcess(idle) = Past!W(0)
<1>1. Past!Run(idle) \in Past!Word /\ Past!W(idle) \in Past!Word
  BY RunWord
<1>2. speed \in Int /\ Past!Scale \in Int
  BY LeastSpeed DEF PastInv, Past!MaxSpeed, Past!Scale
<1>3. Past!Over(idle) \in Past!Word
  BY <1>1, <1>2, SumWord, ProductWord, DifferenceWord DEF Past!Over
<1>4. Past!Over(idle).hi \in Int
  BY <1>3, WordParts
<1>5. Past!NextExcess(idle) \in Past!Word /\ Past!NextExcess(idle).hi < 32768
  BY <1>3, <1>4, ZeroWord DEF Past!NextExcess, Past!Negative
<1>6. ASSUME speed = Past!MaxSpeed PROVE Past!NextExcess(idle) = Past!W(0)
  <2>1. Past!Over(idle) = Past!Difference(Past!Product(Past!Run(idle), 1000),
           Past!Product(Past!Sum(Past!Run(idle), Past!W(idle)), 1000))
    BY <1>6 DEF Past!Over, Past!MaxSpeed, Past!Scale
  <2>2. Past!Over(idle) = Past!W(0) \/ Past!Negative(Past!Over(idle))
    BY <1>1, <2>1, AtFullSpeed
  <2> QED
    BY <2>2 DEF Past!NextExcess
<1> QED
  BY <1>5, <1>6

LEMMA SpeedStep ==
    ASSUME PastInv, NEW idle \in Past!Millis
    PROVE  Past!NewSpeed(idle) \in Past!MinSpeed .. Past!MaxSpeed
<1>1. \A s \in Int : Past!Clamped(s) \in Past!MinSpeed .. Past!MaxSpeed
  BY LeastSpeed DEF Past!Clamped, Past!MaxSpeed, Past!Scale
<1>2. speed \in Int /\ Past!MaxSpeed \in Int
  BY LeastSpeed DEF PastInv, Past!MaxSpeed, Past!Scale
<1>3. Past!Percent(idle).lo \in Int
  <2>1. Past!Product(Past!Run(idle), Past!Scale) \in Past!Word
    BY RunWord, ProductWord DEF Past!Scale
  <2> DEFINE p == Past!Product(Past!Run(idle), Past!Scale)
  <2>2. p.hi \in Int /\ p.lo \in Int
    BY <2>1, WordParts
  <2>3. Past!Percent(idle).lo = ((p.hi % Past!Interval) * Past!Half + p.lo) \div Past!Interval
    BY DEF Past!Percent, Past!Quotient
  <2> HIDE DEF p
  <2>4. p.hi % Past!Interval \in Int /\ Past!Interval \in Nat \ {0} /\ Past!Half \in Int
    BY <2>2, RemainderInt, HalfNat DEF Past!Interval
  <2>5. (p.hi % Past!Interval) * Past!Half + p.lo \in Int
    BY <2>2, <2>4
  <2> QED
    BY <2>3, <2>4, <2>5, DividedBy
<1>4. speed + 200 \in Int /\ speed - (600 - Past!Percent(idle).lo) \in Int
  BY <1>2, <1>3
<1> QED
  BY <1>1, <1>2, <1>4 DEF Past!NewSpeed

\* An interval without idle time.
LEMMA BusyStep ==
    ASSUME PastInv
    PROVE  /\ excess # Past!W(0) => Past!NewSpeed(0) = Past!MaxSpeed
           /\ speed = Past!MaxSpeed => Past!NewSpeed(0) = Past!MaxSpeed
           /\ excess = Past!W(0) /\ speed # Past!MaxSpeed => Past!NextExcess(0) # Past!W(0)
<1>1. Past!Clamped(Past!MaxSpeed) = Past!MaxSpeed /\ Past!Clamped(1200) = Past!MaxSpeed
  BY LeastSpeed DEF Past!Clamped, Past!MaxSpeed, Past!Scale
<1>2. ASSUME excess # Past!W(0) PROVE Past!NewSpeed(0) = Past!MaxSpeed
  <2>1. 0 \div Past!Half = 0 /\ 0 % Past!Half = 0
    BY ZeroWord DEF Past!W
  <2>2. excess.hi \in Int /\ excess.lo \in Int /\ excess.hi >= 0 /\ excess.lo >= 0
           /\ ~(excess.hi >= 32768)
    BY WordParts, HalfNat DEF PastInv
  <2>3. excess.hi # 0 \/ excess.lo # 0
    <3>1. excess = [hi |-> excess.hi, lo |-> excess.lo]
      BY DEF PastInv, Past!Word
    <3> QED
      BY <1>2, <3>1, ZeroWord
  <2>4. Past!Exceeds(excess, 0)
    BY <2>1, <2>2, <2>3 DEF Past!Exceeds, Past!Negative
  <2> QED
    BY <1>1, <2>4 DEF Past!NewSpeed
<1>3. ASSUME excess = Past!W(0) PROVE Past!Run(0) = [hi |-> 0, lo |-> 50]
  <2>1. Past!W(50) = [hi |-> 0, lo |-> 50] /\ Past!W(0) = [hi |-> 0, lo |-> 0]
    <3>1. 50 \in Past!Millis
      BY SmallMillis
    <3> QED
      BY <3>1, SmallHalf, Halves, ZeroWord
  <2>2. (50 + 0) \div 65536 = 0 /\ (50 + 0) % 65536 = 50 /\ (0 + 0 + 0) % 65536 = 0
    BY SMT
  <2> QED
    BY <1>3, <2>1, <2>2 DEF Past!Run, Past!Sum, Past!Interval, Past!Half
<1>4. ASSUME excess = Past!W(0) PROVE Past!NewSpeed(0) = Past!Clamped(speed + 200)
  <2>1. (0 * 1000) % 65536 = 0 /\ (50 * 1000) \div 65536 = 0 /\ (50 * 1000) % 65536 = 50000
           /\ (0 + 0) % 65536 = 0
    BY SMT
  <2>2. Past!Product(Past!Run(0), Past!Scale) = [hi |-> 0, lo |-> 50000]
    BY <1>3, <1>4, <2>1 DEF Past!Product, Past!Scale, Past!Half
  <2>3. 0 \div 50 = 0 /\ ((0 % 50) * 65536 + 50000) \div 50 = 1000
    BY SMT
  <2>4. Past!Percent(0) = [hi |-> 0, lo |-> 1000]
    BY <2>2, <2>3 DEF Past!Percent, Past!Quotient, Past!Interval, Past!Half
  <2>5. /\ 700 \div 65536 = 0 /\ 700 % 65536 = 700
        /\ 499 \div 65536 = 0 /\ 499 % 65536 = 499
    BY SMT
  <2>6. Past!Exceeds(Past!Percent(0), 700) /\ Past!Exceeds(Past!Percent(0), 499)
    BY <2>4, <2>5 DEF Past!Exceeds, Past!Negative, Past!Half
  <2>7. ~Past!Exceeds(excess, 0)
    <3>1. 0 \div Past!Half = 0 /\ 0 % Past!Half = 0
      BY ZeroWord DEF Past!W
    <3>2. excess.hi = 0 /\ excess.lo = 0
      BY <1>4, ZeroWord
    <3> QED
      BY <3>1, <3>2 DEF Past!Exceeds
  <2>8. (CASE Past!Exceeds(excess, 0) -> Past!MaxSpeed
           [] ~Past!Exceeds(excess, 0) /\ Past!Exceeds(Past!Percent(0), 700) -> speed + 200
           [] ~Past!Exceeds(excess, 0) /\ ~Past!Exceeds(Past!Percent(0),
              499) -> speed - (600 - Past!Percent(0).lo)
           [] OTHER -> speed) = speed + 200
    BY <2>6, <2>7, Zenon
  <2> QED
    BY <2>8 DEF Past!NewSpeed
<1>5. ASSUME speed = Past!MaxSpeed PROVE Past!NewSpeed(0) = Past!MaxSpeed
  <2>1. speed + 200 = 1200
    BY <1>5 DEF Past!MaxSpeed, Past!Scale
  <2> QED
    BY <1>1, <1>2, <1>4, <2>1
<1>6. ASSUME excess = Past!W(0), speed # Past!MaxSpeed PROVE Past!NextExcess(0) # Past!W(0)
  <2>1. PICK s \in Int : s = speed /\ s >= 0 /\ s < 1000
    BY <1>6, LeastSpeed DEF PastInv, Past!MaxSpeed, Past!Scale
  <2>2. (0 * 1000) % 65536 = 0 /\ (50 * 1000) \div 65536 = 0 /\ (50 * 1000) % 65536 = 50000
           /\ (0 + 0) % 65536 = 0
    BY SMT
  <2>3. Past!Product(Past!Run(0), Past!Scale) = [hi |-> 0, lo |-> 50000]
    BY <1>3, <1>6, <2>2 DEF Past!Product, Past!Scale, Past!Half
  <2>4. (50 + 0) \div 65536 = 0 /\ (50 + 0) % 65536 = 50 /\ (0 + 0 + 0) % 65536 = 0
    BY SMT
  <2>5. Past!Sum(Past!Run(0), Past!W(0)) = [hi |-> 0, lo |-> 50]
    BY <1>3, <1>6, <2>4, ZeroWord DEF Past!Sum, Past!Half
  <2>6. (0 * s) % 65536 = 0 /\ (50 * s) \div 65536 = 0 /\ (50 * s) % 65536 = 50 * s
    BY <2>1, SMT
  <2>7. Past!Product([hi |-> 0, lo |-> 50], s) = [hi |-> 0, lo |-> 50 * s]
    BY <2>2, <2>6 DEF Past!Product, Past!Half
  <2>8. (50000 - 50 * s) % 65536 = 50000 - 50 * s /\ ~(50000 < 50 * s)
           /\ (0 - 0 - 0) % 65536 = 0
    BY <2>1, SMT
  <2>9. Past!Over(0) = [hi |-> 0, lo |-> 50000 - 50 * s]
    BY <2>1, <2>3, <2>5, <2>7, <2>8 DEF Past!Over, Past!Difference, Past!Half
  <2>10. ~Past!Negative(Past!Over(0)) /\ Past!Over(0).lo # 0
    BY <2>1, <2>9 DEF Past!Negative
  <2> QED
    BY <2>10, ZeroWord DEF Past!NextExcess
<1> QED
  BY <1>2, <1>5, <1>6

LEMMA InitPastInv ==
    ASSUME Past!Init
    PROVE  PastInv
  BY ZeroWord, LeastSpeed DEF Past!Init, PastInv, Past!MaxSpeed, Past!Scale

LEMMA NextPastInv ==
    ASSUME Past!PastAssumption, PastInv, [Past!Next]_(Past!vars)
    PROVE  PastInv' /\ Past!NothingOver
<1>1. ASSUME NEW idle \in IdleTimes, Past!Update(idle)
      PROVE  PastInv' /\ Past!NothingOver
  <2>1. idle \in Past!Millis
    BY DEF Past!PastAssumption
  <2>2. /\ speed' = Past!NewSpeed(idle) /\ excess' = Past!NextExcess(idle)
        /\ busy' = IF idle = 0 THEN busy + 1 ELSE 0
    BY <1>1 DEF Past!Update
  <2>3. speed' \in Past!MinSpeed .. Past!MaxSpeed
    BY <2>1, <2>2, SpeedStep
  <2>4. excess' \in Past!Word /\ excess'.hi < 32768 /\ (speed = Past!MaxSpeed
           => excess' = Past!W(0))
    BY <2>1, <2>2, ExcessStep
  <2>5. busy' \in Nat
    BY <2>2 DEF PastInv
  <2>6. ASSUME busy' >= 1 PROVE speed' = Past!MaxSpeed \/ excess' # Past!W(0)
    <3>1. idle = 0
      BY <2>2, <2>6
    <3> QED
      BY <2>2, <3>1, BusyStep
  <2>7. ASSUME busy' >= 2 PROVE speed' = Past!MaxSpeed
    <3>1. idle = 0 /\ busy >= 1
      BY <2>2, <2>7 DEF PastInv
    <3> QED
      BY <2>2, <3>1, BusyStep DEF PastInv
  <2>8. PastInv'
    <3>1. Past!MinSpeed' = Past!MinSpeed /\ Past!MaxSpeed' = Past!MaxSpeed
             /\ Past!W(0)' = Past!W(0) /\ Past!Word' = Past!Word
      BY DEF Past!MinSpeed, Past!MaxSpeed, Past!Scale, Past!W, Past!Word, Past!Half,
         Past!Quotient, Past!Product
    <3> QED
      BY <2>3, <2>4, <2>5, <2>6, <2>7 DEF PastInv
  <2> QED
    BY <2>4, <2>8 DEF Past!NothingOver
<1>2. CASE UNCHANGED Past!vars
  BY <1>2 DEF Past!vars, PastInv, Past!NothingOver
<1> QED
  BY <1>1, <1>2 DEF Past!Next

LEMMA PastInvFull ==
    ASSUME PastInv
    PROVE  Past!FullSpeedIfBusy
  BY DEF PastInv, Past!FullSpeedIfBusy

(***************************************************************************)
(* The radio (RadioDriver): the steps that are left of each call, and the  *)
(* chip at each of them.                                                   *)
(***************************************************************************)

\* The call is there, and the radio.
RadioAt(steps, c) == todo = steps /\ chip = c

\* The flags tell what the radio was before the call.
FlagsKept ==
    \/ before = "off" /\ sleeping = TRUE /\ rxEnabled = FALSE
    \/ before = "idle" /\ sleeping = FALSE /\ rxEnabled = FALSE
    \/ before = "rx" /\ sleeping = FALSE /\ rxEnabled = TRUE

AtListening ==
    \/ before = "rx" /\ (RadioAt(<<"wait">>, "rx") \/ RadioAt(<<>>, "rx"))
    \/ before = "idle" /\ \/ RadioAt(<<"rxon", "wait", "rxidle">>, "idle")
                          \/ RadioAt(<<"wait", "rxidle">>, "rx")
                          \/ RadioAt(<<"rxidle">>, "rx") \/ RadioAt(<<>>, "idle")
    \/ before = "off" /\ \/ RadioAt(<<"wakeup", "rxon", "wait", "sleep">>, "off")
                         \/ RadioAt(<<"rxon", "wait", "sleep">>, "idle")
                         \/ RadioAt(<<"wait", "sleep">>, "rx") \/ RadioAt(<<"sleep">>, "rx")
                         \/ RadioAt(<<>>, "off")

AtPlugin ==
    /\ rxEnabled = FALSE
    /\ \/ /\ sleeping = FALSE
          /\ \/ RadioAt(<<"wakeup", "transmit", "rxon", "wait", "rxidle", "rxidle",
                          "sleep">>, "off")
             \/ RadioAt(<<"transmit", "rxon", "wait", "rxidle", "rxidle", "sleep">>, "idle")
             \/ RadioAt(<<"rxon", "wait", "rxidle", "rxidle", "sleep">>, "idle")
             \/ RadioAt(<<"wait", "rxidle", "rxidle", "sleep">>, "rx")
             \/ RadioAt(<<"rxidle", "rxidle", "sleep">>, "rx")
             \/ RadioAt(<<"rxidle", "sleep">>, "idle") \/ RadioAt(<<"sleep">>, "idle")
       \/ sleeping = TRUE /\ RadioAt(<<>>, "off")

AtEnable ==
    /\ sleeping = FALSE /\ rxEnabled = TRUE
    /\ \/ RadioAt(<<"wakeup", "rxon">>, "off")
       \/ RadioAt(<<"rxon">>, "idle") \/ RadioAt(<<"rxon">>, "rx") \/ RadioAt(<<>>, "rx")

AtDisable ==
    /\ sleeping = FALSE /\ rxEnabled = FALSE
    /\ RadioAt(<<"rxidle">>, "rx") \/ RadioAt(<<>>, "idle")

AtSleep ==
    /\ sleeping = TRUE /\ rxEnabled = FALSE
    /\ \/ RadioAt(<<"rxidle", "sleep">>, "idle")
       \/ RadioAt(<<"sleep">>, "idle") \/ RadioAt(<<>>, "off")

AtAwake ==
    /\ sleeping = FALSE
    /\ \/ /\ rxEnabled = FALSE
          /\ \/ RadioAt(<<"wakeup">>, "off")
             \/ RadioAt(<<"wakeup">>, "idle") \/ RadioAt(<<>>, "idle")
       \/ rxEnabled = TRUE /\ (RadioAt(<<"wakeup">>, "rx") \/ RadioAt(<<>>, "rx"))

AtSend ==
    /\ FlagsKept
    /\ \/ before = "off" /\ \/ RadioAt(<<"wakeup", "transmit", "rxidle", "sleep">>, "off")
                            \/ RadioAt(<<"transmit", "rxidle", "sleep">>, "idle")
                            \/ RadioAt(<<"wakeup", "rxidle", "sleep">>, "off")
                            \/ RadioAt(<<"rxidle", "sleep">>, "idle")
                            \/ RadioAt(<<"sleep">>, "idle") \/ RadioAt(<<>>, "off")
       \/ before = "idle" /\ (RadioAt(<<"transmit">>, "idle") \/ RadioAt(<<>>, "idle"))
       \/ before = "rx" /\ (RadioAt(<<"transmit">>, "rx") \/ RadioAt(<<>>, "rx"))

AtLink ==
    /\ FlagsKept
    /\ before # "off"
    /\ \/ AtListening
       \/ before = "idle" /\ RadioAt(<<"transmit">>, "idle")
       \/ before = "rx" /\ RadioAt(<<"transmit">>, "rx")
       \/ before = "idle" /\ RadioAt(<<"transmit", "rxon", "wait", "rxidle">>, "idle")
       \/ before = "rx" /\ RadioAt(<<"transmit", "wait">>, "rx")

AtLinkListen ==
    FlagsKept /\ AtListening

RadioInv ==
    /\ hung = FALSE
    /\ frames \in 0 .. MaxPackets
    /\ \/ op = "plugin" /\ AtPlugin
       \/ op = "enable_rx" /\ AtEnable
       \/ op = "disable_rx" /\ AtDisable
       \/ op = "sleep" /\ AtSleep
       \/ op = "awake" /\ AtAwake
       \/ op = "send" /\ AtSend
       \/ op = "link" /\ AtLink
       \/ op = "link_listen" /\ AtLinkListen

-----------------------------------------------------------------------------
LEMMA TailsOf ==
    ASSUME NEW a, NEW b, NEW c, NEW d, NEW e, NEW f, NEW g
    PROVE  /\ Tail(<<a>>) = <<>> /\ Head(<<a>>) = a
           /\ Tail(<<a, b>>) = <<b>> /\ Head(<<a, b>>) = a
           /\ Tail(<<a, b, c>>) = <<b, c>> /\ Head(<<a, b, c>>) = a
           /\ Tail(<<a, b, c, d>>) = <<b, c, d>> /\ Head(<<a, b, c, d>>) = a
           /\ Tail(<<a, b, c, d, e>>) = <<b, c, d, e>> /\ Head(<<a, b, c, d, e>>) = a
           /\ Tail(<<a, b, c, d, e, f>>) = <<b, c, d, e, f>> /\ Head(<<a, b, c, d, e, f>>) = a
           /\ Tail(<<a, b, c, d, e, f, g>>) = <<b, c, d, e, f, g>>
           /\ Head(<<a, b, c, d, e, f, g>>) = a
<1>1. Tail(<<a>>) = <<>> /\ Head(<<a>>) = a
  OBVIOUS
<1>2. Tail(<<a, b>>) = <<b>> /\ Head(<<a, b>>) = a
  OBVIOUS
<1>3. Tail(<<a, b, c>>) = <<b, c>> /\ Head(<<a, b, c>>) = a
  OBVIOUS
<1>4. Tail(<<a, b, c, d>>) = <<b, c, d>> /\ Head(<<a, b, c, d>>) = a
  OBVIOUS
<1>5. Tail(<<a, b, c, d, e>>) = <<b, c, d, e>> /\ Head(<<a, b, c, d, e>>) = a
  OBVIOUS
<1>6. Tail(<<a, b, c, d, e, f>>) = <<b, c, d, e, f>> /\ Head(<<a, b, c, d, e, f>>) = a
  OBVIOUS
<1>7. /\ Tail(<<a, b, c, d, e, f, g>>) = <<b, c, d, e, f, g>>
      /\ Head(<<a, b, c, d, e, f, g>>) = a
  OBVIOUS
<1> QED
  BY <1>1, <1>2, <1>3, <1>4, <1>5, <1>6, <1>7

LEMMA InitRadioInv ==
    ASSUME MaxPackets \in Nat, Radio!Init
    PROVE  RadioInv
  BY DEF Radio!Init, RadioInv, AtPlugin, RadioAt

\* What the driver does.
ChipMoved(x, c) ==
    IF x = "wakeup" THEN IF c = "off" THEN "idle" ELSE c
    ELSE IF x = "rxon" THEN "rx" ELSE IF x = "rxidle" THEN "idle"
    ELSE IF x = "sleep" THEN "off" ELSE c

LEMMA ChipSteps ==
    ASSUME NEW x
    PROVE  Radio!Chip(x) = ChipMoved(x, chip)
<1>1. CASE x = "wakeup"
  BY <1>1, Zenon DEF Radio!Chip, ChipMoved
<1>2. CASE x = "rxon"
  BY <1>2, Zenon DEF Radio!Chip, ChipMoved
<1>3. CASE x = "rxidle"
  BY <1>3, Zenon DEF Radio!Chip, ChipMoved
<1>4. CASE x = "sleep"
  BY <1>4, Zenon DEF Radio!Chip, ChipMoved
<1>5. CASE x \notin {"wakeup", "rxon", "rxidle", "sleep"}
  BY <1>5, Zenon DEF Radio!Chip, ChipMoved
<1> QED
  BY <1>1, <1>2, <1>3, <1>4, <1>5

MayStep(x, c) == c # "off" \/ x \notin {"rxon", "rxidle", "transmit"}

LEMMA StepDoes ==
    ASSUME hung = FALSE, Radio!Step, MayStep(Head(todo), chip)
    PROVE  /\ hung' = FALSE /\ chip' = ChipMoved(Head(todo), chip) /\ todo' = Tail(todo)
           /\ todo # <<>> /\ UNCHANGED <<rxEnabled, op, frames, before>>
           /\ op # "plugin" \/ todo' # <<>> => sleeping' = sleeping
           /\ op = "plugin" /\ todo' = <<>> => sleeping' = TRUE
  BY ChipSteps DEF Radio!Step, Radio!Asserted, MayStep

LEMMA Step1 ==
    ASSUME hung = FALSE, Radio!Step, NEW a, NEW k,
           RadioAt(<<a>>, k), MayStep(a, k)
    PROVE  hung' = FALSE /\ RadioAt(<<>>, ChipMoved(a, k))'
<1>1. Head(todo) = a /\ Tail(todo) = <<>> /\ chip = k
  BY TailsOf DEF RadioAt
<1> QED
  BY <1>1, StepDoes DEF RadioAt

LEMMA Step2 ==
    ASSUME hung = FALSE, Radio!Step, NEW a, NEW b, NEW k,
           RadioAt(<<a, b>>, k), MayStep(a, k)
    PROVE  hung' = FALSE /\ RadioAt(<<b>>, ChipMoved(a, k))'
<1>1. Head(todo) = a /\ Tail(todo) = <<b>> /\ chip = k
  BY TailsOf DEF RadioAt
<1> QED
  BY <1>1, StepDoes DEF RadioAt

LEMMA Step3 ==
    ASSUME hung = FALSE, Radio!Step, NEW a, NEW b, NEW c, NEW k,
           RadioAt(<<a, b, c>>, k), MayStep(a, k)
    PROVE  hung' = FALSE /\ RadioAt(<<b, c>>, ChipMoved(a, k))'
<1>1. Head(todo) = a /\ Tail(todo) = <<b, c>> /\ chip = k
  BY TailsOf DEF RadioAt
<1> QED
  BY <1>1, StepDoes DEF RadioAt

LEMMA Step4 ==
    ASSUME hung = FALSE, Radio!Step, NEW a, NEW b, NEW c, NEW d, NEW k,
           RadioAt(<<a, b, c, d>>, k), MayStep(a, k)
    PROVE  hung' = FALSE /\ RadioAt(<<b, c, d>>, ChipMoved(a, k))'
<1>1. Head(todo) = a /\ Tail(todo) = <<b, c, d>> /\ chip = k
  BY TailsOf DEF RadioAt
<1> QED
  BY <1>1, StepDoes DEF RadioAt

LEMMA Step5 ==
    ASSUME hung = FALSE, Radio!Step, NEW a, NEW b, NEW c, NEW d, NEW e, NEW k,
           RadioAt(<<a, b, c, d, e>>, k), MayStep(a, k)
    PROVE  hung' = FALSE /\ RadioAt(<<b, c, d, e>>, ChipMoved(a, k))'
<1>1. Head(todo) = a /\ Tail(todo) = <<b, c, d, e>> /\ chip = k
  BY TailsOf DEF RadioAt
<1> QED
  BY <1>1, StepDoes DEF RadioAt

LEMMA Step6 ==
    ASSUME hung = FALSE, Radio!Step, NEW a, NEW b, NEW c, NEW d, NEW e, NEW f, NEW k,
           RadioAt(<<a, b, c, d, e, f>>, k), MayStep(a, k)
    PROVE  hung' = FALSE /\ RadioAt(<<b, c, d, e, f>>, ChipMoved(a, k))'
<1>1. Head(todo) = a /\ Tail(todo) = <<b, c, d, e, f>> /\ chip = k
  BY TailsOf DEF RadioAt
<1> QED
  BY <1>1, StepDoes DEF RadioAt

LEMMA Step7 ==
    ASSUME hung = FALSE, Radio!Step, NEW a, NEW b, NEW c, NEW d, NEW e, NEW f, NEW g, NEW k,
           RadioAt(<<a, b, c, d, e, f, g>>, k), MayStep(a, k)
    PROVE  hung' = FALSE /\ RadioAt(<<b, c, d, e, f, g>>, ChipMoved(a, k))'
<1>1. Head(todo) = a /\ Tail(todo) = <<b, c, d, e, f, g>> /\ chip = k
  BY TailsOf DEF RadioAt
<1> QED
  BY <1>1, StepDoes DEF RadioAt

LEMMA StepFlags ==
    ASSUME hung = FALSE, Radio!Step
    PROVE  /\ todo # <<>> /\ UNCHANGED <<rxEnabled, op, frames, before>>
           /\ op # "plugin" => sleeping' = sleeping
           /\ hung' = FALSE /\ todo' # <<>> => sleeping' = sleeping
           /\ hung' = FALSE /\ op = "plugin" /\ todo' = <<>> => sleeping' = TRUE
  BY DEF Radio!Step

LEMMA StepKept ==
    ASSUME hung = FALSE, Radio!Step, FlagsKept, op # "plugin"
    PROVE  FlagsKept'
<1>1. sleeping' = sleeping /\ rxEnabled' = rxEnabled /\ before' = before
  BY StepFlags
<1> QED
  BY <1>1 DEF FlagsKept

LEMMA ListeningStep ==
    ASSUME AtListening, Radio!Step, hung = FALSE
    PROVE  AtListening' /\ hung' = FALSE
<1>1. todo # <<>> /\ before' = before
  BY StepFlags
<1>2. CASE before = "rx"
  <2>1. CASE RadioAt(<<"wait">>, "rx")
    BY <1>1, <1>2, <2>1, Step1 DEF AtListening, ChipMoved, MayStep
  <2> QED
    BY <1>1, <1>2, <2>1 DEF AtListening, RadioAt
<1>3. CASE before = "idle"
  <2>1. CASE RadioAt(<<"rxon", "wait", "rxidle">>, "idle")
    BY <1>1, <1>3, <2>1, Step3 DEF AtListening, ChipMoved, MayStep
  <2>2. CASE RadioAt(<<"wait", "rxidle">>, "rx")
    BY <1>1, <1>3, <2>2, Step2 DEF AtListening, ChipMoved, MayStep
  <2>3. CASE RadioAt(<<"rxidle">>, "rx")
    BY <1>1, <1>3, <2>3, Step1 DEF AtListening, ChipMoved, MayStep
  <2> QED
    BY <1>1, <1>3, <2>1, <2>2, <2>3 DEF AtListening, RadioAt
<1>4. CASE before = "off"
  <2>1. CASE RadioAt(<<"wakeup", "rxon", "wait", "sleep">>, "off")
    BY <1>1, <1>4, <2>1, Step4 DEF AtListening, ChipMoved, MayStep
  <2>2. CASE RadioAt(<<"rxon", "wait", "sleep">>, "idle")
    BY <1>1, <1>4, <2>2, Step3 DEF AtListening, ChipMoved, MayStep
  <2>3. CASE RadioAt(<<"wait", "sleep">>, "rx")
    BY <1>1, <1>4, <2>3, Step2 DEF AtListening, ChipMoved, MayStep
  <2>4. CASE RadioAt(<<"sleep">>, "rx")
    BY <1>1, <1>4, <2>4, Step1 DEF AtListening, ChipMoved, MayStep
  <2> QED
    BY <1>1, <1>4, <2>1, <2>2, <2>3, <2>4 DEF AtListening, RadioAt
<1> QED
  BY <1>2, <1>3, <1>4 DEF AtListening

LEMMA PluginStep ==
    ASSUME AtPlugin, Radio!Step, hung = FALSE, op = "plugin"
    PROVE  AtPlugin' /\ hung' = FALSE
<1> USE StepFlags
<1>1. CASE RadioAt(<<"wakeup", "transmit", "rxon", "wait", "rxidle", "rxidle", "sleep">>,
              "off")
  <2>1. hung' = FALSE /\ RadioAt(<<"transmit", "rxon", "wait", "rxidle", "rxidle", "sleep">>,
           "idle")'
    BY <1>1, Step7 DEF ChipMoved, MayStep
  <2> QED
    BY <1>1, <2>1 DEF AtPlugin, RadioAt
<1>2. CASE RadioAt(<<"transmit", "rxon", "wait", "rxidle", "rxidle", "sleep">>, "idle")
  <2>1. hung' = FALSE /\ RadioAt(<<"rxon", "wait", "rxidle", "rxidle", "sleep">>, "idle")'
    BY <1>2, Step6 DEF ChipMoved, MayStep
  <2> QED
    BY <1>2, <2>1 DEF AtPlugin, RadioAt
<1>3. CASE RadioAt(<<"rxon", "wait", "rxidle", "rxidle", "sleep">>, "idle")
  <2>1. hung' = FALSE /\ RadioAt(<<"wait", "rxidle", "rxidle", "sleep">>, "rx")'
    BY <1>3, Step5 DEF ChipMoved, MayStep
  <2> QED
    BY <1>3, <2>1 DEF AtPlugin, RadioAt
<1>4. CASE RadioAt(<<"wait", "rxidle", "rxidle", "sleep">>, "rx")
  <2>1. hung' = FALSE /\ RadioAt(<<"rxidle", "rxidle", "sleep">>, "rx")'
    BY <1>4, Step4 DEF ChipMoved, MayStep
  <2> QED
    BY <1>4, <2>1 DEF AtPlugin, RadioAt
<1>5. CASE RadioAt(<<"rxidle", "rxidle", "sleep">>, "rx")
  <2>1. hung' = FALSE /\ RadioAt(<<"rxidle", "sleep">>, "idle")'
    BY <1>5, Step3 DEF ChipMoved, MayStep
  <2> QED
    BY <1>5, <2>1 DEF AtPlugin, RadioAt
<1>6. CASE RadioAt(<<"rxidle", "sleep">>, "idle")
  <2>1. hung' = FALSE /\ RadioAt(<<"sleep">>, "idle")'
    BY <1>6, Step2 DEF ChipMoved, MayStep
  <2> QED
    BY <1>6, <2>1 DEF AtPlugin, RadioAt
<1>7. CASE RadioAt(<<"sleep">>, "idle")
  <2>1. hung' = FALSE /\ RadioAt(<<>>, "off")'
    BY <1>7, Step1 DEF ChipMoved, MayStep
  <2> QED
    BY <1>7, <2>1 DEF AtPlugin, RadioAt
<1> QED
  BY <1>1, <1>2, <1>3, <1>4, <1>5, <1>6, <1>7 DEF AtPlugin, RadioAt

LEMMA EnableStep ==
    ASSUME AtEnable, Radio!Step, hung = FALSE, op = "enable_rx"
    PROVE  AtEnable' /\ hung' = FALSE
<1> USE StepFlags
<1>1. CASE RadioAt(<<"wakeup", "rxon">>, "off")
  BY <1>1, Step2 DEF AtEnable, ChipMoved, MayStep
<1>2. CASE RadioAt(<<"rxon">>, "idle")
  BY <1>2, Step1 DEF AtEnable, ChipMoved, MayStep
<1>3. CASE RadioAt(<<"rxon">>, "rx")
  BY <1>3, Step1 DEF AtEnable, ChipMoved, MayStep
<1> QED
  BY <1>1, <1>2, <1>3 DEF AtEnable, RadioAt

LEMMA DisableStep ==
    ASSUME AtDisable, Radio!Step, hung = FALSE, op = "disable_rx"
    PROVE  AtDisable' /\ hung' = FALSE
<1> USE StepFlags
<1>1. CASE RadioAt(<<"rxidle">>, "rx")
  BY <1>1, Step1 DEF AtDisable, ChipMoved, MayStep
<1> QED
  BY <1>1 DEF AtDisable, RadioAt

LEMMA SleepStep ==
    ASSUME AtSleep, Radio!Step, hung = FALSE, op = "sleep"
    PROVE  AtSleep' /\ hung' = FALSE
<1> USE StepFlags
<1>1. CASE RadioAt(<<"rxidle", "sleep">>, "idle")
  BY <1>1, Step2 DEF AtSleep, ChipMoved, MayStep
<1>2. CASE RadioAt(<<"sleep">>, "idle")
  BY <1>2, Step1 DEF AtSleep, ChipMoved, MayStep
<1> QED
  BY <1>1, <1>2 DEF AtSleep, RadioAt

LEMMA AwakeStep ==
    ASSUME AtAwake, Radio!Step, hung = FALSE, op = "awake"
    PROVE  AtAwake' /\ hung' = FALSE
<1> USE StepFlags
<1>0. sleeping' = sleeping /\ rxEnabled' = rxEnabled
  BY StepFlags
<1>1. CASE rxEnabled = FALSE /\ RadioAt(<<"wakeup">>, "off")
  <2>1. hung' = FALSE /\ RadioAt(<<>>, "idle")'
    BY <1>1, Step1 DEF ChipMoved, MayStep
  <2> QED
    BY <1>1, <1>0, <2>1 DEF AtAwake
<1>2. CASE rxEnabled = FALSE /\ RadioAt(<<"wakeup">>, "idle")
  <2>1. hung' = FALSE /\ RadioAt(<<>>, "idle")'
    BY <1>2, Step1 DEF ChipMoved, MayStep
  <2> QED
    BY <1>2, <1>0, <2>1 DEF AtAwake
<1>3. CASE rxEnabled = TRUE /\ RadioAt(<<"wakeup">>, "rx")
  <2>1. hung' = FALSE /\ RadioAt(<<>>, "rx")'
    BY <1>3, Step1 DEF ChipMoved, MayStep
  <2> QED
    BY <1>3, <1>0, <2>1 DEF AtAwake
<1> QED
  BY <1>1, <1>2, <1>3 DEF AtAwake, RadioAt

LEMMA SendStep ==
    ASSUME AtSend, Radio!Step, hung = FALSE, op = "send"
    PROVE  AtSend' /\ hung' = FALSE
<1> USE StepFlags
<1>0. FlagsKept'
  BY StepKept DEF AtSend
<1>1. CASE before = "off" /\ RadioAt(<<"wakeup", "transmit", "rxidle", "sleep">>, "off")
  <2>1. hung' = FALSE /\ RadioAt(<<"transmit", "rxidle", "sleep">>, "idle")'
    BY <1>1, Step4 DEF ChipMoved, MayStep
  <2> QED
    BY <1>1, <1>0, <2>1 DEF AtSend
<1>2. CASE before = "off" /\ RadioAt(<<"transmit", "rxidle", "sleep">>, "idle")
  <2>1. hung' = FALSE /\ RadioAt(<<"rxidle", "sleep">>, "idle")'
    BY <1>2, Step3 DEF ChipMoved, MayStep
  <2> QED
    BY <1>2, <1>0, <2>1 DEF AtSend
<1>3. CASE before = "off" /\ RadioAt(<<"wakeup", "rxidle", "sleep">>, "off")
  <2>1. hung' = FALSE /\ RadioAt(<<"rxidle", "sleep">>, "idle")'
    BY <1>3, Step3 DEF ChipMoved, MayStep
  <2> QED
    BY <1>3, <1>0, <2>1 DEF AtSend
<1>4. CASE before = "off" /\ RadioAt(<<"rxidle", "sleep">>, "idle")
  <2>1. hung' = FALSE /\ RadioAt(<<"sleep">>, "idle")'
    BY <1>4, Step2 DEF ChipMoved, MayStep
  <2> QED
    BY <1>4, <1>0, <2>1 DEF AtSend
<1>5. CASE before = "off" /\ RadioAt(<<"sleep">>, "idle")
  <2>1. hung' = FALSE /\ RadioAt(<<>>, "off")'
    BY <1>5, Step1 DEF ChipMoved, MayStep
  <2> QED
    BY <1>5, <1>0, <2>1 DEF AtSend
<1>6. CASE before = "idle" /\ RadioAt(<<"transmit">>, "idle")
  <2>1. hung' = FALSE /\ RadioAt(<<>>, "idle")'
    BY <1>6, Step1 DEF ChipMoved, MayStep
  <2> QED
    BY <1>6, <1>0, <2>1 DEF AtSend
<1>7. CASE before = "rx" /\ RadioAt(<<"transmit">>, "rx")
  <2>1. hung' = FALSE /\ RadioAt(<<>>, "rx")'
    BY <1>7, Step1 DEF ChipMoved, MayStep
  <2> QED
    BY <1>7, <1>0, <2>1 DEF AtSend
<1> QED
  BY <1>1, <1>2, <1>3, <1>4, <1>5, <1>6, <1>7 DEF AtSend, RadioAt

LEMMA LinkStep ==
    ASSUME AtLink, Radio!Step, hung = FALSE, op = "link"
    PROVE  AtLink' /\ hung' = FALSE
<1> USE StepFlags
<1>0. FlagsKept'
  BY StepKept DEF AtLink
<1>1. CASE before = "idle" /\ RadioAt(<<"transmit">>, "idle")
  <2>1. hung' = FALSE /\ RadioAt(<<>>, "idle")'
    BY <1>1, Step1 DEF ChipMoved, MayStep
  <2> QED
    BY <1>1, <1>0, <2>1 DEF AtLink, AtListening
<1>2. CASE before = "rx" /\ RadioAt(<<"transmit">>, "rx")
  <2>1. hung' = FALSE /\ RadioAt(<<>>, "rx")'
    BY <1>2, Step1 DEF ChipMoved, MayStep
  <2> QED
    BY <1>2, <1>0, <2>1 DEF AtLink, AtListening
<1>3. CASE before = "idle" /\ RadioAt(<<"transmit", "rxon", "wait", "rxidle">>, "idle")
  <2>1. hung' = FALSE /\ RadioAt(<<"rxon", "wait", "rxidle">>, "idle")'
    BY <1>3, Step4 DEF ChipMoved, MayStep
  <2> QED
    BY <1>3, <1>0, <2>1 DEF AtLink, AtListening
<1>4. CASE before = "rx" /\ RadioAt(<<"transmit", "wait">>, "rx")
  <2>1. hung' = FALSE /\ RadioAt(<<"wait">>, "rx")'
    BY <1>4, Step2 DEF ChipMoved, MayStep
  <2> QED
    BY <1>4, <1>0, <2>1 DEF AtLink, AtListening
<1>5. CASE AtListening
  <2>1. AtListening' /\ hung' = FALSE
    BY <1>5, ListeningStep
  <2> QED
    BY <1>0, <2>1 DEF AtLink
<1> QED
  BY <1>1, <1>2, <1>3, <1>4, <1>5 DEF AtLink, RadioAt

LEMMA LinkListenStep ==
    ASSUME AtLinkListen, Radio!Step, hung = FALSE, op = "link_listen"
    PROVE  AtLinkListen' /\ hung' = FALSE
<1>1. AtListening' /\ hung' = FALSE
  BY ListeningStep DEF AtLinkListen
<1>2. FlagsKept'
  BY StepKept DEF AtLinkListen
<1> QED
  BY <1>1, <1>2 DEF AtLinkListen

LEMMA RadioStep ==
    ASSUME RadioInv, Radio!Step
    PROVE  RadioInv'
<1>1. hung = FALSE /\ frames \in 0 .. MaxPackets
  BY DEF RadioInv
<1>2. op' = op /\ frames' = frames
  BY <1>1, StepFlags
<1>3. CASE op = "plugin" /\ AtPlugin
  BY <1>1, <1>2, <1>3, PluginStep DEF RadioInv
<1>4. CASE op = "enable_rx" /\ AtEnable
  BY <1>1, <1>2, <1>4, EnableStep DEF RadioInv
<1>5. CASE op = "disable_rx" /\ AtDisable
  BY <1>1, <1>2, <1>5, DisableStep DEF RadioInv
<1>6. CASE op = "sleep" /\ AtSleep
  BY <1>1, <1>2, <1>6, SleepStep DEF RadioInv
<1>7. CASE op = "awake" /\ AtAwake
  BY <1>1, <1>2, <1>7, AwakeStep DEF RadioInv
<1>8. CASE op = "send" /\ AtSend
  BY <1>1, <1>2, <1>8, SendStep DEF RadioInv
<1>9. CASE op = "link" /\ AtLink
  BY <1>1, <1>2, <1>9, LinkStep DEF RadioInv
<1>10. CASE op = "link_listen" /\ AtLinkListen
  BY <1>1, <1>2, <1>10, LinkListenStep DEF RadioInv
<1> QED
  BY <1>3, <1>4, <1>5, <1>6, <1>7, <1>8, <1>9, <1>10 DEF RadioInv

\* Between calls the flags tell the radio's state.
LEMMA BetweenCalls ==
    ASSUME RadioInv, todo = <<>>
    PROVE  /\ sleeping \in BOOLEAN /\ rxEnabled \in BOOLEAN
           /\ sleeping <=> chip = "off"
           /\ rxEnabled <=> chip = "rx"
           /\ chip \in {"off", "idle", "rx"}
           /\ op \in {"send", "link", "link_listen"} => chip = before
<1>1. CASE op = "plugin" /\ AtPlugin
  BY <1>1 DEF AtPlugin, RadioAt
<1>2. CASE op = "enable_rx" /\ AtEnable
  BY <1>2 DEF AtEnable, RadioAt
<1>3. CASE op = "disable_rx" /\ AtDisable
  BY <1>3 DEF AtDisable, RadioAt
<1>4. CASE op = "sleep" /\ AtSleep
  BY <1>4 DEF AtSleep, RadioAt
<1>5. CASE op = "awake" /\ AtAwake
  BY <1>5 DEF AtAwake, RadioAt
<1>6. CASE op = "send" /\ AtSend
  BY <1>6 DEF AtSend, FlagsKept, RadioAt
<1>7. CASE op = "link" /\ AtLink
  BY <1>7 DEF AtLink, FlagsKept, AtListening, RadioAt
<1>8. CASE op = "link_listen" /\ AtLinkListen
  BY <1>8 DEF AtLinkListen, FlagsKept, AtListening, RadioAt
<1> QED
  BY <1>1, <1>2, <1>3, <1>4, <1>5, <1>6, <1>7, <1>8 DEF RadioInv

\* Each call.
LEMMA RadioBegun ==
    ASSUME RadioInv, NEW name, NEW steps, Radio!Call(name, steps)
    PROVE  /\ hung' = FALSE /\ frames' \in 0 .. MaxPackets
           /\ todo = <<>> /\ op' = name /\ todo' = steps /\ chip' = chip /\ before' = chip
           /\ \/ chip = "off" /\ sleeping = TRUE /\ rxEnabled = FALSE
              \/ chip = "idle" /\ sleeping = FALSE /\ rxEnabled = FALSE
              \/ chip = "rx" /\ sleeping = FALSE /\ rxEnabled = TRUE
<1>1. /\ hung' = FALSE /\ frames' \in 0 .. MaxPackets
      /\ todo = <<>> /\ op' = name /\ todo' = steps /\ chip' = chip /\ before' = chip
  BY DEF RadioInv, Radio!Call
<1>2. /\ sleeping = TRUE \/ sleeping = FALSE
      /\ rxEnabled = TRUE \/ rxEnabled = FALSE
  BY <1>1, BetweenCalls
<1> QED
  BY <1>1, <1>2, BetweenCalls

LEMMA Joined ==
    ASSUME NEW x
    PROVE  /\ Append(<<>>, x) = <<x>> /\ Append(<<"wakeup">>, x) = <<"wakeup", x>>
           /\ <<>> \o <<>> \o <<>> = <<>> /\ <<>> \o <<x>> \o <<>> = <<x>>
           /\ <<"wakeup">> \o <<>> \o <<"rxidle", "sleep">> = <<"wakeup", "rxidle", "sleep">>
           /\ <<"wakeup">> \o <<x>> \o <<"rxidle", "sleep">> = <<"wakeup", x, "rxidle",
                 "sleep">>
           /\ <<x>> \o <<>> = <<x>> /\ <<x>> \o <<"wait">> = <<x, "wait">>
           /\ <<x>> \o <<"rxon", "wait", "rxidle">> = <<x, "rxon", "wait", "rxidle">>
<1>1. Append(<<>>, x) = <<x>> /\ Append(<<"wakeup">>, x) = <<"wakeup", x>>
  <2>1. /\ <<>> \in Seq({x, "wakeup"}) /\ <<"wakeup">> \in Seq({x, "wakeup"})
        /\ x \in {x, "wakeup"} /\ Len(<<>>) = 0 /\ Len(<<"wakeup">>) = 1
    OBVIOUS
  <2>2. <<x>> \in Seq({x, "wakeup"}) /\ <<"wakeup", x>> \in Seq({x, "wakeup"})
    OBVIOUS
  <2>3. Append(<<>>, x) = <<x>>
    <3>1. /\ Append(<<>>, x) \in Seq({x, "wakeup"}) /\ Len(Append(<<>>, x)) = 1
          /\ Append(<<>>, x)[1] = x
      BY <2>1, AppendProperties
    <3> QED
      BY <2>2, <3>1, SeqEqual
  <2>4. Append(<<"wakeup">>, x) = <<"wakeup", x>>
    <3>1. /\ Append(<<"wakeup">>, x) \in Seq({x, "wakeup"})
          /\ Len(Append(<<"wakeup">>, x)) = 2
          /\ Append(<<"wakeup">>, x)[1] = "wakeup" /\ Append(<<"wakeup">>, x)[2] = x
      BY <2>1, AppendProperties
    <3>2. \A idx \in 1 .. 2 : Append(<<"wakeup">>, x)[idx] = <<"wakeup", x>>[idx]
      BY <3>1
    <3> QED
      BY <2>2, <3>1, <3>2, SeqEqual
  <2> QED
    BY <2>3, <2>4
<1> DEFINE S == {x, "wakeup", "rxidle", "sleep", "wait", "rxon"}
<1>2. /\ x \in S /\ "wakeup" \in S /\ "rxidle" \in S /\ "sleep" \in S /\ "wait" \in S
      /\ "rxon" \in S
  BY Zenon
<1> HIDE DEF S
<1>3. <<"wakeup", x>> \o <<"rxidle", "sleep">> = <<"wakeup", x, "rxidle", "sleep">>
  <2>1. <<"wakeup", x>> \in Seq(S) /\ <<"rxidle", "sleep">> \in Seq(S)
           /\ <<"wakeup", x, "rxidle", "sleep">> \in Seq(S)
    BY <1>2
  <2>2. Len(<<"wakeup", x>>) = 2 /\ Len(<<"rxidle", "sleep">>) = 2
           /\ Len(<<"wakeup", x, "rxidle", "sleep">>) = 4
    OBVIOUS
  <2>3. <<"wakeup", x>> \o <<"rxidle", "sleep">> \in Seq(S)
           /\ Len(<<"wakeup", x>> \o <<"rxidle", "sleep">>) = 4
    BY <2>1, <2>2, ConcatProperties
  <2>4. (<<"wakeup", x>> \o <<"rxidle", "sleep">>)[1] = "wakeup"
           /\ (<<"wakeup", x>> \o <<"rxidle", "sleep">>)[2] = x
                 /\ (<<"wakeup", x>> \o <<"rxidle", "sleep">>)[3] = "rxidle"
                       /\ (<<"wakeup", x>> \o <<"rxidle", "sleep">>)[4] = "sleep"
    BY <2>1, <2>2, ConcatProperties
  <2>5. \A idx \in 1 .. 4 : (<<"wakeup", x>> \o <<"rxidle", "sleep">>)[idx] = <<"wakeup", x,
           "rxidle", "sleep">>[idx]
    BY <2>4
  <2> QED
    BY <2>1, <2>2, <2>3, <2>5, SeqEqual
<1>4. <<"wakeup">> \o <<"rxidle", "sleep">> = <<"wakeup", "rxidle", "sleep">>
  <2>1. <<"wakeup">> \in Seq(S) /\ <<"rxidle", "sleep">> \in Seq(S)
           /\ <<"wakeup", "rxidle", "sleep">> \in Seq(S)
    BY <1>2
  <2>2. Len(<<"wakeup">>) = 1 /\ Len(<<"rxidle", "sleep">>) = 2
           /\ Len(<<"wakeup", "rxidle", "sleep">>) = 3
    OBVIOUS
  <2>3. <<"wakeup">> \o <<"rxidle", "sleep">> \in Seq(S)
           /\ Len(<<"wakeup">> \o <<"rxidle", "sleep">>) = 3
    BY <2>1, <2>2, ConcatProperties
  <2>4. (<<"wakeup">> \o <<"rxidle", "sleep">>)[1] = "wakeup"
           /\ (<<"wakeup">> \o <<"rxidle", "sleep">>)[2] = "rxidle"
                 /\ (<<"wakeup">> \o <<"rxidle", "sleep">>)[3] = "sleep"
    BY <2>1, <2>2, ConcatProperties
  <2>5. \A idx \in 1 .. 3 : (<<"wakeup">> \o <<"rxidle", "sleep">>)[idx] = <<"wakeup",
           "rxidle", "sleep">>[idx]
    BY <2>4
  <2> QED
    BY <2>1, <2>2, <2>3, <2>5, SeqEqual
<1>5. <<"wakeup">> \o <<x>> = <<"wakeup", x>>
  <2>1. <<"wakeup">> \in Seq(S) /\ <<x>> \in Seq(S) /\ <<"wakeup", x>> \in Seq(S)
    BY <1>2
  <2>2. Len(<<"wakeup">>) = 1 /\ Len(<<x>>) = 1 /\ Len(<<"wakeup", x>>) = 2
    OBVIOUS
  <2>3. <<"wakeup">> \o <<x>> \in Seq(S) /\ Len(<<"wakeup">> \o <<x>>) = 2
    BY <2>1, <2>2, ConcatProperties
  <2>4. (<<"wakeup">> \o <<x>>)[1] = "wakeup" /\ (<<"wakeup">> \o <<x>>)[2] = x
    BY <2>1, <2>2, ConcatProperties
  <2>5. \A idx \in 1 .. 2 : (<<"wakeup">> \o <<x>>)[idx] = <<"wakeup", x>>[idx]
    BY <2>4
  <2> QED
    BY <2>1, <2>2, <2>3, <2>5, SeqEqual
<1>6. <<x>> \o <<"wait">> = <<x, "wait">>
  <2>1. <<x>> \in Seq(S) /\ <<"wait">> \in Seq(S) /\ <<x, "wait">> \in Seq(S)
    BY <1>2
  <2>2. Len(<<x>>) = 1 /\ Len(<<"wait">>) = 1 /\ Len(<<x, "wait">>) = 2
    OBVIOUS
  <2>3. <<x>> \o <<"wait">> \in Seq(S) /\ Len(<<x>> \o <<"wait">>) = 2
    BY <2>1, <2>2, ConcatProperties
  <2>4. (<<x>> \o <<"wait">>)[1] = x /\ (<<x>> \o <<"wait">>)[2] = "wait"
    BY <2>1, <2>2, ConcatProperties
  <2>5. \A idx \in 1 .. 2 : (<<x>> \o <<"wait">>)[idx] = <<x, "wait">>[idx]
    BY <2>4
  <2> QED
    BY <2>1, <2>2, <2>3, <2>5, SeqEqual
<1>7. <<x>> \o <<"rxon", "wait", "rxidle">> = <<x, "rxon", "wait", "rxidle">>
  <2>1. <<x>> \in Seq(S) /\ <<"rxon", "wait", "rxidle">> \in Seq(S)
           /\ <<x, "rxon", "wait", "rxidle">> \in Seq(S)
    BY <1>2
  <2>2. Len(<<x>>) = 1 /\ Len(<<"rxon", "wait", "rxidle">>) = 3
           /\ Len(<<x, "rxon", "wait", "rxidle">>) = 4
    OBVIOUS
  <2>3. <<x>> \o <<"rxon", "wait", "rxidle">> \in Seq(S)
           /\ Len(<<x>> \o <<"rxon", "wait", "rxidle">>) = 4
    BY <2>1, <2>2, ConcatProperties
  <2>4. (<<x>> \o <<"rxon", "wait", "rxidle">>)[1] = x
           /\ (<<x>> \o <<"rxon", "wait", "rxidle">>)[2] = "rxon"
                 /\ (<<x>> \o <<"rxon", "wait", "rxidle">>)[3] = "wait"
                       /\ (<<x>> \o <<"rxon", "wait", "rxidle">>)[4] = "rxidle"
    BY <2>1, <2>2, ConcatProperties
  <2>5. \A idx \in 1 .. 4 : (<<x>> \o <<"rxon", "wait", "rxidle">>)[idx] = <<x, "rxon",
           "wait", "rxidle">>[idx]
    BY <2>4
  <2> QED
    BY <2>1, <2>2, <2>3, <2>5, SeqEqual
<1>8. /\ <<x>> \o <<>> = <<x>> /\ <<>> \o <<>> = <<>> /\ <<>> \o <<x>> = <<x>>
      /\ <<"wakeup">> \o <<>> = <<"wakeup">>
  <2>1. <<x>> \in Seq(S) /\ <<"wakeup">> \in Seq(S) /\ <<>> \in Seq(S)
    BY <1>2
  <2> QED
    BY <2>1, ConcatEmptySeq
<1> QED
  BY <1>1, <1>3, <1>4, <1>5, <1>6, <1>7, <1>8

LEMMA ListeningSteps ==
    /\ Radio!Listening("rx") = <<"wait">>
    /\ Radio!Listening("idle") = <<"rxon", "wait", "rxidle">>
    /\ Radio!Listening("off") = <<"wakeup", "rxon", "wait", "sleep">>
<1>1. Radio!Listening("rx") = <<"wait">>
  BY Zenon DEF Radio!Listening
<1>2. Radio!Listening("idle") = <<"rxon", "wait", "rxidle">>
  BY Zenon DEF Radio!Listening
<1>3. Radio!Listening("off") = <<"wakeup", "rxon", "wait", "sleep">>
  BY Zenon DEF Radio!Listening
<1> QED
  BY <1>1, <1>2, <1>3

LEMMA EnableCall ==
    ASSUME RadioInv, Radio!EnableRx
    PROVE  RadioInv'
<1>1. Radio!Call("enable_rx", Append(Radio!Awake, "rxon")) /\ sleeping' = FALSE
         /\ rxEnabled' = TRUE
  BY DEF Radio!EnableRx
<1>2. AtEnable'
  <2>1. CASE sleeping = TRUE
    BY <1>1, <2>1, RadioBegun, Joined DEF Radio!Awake, AtEnable, RadioAt
  <2>2. CASE sleeping = FALSE
    BY <1>1, <2>2, RadioBegun, Joined DEF Radio!Awake, AtEnable, RadioAt
  <2> QED
    BY <1>1, <2>1, <2>2, RadioBegun
<1> QED
  BY <1>1, <1>2, RadioBegun DEF RadioInv

LEMMA DisableCall ==
    ASSUME RadioInv, Radio!DisableRx
    PROVE  RadioInv' /\ chip = "rx"
<1>1. Radio!Call("disable_rx", <<"rxidle">>) /\ rxEnabled /\ rxEnabled' = FALSE
         /\ sleeping' = sleeping
  BY DEF Radio!DisableRx
<1>2. chip = "rx" /\ AtDisable'
  BY <1>1, RadioBegun DEF AtDisable, RadioAt
<1> QED
  BY <1>1, <1>2, RadioBegun DEF RadioInv

LEMMA SendCall ==
    ASSUME RadioInv, Radio!Send
    PROVE  RadioInv'
<1>1. PICK m \in {<<>>, <<"transmit">>} :
          Radio!Call("send", Radio!Awake \o m \o (IF sleeping THEN <<"rxidle",
             "sleep">> ELSE <<>>))
  BY DEF Radio!Send
<1>2. sleeping' = sleeping /\ rxEnabled' = rxEnabled
  BY DEF Radio!Send
<1>3. FlagsKept'
  BY <1>1, <1>2, RadioBegun DEF FlagsKept
<1>4. AtSend'
  <2>1. CASE sleeping = TRUE /\ m = <<>>
    BY <1>1, <1>3, <2>1, RadioBegun, Joined DEF Radio!Awake, AtSend, RadioAt
  <2>2. CASE sleeping = TRUE /\ m = <<"transmit">>
    BY <1>1, <1>3, <2>2, RadioBegun, Joined DEF Radio!Awake, AtSend, RadioAt
  <2>3. CASE sleeping = FALSE /\ m = <<>>
    BY <1>1, <1>3, <2>3, RadioBegun, Joined DEF Radio!Awake, AtSend, RadioAt
  <2>4. CASE sleeping = FALSE /\ m = <<"transmit">>
    BY <1>1, <1>3, <2>4, RadioBegun, Joined DEF Radio!Awake, AtSend, RadioAt
  <2> QED
    BY <1>1, <2>1, <2>2, <2>3, <2>4, RadioBegun
<1> QED
  BY <1>1, <1>4, RadioBegun DEF RadioInv

LEMMA LinkCall ==
    ASSUME RadioInv, Radio!Link
    PROVE  RadioInv'
<1>1. PICK m \in {<<>>, Radio!Listening(chip)} : Radio!Call("link", <<"transmit">> \o m)
  BY DEF Radio!Link
<1>2. sleeping' = sleeping /\ rxEnabled' = rxEnabled /\ ~sleeping
  BY DEF Radio!Link
<1>3. FlagsKept' /\ before' # "off"
  BY <1>1, <1>2, RadioBegun DEF FlagsKept
<1>4. AtLink'
  <2>1. CASE chip = "idle" /\ m = <<>>
    BY <1>1, <1>3, <2>1, RadioBegun, Joined DEF AtLink, RadioAt
  <2>2. CASE chip = "idle" /\ m = Radio!Listening(chip)
    BY <1>1, <1>3, <2>2, RadioBegun, Joined, ListeningSteps DEF AtLink, RadioAt
  <2>3. CASE chip = "rx" /\ m = <<>>
    BY <1>1, <1>3, <2>3, RadioBegun, Joined DEF AtLink, RadioAt
  <2>4. CASE chip = "rx" /\ m = Radio!Listening(chip)
    BY <1>1, <1>3, <2>4, RadioBegun, Joined, ListeningSteps DEF AtLink, RadioAt
  <2> QED
    BY <1>1, <1>2, <2>1, <2>2, <2>3, <2>4, RadioBegun
<1> QED
  BY <1>1, <1>4, RadioBegun DEF RadioInv

LEMMA LinkListenCall ==
    ASSUME RadioInv, Radio!LinkListen
    PROVE  RadioInv'
<1>1. Radio!Call("link_listen", Radio!Listening(chip)) /\ sleeping' = sleeping
         /\ rxEnabled' = rxEnabled
  BY DEF Radio!LinkListen
<1>2. FlagsKept'
  BY <1>1, RadioBegun DEF FlagsKept
<1>3. AtListening'
  <2>1. CASE chip = "off"
    BY <1>1, <2>1, RadioBegun, ListeningSteps DEF AtListening, RadioAt
  <2>2. CASE chip = "idle"
    BY <1>1, <2>2, RadioBegun, ListeningSteps DEF AtListening, RadioAt
  <2>3. CASE chip = "rx"
    BY <1>1, <2>3, RadioBegun, ListeningSteps DEF AtListening, RadioAt
  <2> QED
    BY <1>1, <2>1, <2>2, <2>3, RadioBegun
<1> QED
  BY <1>1, <1>2, <1>3, RadioBegun DEF RadioInv, AtLinkListen

LEMMA SleepCall ==
    ASSUME RadioInv, Radio!Sleep
    PROVE  RadioInv'
<1>1. /\ Radio!Call("sleep", <<"rxidle", "sleep">>)
      /\ ~sleeping /\ ~rxEnabled /\ sleeping' = TRUE /\ rxEnabled' = rxEnabled
  BY DEF Radio!Sleep
<1>2. AtSleep'
  BY <1>1, RadioBegun DEF AtSleep, RadioAt
<1> QED
  BY <1>1, <1>2, RadioBegun DEF RadioInv

LEMMA WakeCall ==
    ASSUME RadioInv, Radio!WakeUp
    PROVE  RadioInv'
<1>1. Radio!Call("awake", <<"wakeup">>) /\ sleeping' = FALSE /\ rxEnabled' = rxEnabled
  BY DEF Radio!WakeUp
<1>2. AtAwake'
  BY <1>1, RadioBegun DEF AtAwake, RadioAt
<1> QED
  BY <1>1, <1>2, RadioBegun DEF RadioInv

\* The packets.
LEMMA PacketStep ==
    ASSUME MaxPackets \in Nat, RadioInv, Radio!Receive \/ Radio!Packet
    PROVE  RadioInv'
<1>1. /\ UNCHANGED <<chip, sleeping, rxEnabled, op, todo, hung, before>>
      /\ (frames' = frames - 1 /\ frames > 0) \/ (frames' = frames + 1 /\ frames < MaxPackets)
  BY DEF Radio!Receive, Radio!Packet
<1>2. hung' = FALSE /\ frames' \in 0 .. MaxPackets
  BY <1>1 DEF RadioInv
<1> QED
  BY <1>1, <1>2 DEF RadioInv, AtPlugin, AtEnable, AtDisable, AtSleep, AtAwake, AtSend,
                    AtLink, AtLinkListen, AtListening, FlagsKept, RadioAt

LEMMA NextRadioInv ==
    ASSUME MaxPackets \in Nat, RadioInv, [Radio!Next]_(Radio!vars)
    PROVE  RadioInv' /\ Radio!IdlesReceiving
<1>1. CASE Radio!EnableRx
  BY <1>1, EnableCall DEF Radio!EnableRx, Radio!Call, Radio!IdlesReceiving
<1>2. CASE Radio!DisableRx
  BY <1>2, DisableCall DEF Radio!IdlesReceiving
<1>3. CASE Radio!Send
  BY <1>3, SendCall DEF Radio!Send, Radio!Call, Radio!IdlesReceiving
<1>4. CASE Radio!Link
  BY <1>4, LinkCall DEF Radio!Link, Radio!Call, Radio!IdlesReceiving
<1>5. CASE Radio!LinkListen
  BY <1>5, LinkListenCall DEF Radio!LinkListen, Radio!Call, Radio!IdlesReceiving
<1>6. CASE Radio!Sleep
  BY <1>6, SleepCall DEF Radio!Sleep, Radio!Call, Radio!IdlesReceiving
<1>7. CASE Radio!WakeUp
  BY <1>7, WakeCall DEF Radio!WakeUp, Radio!Call, Radio!IdlesReceiving
<1>8. CASE Radio!Receive \/ Radio!Packet
  BY <1>8, PacketStep DEF Radio!Receive, Radio!Packet, Radio!IdlesReceiving
<1>9. CASE Radio!Step
  BY <1>9, RadioStep DEF Radio!Step, Radio!IdlesReceiving
<1>10. CASE UNCHANGED Radio!vars
  BY <1>10 DEF Radio!vars, RadioInv, AtPlugin, AtEnable, AtDisable, AtSleep, AtAwake, AtSend,
     AtLink, AtLinkListen, AtListening, FlagsKept, RadioAt, Radio!IdlesReceiving
<1> QED
  BY <1>1, <1>2, <1>3, <1>4, <1>5, <1>6, <1>7, <1>8, <1>9, <1>10 DEF Radio!Next

LEMMA RadioInvSound ==
    ASSUME RadioInv
    PROVE  Radio!NeverHangs /\ Radio!FlagTellsSleep /\ Radio!ReceivesIffEnabled
              /\ Radio!ModeRestored
<1>1. Radio!NeverHangs
  BY DEF RadioInv, Radio!NeverHangs
<1>2. Radio!FlagTellsSleep
  BY BetweenCalls DEF Radio!FlagTellsSleep, Radio!Between
<1>3. Radio!ReceivesIffEnabled
  BY BetweenCalls DEF Radio!ReceivesIffEnabled, Radio!Between
<1>4. Radio!ModeRestored
  BY BetweenCalls DEF Radio!ModeRestored, Radio!Between
<1> QED
  BY <1>1, <1>2, <1>3, <1>4

LEMMA RadioInvType ==
    ASSUME RadioInv
    PROVE  Radio!TypeOK
<1>1. chip \in {"off", "idle", "rx"} /\ frames \in 0 .. MaxPackets
  BY DEF RadioInv, AtPlugin, AtEnable, AtDisable, AtSleep, AtAwake, AtSend,
         AtLink, AtLinkListen, AtListening, RadioAt
<1>2. hung = FALSE /\ (sleeping = TRUE \/ sleeping = FALSE)
         /\ (rxEnabled = TRUE \/ rxEnabled = FALSE)
  BY DEF RadioInv, AtPlugin, AtEnable, AtDisable, AtSleep, AtAwake, AtSend,
         AtLink, AtLinkListen, FlagsKept
<1> QED
  BY <1>1, <1>2 DEF Radio!TypeOK

(***************************************************************************)
(* The run: one instance takes all the steps.                              *)
(***************************************************************************)

\* Each step is one of the instance that runs, or leaves its variables as they are.
LEMMA Apart ==
    ASSUME [Next]_vars
    PROVE  /\ instance' = instance
           /\ Is("accel") => [Accel!Next]_(Accel!vars)
           /\ Is("pressure") => [Pressure!Next]_(Pressure!vars)
           /\ Is("idle") => [Idle!Next]_(Idle!vars)
           /\ Is("past") => [Past!Next]_(Past!vars)
           /\ Is("buttons") => [Buttons!Next]_(Buttons!vars)
           /\ Is("radio") => [Radio!Next]_(Radio!vars)
           /\ Is("uart") => [Uart!Next]_(Uart!vars)
           /\ Is("sleep") => [Sleep!Next]_(Sleep!vars)
<1>0. instance' = instance
  BY DEF Next, Runs, vars
<1>1. CASE UNCHANGED vars
  <2>1. UNCHANGED Accel!vars
    BY <1>1 DEF vars, accelVars, Accel!vars, Accel!driver, Accel!sensor
  <2>2. UNCHANGED Pressure!vars
    BY <1>1 DEF vars, pressVars, Pressure!vars, Pressure!driver, Pressure!chip
  <2>3. UNCHANGED Idle!vars
    BY <1>1 DEF vars, idleVars, Idle!vars
  <2>4. UNCHANGED Past!vars
    BY <1>1 DEF vars, pastVars, Past!vars
  <2>5. UNCHANGED Buttons!vars
    BY <1>1 DEF vars, buttonVars, Buttons!vars, Buttons!hand, Buttons!service, Buttons!thread,
       Buttons!history
  <2>6. UNCHANGED Radio!vars
    BY <1>1 DEF vars, radioVars, Radio!vars
  <2>7. UNCHANGED Uart!vars
    BY <1>1 DEF vars, uartVars, Uart!vars, Uart!ring
  <2>8. UNCHANGED Sleep!vars
    BY <1>1 DEF vars, sleepVars, Sleep!vars, Sleep!cpu, Sleep!button
  <2> QED
    BY <1>0, <2>1, <2>2, <2>3, <2>4, <2>5, <2>6, <2>7, <2>8
<1>2. CASE Next
  <2>1. Is("accel") => Accel!Next
    BY <1>2 DEF Next, Runs, Is
  <2>2. Is("pressure") => Pressure!Next
    BY <1>2 DEF Next, Runs, Is
  <2>3. Is("idle") => Idle!Next
    BY <1>2 DEF Next, Runs, Is
  <2>4. Is("past") => Past!Next
    BY <1>2 DEF Next, Runs, Is
  <2>5. Is("buttons") => Buttons!Next
    BY <1>2 DEF Next, Runs, Is
  <2>6. Is("radio") => Radio!Next
    BY <1>2 DEF Next, Runs, Is
  <2>7. Is("uart") => Uart!Next
    BY <1>2 DEF Next, Runs, Is
  <2>8. Is("sleep") => Sleep!Next
    BY <1>2 DEF Next, Runs, Is
  <2> QED
    BY <1>0, <2>1, <2>2, <2>3, <2>4, <2>5, <2>6, <2>7, <2>8
<1> QED
  BY <1>1, <1>2

\* Whatever accesses the sensor refuses: no later transfer is torn, plugin() brings the
\* sensor back, enable() leaves what was asked for and a value read was measured during
\* the call (accel_spi.cc:90, bma250.cc:57, 80).
THEOREM AccelProved == Spec => []AccelTrue
<1> DEFINE Held == Is("accel") => AccelInv
<1>1. Init => Held
  BY Instances, InitAccelInv DEF Init, Is
<1>2. Held /\ [Next]_vars => Held'
  BY Instances, Apart, NextAccelInv DEF Is
<1>3. Held => AccelTrue
  BY Instances, AccelInvTwoBytes, AccelInvPlugin, AccelInvEnable, AccelInvFresh DEF AccelTrue
<1> QED
  BY <1>1, <1>2, <1>3, PTL DEF Spec

\* Board and sensor stay together, and a pressure read with no access refused is one that
\* the air had during the call (bmp085.cc:60, 152, 176).
THEOREM PressureProved == Spec => []PressureTrue
<1> DEFINE Held == Is("pressure") => PressureInv
<1>1. Init => Held
  BY Instances, InitPressureInv DEF Init, Is
<1>2. Held /\ [Next]_vars => Held'
  BY Instances, Apart, NextPressureInv DEF Is
<1>3. Held => PressureTrue
  BY Instances, PressureInvTrue DEF PressureTrue, PressureInv
<1> QED
  BY <1>1, <1>2, <1>3, PTL DEF Spec

\* However the interrupts of the timer fall, the idle time is wrong by two turns at most
\* (timer.cc:61, 85, 91).
THEOREM IdleTimeProved == Spec => []WithinTwoTurns
<1> DEFINE Held == Is("idle") => IdleInv
<1>1. Init => Held
  BY Instances, InitIdleInv DEF Init, Is
<1>2. Held /\ [Next]_vars => Held'
  BY Instances, Apart, NextIdleInv DEF Is
<1>3. Held => WithinTwoTurns
  BY Instances, IdleInvWithin DEF WithinTwoTurns
<1> QED
  BY <1>1, <1>2, <1>3, PTL DEF Spec

\* Presses are told as the hand made them, with any number of buttons and any debounce time
\* (buttonservice.cc:16, 24, 32).
THEOREM PressesProved == Spec => []PressesTold
<1> DEFINE Held == Is("buttons") => ButtonInv
<1>1. Init => Held
  BY Instances, InitButtonInv DEF Init, Is
<1>2. Held /\ [Next]_vars => Held'
  BY Instances, Apart, NextButtonInv DEF Is
<1>3. Held => PressesTold
  BY Instances, ButtonInvTold DEF PressesTold
<1> QED
  BY <1>1, <1>2, <1>3, PTL DEF Spec

\* No byte that is printed overtakes another or is lost (uart.cc:41).
THEOREM PrintProved == Spec => []InOrder
<1> DEFINE Held == Is("uart") => RingInv
<1>1. Init => Held
  BY Instances, InitRingInv DEF Init, Is
<1>2. Held /\ [Next]_vars => Held'
  BY Instances, Apart, NextRingInv DEF Is
<1>3. Held => InOrder
  BY Instances, RingInvInOrder DEF InOrder
<1> QED
  BY <1>1, <1>2, <1>3, PTL DEF Spec

\* The watch that sleeps can be woken, and one press does not enter the loader
\* (standby.cc:21, 72).
THEOREM StandbyProved == Spec => []OnePressOneEffect
<1> DEFINE Held == Is("sleep") => SleepInv
<1>1. Init => Held
  BY Instances, InitSleepInv DEF Init, Is
<1>2. Held /\ [Next]_vars => Held'
  BY Instances, Apart, NextSleepInv DEF Is
<1>3. Held => OnePressOneEffect
  BY Instances, SleepInvWakes DEF OnePressOneEffect
<1> QED
  BY <1>1, <1>2, <1>3, PTL DEF Spec

\* A processor that was busy for two intervals runs at full speed, where nothing is left over
\* (pastthread.cc:25, 29, 38).
THEOREM FullSpeedProved == Spec => FullSpeed
<1> DEFINE Held == Is("past") => PastInv
           Kept == Is("past") => Past!FullSpeedIfBusy
           Step == Is("past") => Past!NothingOver
<1>1. Init => Held
  BY Instances, InitPastInv DEF Init, Is
<1>2. Held /\ [Next]_vars => Held' /\ Step
  BY Instances, Apart, NextPastInv DEF Is
<1>3. Held => Kept
  BY PastInvFull
<1>4. Spec => []Kept /\ [][Step]_vars
  BY <1>1, <1>2, <1>3, PTL DEF Spec
<1> QED
  BY <1>4 DEF FullSpeed

\* No call of the radio ends in an assertion, the flags tell the state of the chip, and only a
\* radio that receives is idled (radio.cc:75, 116).
THEOREM RadioProved == Spec => RadioKept
<1> DEFINE Held == Is("radio") => RadioInv
           Kept == Is("radio") => /\ Radio!NeverHangs /\ Radio!FlagTellsSleep
                                  /\ Radio!ReceivesIffEnabled /\ Radio!ModeRestored
           Step == Is("radio") => Radio!IdlesReceiving
<1>0. MaxPackets \in Nat
  BY Instances DEF Radio!PacketAssumption
<1>1. Init => Held
  BY <1>0, InitRadioInv DEF Init, Is
<1>2. Held /\ [Next]_vars => Held' /\ Step
  BY <1>0, Apart, NextRadioInv DEF Is
<1>3. Held => Kept
  BY RadioInvSound
<1>4. Spec => []Kept /\ [][Step]_vars
  BY <1>1, <1>2, <1>3, PTL DEF Spec
<1> QED
  BY <1>4 DEF RadioKept
=============================================================================
