----------------------------- MODULE MCDevices -----------------------------
(***************************************************************************)
(* Small instances of the device drivers and of the programs next to them. *)
(* They share no state and run with the guard held or in one thread, so    *)
(* they are explored one at a time: in each behaviour one instance runs,   *)
(* and the variables of the others stay at 0.                              *)
(***************************************************************************)
EXTENDS Naturals, Sequences

\* The parameters and the bounds of the instances, named as in their modules; those
\* that several have are told apart.
CONSTANTS
    Outputs, MaxAccelCalls, MaxSlow,
    Top, Divisor, TimerSize, MaxLoops, MaxAwake, MaxIdleTime,
    IdleTimes, MaxIntervals,
    Names, Debounce, Repeats, Period, Bouncing, MaxButtonPresses, MaxButtonTime,
    MaxPackets,
    BufferSize, MaxBytes,
    MaxPresses, MaxResets,
    Pressures, LowerSize, MaxPressCalls, MaxRefusals

VARIABLES
    instance,
    scl, sdaOut, sdaDir, busTodo, busCall, sda, bits, ok, sensor, regs, refusals,
    busCalls, refused, clean,
    kind, asOk, csn, powered, accelPc, accelCall, accesses, result, registers, bytes,
    out, shadow, accelCalls, slow, seen, torn,
    idlePc, reg, flag, ints, counter, overflow, total, loops, awake, time, real,
    speed, excess, mul, intervals, busy,
    contact, pin, since, gap, state, buttonPc, timer, i, current, taker, wait, taken,
    presses, published, fresh, lost, twice, undue,
    chip, sleeping, rxEnabled, op, todo, frames, hung, before,
    txbuf, readIdx, writeIdx, txie, txreg, uartPc, uartT, uartC, put, sent,
    sleepPc, handler, gie, lpm, ie, ifg, running, watchdog, byWatchdog, pressed,
    bounces, sleepPresses, resets, appHung,
    part, available, rev, tps, calibration, mode, b5, pressPc, pressCall, lower,
    pressure, conv, adc, done, air, pressCalls, accRefused, first, bad, airSeen

busVars == <<scl, sdaOut, sdaDir, busTodo, busCall, sda, bits, ok, sensor, regs,
             refusals, busCalls, refused, clean>>
accelVars == <<kind, asOk, csn, powered, accelPc, accelCall, accesses, result,
               registers, bytes, out, shadow, accelCalls, slow, seen, torn>>
idleVars == <<idlePc, reg, flag, ints, counter, overflow, total, loops, awake, time,
              real>>
pastVars == <<speed, excess, mul, intervals, busy>>
buttonVars == <<contact, pin, since, gap, state, buttonPc, timer, i, current, taker,
                wait, taken, presses, published, fresh, lost, twice, undue>>
radioVars == <<chip, sleeping, rxEnabled, op, todo, frames, hung, before>>
uartVars == <<txbuf, readIdx, writeIdx, txie, txreg, uartPc, uartT, uartC, put, sent>>
sleepVars == <<sleepPc, handler, gie, lpm, ie, ifg, running, watchdog, byWatchdog,
               pressed, bounces, sleepPresses, resets, appHung>>
pressVars == <<part, available, rev, tps, calibration, mode, b5, pressPc, pressCall,
               lower, pressure, conv, adc, done, air, pressCalls, accRefused, first,
               bad, airSeen>>
vars == <<instance, busVars, accelVars, idleVars, pastVars, buttonVars, radioVars,
          uartVars, sleepVars, pressVars>>

-----------------------------------------------------------------------------
\* Two bits to the byte, two registers, a device that is absent, one byte refused.
Bus == INSTANCE PressureBus WITH
    Width <- 2, Devices <- {0, 1}, Present <- 1, Registers <- 2, MasterWins <- FALSE,
    MaxRefusals <- 1, MaxCalls <- 2, todo <- busTodo, call <- busCall, got <- bits,
    calls <- busCalls

Accel == INSTANCE AccelSensor WITH
    MaxCalls <- MaxAccelCalls, pc <- accelPc, call <- accelCall, todo <- accesses,
    chip <- registers, got <- bytes, calls <- accelCalls

Idle == INSTANCE IdleTime WITH
    Size <- TimerSize, MaxTime <- MaxIdleTime, pc <- idlePc

Past == INSTANCE PastThread

Buttons == INSTANCE ButtonService WITH
    MaxPresses <- MaxButtonPresses, MaxTime <- MaxButtonTime, pc <- buttonPc

\* Callers that keep the rules of radio.h.
Radio == INSTANCE RadioDriver WITH
    Careful <- TRUE

\* One thread prints.
Uart == INSTANCE RingBuffer WITH
    Writers <- {"a"}, Size <- BufferSize, Newline <- "nl", Return <- "cr", Letter <- "x",
    pc <- uartPc, t <- uartT, c <- uartC

\* The button is used as the code expects it: after the watch has fallen asleep, and
\* without bouncing after the release.
Sleep == INSTANCE Standby WITH
    EarlyPress <- FALSE, LateBounce <- FALSE, pc <- sleepPc, presses <- sleepPresses,
    hung <- appHung

Pressure == INSTANCE PressureSensor WITH
    Word <- LowerSize, MaxCalls <- MaxPressCalls, pc <- pressPc, call <- pressCall,
    bytes <- lower, result <- pressure, calls <- pressCalls, refused <- accRefused,
    seen <- airSeen

ASSUME Instances ==
    /\ Bus!BusAssumption /\ Accel!AccelAssumption /\ Accel!Negatable
    /\ Idle!IdleAssumption /\ Past!PastAssumption /\ Buttons!ButtonAssumption
    /\ Radio!PacketAssumption /\ Uart!RingAssumption /\ Sleep!StandbyAssumption
    /\ Pressure!PressureAssumption

-----------------------------------------------------------------------------
NoBus ==
    /\ scl = 0 /\ sdaOut = 0 /\ sdaDir = 0 /\ busTodo = 0 /\ busCall = 0 /\ sda = 0
    /\ bits = 0 /\ ok = 0 /\ sensor = 0 /\ regs = 0 /\ refusals = 0 /\ busCalls = 0
    /\ refused = 0 /\ clean = 0
NoAccel ==
    /\ kind = 0 /\ asOk = 0 /\ csn = 0 /\ powered = 0 /\ accelPc = 0 /\ accelCall = 0
    /\ accesses = 0 /\ result = 0 /\ registers = 0 /\ bytes = 0 /\ out = 0 /\ shadow = 0
    /\ accelCalls = 0 /\ slow = 0 /\ seen = 0 /\ torn = 0
NoIdle ==
    /\ idlePc = 0 /\ reg = 0 /\ flag = 0 /\ ints = 0 /\ counter = 0 /\ overflow = 0
    /\ total = 0 /\ loops = 0 /\ awake = 0 /\ time = 0 /\ real = 0
NoPast ==
    /\ speed = 0 /\ excess = 0 /\ mul = 0 /\ intervals = 0 /\ busy = 0
NoButton ==
    /\ contact = 0 /\ pin = 0 /\ since = 0 /\ gap = 0 /\ state = 0 /\ buttonPc = 0
    /\ timer = 0 /\ i = 0 /\ current = 0 /\ taker = 0 /\ wait = 0 /\ taken = 0
    /\ presses = 0 /\ published = 0 /\ fresh = 0 /\ lost = 0 /\ twice = 0 /\ undue = 0
NoRadio ==
    /\ chip = 0 /\ sleeping = 0 /\ rxEnabled = 0 /\ op = 0 /\ todo = 0 /\ frames = 0
    /\ hung = 0 /\ before = 0
NoUart ==
    /\ txbuf = 0 /\ readIdx = 0 /\ writeIdx = 0 /\ txie = 0 /\ txreg = 0 /\ uartPc = 0
    /\ uartT = 0 /\ uartC = 0 /\ put = 0 /\ sent = 0
NoSleep ==
    /\ sleepPc = 0 /\ handler = 0 /\ gie = 0 /\ lpm = 0 /\ ie = 0 /\ ifg = 0
    /\ running = 0 /\ watchdog = 0 /\ byWatchdog = 0 /\ pressed = 0 /\ bounces = 0
    /\ sleepPresses = 0 /\ resets = 0 /\ appHung = 0
NoPress ==
    /\ part = 0 /\ available = 0 /\ rev = 0 /\ tps = 0 /\ calibration = 0 /\ mode = 0
    /\ b5 = 0 /\ pressPc = 0 /\ pressCall = 0 /\ lower = 0 /\ pressure = 0 /\ conv = 0
    /\ adc = 0 /\ done = 0 /\ air = 0 /\ pressCalls = 0 /\ accRefused = 0 /\ first = 0
    /\ bad = 0 /\ airSeen = 0

Init ==
    \/ /\ instance = "bus" /\ Bus!Init
       /\ NoAccel /\ NoIdle /\ NoPast /\ NoButton /\ NoRadio /\ NoUart /\ NoSleep /\ NoPress
    \/ /\ instance = "accel" /\ Accel!Init
       /\ NoBus /\ NoIdle /\ NoPast /\ NoButton /\ NoRadio /\ NoUart /\ NoSleep /\ NoPress
    \/ /\ instance = "idle" /\ Idle!Init
       /\ NoBus /\ NoAccel /\ NoPast /\ NoButton /\ NoRadio /\ NoUart /\ NoSleep /\ NoPress
    \/ /\ instance = "past" /\ Past!Init
       /\ NoBus /\ NoAccel /\ NoIdle /\ NoButton /\ NoRadio /\ NoUart /\ NoSleep /\ NoPress
    \/ /\ instance = "buttons" /\ Buttons!Init
       /\ NoBus /\ NoAccel /\ NoIdle /\ NoPast /\ NoRadio /\ NoUart /\ NoSleep /\ NoPress
    \/ /\ instance = "radio" /\ Radio!Init
       /\ NoBus /\ NoAccel /\ NoIdle /\ NoPast /\ NoButton /\ NoUart /\ NoSleep /\ NoPress
    \/ /\ instance = "uart" /\ Uart!Init
       /\ NoBus /\ NoAccel /\ NoIdle /\ NoPast /\ NoButton /\ NoRadio /\ NoSleep /\ NoPress
    \/ /\ instance = "sleep" /\ Sleep!Init
       /\ NoBus /\ NoAccel /\ NoIdle /\ NoPast /\ NoButton /\ NoRadio /\ NoUart /\ NoPress
    \/ /\ instance = "pressure" /\ Pressure!Init
       /\ NoBus /\ NoAccel /\ NoIdle /\ NoPast /\ NoButton /\ NoRadio /\ NoUart /\ NoSleep

\* What an instance does not change.
OnlyBus == UNCHANGED <<accelVars, idleVars, pastVars, buttonVars, radioVars, uartVars, sleepVars, pressVars>>
OnlyAccel == UNCHANGED <<busVars, idleVars, pastVars, buttonVars, radioVars, uartVars, sleepVars, pressVars>>
OnlyIdle == UNCHANGED <<busVars, accelVars, pastVars, buttonVars, radioVars, uartVars, sleepVars, pressVars>>
OnlyPast == UNCHANGED <<busVars, accelVars, idleVars, buttonVars, radioVars, uartVars, sleepVars, pressVars>>
OnlyButton == UNCHANGED <<busVars, accelVars, idleVars, pastVars, radioVars, uartVars, sleepVars, pressVars>>
OnlyRadio == UNCHANGED <<busVars, accelVars, idleVars, pastVars, buttonVars, uartVars, sleepVars, pressVars>>
OnlyUart == UNCHANGED <<busVars, accelVars, idleVars, pastVars, buttonVars, radioVars, sleepVars, pressVars>>
OnlySleep == UNCHANGED <<busVars, accelVars, idleVars, pastVars, buttonVars, radioVars, uartVars, pressVars>>
OnlyPress == UNCHANGED <<busVars, accelVars, idleVars, pastVars, buttonVars, radioVars, uartVars, sleepVars>>

Is(name) == instance = name
Runs(name) == Is(name) /\ UNCHANGED instance

Next ==
    \/ Runs("bus") /\ Bus!Next /\ OnlyBus
    \/ Runs("accel") /\ Accel!Next /\ OnlyAccel
    \/ Runs("idle") /\ Idle!Next /\ OnlyIdle
    \/ Runs("past") /\ Past!Next /\ OnlyPast
    \/ Runs("buttons") /\ Buttons!Next /\ OnlyButton
    \/ Runs("radio") /\ Radio!Next /\ OnlyRadio
    \/ Runs("uart") /\ Uart!Next /\ OnlyUart
    \/ Runs("sleep") /\ Sleep!Next /\ OnlySleep
    \/ Runs("pressure") /\ Pressure!Next /\ OnlyPress

\* The fairness of RingBuffer, Standby and PressureSensor, each for its instance.
FairUart ==
    /\ WF_vars(Runs("uart") /\ Uart!Prologue /\ OnlyUart)
    /\ WF_vars(Runs("uart") /\ Uart!Shift /\ OnlyUart)
    /\ WF_vars(Runs("uart") /\ Uart!InPutc("a") /\ OnlyUart)
    /\ WF_vars(Runs("uart") /\ Uart!Flushed("a") /\ OnlyUart)
FairSleep ==
    /\ WF_vars(Runs("sleep") /\ Sleep!Program /\ OnlySleep)
    /\ WF_vars(Runs("sleep") /\ Sleep!Enter /\ OnlySleep)
    /\ WF_vars(Runs("sleep") /\ Sleep!WaitRelease /\ OnlySleep)
    /\ WF_vars(Runs("sleep") /\ Sleep!Act /\ OnlySleep)
    /\ WF_vars(Runs("sleep") /\ Sleep!WatchdogStrikes /\ OnlySleep)
    /\ WF_vars(Runs("sleep") /\ Sleep!Settle /\ OnlySleep)
    /\ WF_vars(Runs("sleep") /\ Sleep!Release /\ OnlySleep)
FairPress ==
    /\ WF_vars(Runs("pressure") /\ Pressure!Step /\ OnlyPress)
    /\ WF_vars(Runs("pressure") /\ Pressure!Finish /\ OnlyPress)

Spec == Init /\ [][Next]_vars /\ FairUart /\ FairSleep /\ FairPress

-----------------------------------------------------------------------------
\* The types of the running instance.
TypeOK ==
    /\ Is("bus") => Bus!TypeOK
    /\ Is("accel") => Accel!TypeOK
    /\ Is("idle") => Idle!TypeOK
    /\ Is("past") => Past!TypeOK
    /\ Is("buttons") => Buttons!TypeOK
    /\ Is("radio") => Radio!TypeOK
    /\ Is("uart") => Uart!TypeOK
    /\ Is("sleep") => Sleep!TypeOK
    /\ Is("pressure") => Pressure!TypeOK

\* What a call of the bus returns is true: a read that was acknowledged has the
\* registers' bytes in their order, a write that returns 1 has arrived, and a call
\* fails only if its device is absent or refused, whatever a failed call before it
\* left on the bus.  The sensor sees the conditions that are sent and no others, and
\* lets the line go (ps.cc:210, 242).
BusTrue ==
    Is("bus") => /\ Bus!BytesTrue /\ Bus!WriteArrives /\ Bus!FailsOnlyIfRefused
                 /\ Bus!CleanEdges /\ Bus!LineFree

\* A timeout at any byte tears no later transfer, plugin() brings a sensor back that
\* an error had cut off, enable() without an error leaves the range and the rate
\* asked for, and a value is what was measured during the call (accel_spi.cc:90,
\* bma250.cc:57, 80).
AccelTrue ==
    Is("accel") => /\ Accel!TwoBytes /\ Accel!PluginRecovers
                   /\ Accel!EnableWhole /\ Accel!FreshSample

\* A pressure read with no access refused is one the air had during the call; board
\* and sensor go together, whatever was refused in between (bmp085.cc:60, 152, 176).
PressureTrue == Is("pressure") => Pressure!OneBoard /\ Pressure!MeasuredNow

\* The idle time measured is off by two turns of the timer at most, however its
\* interrupts fall (timer.cc:61, 85, 91).
WithinTwoTurns == Is("idle") => Idle!WithinTwoTurns

\* A processor that did not idle in two intervals runs at full speed from then on,
\* and at full speed nothing is left over, although products of the arithmetic may
\* be more than a word (pastthread.cc:25, 29, 38).
FullSpeed ==
    /\ [](Is("past") => Past!FullSpeedIfBusy)
    /\ [][Is("past") => Past!NothingOver]_vars

\* A press that outlasts the debounce time is published, a held one again only
\* after the whole wait, and none is returned twice (buttonservice.cc:16, 24, 32).
PressesTold ==
    Is("buttons") => Buttons!PressSeen /\ Buttons!RepeatsSlowly /\ Buttons!TakenOnce

\* No call runs into an assertion of the driver, `sleeping' and `rx_enabled' tell the
\* chip's state between calls, a call that sends or listens leaves it as it was, and
\* only a radio that receives is idled (radio.cc:75, 116, nwk_types.h:337).
RadioKept ==
    /\ [](Is("radio") => /\ Radio!NeverHangs /\ Radio!FlagTellsSleep
                         /\ Radio!ReceivesIffEnabled /\ Radio!ModeRestored)
    /\ [][Is("radio") => Radio!IdlesReceiving]_vars

\* What was sent, what waits in register and buffer and what putc() holds is what was
\* printed, in its order (uart.cc:41).
InOrder == Is("uart") => Uart!InOrder

\* All that is printed leaves: the interrupt is not left off with bytes in the
\* buffer.  And flush() returns, though the buffer may be filled up to its last place
\* (uart.cc:47, 50).
AllLeaves ==
    /\ []<>(Is("uart") => Len(sent) = Len(put))
    /\ (Is("uart") /\ uartPc["a"] = "flush") ~> (Is("uart") /\ uartPc["a"] = "idle")

\* The watch that sleeps can be woken, and the loader is entered only after a second
\* press, or because the application hung (standby.cc:21, 72, system.c:159).
OnePressOneEffect == Is("sleep") => Sleep!WakesOnPress /\ Sleep!OnePressOneEffect

\* A press that wakes the watch starts the application, and one that the application
\* sees leads to the loader (standby.cc:21, 72).
PressActs ==
    /\ (Is("sleep") /\ lpm /\ ifg) ~> (Is("sleep") /\ sleepPc \in {"app", "hung", "panic", "bsl"})
    /\ (Is("sleep") /\ sleepPc \in {"app", "panic"} /\ ifg /\ resets < MaxResets) ~>
           (Is("sleep") /\ sleepPc \in {"bsl", "hung"})

\* Every call of the pressure sensor returns: no wait is begun that no measurement
\* ends (bmp085.cc:117, 152).
Returns == (Is("pressure") /\ pressPc # "idle") ~> (Is("pressure") /\ pressPc = "idle")
=============================================================================
