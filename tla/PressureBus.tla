---------------------------- MODULE PressureBus ----------------------------
(***************************************************************************)
(* The two-wire bus of the pressure sensors, driven pin by pin             *)
(* (machine/ps.cc): a call is a sequence of pin operations, and the sensor *)
(* follows the edges it sees.  Bytes have Width bits, an int has two bytes *)
(* and a long four, as on the target.                                      *)
(***************************************************************************)
EXTENDS Naturals, Sequences, SequencesExt

CONSTANTS
    Width,         \* bits of a byte: 8 on the target
    Devices,       \* device addresses, without the read/write bit: numbers
    Present,       \* the one that is there
    Registers,     \* the number of its registers
    MasterWins,    \* a pin driven high wins against a sensor that pulls low
    MaxRefusals,   \* bound on the bytes the sensor does not acknowledge
    MaxCalls       \* bound on the calls

BusAssumption == Width \in Nat \ {0, 1} /\ Registers \in Nat \ {0}

Bits == {0, 1}
Bytes == [1..Width -> Bits]
Value(bits) == FoldLeft(LAMBDA a, b : 2 * a + b, 0, bits)
Base == 2 ^ Width
BytesOf(n) == CHOOSE b \in Bytes : Value(b) = n

VARIABLES
    scl, sdaOut, sdaDir,   \* the pins: clock, latch and direction of SDA
    todo,                  \* the pin operations left of the call
    call,                  \* kind, dev, addr, mode, data
    sda,                   \* the level last sampled
    got,                   \* the bits read
    ok,                    \* no acknowledge was missing
    sensor,                \* phase, shift, reg, read, pull
    regs,                  \* the sensor's registers
    refusals, calls,
    refused,               \* history: the sensor refused a byte of this call
    clean                  \* history: it saw the conditions sent, and no others

pins == <<scl, sdaOut, sdaDir>>
vars == <<pins, todo, call, sda, got, ok, sensor, regs, refusals, calls, refused, clean>>

Line(out, dir, pull) ==
    IF dir = "in" THEN (IF pull THEN 0 ELSE 1)
    ELSE IF out = 1 /\ pull THEN (IF MasterWins THEN 1 ELSE 0)
    ELSE out

-----------------------------------------------------------------------------
\* The conditions and bytes as pin operations; "start" and "stop" are the edges
\* of SDA that are meant as such.
Start == <<"sdaOut", "sclHi", "start", "sclLo">>
Restart == <<"sdaOut", "sclLo", "sdaHi", "sclHi", "start", "sclLo">>
Stop == <<"sdaOut", "sdaLo", "sclLo", "sclHi", "stop">>
CheckAck == <<"sdaIn", "sclLo", "sclHi", "sample", "sclLo">>

WriteBit(b) == <<"sclLo", IF b = 1 THEN "sdaHi" ELSE "sdaLo", "sclHi">>
WriteByte(byte) ==
    <<"sdaOut">> \o FlattenSeq([k \in 1..Width |-> WriteBit(byte[k])]) \o <<"sclLo", "sdaIn">>

\* Mutant: every byte is acknowledged, the last one too.
ReadByteAcked(ack) ==
    <<"sdaIn">> \o FlattenSeq([k \in 1..Width |-> <<"sclLo", "sclHi", "bit">>])
    \o <<"sdaOut", "sclLo", "sdaLo", "sclHi", "sclLo">>
ReadByte(ack) ==
    <<"sdaIn">> \o FlattenSeq([k \in 1..Width |-> <<"sclLo", "sclHi", "bit">>])
    \o <<"sdaOut", "sclLo", IF ack THEN "sdaLo" ELSE "sdaHi", "sclHi", "sclLo">>

Address(dev, rw) == BytesOf(2 * dev + rw)
Checked(byte) == WriteByte(byte) \o CheckAck \o <<"test">>

\* ps_write_register(): the acknowledge of the data is not tested.
WriteRegister(c) ==
    Start \o Checked(Address(c.dev, 0)) \o Checked(BytesOf(c.addr))
    \o WriteByte(c.data) \o CheckAck \o Stop

\* ps_read_register(): mode + 1 bytes, all but the last acknowledged.
ReadRegister(c) ==
    Start \o Checked(Address(c.dev, 0)) \o Checked(BytesOf(c.addr))
    \o Restart \o Checked(Address(c.dev, 1))
    \o FlattenSeq([k \in 1..(c.mode + 1) |-> ReadByte(k < c.mode + 1)]) \o Stop

\* Two bytes are an int: the upper one, shifted, carries its sign into the long.
Shifted(b) ==
    IF b >= Base \div 2 THEN Base ^ 4 - Base ^ 2 + b * Base ELSE b * Base
Byte(k) == Value([i \in 1..Width |-> got[(k - 1) * Width + i]])
\* A negative int sets the long's upper half: the byte there is lost.
Upper(b1, b2) == IF b2 >= Base \div 2 THEN 0 ELSE b1 * (Base ^ 2)
Result ==
    CASE call.mode = 0 -> Byte(1)
      [] call.mode = 1 -> Shifted(Byte(1)) + Byte(2)
      [] call.mode = 2 -> Upper(Byte(1), Byte(2)) + Shifted(Byte(2)) + Byte(3)

-----------------------------------------------------------------------------
\* The sensor.
Init ==
    /\ scl = 1 /\ sdaOut = 1 /\ sdaDir = "out"
    /\ todo = <<>>
    /\ call = [kind |-> "none", dev |-> Present, addr |-> 0, mode |-> 0, data |-> BytesOf(0)]
    /\ sda = 1 /\ got = <<>> /\ ok = TRUE
    /\ sensor = [phase |-> "idle", shift |-> <<>>, reg |-> 0, read |-> FALSE, pull |-> FALSE]
    /\ regs \in [0..(Registers - 1) -> Bytes]
    /\ refusals = 0 /\ calls = 0
    /\ refused = FALSE /\ clean = TRUE

Sees(s) == sensor' = s /\ UNCHANGED <<regs, refusals, refused>>

\* A byte is complete: acknowledged, or refused and the rest ignored.
Acknowledge(s) ==
    \/ Sees([s EXCEPT !.pull = TRUE])
    \/ /\ refusals < MaxRefusals
       /\ refusals' = refusals + 1
       /\ refused' = TRUE
       /\ sensor' = [s EXCEPT !.phase = "idle"]
       /\ UNCHANGED regs

Sending(s, reg) ==
    [s EXCEPT !.phase = "send", !.reg = reg, !.shift = regs[reg], !.pull = regs[reg][1] = 0]
NextReg == (sensor.reg + 1) % Registers

\* The clock rises: a bit is taken over.
Rise(level) ==
    IF sensor.phase \in {"address", "register", "data", "masterack"}
    THEN Sees([sensor EXCEPT !.shift = Append(@, level)])
    ELSE Sees(sensor)

\* The clock falls: the sensor may change what it drives.
Fall ==
    LET full == Len(sensor.shift) = Width
        mine == SubSeq(sensor.shift, 1, Width - 1) = SubSeq(Address(Present, 0), 1, Width - 1)
    IN  CASE sensor.phase = "address" /\ full ->
               IF mine THEN Acknowledge([sensor EXCEPT !.phase = "ack",
                                            !.read = sensor.shift[Width] = 1])
               ELSE Sees([sensor EXCEPT !.phase = "idle"])
          [] sensor.phase = "ack" ->
               IF sensor.read THEN Sees(Sending(sensor, sensor.reg))
               ELSE Sees([sensor EXCEPT !.phase = "register", !.shift = <<>>, !.pull = FALSE])
          [] sensor.phase = "register" /\ full ->
               Acknowledge([sensor EXCEPT !.phase = "ackreg",
                               !.reg = Value(sensor.shift) % Registers])
          [] sensor.phase \in {"ackreg", "ackdata"} ->
               Sees([sensor EXCEPT !.phase = "data", !.shift = <<>>, !.pull = FALSE])
          [] sensor.phase = "data" /\ full ->
               /\ regs' = [regs EXCEPT ![sensor.reg] = sensor.shift]
               /\ \E pull \in BOOLEAN :
                     sensor' = [sensor EXCEPT !.phase = "ackdata", !.reg = NextReg, !.pull = pull]
               /\ UNCHANGED <<refusals, refused>>
          [] sensor.phase = "send" ->
               LET rest == Tail(sensor.shift)
               IN  IF rest = <<>>
                   THEN Sees([sensor EXCEPT !.phase = "masterack", !.shift = <<>>, !.pull = FALSE])
                   ELSE Sees([sensor EXCEPT !.shift = rest, !.pull = rest[1] = 0])
          [] sensor.phase = "masterack" ->
               IF sensor.shift = <<0>> THEN Sees(Sending(sensor, NextReg))
               ELSE Sees([sensor EXCEPT !.phase = "idle", !.shift = <<>>])
          [] OTHER -> Sees(sensor)

\* What the sensor sees of a change of the pins: the conditions are edges of SDA
\* while the clock is high.
Follow(op) ==
    LET before == Line(sdaOut, sdaDir, sensor.pull)
        now == Line(sdaOut', sdaDir', sensor.pull)
        isStart == scl = 1 /\ scl' = 1 /\ before = 1 /\ now = 0
        isStop == scl = 1 /\ scl' = 1 /\ before = 0 /\ now = 1
    IN  /\ clean' = (clean /\ isStart = (op = "start") /\ isStop = (op = "stop"))
        /\ CASE isStart -> Sees([sensor EXCEPT !.phase = "address", !.shift = <<>>, !.pull = FALSE])
             [] isStop -> Sees([sensor EXCEPT !.phase = "idle", !.shift = <<>>, !.pull = FALSE])
             [] scl = 0 /\ scl' = 1 -> Rise(now)
             [] scl = 1 /\ scl' = 0 -> Fall
             [] OTHER -> Sees(sensor)

-----------------------------------------------------------------------------
\* The calls.
Calls ==
    [kind : {"read"}, dev : Devices, addr : 0..(Registers - 1), mode : 0..2, data : {BytesOf(0)}]
    \cup [kind : {"write"}, dev : Devices, addr : 0..(Registers - 1), mode : {0}, data : Bytes]

Begin(c) ==
    /\ todo = <<>>
    /\ calls < MaxCalls
    /\ calls' = calls + 1
    /\ call' = c
    /\ todo' = IF c.kind = "read" THEN ReadRegister(c) ELSE WriteRegister(c)
    /\ got' = <<>> /\ ok' = TRUE /\ refused' = FALSE
    /\ UNCHANGED <<pins, sda, sensor, regs, refusals, clean>>

\* An operation that changes the pins.
Pin(op) ==
    /\ todo # <<>> /\ op = Head(todo)
    /\ scl' = CASE op = "sclHi" -> 1 [] op = "sclLo" -> 0 [] OTHER -> scl
    /\ sdaOut' = CASE op \in {"sdaHi", "stop", "sdaIn"} -> 1
                   [] op \in {"sdaLo", "start"} -> 0
                   [] OTHER -> sdaOut
    /\ sdaDir' = CASE op = "sdaOut" -> "out" [] op = "sdaIn" -> "in" [] OTHER -> sdaDir
    /\ Follow(op)
    /\ todo' = Tail(todo)
    /\ UNCHANGED <<call, sda, got, ok, calls>>

Level == Line(sdaOut, sdaDir, sensor.pull)

Sample ==
    /\ todo # <<>> /\ Head(todo) = "sample"
    /\ sda' = Level
    /\ todo' = Tail(todo)
    /\ UNCHANGED <<pins, call, got, ok, sensor, regs, refusals, calls, refused, clean>>

\* No acknowledge: the call returns at once.
Acked == sda = 0

Test ==
    /\ todo # <<>> /\ Head(todo) = "test"
    /\ ok' = Acked
    /\ todo' = IF Acked THEN Tail(todo) ELSE <<>>
    /\ UNCHANGED <<pins, call, sda, got, sensor, regs, refusals, calls, refused, clean>>

ReadBit ==
    /\ todo # <<>> /\ Head(todo) = "bit"
    /\ got' = Append(got, Level)
    /\ todo' = Tail(todo)
    /\ UNCHANGED <<pins, call, sda, ok, sensor, regs, refusals, calls, refused, clean>>

Next ==
    \/ \E c \in Calls : Begin(c)
    \/ \E op \in {"sdaOut", "sdaIn", "sdaHi", "sdaLo", "sclHi", "sclLo", "start", "stop"} : Pin(op)
    \/ Sample \/ Test \/ ReadBit

Spec == Init /\ [][Next]_vars

-----------------------------------------------------------------------------
TypeOK ==
    /\ scl \in Bits /\ sdaOut \in Bits /\ sdaDir \in {"in", "out"}
    /\ regs \in [0..(Registers - 1) -> Bytes]
    /\ Len(sensor.shift) <= Width
    /\ Len(got) <= (call.mode + 1) * Width

Returned(kind) == todo = <<>> /\ call.kind = kind
Register(k) == regs[(call.addr + k - 1) % Registers]

\* A read that was acknowledged returns the registers' bytes, in their order.
BytesTrue ==
    (Returned("read") /\ ok) => \A k \in 1..(call.mode + 1) : Byte(k) = Value(Register(k))

\* A write that returns 1 has arrived.
WriteArrives == (Returned("write") /\ ok) => Register(1) = call.data

\* A call fails only if its device is absent or refused: nothing that a call
\* before left on the bus, without a stop, disturbs the next.
FailsOnlyIfRefused ==
    (todo = <<>> /\ ~ok) => (refused \/ call.dev # Present)

\* SDA changes while the clock is high in the conditions the driver sends, and
\* nowhere else.
CleanEdges == clean

\* The sensor does not hold the data line when a call is over, so that the next
\* can send its start condition.
LineFree == todo = <<>> => ~sensor.pull

\* The result is the registers' content as a number.
\* The code breaks it: README, section 5.
ContentReturned ==
    (Returned("read") /\ ok) =>
        Result = Value(FlattenSeq([k \in 1..(call.mode + 1) |-> Register(k)]))
=============================================================================
