SPECIFICATION Spec
CONSTANTS
    \* An output with the sign bit and one without, two bytes too slow.
    Outputs = {5, 200}
    MaxAccelCalls = 4
    MaxSlow = 2
    \* Five counts to a turn of the timer, two to a millisecond.
    Top = 4
    Divisor = 2
    TimerSize = 256
    MaxLoops = 3
    MaxAwake = 2
    MaxIdleTime = 14
    \* Idle times below, at and above the thresholds of the 40 ms interval.
    IdleTimes = {0, 1, 20, 26, 40, 60}
    MaxIntervals = 12
    \* Two buttons; the service waits three ticks, four times.
    Names = {"UP", "DOWN"}
    Debounce = 3
    Repeats = 4
    Period = 8
    Bouncing = 2
    MaxButtonPresses = 2
    MaxButtonTime = 13
    MaxPackets = 2
    \* Up to nearly twice the buffer of four.
    BufferSize = 4
    MaxBytes = 7
    MaxPresses = 3
    MaxResets = 3
    \* Two pressures, two accesses refused.
    Pressures = {5, 10}
    LowerSize = 16
    MaxPressCalls = 4
    MaxRefusals = 2
INVARIANTS
    TypeOK
    BusTrue
    AccelTrue
    PressureTrue
    
    PressesTold
    InOrder
    
PROPERTIES
    
    RadioKept
    AllLeaves
    PressActs
    Returns
CHECK_DEADLOCK FALSE
