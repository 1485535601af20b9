SPECIFICATION Spec
CONSTANTS
    IdleTimes = {0, 1, 20, 26, 40, 60}
    MaxIntervals = 2
INVARIANT
    FrequencyIsSpeed
CHECK_DEADLOCK FALSE
