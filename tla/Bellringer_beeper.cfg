SPECIFICATION BeeperSpec
CONSTANTS
    Bells = {b1, b2, beeper}
    Beepers = {beeper}
    MaxTicks = 2
PROPERTY
    RingsOnTime
