SPECIFICATION Spec
CONSTANTS
    Bells = {b1, b2, b3, b4}
    Beepers = {}
    MaxTicks = 4
PROPERTY
    RingsOnTime
