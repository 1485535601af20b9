SPECIFICATION Spec
CONSTANTS
    Items = {i1, i2, i3, i4}
    NULL = NULL
PROPERTY
    IsFifo
