SPECIFICATION Spec
CONSTANTS
    Devices = {"watch", "other", "peer"}
    Linkers = {"watch", "other"}
    Listeners = {"peer"}
    Unlinkers = {}
    Restarters = {}
    Tids = {1, 2}
    SizeQ = 2
    Duplicates = FALSE
    Late = FALSE
    MaxCalls = 6
    NumConnections = 2
    PortBase = 1
    PortMax = 4
    MaxLid = 4
    NoPeer = "none"
INVARIANT
    NoneForgotten
CHECK_DEADLOCK FALSE
