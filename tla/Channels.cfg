SPECIFICATION Spec
CONSTANTS
    APs = {"ap"}
    Clients = {"re", "ed"}
    Extenders = {"re"}
    Scanners = {"ed"}
    Knows <- KnowsAp
    NoAp = "none"
    Hears <- Chain
    TableSize = 2
    Tids = {0, 1, 2}
    MaxHops = 1
    SizeQ = 2
    MaxMoves = 2
    MaxLost = 1
    MaxIdle = 1
INVARIANTS
    ScanFindsAP
PROPERTY
    Reunited
CHECK_DEADLOCK FALSE
