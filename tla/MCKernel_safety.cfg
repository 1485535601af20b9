SPECIFICATION Spec
CONSTANTS
    t1 = t1
    t2 = t2
    t3 = t3
    mutex = mutex
    packets = packets
    NULL = NULL
    Threads = {t1, t2, t3}
    BootThreads = {t1, t2, t3}
    Gates = {"watch", "radio"}
    Semaphores = {mutex, packets}
    RadioSem = packets
    MaxTicks = 2
    MaxCount = 2
    MaxDepth = 2
SYMMETRY
    ThreadSymmetry
INVARIANTS
    TypeOK
    GuardInv
    FrameInv
    NoPanic
    GatesQueuedOnce
    NoneWaitsInVain
    ListsInv
    FlagsInv
