SPECIFICATION FairSpec
CONSTANTS
    t1 = t1
    t2 = t2
    t3 = t3
    mutex = mutex
    packets = packets
    NULL = NULL
    Threads = {t1, t2, t3}
    BootThreads = {t1, t2}
    Gates = {"watch"}
    Semaphores = {mutex, packets}
    RadioSem = packets
    MaxTicks = 2
    MaxCount = 1
    MaxDepth = 1
PROPERTIES
    ReadyRuns
    SleeperRuns
