SPECIFICATION Spec
CONSTANTS
    t1 = t1
    t2 = t2
    t3 = t3
    mutex = mutex
    packets = packets
    NULL = NULL
    Threads = {t1, t2}
    BootThreads = {t1, t2}
    Gates = {"watch"}
    Semaphores = {packets}
    RadioSem = packets
    MaxTicks = 1
    MaxCount = 1
    MaxDepth = 1
INVARIANT
    SleepsOnlyWhenIdle
