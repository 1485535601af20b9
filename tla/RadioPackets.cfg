SPECIFICATION PacketSpec
CONSTANTS
    NULL = NULL
    Threads = {t1}
    BootThreads = {t1}
    Gates = {"watch", "radio"}
    Semaphores = {packets}
    RadioSem = packets
    MaxTicks = 1
    MaxCount = 2
    MaxDepth = 1
INVARIANT
    EveryPacketSignalled
