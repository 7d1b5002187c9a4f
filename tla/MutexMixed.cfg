SPECIFICATION MSpec
CONSTANTS
    NThreads = 3
    Prio <- MCPrio
    SleepTicks = {1}
    TickMod = 3
    LastTick = 3
    MaxNest = 1
    NMutexes = 2
    Timeouts = {0}
    Deletable = {0}
INVARIANTS
    MOnePlace
    BlockedIsWaiting
