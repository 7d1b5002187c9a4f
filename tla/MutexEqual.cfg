SPECIFICATION MSpec
CONSTANTS
    NThreads = 4
    Prio <- SamePrio
    SleepTicks = {1}
    TickMod = 3
    LastTick = 3
    MaxNest = 1
    NMutexes = 1
    Timeouts = {0}
    Deletable = {}
INVARIANTS
    MTypeOK
    LockIsFree
    HandFindsWaiter
PROPERTIES
    StrandedOnlyByGivingUp
    LockRefined
