SPECIFICATION FSpec
CONSTANTS
    NThreads = 3
    Prio <- SamePrio
    SleepTicks = {1}
    TickMod = 2
    LastTick = 2
    MaxNest = 2
    NMutexes = 1
    Timeouts = {0}
    Deletable = {}
    NChunks = 2
    ReadLengths = {1}
    WriteLengths = {0, 2}
    Results = {1}
    StrayIDs = {7}
    MaxAlarms = 1
INVARIANTS
    FTypeOK
    OnlyIdleHears
    ChunksApart
