SPECIFICATION FSpec
CONSTANTS
    NThreads = 3
    Prio <- MCPrio
    SleepTicks = {1}
    TickMod = 2
    LastTick = 2
    MaxNest = 2
    NMutexes = 1
    Timeouts = {0}
    Deletable = {}
    NChunks = 1
    ReadLengths = {1}
    WriteLengths = {2}
    Results = {1}
    StrayIDs = {7}
    MaxAlarms = 1
INVARIANTS
    FOnePlace
PROPERTIES
    FileCallsRefined
    ServerUsed
