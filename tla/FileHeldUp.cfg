SPECIFICATION FLiveSpec
CONSTANTS
    NThreads = 3
    Prio <- MCPrio
    SleepTicks = {1}
    TickMod = 2
    LastTick = 2
    MaxNest = 1
    NMutexes = 1
    Timeouts = {0}
    Deletable = {}
    NChunks = 2
    ReadLengths = {}
    WriteLengths = {}
    Results = {1}
    StrayIDs = {}
    MaxAlarms = 1
PROPERTIES
    AnswersArrive
