SPECIFICATION LiveSpec
CONSTANTS
    NThreads = 3
    Prio <- MCPrio
    SleepTicks = {1, 2}
    TickMod = 4
    LastTick = 4
    MaxNest = 2
PROPERTIES
    InversionResolved
    SleepQueueMoves
