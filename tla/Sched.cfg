SPECIFICATION ClockSpec
CONSTANTS
    NThreads = 4
    Prio <- MCPrio
    SleepTicks = {1, 2}
    TickMod = 100
    LastTick = 5
    MaxNest = 2
INVARIANTS
    TypeOK
    OnePlace
    StateAgrees
    IdleStandsBy
    LateByOthers
PROPERTY
    SleepsLongEnough
CHECK_DEADLOCK FALSE
