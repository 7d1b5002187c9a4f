SPECIFICATION FATSpec
CONSTANTS
    Threads = {t1, t2}
    Layouts <- MCLayouts
    Table <- MCTable
    NewNames = {"c"}
    Junk <- MCJunk
    SlotsPerSector = 1
    MaxChunks = 2
    MaxOpen = 3
    LastCursor = 4
INVARIANTS
    AtOwnPlace
