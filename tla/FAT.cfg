SPECIFICATION FATSpec
CONSTANTS
    Threads = {t1}
    Layouts <- MCLayouts
    Table <- MCTable
    NewNames = {"c"}
    Junk <- MCJunk
    SlotsPerSector = 1
    MaxChunks = 2
    MaxOpen = 2
    LastCursor = 4
INVARIANTS
    FATTypeOK
    AtOwnPlace
    DescriptorNames
    ListingComplete
PROPERTIES
    EntriesSpared
