SPECIFICATION MachineSpec
CONSTANTS
    Clients = {c1, c2}
    Files <- MCFiles
    Terminals <- MCTerminals
    MaxBytes = 2
INVARIANTS
    MachineTypeOK
    ReadsDontBlock
    NoneUnheard
PROPERTIES
    ServerRefined
    AnswersFollow
    ReadsFollow
    ChildEnds
