SPECIFICATION PathsSpec
CONSTANTS
    Chars <- MCChars
    MaxPath = 6
    MaxDest = 4
INVARIANTS
    WayBack
PROPERTIES
    WalksRight
