SPECIFICATION Spec
CONSTANTS
    h1 = h1
    h2 = h2
    x = x
    y = y
    Junk = Junk
    Handles <- MCHandles
    Bytes <- MCBytes
    BlockSize = 2
    MaxSize = 5
    Habits <- Duplicates
INVARIANTS
    NoOverrun
CHECK_DEADLOCK FALSE
