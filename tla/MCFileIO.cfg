SPECIFICATION Spec
CONSTANTS
    h1 = h1
    h2 = h2
    x = x
    y = y
    Junk = Junk
    Handles <- MCHandles
    Bytes <- MCBytes
    BlockSize = 2
    MaxSize = 3
    Habits <- Careful
INVARIANTS
    TypeOK
    NoOverrun
    OpensAskForWritten
    NothingLeftBehind
PROPERTIES
    ImplementsPosixFile
