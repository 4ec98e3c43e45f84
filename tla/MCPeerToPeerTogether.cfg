SPECIFICATION Spec
CONSTANTS
    WorldSize = 2
    BlockSize = 2
    a = a
    b = b
    Names <- MCNames
    Paths <- MCPaths
    MaxINodes = 5
    FileSizes <- MCFileSizes
    MaxRequests = 2
    UserOps <- Directories
    Pace = "together"
    StartMayFail = FALSE
    Garbage = Garbage
INVARIANTS RequestsPaired
CHECK_DEADLOCK FALSE
