SPECIFICATION Spec
CONSTANTS
    WorldSize = 2
    BlockSize = 2
    a = a
    b = b
    Names <- MCNames
    Paths <- MCPaths
    MaxINodes = 5
    FileSizes <- MCFileSizes
    MaxRequests = 3
    UserOps <- Directories
    Pace = "eager"
    StartMayFail = FALSE
    Garbage = Garbage
INVARIANTS PeersAgree
CHECK_DEADLOCK FALSE
