SPECIFICATION Spec
CONSTANTS
    WorldSize = 2
    BlockSize = 2
    a = a
    b = b
    Names <- MCNames
    Paths <- MCPaths
    MaxINodes = 4
    FileSizes <- MCFileSizes
    MaxRequests = 4
    UserOps <- Replicated
    Pace = "settled"
    StartMayFail = TRUE
    Garbage = Garbage
INVARIANTS
    TypeOK
    CollectivesMatch
    PointerLocality
    PeersAgree
    FlagsDown
PROPERTIES
    ImplementsOperationLog
    ImplementsBlockStore
    PeersCatchUp
    PeersStop
