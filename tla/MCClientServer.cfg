SPECIFICATION Spec
CONSTANTS
    WorldSize = 3
    BlockSize = 2
    INodes = {f, g}
    FileSizes <- MCFileSizes
    MaxRequests = 3
    StartMayFail = TRUE
    Garbage = Garbage
INVARIANTS
    TypeOK
    FullInv
    CollectivesMatch
    StripeOwnership
    PointerLocality
    NodesKnowTheirBlocks
PROPERTIES
    ImplementsBlockStore
    RequestsComplete
    NodesStop
