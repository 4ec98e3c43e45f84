SPECIFICATION Spec
CONSTANTS
    WorldSize = 3
    BlockSize = 2
    IntMax = 15
    FileSizes <- MCFileSizes
INVARIANTS
    TypeOK
    LoopExact
    EveryBlockOnce
    RightExactlyWhenRepresentable
