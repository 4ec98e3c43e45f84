SPECIFICATION Spec
CONSTANTS
    LastName = 5
    NameLength <- MCNameLength
    Handles = {h1}
    RequestSize = 4096
    kReadDirBufSize = 384
    kReadDirEntriesPerResponse = 255
    MaxChanges = 3
    MaxListings = 2
INVARIANTS
    TypeOK
    Complete
    StandsAtLastSent
    OnlyLastSentAgain
PROPERTIES ListingEnds
CHECK_DEADLOCK FALSE
