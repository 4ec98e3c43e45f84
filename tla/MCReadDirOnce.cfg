SPECIFICATION Spec
CONSTANTS
    LastName = 5
    NameLength <- MCNameLength
    Handles = {h1}
    RequestSize = 4096
    kReadDirBufSize = 384
    kReadDirEntriesPerResponse = 255
    MaxChanges = 0
    MaxListings = 1
INVARIANTS SentOnce
CHECK_DEADLOCK FALSE
