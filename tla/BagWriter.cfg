SPECIFICATION FairSpec
CONSTANTS
    MaxBytes = 2
    Sizes = {1, 3}
    MaxMsgs = 4
    MaxFiles = 3
    MaxSnapshots = 2
INVARIANTS NothingLost BufferBound
PROPERTIES WriterProgress
CHECK_DEADLOCK FALSE
