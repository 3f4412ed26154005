CONSTANTS
    p1 = p1
    p2 = p2
    Pushes = {p1, p2}
    Chunks = 2
    FirstURLs = 1
    MoreURLs = 1
    S3MaxParts = 4
    Slots <- MCSlots
    MaxFaults = 1
SPECIFICATION FairSpec
INVARIANTS ObjectIsWhole FinishedHasObject OpenIsTracked
PROPERTIES UploadsEnd
CHECK_DEADLOCK FALSE
