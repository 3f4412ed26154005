CONSTANTS
    Files = 4
    Depth = 1
    Workers = 2
    MaxFaults = 2
SPECIFICATION FairSpec
INVARIANTS NarInOrder BuffersBounded
PROPERTIES DumpReturns
CHECK_DEADLOCK FALSE
