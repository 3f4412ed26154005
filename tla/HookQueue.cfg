SPECIFICATION HookFairSpec
CONSTANTS
    Paths = {"app", "lib", "bad", "big"}
    ClosureOf <- MCClosureOf
    Broken = {"bad"}
    Oversized = {"big"}
    BatchSize = 2
    IsolationProbes = 1
    MaxFaults = 1
INVARIANTS NothingLost
PROPERTIES QueueMovesOn
