SPECIFICATION FairSpec
CONSTANTS
    Replicas = {r1, r2}
    Clients = {c1, c2}
    Params = {"6h", "force"}
    MaxRuns = 2
    MaxLosses = 1
    MaxRestarts = 1
INVARIANTS OneCollection SuccessMeansOver
PROPERTIES ClientsReturn ShutdownEnds
CHECK_DEADLOCK FALSE
