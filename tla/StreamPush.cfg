CONSTANTS
    MaxLines = 4
    BatchSize = 3
    Parallel = 2
    Probes = 2
    MaxFaults = 1
SPECIFICATION FairSpec
INVARIANTS ReportedOnce OkMeansPushed BadCostsItself
PROPERTIES RunReturns
CHECK_DEADLOCK FALSE
