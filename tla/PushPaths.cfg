CONSTANTS
    a = a
    Paths = {a, b}
    Nars = {shared}
    NarOf <- OneNar
    Extras = {a}
    Workers = 2
    MaxFaults = 1
    MaxRetries = 1
    Timeout = 1
    Lifetimes = {0, 2}
    Roots = {a, b}
    ClosureOf <- Nested
SPECIFICATION Spec
INVARIANTS OkMeansSettled CommittedIsReported RefusedAfterAQuarter DescribedIsUploaded
PROPERTY PushReturns
