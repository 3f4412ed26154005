SPECIFICATION FarmFairSpec
CONSTANTS
    Candidates = {a, b, c}
    Nobody = Nobody
    Heartbeat = 2
    PingTimeout = 1
    Grace = 3
    MaxFaults = 3
PROPERTIES OverlapNeedsIncumbent FarmGetsLeader
