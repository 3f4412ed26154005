SPECIFICATION Spec
CONSTANTS
    Keys = {"lib"}
    Narinfos = {"lib"}
    Multipart = {}
    Optional = {}
    Refs <- MCRefs
    Pushes = {p1, p2}
    Requests <- FullRequests
SYMMETRY Symmetry
INVARIANTS EveryClosureComplete
CHECK_DEADLOCK FALSE
