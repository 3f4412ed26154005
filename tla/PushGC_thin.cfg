SPECIFICATION Spec
CONSTANTS
    Keys = {"app", "lib", "ls"}
    Narinfos = {"app", "lib"}
    Multipart = {}
    Optional = {"ls"}
    Refs <- MCRefs
    Pushes = {p1, p2}
    Requests <- ThinRequests
SYMMETRY Symmetry
INVARIANTS VerifiedIsStored ClosureComplete
PROPERTIES CommitPublishesStored
CHECK_DEADLOCK FALSE
