SPECIFICATION FairSpec
CONSTANTS
    Keys = {"lib", "nar"}
    Narinfos = {"lib"}
    Multipart = {"nar"}
    Optional = {}
    Refs <- MCRefs
    Pushes = {p1, p2}
    Requests <- FullRequests
INVARIANTS TypeOK LiveBacked ShieldedStaysStored
PROPERTIES NarinfoAfterItsObjects DeletesOnlyUnshielded ImplementsBinaryCache PushesGetThrough
CHECK_DEADLOCK FALSE
