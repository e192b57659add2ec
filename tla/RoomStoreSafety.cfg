\* A stable Redis lock and quiet cold starts, with a failure, a crash and a shutdown
SPECIFICATION FairSpec
CONSTANTS
    Sockets = {s1}
    Edits = {e1, e2}
    Persists = {p1, p2}
    MaxRooms = 2
    MaxFailures = 1
    MaxRestarts = 1
    MaxStray = 0
    RedisModes = {TRUE}
    LockExpires = FALSE
    StrayLeaves = FALSE
    Disconnects = FALSE
    Shutdowns = TRUE
    QuietColdStart = TRUE
CHECK_DEADLOCK FALSE
INVARIANT StoreSafety
PROPERTIES EvictOnlyEmpty ImplementsWriteBehind EditsEventuallyStored EmptyRoomEvicted
