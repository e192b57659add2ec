\* Redis coming and going, expiring locks, racing cold starts, stray leaves
SPECIFICATION Spec
CONSTANTS
    Sockets = {s1, s2}
    Edits = {e1}
    Persists = {p1}
    MaxRooms = 2
    MaxFailures = 1
    MaxRestarts = 0
    MaxStray = 1
    RedisModes = {TRUE, FALSE}
    LockExpires = TRUE
    StrayLeaves = TRUE
    Disconnects = TRUE
    Shutdowns = FALSE
    QuietColdStart = FALSE
CHECK_DEADLOCK FALSE
INVARIANT EditsCovered
SYMMETRY Symmetry
