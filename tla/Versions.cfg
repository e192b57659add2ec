\* Two people publish and restore while one types and the room is persisted
SPECIFICATION FairSpec
CONSTANTS
    Users = {u1, u2}
    AutoSaveLimit = 1
    MaxEdits = 1
    MaxVersions = 3
    MaxFaults = 1
CHECK_DEADLOCK FALSE
INVARIANTS TypeOK OnlyUnsavedIsLost VersionsInOrder
PROPERTY StoredFollowsLive
