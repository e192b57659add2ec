\* Two browsers, a connection lost, and one change of the visibility either way
SPECIFICATION FairSpec
CONSTANTS
    Clients = {c1, c2}
    Owner = c1
    Allowed = {c1}
    Steady = {c1}
    Starts = {TRUE, FALSE}
    MaxDrops = 1
    MaxUpdates = 1
    MaxToggles = 1
CHECK_DEADLOCK FALSE
INVARIANTS TypeOK MembersLoseNothing StrangersWereLate
PROPERTY RoomReachesMembers
