\* One browser that loses its connection
SPECIFICATION Spec
CONSTANTS
    Clients = {c1}
    Owner = c1
    Allowed = {c1}
    Steady = {}
    Starts = {TRUE}
    MaxDrops = 1
    MaxUpdates = 1
    MaxToggles = 0
CHECK_DEADLOCK FALSE
INVARIANT OfflineEditsMerge
