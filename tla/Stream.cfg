\* Two viewers on either instance, with and without Redis, one loss
SPECIFICATION FairSpec
CONSTANTS
    Streams = {s1, s2}
    Instances = {i1, i2}
    Worker = i1
    RedisModes = {TRUE, FALSE}
    SeenLimit = 3
    MaxEvents = 3
    MaxLost = 1
CHECK_DEADLOCK FALSE
INVARIANT NothingMissed
PROPERTIES ImplementsRunFeed StreamEnds
