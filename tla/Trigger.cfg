\* Retried deliveries, two instances firing a tick, failures and a crash
SPECIFICATION FairSpec
CONSTANTS
    Deliveries = {d1, d2}
    Firings = {f1, f2}
    Runs = {r1, r2}
    NoRun = NoRun
    RedisModes = {TRUE, FALSE}
    MaxFailures = 1
    MaxRestarts = 1
CHECK_DEADLOCK FALSE
INVARIANTS PendingHasOwner OneRunPerTick
PROPERTIES ImplementsRunOnce AcceptedIsExecuted
