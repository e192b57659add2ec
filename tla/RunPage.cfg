\* One run, executed again after a crash or watched by a page; something fails
SPECIFICATION PageFairSpec
CONSTANTS
    MaxAttempts = 2
    Budgets = {1, 2}
    DemoModes = {TRUE, FALSE}
    MaxFailures = 1
    MaxRestarts = 1
    MaxTroubles = 2
    MaxLag = 1
CHECK_DEADLOCK FALSE
INVARIANTS SucceededIsVerified PageIsTruthful
PROPERTIES PageEnds RunEnds
