\* A verification, a snippet and an agent; one fault, one loss, one crash
CONSTANTS
  v = v
  x = x
  a = a
  old = old
  NoLabel = NoLabel
  Callers = {v, a}
  Runners = {v, x}
  Labels <- VerifyLabels
  Capacity = 1
  Cap = 2
  MaxTries = 2
  MaxErrors = 1
  MaxFaults = 1
  MaxCycles = 2
  MaxLosses = 1
  MaxPressed = 1
  MaxMishaps = 1
SPECIFICATION FairSpec
CHECK_DEADLOCK FALSE
INVARIANTS TypeOK FixedIsProven ResourcesAccountedFor
PROPERTY PanelsAnswered
