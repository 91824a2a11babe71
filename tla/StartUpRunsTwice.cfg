SPECIFICATION FairSpec
CONSTANTS
  Jobs = {j1}
  Workers = {w1}
  Concurrency = 1
  Slots <- MCSlots
  Events = 1
  Timeouts = FALSE
  NoJob = NoJob
  Attempts = 1
  ForwardCtx = FALSE
  MaxCrashes = 0
  MaxStarts = 0
  QuietStart = FALSE
INVARIANTS NeverDoubleRuns
CHECK_DEADLOCK FALSE
