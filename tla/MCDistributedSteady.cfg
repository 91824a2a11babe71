SPECIFICATION FairSpec
CONSTANTS
  Jobs = {j1, j2}
  Workers = {w1, w2}
  Concurrency = 1
  Slots <- MCSlots
  Events = 1
  Timeouts = TRUE
  NoJob = NoJob
  Attempts = 2
  ForwardCtx = TRUE
  MaxCrashes = 0
  MaxStarts = 0
  QuietStart = TRUE
INVARIANTS TypeOK FailedOnLastAttempt
PROPERTIES EveryJobSettles
CHECK_DEADLOCK FALSE
