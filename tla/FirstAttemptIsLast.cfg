SPECIFICATION FairSpec
CONSTANTS
  Jobs = {j1}
  Workers = {w1}
  Concurrency = 1
  Slots <- MCSlots
  Events = 1
  Timeouts = FALSE
  NoJob = NoJob
  Attempts = 2
  ForwardCtx = FALSE
  MaxCrashes = 0
  MaxStarts = 0
  QuietStart = TRUE
INVARIANTS FailedOnLastAttempt
CHECK_DEADLOCK FALSE
