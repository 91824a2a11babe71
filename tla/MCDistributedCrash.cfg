SPECIFICATION FairSpec
CONSTANTS
  Jobs = {j1}
  Workers = {w1, w2}
  Concurrency = 1
  Slots <- MCSlots
  Events = 2
  Timeouts = FALSE
  NoJob = NoJob
  Attempts = 1
  ForwardCtx = FALSE
  MaxCrashes = 1
  MaxStarts = 1
  QuietStart = FALSE
INVARIANTS RunsAreSerial
PROPERTIES NoPhantomRunning
CHECK_DEADLOCK FALSE
