SPECIFICATION FairStreamSpec
CONSTANTS
  Jobs = {j1, j2}
  Watched = {j1}
  Slots = {s1, s2}
  Events = 2
  Timeouts = TRUE
  NoJob = NoJob
  MaxCrashes = 1
INVARIANTS IInv RunsOnce DoneMeansComplete ToldTheTruth StreamTypeOK ReplayIsPrefix
PROPERTIES ImplementsPromise EveryJobSettles StreamEnds
CHECK_DEADLOCK FALSE
