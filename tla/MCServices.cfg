SPECIFICATION Spec
CONSTANTS
  t1 = t1
  t2 = t2
  Tasks <- MCTasks
  Ticks = {k1}
  Horizon = 2
  Due <- MCDue
  MaxEdits = 1
  MaxCuts = 1
  Owners = {o1}
  Requests = {r1, r2}
  MaxEvents = 3
  MaxCrashes = 1
  NoOwner = NoOwner
  Writers = {w1, w2, w3}
  AtOnce = 2
  Paths = {p1, p2, p3}
  MaxFiles = 1
  MaxBytes = 3
  MaxSize = 2
  Streams = {h1, h2}
  Background = {b1}
  read = read
  low = low
  high = high
  Tools <- MCTools
  Risk <- MCRisk
  AllowTools = {low}
  MaxSteps = 2
  NoRun = NoRun
  Tabs = {c1, c2}
  Letters = {x}
  Keystrokes = 3
  MaxNames = 2
  Candidates = 3
  MaxKeys = 2
  MaxChunks = 2
  JsonMaxRetries = 2
  Turns = {q1, q2, q3, q4}
  Threshold = 4
  KeepRecentTurns = 2
  Viewers = {v1, v2}
  Providers = 2
  MaxPolls = 1
  MaxPlanned = 4
  MaxSubAgents = 3
  Concurrency = 2
  MaxForeign = 1
INVARIANTS ServicesTypeOK FiresAsScheduled AppliedOnceAndAudited EntitledAsPaid OvershootIsBounded WritesAreTrailed WritesAreGranted TrailIsTheHistory Converges AnsweredByOne TranscriptIsWhole MeteredAsDelivered BriefIsOfThisRun
PROPERTIES RunsEnd
CHECK_DEADLOCK FALSE
