SPECIFICATION Spec
CONSTANTS
  Browsers = {b1, b2}
  MaxEnrolments = 1
  MaxSignIns = 3
  MaxProofs = 2
  Origins = {o1, o2, o3}
  Pages = {p1, p2}
  Files = {f1}
  MaxSubquestions = 2
  MaxHits = 2
  TopN = 2
  MaxQuotes = 1
  MaxAsks = 2
  TaskLimit = 1
  MaxLosses = 1
  Tenants = {o1, o2}
  RowKeys = {1, 2}
  MaxWrites = 4
  MaxCalls = 2
  Burst = 3
  Rate = 1
  TaskQuota = 1
  MaxTicks = 2
  ListRows = {d1, d2}
  MaxClicks = 2
  MaxBroken = 1
  MaxRuns = 2
  CellContents <- Filled
  SharedContents <- FilledShared
  Computed <- EvaluateSheet
  TableOf <- MeantTable
  MaxFrames = 3
INVARIANTS
  PlatformTypeOK
  SingleUse
  DeletedMeansGone
  ClaimsAreBacked
  OverrunIsBounded
  ShownIsItsOwn
  SameRows
  NeverMoreThanTheBucket
  TrailIsOfTheAdmitted
  ListIsCurrent
  ComputedAsMeant
  ReadAsSent
\* Every part is idle once its bounds are spent.
CHECK_DEADLOCK FALSE
