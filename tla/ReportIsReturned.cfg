SPECIFICATION GatewaySpec
CONSTANTS
  MaxCalls = 1
  Burst = 2
  Rate = 1
  TaskQuota = 1
  MaxTicks = 0
INVARIANTS ReportIsReturned
CHECK_DEADLOCK FALSE
