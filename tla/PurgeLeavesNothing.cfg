SPECIFICATION AccountsSpec
CONSTANTS
  Browsers = {b1}
  MaxEnrolments = 1
  MaxSignIns = 2
  MaxProofs = 1
PROPERTIES PurgeLeavesNothing
CHECK_DEADLOCK FALSE
