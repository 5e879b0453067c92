SPECIFICATION ThreadFairSpec
CONSTANTS
  N = 3
  Cap = 2
  Samples = 1
  MaxTotal = 3
  Faults = {}
CHECK_DEADLOCK FALSE
PROPERTIES
  BudgetHonoured
