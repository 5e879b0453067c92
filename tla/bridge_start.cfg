SPECIFICATION FairSpec
CONSTANTS
  c1 = c1
  c2 = c2
  Caller = {c1, c2}
  Owner = owner
  Nobody = nobody
  MaxCalls = 2
  Faults = {"bootcrash"}
CHECK_DEADLOCK FALSE
PROPERTIES
  StartReturns
