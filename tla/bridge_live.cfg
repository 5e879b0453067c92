SPECIFICATION FairSpec
CONSTANTS
  c1 = c1
  c2 = c2
  c3 = c3
  Caller = {c1, c2, c3}
  Owner = owner
  Nobody = nobody
  MaxCalls = 3
  Faults = {"nofork", "crash"}
CHECK_DEADLOCK FALSE
PROPERTIES
  CallReturns
  ShutdownReturns
  ImplementsService
