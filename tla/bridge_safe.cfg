SPECIFICATION Spec
CONSTANTS
  c1 = c1
  c2 = c2
  Caller = {c1, c2}
  Owner = owner
  Nobody = nobody
  MaxCalls = 3
  Faults = {"nofork", "banner", "bootcrash", "crash", "late"}
CHECK_DEADLOCK FALSE
INVARIANTS
  TypeOK
  LagBounded
  InOrder
  Exclusive
