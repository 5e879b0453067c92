SPECIFICATION Spec
CONSTANTS
  s1 = s1
  s2 = s2
  Session = {s1, s2}
  MaxId = 7
  PoolSizes = {1, 2, 3}
  Faults = {"kill", "overlap"}
CHECK_DEADLOCK FALSE
INVARIANTS
  TypeOK
  OwnDirsWhole
  QuietChecksPass
PROPERTIES
  AbandonedFails
