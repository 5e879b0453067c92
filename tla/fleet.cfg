SPECIFICATION Spec
CONSTANTS
  i1 = i1
  i2 = i2
  p1 = p1
  p2 = p2
  p3 = p3
  Inst = {i1, i2}
  Pid = {p1, p2, p3}
  NoPid = noPid
  MaxStarts = 4
  Faults = {"nofork", "crash", "foreign"}
SYMMETRY Symmetry
CHECK_DEADLOCK FALSE
INVARIANTS
  TypeOK
  OwnSignals
  EveryChildOwned
