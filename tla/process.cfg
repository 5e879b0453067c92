SPECIFICATION FairSpec
CONSTANTS
  MaxChunks = 4
  PipeCap = 2
  Faults = {"poll", "read"}
CHECK_DEADLOCK FALSE
INVARIANTS
  TypeOK
  ResultWhole
  StdoutFirst
PROPERTIES
  QuietReturns
