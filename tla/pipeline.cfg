SPECIFICATION FairSpec
CONSTANTS
  N = 4
  Cap = 2
  Samples = 1
  MaxTotal = 4
  Faults = {"nofork", "bootcrash", "crash"}
CHECK_DEADLOCK FALSE
INVARIANTS
  TypeOK
  CountsAgree
  WorkersConfined
  ProcessBound
  SuccessNeedsRepl
PROPERTIES
  Ends
  NoOrphans
