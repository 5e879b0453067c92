SPECIFICATION Spec
CONSTANTS
  c1 = c1
  c2 = c2
  Caller = {c1, c2}
  Owner = owner
  Nobody = nobody
  MaxCalls = 2
  Faults = {"crash"}
CHECK_DEADLOCK FALSE
INVARIANTS
  OrchestratorSurvives
