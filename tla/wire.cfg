SPECIFICATION Spec
CONSTANTS
  CodePoint <- MCCodePoint
  MaxLength = 2
  MaxCalls = 2
CHECK_DEADLOCK FALSE
INVARIANTS
  TypeOK
  Understood
  Answered
