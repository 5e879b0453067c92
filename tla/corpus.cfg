SPECIFICATION Spec
CONSTANTS
  File <- MCFile
  Dir <- MCDir
  Top = 10
  Entries <- MCEntries
  Lean = {1, 2, 3, 4}
  Skipped = {12}
  Content <- MCContent
  Disks <- MCDisks
  Gone = gone
  Buffer = 2
  Head256 = 3
  Part <- MCPart
  Imported <- MCImported
  DeclOf <- MCDeclOf
  SampleCap = 2
  GenerateCap = 3
  MaxPerFile = 2
  MaxEdits = 1
  Block = 3
  LenSize = 1
CHECK_DEADLOCK FALSE
INVARIANTS
  TypeOK
  Reproducible
  HashesContent
  DrawsSpread
  LostByClash
