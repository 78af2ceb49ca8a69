SPECIFICATION Spec
CONSTANTS
  Window = 1
  Timeout = 2
  MaxEvents = 2
  MaxRecords = 3
  LastTime = 3
  SetsBack = 1
  None = None
INVARIANTS CoveredComplete NoHoles BinaryWithin
CHECK_DEADLOCK FALSE
