SPECIFICATION Spec
CONSTANTS
  Window = 2
  Timeout = 2
  MaxEvents = 2
  MaxRecords = 2
  LastTime = 3
  SetsBack = 0
  None = None
INVARIANTS QuietProved
CHECK_DEADLOCK FALSE
