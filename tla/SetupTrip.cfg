SPECIFICATION Spec
CONSTANTS
  MaxKits = 2
  MaxKeys = 2
  Attempts = 3
  None = None
  Torn = Torn
  Mistyped = Mistyped
INVARIANTS RunsVerified HandedAfterPass
PROPERTIES PinCurrent ResultsAreTrue
CHECK_DEADLOCK FALSE
