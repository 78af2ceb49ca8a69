SPECIFICATION Spec
CONSTANTS
  Sources <- Survey
  MaxFaults = 2
  None = None
INVARIANTS BundleVerifies PrimaryTrusted DecidedByRead
CHECK_DEADLOCK FALSE
