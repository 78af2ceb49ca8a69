SPECIFICATION Spec
CONSTANTS
  Bundles <- MCBundles
  MaxRuns <- MCMaxRuns
  MaxFailures = 1
  None = None
  NoDevice = NoDevice
INVARIANTS CitationsHold FindingsWarranted EverySectionSpeaks FilesOfOneRun AdviceSound ReceiversPlaced
PROPERTY OthersKept
CHECK_DEADLOCK FALSE
