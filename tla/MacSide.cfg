SPECIFICATION MCSpec
CONSTANTS
  Decoders <- MCDecoders
  TablesOf <- MCTablesOf
  SourcesOf <- MCSourcesOf
  MaxRuns = 2
  MaxDamage = 1
  Absent = Absent
  Broken = Broken
  NoFile = NoFile
  BrokenZip = BrokenZip
  MaxFetches = 2
  MaxLines = 2
  Percent = {40, 90}
  Number = {1, 36}
  MaxAdapters = 2
  Module = {m1, m2}
  MaxCount = 2
  Nothing = Nothing
INVARIANTS KeptIsSent CodeIsTrue LoadedIsOneRun DecodedFromAllSources
  RowIsPrinted ConnectionKnown ObservedIsWhole
PROPERTIES ImplementsDelivery ImplementsStore
CHECK_DEADLOCK FALSE
