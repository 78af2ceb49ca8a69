SPECIFICATION Spec
CONSTANTS
  k1 = k1
  k2 = k2
  r1 = r1
  r2 = r2
  TestKey = TestKey
  Torn = Torn
  None = None
  Kit = {k1, k2}
  Rule = {r1, r2}
  DefaultRule = r1
  Policy = {r2}
  Accounts = {"absent", "foreign"}
  MaxFaults = 3
SYMMETRY Kits
INVARIANTS PassMeansReady QuietUntilHardened ListensNarrow OriginalKept AutomaticHardened
PROPERTY RecordKept
