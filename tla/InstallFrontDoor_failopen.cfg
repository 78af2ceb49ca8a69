SPECIFICATION Spec
CONSTANTS
  k1 = k1
  k2 = k2
  r1 = r1
  r2 = r2
  TestKey = TestKey
  Torn = Torn
  None = None
  Kit = {k1}
  Rule = {r1}
  DefaultRule = r1
  Policy = {}
  Accounts = {"absent"}
  MaxFaults = 1
INVARIANTS FailedClosed
