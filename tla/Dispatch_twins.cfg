SPECIFICATION Spec
CONSTANTS
  s1 = s1
  s2 = s2
  s3 = s3
  c1 = c1
  c2 = c2
  None = None
  Session = {s1, s2}
  Collector = {c1}
  Installed = {c1}
  Request <- CollectOnly
  MaxLive = 2
  MaxBundles = 1
  MaxBytes = 3
  MaxAttempts = 2
  Events = {}
  LastSecond = 1
SYMMETRY Perms
INVARIANTS OnlyExitZeroPublished
CHECK_DEADLOCK FALSE
