SPECIFICATION FairSpec
CONSTANTS
  Procs = {p1}
  Txns = {t1}
  None = None
  Poison = {1, 2}
  BatchSize = 2
  GapWindow = 1
  GapCeiling = 2
  SkewPad = 0
  Skew = 0
  LockDuration = 1
  DriftPad = 0
  MaxRetries = 1
  BaseBackoff = 0
  MaxId = 2
  MaxClock = 2
PROPERTY EventuallyAccounted
