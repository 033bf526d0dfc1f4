SPECIFICATION Spec
CONSTANTS
  Procs = {p1, p2}
  Txns = {t1}
  None = None
  Poison = {1}
  BatchSize = 2
  GapWindow = 1
  GapCeiling = 2
  SkewPad = 0
  Skew = 0
  LockDuration = 1
  DriftPad = 1
  MaxRetries = 1
  BaseBackoff = 1
  MaxId = 2
  MaxClock = 2
SYMMETRY Symmetry
INVARIANTS TypeOK InOrderNeverLost
