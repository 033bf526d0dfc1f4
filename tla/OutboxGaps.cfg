SPECIFICATION Spec
CONSTANTS
  Procs = {p1}
  Txns = {t1, t2}
  None = None
  Poison = {2}
  BatchSize = 2
  GapWindow = 1
  GapCeiling = 2
  SkewPad = 0
  Skew = 0
  LockDuration = 2
  DriftPad = 1
  MaxRetries = 1
  BaseBackoff = 0
  MaxId = 3
  MaxClock = 2
SYMMETRY Symmetry
INVARIANTS GapGuardSound OncePerEventUndisturbed InOrderNeverLost DeadLetterThrew
