SPECIFICATION FairSpec
CONSTANTS
  Nodes = {n1, n2}
  Tasks = {k1, k2}
  None = None
  Intervals = {1, 2}
  Lookahead = 0
  LockDuration = 0
  ExpiredAge = 0
  Skew = 0
  MaxClock = 1
  MaxRows = 1
  Changes <- Upgrade
CHECK_DEADLOCK FALSE
INVARIANTS NoTickLost OneJobPerTick
PROPERTY ScheduleCatchesUp
