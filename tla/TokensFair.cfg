SPECIFICATION FairSpec
CONSTANTS
  Managers = {q1}
  Pairs = {p1, p2}
  Tokens = {1, 2, 3}
  None = None
  Fair = TRUE
  Budget = 2
  LockDuration = 1
  ClaimBatch = 1
  Skew = 0
  MaxPending = 1
  MaxClock = 1
INVARIANTS BudgetRespected PairTakenOnce
PROPERTY EventuallyWorkedOn
