SPECIFICATION FairSpec
CONSTANTS
  Messages = {m1}
  Workers = {w1, w2}
  None = None
  Failing = {m1}
  Denied = {m1}
  ClaimBatch = 2
  Concurrency = 1
  LockDuration = 1
  SendClaim = 2
  MaxRetries = 2
  BaseBackoff = 0
  DeferDelay = 1
  Delays = {0, 1}
  Skew = 0
  MaxClock = 3
CHECK_DEADLOCK FALSE
INVARIANTS TypeOK RunnerOwnsClaim OutcomeKept RetryBudget
PROPERTIES ImplementsLifecycle EventuallySettled
