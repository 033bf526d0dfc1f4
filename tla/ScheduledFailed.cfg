SPECIFICATION Spec
CONSTANTS
  Editors = {e1}
  Workers = {w1}
  NoWorker = NoWorker
  Times = {1, 2}
  MinOffset = 1
  EditTTL = 1
  MaxRetries = 2
  Skew = 0
  Faults = {"late"}
  MaxSaves = 2
  MaxClock = 2
  MaxTroubles = 1
CHECK_DEADLOCK FALSE
INVARIANT FailedSentNothing
