SPECIFICATION FairSpec
CONSTANTS
  Editors = {e1, e2}
  Workers = {w1}
  NoWorker = NoWorker
  Times = {1, 2}
  MinOffset = 1
  EditTTL = 1
  MaxRetries = 2
  Skew = 0
  Faults = {"crash", "denied", "early", "sql"}
  MaxSaves = 2
  MaxClock = 2
  MaxTroubles = 1
CHECK_DEADLOCK FALSE
INVARIANTS SentAsSaved PendingHasJob
PROPERTIES FirstSaveWins NeverSentMidEdit ImplementsPromise EventuallySettled
