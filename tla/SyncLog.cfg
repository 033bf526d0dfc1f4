SPECIFICATION FairSpec
CONSTANTS
  Events = {1, 2, 3}
  Routed = {2, 3}
  Visible = {2, 3}
  Sequencers = {s1}
  Sweepers = {w1}
  Readers = {r1}
  NoProc = NoProc
  BatchSize = 2
  MaxBatches = 2
  Delay = 0
  Retention = 0
  MinKeep = 1
  PruneLimit = 1
  PageLimit = 2
  MaxBirth = 0
  MaxClock = 1
  MaxFails = 1
CHECK_DEADLOCK FALSE
INVARIANTS AppendsNeverCollide IdsDense SweptRowsLogged
PROPERTIES CatchUpHidesNothing ImplementsReplayLog EventuallyLogged
