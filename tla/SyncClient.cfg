SPECIFICATION FairSpec
CONSTANTS
  MinKeep = 1
  MaxAppend = 1
  Visible = {1, 2}
  PageLimit = 2
  MaxPages = 2
  Collapse = 2
  BufferLimit = 1
  Faults = {"fetch", "entry", "live", "lost", "order", "snapshot", "splice"}
  SlowRuns = FALSE
  MaxHead = 2
  MaxTroubles = 2
CHECK_DEADLOCK FALSE
INVARIANTS NothingPassedBy GateOwned
PROPERTIES EventuallyReached GateReopens
