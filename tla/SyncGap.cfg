SPECIFICATION Spec
CONSTANTS
  MinKeep = 1
  MaxAppend = 1
  Visible = {1, 2}
  PageLimit = 2
  MaxPages = 2
  Collapse = 2
  BufferLimit = 1
  Faults = {"fetch"}
  SlowRuns = FALSE
  MaxHead = 2
  MaxTroubles = 2
CHECK_DEADLOCK FALSE
INVARIANT CursorOnlyPastHanded
