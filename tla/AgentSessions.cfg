SPECIFICATION FairSpec
CONSTANTS
  Workers = {w1, w2}
  None = None
  MaxAttempts = 2
  MaxMessages = 2
  Cost <- CostOfEight
  MaxTroubles = 8
CHECK_DEADLOCK FALSE
INVARIANTS CardHonest RepliesPurged
PROPERTIES MessageReached SlotFreed
