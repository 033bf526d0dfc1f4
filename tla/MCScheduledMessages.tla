------------------------- MODULE MCScheduledMessages -------------------------
EXTENDS ScheduledMessages, TLC

Symmetry == Permutations(Editors) \cup Permutations(Workers)
=============================================================================
