--------------------------- MODULE MCQueueTokens ----------------------------
(* Small instances of QueueTokens for TLC. *)
EXTENDS QueueTokens, TLC

Symmetry == Permutations(Managers) \cup Permutations(Pairs)
=============================================================================
