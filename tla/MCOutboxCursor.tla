--------------------------- MODULE MCOutboxCursor ---------------------------
(* Small instances of OutboxCursor for TLC. *)
EXTENDS OutboxCursor, TLC

Symmetry == Permutations(Txns) \cup Permutations(Procs)
=============================================================================
