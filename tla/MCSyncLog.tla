------------------------------ MODULE MCSyncLog ------------------------------
(* Small instances of SyncLog for TLC. *)
EXTENDS SyncLog, TLC

Symmetry == Permutations(Sequencers) \cup Permutations(Sweepers)
=============================================================================
