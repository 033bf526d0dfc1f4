----------------------------- MODULE MCJobQueue -----------------------------
(* Small instances of JobQueue for TLC. *)
EXTENDS JobQueue, TLC

Symmetry == Permutations(Workers)
=============================================================================
