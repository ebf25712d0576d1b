---------------------------- MODULE MCFileState ----------------------------
(* A few files for TLC. *)
EXTENDS FileState, TLC

Symmetry == Permutations(Files)
=============================================================================
