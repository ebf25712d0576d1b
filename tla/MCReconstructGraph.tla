------------------------- MODULE MCReconstructGraph -------------------------
(* A few files and layers for TLC. *)
EXTENDS ReconstructGraph, TLC

Symmetry == Permutations(Files) \cup Permutations(Rotations)
=============================================================================
