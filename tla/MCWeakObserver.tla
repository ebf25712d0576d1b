--------------------------- MODULE MCWeakObserver ---------------------------
(***************************************************************************)
(* Instance of WeakObserver for TLC.  Three observers are the fewest with  *)
(* an inner link; two publishers let an observer move between lists.       *)
(***************************************************************************)
EXTENDS WeakObserver, TLC

CONSTANTS o1, o2, o3, p1, p2

MCObserver  == {o1, o2, o3}
MCPublisher == {p1, p2}
Symmetry    == Permutations(MCObserver) \cup Permutations(MCPublisher)

=============================================================================
