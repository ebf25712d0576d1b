---------------------------- MODULE Subsequences ----------------------------
(***************************************************************************)
(* What std::remove leaves of a vector.  SelectSeq says the same, but it   *)
(* takes an operator, which the provers cannot reason about.               *)
(***************************************************************************)
EXTENDS Integers, Sequences

(* The elements of s that are in S, in their order. *)
Only(s, S) ==
  LET only[n \in 0..Len(s)] ==
        IF n = 0 THEN <<>>
        ELSE IF s[n] \in S THEN Append(only[n - 1], s[n]) ELSE only[n - 1]
  IN only[Len(s)]
=============================================================================
