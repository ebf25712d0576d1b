---------------------------- MODULE MCModelTree ----------------------------
(***************************************************************************)
(* A small model tree for TLC.  Half of the runs start with a tree that    *)
(* already holds a saved collection of two features, so that the bounded   *)
(* operations are spent on a tree that is worth changing.                  *)
(***************************************************************************)
EXTENDS ModelTree, TLC

Symmetry == Permutations(Collections) \cup Permutations(Features)

(* The state that Add(c, f), Add(c, g), Add(Root, c) and Save(c) lead to. *)
Grown(c, f, g) ==
  /\ slots = [h \in Handles |-> CASE h = Root -> <<c>> [] h = c -> <<f, g>> [] OTHER -> <<>>]
  /\ parent = [h \in Handles |-> CASE h = c -> Root [] h \in {f, g} -> c [] OTHER -> NULL]
  /\ index = [h \in Handles |-> CASE h \in {c, f} -> 1 [] h = g -> 2 [] OTHER -> 0]
  /\ live = [h \in Handles |-> TRUE]
  /\ active = [h \in Handles |-> TRUE]
  /\ wasActive = [h \in Handles |-> TRUE]
  /\ pendMod = [h \in Handles |-> {}]
  /\ pendAdd = [h \in Handles |-> <<>>]
  /\ unsaved = {} /\ dirty = {} /\ owed = {}
  /\ guard = 0 /\ agenda = <<>> /\ ops = 0

MCInit ==
  \/ Init
  \/ \E c \in Collections, f, g \in Features : f # g /\ Grown(c, f, g)

MCSpec == MCInit /\ [][Next]_vars
=============================================================================
