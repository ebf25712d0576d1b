---------------------------- MODULE LoadOrder ------------------------------
(***************************************************************************)
(* What app-logic/FeatureCollectionFileState promises about the files it   *)
(* holds: they keep the order in which they were loaded, from the moment   *)
(* they are loaded until their feature collections are destroyed.  A file  *)
(* that is unloaded is hidden, keeps its place, and may be shown again.    *)
(***************************************************************************)
EXTENDS Subsequences

CONSTANT Files

VARIABLES order,   \* the files that are held, in the order they were loaded
          shown    \* those that are currently loaded

Held == {order[k] : k \in DOMAIN order}

Without(s, f) == Only(s, Files \ {f})

Init == order = <<>> /\ shown = {}

Load(f) == /\ f \notin Held
           /\ order' = Append(order, f)
           /\ shown' = shown \cup {f}

Hide(f) == /\ f \in shown
           /\ shown' = shown \ {f}
           /\ order' = order

Show(f) == /\ f \in Held \ shown
           /\ shown' = shown \cup {f}
           /\ order' = order

Forget(f) == /\ f \in Held \ shown
             /\ order' = Without(order, f)
             /\ shown' = shown

Next == \E f \in Files : Load(f) \/ Hide(f) \/ Show(f) \/ Forget(f)

Spec == Init /\ [][Next]_<<order, shown>>
=============================================================================
