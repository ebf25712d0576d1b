---------------------------- MODULE LayerGraph -----------------------------
(***************************************************************************)
(* What app-logic/ReconstructGraph promises: files and layers come and go, *)
(* layers are switched on and off, files and the outputs of layers are fed *)
(* to layers, and the task of a layer uses its files and the outputs of    *)
(* those of its input layers that are switched on, at every moment.  What  *)
(* goes takes what it feeds, and what feeds it, with it; nothing else ends *)
(* a connection but a request to do so.                                    *)
(***************************************************************************)
EXTENDS Naturals, FiniteSets

CONSTANTS Files, Layers

VARIABLES present,   \* the files and layers of the graph
          on,        \* the layers that are switched on
          feeds,     \* the connections: a number, the source and the layer fed
          uses       \* what the task of each layer works with

vars == <<present, on, feeds, uses>>

Init ==
  /\ present = {} /\ on = {} /\ feeds = {}
  /\ uses = [l \in Layers |-> {}]

Ends(e) == {e[2], e[3]}
Sources(l) == {e[2] : e \in {x \in feeds : x[3] = l /\ (x[2] \in on \/ x[2] \in Files)}}

Add(n) == /\ present' = present \cup {n}
          /\ on' = IF n \in Layers THEN on \cup {n} ELSE on
          /\ feeds' = feeds

Remove(n) == /\ present' = present \ {n}
             /\ on' = on \ {n}
             /\ feeds' = {e \in feeds : n \notin Ends(e)}

Switch(l) == /\ on' = IF l \in on THEN on \ {l} ELSE on \cup {l}
             /\ UNCHANGED <<present, feeds>>

Feed(d, l) == /\ UNCHANGED <<present, on>>
              /\ \E i \in 1..(Cardinality(feeds) + 1) : feeds' = feeds \cup {<<i, d, l>>}

Unfeed(e) == /\ UNCHANGED <<present, on>>
             /\ feeds' = feeds \ {e}

Next ==
  /\ \/ \E n \in (Files \cup Layers) \ present : Add(n)
     \/ \E n \in present : Remove(n)
     \/ \E l \in present \cap Layers : Switch(l) \/ \E d \in present : Feed(d, l)
     \/ \E e \in feeds : Unfeed(e)
  /\ uses' = [l \in Layers |-> Sources(l)']

Spec == Init /\ [][Next]_vars
=============================================================================
