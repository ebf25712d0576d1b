--------------------------- MODULE ObserverQueue ---------------------------
(***************************************************************************)
(* What the intrusive list of weak observers promises, without any link:   *)
(* every publisher has a queue of the observers subscribed to it, in the   *)
(* order in which they subscribed; an observer is in at most one queue.    *)
(* WeakObserver implements this (see WeakObserver!Queue).                  *)
(***************************************************************************)
EXTENDS Subsequences

CONSTANTS Observer, Publisher

VARIABLE subs   \* the queue of every publisher

-----------------------------------------------------------------------------

Init == subs = [p \in Publisher |-> <<>>]

(* Where observer o stands it leaves; it may then join the end of p's queue. *)
Without(o) == [p \in Publisher |-> Only(subs[p], Observer \ {o})]

Join(o, p) == subs' = [Without(o) EXCEPT ![p] = Append(@, o)]
Leave(o)   == subs' = Without(o)

Next == \E o \in Observer : Leave(o) \/ \E p \in Publisher : Join(o, p)

Spec == Init /\ [][Next]_subs

=============================================================================
