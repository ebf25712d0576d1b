--------------------------- MODULE VolatileCache ---------------------------
(***************************************************************************)
(* What utils/ObjectCache promises its clients: an object that is held is  *)
(* not given to anybody else, and the volatile reference through which it  *)
(* was asked for finds it for as long as it is held; an object that nobody *)
(* holds may be lost to another volatile reference, or to a client that    *)
(* asks for any object, and then the one that loses it knows.              *)
(***************************************************************************)
EXTENDS FiniteSets

CONSTANTS Objects, Volatiles, None

VARIABLES kept,  \* the object that each volatile reference finds
          held   \* the objects that clients hold

Init == kept = [v \in Volatiles |-> None] /\ held = {}

Lost(o) == [v \in Volatiles |-> IF kept[v] = o THEN None ELSE kept[v]]

Find(v) == /\ kept[v] # None
           /\ held' = held \cup {kept[v]} /\ kept' = kept

Fill(v, o) == /\ kept[v] = None /\ o \notin held
              /\ held' = held \cup {o} /\ kept' = [Lost(o) EXCEPT ![v] = o]

Take(o) == /\ o \notin held
           /\ held' = held \cup {o} /\ kept' = Lost(o)

Release(o) == held' = held \ {o} /\ kept' = kept

Next == \/ \E v \in Volatiles : Find(v) \/ \E o \in Objects : Fill(v, o)
        \/ \E o \in Objects : Take(o) \/ Release(o)

Spec == Init /\ [][Next]_<<kept, held>>
=============================================================================
