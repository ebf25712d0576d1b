---------------------------- MODULE ObjectCache ----------------------------
(***************************************************************************)
(* Caches of reusable objects (utils/ObjectCache).  A client holds an      *)
(* object by shared pointers; when the last of them goes the object is     *)
(* returned to its cache, which may recycle it, the one returned longest   *)
(* ago first.  A volatile object remembers the object that was last        *)
(* obtained through it, and finds it again unless it was recycled.         *)
(*                                                                         *)
(* The operations are here, of several caches at once; the module of their *)
(* clients (TileTextures) makes steps of them.                             *)
(***************************************************************************)
EXTENDS Integers, Sequences, FiniteSets, SequencesExt

CONSTANTS Caches, Objects, Volatiles,
          CacheOf,  \* the cache of each object and volatile object
          MinNum,   \* d_min_num_objects of each cache
          None      \* no object

ASSUME CacheAssumption ==
  /\ None \notin Objects \cup Volatiles
  /\ CacheOf \in [Objects \cup Volatiles -> Caches] /\ MinNum \in [Caches -> Nat]

VARIABLES
  created,  \* the objects that exist, of all caches
  unused,   \* d_objects_not_in_use of each cache, the next to be recycled first
  info,     \* d_object_info_iter of each volatile object
  owner,    \* volatile_object of each object
  refs,     \* the shared pointers that clients hold to each object
  peak      \* history: the most objects of each cache that were in use at a time

references == <<info, owner>>
cacheVars == <<created, unused, references, refs, peak>>

Allocated(c) == {o \in created : CacheOf[o] = c}
Idling(c) == {unused[c][i] : i \in DOMAIN unused[c]}
InUse(c) == Allocated(c) \ Idling(c)

CacheInit ==
  /\ created = {} /\ unused = [c \in Caches |-> <<>>]
  /\ info = [v \in Volatiles |-> None] /\ owner = [o \in Objects |-> None]
  /\ refs = [o \in Objects |-> 0] /\ peak = [c \in Caches |-> 0]

(* Mutant: no object is ever recycled. *)
RecycleNever(c) == FALSE

(* recycle_an_unused_object, whether there is one *)
CanRecycle(c) == Cardinality(Allocated(c)) >= MinNum[c] /\ unused[c] # <<>>
Fresh(c) == {o \in Objects \ created : CacheOf[o] = c}

(* Mutant: the object stays in the list of those not in use. *)
LeftUnused(o) == unused

(* return_cached_object_to_client *)
NoLongerUnused(o) ==
  IF o \notin Idling(CacheOf[o]) THEN unused
  ELSE [unused EXCEPT ![CacheOf[o]] = RemoveAt(@, CHOOSE i \in DOMAIN @ : @[i] = o)]
Give(o) ==
  LET c == CacheOf[o]
      users == Cardinality(InUse(c) \cup {o})
  IN /\ refs' = [refs EXCEPT ![o] = @ + 1]
     /\ unused' = NoLongerUnused(o)
     /\ peak' = [peak EXCEPT ![c] = IF users > @ THEN users ELSE @]

(* Mutant: the volatile object is not told that its object is recycled. *)
NotTold(o) == info

(* recycle_an_unused_object, of o *)
Told(o) == IF owner[o] = None THEN info ELSE [info EXCEPT ![owner[o]] = None]

(* get_cached_object *)
GetCached(v) ==
  /\ info[v] # None
  /\ Give(info[v])
  /\ UNCHANGED <<created, references>>

(* VolatileObject::recycle_an_unused_object *)
RecycleFor(v) ==
  /\ info[v] = None /\ CanRecycle(CacheOf[v])
  /\ LET o == Head(unused[CacheOf[v]])
     IN /\ info' = [Told(o) EXCEPT ![v] = o]
        /\ owner' = [owner EXCEPT ![o] = v]
        /\ Give(o)
  /\ UNCHANGED created

(* set_cached_object *)
SetFor(v) ==
  /\ info[v] = None /\ ~CanRecycle(CacheOf[v])
  /\ \E o \in Fresh(CacheOf[v]) :
        /\ created' = created \cup {o}
        /\ info' = [info EXCEPT ![v] = o]
        /\ owner' = [owner EXCEPT ![o] = v]
        /\ Give(o)

(* The procedure that the class asks its clients to follow. *)
Acquire(v) == GetCached(v) \/ RecycleFor(v) \/ SetFor(v)

(* allocate_object, of an unused and of a new object *)
Allocate(c, o) ==
  /\ IF CanRecycle(c) THEN o = Head(unused[c]) ELSE o \in Fresh(c)
  /\ created' = created \cup {o}
  /\ info' = Told(o)
  /\ owner' = [owner EXCEPT ![o] = None]
  /\ Give(o)

(* return_cached_object_from_clients *)
GiveBack(o) ==
  /\ unused' = [unused EXCEPT ![CacheOf[o]] = Append(@, o)]
  /\ UNCHANGED <<created, references, refs, peak>>
=============================================================================
