------------------------- MODULE TileTexturesProofs -------------------------
(***************************************************************************)
(* For any tiles, textures and caches: a volatile object and the texture   *)
(* it finds belong to each other, so that two tiles never find one; a      *)
(* texture is in use just while a client can reach it; clients get and     *)
(* keep the right picture; caches do not grow beyond need; and what they   *)
(* do is what VolatileCache allows.                                        *)
(*                                                                         *)
(* The caches steal textures from tiles, so that all this rests on what is *)
(* in the lists of unused textures, and on when textures are returned.     *)
(* What is returned comes from the call stack: the invariant says which    *)
(* calls are on it and in which order, that a tile that is being rendered  *)
(* or handed out has its texture, because what is called in the meantime   *)
(* asks other caches, and who refers to each texture.                      *)
(***************************************************************************)
EXTENDS TileTextures, SequenceLemmas

DropCalls(objects) == [do : {"drop", "tell", "giveBack"}, on : objects]
CubeCalls == [do : {"find", "rendered", "handOut"}, on : CubeTiles]
SourceCalls == [do : {"draw", "load", "drawn"}, on : SourceTiles]
Entries(objects) == DropCalls(objects) \cup CubeCalls \cup SourceCalls

(* Nothing is below a call that starts; no source tile is being drawn when *)
(* another is begun; objects that exist are dropped.                       *)
Stacked(s, objects) ==
  /\ s \in Seq(Entries(objects))
  /\ \A i \in DOMAIN s : s[i].do = "find" => Len(s) = 1
  /\ \A i, j \in DOMAIN s : i < j /\ s[j].do \in {"load", "drawn"} => s[i].do # "draw"

(* The tiles whose textures later calls use have them in f. *)
Needs(s, f) ==
  \A i \in DOMAIN s : s[i].do \in {"load", "drawn", "rendered", "handOut"} => f[s[i].on] # None

(* The lists of unused textures hold textures of their caches; a volatile  *)
(* object and what it finds know each other.                               *)
CacheTyped ==
  /\ created \subseteq Objects
  /\ info \in [Volatiles -> created \cup {None}] /\ owner \in [Objects -> Volatiles \cup {None}]
  /\ unused \in [Caches -> Seq(created)]
  /\ \A c \in Caches : \A i \in DOMAIN unused[c] : CacheOf[unused[c][i]] = c
Matching ==
  \A v \in Volatiles, o \in Objects :
    (info[v] = o <=> owner[o] = v) /\ (info[v] = o => CacheOf[v] = CacheOf[o])
CacheInv == CacheTyped /\ Matching

(* Textures are kept by handles, by other textures and by renderings. *)
HandlesTyped ==
  handles \in Seq([tile : CubeTiles, object : created \cup {None}, sources : Seq(created), since : Nat])
KeptTyped ==
  /\ version \in Nat /\ HandlesTyped
  /\ sources \in [Objects -> Seq(created)] /\ rendering.kept \in Seq(created)

StackInv == Stacked(calls, created) /\ Needs(calls, info)

IInv == CacheInv /\ KeptTyped /\ StackInv
-----------------------------------------------------------------------------
(* Removing an element leaves elements of the sequence. *)
LEMMA RemovedElements ==
  ASSUME NEW S, NEW s \in Seq(S), NEW i \in DOMAIN s
  PROVE  /\ RemoveAt(s, i) \in Seq(S)
         /\ \A j \in DOMAIN RemoveAt(s, i) : \E k \in DOMAIN s : RemoveAt(s, i)[j] = s[k]
<1> DEFINE a == SubSeq(s, 1, i - 1)
           b == SubSeq(s, i + 1, Len(s))
<1>1. i \in 1..Len(s)
  OBVIOUS
<1>2. a \in Seq(S) /\ Len(a) = i - 1 /\ \A j \in 1..(i - 1) : a[j] = s[j]
  BY <1>1
<1>3. b \in Seq(S) /\ Len(b) = Len(s) - i /\ \A j \in 1..(Len(s) - i) : b[j] = s[i + j]
  BY <1>1
<1> HIDE DEF a, b
<1>4. a \o b \in Seq(S) /\ Len(a \o b) = Len(s) - 1
  BY <1>1, <1>2, <1>3
<1>5. ASSUME NEW j \in DOMAIN (a \o b)
      PROVE  \E k \in DOMAIN s : (a \o b)[j] = s[k]
  <2>1. j \in 1..(Len(s) - 1)
    BY <1>4
  <2>2. CASE j < i
    <3>1. (a \o b)[j] = s[j] /\ j \in DOMAIN s
      BY <1>1, <1>2, <1>3, <2>1, <2>2
    <3> QED BY <3>1
  <2>3. CASE ~(j < i)
    <3>1. (a \o b)[j] = s[j + 1] /\ j + 1 \in DOMAIN s
      BY <1>1, <1>2, <1>3, <2>1, <2>3
    <3> QED BY <3>1
  <2> QED BY <2>2, <2>3
<1>6. RemoveAt(s, i) = a \o b
  BY DEF RemoveAt, a, b
<1> QED BY <1>4, <1>5, <1>6

(* Sequences of the textures that exist stay so when there are more. *)
LEMMA SeqGrows ==
  ASSUME NEW S, NEW T, S \subseteq T, NEW s \in Seq(S)
  PROVE  s \in Seq(T)
OBVIOUS

(* What the caches hand out leaves the lists of unused textures in order. *)
LEMMA GiveTyped ==
  ASSUME CacheTyped, NEW o \in Objects, Give(o)
  PROVE  /\ unused' \in [Caches -> Seq(created)]
         /\ \A c \in Caches : \A i \in DOMAIN unused'[c] : CacheOf[unused'[c][i]] = c
<1> DEFINE d == CacheOf[o]
           i == CHOOSE i \in DOMAIN unused[d] : unused[d][i] = o
<1>1. d \in Caches
  BY CacheAssumption
<1>2. unused' = NoLongerUnused(o)
  BY DEF Give
<1>3. CASE o \notin Idling(d)
  BY <1>2, <1>3 DEF NoLongerUnused, CacheTyped
<1>4. CASE o \in Idling(d)
  <2>1. \E k \in DOMAIN unused[d] : unused[d][k] = o
    BY <1>4 DEF Idling
  <2>2. i \in DOMAIN unused[d]
    BY <2>1
  <2> HIDE DEF i
  <2>3. unused' = [unused EXCEPT ![d] = RemoveAt(unused[d], i)]
    BY <1>1, <1>2, <1>4 DEF NoLongerUnused, CacheTyped, i
  <2>4. unused[d] \in Seq(created)
    BY <1>1 DEF CacheTyped
  <2>5. /\ RemoveAt(unused[d], i) \in Seq(created)
        /\ \A j \in DOMAIN RemoveAt(unused[d], i) :
             \E k \in DOMAIN unused[d] : RemoveAt(unused[d], i)[j] = unused[d][k]
    BY <2>2, <2>4, RemovedElements
  <2> QED BY <1>1, <2>3, <2>5 DEF CacheTyped
<1> QED BY <1>3, <1>4

(* A texture that a volatile object obtains is lost to the one before; no  *)
(* volatile object of another cache loses any.                             *)
LEMMA AcquireStep ==
  ASSUME CacheInv, NEW v \in Volatiles, Acquire(v)
  PROVE  /\ CacheInv' /\ created \subseteq created'
         /\ info'[v] # None
         /\ \A w \in Volatiles : CacheOf[w] # CacheOf[v] => info'[w] = info[w]
<1> DEFINE c == CacheOf[v]
<1>1. c \in Caches /\ None \notin Objects /\ None \notin Volatiles
  BY CacheAssumption
<1>2. CASE GetCached(v)
  <2>1. info[v] \in Objects
    BY <1>2 DEF GetCached, CacheInv, CacheTyped
  <2>2. Give(info[v]) /\ info' = info /\ owner' = owner /\ created' = created
    BY <1>2 DEF GetCached, references
  <2>3. /\ unused' \in [Caches -> Seq(created)]
        /\ \A d \in Caches : \A i \in DOMAIN unused'[d] : CacheOf[unused'[d][i]] = d
    BY <2>1, <2>2, GiveTyped DEF CacheInv
  <2> QED BY <1>2, <2>2, <2>3 DEF GetCached, CacheInv, CacheTyped, Matching
<1>3. ASSUME NEW o \in Objects, CacheOf[o] = c, info[v] = None, Give(o),
             created \subseteq created', created' \subseteq Objects, o \in created',
             info' = [Told(o) EXCEPT ![v] = o], owner' = [owner EXCEPT ![o] = v]
      PROVE  /\ CacheInv'
             /\ info'[v] # None
             /\ \A w \in Volatiles : CacheOf[w] # c => info'[w] = info[w]
  <2>1. /\ unused' \in [Caches -> Seq(created)]
        /\ \A d \in Caches : \A i \in DOMAIN unused'[d] : CacheOf[unused'[d][i]] = d
    BY <1>3, GiveTyped DEF CacheInv
  <2>2. \A w \in Volatiles : info'[w] = IF w = v THEN o ELSE IF w = owner[o] THEN None ELSE info[w]
    BY <1>1, <1>3 DEF Told, CacheInv, CacheTyped
  <2>3. /\ info' \in [Volatiles -> created' \cup {None}]
        /\ owner' \in [Objects -> Volatiles \cup {None}]
    BY <1>3 DEF Told, CacheInv, CacheTyped
  <2>4. \A x \in Objects : owner'[x] = IF x = o THEN v ELSE owner[x]
    BY <1>3 DEF CacheInv, CacheTyped
  <2>5. Matching'
    <3> SUFFICES ASSUME NEW w \in Volatiles, NEW x \in Objects
                 PROVE  (info'[w] = x <=> owner'[x] = w) /\ (info'[w] = x => CacheOf[w] = CacheOf[x])
      BY DEF Matching
    <3>1. /\ info[w] = x <=> owner[x] = w
          /\ info[w] = x => CacheOf[w] = CacheOf[x]
          /\ info[v] = x <=> owner[x] = v
          /\ info[w] = o <=> owner[o] = w
      BY DEF CacheInv, Matching
    <3>2. info'[w] = IF w = v THEN o ELSE IF w = owner[o] THEN None ELSE info[w]
      BY <2>2
    <3>3. owner'[x] = IF x = o THEN v ELSE owner[x]
      BY <2>4
    <3> QED BY <1>1, <1>3, <3>1, <3>2, <3>3
  <2>6. \A w \in Volatiles : CacheOf[w] # c => info'[w] = info[w]
    <3> SUFFICES ASSUME NEW w \in Volatiles, CacheOf[w] # c
                 PROVE  info'[w] = info[w]
      OBVIOUS
    <3>1. w # owner[o]
      BY <1>3 DEF CacheInv, Matching
    <3> QED BY <2>2, <3>1
  <2>7. unused' \in [Caches -> Seq(created')]
    BY <1>3, <2>1, SeqGrows
  <2> QED BY <1>1, <1>3, <2>1, <2>2, <2>3, <2>5, <2>6, <2>7 DEF CacheInv, CacheTyped
<1>4. CASE RecycleFor(v)
  <2> DEFINE o == Head(unused[c])
  <2>1. unused[c] \in Seq(created) /\ unused[c] # <<>>
    BY <1>1, <1>4 DEF RecycleFor, CanRecycle, CacheInv, CacheTyped
  <2>2. o \in created /\ o \in Objects /\ o = unused[c][1] /\ 1 \in DOMAIN unused[c]
    BY <2>1 DEF CacheInv, CacheTyped
  <2>3. CacheOf[o] = c
    BY <1>1, <2>2 DEF CacheInv, CacheTyped
  <2>4. /\ info[v] = None /\ Give(o) /\ created' = created
        /\ info' = [Told(o) EXCEPT ![v] = o] /\ owner' = [owner EXCEPT ![o] = v]
    BY <1>4 DEF RecycleFor
  <2>5. created \subseteq created' /\ created' \subseteq Objects /\ o \in created'
    BY <2>2, <2>4 DEF CacheInv, CacheTyped
  <2> HIDE DEF o
  <2> QED BY <1>3, <2>2, <2>3, <2>4, <2>5
<1>5. CASE SetFor(v)
  <2>1. PICK o \in Fresh(c) :
          /\ created' = created \cup {o}
          /\ info' = [info EXCEPT ![v] = o] /\ owner' = [owner EXCEPT ![o] = v] /\ Give(o)
    BY <1>5 DEF SetFor
  <2>2. info[v] = None
    BY <1>5 DEF SetFor
  <2>3. o \in Objects /\ o \notin created /\ CacheOf[o] = c
    BY DEF Fresh
  <2>4. owner[o] = None
    BY <1>1, <2>3 DEF CacheInv, CacheTyped, Matching
  <2>5. info' = [Told(o) EXCEPT ![v] = o]
    BY <2>1, <2>4 DEF Told
  <2>6. created \subseteq created' /\ created' \subseteq Objects /\ o \in created'
    BY <2>1, <2>3 DEF CacheInv, CacheTyped
  <2> QED BY <1>3, <2>1, <2>2, <2>3, <2>5, <2>6
<1> QED BY <1>2, <1>3, <1>4, <1>5 DEF Acquire

(* Any texture of a cache may be allocated; tiles in other caches keep     *)
(* theirs.                                                                 *)
LEMMA AllocateStep ==
  ASSUME CacheInv, NEW c \in Caches, NEW o \in Objects, Allocate(c, o)
  PROVE  /\ CacheInv'
         /\ created' = created \cup {o}
         /\ \A w \in Volatiles : CacheOf[w] # c => info'[w] = info[w]
<1>1. None \notin Objects /\ None \notin Volatiles
  BY CacheAssumption
<1>2. CacheOf[o] = c
  <2>1. CASE CanRecycle(c)
    <3>1. unused[c] \in Seq(created) /\ unused[c] # <<>>
      BY <2>1 DEF CanRecycle, CacheInv, CacheTyped
    <3>2. o = unused[c][1] /\ 1 \in DOMAIN unused[c]
      BY <2>1, <3>1 DEF Allocate
    <3> QED BY <3>2 DEF CacheInv, CacheTyped
  <2>2. CASE ~CanRecycle(c)
    BY <2>2 DEF Allocate, Fresh
  <2> QED BY <2>1, <2>2
<1>3. /\ created' = created \cup {o} /\ info' = Told(o)
      /\ owner' = [owner EXCEPT ![o] = None] /\ Give(o)
  BY DEF Allocate
<1>4. \A w \in Volatiles : info'[w] = IF w = owner[o] THEN None ELSE info[w]
  BY <1>1, <1>3 DEF Told, CacheInv, CacheTyped
<1>5. \A x \in Objects : owner'[x] = IF x = o THEN None ELSE owner[x]
  BY <1>3 DEF CacheInv, CacheTyped
<1>6. CacheTyped'
  <2>1. /\ unused' \in [Caches -> Seq(created)]
        /\ \A d \in Caches : \A i \in DOMAIN unused'[d] : CacheOf[unused'[d][i]] = d
    BY <1>3, GiveTyped DEF CacheInv
  <2>2. unused' \in [Caches -> Seq(created')]
    BY <1>3, <2>1, SeqGrows
  <2>3. /\ info' \in [Volatiles -> created' \cup {None}]
        /\ owner' \in [Objects -> Volatiles \cup {None}]
    BY <1>3 DEF Told, CacheInv, CacheTyped
  <2> QED BY <1>3, <2>1, <2>2, <2>3 DEF CacheInv, CacheTyped
<1>7. Matching'
  <2> SUFFICES ASSUME NEW w \in Volatiles, NEW x \in Objects
               PROVE  (info'[w] = x <=> owner'[x] = w) /\ (info'[w] = x => CacheOf[w] = CacheOf[x])
    BY DEF Matching
  <2>1. /\ info[w] = x <=> owner[x] = w
        /\ info[w] = x => CacheOf[w] = CacheOf[x]
        /\ info[w] = o <=> owner[o] = w
    BY DEF CacheInv, Matching
  <2>2. info'[w] = IF w = owner[o] THEN None ELSE info[w]
    BY <1>4
  <2>3. owner'[x] = IF x = o THEN None ELSE owner[x]
    BY <1>5
  <2> QED BY <1>1, <2>1, <2>2, <2>3
<1>8. \A w \in Volatiles : CacheOf[w] # c => info'[w] = info[w]
  <2> SUFFICES ASSUME NEW w \in Volatiles, CacheOf[w] # c
               PROVE  info'[w] = info[w]
    OBVIOUS
  <2>1. w # owner[o]
    BY <1>2 DEF CacheInv, Matching
  <2> QED BY <1>4, <2>1
<1> QED BY <1>3, <1>6, <1>7, <1>8 DEF CacheInv

(* A texture that is returned goes to the list of its cache. *)
LEMMA GiveBackStep ==
  ASSUME CacheInv, NEW o \in created, GiveBack(o)
  PROVE  CacheInv'
<1>1. CacheOf[o] \in Caches
  BY CacheAssumption DEF CacheInv, CacheTyped
<1>2. unused' = [unused EXCEPT ![CacheOf[o]] = Append(unused[CacheOf[o]], o)]
  BY DEF GiveBack
<1>3. created' = created /\ info' = info /\ owner' = owner
  BY DEF GiveBack, references
<1>4. unused[CacheOf[o]] \in Seq(created)
  BY <1>1 DEF CacheInv, CacheTyped
<1>5. unused' \in [Caches -> Seq(created)]
  BY <1>1, <1>2, <1>4 DEF CacheInv, CacheTyped
<1>6. ASSUME NEW c \in Caches, NEW i \in DOMAIN unused'[c]
      PROVE  CacheOf[unused'[c][i]] = c
  <2>1. CASE c # CacheOf[o]
    BY <1>2, <1>6, <2>1 DEF CacheInv, CacheTyped
  <2>2. CASE c = CacheOf[o]
    <3>1. unused'[c] = Append(unused[c], o)
      BY <1>2, <2>2 DEF CacheInv, CacheTyped
    <3>2. CASE i \in DOMAIN unused[c]
      BY <1>4, <2>2, <3>1, <3>2 DEF CacheInv, CacheTyped
    <3>3. CASE i \notin DOMAIN unused[c]
      BY <1>4, <1>6, <2>2, <3>1, <3>3
    <3> QED BY <3>2, <3>3
  <2> QED BY <2>1, <2>2
<1> QED BY <1>3, <1>5, <1>6 DEF CacheInv, CacheTyped, Matching
-----------------------------------------------------------------------------
(* The call stack. *)

LEMMA ElementOf ==
  ASSUME NEW S, NEW s \in Seq(S), NEW i \in DOMAIN s
  PROVE  s[i] \in S
OBVIOUS

LEMMA OneElement ==
  ASSUME NEW S, NEW x \in S
  PROVE  <<x>> \in Seq(S)
OBVIOUS

LEMMA TwoElements ==
  ASSUME NEW S, NEW x \in S, NEW y \in S
  PROVE  <<x, y>> \in Seq(S)
OBVIOUS

LEMMA EntryKinds ==
  ASSUME NEW A, NEW x \in Entries(A)
  PROVE  /\ x.do \in {"drop", "tell", "giveBack"} => x.on \in A /\ x \in DropCalls(A)
         /\ x.do \in {"find", "rendered", "handOut"} => x.on \in CubeTiles
         /\ x.do \in {"draw", "load", "drawn"} => x.on \in SourceTiles
BY DEF Entries, DropCalls, CubeCalls, SourceCalls

(* What is left of the stack when its first call returns. *)
LEMMA Popped ==
  ASSUME NEW A, NEW s, Stacked(s, A), s # <<>>, NEW f, Needs(s, f)
  PROVE  /\ Head(s) \in Entries(A)
         /\ Head(s).do \in {"load", "drawn", "rendered", "handOut"} => f[Head(s).on] # None
         /\ Stacked(Tail(s), A) /\ Needs(Tail(s), f)
         /\ \A i \in DOMAIN Tail(s) : Tail(s)[i].do # "find"
         /\ Head(s).do = "find" => Tail(s) = <<>>
         /\ Head(s).do = "draw" => \A i \in DOMAIN Tail(s) : Tail(s)[i].do \notin {"load", "drawn"}
<1> DEFINE t == Tail(s)
<1>1. s \in Seq(Entries(A)) /\ 1 \in DOMAIN s /\ Head(s) = s[1]
  BY DEF Stacked
<1>2. t \in Seq(Entries(A)) /\ Len(t) = Len(s) - 1
  BY <1>1
<1>3. \A i \in DOMAIN t : i + 1 \in DOMAIN s /\ t[i] = s[i + 1] /\ i \in Nat /\ 1 < i + 1
  BY <1>1
<1> HIDE DEF t
<1>4. Stacked(t, A)
  <2>1. ASSUME NEW i \in DOMAIN t PROVE t[i].do # "find"
    <3>1. i \in 1..Len(t) /\ Len(s) = Len(t) + 1 /\ Len(t) \in Nat
      BY <1>1, <1>2
    <3>2. Len(s) # 1
      BY <3>1
    <3> QED BY <1>3, <3>2 DEF Stacked
  <2>2. ASSUME NEW i \in DOMAIN t, NEW j \in DOMAIN t, i < j, t[j].do \in {"load", "drawn"}
        PROVE  t[i].do # "draw"
    <3>1. i + 1 < j + 1 /\ i + 1 \in DOMAIN s /\ j + 1 \in DOMAIN s /\ t[i] = s[i + 1] /\ t[j] = s[j + 1]
      BY <1>3, <2>2
    <3> QED BY <2>2, <3>1 DEF Stacked
  <2> QED BY <1>2, <2>1, <2>2 DEF Stacked
<1>5. \A i \in DOMAIN t : t[i].do # "find"
  <2>1. ASSUME NEW i \in DOMAIN t PROVE t[i].do # "find"
    <3>1. i \in 1..Len(t) /\ Len(s) = Len(t) + 1 /\ Len(t) \in Nat
      BY <1>1, <1>2
    <3>2. Len(s) # 1
      BY <3>1
    <3> QED BY <1>3, <3>2 DEF Stacked
  <2> QED BY <2>1
<1>6. Needs(t, f)
  BY <1>3 DEF Needs
<1>7. Head(s).do = "find" => t = <<>>
  BY <1>1, <1>2 DEF Stacked
<1>8. Head(s).do = "draw" => \A i \in DOMAIN t : t[i].do \notin {"load", "drawn"}
  BY <1>1, <1>3 DEF Stacked
<1>9. Head(s) \in Entries(A) /\ (Head(s).do \in {"load", "drawn", "rendered", "handOut"} => f[Head(s).on] # None)
  <2>1. s[1] \in Entries(A) /\ (s[1].do \in {"load", "drawn", "rendered", "handOut"} => f[s[1].on] # None)
    <3>1. s[1] \in Entries(A)
      BY <1>1
    <3>2. s[1].do \in {"load", "drawn", "rendered", "handOut"} => f[s[1].on] # None
      BY <1>1 DEF Needs
    <3> QED BY <3>1, <3>2
  <2> QED BY <1>1, <2>1
<1> QED BY <1>4, <1>5, <1>6, <1>7, <1>8, <1>9 DEF t

(* Calls e that are made before the rest t of the stack. *)
LEMMA Pushed ==
  ASSUME NEW A, NEW f, NEW e, NEW t, Stacked(e, A), Stacked(t, A), Needs(e, f), Needs(t, f),
         \A i \in DOMAIN e : e[i].do # "find",
         \A i \in DOMAIN t : t[i].do # "find",
         \/ \A i \in DOMAIN e : e[i].do # "draw"
         \/ \A i \in DOMAIN t : t[i].do \notin {"load", "drawn"}
  PROVE  Stacked(e \o t, A) /\ Needs(e \o t, f)
<1> DEFINE s == e \o t
           InE(i) == i \in DOMAIN e /\ s[i] = e[i]
           InT(i) == i - Len(e) \in DOMAIN t /\ s[i] = t[i - Len(e)]
<1>1. e \in Seq(Entries(A)) /\ t \in Seq(Entries(A)) /\ s \in Seq(Entries(A))
  BY DEF Stacked
<1>2. \A i \in DOMAIN s : i \in Int /\ IF i <= Len(e) THEN InE(i) ELSE InT(i)
  BY <1>1
<1>3. Len(e) \in Nat /\ DOMAIN e = 1..Len(e)
  BY <1>1
<1> HIDE DEF s
<1>4. \A i \in DOMAIN s : s[i].do # "find"
  BY <1>2
<1>5. ASSUME NEW i \in DOMAIN s, NEW j \in DOMAIN s, i < j, s[j].do \in {"load", "drawn"}
      PROVE  s[i].do # "draw"
  <2>1. CASE j <= Len(e)
    <3>1. InE(i) /\ InE(j)
      BY <1>2, <1>3, <1>5, <2>1
    <3> QED BY <1>5, <3>1 DEF Stacked
  <2>2. CASE ~(j <= Len(e)) /\ i <= Len(e)
    <3>1. InE(i) /\ InT(j)
      BY <1>2, <2>2
    <3> QED BY <1>5, <3>1
  <2>3. CASE ~(j <= Len(e)) /\ ~(i <= Len(e))
    <3>1. InT(i) /\ InT(j) /\ i - Len(e) < j - Len(e)
      BY <1>2, <1>3, <1>5, <2>3
    <3> QED BY <1>5, <3>1 DEF Stacked
  <2> QED BY <2>1, <2>2, <2>3
<1>6. Needs(s, f)
  <2> SUFFICES ASSUME NEW i \in DOMAIN s, s[i].do \in {"load", "drawn", "rendered", "handOut"}
               PROVE  f[s[i].on] # None
    BY DEF Needs
  <2>1. CASE i <= Len(e)
    BY <1>2, <2>1 DEF Needs
  <2>2. CASE ~(i <= Len(e))
    BY <1>2, <2>2 DEF Needs
  <2> QED BY <2>1, <2>2
<1> QED BY <1>1, <1>4, <1>5, <1>6 DEF Stacked, s

(* Calls that drop textures may always be made. *)
LEMMA DropsFit ==
  ASSUME NEW A, NEW f, NEW e \in Seq(DropCalls(A))
  PROVE  /\ Stacked(e, A) /\ Needs(e, f)
         /\ \A i \in DOMAIN e : e[i].do \notin {"find", "draw"}
<1>1. \A i \in DOMAIN e : e[i] \in DropCalls(A)
  OBVIOUS
<1>2. \A i \in DOMAIN e : e[i].do \in {"drop", "tell", "giveBack"}
  BY <1>1 DEF DropCalls
<1>3. DropCalls(A) \subseteq Entries(A)
  BY DEF Entries
<1>4. e \in Seq(Entries(A))
  BY <1>3, SeqGrows
<1> QED BY <1>2, <1>4 DEF Stacked, Needs

LEMMA PushedDrops ==
  ASSUME NEW A, NEW f, NEW e \in Seq(DropCalls(A)), NEW t, Stacked(t, A), Needs(t, f),
         \A i \in DOMAIN t : t[i].do # "find"
  PROVE  Stacked(e \o t, A) /\ Needs(e \o t, f)
<1>1. /\ Stacked(e, A) /\ Needs(e, f)
      /\ \A i \in DOMAIN e : e[i].do \notin {"find", "draw"}
  BY DropsFit
<1> QED BY <1>1, Pushed

LEMMA DropsTyped ==
  ASSUME NEW A, NEW s \in Seq(A)
  PROVE  Drops(s) \in Seq(DropCalls(A))
<1>1. \A i \in DOMAIN s : s[i] \in A /\ Do("drop", s[i]) \in DropCalls(A)
  BY DEF Do, DropCalls
<1>2. Drops(s) = [i \in 1..Len(s) |-> Do("drop", s[i])] /\ Len(s) \in Nat /\ DOMAIN s = 1..Len(s)
  BY DEF Drops
<1> QED BY <1>1, <1>2

LEMMA DrawsTyped ==
  ASSUME NEW S, NEW s \in Seq(S)
  PROVE  [i \in DOMAIN s |-> Do("draw", s[i])] \in Seq([do : {"draw"}, on : S])
<1>1. \A i \in DOMAIN s : s[i] \in S /\ Do("draw", s[i]) \in [do : {"draw"}, on : S]
  BY DEF Do
<1>2. Len(s) \in Nat /\ DOMAIN s = 1..Len(s)
  OBVIOUS
<1> QED BY <1>1, <1>2

LEMMA EmptyFits ==
  ASSUME NEW A, NEW f
  PROVE  <<>> \in Seq(DropCalls(A)) /\ Stacked(<<>>, A) /\ Needs(<<>>, f)
BY DEF Stacked, Needs

(* A stack still fits when there are more textures. *)
LEMMA StackGrows ==
  ASSUME NEW A, NEW B, A \subseteq B, NEW s, Stacked(s, A)
  PROVE  Stacked(s, B)
<1>1. Entries(A) \subseteq Entries(B)
  BY DEF Entries, DropCalls
<1>2. s \in Seq(Entries(B))
  BY <1>1, SeqGrows DEF Stacked
<1> QED BY <1>2 DEF Stacked
-----------------------------------------------------------------------------
(* The steps. *)

LEMMA KeptGrows ==
  ASSUME KeptTyped, created \subseteq created', UNCHANGED <<version, handles, sources, rendering>>
  PROVE  KeptTyped'
<1> DEFINE H(objects) == [tile : CubeTiles, object : objects \cup {None}, sources : Seq(objects), since : Nat]
<1>1. Seq(created) \subseteq Seq(created')
  BY SeqGrows
<1>2. H(created) \subseteq H(created')
  BY <1>1
<1>3. handles \in Seq(H(created))
  BY DEF KeptTyped, HandlesTyped
<1> HIDE DEF H
<1>4. handles \in Seq(H(created'))
  BY <1>2, <1>3, SeqGrows
<1>5. HandlesTyped'
  BY <1>4 DEF HandlesTyped, H
<1>6. sources \in [Objects -> Seq(created')] /\ rendering.kept \in Seq(created')
  BY <1>1 DEF KeptTyped
<1> QED BY <1>5, <1>6 DEF KeptTyped

LEMMA CacheKept ==
  ASSUME CacheInv, UNCHANGED <<created, unused, references>>
  PROVE  CacheInv' /\ created' = created /\ info' = info
BY DEF CacheInv, CacheTyped, Matching, references

(* The call that is made, and what is left after it. *)
LEMMA TheCall ==
  ASSUME StackInv, calls # <<>>
  PROVE  /\ On = Head(calls).on
         /\ Head(calls).do \in {"drop", "tell", "giveBack"} => On \in created /\ Head(calls) \in DropCalls(created)
         /\ Head(calls).do \in {"find", "rendered", "handOut"} => On \in CubeTiles
         /\ Head(calls).do \in {"draw", "load", "drawn"} => On \in SourceTiles
         /\ Head(calls).do \in {"load", "drawn", "rendered", "handOut"} => info[On] # None
         /\ Stacked(Tail(calls), created) /\ Needs(Tail(calls), info)
         /\ \A i \in DOMAIN Tail(calls) : Tail(calls)[i].do # "find"
         /\ Head(calls).do = "find" => Tail(calls) = <<>>
         /\ Head(calls).do = "draw" => \A i \in DOMAIN Tail(calls) : Tail(calls)[i].do \notin {"load", "drawn"}
<1>1. Stacked(calls, created) /\ Needs(calls, info)
  BY DEF StackInv
<1>2. /\ Head(calls) \in Entries(created)
      /\ Head(calls).do \in {"load", "drawn", "rendered", "handOut"} => info[Head(calls).on] # None
      /\ Stacked(Tail(calls), created) /\ Needs(Tail(calls), info)
      /\ \A i \in DOMAIN Tail(calls) : Tail(calls)[i].do # "find"
      /\ Head(calls).do = "find" => Tail(calls) = <<>>
      /\ Head(calls).do = "draw" => \A i \in DOMAIN Tail(calls) : Tail(calls)[i].do \notin {"load", "drawn"}
  BY <1>1, Popped
<1> QED BY <1>2, EntryKinds DEF On

(* A step that only drops textures, of those that exist, and leaves the    *)
(* caches alone.                                                           *)
LEMMA DropStep ==
  ASSUME StackInv, calls # <<>>, created' = created, info' = info,
         NEW e \in Seq(DropCalls(created)), Continue(e)
  PROVE  StackInv'
<1>1. /\ Stacked(Tail(calls), created) /\ Needs(Tail(calls), info)
      /\ \A i \in DOMAIN Tail(calls) : Tail(calls)[i].do # "find"
  BY TheCall
<1>2. Stacked(e \o Tail(calls), created) /\ Needs(e \o Tail(calls), info)
  BY <1>1, PushedDrops
<1> QED BY <1>2 DEF StackInv, Continue

LEMMA GetTileTextureStep ==
  ASSUME IInv, NEW t \in CubeTiles, GetTileTexture(t)
  PROVE  IInv'
<1>1. CacheInv' /\ created' = created /\ info' = info
  BY CacheKept DEF IInv, GetTileTexture, cacheVars
<1>2. KeptTyped'
  BY <1>1, KeptGrows DEF IInv, GetTileTexture, tileVars
<1>3. calls' = <<Do("find", t)>>
  BY DEF GetTileTexture, Start
<1>4. Do("find", t) \in Entries(created)
  BY DEF Do, Entries, CubeCalls
<1>5. Stacked(calls', created)
  BY <1>3, <1>4 DEF Stacked, Do
<1>6. Needs(calls', info)
  <2>1. \A i \in DOMAIN calls' : calls'[i].do = "find"
    BY <1>3 DEF Do
  <2> QED BY <2>1 DEF Needs
<1> QED BY <1>1, <1>2, <1>5, <1>6 DEF IInv, StackInv

LEMMA DropHandleStep ==
  ASSUME IInv, NEW i \in DOMAIN handles, DropHandle(i)
  PROVE  IInv'
<1> DEFINE h == handles[i]
           e == Drops(h.sources) \o (IF h.object = None THEN <<>> ELSE <<Do("drop", h.object)>>)
<1>1. CacheInv' /\ created' = created /\ info' = info
  BY CacheKept DEF IInv, DropHandle, cacheVars
<1>2. h.object \in created \cup {None} /\ h.sources \in Seq(created)
  <2>1. h \in [tile : CubeTiles, object : created \cup {None}, sources : Seq(created), since : Nat]
    BY ElementOf DEF IInv, KeptTyped, HandlesTyped
  <2> HIDE DEF h
  <2> QED BY <2>1
<1>3. calls' = e
  BY DEF DropHandle, Start
<1>4. Drops(h.sources) \in Seq(DropCalls(created))
  BY <1>2, DropsTyped
<1>5. h.object # None => Do("drop", h.object) \in DropCalls(created)
  BY <1>2 DEF Do, DropCalls
<1>6. e \in Seq(DropCalls(created))
  BY <1>4, <1>5
<1>7. StackInv'
  BY <1>1, <1>3, <1>6, DropsFit DEF StackInv
<1>8. KeptTyped'
  <2>1. handles' = RemoveAt(handles, i)
    BY DEF DropHandle
  <2>2. handles' \in Seq([tile : CubeTiles, object : created \cup {None}, sources : Seq(created), since : Nat])
    BY <2>1, RemovedElements DEF IInv, KeptTyped, HandlesTyped
  <2> QED BY <1>1, <2>2 DEF IInv, KeptTyped, HandlesTyped, DropHandle
<1> QED BY <1>1, <1>7, <1>8 DEF IInv

LEMMA ChangeSourceStep ==
  ASSUME IInv, ChangeSource
  PROVE  IInv'
<1>1. CacheInv' /\ created' = created /\ info' = info
  BY CacheKept DEF IInv, ChangeSource, cacheVars
<1>2. KeptTyped'
  BY <1>1 DEF IInv, KeptTyped, HandlesTyped, ChangeSource
<1>3. StackInv'
  BY <1>1, EmptyFits DEF StackInv, ChangeSource, Start
<1> QED BY <1>1, <1>2, <1>3 DEF IInv

LEMMA FindStep ==
  ASSUME IInv, Find
  PROVE  IInv'
<1> DEFINE draws == [i \in DOMAIN Covers[On] |-> Do("draw", Covers[On][i])]
           rest == <<Do("rendered", On)>>
           out == <<Do("handOut", On)>>
           e == (IF OutOfDate(On) THEN draws \o rest ELSE <<>>) \o out
<1>1. calls # <<>> /\ Head(calls).do = "find" /\ Acquire(On)
  BY DEF Find, Doing
<1>2. On \in CubeTiles /\ Tail(calls) = <<>>
  BY <1>1, TheCall DEF IInv
<1>3. On \in Volatiles
  BY <1>2, TileAssumption DEF Tiles
<1>4. CacheInv' /\ created \subseteq created' /\ info'[On] # None
  BY <1>1, <1>3, AcquireStep DEF IInv
<1>5. KeptTyped'
  BY <1>4, KeptGrows DEF IInv, Find, tileVars
<1>6. calls' = e \o <<>>
  BY <1>2 DEF Find, Continue
<1>7. Covers[On] \in Seq(SourceTiles)
  BY <1>2, TileAssumption
<1> DEFINE Step == {Do("rendered", On), Do("handOut", On)} \cup [do : {"draw"}, on : SourceTiles]
<1>8. draws \in Seq(Step) /\ rest \in Seq(Step) /\ out \in Seq(Step)
  <2>1. draws \in Seq([do : {"draw"}, on : SourceTiles])
    BY <1>7, DrawsTyped
  <2>2. [do : {"draw"}, on : SourceTiles] \subseteq Step
    OBVIOUS
  <2> HIDE DEF Step, draws
  <2>4. draws \in Seq(Step)
    BY <2>1, <2>2, SeqGrows
  <2>5. Do("rendered", On) \in Step /\ Do("handOut", On) \in Step
    BY DEF Step
  <2>6. rest \in Seq(Step) /\ out \in Seq(Step)
    BY <2>5, OneElement
  <2> QED BY <2>4, <2>6
<1> HIDE DEF Step, draws, rest, out
<1>9. e \o <<>> \in Seq(Step)
  <2>1. draws \o rest \in Seq(Step)
    BY <1>8
  <2> DEFINE first == IF OutOfDate(On) THEN draws \o rest ELSE <<>>
  <2>2. first \in Seq(Step)
    BY <2>1
  <2> HIDE DEF first
  <2>3. first \o out \in Seq(Step)
    BY <1>8, <2>2
  <2>4. (first \o out) \o <<>> \in Seq(Step)
    BY <2>3
  <2> QED BY <2>4 DEF first
<1>10. \A x \in Step : /\ x \in Entries(created')
                       /\ x.do \in {"rendered", "handOut", "draw"}
                       /\ x.do # "draw" => x.on = On
  <2>1. ASSUME NEW x \in [do : {"draw"}, on : SourceTiles]
        PROVE  x \in Entries(created') /\ x.do = "draw"
    BY DEF Entries, SourceCalls
  <2>2. ASSUME NEW what \in {"rendered", "handOut"}
        PROVE  Do(what, On) \in Entries(created') /\ Do(what, On).do = what /\ Do(what, On).on = On
    BY <1>2 DEF Do, Entries, CubeCalls
  <2> QED BY <2>1, <2>2 DEF Step
<1> HIDE DEF e
<1>11. calls' \in Seq(Step)
  BY <1>6, <1>9
<1>12. calls' \in Seq(Entries(created')) /\ \A i \in DOMAIN calls' : calls'[i] \in Step
  <2>1. Step \subseteq Entries(created')
    BY <1>10
  <2>2. calls' \in Seq(Entries(created'))
    BY <1>11, <2>1, SeqGrows
  <2>3. \A i \in DOMAIN calls' : calls'[i] \in Step
    BY <1>11
  <2> QED BY <2>2, <2>3
<1>13. Stacked(calls', created')
  BY <1>10, <1>12 DEF Stacked
<1>14. Needs(calls', info')
  BY <1>4, <1>10, <1>12 DEF Needs
<1> QED BY <1>4, <1>5, <1>13, <1>14 DEF IInv, StackInv

LEMMA DrawStep ==
  ASSUME IInv, Draw
  PROVE  IInv'
<1> DEFINE load == <<Do("load", On)>>
           drawn == <<Do("drawn", On)>>
           e == (IF OutOfDate(On) THEN load ELSE <<>>) \o drawn
           t == Tail(calls)
           Step == {Do("load", On), Do("drawn", On)}
<1>1. calls # <<>> /\ Head(calls).do = "draw" /\ Acquire(On)
  BY DEF Draw, Doing
<1>2. /\ On \in SourceTiles
      /\ Stacked(t, created) /\ Needs(t, info)
      /\ \A i \in DOMAIN t : t[i].do \notin {"find", "load", "drawn"}
  BY <1>1, TheCall DEF IInv
<1>3. On \in Volatiles
  BY <1>2, TileAssumption DEF Tiles
<1>4. /\ CacheInv' /\ created \subseteq created' /\ info'[On] # None
      /\ \A w \in Volatiles : CacheOf[w] # CacheOf[On] => info'[w] = info[w]
  BY <1>1, <1>3, AcquireStep DEF IInv
<1>5. KeptTyped'
  BY <1>4, KeptGrows DEF IInv, Draw, tileVars
<1>6. calls' = e \o t
  BY DEF Draw, Continue
<1> HIDE DEF t
<1>7. Stacked(t, created')
  BY <1>2, <1>4, StackGrows
<1>8. Needs(t, info')
  <2> SUFFICES ASSUME NEW i \in DOMAIN t, t[i].do \in {"rendered", "handOut"}
               PROVE  info'[t[i].on] # None
    BY <1>2 DEF Needs
  <2>1. t[i] \in Entries(created)
    BY <1>2, ElementOf DEF Stacked
  <2>2. t[i].on \in CubeTiles
    BY <2>1, EntryKinds
  <2>3. t[i].on \in Volatiles /\ CacheOf[t[i].on] # CacheOf[On]
    BY <1>2, <2>2, TileAssumption DEF Tiles
  <2>4. info[t[i].on] # None
    BY <1>2 DEF Needs
  <2> QED BY <1>4, <2>3, <2>4
<1>9. \A x \in Step : /\ x \in Entries(created')
                      /\ x.do \in {"load", "drawn"} /\ x.on = On
  BY <1>2 DEF Do, Entries, SourceCalls
<1>10. e \in Seq(Step)
  <2>1. Do("load", On) \in Step /\ Do("drawn", On) \in Step
    OBVIOUS
  <2> HIDE DEF Step
  <2>2. load \in Seq(Step) /\ drawn \in Seq(Step)
    BY <2>1, OneElement
  <2> HIDE DEF load, drawn
  <2> QED BY <2>2
<1> HIDE DEF Step, e
<1>11. e \in Seq(Entries(created')) /\ \A i \in DOMAIN e : e[i] \in Step
  <2>1. Step \subseteq Entries(created')
    BY <1>9
  <2> QED BY <1>10, <2>1, SeqGrows, ElementOf
<1>12. Stacked(e, created') /\ Needs(e, info')
  BY <1>4, <1>9, <1>11 DEF Stacked, Needs
<1>13. \A i \in DOMAIN e : e[i].do # "find" /\ e[i].do # "draw"
  BY <1>9, <1>11
<1>14. Stacked(e \o t, created') /\ Needs(e \o t, info')
  BY <1>2, <1>7, <1>8, <1>12, <1>13, Pushed
<1> QED BY <1>4, <1>5, <1>6, <1>14 DEF IInv, StackInv

LEMMA LoadStep ==
  ASSUME IInv, Load
  PROVE  IInv'
<1> DEFINE t == Tail(calls)
<1>1. calls # <<>>
  BY DEF Load, Doing
<1>2. PICK h \in Objects : Allocate("height", h) /\ Continue(<<Do("drop", h)>>)
  BY DEF Load
<1>3. Stacked(t, created) /\ Needs(t, info) /\ \A i \in DOMAIN t : t[i].do # "find"
  BY <1>1, TheCall DEF IInv
<1>4. /\ CacheInv' /\ created' = created \cup {h}
      /\ \A w \in Volatiles : CacheOf[w] # "height" => info'[w] = info[w]
  BY <1>2, AllocateStep, TileAssumption DEF IInv
<1>5. KeptTyped'
  BY <1>4, KeptGrows DEF IInv, Load
<1> HIDE DEF t
<1>6. Stacked(t, created')
  BY <1>3, <1>4, StackGrows
<1>7. Needs(t, info')
  <2> SUFFICES ASSUME NEW i \in DOMAIN t, t[i].do \in {"load", "drawn", "rendered", "handOut"}
               PROVE  info'[t[i].on] # None
    BY DEF Needs
  <2>1. t[i] \in Entries(created)
    BY <1>3, ElementOf DEF Stacked
  <2>2. t[i].on \in Tiles
    BY <2>1, EntryKinds DEF Tiles
  <2>3. t[i].on \in Volatiles /\ CacheOf[t[i].on] # "height"
    BY <2>2, TileAssumption
  <2>4. info[t[i].on] # None
    BY <1>3 DEF Needs
  <2> QED BY <1>4, <2>3, <2>4
<1>8. Do("drop", h) \in DropCalls(created')
  BY <1>4 DEF Do, DropCalls
<1>9. <<Do("drop", h)>> \in Seq(DropCalls(created'))
  BY <1>8, OneElement
<1>10. Stacked(<<Do("drop", h)>> \o t, created') /\ Needs(<<Do("drop", h)>> \o t, info')
  BY <1>3, <1>6, <1>7, <1>9, PushedDrops
<1> QED BY <1>2, <1>4, <1>5, <1>10 DEF IInv, StackInv, Continue, t

LEMMA DrawnStep ==
  ASSUME IInv, Drawn
  PROVE  IInv'
<1> DEFINE e == IF keep["source"] THEN <<>> ELSE <<Do("drop", info[On])>>
<1>1. calls # <<>> /\ Head(calls).do = "drawn"
  BY DEF Drawn, Doing
<1>2. On \in SourceTiles /\ info[On] # None
  BY <1>1, TheCall DEF IInv
<1>3. info[On] \in created
  BY <1>2, TileAssumption DEF IInv, CacheInv, CacheTyped, Tiles
<1>4. CacheInv' /\ created' = created /\ info' = info
  BY CacheKept DEF IInv, Drawn, cacheVars
<1>5. KeptTyped'
  <2>1. rendering'.kept = IF keep["source"] THEN Append(rendering.kept, info[On]) ELSE rendering.kept
    BY DEF Drawn
  <2>2. rendering'.kept \in Seq(created)
    BY <1>3, <2>1 DEF IInv, KeptTyped
  <2> QED BY <1>4, <2>2 DEF IInv, KeptTyped, HandlesTyped, Drawn
<1>6. Do("drop", info[On]) \in DropCalls(created)
  BY <1>3 DEF Do, DropCalls
<1>7. e \in Seq(DropCalls(created))
  BY <1>6, OneElement, EmptyFits
<1>8. Continue(e)
  BY DEF Drawn
<1>9. StackInv'
  BY <1>1, <1>4, <1>7, <1>8, DropStep DEF IInv
<1> QED BY <1>4, <1>5, <1>9 DEF IInv

LEMMA RenderedStep ==
  ASSUME IInv, Rendered
  PROVE  IInv'
<1> DEFINE o == info[On]
<1>1. calls # <<>> /\ Head(calls).do = "rendered"
  BY DEF Rendered, Doing
<1>2. On \in CubeTiles /\ info[On] # None
  BY <1>1, TheCall DEF IInv
<1>3. o \in created /\ o \in Objects
  BY <1>2, TileAssumption DEF IInv, CacheInv, CacheTyped, Tiles
<1>4. CacheInv' /\ created' = created /\ info' = info
  BY CacheKept DEF IInv, Rendered, cacheVars
<1>5. KeptTyped'
  <2>1. rendering' = NotRendering /\ sources' = [sources EXCEPT ![o] = rendering.kept]
    BY DEF Rendered
  <2>2. rendering'.kept = <<>>
    BY <2>1 DEF NotRendering
  <2>3. sources' \in [Objects -> Seq(created)]
    BY <1>3, <2>1 DEF IInv, KeptTyped
  <2> QED BY <1>4, <2>2, <2>3 DEF IInv, KeptTyped, HandlesTyped, Rendered
<1>6. sources[o] \in Seq(created)
  BY <1>3 DEF IInv, KeptTyped
<1>7. Drops(sources[o]) \in Seq(DropCalls(created))
  BY <1>6, DropsTyped
<1>8. Continue(Drops(sources[o]))
  BY DEF Rendered
<1>9. StackInv'
  BY <1>1, <1>4, <1>7, <1>8, DropStep DEF IInv
<1> QED BY <1>4, <1>5, <1>9 DEF IInv

LEMMA HandOutStep ==
  ASSUME IInv, HandOut
  PROVE  IInv'
<1> DEFINE o == info[On]
           e == IF keep["cube"] THEN <<>> ELSE <<Do("drop", o)>>
           h == [tile |-> On, object |-> IF keep["cube"] THEN o ELSE None,
                 sources |-> sources[o], since |-> version]
           H == [tile : CubeTiles, object : created \cup {None}, sources : Seq(created), since : Nat]
<1>1. calls # <<>> /\ Head(calls).do = "handOut"
  BY DEF HandOut, Doing
<1>2. On \in CubeTiles /\ info[On] # None
  BY <1>1, TheCall DEF IInv
<1>3. o \in created /\ o \in Objects
  BY <1>2, TileAssumption DEF IInv, CacheInv, CacheTyped, Tiles
<1>4. CacheInv' /\ created' = created /\ info' = info
  BY CacheKept DEF IInv, HandOut, references
<1>5. sources[o] \in Seq(created)
  BY <1>3 DEF IInv, KeptTyped
<1>6. KeptTyped'
  <2>1. handles' = Append(handles, h)
    BY DEF HandOut
  <2>2. h \in H
    BY <1>2, <1>3, <1>5 DEF IInv, KeptTyped, Tiles
  <2>3. handles \in Seq(H)
    BY DEF IInv, KeptTyped, HandlesTyped
  <2> HIDE DEF h, H
  <2>4. handles' \in Seq(H)
    BY <2>1, <2>2, <2>3
  <2>5. HandlesTyped'
    BY <1>4, <2>4 DEF HandlesTyped, H
  <2> QED BY <1>4, <2>5 DEF IInv, KeptTyped, HandOut
<1>7. Do("drop", o) \in DropCalls(created)
  BY <1>3 DEF Do, DropCalls
<1>8. e \in Seq(DropCalls(created))
  BY <1>7, OneElement, EmptyFits
<1>9. Continue(e)
  BY DEF HandOut
<1>10. StackInv'
  BY <1>1, <1>4, <1>8, <1>9, DropStep DEF IInv
<1> QED BY <1>4, <1>6, <1>10 DEF IInv

LEMMA DropCallStep ==
  ASSUME IInv, Drop
  PROVE  IInv'
<1> DEFINE e == IF refs[On] > 1 THEN <<>> ELSE <<Do("tell", On), Do("giveBack", On)>>
<1>1. calls # <<>> /\ Head(calls).do = "drop"
  BY DEF Drop, Doing
<1>2. On \in created
  BY <1>1, TheCall DEF IInv
<1>3. CacheInv' /\ created' = created /\ info' = info
  BY CacheKept DEF IInv, Drop, references
<1>4. KeptTyped'
  BY <1>3, KeptGrows DEF IInv, Drop, tileVars
<1>5. Do("tell", On) \in DropCalls(created) /\ Do("giveBack", On) \in DropCalls(created)
  BY <1>2 DEF Do, DropCalls
<1>6. <<Do("tell", On), Do("giveBack", On)>> \in Seq(DropCalls(created))
  BY <1>5, TwoElements
<1>7. e \in Seq(DropCalls(created))
  BY <1>6, EmptyFits
<1>8. Continue(e)
  BY DEF Drop
<1>9. StackInv'
  BY <1>1, <1>3, <1>7, <1>8, DropStep DEF IInv
<1> QED BY <1>3, <1>4, <1>9 DEF IInv

LEMMA TellStep ==
  ASSUME IInv, Tell
  PROVE  IInv'
<1>1. calls # <<>> /\ Head(calls).do = "tell"
  BY DEF Tell, Doing
<1>2. On \in created /\ On \in Objects
  BY <1>1, TheCall DEF IInv, CacheInv, CacheTyped
<1>3. CacheInv' /\ created' = created /\ info' = info
  BY CacheKept DEF IInv, Tell, cacheVars
<1>4. KeptTyped'
  <2>1. sources' \in [Objects -> Seq(created)]
    BY <1>2, EmptyFits DEF IInv, KeptTyped, Tell
  <2> QED BY <1>3, <2>1 DEF IInv, KeptTyped, HandlesTyped, Tell
<1>5. Drops(sources[On]) \in Seq(DropCalls(created))
  BY <1>2, DropsTyped DEF IInv, KeptTyped
<1>6. Continue(Drops(sources[On]))
  BY DEF Tell
<1>7. StackInv'
  BY <1>1, <1>3, <1>5, <1>6, DropStep DEF IInv
<1> QED BY <1>3, <1>4, <1>7 DEF IInv

LEMMA ReturnedStep ==
  ASSUME IInv, Returned
  PROVE  IInv'
<1>1. calls # <<>> /\ Head(calls).do = "giveBack" /\ GiveBack(On)
  BY DEF Returned, Doing
<1>2. On \in created
  BY <1>1, TheCall DEF IInv
<1>3. CacheInv' /\ created' = created /\ info' = info
  BY <1>1, <1>2, GiveBackStep DEF IInv, GiveBack, references
<1>4. KeptTyped'
  BY <1>3, KeptGrows DEF IInv, Returned, tileVars
<1>5. StackInv'
  BY <1>1, <1>3, DropStep, EmptyFits DEF IInv, Returned
<1> QED BY <1>3, <1>4, <1>5 DEF IInv
-----------------------------------------------------------------------------
LEMMA InitInv == Init => IInv
<1> SUFFICES ASSUME Init PROVE IInv
  OBVIOUS
<1>1. CacheTyped
  BY DEF Init, CacheInit, CacheTyped
<1>2. Matching
  BY CacheAssumption DEF Init, CacheInit, Matching
<1>3. KeptTyped
  BY DEF Init, KeptTyped, HandlesTyped, NotRendering
<1>4. StackInv
  BY EmptyFits DEF Init, StackInv
<1> QED BY <1>1, <1>2, <1>3, <1>4 DEF IInv, CacheInv

LEMMA StepInv == IInv /\ [Next]_vars => IInv'
<1> SUFFICES ASSUME IInv, [Next]_vars PROVE IInv'
  OBVIOUS
<1>1. CASE \E t \in CubeTiles : GetTileTexture(t)
  BY <1>1, GetTileTextureStep
<1>2. CASE \E i \in DOMAIN handles : DropHandle(i)
  BY <1>2, DropHandleStep
<1>3. CASE ChangeSource
  BY <1>3, ChangeSourceStep
<1>4. CASE Find
  BY <1>4, FindStep
<1>5. CASE Draw
  BY <1>5, DrawStep
<1>6. CASE Load
  BY <1>6, LoadStep
<1>7. CASE Drawn
  BY <1>7, DrawnStep
<1>8. CASE Rendered
  BY <1>8, RenderedStep
<1>9. CASE HandOut
  BY <1>9, HandOutStep
<1>10. CASE Drop
  BY <1>10, DropCallStep
<1>11. CASE Tell
  BY <1>11, TellStep
<1>12. CASE Returned
  BY <1>12, ReturnedStep
<1>13. CASE UNCHANGED vars
  <2>1. CacheInv' /\ created' = created /\ info' = info
    BY <1>13, CacheKept DEF IInv, vars, cacheVars
  <2>2. KeptTyped'
    BY <1>13, <2>1, KeptGrows DEF IInv, vars, tileVars
  <2> QED BY <1>13, <2>1, <2>2 DEF IInv, StackInv, vars
<1> QED BY <1>1, <1>2, <1>3, <1>4, <1>5, <1>6, <1>7, <1>8, <1>9, <1>10, <1>11, <1>12, <1>13
        DEF Next

(* A tile finds the texture that its volatile object obtained, until the   *)
(* cache gives it to another; never do two tiles find the same one, and a  *)
(* tile whose texture was recycled knows that it has to be rendered again. *)
THEOREM VolatileObjectsCorrect == Spec => []VolatilesMatch
<1>1. IInv => VolatilesMatch
  BY DEF IInv, CacheInv, CacheTyped, Matching, VolatilesMatch
<1> QED BY <1>1, InitInv, StepInv, PTL DEF Spec
-----------------------------------------------------------------------------
(* Growth. *)

GrowthInv ==
  /\ IsFiniteSet(created) /\ peak \in [Caches -> Nat]
  /\ GrowsToPeak

(* A texture that is given away is new only if none could be recycled.     *)
LEMMA GiveGrowth ==
  ASSUME CacheTyped, GrowthInv, NEW o \in Objects, Give(o), created' = created \cup {o},
         o \in created \/ ~CanRecycle(CacheOf[o])
  PROVE  GrowthInv'
<1> DEFINE c == CacheOf[o]
           users == Cardinality(InUse(c) \cup {o})
           Limit(m, n) == IF m > n THEN m ELSE n
<1>1. c \in Caches /\ MinNum \in [Caches -> Nat]
  BY CacheAssumption
<1>2. /\ IsFiniteSet(created')
      /\ \A d \in Caches : IsFiniteSet(Allocated(d)) /\ Cardinality(Allocated(d)) \in Nat
  <2>1. IsFiniteSet(created')
    BY FS_AddElement DEF GrowthInv
  <2>2. ASSUME NEW d \in Caches
        PROVE  IsFiniteSet(Allocated(d)) /\ Cardinality(Allocated(d)) \in Nat
    <3>1. Allocated(d) \subseteq created
      BY DEF Allocated
    <3>2. IsFiniteSet(Allocated(d))
      BY <3>1, FS_Subset DEF GrowthInv
    <3> QED BY <3>2, FS_CardinalityType
  <2> QED BY <2>1, <2>2
<1>3. users \in Nat
  <2>1. InUse(c) \subseteq Allocated(c)
    BY DEF InUse
  <2>2. IsFiniteSet(InUse(c))
    BY <1>1, <1>2, <2>1, FS_Subset
  <2>3. IsFiniteSet(InUse(c) \cup {o})
    BY <2>2, FS_AddElement
  <2> QED BY <2>3, FS_CardinalityType
<1>4. peak' = [peak EXCEPT ![c] = Limit(users, peak[c])]
  BY <1>1 DEF Give, GrowthInv
<1> HIDE DEF users
<1>5. /\ peak' \in [Caches -> Nat] /\ peak'[c] >= users
      /\ \A d \in Caches : peak'[d] >= peak[d]
  BY <1>1, <1>3, <1>4 DEF GrowthInv
<1>6. ASSUME NEW d \in Caches
      PROVE  Cardinality(Allocated(d)') <= Limit(MinNum[d], peak'[d])
  <2>1. Cardinality(Allocated(d)) <= Limit(MinNum[d], peak[d])
    BY DEF GrowthInv, GrowsToPeak
  <2>2. Allocated(d)' = IF d = c THEN Allocated(d) \cup {o} ELSE Allocated(d)
    BY DEF Allocated
  <2>3. CASE d # c \/ o \in created
    <3>1. Allocated(d)' = Allocated(d)
      BY <2>2, <2>3 DEF Allocated
    <3> QED BY <1>1, <1>2, <1>5, <2>1, <3>1 DEF GrowthInv
  <2>4. CASE d = c /\ o \notin created /\ ~CanRecycle(c)
    <3>1. Allocated(c)' = Allocated(c) \cup {o} /\ o \notin Allocated(c)
      BY <2>2, <2>4 DEF Allocated
    <3>2. Cardinality(Allocated(c)') = Cardinality(Allocated(c)) + 1
      BY <1>1, <1>2, <3>1, FS_AddElement
    <3>3. CASE ~(Cardinality(Allocated(c)) >= MinNum[c])
      BY <1>1, <1>2, <1>5, <2>4, <3>2, <3>3
    <3>4. CASE unused[c] = <<>>
      <4>1. InUse(c) = Allocated(c)
        BY <3>4 DEF InUse, Idling
      <4>2. users = Cardinality(Allocated(c)')
        BY <3>1, <4>1 DEF users
      <4> QED BY <1>1, <1>3, <1>5, <2>4, <4>2
    <3> QED BY <2>4, <3>3, <3>4 DEF CanRecycle
  <2> QED BY <2>3, <2>4
<1> QED BY <1>2, <1>5, <1>6 DEF GrowthInv, GrowsToPeak

LEMMA AcquireGrowth ==
  ASSUME CacheTyped, GrowthInv, NEW v \in Volatiles, Acquire(v)
  PROVE  GrowthInv'
<1> DEFINE c == CacheOf[v]
<1>1. c \in Caches /\ None \notin Objects
  BY CacheAssumption
<1>2. CASE GetCached(v)
  <2>1. info[v] \in created /\ info[v] \in Objects
    BY <1>2 DEF GetCached, CacheTyped
  <2>2. Give(info[v]) /\ created' = created \cup {info[v]}
    BY <1>2, <2>1 DEF GetCached
  <2> QED BY <2>1, <2>2, GiveGrowth
<1>3. CASE RecycleFor(v)
  <2> DEFINE o == Head(unused[c])
  <2>1. unused[c] \in Seq(created) /\ unused[c] # <<>>
    BY <1>1, <1>3 DEF RecycleFor, CanRecycle, CacheTyped
  <2>2. o \in created /\ o \in Objects
    BY <2>1 DEF CacheTyped
  <2>3. Give(o) /\ created' = created \cup {o}
    BY <1>3, <2>2 DEF RecycleFor
  <2> QED BY <2>2, <2>3, GiveGrowth
<1>4. CASE SetFor(v)
  <2>1. PICK o \in Fresh(c) : created' = created \cup {o} /\ Give(o)
    BY <1>4 DEF SetFor
  <2>2. o \in Objects /\ CacheOf[o] = c /\ ~CanRecycle(c)
    BY <1>4 DEF Fresh, SetFor
  <2> QED BY <2>1, <2>2, GiveGrowth
<1> QED BY <1>2, <1>3, <1>4 DEF Acquire

LEMMA AllocateGrowth ==
  ASSUME CacheTyped, GrowthInv, NEW c \in Caches, NEW o \in Objects, Allocate(c, o)
  PROVE  GrowthInv'
<1>1. Give(o) /\ created' = created \cup {o}
  BY DEF Allocate
<1>2. CASE CanRecycle(c)
  <2>1. unused[c] \in Seq(created) /\ unused[c] # <<>> /\ o = Head(unused[c])
    BY <1>2 DEF Allocate, CanRecycle, CacheTyped
  <2>2. o \in created
    BY <2>1
  <2> QED BY <1>1, <2>2, GiveGrowth
<1>3. CASE ~CanRecycle(c)
  <2>1. CacheOf[o] = c
    BY <1>3 DEF Allocate, Fresh
  <2> QED BY <1>1, <1>3, <2>1, GiveGrowth
<1> QED BY <1>2, <1>3

LEMMA GrowthKept ==
  ASSUME GrowthInv, UNCHANGED <<created, peak>>
  PROVE  GrowthInv'
BY DEF GrowthInv, GrowsToPeak, Allocated

LEMMA InitGrowth == Init => GrowthInv
<1> SUFFICES ASSUME Init PROVE GrowthInv
  OBVIOUS
<1>1. created = {} /\ peak = [c \in Caches |-> 0]
  BY DEF Init, CacheInit
<1>2. \A c \in Caches : Allocated(c) = {}
  BY <1>1 DEF Allocated
<1> QED BY <1>1, <1>2, FS_EmptySet, CacheAssumption DEF GrowthInv, GrowsToPeak

LEMMA StepGrowth == IInv /\ GrowthInv /\ [Next]_vars => GrowthInv'
<1> SUFFICES ASSUME IInv, GrowthInv, [Next]_vars PROVE GrowthInv'
  OBVIOUS
<1>1. CacheTyped
  BY DEF IInv, CacheInv
<1>2. CASE Find
  <2>1. On \in CubeTiles /\ Acquire(On)
    BY <1>2, TheCall DEF IInv, Find, Doing
  <2> QED BY <1>1, <2>1, AcquireGrowth, TileAssumption DEF Tiles
<1>3. CASE Draw
  <2>1. On \in SourceTiles /\ Acquire(On)
    BY <1>3, TheCall DEF IInv, Draw, Doing
  <2> QED BY <1>1, <2>1, AcquireGrowth, TileAssumption DEF Tiles
<1>4. CASE Load
  <2>1. PICK h \in Objects : Allocate("height", h)
    BY <1>4 DEF Load
  <2> QED BY <1>1, <2>1, AllocateGrowth, TileAssumption
<1>5. CASE Returned
  BY <1>5, GrowthKept DEF Returned, GiveBack
<1>6. CASE UNCHANGED vars
  BY <1>6, GrowthKept DEF vars, cacheVars
<1>7. CASE \/ \E t \in CubeTiles : GetTileTexture(t)
           \/ \E i \in DOMAIN handles : DropHandle(i)
           \/ ChangeSource \/ Drawn \/ Rendered \/ HandOut \/ Drop \/ Tell
  <2>1. UNCHANGED <<created, peak>>
    BY <1>7 DEF GetTileTexture, DropHandle, ChangeSource, Drawn, Rendered, HandOut, Drop, Tell, cacheVars
  <2> QED BY <2>1, GrowthKept
<1> QED BY <1>2, <1>3, <1>4, <1>5, <1>6, <1>7 DEF Next

(* A cache makes a new texture only when it has none to recycle or is      *)
(* below its minimum: it never holds more than were in use at one time.    *)
THEOREM GrowthBounded == Spec => []GrowsToPeak
<1>1. Init => IInv /\ GrowthInv
  BY InitInv, InitGrowth
<1>2. (IInv /\ GrowthInv) /\ [Next]_vars => (IInv /\ GrowthInv)'
  BY StepInv, StepGrowth
<1>3. GrowthInv => GrowsToPeak
  BY DEF GrowthInv
<1> QED BY <1>1, <1>2, <1>3, PTL DEF Spec
-----------------------------------------------------------------------------
(* What the caches hand out. *)

(* What is left of a sequence, by the numbers that it had.                 *)
LEMMA RemovedGap ==
  ASSUME NEW A, NEW s \in Seq(A), NEW k \in DOMAIN s
  PROVE  /\ Len(s) \in Nat /\ k \in 1..Len(s)
         /\ RemoveAt(s, k) \in Seq(A) /\ DOMAIN RemoveAt(s, k) = 1..(Len(s) - 1)
         /\ \A j \in 1..(Len(s) - 1) : RemoveAt(s, k)[j] = s[Gap(k)[j]]
<1> DEFINE a == SubSeq(s, 1, k - 1)
           b == SubSeq(s, k + 1, Len(s))
<1>1. Len(s) \in Nat /\ k \in 1..Len(s)
  OBVIOUS
<1>2. a \in Seq(A) /\ Len(a) = k - 1 /\ \A j \in 1..(k - 1) : a[j] = s[j]
  BY <1>1
<1>3. b \in Seq(A) /\ Len(b) = Len(s) - k /\ \A j \in 1..(Len(s) - k) : b[j] = s[k + j]
  BY <1>1
<1> HIDE DEF a, b
<1>4. /\ a \o b \in Seq(A) /\ Len(a \o b) = Len(s) - 1
      /\ \A j \in 1..(Len(s) - 1) : (a \o b)[j] = IF j <= k - 1 THEN a[j] ELSE b[j - (k - 1)]
  BY <1>1, <1>2, <1>3
<1>5. ASSUME NEW j \in 1..(Len(s) - 1) PROVE (a \o b)[j] = s[Gap(k)[j]]
  <2>1. Gap(k)[j] = IF j < k THEN j ELSE j + 1
    BY DEF Gap
  <2>2. CASE j < k
    <3>1. j <= k - 1 /\ j \in 1..(k - 1)
      BY <1>1, <2>2
    <3> QED BY <1>2, <1>4, <2>1, <2>2, <3>1
  <2>3. CASE ~(j < k)
    <3>1. ~(j <= k - 1) /\ j - (k - 1) \in 1..(Len(s) - k) /\ k + (j - (k - 1)) = j + 1
      BY <1>1, <2>3
    <3>2. b[j - (k - 1)] = s[j + 1]
      BY <1>3, <3>1
    <3> QED BY <1>4, <2>1, <2>3, <3>1, <3>2
  <2> QED BY <2>2, <2>3
<1>6. RemoveAt(s, k) = a \o b
  BY DEF RemoveAt, a, b
<1>7. DOMAIN (a \o b) = 1..(Len(s) - 1)
  BY <1>4
<1> QED BY <1>1, <1>4, <1>5, <1>6, <1>7

LEMMA RemovedDistinct ==
  ASSUME NEW A, NEW s \in Seq(A), Distinct(s), NEW k \in DOMAIN s
  PROVE  Distinct(RemoveAt(s, k)) /\ Elements(RemoveAt(s, k)) = Elements(s) \ {s[k]}
<1>1. PICK r : r = RemoveAt(s, k)
  OBVIOUS
<1>2. PICK n \in Nat : n = Len(s)
  OBVIOUS
<1>3. PICK g : g = Gap(k)
  OBVIOUS
<1>4. /\ k \in 1..n /\ DOMAIN s = 1..n /\ DOMAIN r = 1..(n - 1)
      /\ \A j \in 1..(n - 1) : r[j] = s[g[j]]
  BY <1>1, <1>2, <1>3, RemovedGap
<1>5. /\ \A j \in 1..(n - 1) : g[j] \in (1..n) \ {k}
      /\ \A i, j \in 1..(n - 1) : g[i] = g[j] => i = j
      /\ \A j \in (1..n) \ {k} : \E i \in 1..(n - 1) : g[i] = j
  <2>1. n \in Nat /\ k \in 1..n
    BY <1>4
  <2>2. \A j \in 1..(n - 1) : Gap(k)[j] \in (1..n) \ {k}
    BY <2>1, GapFacts
  <2>3. \A i, j \in 1..(n - 1) : Gap(k)[i] = Gap(k)[j] => i = j
    BY <2>1, GapFacts
  <2>4. \A j \in (1..n) \ {k} : \E i \in 1..(n - 1) : Gap(k)[i] = j
    BY <2>1, GapFacts
  <2> QED BY <1>3, <2>2, <2>3, <2>4
<1>6. \A i, j \in DOMAIN s : s[i] = s[j] => i = j
  BY DEF Distinct
<1>7. PICK D : D = 1..(n - 1)
  OBVIOUS
<1>8. PICK E : E = 1..n
  OBVIOUS
<1>9. /\ k \in E /\ DOMAIN s = E /\ DOMAIN r = D
      /\ \A j \in D : r[j] = s[g[j]] /\ g[j] \in E \ {k}
      /\ \A i, j \in D : g[i] = g[j] => i = j
      /\ \A j \in E \ {k} : \E i \in D : g[i] = j
  BY <1>4, <1>5, <1>7, <1>8
<1>10. Distinct(r)
  BY <1>6, <1>9 DEF Distinct
<1>11. Elements(r) = Elements(s) \ {s[k]}
  BY <1>6, <1>9 DEF Elements
<1> QED BY <1>1, <1>10, <1>11

UnusedOnce == \A c \in Caches : Distinct(unused[c])

LEMMA IdlingElements == \A c : Idling(c) = Elements(unused[c])
BY DEF Idling, Elements

(* What is handed out is unused no longer, and nothing else changes.       *)
LEMMA GiveIdling ==
  ASSUME CacheTyped, UnusedOnce, NEW o \in Objects, Give(o)
  PROVE  UnusedOnce' /\ \A c \in Caches : Idling(c)' = Idling(c) \ {o}
<1> DEFINE d == CacheOf[o]
           i == CHOOSE i \in DOMAIN unused[d] : unused[d][i] = o
<1>1. d \in Caches
  BY CacheAssumption
<1>2. unused' = NoLongerUnused(o)
  BY DEF Give
<1>3. \A c \in Caches \ {d} : o \notin Idling(c)
  BY DEF CacheTyped, Idling
<1>4. CASE o \notin Idling(d)
  <2>1. unused' = unused
    BY <1>2, <1>4 DEF NoLongerUnused
  <2> QED BY <1>3, <1>4, <2>1 DEF UnusedOnce, Idling
<1>5. CASE o \in Idling(d)
  <2>1. \E k \in DOMAIN unused[d] : unused[d][k] = o
    BY <1>5 DEF Idling
  <2>2. i \in DOMAIN unused[d] /\ unused[d][i] = o
    BY <2>1
  <2> HIDE DEF i
  <2>3. unused' = [unused EXCEPT ![d] = RemoveAt(unused[d], i)]
    BY <1>1, <1>2, <1>5 DEF NoLongerUnused, CacheTyped, i
  <2>4. unused[d] \in Seq(created) /\ Distinct(unused[d])
    BY <1>1 DEF CacheTyped, UnusedOnce
  <2>5. Distinct(RemoveAt(unused[d], i)) /\ Elements(RemoveAt(unused[d], i)) = Elements(unused[d]) \ {o}
    BY <2>2, <2>4, RemovedDistinct
  <2>6. \A c \in Caches : unused'[c] = IF c = d THEN RemoveAt(unused[d], i) ELSE unused[c]
    BY <2>3 DEF CacheTyped
  <2>7. UnusedOnce'
    BY <2>5, <2>6 DEF UnusedOnce
  <2>8. ASSUME NEW c \in Caches PROVE Idling(c)' = Idling(c) \ {o}
    <3>1. Idling(c)' = Elements(unused'[c]) /\ Idling(c) = Elements(unused[c])
      BY DEF Idling, Elements
    <3> QED BY <1>3, <2>5, <2>6, <3>1
  <2> QED BY <2>7, <2>8
<1> QED BY <1>4, <1>5

(* The volatile object v obtains o: the one that it has, or one that       *)
(* nobody uses, which is lost to whoever had it.                           *)
Obtains(v, o) ==
  /\ o \in Objects /\ CacheOf[o] = CacheOf[v] /\ Give(o)
  /\ created' = created \cup {o} /\ info'[v] = o
  /\ \/ info[v] = o /\ o \in created /\ info' = info
     \/ /\ info[v] = None
        /\ o \notin created \/ o \in Idling(CacheOf[o])
        /\ \A w \in Volatiles : w # v => info'[w] = IF info[w] = o THEN None ELSE info[w]

LEMMA AcquireObtains ==
  ASSUME CacheInv, NEW v \in Volatiles, Acquire(v)
  PROVE  \E o : Obtains(v, o)
<1> DEFINE c == CacheOf[v]
<1>1. c \in Caches /\ None \notin Objects /\ None \notin Volatiles
  BY CacheAssumption
<1>2. CASE GetCached(v)
  <2>1. PICK o : o = info[v]
    OBVIOUS
  <2>2. o \in created /\ o \in Objects /\ CacheOf[o] = CacheOf[v]
    BY <1>2, <2>1 DEF GetCached, CacheInv, CacheTyped, Matching
  <2>3. Give(o) /\ info' = info /\ created' = created
    BY <1>2, <2>1 DEF GetCached, references
  <2>4. created' = created \cup {o}
    BY <2>2, <2>3
  <2>5. Obtains(v, o)
    BY <2>1, <2>2, <2>3, <2>4 DEF Obtains
  <2> QED BY <2>5
<1>3. ASSUME NEW o \in Objects, CacheOf[o] = c, info[v] = None, Give(o), created' = created \cup {o},
             o \notin created \/ o \in Idling(c), info' = [Told(o) EXCEPT ![v] = o]
      PROVE  Obtains(v, o)
  <2>1. \A w \in Volatiles : info'[w] = IF w = v THEN o ELSE IF w = owner[o] THEN None ELSE info[w]
    BY <1>1, <1>3 DEF Told, CacheInv, CacheTyped
  <2>2. \A w \in Volatiles : info[w] = o <=> owner[o] = w
    BY <1>3 DEF CacheInv, Matching
  <2>3. \A w \in Volatiles : w # v => info'[w] = IF info[w] = o THEN None ELSE info[w]
    BY <2>1, <2>2
  <2> QED BY <1>3, <2>1, <2>3 DEF Obtains
<1>4. CASE RecycleFor(v)
  <2>1. PICK o : o = Head(unused[c])
    OBVIOUS
  <2>2. unused[c] \in Seq(created) /\ unused[c] # <<>>
    BY <1>1, <1>4 DEF RecycleFor, CanRecycle, CacheInv, CacheTyped
  <2>3. o \in created /\ o = unused[c][1] /\ 1 \in DOMAIN unused[c]
    BY <2>1, <2>2
  <2>4. o \in Objects /\ CacheOf[o] = c /\ o \in Idling(c)
    BY <1>1, <2>3 DEF CacheInv, CacheTyped, Idling
  <2>5. info[v] = None /\ Give(o) /\ created' = created /\ info' = [Told(o) EXCEPT ![v] = o]
    BY <1>4, <2>1 DEF RecycleFor
  <2>6. created' = created \cup {o}
    BY <2>3, <2>5
  <2> QED BY <1>3, <2>4, <2>5, <2>6
<1>5. CASE SetFor(v)
  <2>1. PICK o \in Fresh(c) : created' = created \cup {o} /\ info' = [info EXCEPT ![v] = o] /\ Give(o)
    BY <1>5 DEF SetFor
  <2>2. info[v] = None
    BY <1>5 DEF SetFor
  <2>3. o \in Objects /\ o \notin created /\ CacheOf[o] = c
    BY DEF Fresh
  <2>4. owner[o] = None
    BY <1>1, <2>3 DEF CacheInv, CacheTyped, Matching
  <2>5. info' = [Told(o) EXCEPT ![v] = o]
    BY <2>1, <2>4 DEF Told
  <2> QED BY <1>3, <2>1, <2>2, <2>3, <2>5
<1> QED BY <1>2, <1>3, <1>4, <1>5 DEF Acquire

LEMMA AllocateTakes ==
  ASSUME CacheInv, NEW c \in Caches, NEW o \in Objects, Allocate(c, o)
  PROVE  /\ CacheOf[o] = c /\ Give(o) /\ created' = created \cup {o}
         /\ o \notin created \/ o \in Idling(c)
         /\ \A w \in Volatiles : info'[w] = IF info[w] = o THEN None ELSE info[w]
<1>1. None \notin Objects /\ None \notin Volatiles
  BY CacheAssumption
<1>2. Give(o) /\ created' = created \cup {o} /\ info' = Told(o)
  BY DEF Allocate
<1>3. CacheOf[o] = c /\ (o \notin created \/ o \in Idling(c))
  <2>1. CASE CanRecycle(c)
    <3>1. unused[c] \in Seq(created) /\ unused[c] # <<>>
      BY <2>1 DEF CanRecycle, CacheInv, CacheTyped
    <3>2. o = unused[c][1] /\ 1 \in DOMAIN unused[c]
      BY <2>1, <3>1 DEF Allocate
    <3> QED BY <3>2 DEF CacheInv, CacheTyped, Idling
  <2>2. CASE ~CanRecycle(c)
    BY <2>2 DEF Allocate, Fresh
  <2> QED BY <2>1, <2>2
<1>4. \A w \in Volatiles : info'[w] = IF w = owner[o] THEN None ELSE info[w]
  BY <1>1, <1>2 DEF Told, CacheInv, CacheTyped
<1>5. \A w \in Volatiles : info[w] = o <=> owner[o] = w
  BY DEF CacheInv, Matching
<1> QED BY <1>2, <1>3, <1>4, <1>5
-----------------------------------------------------------------------------
(* Who holds textures. *)

(* What a handle holds, in the order in which it lets go.                  *)
Holds(h) == h.sources \o (IF h.object = None THEN <<>> ELSE <<h.object>>)
HandleHolds == [i \in DOMAIN handles |-> Holds(handles[i])]

(* The calls that have a reference to x: those that drop it, and those of  *)
(* tiles that have acquired it but have not handed it out.                 *)
Owed(x, f) == {e \in Entries(Objects) : \/ e.do = "drop" /\ e.on = x
                                        \/ e.do \in {"drawn", "handOut"} /\ f[e.on] = x}

InHandles(x) == Cardinality(Places(HandleHolds, x))
InSources(x) == Cardinality(Places(sources, x))
InRendering(x) == Tally(rendering.kept, {x})
InCalls(x) == Tally(calls, Owed(x, info))

(* Every reference that is counted is somewhere.                           *)
RefsInv ==
  /\ refs \in [Objects -> Nat]
  /\ \A x \in Objects :
       /\ IsFiniteSet(Places(HandleHolds, x)) /\ IsFiniteSet(Places(sources, x))
       /\ refs[x] = InHandles(x) + InSources(x) + InRendering(x) + InCalls(x)

LEMMA CountsTyped ==
  ASSUME IInv, RefsInv, NEW x \in Objects
  PROVE  InHandles(x) \in Nat /\ InSources(x) \in Nat /\ InRendering(x) \in Nat /\ InCalls(x) \in Nat
<1>1. InHandles(x) \in Nat
  BY FS_CardinalityType DEF RefsInv, InHandles
<1>2. InSources(x) \in Nat
  BY FS_CardinalityType DEF RefsInv, InSources
<1>3. InRendering(x) \in Nat
  <2>1. rendering.kept \in Seq(created)
    BY DEF IInv, KeptTyped
  <2>2. Tally(rendering.kept, {x}) \in Nat
    BY <2>1, TallySome
  <2> QED BY <2>2 DEF InRendering
<1>4. InCalls(x) \in Nat
  <2>1. calls \in Seq(Entries(created))
    BY DEF IInv, StackInv, Stacked
  <2>2. Tally(calls, Owed(x, info)) \in Nat
    BY <2>1, TallySome
  <2> QED BY <2>2 DEF InCalls
<1> QED BY <1>1, <1>2, <1>3, <1>4

LEMMA EntriesExist ==
  ASSUME IInv
  PROVE  created \subseteq Objects /\ calls \in Seq(Entries(Objects))
<1>1. created \subseteq Objects
  BY DEF IInv, CacheInv, CacheTyped
<1>2. Entries(created) \subseteq Entries(Objects)
  BY <1>1 DEF Entries, DropCalls
<1>3. calls \in Seq(Entries(created))
  BY DEF IInv, StackInv, Stacked
<1> QED BY <1>1, <1>2, <1>3, SeqGrows

LEMMA OwedDo ==
  ASSUME NEW what, NEW y, Do(what, y) \in Entries(Objects), NEW x, NEW f
  PROVE  /\ Do(what, y) \in Owed(x, f) <=> \/ what = "drop" /\ y = x
                                           \/ what \in {"drawn", "handOut"} /\ f[y] = x
         /\ Tally(<<Do(what, y)>>, Owed(x, f)) = IF \/ what = "drop" /\ y = x
                                                    \/ what \in {"drawn", "handOut"} /\ f[y] = x
                                                 THEN 1 ELSE 0
<1>1. Do(what, y) \in Owed(x, f) <=> \/ what = "drop" /\ y = x
                                     \/ what \in {"drawn", "handOut"} /\ f[y] = x
  BY DEF Owed, Do
<1>2. Tally(<<Do(what, y)>>, Owed(x, f)) = IF Do(what, y) \in Owed(x, f) THEN 1 ELSE 0
  BY TallySingle
<1> QED BY <1>1, <1>2

(* The calls that drop textures have a reference to each.                  *)
LEMMA DropsOwed ==
  ASSUME NEW s \in Seq(Objects), NEW x, NEW f
  PROVE  /\ Drops(s) \in Seq(Entries(Objects))
         /\ Tally(Drops(s), Owed(x, f)) = Tally(s, {x}) /\ Tally(s, {x}) \in Nat
<1>1. \A i \in DOMAIN s : Do("drop", s[i]) \in Entries(Objects)
  <2>1. \A i \in DOMAIN s : s[i] \in Objects
    OBVIOUS
  <2> QED BY <2>1 DEF Do, Entries, DropCalls
<1>2. DOMAIN Drops(s) = DOMAIN s /\ \A i \in DOMAIN s : Drops(s)[i] = Do("drop", s[i])
  BY DEF Drops
<1>3. \A i \in DOMAIN s : Do("drop", s[i]) \in Owed(x, f) <=> s[i] \in {x}
  <2> SUFFICES ASSUME NEW i \in DOMAIN s
               PROVE  Do("drop", s[i]) \in Owed(x, f) <=> s[i] \in {x}
    OBVIOUS
  <2>1. Do("drop", s[i]) \in Entries(Objects)
    BY <1>1
  <2>2. \A y : Do("drop", y) \in Entries(Objects) => (Do("drop", y) \in Owed(x, f) <=> y = x)
    BY DEF Owed, Do
  <2> QED BY <2>1, <2>2
<1>4. {i \in DOMAIN Drops(s) : Drops(s)[i] \in Owed(x, f)} = {i \in DOMAIN s : s[i] \in {x}}
  BY <1>2, <1>3
<1>5. Drops(s) \in Seq(Entries(Objects))
  <2>1. Drops(s) \in Seq(DropCalls(Objects))
    BY DropsTyped
  <2>2. DropCalls(Objects) \subseteq Entries(Objects)
    BY DEF Entries
  <2> QED BY <2>1, <2>2, SeqGrows
<1>6. Tally(s, {x}) \in Nat
  BY TallySome
<1> QED BY <1>4, <1>5, <1>6 DEF Tally

(* How many calls have a reference before and after a step: the call that  *)
(* is made, the calls e that it makes, and n below them.                   *)
LEMMA CallsCounted ==
  ASSUME IInv, calls # <<>>, NEW e \in Seq(Entries(Objects)), Continue(e), NEW x \in Objects,
         \A y \in Elements(Tail(calls)) : y.do \in {"drawn", "handOut"} => info'[y.on] = info[y.on]
  PROVE  \E n \in Nat :
           /\ InCalls(x) = n + IF \/ Head(calls).do = "drop" /\ On = x
                                  \/ Head(calls).do \in {"drawn", "handOut"} /\ info[On] = x
                               THEN 1 ELSE 0
           /\ InCalls(x)' = Tally(e, Owed(x, info')) + n
           /\ Tally(e, Owed(x, info')) \in Nat
<1>1. calls \in Seq(Entries(Objects))
  BY EntriesExist
<1>2. PICK t : t = Tail(calls)
  OBVIOUS
<1>3. Head(calls) \in Entries(Objects) /\ t \in Seq(Entries(Objects))
  BY <1>1, <1>2, ElementsTail
<1>4. PICK n : n = Tally(t, Owed(x, info))
  OBVIOUS
<1>5. n \in Nat /\ InCalls(x) = n + IF Head(calls) \in Owed(x, info) THEN 1 ELSE 0
  BY <1>1, <1>2, <1>4, TallyTail DEF InCalls
<1>6. Head(calls) \in Owed(x, info) <=> \/ Head(calls).do = "drop" /\ On = x
                                        \/ Head(calls).do \in {"drawn", "handOut"} /\ info[On] = x
  BY <1>3 DEF Owed, On
<1>7. Tally(t, Owed(x, info')) = n
  <2>1. \A y \in Elements(t) : y \in Owed(x, info') <=> y \in Owed(x, info)
    BY <1>2 DEF Owed
  <2> QED BY <1>4, <2>1, TallySame
<1>8. /\ Tally(e \o t, Owed(x, info')) = Tally(e, Owed(x, info')) + Tally(t, Owed(x, info'))
  BY <1>3, TallyConcat
<1>9. Tally(e, Owed(x, info')) \in Nat
  BY TallySome
<1>10. InCalls(x)' = Tally(e, Owed(x, info')) + n
  BY <1>2, <1>7, <1>8 DEF InCalls, Continue, Owed
<1> QED BY <1>5, <1>6, <1>9, <1>10

(* What is below the call that is made still has the textures that it had. *)
BelowKeeps == \A y \in Elements(Tail(calls)) : y.do \in {"drawn", "handOut"} => info'[y.on] = info[y.on]

LEMMA FindBelow ==
  ASSUME IInv, Find
  PROVE  On \in CubeTiles /\ On \in Volatiles /\ Tail(calls) = <<>> /\ BelowKeeps
<1>1. calls # <<>> /\ Head(calls).do = "find"
  BY DEF Find, Doing
<1>2. On \in CubeTiles /\ Tail(calls) = <<>>
  BY <1>1, TheCall DEF IInv
<1> QED BY <1>2, TileAssumption, ElementsEmpty DEF Tiles, BelowKeeps

LEMMA DrawBelow ==
  ASSUME IInv, Draw
  PROVE  On \in SourceTiles /\ On \in Volatiles /\ BelowKeeps
<1>1. calls # <<>> /\ Head(calls).do = "draw" /\ Acquire(On)
  BY DEF Draw, Doing
<1>2. PICK t : t = Tail(calls)
  OBVIOUS
<1>3. /\ On \in SourceTiles /\ Stacked(t, created)
      /\ \A i \in DOMAIN t : t[i].do \notin {"find", "load", "drawn"}
  BY <1>1, <1>2, TheCall DEF IInv
<1>4. On \in Volatiles
  BY <1>3, TileAssumption DEF Tiles
<1>5. \A w \in Volatiles : CacheOf[w] # CacheOf[On] => info'[w] = info[w]
  BY <1>1, <1>4, AcquireStep DEF IInv
<1>6. ASSUME NEW y \in Elements(t), y.do \in {"drawn", "handOut"} PROVE info'[y.on] = info[y.on]
  <2>1. y \in Entries(created) /\ y.do = "handOut"
    BY <1>3, <1>6 DEF Stacked, Elements
  <2>2. y.on \in CubeTiles
    BY <2>1, EntryKinds
  <2>3. y.on \in Volatiles /\ CacheOf[y.on] # CacheOf[On]
    BY <1>3, <2>2, TileAssumption DEF Tiles
  <2> QED BY <1>5, <2>3
<1> QED BY <1>2, <1>3, <1>4, <1>6 DEF BelowKeeps

LEMMA LoadBelow ==
  ASSUME IInv, NEW h \in Objects, Allocate("height", h), calls # <<>>
  PROVE  BelowKeeps
<1>1. PICK t : t = Tail(calls)
  OBVIOUS
<1>2. Stacked(t, created)
  BY <1>1, TheCall DEF IInv
<1>3. \A w \in Volatiles : CacheOf[w] # "height" => info'[w] = info[w]
  BY AllocateStep, TileAssumption DEF IInv
<1>4. ASSUME NEW y \in Elements(t), y.do \in {"drawn", "handOut"} PROVE info'[y.on] = info[y.on]
  <2>1. y \in Entries(created)
    BY <1>2 DEF Stacked, Elements
  <2>2. y.on \in Tiles
    BY <1>4, <2>1, EntryKinds DEF Tiles
  <2>3. y.on \in Volatiles /\ CacheOf[y.on] # "height"
    BY <2>2, TileAssumption
  <2> QED BY <1>3, <2>3
<1> QED BY <1>1, <1>4 DEF BelowKeeps

(* What is not touched is counted as before.                               *)
LEMMA HandlesCounted ==
  ASSUME RefsInv, UNCHANGED handles, NEW x \in Objects
  PROVE  IsFiniteSet(Places(HandleHolds, x))' /\ InHandles(x)' = InHandles(x)
<1>1. HandleHolds' = HandleHolds
  BY DEF HandleHolds
<1> QED BY <1>1 DEF RefsInv, InHandles

LEMMA SourcesCounted ==
  ASSUME RefsInv, UNCHANGED sources, NEW x \in Objects
  PROVE  IsFiniteSet(Places(sources, x))' /\ InSources(x)' = InSources(x)
BY DEF RefsInv, InSources

LEMMA RenderingCounted ==
  ASSUME UNCHANGED rendering, NEW x \in Objects
  PROVE  InRendering(x)' = InRendering(x)
BY DEF InRendering

(* A texture is given to a tile, whose call has it then.                   *)
LEMMA GivenCounted ==
  ASSUME IInv, RefsInv, NEW o \in Objects, Give(o), UNCHANGED <<handles, sources, rendering>>,
         calls # <<>>, Head(calls).do \in {"find", "draw", "load"}, BelowKeeps,
         NEW e \in Seq(Entries(Objects)), Continue(e),
         \A x \in Objects : Tally(e, Owed(x, info')) = IF x = o THEN 1 ELSE 0
  PROVE  RefsInv'
<1>1. refs' = [refs EXCEPT ![o] = refs[o] + 1] /\ refs \in [Objects -> Nat]
  BY DEF Give, RefsInv
<1>2. refs' \in [Objects -> Nat] /\ \A x \in Objects : refs'[x] = refs[x] + IF x = o THEN 1 ELSE 0
  BY <1>1
<1>3. ASSUME NEW x \in Objects
      PROVE  /\ IsFiniteSet(Places(HandleHolds, x))' /\ IsFiniteSet(Places(sources, x))'
             /\ refs'[x] = InHandles(x)' + InSources(x)' + InRendering(x)' + InCalls(x)'
  <2>1. IsFiniteSet(Places(HandleHolds, x))' /\ InHandles(x)' = InHandles(x)
    BY HandlesCounted
  <2>2. IsFiniteSet(Places(sources, x))' /\ InSources(x)' = InSources(x)
    BY SourcesCounted
  <2>3. InRendering(x)' = InRendering(x)
    BY RenderingCounted
  <2>4. PICK n \in Nat : InCalls(x) = n /\ InCalls(x)' = Tally(e, Owed(x, info')) + n
    BY CallsCounted DEF BelowKeeps
  <2>5. InHandles(x) \in Nat /\ InSources(x) \in Nat /\ InRendering(x) \in Nat
    BY CountsTyped
  <2>6. refs[x] = InHandles(x) + InSources(x) + InRendering(x) + InCalls(x)
    BY DEF RefsInv
  <2>7. Tally(e, Owed(x, info')) = IF x = o THEN 1 ELSE 0
    OBVIOUS
  <2>8. refs'[x] = refs[x] + IF x = o THEN 1 ELSE 0
    BY <1>2
  <2> QED BY <2>1, <2>2, <2>3, <2>4, <2>5, <2>6, <2>7, <2>8
<1> QED BY <1>2, <1>3 DEF RefsInv

LEMMA TileEntries ==
  ASSUME NEW A
  PROVE  /\ \A t \in CubeTiles, what \in {"find", "rendered", "handOut"} : Do(what, t) \in Entries(A)
         /\ \A s \in SourceTiles, what \in {"draw", "load", "drawn"} : Do(what, s) \in Entries(A)
         /\ \A x \in A, what \in {"drop", "tell", "giveBack"} : Do(what, x) \in Entries(A)
BY DEF Do, Entries, CubeCalls, SourceCalls, DropCalls

(* Only the last of what is done for a tile has its texture.               *)
LEMMA DrawsOwed ==
  ASSUME NEW t \in CubeTiles, NEW x, NEW f
  PROVE  LET draws == [i \in DOMAIN Covers[t] |-> Do("draw", Covers[t][i])]
         IN /\ draws \o <<Do("rendered", t)>> \in Seq(Entries(Objects))
            /\ Tally(draws \o <<Do("rendered", t)>>, Owed(x, f)) = 0
<1>1. PICK draws : draws = [i \in DOMAIN Covers[t] |-> Do("draw", Covers[t][i])]
  OBVIOUS
<1>2. Covers[t] \in Seq(SourceTiles)
  BY TileAssumption
<1>3. draws \in Seq([do : {"draw"}, on : SourceTiles])
  BY <1>1, <1>2, DrawsTyped
<1>4. [do : {"draw"}, on : SourceTiles] \subseteq Entries(Objects)
  BY DEF Entries, SourceCalls
<1>5. PICK last : last = <<Do("rendered", t)>>
  OBVIOUS
<1>6. draws \in Seq(Entries(Objects)) /\ last \in Seq(Entries(Objects))
  <2>1. Do("rendered", t) \in Entries(Objects)
    BY TileEntries
  <2> QED BY <1>3, <1>4, <1>5, <2>1, SeqGrows, OneElement
<1>7. \A y \in Elements(draws) : y \notin Owed(x, f)
  <2>1. Elements(draws) \subseteq [do : {"draw"}, on : SourceTiles]
    BY <1>3, ElementsTyped
  <2> QED BY <2>1 DEF Owed
<1>8. Tally(draws, Owed(x, f)) = 0
  BY <1>6, <1>7, TallyZero
<1>9. Tally(last, Owed(x, f)) = 0
  <2>1. Do("rendered", t) \notin Owed(x, f)
    BY DEF Owed, Do
  <2> QED BY <1>5, <2>1, TallySingle
<1>10. Tally(draws \o last, Owed(x, f)) = Tally(draws, Owed(x, f)) + Tally(last, Owed(x, f))
  BY <1>6, TallyConcat
<1>11. draws \o last \in Seq(Entries(Objects))
  BY <1>6, ElementsConcat
<1> QED BY <1>1, <1>5, <1>8, <1>9, <1>10, <1>11

LEMMA FindRefs ==
  ASSUME IInv, RefsInv, Find
  PROVE  RefsInv'
<1>1. On \in CubeTiles /\ On \in Volatiles /\ BelowKeeps
  BY FindBelow
<1>2. calls # <<>> /\ Head(calls).do = "find" /\ Acquire(On)
  BY DEF Find, Doing
<1>3. PICK o : Obtains(On, o)
  BY <1>1, <1>2, AcquireObtains DEF IInv
<1>4. o \in Objects /\ Give(o) /\ info'[On] = o
  BY <1>3 DEF Obtains
<1>5. PICK d : d = IF OutOfDate(On)
                   THEN [i \in DOMAIN Covers[On] |-> Do("draw", Covers[On][i])] \o <<Do("rendered", On)>>
                   ELSE <<>>
  OBVIOUS
<1>6. PICK out : out = <<Do("handOut", On)>>
  OBVIOUS
<1>7. Continue(d \o out)
  BY <1>5, <1>6 DEF Find
<1>8. d \in Seq(Entries(Objects)) /\ \A x : Tally(d, Owed(x, info')) = 0
  <2>1. CASE OutOfDate(On)
    BY <1>1, <1>5, <2>1, DrawsOwed
  <2>2. CASE ~OutOfDate(On)
    <3>1. d = <<>>
      BY <1>5, <2>2
    <3> QED BY <3>1, TallyEmpty
  <2> QED BY <2>1, <2>2
<1>9. Do("handOut", On) \in Entries(Objects)
  BY <1>1, TileEntries
<1>10. out \in Seq(Entries(Objects))
  BY <1>6, <1>9, OneElement
<1>11. ASSUME NEW x \in Objects
       PROVE  Tally(d \o out, Owed(x, info')) = IF x = o THEN 1 ELSE 0
  <2>1. Do("handOut", On) \in Owed(x, info') <=> x = o
    BY <1>4, <1>9 DEF Owed, Do
  <2>2. Tally(out, Owed(x, info')) = IF x = o THEN 1 ELSE 0
    BY <1>6, <2>1, TallySingle
  <2>3. Tally(d \o out, Owed(x, info')) = Tally(d, Owed(x, info')) + Tally(out, Owed(x, info'))
    BY <1>8, <1>10, TallyConcat
  <2> QED BY <1>8, <2>2, <2>3
<1>12. d \o out \in Seq(Entries(Objects))
  BY <1>8, <1>10, ElementsConcat
<1>13. UNCHANGED <<handles, sources, rendering>>
  BY DEF Find, tileVars
<1>14. PICK e : e = d \o out
  OBVIOUS
<1> QED BY <1>1, <1>2, <1>4, <1>7, <1>11, <1>12, <1>13, <1>14, GivenCounted

LEMMA DrawRefs ==
  ASSUME IInv, RefsInv, Draw
  PROVE  RefsInv'
<1>1. On \in SourceTiles /\ On \in Volatiles /\ BelowKeeps
  BY DrawBelow
<1>2. calls # <<>> /\ Head(calls).do = "draw" /\ Acquire(On)
  BY DEF Draw, Doing
<1>3. PICK o : Obtains(On, o)
  BY <1>1, <1>2, AcquireObtains DEF IInv
<1>4. o \in Objects /\ Give(o) /\ info'[On] = o
  BY <1>3 DEF Obtains
<1>5. PICK d : d = IF OutOfDate(On) THEN <<Do("load", On)>> ELSE <<>>
  OBVIOUS
<1>6. PICK out : out = <<Do("drawn", On)>>
  OBVIOUS
<1>7. Continue(d \o out)
  BY <1>5, <1>6 DEF Draw
<1>8. Do("load", On) \in Entries(Objects) /\ Do("drawn", On) \in Entries(Objects)
  BY <1>1, TileEntries
<1>9. d \in Seq(Entries(Objects)) /\ \A x : Tally(d, Owed(x, info')) = 0
  <2>1. CASE OutOfDate(On)
    <3>1. d = <<Do("load", On)>>
      BY <1>5, <2>1
    <3>2. \A x : Do("load", On) \notin Owed(x, info')
      BY DEF Owed, Do
    <3> QED BY <1>8, <3>1, <3>2, TallySingle, OneElement
  <2>2. CASE ~OutOfDate(On)
    <3>1. d = <<>>
      BY <1>5, <2>2
    <3> QED BY <3>1, TallyEmpty
  <2> QED BY <2>1, <2>2
<1>10. out \in Seq(Entries(Objects))
  BY <1>6, <1>8, OneElement
<1>11. ASSUME NEW x \in Objects
       PROVE  Tally(d \o out, Owed(x, info')) = IF x = o THEN 1 ELSE 0
  <2>1. Do("drawn", On) \in Owed(x, info') <=> x = o
    BY <1>4, <1>8 DEF Owed, Do
  <2>2. Tally(out, Owed(x, info')) = IF x = o THEN 1 ELSE 0
    BY <1>6, <2>1, TallySingle
  <2>3. Tally(d \o out, Owed(x, info')) = Tally(d, Owed(x, info')) + Tally(out, Owed(x, info'))
    BY <1>9, <1>10, TallyConcat
  <2> QED BY <1>9, <2>2, <2>3
<1>12. d \o out \in Seq(Entries(Objects))
  BY <1>9, <1>10, ElementsConcat
<1>13. UNCHANGED <<handles, sources, rendering>>
  BY DEF Draw, tileVars
<1>14. PICK e : e = d \o out
  OBVIOUS
<1> QED BY <1>1, <1>2, <1>4, <1>7, <1>11, <1>12, <1>13, <1>14, GivenCounted

LEMMA LoadRefs ==
  ASSUME IInv, RefsInv, Load
  PROVE  RefsInv'
<1>1. calls # <<>> /\ Head(calls).do = "load"
  BY DEF Load, Doing
<1>2. PICK h \in Objects : Allocate("height", h) /\ Continue(<<Do("drop", h)>>)
  BY DEF Load
<1>3. BelowKeeps
  BY <1>1, <1>2, LoadBelow
<1>4. Give(h)
  BY <1>2 DEF Allocate
<1>5. Do("drop", h) \in Entries(Objects)
  BY TileEntries
<1>6. PICK e : e = <<Do("drop", h)>>
  OBVIOUS
<1>7. e \in Seq(Entries(Objects))
  BY <1>5, <1>6, OneElement
<1>8. ASSUME NEW x \in Objects PROVE Tally(e, Owed(x, info')) = IF x = h THEN 1 ELSE 0
  <2>1. Do("drop", h) \in Owed(x, info') <=> x = h
    BY <1>5 DEF Owed, Do
  <2> QED BY <1>6, <2>1, TallySingle
<1>9. UNCHANGED <<handles, sources, rendering>>
  BY DEF Load
<1> QED BY <1>1, <1>2, <1>3, <1>4, <1>6, <1>7, <1>8, <1>9, GivenCounted

LEMMA DrawnRefs ==
  ASSUME IInv, RefsInv, Drawn
  PROVE  RefsInv'
<1>1. calls # <<>> /\ Head(calls).do = "drawn"
  BY DEF Drawn, Doing
<1>2. On \in SourceTiles /\ info[On] # None
  BY <1>1, TheCall DEF IInv
<1>3. PICK o \in Objects : o = info[On] /\ o \in created
  BY <1>2, TileAssumption DEF IInv, CacheInv, CacheTyped, Tiles
<1>4. PICK e : e = IF keep["source"] THEN <<>> ELSE <<Do("drop", o)>>
  OBVIOUS
<1>5. /\ Continue(e) /\ UNCHANGED <<refs, info, handles, sources>>
      /\ rendering'.kept = IF keep["source"] THEN Append(rendering.kept, o) ELSE rendering.kept
  BY <1>3, <1>4 DEF Drawn, cacheVars, references
<1>6. Do("drop", o) \in Entries(Objects)
  BY TileEntries
<1>7. e \in Seq(Entries(Objects))
  BY <1>4, <1>6, OneElement
<1>8. ASSUME NEW x \in Objects
      PROVE  /\ IsFiniteSet(Places(HandleHolds, x))' /\ IsFiniteSet(Places(sources, x))'
             /\ refs'[x] = InHandles(x)' + InSources(x)' + InRendering(x)' + InCalls(x)'
  <2>1. IsFiniteSet(Places(HandleHolds, x))' /\ InHandles(x)' = InHandles(x)
    BY <1>5, HandlesCounted
  <2>2. IsFiniteSet(Places(sources, x))' /\ InSources(x)' = InSources(x)
    BY <1>5, SourcesCounted
  <2>3. PICK n \in Nat : /\ InCalls(x) = n + IF o = x THEN 1 ELSE 0
                         /\ InCalls(x)' = Tally(e, Owed(x, info')) + n
    BY <1>1, <1>3, <1>5, <1>7, CallsCounted
  <2>4. Tally(e, Owed(x, info')) + InRendering(x)' = InRendering(x) + IF o = x THEN 1 ELSE 0
    <3>1. rendering.kept \in Seq(created) /\ InRendering(x) \in Nat
      BY CountsTyped DEF IInv, KeptTyped
    <3>2. CASE keep["source"]
      <4>1. Tally(e, Owed(x, info')) = 0
        BY <1>4, <3>2, TallyEmpty
      <4>2. Tally(Append(rendering.kept, o), {x}) = Tally(rendering.kept, {x}) + IF o \in {x} THEN 1 ELSE 0
        BY <1>3, <3>1, TallyAppend
      <4>3. InRendering(x)' = InRendering(x) + IF o = x THEN 1 ELSE 0
        BY <1>5, <3>2, <4>2 DEF InRendering
      <4> QED BY <3>1, <4>1, <4>3
    <3>3. CASE ~keep["source"]
      <4>1. InRendering(x)' = InRendering(x)
        BY <1>5, <3>3 DEF InRendering
      <4>2. Do("drop", o) \in Owed(x, info') <=> o = x
        BY <1>6 DEF Owed, Do
      <4>3. Tally(e, Owed(x, info')) = IF o = x THEN 1 ELSE 0
        BY <1>4, <3>3, <4>2, TallySingle
      <4> QED BY <3>1, <4>1, <4>3
    <3> QED BY <3>2, <3>3
  <2>5. Tally(e, Owed(x, info')) \in Nat /\ InRendering(x)' \in Nat
    <3>1. Tally(e, Owed(x, info')) \in Nat
      BY <1>7, TallySome
    <3>2. rendering'.kept \in Seq(created)
      BY <1>3, <1>5 DEF IInv, KeptTyped
    <3>3. Tally(rendering'.kept, {x}) \in Nat
      BY <3>2, TallySome
    <3> QED BY <3>1, <3>3 DEF InRendering
  <2>6. InHandles(x) \in Nat /\ InSources(x) \in Nat /\ InRendering(x) \in Nat
    BY CountsTyped
  <2>7. refs[x] = InHandles(x) + InSources(x) + InRendering(x) + InCalls(x) /\ refs'[x] = refs[x]
    BY <1>5 DEF RefsInv
  <2> QED BY <2>1, <2>2, <2>3, <2>4, <2>5, <2>6, <2>7
<1> QED BY <1>5, <1>8 DEF RefsInv

(* Object o lets go of what it keeps, and keeps s from now on.             *)
LEMMA SourcesReplaced ==
  ASSUME IInv, RefsInv, NEW o \in Objects, NEW s \in Seq(created),
         sources' = [sources EXCEPT ![o] = s], NEW x \in Objects
  PROVE  /\ IsFiniteSet(Places(sources, x))' /\ InSources(x)' \in Nat
         /\ InSources(x)' + Tally(sources[o], {x}) = InSources(x) + Tally(s, {x})
<1>1. sources \in [Objects -> Seq(created)] /\ IsFiniteSet(Places(sources, x))
  BY DEF IInv, KeptTyped, RefsInv
<1>2. PICK F : F = sources
  OBVIOUS
<1>3. PICK H : H = sources'
  OBVIOUS
<1>4. F \in [Objects -> Seq(created)] /\ F[o] \in Seq(created) /\ IsFiniteSet(Places(F, x)) /\ Replaces(H, F, o, s)
  BY <1>1, <1>2, <1>3 DEF Replaces
<1>5. /\ IsFiniteSet(Places(H, x)) /\ Cardinality(Places(H, x)) \in Nat
      /\ Cardinality(Places(H, x)) + Tally(F[o], {x}) = Cardinality(Places(F, x)) + Tally(s, {x})
  BY <1>4, PlacesUpdate
<1> QED BY <1>2, <1>3, <1>5 DEF InSources

(* The textures that o kept are dropped, and it keeps s.                   *)
LEMMA DroppedCounted ==
  ASSUME IInv, RefsInv, NEW o \in Objects, NEW s \in Seq(created),
         sources' = [sources EXCEPT ![o] = s], UNCHANGED <<refs, info, handles>>,
         calls # <<>>, Head(calls).do \in {"rendered", "tell"}, Continue(Drops(sources[o])),
         \A x \in Objects : InRendering(x)' \in Nat /\ InRendering(x)' + Tally(s, {x}) = InRendering(x)
  PROVE  RefsInv'
<1>1. created \subseteq Objects /\ sources[o] \in Seq(created)
  BY DEF IInv, CacheInv, CacheTyped, KeptTyped
<1>2. sources[o] \in Seq(Objects)
  BY <1>1, SeqGrows
<1>3. PICK e : e = Drops(sources[o])
  OBVIOUS
<1>4. e \in Seq(Entries(Objects)) /\ Continue(e)
  BY <1>2, <1>3, DropsOwed
<1>5. ASSUME NEW x \in Objects
      PROVE  /\ IsFiniteSet(Places(HandleHolds, x))' /\ IsFiniteSet(Places(sources, x))'
             /\ refs'[x] = InHandles(x)' + InSources(x)' + InRendering(x)' + InCalls(x)'
  <2>1. IsFiniteSet(Places(HandleHolds, x))' /\ InHandles(x)' = InHandles(x)
    BY HandlesCounted
  <2>2. /\ IsFiniteSet(Places(sources, x))' /\ InSources(x)' \in Nat
        /\ InSources(x)' + Tally(sources[o], {x}) = InSources(x) + Tally(s, {x})
    BY SourcesReplaced
  <2>3. PICK n \in Nat : InCalls(x) = n /\ InCalls(x)' = Tally(e, Owed(x, info')) + n
    BY <1>4, CallsCounted
  <2>4. Tally(e, Owed(x, info')) = Tally(sources[o], {x}) /\ Tally(sources[o], {x}) \in Nat
    BY <1>2, <1>3, DropsOwed
  <2>5. InHandles(x) \in Nat /\ InSources(x) \in Nat /\ InRendering(x) \in Nat
    BY CountsTyped
  <2>6. refs[x] = InHandles(x) + InSources(x) + InRendering(x) + InCalls(x) /\ refs'[x] = refs[x]
    BY DEF RefsInv
  <2>7. InRendering(x)' \in Nat /\ InRendering(x)' + Tally(s, {x}) = InRendering(x) /\ Tally(s, {x}) \in Nat
    BY TallySome
  <2>8. refs[x] = InHandles(x) + InSources(x)' + InRendering(x)' + (Tally(sources[o], {x}) + n)
    <3>1. PICK b \in Nat : b = InSources(x)'
      BY <2>2
    <3>2. PICK c \in Nat : c = InRendering(x)'
      BY <2>7
    <3>3. PICK d \in Nat : d = Tally(sources[o], {x})
      BY <2>4
    <3>4. PICK q \in Nat : q = Tally(s, {x})
      BY <2>7
    <3>5. PICK a \in Nat : a = InHandles(x)
      BY <2>5
    <3>6. PICK u \in Nat : u = InSources(x)
      BY <2>5
    <3>7. PICK v \in Nat : v = InRendering(x)
      BY <2>5
    <3>8. b + d = u + q /\ c + q = v
      BY <2>2, <2>7, <3>1, <3>2, <3>3, <3>4, <3>6, <3>7
    <3>9. refs[x] = a + u + v + n
      BY <2>3, <2>6, <3>5, <3>6, <3>7
    <3>10. refs[x] = a + b + c + (d + n)
      BY <3>8, <3>9
    <3> QED BY <3>1, <3>2, <3>3, <3>5, <3>10
  <2> QED BY <2>1, <2>2, <2>3, <2>4, <2>6, <2>8
<1> QED BY <1>5 DEF RefsInv

LEMMA RenderedRefs ==
  ASSUME IInv, RefsInv, Rendered
  PROVE  RefsInv'
<1>1. calls # <<>> /\ Head(calls).do = "rendered"
  BY DEF Rendered, Doing
<1>2. On \in CubeTiles /\ info[On] # None
  BY <1>1, TheCall DEF IInv
<1>3. PICK o \in Objects : o = info[On]
  BY <1>2, TileAssumption DEF IInv, CacheInv, CacheTyped, Tiles
<1>4. PICK s \in Seq(created) : s = rendering.kept
  BY DEF IInv, KeptTyped
<1>5. /\ sources' = [sources EXCEPT ![o] = s] /\ rendering'.kept = <<>>
      /\ UNCHANGED <<refs, info, handles>> /\ Continue(Drops(sources[o]))
  BY <1>3, <1>4 DEF Rendered, NotRendering, cacheVars, references
<1>6. \A x \in Objects : InRendering(x)' \in Nat /\ InRendering(x)' + Tally(s, {x}) = InRendering(x)
  <2> SUFFICES ASSUME NEW x \in Objects
               PROVE  InRendering(x)' \in Nat /\ InRendering(x)' + Tally(s, {x}) = InRendering(x)
    OBVIOUS
  <2>1. InRendering(x)' = 0
    BY <1>5, TallyEmpty DEF InRendering
  <2>2. InRendering(x) = Tally(s, {x}) /\ InRendering(x) \in Nat
    BY <1>4, CountsTyped DEF InRendering
  <2> QED BY <2>1, <2>2
<1> QED BY <1>1, <1>5, <1>6, DroppedCounted

LEMMA TellRefs ==
  ASSUME IInv, RefsInv, Tell
  PROVE  RefsInv'
<1>1. calls # <<>> /\ Head(calls).do = "tell"
  BY DEF Tell, Doing
<1>2. PICK o \in Objects : o = On
  BY <1>1, TheCall DEF IInv, CacheInv, CacheTyped
<1>3. PICK s : s = <<>> /\ s \in Seq(created)
  <2>1. <<>> \in Seq(created)
    OBVIOUS
  <2> QED BY <2>1
<1>4. /\ sources' = [sources EXCEPT ![o] = s] /\ UNCHANGED <<refs, info, handles, rendering>>
      /\ Continue(Drops(sources[o]))
  BY <1>2, <1>3 DEF Tell, cacheVars, references
<1>5. \A x \in Objects : InRendering(x)' \in Nat /\ InRendering(x)' + Tally(s, {x}) = InRendering(x)
  <2> SUFFICES ASSUME NEW x \in Objects
               PROVE  InRendering(x)' \in Nat /\ InRendering(x)' + Tally(s, {x}) = InRendering(x)
    OBVIOUS
  <2>1. Tally(s, {x}) = 0
    BY <1>3, TallyEmpty
  <2>2. InRendering(x)' = InRendering(x) /\ InRendering(x) \in Nat
    BY <1>4, CountsTyped, RenderingCounted
  <2> QED BY <2>1, <2>2
<1> QED BY <1>1, <1>3, <1>4, <1>5, DroppedCounted

(* What a handle holds, of each texture.                                   *)
LEMMA HoldsCounted ==
  ASSUME NEW h, h.sources \in Seq(Objects), h.object \in Objects \cup {None}, NEW x \in Objects
  PROVE  /\ Holds(h) \in Seq(Objects) /\ Tally(h.sources, {x}) \in Nat
         /\ Tally(Holds(h), {x}) = Tally(h.sources, {x}) + IF h.object = x THEN 1 ELSE 0
<1>1. PICK s \in Seq(Objects) : s = h.sources
  OBVIOUS
<1>2. PICK o : o = h.object
  OBVIOUS
<1>3. PICK e : e = IF o = None THEN <<>> ELSE <<o>>
  OBVIOUS
<1>4. Tally(s, {x}) \in Nat
  BY TallySome
<1>5. e \in Seq(Objects) /\ Tally(e, {x}) = IF o = x THEN 1 ELSE 0
  <2>1. CASE o = None
    <3>1. e = <<>> /\ x # None
      BY <1>3, <2>1, CacheAssumption
    <3> QED BY <2>1, <3>1, TallyEmpty
  <2>2. CASE o # None
    <3>1. e = <<o>> /\ o \in Objects
      BY <1>2, <1>3, <2>2
    <3>2. Tally(e, {x}) = IF o \in {x} THEN 1 ELSE 0
      BY <3>1, TallySingle
    <3> QED BY <3>1, <3>2, OneElement
  <2> QED BY <2>1, <2>2
<1>6. Tally(s \o e, {x}) = Tally(s, {x}) + Tally(e, {x})
  BY <1>5, TallyConcat
<1>7. s \o e \in Seq(Objects)
  BY <1>5, ElementsConcat
<1>8. Holds(h) = s \o e
  BY <1>1, <1>2, <1>3 DEF Holds
<1> QED BY <1>1, <1>2, <1>4, <1>5, <1>6, <1>7, <1>8

(* The handles, as functions from their numbers.                           *)
LEMMA HandleTyped ==
  ASSUME IInv, NEW i \in DOMAIN handles
  PROVE  /\ handles[i].tile \in CubeTiles /\ handles[i].object \in created \cup {None}
         /\ handles[i].sources \in Seq(created) /\ handles[i].since \in Nat
         /\ handles[i].object \in Objects \cup {None} /\ handles[i].sources \in Seq(Objects)
<1>1. PICK h : h = handles[i]
  OBVIOUS
<1>2. h \in [tile : CubeTiles, object : created \cup {None}, sources : Seq(created), since : Nat]
  BY <1>1, ElementOf DEF IInv, KeptTyped, HandlesTyped
<1>3. created \subseteq Objects
  BY DEF IInv, CacheInv, CacheTyped
<1>4. h.sources \in Seq(Objects)
  BY <1>2, <1>3, SeqGrows
<1> QED BY <1>1, <1>2, <1>3, <1>4

LEMMA HandOutRefs ==
  ASSUME IInv, RefsInv, HandOut
  PROVE  RefsInv'
<1>1. calls # <<>> /\ Head(calls).do = "handOut"
  BY DEF HandOut, Doing
<1>2. On \in CubeTiles /\ info[On] # None
  BY <1>1, TheCall DEF IInv
<1>3. PICK o \in Objects : o = info[On]
  BY <1>2, TileAssumption DEF IInv, CacheInv, CacheTyped, Tiles
<1>4. PICK h : h = [tile |-> On, object |-> IF keep["cube"] THEN o ELSE None,
                    sources |-> sources[o], since |-> version]
  OBVIOUS
<1>5. PICK e : e = IF keep["cube"] THEN <<>> ELSE <<Do("drop", o)>>
  OBVIOUS
<1>6. /\ Continue(e) /\ handles' = Append(handles, h) /\ UNCHANGED <<info, sources, rendering>>
      /\ refs' = [x \in Objects |-> refs[x] + Times(x, sources[o])]
  BY <1>3, <1>4, <1>5 DEF HandOut, references
<1>7. sources[o] \in Seq(Objects)
  <2>1. created \subseteq Objects /\ sources[o] \in Seq(created)
    BY DEF IInv, CacheInv, CacheTyped, KeptTyped
  <2> QED BY <2>1, SeqGrows
<1>8. h.sources = sources[o] /\ h.object = (IF keep["cube"] THEN o ELSE None) /\ h.object \in Objects \cup {None}
  BY <1>4
<1>9. Do("drop", o) \in Entries(Objects)
  BY TileEntries
<1>10. e \in Seq(Entries(Objects))
  BY <1>5, <1>9, OneElement
<1>11. \A x \in Objects : refs[x] \in Nat /\ refs'[x] = refs[x] + Tally(sources[o], {x}) /\ Tally(sources[o], {x}) \in Nat
  <2> SUFFICES ASSUME NEW x \in Objects
               PROVE  refs[x] \in Nat /\ refs'[x] = refs[x] + Tally(sources[o], {x}) /\ Tally(sources[o], {x}) \in Nat
    OBVIOUS
  <2>1. Times(x, sources[o]) = Tally(sources[o], {x})
    BY DEF Times, Tally
  <2>2. Tally(sources[o], {x}) \in Nat
    BY <1>7, TallySome
  <2> QED BY <1>6, <2>1, <2>2 DEF RefsInv
<1>12. refs' \in [Objects -> Nat]
  <2>1. refs' = [x \in Objects |-> refs'[x]]
    BY <1>6
  <2>2. ASSUME NEW x \in Objects PROVE refs'[x] \in Nat
    <3>1. PICK m \in Nat : m = refs[x]
      BY <1>11
    <3>2. PICK n \in Nat : n = Tally(sources[o], {x})
      BY <1>11
    <3>3. refs'[x] = m + n
      BY <1>11, <3>1, <3>2
    <3> QED BY <3>3
  <2> QED BY <2>1, <2>2
<1>13. ASSUME NEW x \in Objects
       PROVE  /\ IsFiniteSet(Places(HandleHolds, x))' /\ IsFiniteSet(Places(sources, x))'
              /\ refs'[x] = InHandles(x)' + InSources(x)' + InRendering(x)' + InCalls(x)'
  <2>1. /\ Holds(h) \in Seq(Objects)
        /\ Tally(Holds(h), {x}) = Tally(sources[o], {x}) + IF h.object = x THEN 1 ELSE 0
    BY <1>7, <1>8, HoldsCounted
  <2>2. /\ IsFiniteSet(Places(HandleHolds, x))'
        /\ InHandles(x)' = InHandles(x) + Tally(Holds(h), {x})
    <3>1. PICK G : G = HandleHolds
      OBVIOUS
    <3>2. PICK F : F = HandleHolds'
      OBVIOUS
    <3>3. PICK n \in Nat : n = Len(handles) /\ DOMAIN handles = 1..n
      BY DEF IInv, KeptTyped, HandlesTyped
    <3>4. /\ DOMAIN handles' = 1..(n + 1) /\ handles'[n + 1] = h
          /\ \A j \in 1..n : handles'[j] = handles[j]
      <4>1. PICK S : handles \in Seq(S)
        BY DEF IInv, KeptTyped, HandlesTyped
      <4> QED BY <1>6, <3>3, <4>1
    <3>5. DOMAIN G = 1..n /\ \A j \in 1..n : G[j] = Holds(handles[j])
      BY <3>1, <3>3 DEF HandleHolds
    <3>6. DOMAIN F = 1..(n + 1) /\ \A j \in 1..(n + 1) : F[j] = Holds(handles'[j])
      BY <3>2, <3>4 DEF HandleHolds, Holds
    <3>7. PICK k : k = n + 1
      OBVIOUS
    <3>8. k \in DOMAIN F /\ k \notin DOMAIN G /\ DOMAIN F = DOMAIN G \cup {k}
      BY <3>3, <3>5, <3>6, <3>7
    <3>9. F[k] = Holds(h) /\ F[k] \in Seq(Objects)
      BY <2>1, <3>4, <3>6, <3>7, <3>8
    <3>10. \A j \in DOMAIN G : G[j] = F[j]
      BY <3>4, <3>5, <3>6, <3>8
    <3>11. IsFiniteSet(Places(G, x))
      BY <3>1 DEF RefsInv
    <3>12. /\ IsFiniteSet(Places(F, x)) <=> IsFiniteSet(Places(G, x))
           /\ IsFiniteSet(Places(G, x)) =>
                /\ Cardinality(Places(F, x)) = Cardinality(Places(G, x)) + Tally(F[k], {x})
                /\ Cardinality(Places(G, x)) \in Nat /\ Tally(F[k], {x}) \in Nat
      BY <3>8, <3>9, <3>10, PlacesSplit
    <3> QED BY <3>1, <3>2, <3>9, <3>11, <3>12 DEF InHandles
  <2>3. IsFiniteSet(Places(sources, x))' /\ InSources(x)' = InSources(x)
    BY <1>6, SourcesCounted
  <2>4. InRendering(x)' = InRendering(x)
    BY <1>6, RenderingCounted
  <2>5. PICK n \in Nat : /\ InCalls(x) = n + IF o = x THEN 1 ELSE 0
                         /\ InCalls(x)' = Tally(e, Owed(x, info')) + n
    BY <1>1, <1>3, <1>6, <1>10, CallsCounted
  <2>6. Tally(e, Owed(x, info')) + (IF h.object = x THEN 1 ELSE 0) = IF o = x THEN 1 ELSE 0
    <3>1. CASE keep["cube"]
      <4>1. Tally(e, Owed(x, info')) = 0
        BY <1>5, <3>1, TallyEmpty
      <4> QED BY <1>8, <3>1, <4>1
    <3>2. CASE ~keep["cube"]
      <4>1. h.object = None /\ x # None
        BY <1>8, <3>2, CacheAssumption
      <4>2. Do("drop", o) \in Owed(x, info') <=> o = x
        BY <1>9 DEF Owed, Do
      <4>3. Tally(e, Owed(x, info')) = IF o = x THEN 1 ELSE 0
        BY <1>5, <3>2, <4>2, TallySingle
      <4> QED BY <4>1, <4>3
    <3> QED BY <3>1, <3>2
  <2>7. InHandles(x) \in Nat /\ InSources(x) \in Nat /\ InRendering(x) \in Nat
    BY CountsTyped
  <2>8. refs[x] = InHandles(x) + InSources(x) + InRendering(x) + InCalls(x)
    BY DEF RefsInv
  <2>9. refs'[x] = InHandles(x)' + InSources(x)' + InRendering(x)' + InCalls(x)'
    <3>1. PICK a \in Nat : a = InHandles(x)
      BY <2>7
    <3>2. PICK b \in Nat : b = InSources(x)
      BY <2>7
    <3>3. PICK c \in Nat : c = InRendering(x)
      BY <2>7
    <3>4. PICK d \in Nat : d = Tally(sources[o], {x})
      BY <1>11
    <3>5. PICK u : u = Tally(e, Owed(x, info'))
      OBVIOUS
    <3>6. PICK v \in Nat : v = IF h.object = x THEN 1 ELSE 0
      OBVIOUS
    <3>7. PICK w \in Nat : w = IF o = x THEN 1 ELSE 0
      OBVIOUS
    <3>8. u \in Nat /\ u + v = w
      <4>1. Tally(e, Owed(x, info')) \in Nat
        BY <1>10, TallySome
      <4> QED BY <2>6, <3>5, <3>6, <3>7, <4>1
    <3>9. refs'[x] = a + b + c + (n + w) + d
      BY <1>11, <2>5, <2>8, <3>1, <3>2, <3>3, <3>4, <3>7
    <3>10. InHandles(x)' = a + (d + v)
      BY <2>1, <2>2, <3>1, <3>4, <3>6
    <3>11. InCalls(x)' = u + n
      BY <2>5, <3>5
    <3>12. a + b + c + (n + w) + d = (a + (d + v)) + b + c + (u + n)
      BY <3>8
    <3> QED BY <2>3, <2>4, <3>2, <3>3, <3>9, <3>10, <3>11, <3>12
  <2> QED BY <2>2, <2>3, <2>9
<1> QED BY <1>12, <1>13 DEF RefsInv

LEMMA DropRefs ==
  ASSUME IInv, RefsInv, Drop
  PROVE  RefsInv' /\ On \in Objects /\ refs[On] > 0
<1>1. calls # <<>> /\ Head(calls).do = "drop"
  BY DEF Drop, Doing
<1>2. PICK o \in Objects : o = On
  BY <1>1, TheCall DEF IInv, CacheInv, CacheTyped
<1>3. PICK e : e = IF refs[o] > 1 THEN <<>> ELSE <<Do("tell", o), Do("giveBack", o)>>
  OBVIOUS
<1>4. Continue(e) /\ refs' = [refs EXCEPT ![o] = refs[o] - 1] /\ UNCHANGED <<info, handles, sources, rendering>>
  BY <1>2, <1>3 DEF Drop, references, tileVars
<1>5. Do("tell", o) \in Entries(Objects) /\ Do("giveBack", o) \in Entries(Objects)
  BY TileEntries
<1>6. e \in Seq(Entries(Objects)) /\ \A x \in Objects : Tally(e, Owed(x, info')) = 0
  <2>1. CASE refs[o] > 1
    BY <1>3, <2>1, TallyEmpty
  <2>2. CASE ~(refs[o] > 1)
    <3>1. e = <<Do("tell", o), Do("giveBack", o)>>
      BY <1>3, <2>2
    <3>2. e \in Seq(Entries(Objects))
      BY <1>5, <3>1, TwoElements
    <3>3. \A y \in Elements(e) : y.do \in {"tell", "giveBack"}
      BY <3>1 DEF Elements, Do
    <3>4. \A x \in Objects : \A y \in Elements(e) : y \notin Owed(x, info')
      BY <3>3 DEF Owed
    <3> QED BY <3>2, <3>4, TallyZero
  <2> QED BY <2>1, <2>2
<1>7. ASSUME NEW x \in Objects
      PROVE  /\ IsFiniteSet(Places(HandleHolds, x))' /\ IsFiniteSet(Places(sources, x))'
             /\ refs[x] \in Nat /\ (x = o => refs[x] > 0)
             /\ refs'[x] = InHandles(x)' + InSources(x)' + InRendering(x)' + InCalls(x)'
  <2>1. IsFiniteSet(Places(HandleHolds, x))' /\ InHandles(x)' = InHandles(x)
    BY <1>4, HandlesCounted
  <2>2. IsFiniteSet(Places(sources, x))' /\ InSources(x)' = InSources(x)
    BY <1>4, SourcesCounted
  <2>3. InRendering(x)' = InRendering(x)
    BY <1>4, RenderingCounted
  <2>4. PICK n \in Nat : /\ InCalls(x) = n + IF o = x THEN 1 ELSE 0
                         /\ InCalls(x)' = Tally(e, Owed(x, info')) + n
    BY <1>1, <1>2, <1>4, <1>6, CallsCounted
  <2>5. InHandles(x) \in Nat /\ InSources(x) \in Nat /\ InRendering(x) \in Nat
    BY CountsTyped
  <2>6. refs[x] = InHandles(x) + InSources(x) + InRendering(x) + InCalls(x) /\ refs[x] \in Nat
    BY DEF RefsInv
  <2>7. Tally(e, Owed(x, info')) = 0
    BY <1>6
  <2>8. refs'[x] = refs[x] - IF o = x THEN 1 ELSE 0
    BY <1>4, <2>6 DEF RefsInv
  <2>9. refs[x] = InHandles(x) + InSources(x) + InRendering(x) + n + IF o = x THEN 1 ELSE 0
    BY <2>4, <2>5, <2>6
  <2>10. x = o => refs[x] > 0
    BY <2>5, <2>9
  <2> QED BY <2>1, <2>2, <2>3, <2>4, <2>5, <2>6, <2>7, <2>8, <2>9, <2>10
<1>8. refs' \in [Objects -> Nat] /\ refs[o] > 0
  <2>1. refs[o] \in Nat /\ refs[o] > 0
    BY <1>7
  <2>2. refs[o] - 1 \in Nat
    BY <2>1
  <2> QED BY <1>4, <2>1, <2>2 DEF RefsInv
<1>9. \A x \in Objects : /\ IsFiniteSet(Places(HandleHolds, x))' /\ IsFiniteSet(Places(sources, x))'
                         /\ refs'[x] = InHandles(x)' + InSources(x)' + InRendering(x)' + InCalls(x)'
  BY <1>7
<1>10. RefsInv'
  BY <1>8, <1>9 DEF RefsInv
<1> QED BY <1>2, <1>8, <1>10

(* Only the calls change, and those that come have no reference that those *)
(* that go have not.                                                       *)
LEMMA CallsOnly ==
  ASSUME RefsInv, UNCHANGED <<refs, handles, sources, rendering>>,
         \A x \in Objects : InCalls(x)' = InCalls(x)
  PROVE  RefsInv'
<1>1. \A x \in Objects : IsFiniteSet(Places(HandleHolds, x))' /\ InHandles(x)' = InHandles(x)
  BY HandlesCounted
<1>2. \A x \in Objects : IsFiniteSet(Places(sources, x))' /\ InSources(x)' = InSources(x)
  BY SourcesCounted
<1>3. \A x \in Objects : InRendering(x)' = InRendering(x)
  BY RenderingCounted
<1> QED BY <1>1, <1>2, <1>3 DEF RefsInv

LEMMA ReturnedRefs ==
  ASSUME IInv, RefsInv, Returned
  PROVE  RefsInv'
<1>1. calls # <<>> /\ Head(calls).do = "giveBack"
  BY DEF Returned, Doing
<1>2. PICK e : e = <<>>
  OBVIOUS
<1>3. Continue(e) /\ UNCHANGED <<refs, info, handles, sources, rendering>>
  BY <1>2 DEF Returned, GiveBack, tileVars, references
<1>4. e \in Seq(Entries(Objects))
  BY <1>2
<1>5. ASSUME NEW x \in Objects PROVE InCalls(x)' = InCalls(x)
  <2>1. PICK n \in Nat : InCalls(x) = n /\ InCalls(x)' = Tally(e, Owed(x, info')) + n
    BY <1>1, <1>3, <1>4, CallsCounted
  <2>2. Tally(e, Owed(x, info')) = 0
    BY <1>2, TallyEmpty
  <2> QED BY <2>1, <2>2
<1> QED BY <1>3, <1>5, CallsOnly

(* A call that starts when there is none.                                  *)
LEMMA StartRefs ==
  ASSUME RefsInv, UNCHANGED <<refs, info, handles, sources, rendering>>, calls = <<>>,
         \A x \in Objects : Tally(calls', Owed(x, info)) = 0
  PROVE  RefsInv'
<1>1. ASSUME NEW x \in Objects PROVE InCalls(x)' = InCalls(x)
  <2>1. InCalls(x) = 0
    BY TallyEmpty DEF InCalls
  <2>2. InCalls(x)' = Tally(calls', Owed(x, info))
    BY DEF InCalls, Owed
  <2> QED BY <2>1, <2>2
<1> QED BY <1>1, CallsOnly

LEMMA GetTileTextureRefs ==
  ASSUME RefsInv, NEW t \in CubeTiles, GetTileTexture(t)
  PROVE  RefsInv'
<1>1. /\ UNCHANGED <<refs, info, handles, sources, rendering>> /\ calls = <<>>
      /\ calls' = <<Do("find", t)>>
  BY DEF GetTileTexture, Start, Idle, cacheVars, references, tileVars
<1>2. \A x : Do("find", t) \notin Owed(x, info)
  BY DEF Owed, Do
<1>3. \A x : Tally(calls', Owed(x, info)) = 0
  BY <1>1, <1>2, TallySingle
<1> QED BY <1>1, <1>3, StartRefs

LEMMA ChangeSourceRefs ==
  ASSUME RefsInv, ChangeSource
  PROVE  RefsInv'
<1>1. UNCHANGED <<refs, info, handles, sources, rendering>> /\ calls = <<>> /\ calls' = <<>>
  BY DEF ChangeSource, Start, Idle, cacheVars, references
<1> QED BY <1>1, StartRefs, TallyEmpty

(* The handle lets go of what it holds, and the calls have it instead.     *)
LEMMA DropHandleRefs ==
  ASSUME IInv, RefsInv, NEW i \in DOMAIN handles, DropHandle(i)
  PROVE  RefsInv'
<1>1. PICK h : h = handles[i]
  OBVIOUS
<1>2. PICK d : d = Drops(h.sources)
  OBVIOUS
<1>3. PICK e : e = IF h.object = None THEN <<>> ELSE <<Do("drop", h.object)>>
  OBVIOUS
<1>4. /\ UNCHANGED <<refs, info, sources, rendering>> /\ calls = <<>> /\ calls' = d \o e
      /\ handles' = RemoveAt(handles, i)
  BY <1>1, <1>2, <1>3 DEF DropHandle, Start, Idle, cacheVars, references
<1>5. h.sources \in Seq(Objects) /\ h.object \in Objects \cup {None}
  BY <1>1, HandleTyped
<1>6. ASSUME NEW x \in Objects
      PROVE  /\ IsFiniteSet(Places(HandleHolds, x))' /\ InHandles(x)' \in Nat
             /\ InHandles(x) = InHandles(x)' + Tally(Holds(h), {x})
  <2>1. PICK F : F = HandleHolds
    OBVIOUS
  <2>2. PICK H : H = HandleHolds'
    OBVIOUS
  <2>3. PICK n \in Nat : n = Len(handles) /\ DOMAIN handles = 1..n
    BY DEF IInv, KeptTyped, HandlesTyped
  <2>4. i \in 1..n
    BY <2>3
  <2>5. PICK S : handles \in Seq(S)
    BY DEF IInv, KeptTyped, HandlesTyped
  <2>6. DOMAIN handles' = 1..(n - 1) /\ \A j \in 1..(n - 1) : handles'[j] = handles[Gap(i)[j]]
    BY <1>4, <2>3, <2>5, RemovedGap
  <2>7. DOMAIN F = 1..n /\ \A j \in 1..n : F[j] = Holds(handles[j])
    BY <2>1, <2>3 DEF HandleHolds
  <2>8. DOMAIN H = 1..(n - 1) /\ \A j \in 1..(n - 1) : H[j] = Holds(handles'[j])
    BY <2>2, <2>6 DEF HandleHolds, Holds
  <2>9. \A j \in 1..(n - 1) : Gap(i)[j] \in (1..n) \ {i}
    BY <2>4, GapFacts
  <2>10. \A j \in 1..(n - 1) : H[j] = F[Gap(i)[j]]
    BY <2>6, <2>7, <2>8, <2>9
  <2>11. PICK f : Renumbers(f, H, F, i)
    BY <2>4, <2>7, <2>8, <2>10, GapRenumbers
  <2>12. i \in DOMAIN F /\ F[i] = Holds(h)
    BY <1>1, <2>4, <2>7
  <2>13. Holds(h) \in Seq(Objects)
    BY <1>5, HoldsCounted
  <2>14. F[i] \in Seq(Objects)
    BY <2>12, <2>13
  <2>15. IsFiniteSet(Places(F, x))
    BY <2>1 DEF RefsInv
  <2>16. /\ IsFiniteSet(Places(H, x)) /\ Cardinality(Places(H, x)) \in Nat
         /\ Cardinality(Places(F, x)) = Cardinality(Places(H, x)) + Tally(F[i], {x})
    BY <2>11, <2>12, <2>14, <2>15, PlacesDropped
  <2> QED BY <2>1, <2>2, <2>12, <2>16 DEF InHandles
<1>7. ASSUME NEW x \in Objects
      PROVE  InCalls(x) = 0 /\ InCalls(x)' = Tally(Holds(h), {x}) /\ Tally(Holds(h), {x}) \in Nat
  <2>1. InCalls(x) = 0
    BY <1>4, TallyEmpty DEF InCalls
  <2>2. /\ d \in Seq(Entries(Objects))
        /\ Tally(d, Owed(x, info)) = Tally(h.sources, {x}) /\ Tally(h.sources, {x}) \in Nat
    BY <1>2, <1>5, DropsOwed
  <2>3. e \in Seq(Entries(Objects)) /\ Tally(e, Owed(x, info)) = IF h.object = x THEN 1 ELSE 0
    <3>1. CASE h.object = None
      <4>1. e = <<>> /\ x # None
        BY <1>3, <3>1, CacheAssumption
      <4> QED BY <3>1, <4>1, TallyEmpty
    <3>2. CASE h.object # None
      <4>1. PICK o \in Objects : o = h.object
        BY <1>5, <3>2
      <4>2. e = <<Do("drop", o)>> /\ Do("drop", o) \in Entries(Objects)
        BY <1>3, <3>2, <4>1, TileEntries
      <4>3. Do("drop", o) \in Owed(x, info) <=> o = x
        BY <4>2 DEF Owed, Do
      <4> QED BY <4>1, <4>2, <4>3, TallySingle, OneElement
    <3> QED BY <3>1, <3>2
  <2>4. Tally(d \o e, Owed(x, info)) = Tally(d, Owed(x, info)) + Tally(e, Owed(x, info))
    BY <2>2, <2>3, TallyConcat
  <2>5. Tally(Holds(h), {x}) = Tally(h.sources, {x}) + IF h.object = x THEN 1 ELSE 0
    BY <1>5, HoldsCounted
  <2>6. InCalls(x)' = Tally(d \o e, Owed(x, info))
    BY <1>4 DEF InCalls, Owed
  <2>7. InCalls(x)' = Tally(h.sources, {x}) + IF h.object = x THEN 1 ELSE 0
    BY <2>2, <2>3, <2>4, <2>6
  <2>8. Tally(h.sources, {x}) + (IF h.object = x THEN 1 ELSE 0) \in Nat
    BY <2>2
  <2> QED BY <2>1, <2>5, <2>7, <2>8
<1>8. \A x \in Objects : IsFiniteSet(Places(sources, x))' /\ InSources(x)' = InSources(x)
  BY <1>4, SourcesCounted
<1>9. \A x \in Objects : InRendering(x)' = InRendering(x)
  BY <1>4, RenderingCounted
<1>10. ASSUME NEW x \in Objects
       PROVE  refs'[x] = InHandles(x)' + InSources(x)' + InRendering(x)' + InCalls(x)'
  <2>1. PICK a \in Nat : a = InHandles(x)'
    BY <1>6
  <2>2. PICK m \in Nat : m = Tally(Holds(h), {x})
    BY <1>7
  <2>3. PICK b \in Nat : b = InSources(x)
    BY CountsTyped
  <2>4. PICK c \in Nat : c = InRendering(x)
    BY CountsTyped
  <2>5. refs[x] = (a + m) + b + c + 0
    BY <1>6, <1>7, <2>1, <2>2, <2>3, <2>4 DEF RefsInv
  <2>6. refs'[x] = a + b + c + m
    BY <1>4, <2>5
  <2> QED BY <1>7, <1>8, <1>9, <2>1, <2>2, <2>3, <2>4, <2>6
<1> QED BY <1>4, <1>6, <1>8, <1>10 DEF RefsInv

LEMMA InitRefs == Init => RefsInv
<1> SUFFICES ASSUME Init PROVE RefsInv
  OBVIOUS
<1>1. /\ refs = [o \in Objects |-> 0] /\ handles = <<>> /\ sources = [o \in Objects |-> <<>>]
      /\ rendering.kept = <<>> /\ calls = <<>>
  BY DEF Init, CacheInit, NotRendering
<1>2. ASSUME NEW x \in Objects
      PROVE  Places(HandleHolds, x) = {} /\ Places(sources, x) = {}
  <2>1. Places(HandleHolds, x) = {}
    BY <1>1 DEF Places, HandleHolds
  <2>2. Places(sources, x) = {}
    BY <1>1 DEF Places, Row
  <2> QED BY <2>1, <2>2
<1>3. ASSUME NEW x \in Objects
      PROVE  /\ IsFiniteSet(Places(HandleHolds, x)) /\ IsFiniteSet(Places(sources, x))
             /\ refs[x] = InHandles(x) + InSources(x) + InRendering(x) + InCalls(x)
  <2>1. IsFiniteSet(Places(HandleHolds, x)) /\ InHandles(x) = 0
    BY <1>2, FS_EmptySet DEF InHandles
  <2>2. IsFiniteSet(Places(sources, x)) /\ InSources(x) = 0
    BY <1>2, FS_EmptySet DEF InSources
  <2>3. InRendering(x) = 0 /\ InCalls(x) = 0
    BY <1>1, TallyEmpty DEF InRendering, InCalls
  <2> QED BY <1>1, <2>1, <2>2, <2>3
<1> QED BY <1>1, <1>3 DEF RefsInv

LEMMA StepRefs == IInv /\ RefsInv /\ [Next]_vars => RefsInv'
<1> SUFFICES ASSUME IInv, RefsInv, [Next]_vars PROVE RefsInv'
  OBVIOUS
<1>1. CASE \E t \in CubeTiles : GetTileTexture(t)
  BY <1>1, GetTileTextureRefs
<1>2. CASE \E i \in DOMAIN handles : DropHandle(i)
  BY <1>2, DropHandleRefs
<1>3. CASE ChangeSource
  BY <1>3, ChangeSourceRefs
<1>4. CASE Find
  BY <1>4, FindRefs
<1>5. CASE Draw
  BY <1>5, DrawRefs
<1>6. CASE Load
  BY <1>6, LoadRefs
<1>7. CASE Drawn
  BY <1>7, DrawnRefs
<1>8. CASE Rendered
  BY <1>8, RenderedRefs
<1>9. CASE HandOut
  BY <1>9, HandOutRefs
<1>10. CASE Drop
  BY <1>10, DropRefs
<1>11. CASE Tell
  BY <1>11, TellRefs
<1>12. CASE Returned
  BY <1>12, ReturnedRefs
<1>13. CASE UNCHANGED vars
  <2>1. UNCHANGED <<refs, info, handles, sources, rendering, calls>>
    BY <1>13 DEF vars, cacheVars, references, tileVars
  <2>2. \A x \in Objects : InCalls(x)' = InCalls(x)
    BY <2>1 DEF InCalls, Owed
  <2> QED BY <2>1, <2>2, CallsOnly
<1> QED BY <1>1, <1>2, <1>3, <1>4, <1>5, <1>6, <1>7, <1>8, <1>9, <1>10, <1>11, <1>12, <1>13
        DEF Next
-----------------------------------------------------------------------------
(* The stack: textures that are let go, on top of what is done for a tile. *)

TileCalls == CubeCalls \cup SourceCalls

(* What is left to do for tile t when n of its source tiles are drawn, and *)
(* what is drawn then.                                                     *)
Remaining(t, n) ==
  [i \in 1..(Len(Covers[t]) - n + 2) |->
     IF i <= Len(Covers[t]) - n THEN Do("draw", Covers[t][n + i])
     ELSE IF i = Len(Covers[t]) - n + 1 THEN Do("rendered", t) ELSE Do("handOut", t)]
DrawnFor(t, n) == rendering.drawn = [i \in 1..n |-> <<Covers[t][i], version>>]

ToDraw(b, t, n) == b = Remaining(t, n) /\ DrawnFor(t, n)
ToLoad(b, t, n, s) ==
  /\ n < Len(Covers[t]) /\ s = Covers[t][n + 1] /\ DrawnFor(t, n)
  /\ b = <<Do("load", s)>> \o (<<Do("drawn", s)>> \o Remaining(t, n + 1))
Loaded(b, t, n, s) ==
  /\ n < Len(Covers[t]) /\ s = Covers[t][n + 1] /\ DrawnFor(t, n)
  /\ b = <<Do("drawn", s)>> \o Remaining(t, n + 1)
  /\ content[info[s]] = <<s, version>>
ToFind(b, t) == b = <<Do("find", t)>> /\ rendering = NotRendering
ToHandOut(b, t) ==
  b = <<Do("handOut", t)>> /\ rendering = NotRendering /\ content[info[t]] = Made(t, version)

Base(b) ==
  \/ b = <<>> /\ rendering = NotRendering
  \/ \E t \in CubeTiles :
       \/ ToFind(b, t) \/ ToHandOut(b, t)
       \/ \E n \in 0..Len(Covers[t]) : \/ ToDraw(b, t, n)
                                       \/ \E s \in SourceTiles : ToLoad(b, t, n, s) \/ Loaded(b, t, n, s)

Layered(s) == \E d \in Seq(DropCalls(created)), b \in Seq(TileCalls) : s = d \o b /\ Base(b)
ShapeInv == Layered(calls)

LEMMA CallKinds ==
  /\ \A A : \A x \in DropCalls(A) : x.do \in {"drop", "tell", "giveBack"}
  /\ \A x \in TileCalls : x.do \notin {"drop", "tell", "giveBack"}
  /\ \A t \in CubeTiles, what \in {"find", "rendered", "handOut"} : Do(what, t) \in TileCalls
  /\ \A s \in SourceTiles, what \in {"draw", "load", "drawn"} : Do(what, s) \in TileCalls
<1>1. \A A : \A x \in DropCalls(A) : x.do \in {"drop", "tell", "giveBack"}
  BY DEF DropCalls
<1>2. \A x \in TileCalls : x.do \notin {"drop", "tell", "giveBack"}
  BY DEF TileCalls, CubeCalls, SourceCalls
<1>3. \A t \in CubeTiles, what \in {"find", "rendered", "handOut"} : Do(what, t) \in TileCalls
  BY DEF TileCalls, CubeCalls, Do
<1>4. \A s \in SourceTiles, what \in {"draw", "load", "drawn"} : Do(what, s) \in TileCalls
  BY DEF TileCalls, SourceCalls, Do
<1> QED BY <1>1, <1>2, <1>3, <1>4

LEMMA CoversTyped ==
  ASSUME NEW t \in CubeTiles
  PROVE  /\ Covers[t] \in Seq(SourceTiles) /\ Len(Covers[t]) \in Nat
         /\ DOMAIN Covers[t] = 1..Len(Covers[t])
         /\ \A i \in 1..Len(Covers[t]) : Covers[t][i] \in SourceTiles
<1>1. Covers[t] \in Seq(SourceTiles)
  BY TileAssumption
<1> QED BY <1>1

(* Functions over equal intervals are equal if their values are.           *)
LEMMA SameSequence ==
  ASSUME NEW A, NEW s \in Seq(A), NEW B, NEW t \in Seq(B), Len(s) = Len(t),
         \A i \in 1..Len(s) : s[i] = t[i]
  PROVE  s = t
OBVIOUS

LEMMA RemainingTyped ==
  ASSUME NEW t \in CubeTiles, NEW n \in 0..(Len(Covers[t]) + 1)
  PROVE  /\ Remaining(t, n) \in Seq(TileCalls) /\ Len(Remaining(t, n)) = Len(Covers[t]) - n + 2
         /\ \A i \in 1..(Len(Covers[t]) - n + 2) :
              Remaining(t, n)[i] = IF i <= Len(Covers[t]) - n THEN Do("draw", Covers[t][n + i])
                                   ELSE IF i = Len(Covers[t]) - n + 1 THEN Do("rendered", t)
                                   ELSE Do("handOut", t)
<1>1. PICK m \in Nat : m = Len(Covers[t])
  BY CoversTyped
<1>2. m - n + 2 \in Nat /\ n \in Nat /\ n <= m + 1
  BY <1>1
<1>3. ASSUME NEW i \in 1..(m - n + 2)
      PROVE  (IF i <= m - n THEN Do("draw", Covers[t][n + i])
              ELSE IF i = m - n + 1 THEN Do("rendered", t) ELSE Do("handOut", t)) \in TileCalls
  <2>1. CASE i <= m - n
    <3>1. n + i \in 1..m
      BY <1>2, <2>1
    <3>2. Covers[t][n + i] \in SourceTiles
      BY <1>1, <3>1, CoversTyped
    <3> QED BY <2>1, <3>2, CallKinds
  <2>2. CASE ~(i <= m - n)
    <3>1. Do("rendered", t) \in TileCalls /\ Do("handOut", t) \in TileCalls
      BY CallKinds
    <3> QED BY <2>2, <3>1
  <2> QED BY <2>1, <2>2
<1>4. Remaining(t, n) = [i \in 1..(m - n + 2) |->
                           IF i <= m - n THEN Do("draw", Covers[t][n + i])
                           ELSE IF i = m - n + 1 THEN Do("rendered", t) ELSE Do("handOut", t)]
  BY <1>1 DEF Remaining
<1>5. Remaining(t, n) \in Seq(TileCalls) /\ Len(Remaining(t, n)) = m - n + 2
  BY <1>2, <1>3, <1>4
<1>6. \A i \in 1..(m - n + 2) :
        Remaining(t, n)[i] = IF i <= m - n THEN Do("draw", Covers[t][n + i])
                             ELSE IF i = m - n + 1 THEN Do("rendered", t) ELSE Do("handOut", t)
  BY <1>4
<1> QED BY <1>1, <1>5, <1>6

LEMMA RemainingTop ==
  ASSUME NEW t \in CubeTiles, NEW n \in 0..Len(Covers[t])
  PROVE  /\ Remaining(t, n) # <<>>
         /\ Head(Remaining(t, n)) = IF n < Len(Covers[t]) THEN Do("draw", Covers[t][n + 1]) ELSE Do("rendered", t)
         /\ Tail(Remaining(t, n)) = Remaining(t, n + 1)
         /\ n = Len(Covers[t]) => Remaining(t, n + 1) = <<Do("handOut", t)>>
<1>1. PICK m \in Nat : m = Len(Covers[t])
  BY CoversTyped
<1>2. PICK r : r = Remaining(t, n)
  OBVIOUS
<1>3. PICK q : q = Remaining(t, n + 1)
  OBVIOUS
<1>4. n \in Nat /\ n <= m /\ n \in 0..(m + 1) /\ n + 1 \in 0..(m + 1)
  BY <1>1
<1>5. /\ r \in Seq(TileCalls) /\ Len(r) = m - n + 2
      /\ \A i \in 1..(m - n + 2) :
           r[i] = IF i <= m - n THEN Do("draw", Covers[t][n + i])
                  ELSE IF i = m - n + 1 THEN Do("rendered", t) ELSE Do("handOut", t)
  BY <1>1, <1>2, <1>4, RemainingTyped
<1>6. /\ q \in Seq(TileCalls) /\ Len(q) = m - (n + 1) + 2
      /\ \A i \in 1..(m - (n + 1) + 2) :
           q[i] = IF i <= m - (n + 1) THEN Do("draw", Covers[t][(n + 1) + i])
                  ELSE IF i = m - (n + 1) + 1 THEN Do("rendered", t) ELSE Do("handOut", t)
  BY <1>1, <1>3, <1>4, RemainingTyped
<1>7. r # <<>> /\ Head(r) = r[1] /\ 1 \in 1..(m - n + 2)
  BY <1>4, <1>5
<1>8. Head(r) = IF n < m THEN Do("draw", Covers[t][n + 1]) ELSE Do("rendered", t)
  BY <1>4, <1>5, <1>7
<1>9. Tail(r) = q
  <2>1. Tail(r) \in Seq(TileCalls) /\ Len(Tail(r)) = m - n + 1 /\ \A i \in 1..(m - n + 1) : Tail(r)[i] = r[i + 1]
    BY <1>4, <1>5, <1>7
  <2>2. ASSUME NEW i \in 1..(m - n + 1) PROVE Tail(r)[i] = q[i]
    <3>1. i + 1 \in 1..(m - n + 2) /\ i \in 1..(m - (n + 1) + 2)
      BY <1>4
    <3>2. (i + 1 <= m - n <=> i <= m - (n + 1)) /\ (i + 1 = m - n + 1 <=> i = m - (n + 1) + 1) /\ n + (i + 1) = (n + 1) + i
      BY <1>4
    <3>3. r[i + 1] = q[i]
      BY <1>5, <1>6, <3>1, <3>2
    <3> QED BY <2>1, <3>3
  <2>3. Len(q) = m - n + 1
    BY <1>4, <1>6
  <2> QED BY <1>6, <2>1, <2>2, <2>3, SameSequence
<1>10. ASSUME n = m PROVE q = <<Do("handOut", t)>>
  <2>1. Len(q) = 1 /\ 1 \in 1..(m - (n + 1) + 2)
    BY <1>4, <1>6, <1>10
  <2>2. q[1] = Do("handOut", t)
    BY <1>4, <1>6, <1>10, <2>1
  <2>3. <<Do("handOut", t)>> \in Seq({Do("handOut", t)})
    BY OneElement
  <2> QED BY <1>6, <2>1, <2>2, <2>3, SameSequence
<1> QED BY <1>1, <1>2, <1>3, <1>7, <1>8, <1>9, <1>10

(* The call that is made, and what is below it.                            *)
LEMMA LayeredTop ==
  ASSUME ShapeInv, calls # <<>>
  PROVE  \/ Head(calls) \in DropCalls(created) /\ Layered(Tail(calls))
         \/ calls \in Seq(TileCalls) /\ Base(calls) /\ Head(calls) \in TileCalls
<1>1. PICK d \in Seq(DropCalls(created)), b \in Seq(TileCalls) : calls = d \o b /\ Base(b)
  BY DEF ShapeInv, Layered
<1>2. CASE d = <<>>
  <2>1. calls = b
    BY <1>1, <1>2
  <2>2. Head(calls) \in TileCalls
    BY <2>1
  <2> QED BY <1>1, <2>1, <2>2
<1>3. CASE d # <<>>
  <2>1. PICK A : A = DropCalls(created) \cup TileCalls
    OBVIOUS
  <2>2. d \in Seq(A) /\ b \in Seq(A)
    BY <2>1, SeqGrows
  <2>3. PICK x : x = Head(d)
    OBVIOUS
  <2>4. PICK r : r = Tail(d)
    OBVIOUS
  <2>5. x \in DropCalls(created) /\ r \in Seq(DropCalls(created)) /\ r \in Seq(A) /\ x \in A
    BY <1>3, <2>1, <2>2, <2>3, <2>4, ElementsTail
  <2>6. calls = <<x>> \o (r \o b)
    BY <1>1, <1>3, <2>2, <2>3, <2>4, ConcatHead
  <2>7. r \o b \in Seq(A)
    BY <2>2, <2>5, ElementsConcat
  <2>8. Head(calls) = x /\ Tail(calls) = r \o b
    BY <2>5, <2>6, <2>7, Pushing
  <2> QED BY <1>1, <2>5, <2>8 DEF Layered
<1> QED BY <1>2, <1>3

(* What is on the stack below the textures that are let go.                *)
AfterDraw(s) ==
  \E t \in CubeTiles : \E n \in 0..Len(Covers[t]) :
    /\ n < Len(Covers[t]) /\ s = Covers[t][n + 1] /\ DrawnFor(t, n)
    /\ Tail(calls) = Remaining(t, n + 1)
AfterLoad(s) ==
  \E t \in CubeTiles : \E n \in 0..Len(Covers[t]) :
    /\ n < Len(Covers[t]) /\ s = Covers[t][n + 1] /\ DrawnFor(t, n)
    /\ Tail(calls) = <<Do("drawn", s)>> \o Remaining(t, n + 1)
AfterDrawn(s) == AfterDraw(s) /\ content[info[s]] = <<s, version>>
AfterRendered(t) ==
  DrawnFor(t, Len(Covers[t])) /\ Tail(calls) = <<Do("handOut", t)>>
AfterHandOut(t) ==
  rendering = NotRendering /\ Tail(calls) = <<>> /\ content[info[t]] = Made(t, version)

LEMMA BaseTop ==
  ASSUME Base(calls), calls # <<>>
  PROVE  \/ \E t \in CubeTiles : Head(calls) = Do("find", t) /\ Tail(calls) = <<>> /\ rendering = NotRendering
         \/ \E s \in SourceTiles : Head(calls) = Do("draw", s) /\ AfterDraw(s)
         \/ \E s \in SourceTiles : Head(calls) = Do("load", s) /\ AfterLoad(s)
         \/ \E s \in SourceTiles : Head(calls) = Do("drawn", s) /\ AfterDrawn(s)
         \/ \E t \in CubeTiles : Head(calls) = Do("rendered", t) /\ AfterRendered(t)
         \/ \E t \in CubeTiles : Head(calls) = Do("handOut", t) /\ AfterHandOut(t)
<1>1. PICK t \in CubeTiles :
        \/ ToFind(calls, t) \/ ToHandOut(calls, t)
        \/ \E n \in 0..Len(Covers[t]) :
             \/ ToDraw(calls, t, n)
             \/ \E s \in SourceTiles : ToLoad(calls, t, n, s) \/ Loaded(calls, t, n, s)
  BY DEF Base
<1>2. \A x : <<x>> # <<>> /\ Head(<<x>>) = x /\ Tail(<<x>>) = <<>>
  OBVIOUS
<1>3. CASE ToFind(calls, t)
  BY <1>2, <1>3 DEF ToFind
<1>4. CASE ToHandOut(calls, t)
  BY <1>2, <1>4 DEF ToHandOut, AfterHandOut
<1>5. ASSUME NEW n \in 0..Len(Covers[t]), ToDraw(calls, t, n)
      PROVE  \/ \E s \in SourceTiles : Head(calls) = Do("draw", s) /\ AfterDraw(s)
             \/ Head(calls) = Do("rendered", t) /\ AfterRendered(t)
  <2>1. /\ Head(calls) = IF n < Len(Covers[t]) THEN Do("draw", Covers[t][n + 1]) ELSE Do("rendered", t)
        /\ Tail(calls) = Remaining(t, n + 1) /\ DrawnFor(t, n)
        /\ n = Len(Covers[t]) => Remaining(t, n + 1) = <<Do("handOut", t)>>
    BY <1>5, RemainingTop DEF ToDraw
  <2>2. CASE n < Len(Covers[t])
    <3>1. PICK s : s = Covers[t][n + 1]
      OBVIOUS
    <3>2. s \in SourceTiles
      <4>1. n + 1 \in 1..Len(Covers[t])
        BY <2>2, CoversTyped
      <4> QED BY <3>1, <4>1, CoversTyped
    <3>3. AfterDraw(s)
      BY <2>1, <2>2, <3>1 DEF AfterDraw
    <3> QED BY <2>1, <2>2, <3>1, <3>2, <3>3
  <2>3. CASE ~(n < Len(Covers[t]))
    <3>1. n = Len(Covers[t])
      BY <2>3, CoversTyped
    <3> QED BY <2>1, <2>3, <3>1 DEF AfterRendered
  <2> QED BY <2>2, <2>3
<1>6. ASSUME NEW n \in 0..Len(Covers[t]), n < Len(Covers[t])
      PROVE  Remaining(t, n + 1) \in Seq(TileCalls)
  <2>1. n + 1 \in 0..(Len(Covers[t]) + 1)
    BY <1>6, CoversTyped
  <2> QED BY <2>1, RemainingTyped
<1>7. ASSUME NEW n \in 0..Len(Covers[t]), NEW s \in SourceTiles, ToLoad(calls, t, n, s)
      PROVE  Head(calls) = Do("load", s) /\ AfterLoad(s)
  <2>1. PICK x : x = Do("load", s)
    OBVIOUS
  <2>2. PICK y : y = Do("drawn", s)
    OBVIOUS
  <2>3. PICK r : r = Remaining(t, n + 1)
    OBVIOUS
  <2>4. PICK q : q = <<y>> \o r
    OBVIOUS
  <2>5. x \in TileCalls /\ y \in TileCalls
    BY <2>1, <2>2, CallKinds
  <2>6. r \in Seq(TileCalls) /\ n < Len(Covers[t])
    BY <1>6, <1>7, <2>3 DEF ToLoad
  <2>7. q \in Seq(TileCalls)
    BY <2>4, <2>5, <2>6, Pushing
  <2>8. calls = <<x>> \o q
    BY <1>7, <2>1, <2>2, <2>3, <2>4 DEF ToLoad
  <2>9. Head(calls) = x /\ Tail(calls) = q
    BY <2>5, <2>7, <2>8, Pushing
  <2>10. AfterLoad(s)
    BY <1>7, <2>2, <2>3, <2>4, <2>9 DEF AfterLoad, ToLoad
  <2> QED BY <2>1, <2>9, <2>10
<1>8. ASSUME NEW n \in 0..Len(Covers[t]), NEW s \in SourceTiles, Loaded(calls, t, n, s)
      PROVE  Head(calls) = Do("drawn", s) /\ AfterDrawn(s)
  <2>1. PICK y : y = Do("drawn", s)
    OBVIOUS
  <2>2. PICK r : r = Remaining(t, n + 1)
    OBVIOUS
  <2>3. y \in TileCalls
    BY <2>1, CallKinds
  <2>4. r \in Seq(TileCalls)
    BY <1>6, <1>8, <2>2 DEF Loaded
  <2>5. calls = <<y>> \o r
    BY <1>8, <2>1, <2>2 DEF Loaded
  <2>6. Head(calls) = y /\ Tail(calls) = r
    BY <2>3, <2>4, <2>5, Pushing
  <2>7. AfterDraw(s)
    BY <1>8, <2>2, <2>6 DEF AfterDraw, Loaded
  <2> QED BY <1>8, <2>1, <2>6, <2>7 DEF AfterDrawn, Loaded
<1> QED BY <1>1, <1>3, <1>4, <1>5, <1>7, <1>8

(* What each call finds below it.                                          *)
LEMMA ShapeTop ==
  ASSUME ShapeInv, calls # <<>>
  PROVE  /\ Head(calls).do \in {"drop", "tell", "giveBack"} => Layered(Tail(calls))
         /\ Head(calls).do \notin {"drop", "tell", "giveBack"} => calls \in Seq(TileCalls)
         /\ Head(calls).do = "find" => Tail(calls) = <<>> /\ rendering = NotRendering
         /\ Head(calls).do = "draw" => AfterDraw(On)
         /\ Head(calls).do = "load" => AfterLoad(On)
         /\ Head(calls).do = "drawn" => AfterDrawn(On)
         /\ Head(calls).do = "rendered" => AfterRendered(On)
         /\ Head(calls).do = "handOut" => AfterHandOut(On)
<1>1. \A what, y : Do(what, y).do = what /\ Do(what, y).on = y
  BY DEF Do
<1>2. CASE Head(calls) \in DropCalls(created) /\ Layered(Tail(calls))
  <2>1. Head(calls).do \in {"drop", "tell", "giveBack"}
    BY <1>2, CallKinds
  <2> QED BY <1>2, <2>1
<1>3. CASE calls \in Seq(TileCalls) /\ Base(calls) /\ Head(calls) \in TileCalls
  <2>1. Head(calls).do \notin {"drop", "tell", "giveBack"}
    BY <1>3, CallKinds
  <2>2. CASE \E t \in CubeTiles : Head(calls) = Do("find", t) /\ Tail(calls) = <<>> /\ rendering = NotRendering
    BY <1>1, <1>3, <2>1, <2>2
  <2>3. CASE \E s \in SourceTiles : Head(calls) = Do("draw", s) /\ AfterDraw(s)
    BY <1>1, <1>3, <2>1, <2>3 DEF On
  <2>4. CASE \E s \in SourceTiles : Head(calls) = Do("load", s) /\ AfterLoad(s)
    BY <1>1, <1>3, <2>1, <2>4 DEF On
  <2>5. CASE \E s \in SourceTiles : Head(calls) = Do("drawn", s) /\ AfterDrawn(s)
    BY <1>1, <1>3, <2>1, <2>5 DEF On
  <2>6. CASE \E t \in CubeTiles : Head(calls) = Do("rendered", t) /\ AfterRendered(t)
    BY <1>1, <1>3, <2>1, <2>6 DEF On
  <2>7. CASE \E t \in CubeTiles : Head(calls) = Do("handOut", t) /\ AfterHandOut(t)
    BY <1>1, <1>3, <2>1, <2>7 DEF On
  <2> QED BY <1>3, <2>2, <2>3, <2>4, <2>5, <2>6, <2>7, BaseTop
<1> QED BY <1>2, <1>3, LayeredTop

(* The calls that a tile makes.                                            *)
LEMMA FindCalls ==
  ASSUME IInv, Find
  PROVE  /\ calls' = IF OutOfDate(On) THEN Remaining(On, 0) ELSE <<Do("handOut", On)>>
         /\ calls' \in Seq(TileCalls)
<1>1. On \in CubeTiles /\ Tail(calls) = <<>>
  BY FindBelow
<1>2. PICK t \in CubeTiles : t = On
  BY <1>1
<1>3. PICK m \in Nat : m = Len(Covers[t]) /\ DOMAIN Covers[t] = 1..m
  BY CoversTyped
<1>4. PICK draws : draws = [i \in DOMAIN Covers[t] |-> Do("draw", Covers[t][i])]
  OBVIOUS
<1>5. PICK last : last = <<Do("rendered", t)>>
  OBVIOUS
<1>6. PICK out : out = <<Do("handOut", t)>>
  OBVIOUS
<1>7. calls' = ((IF OutOfDate(On) THEN draws \o last ELSE <<>>) \o out) \o <<>>
  BY <1>1, <1>2, <1>4, <1>5, <1>6 DEF Find, Continue
<1>8. Do("rendered", t) \in TileCalls /\ Do("handOut", t) \in TileCalls
  BY CallKinds
<1>9. last \in Seq(TileCalls) /\ out \in Seq(TileCalls) /\ <<>> \in Seq(TileCalls)
  BY <1>5, <1>6, <1>8
<1>10. Len(last) = 1 /\ last[1] = Do("rendered", t) /\ Len(out) = 1 /\ out[1] = Do("handOut", t)
  BY <1>5, <1>6
<1>11. draws \in Seq(TileCalls) /\ Len(draws) = m /\ \A i \in 1..m : draws[i] = Do("draw", Covers[t][i])
  <2>1. \A i \in 1..m : Do("draw", Covers[t][i]) \in TileCalls
    BY <1>3, CoversTyped, CallKinds
  <2>2. draws = [i \in 1..m |-> Do("draw", Covers[t][i])]
    BY <1>3, <1>4
  <2> QED BY <2>1, <2>2
<1>12. CASE ~OutOfDate(On)
  <2>1. calls' = (<<>> \o out) \o <<>>
    BY <1>7, <1>12
  <2>2. calls' = out
    BY <1>9, <2>1
  <2> QED BY <1>2, <1>6, <1>9, <1>12, <2>2
<1>13. CASE OutOfDate(On)
  <2>1. PICK c : c = draws \o last
    OBVIOUS
  <2>2. /\ c \in Seq(TileCalls) /\ Len(c) = m + 1
        /\ \A i \in 1..(m + 1) : c[i] = IF i <= m THEN draws[i] ELSE last[i - m]
    <3>1. /\ c \in Seq(TileCalls) /\ Len(c) = Len(draws) + Len(last)
          /\ \A i \in 1..(Len(draws) + Len(last)) :
               c[i] = IF i <= Len(draws) THEN draws[i] ELSE last[i - Len(draws)]
      BY <1>9, <1>11, <2>1, ConcatAt
    <3>2. Len(draws) = m /\ Len(last) = 1
      BY <1>10, <1>11
    <3> QED BY <3>1, <3>2
  <2>3. PICK q : q = c \o out
    OBVIOUS
  <2>4. /\ q \in Seq(TileCalls) /\ Len(q) = m + 2
        /\ \A i \in 1..(m + 2) : q[i] = IF i <= m + 1 THEN c[i] ELSE out[i - (m + 1)]
    <3>1. /\ q \in Seq(TileCalls) /\ Len(q) = Len(c) + Len(out)
          /\ \A i \in 1..(Len(c) + Len(out)) :
               q[i] = IF i <= Len(c) THEN c[i] ELSE out[i - Len(c)]
      BY <1>9, <2>2, <2>3, ConcatAt
    <3>2. Len(c) = m + 1 /\ Len(out) = 1 /\ (m + 1) + 1 = m + 2
      BY <1>10, <2>2
    <3> QED BY <3>1, <3>2
  <2>5. calls' = q
    <3>1. calls' = q \o <<>>
      BY <1>7, <1>13, <2>1, <2>3
    <3> QED BY <2>4, <3>1
  <2>6. /\ Remaining(t, 0) \in Seq(TileCalls) /\ Len(Remaining(t, 0)) = m - 0 + 2
        /\ \A i \in 1..(m - 0 + 2) :
             Remaining(t, 0)[i] = IF i <= m - 0 THEN Do("draw", Covers[t][0 + i])
                                  ELSE IF i = m - 0 + 1 THEN Do("rendered", t)
                                  ELSE Do("handOut", t)
    BY <1>3, RemainingTyped
  <2>7. ASSUME NEW i \in 1..(m + 2) PROVE q[i] = Remaining(t, 0)[i]
    <3>1. m - 0 = m /\ 0 + i = i /\ i \in 1..(m - 0 + 2)
      OBVIOUS
    <3>2. CASE i <= m
      <4>1. i \in 1..m /\ i \in 1..(m + 1) /\ i <= m + 1
        BY <3>2
      <4> QED BY <1>11, <2>2, <2>4, <2>6, <3>1, <3>2, <4>1
    <3>3. CASE i = m + 1
      <4>1. i \in 1..(m + 1) /\ i <= m + 1 /\ ~(i <= m) /\ i - m = 1
        BY <3>3
      <4> QED BY <1>10, <2>2, <2>4, <2>6, <3>1, <3>3, <4>1
    <3>4. CASE i = m + 2
      <4>1. ~(i <= m + 1) /\ ~(i <= m) /\ i # m + 1 /\ i - (m + 1) = 1
        BY <3>4
      <4> QED BY <1>10, <2>4, <2>6, <3>1, <4>1
    <3> QED BY <3>2, <3>3, <3>4
  <2>8. q = Remaining(t, 0)
    <3>1. Len(Remaining(t, 0)) = m + 2
      BY <2>6
    <3> QED BY <2>4, <2>6, <2>7, <3>1, SameSequence
  <2> QED BY <1>2, <1>13, <2>4, <2>5, <2>8
<1> QED BY <1>12, <1>13

LEMMA DrawCalls ==
  ASSUME IInv, ShapeInv, Draw
  PROVE  /\ calls' = IF OutOfDate(On) THEN <<Do("load", On)>> \o (<<Do("drawn", On)>> \o Tail(calls))
                     ELSE <<Do("drawn", On)>> \o Tail(calls)
         /\ Tail(calls) \in Seq(TileCalls) /\ calls' \in Seq(TileCalls) /\ AfterDraw(On)
<1>1. calls # <<>> /\ Head(calls).do = "draw"
  BY DEF Draw, Doing
<1>2. On \in SourceTiles
  BY DrawBelow
<1>3. calls \in Seq(TileCalls) /\ AfterDraw(On)
  BY <1>1, ShapeTop
<1>4. PICK r : r = Tail(calls)
  OBVIOUS
<1>5. r \in Seq(TileCalls)
  BY <1>1, <1>3, <1>4, ElementsTail
<1>6. PICK x : x = Do("load", On)
  OBVIOUS
<1>7. PICK y : y = Do("drawn", On)
  OBVIOUS
<1>8. x \in TileCalls /\ y \in TileCalls
  BY <1>2, <1>6, <1>7, CallKinds
<1>9. <<x>> \in Seq(TileCalls) /\ <<y>> \in Seq(TileCalls) /\ <<>> \in Seq(TileCalls)
  BY <1>8
<1>10. PICK q : q = <<y>> \o r
  OBVIOUS
<1>11. q \in Seq(TileCalls)
  BY <1>5, <1>8, <1>10, Pushing
<1>12. calls' = ((IF OutOfDate(On) THEN <<x>> ELSE <<>>) \o <<y>>) \o r
  BY <1>4, <1>6, <1>7 DEF Draw, Continue
<1>13. CASE OutOfDate(On)
  <2>1. calls' = (<<x>> \o <<y>>) \o r
    BY <1>12, <1>13
  <2>2. calls' = <<x>> \o q
    BY <1>5, <1>9, <1>10, <2>1, ConcatAssociates
  <2>3. calls' \in Seq(TileCalls)
    BY <1>8, <1>11, <2>2, Pushing
  <2> QED BY <1>3, <1>4, <1>5, <1>6, <1>7, <1>10, <1>13, <2>2, <2>3
<1>14. CASE ~OutOfDate(On)
  <2>1. calls' = (<<>> \o <<y>>) \o r
    BY <1>12, <1>14
  <2>2. <<>> \o <<y>> = <<y>>
    BY <1>9
  <2> QED BY <1>3, <1>4, <1>5, <1>7, <1>10, <1>11, <1>14, <2>1, <2>2
<1> QED BY <1>13, <1>14
-----------------------------------------------------------------------------
(* Which textures are in use. *)

(* A texture that nobody refers to is in the list of its cache, or a call  *)
(* is about to return it; one that is referred to is not.                  *)
Returning(x) == Tally(calls, {Do("giveBack", x)})
Unheld(x) == x \in created /\ refs[x] = 0 /\ x \notin Idling(CacheOf[x])
UseInv ==
  /\ UnusedOnce
  /\ \A x \in Objects :
       /\ x \notin created => refs[x] = 0
       /\ x \in Idling(CacheOf[x]) => refs[x] = 0
       /\ Returning(x) = IF Unheld(x) THEN 1 ELSE 0

(* Who refers to a texture.                                                *)
LEMMA PlacesSome ==
  ASSUME NEW F, NEW x, IsFiniteSet(Places(F, x))
  PROVE  Cardinality(Places(F, x)) > 0 <=> \E k \in DOMAIN F : x \in Elements(F[k])
<1>1. Cardinality(Places(F, x)) \in Nat /\ (Cardinality(Places(F, x)) = 0 <=> Places(F, x) = {})
  BY FS_CardinalityType, FS_EmptySet
<1>2. Places(F, x) # {} <=> \E k \in DOMAIN F : x \in Elements(F[k])
  <2>1. ASSUME NEW k \in DOMAIN F, x \in Elements(F[k]) PROVE Places(F, x) # {}
    <3>1. PICK j \in DOMAIN F[k] : F[k][j] = x
      BY <2>1 DEF Elements
    <3>2. <<k, j>> \in Row(k, F[k], x)
      BY <3>1 DEF Row
    <3> QED BY <3>2 DEF Places
  <2>2. ASSUME Places(F, x) # {} PROVE \E k \in DOMAIN F : x \in Elements(F[k])
    <3>1. PICK k \in DOMAIN F : Row(k, F[k], x) # {}
      BY <2>2 DEF Places
    <3>2. PICK j \in DOMAIN F[k] : F[k][j] = x
      BY <3>1 DEF Row
    <3> QED BY <3>2 DEF Elements
  <2> QED BY <2>1, <2>2
<1> QED BY <1>1, <1>2

LEMMA ReferredTo ==
  ASSUME IInv, RefsInv, NEW x \in Objects
  PROVE  /\ refs[x] \in Nat
         /\ refs[x] > 0 <=> \/ \E i \in DOMAIN handles : x \in Elements(Holds(handles[i]))
                            \/ \E o \in Objects : x \in Elements(sources[o])
                            \/ x \in Elements(rendering.kept)
                            \/ \E y \in Elements(calls) : y \in Owed(x, info)
<1>1. InHandles(x) > 0 <=> \E i \in DOMAIN handles : x \in Elements(Holds(handles[i]))
  <2>1. PICK F : F = HandleHolds
    OBVIOUS
  <2>2. DOMAIN F = DOMAIN handles /\ \A i \in DOMAIN handles : F[i] = Holds(handles[i])
    BY <2>1 DEF HandleHolds
  <2>3. Cardinality(Places(F, x)) > 0 <=> \E k \in DOMAIN F : x \in Elements(F[k])
    BY <2>1, PlacesSome DEF RefsInv
  <2> QED BY <2>1, <2>2, <2>3 DEF InHandles
<1>2. InSources(x) > 0 <=> \E o \in Objects : x \in Elements(sources[o])
  <2>1. PICK F : F = sources
    OBVIOUS
  <2>2. DOMAIN F = Objects
    BY <2>1 DEF IInv, KeptTyped
  <2>3. Cardinality(Places(F, x)) > 0 <=> \E k \in DOMAIN F : x \in Elements(F[k])
    BY <2>1, PlacesSome DEF RefsInv
  <2> QED BY <2>1, <2>2, <2>3 DEF InSources
<1>3. InRendering(x) > 0 <=> x \in Elements(rendering.kept)
  <2>1. rendering.kept \in Seq(created)
    BY DEF IInv, KeptTyped
  <2>2. (\E y \in Elements(rendering.kept) : y \in {x}) <=> Tally(rendering.kept, {x}) > 0
    BY <2>1, TallySome
  <2> QED BY <2>2 DEF InRendering
<1>4. InCalls(x) > 0 <=> \E y \in Elements(calls) : y \in Owed(x, info)
  <2>1. calls \in Seq(Entries(Objects))
    BY EntriesExist
  <2> QED BY <2>1, TallySome DEF InCalls
<1>5. /\ InHandles(x) \in Nat /\ InSources(x) \in Nat /\ InRendering(x) \in Nat /\ InCalls(x) \in Nat
      /\ refs[x] = InHandles(x) + InSources(x) + InRendering(x) + InCalls(x) /\ refs[x] \in Nat
  BY CountsTyped DEF RefsInv
<1>6. refs[x] > 0 <=> InHandles(x) > 0 \/ InSources(x) > 0 \/ InRendering(x) > 0 \/ InCalls(x) > 0
  BY <1>5
<1> QED BY <1>1, <1>2, <1>3, <1>4, <1>5, <1>6

(* How many calls return x, before and after a step.                       *)
LEMMA ReturnsCounted ==
  ASSUME IInv, calls # <<>>, NEW e \in Seq(Entries(Objects)), Continue(e), NEW x
  PROVE  \E n \in Nat :
           /\ Returning(x) = n + IF Head(calls).do = "giveBack" /\ On = x THEN 1 ELSE 0
           /\ Returning(x)' = Tally(e, {Do("giveBack", x)}) + n
<1>1. calls \in Seq(Entries(Objects))
  BY EntriesExist
<1>2. PICK t : t = Tail(calls)
  OBVIOUS
<1>3. Head(calls) \in Entries(Objects) /\ t \in Seq(Entries(Objects))
  BY <1>1, <1>2, ElementsTail
<1>4. PICK n : n = Tally(t, {Do("giveBack", x)})
  OBVIOUS
<1>5. n \in Nat /\ Returning(x) = n + IF Head(calls) \in {Do("giveBack", x)} THEN 1 ELSE 0
  BY <1>1, <1>2, <1>4, TallyTail DEF Returning
<1>6. Head(calls) = Do("giveBack", x) <=> Head(calls).do = "giveBack" /\ On = x
  BY <1>3 DEF Entries, DropCalls, CubeCalls, SourceCalls, Do, On
<1>7. Tally(e \o t, {Do("giveBack", x)}) = Tally(e, {Do("giveBack", x)}) + Tally(t, {Do("giveBack", x)})
  BY <1>3, TallyConcat
<1>8. Returning(x)' = Tally(e, {Do("giveBack", x)}) + n
  BY <1>2, <1>4, <1>7 DEF Returning, Continue, Do
<1> QED BY <1>5, <1>6, <1>8

LEMMA ReturnsNone ==
  ASSUME NEW A, NEW s \in Seq(A), \A y \in Elements(s) : y.do # "giveBack", NEW x
  PROVE  Tally(s, {Do("giveBack", x)}) = 0
<1>1. \A y \in Elements(s) : y \notin {Do("giveBack", x)}
  BY DEF Do
<1> QED BY <1>1, TallyZero

LEMMA DropsKinds ==
  ASSUME NEW s
  PROVE  \A y \in Elements(Drops(s)) : y.do = "drop"
BY DEF Elements, Drops, Do

(* A texture is handed out when no other is about to be returned.          *)
LEMMA GivenUse ==
  ASSUME IInv, RefsInv, UseInv, NEW o \in Objects, Give(o), created' = created \cup {o},
         \A x \in Objects : Returning(x) = 0 /\ Returning(x)' = 0
  PROVE  UseInv'
<1>1. UnusedOnce' /\ \A c \in Caches : Idling(c)' = Idling(c) \ {o}
  BY GiveIdling DEF IInv, CacheInv, UseInv
<1>2. refs' = [refs EXCEPT ![o] = refs[o] + 1] /\ refs \in [Objects -> Nat]
  BY DEF Give, RefsInv
<1>3. refs[o] \in Nat /\ refs'[o] = refs[o] + 1 /\ \A x \in Objects : x # o => refs'[x] = refs[x]
  BY <1>2
<1>4. refs'[o] # 0
  BY <1>3
<1>5. ASSUME NEW x \in Objects
      PROVE  /\ x \notin created' => refs'[x] = 0
             /\ x \in Idling(CacheOf[x])' => refs'[x] = 0
             /\ Returning(x)' = IF Unheld(x)' THEN 1 ELSE 0
  <2>1. CacheOf[x] \in Caches
    BY CacheAssumption
  <2>2. /\ x \notin created => refs[x] = 0
        /\ x \in Idling(CacheOf[x]) => refs[x] = 0
        /\ Returning(x) = IF Unheld(x) THEN 1 ELSE 0
    BY DEF UseInv
  <2>3. CASE x = o
    <3>1. x \in created' /\ x \notin Idling(CacheOf[x])' /\ ~Unheld(x)'
      BY <1>1, <1>4, <2>1, <2>3 DEF Unheld
    <3> QED BY <3>1
  <2>4. CASE x # o
    <3>1. /\ x \in created' <=> x \in created
          /\ x \in Idling(CacheOf[x])' <=> x \in Idling(CacheOf[x])
          /\ refs'[x] = refs[x]
      BY <1>1, <1>3, <2>1, <2>4
    <3>2. ~Unheld(x)
      BY <2>2
    <3>3. ~Unheld(x)'
      BY <3>1, <3>2 DEF Unheld
    <3> QED BY <2>2, <3>1, <3>3
  <2> QED BY <2>3, <2>4
<1> QED BY <1>1, <1>5 DEF UseInv

(* Lists, references and calls that return textures stay as they are.      *)
LEMMA UseKept ==
  ASSUME UseInv, UNCHANGED <<created, unused>>,
         \A x \in Objects : refs'[x] = 0 <=> refs[x] = 0,
         \A x \in Objects : Returning(x)' = Returning(x)
  PROVE  UseInv'
<1>1. \A c : Idling(c)' = Idling(c)
  BY DEF Idling
<1>2. \A x \in Objects : Unheld(x)' <=> Unheld(x)
  BY <1>1 DEF Unheld
<1>3. UnusedOnce'
  BY DEF UseInv, UnusedOnce
<1> QED BY <1>1, <1>2, <1>3 DEF UseInv

LEMMA ReturningKept ==
  ASSUME IInv, calls # <<>>, Head(calls).do # "giveBack", NEW e \in Seq(Entries(Objects)), Continue(e),
         \A y \in Elements(e) : y.do # "giveBack", NEW x
  PROVE  Returning(x)' = Returning(x)
<1>1. PICK n \in Nat : Returning(x) = n /\ Returning(x)' = Tally(e, {Do("giveBack", x)}) + n
  BY ReturnsCounted
<1>2. Tally(e, {Do("giveBack", x)}) = 0
  BY ReturnsNone
<1> QED BY <1>1, <1>2

LEMMA TileCallsReturnNone ==
  ASSUME NEW s \in Seq(TileCalls), NEW x
  PROVE  Tally(s, {Do("giveBack", x)}) = 0
<1>1. \A y \in Elements(s) : y.do # "giveBack"
  BY ElementsTyped, CallKinds
<1> QED BY <1>1, ReturnsNone

LEMMA FindUse ==
  ASSUME IInv, RefsInv, ShapeInv, UseInv, Find
  PROVE  UseInv'
<1>1. On \in Volatiles /\ Acquire(On) /\ calls # <<>> /\ Head(calls).do = "find"
  BY FindBelow DEF Find, Doing
<1>2. PICK o : Obtains(On, o)
  BY <1>1, AcquireObtains DEF IInv
<1>3. o \in Objects /\ Give(o) /\ created' = created \cup {o}
  BY <1>2 DEF Obtains
<1>4. calls \in Seq(TileCalls) /\ calls' \in Seq(TileCalls)
  BY <1>1, ShapeTop, FindCalls
<1>5. \A x \in Objects : Returning(x) = 0 /\ Returning(x)' = 0
  BY <1>4, TileCallsReturnNone DEF Returning, Do
<1> QED BY <1>3, <1>5, GivenUse

LEMMA DrawUse ==
  ASSUME IInv, RefsInv, ShapeInv, UseInv, Draw
  PROVE  UseInv'
<1>1. On \in Volatiles /\ Acquire(On) /\ calls # <<>> /\ Head(calls).do = "draw"
  BY DrawBelow DEF Draw, Doing
<1>2. PICK o : Obtains(On, o)
  BY <1>1, AcquireObtains DEF IInv
<1>3. o \in Objects /\ Give(o) /\ created' = created \cup {o}
  BY <1>2 DEF Obtains
<1>4. calls \in Seq(TileCalls) /\ calls' \in Seq(TileCalls)
  BY <1>1, ShapeTop, DrawCalls
<1>5. \A x \in Objects : Returning(x) = 0 /\ Returning(x)' = 0
  BY <1>4, TileCallsReturnNone DEF Returning, Do
<1> QED BY <1>3, <1>5, GivenUse

LEMMA LoadUse ==
  ASSUME IInv, RefsInv, ShapeInv, UseInv, Load
  PROVE  UseInv'
<1>1. calls # <<>> /\ Head(calls).do = "load"
  BY DEF Load, Doing
<1>2. PICK h \in Objects : Allocate("height", h) /\ Continue(<<Do("drop", h)>>)
  BY DEF Load
<1>3. Give(h) /\ created' = created \cup {h}
  BY <1>2 DEF Allocate
<1>4. calls \in Seq(TileCalls)
  BY <1>1, ShapeTop
<1>5. PICK e : e = <<Do("drop", h)>>
  OBVIOUS
<1>6. Do("drop", h) \in Entries(Objects)
  BY TileEntries
<1>7. e \in Seq(Entries(Objects)) /\ \A y \in Elements(e) : y.do # "giveBack"
  <2>1. e \in Seq(Entries(Objects))
    BY <1>5, <1>6, OneElement
  <2>2. Elements(e) = {Do("drop", h)}
    BY <1>5 DEF Elements
  <2> QED BY <2>1, <2>2 DEF Do
<1>8. ASSUME NEW x \in Objects PROVE Returning(x) = 0 /\ Returning(x)' = 0
  <2>1. Returning(x) = 0
    BY <1>4, TileCallsReturnNone DEF Returning
  <2>2. Returning(x)' = Returning(x)
    BY <1>1, <1>2, <1>5, <1>7, ReturningKept
  <2> QED BY <2>1, <2>2
<1> QED BY <1>3, <1>8, GivenUse

(* A step whose calls only drop textures.                                  *)
LEMMA DropsUse ==
  ASSUME IInv, UseInv, UNCHANGED <<created, unused>>, calls # <<>>, Head(calls).do # "giveBack",
         NEW e \in Seq(Entries(Objects)), Continue(e), \A y \in Elements(e) : y.do # "giveBack",
         \A x \in Objects : refs'[x] = 0 <=> refs[x] = 0
  PROVE  UseInv'
<1>1. \A x \in Objects : Returning(x)' = Returning(x)
  BY ReturningKept
<1> QED BY <1>1, UseKept

LEMMA OneDrop ==
  ASSUME NEW o \in Objects, NEW e, e = <<>> \/ e = <<Do("drop", o)>>
  PROVE  e \in Seq(Entries(Objects)) /\ \A y \in Elements(e) : y.do = "drop"
<1>1. CASE e = <<>>
  BY <1>1, ElementsEmpty
<1>2. CASE e = <<Do("drop", o)>>
  <2>1. Do("drop", o) \in Entries(Objects)
    BY TileEntries
  <2>2. Elements(e) = {Do("drop", o)}
    BY <1>2 DEF Elements
  <2> QED BY <1>2, <2>1, <2>2, OneElement DEF Do
<1> QED BY <1>1, <1>2

LEMMA DrawnUse ==
  ASSUME IInv, UseInv, Drawn
  PROVE  UseInv'
<1>1. calls # <<>> /\ Head(calls).do = "drawn"
  BY DEF Drawn, Doing
<1>2. On \in SourceTiles /\ info[On] # None
  BY <1>1, TheCall DEF IInv
<1>3. PICK o \in Objects : o = info[On]
  BY <1>2, TileAssumption DEF IInv, CacheInv, CacheTyped, Tiles
<1>4. PICK e : e = IF keep["source"] THEN <<>> ELSE <<Do("drop", o)>>
  OBVIOUS
<1>5. e \in Seq(Entries(Objects)) /\ \A y \in Elements(e) : y.do = "drop"
  BY <1>4, OneDrop
<1>6. UNCHANGED <<created, unused, refs>> /\ Continue(e)
  BY <1>3, <1>4 DEF Drawn, cacheVars
<1> QED BY <1>1, <1>5, <1>6, DropsUse

LEMMA RenderedUse ==
  ASSUME IInv, UseInv, Rendered
  PROVE  UseInv'
<1>1. calls # <<>> /\ Head(calls).do = "rendered"
  BY DEF Rendered, Doing
<1>2. On \in CubeTiles /\ info[On] # None
  BY <1>1, TheCall DEF IInv
<1>3. PICK o \in Objects : o = info[On]
  BY <1>2, TileAssumption DEF IInv, CacheInv, CacheTyped, Tiles
<1>4. PICK e : e = Drops(sources[o])
  OBVIOUS
<1>5. sources[o] \in Seq(Objects)
  BY SeqGrows DEF IInv, KeptTyped, CacheInv, CacheTyped
<1>6. e \in Seq(Entries(Objects)) /\ \A y \in Elements(e) : y.do = "drop"
  BY <1>4, <1>5, DropsOwed, DropsKinds
<1>7. UNCHANGED <<created, unused, refs>> /\ Continue(e)
  BY <1>3, <1>4 DEF Rendered, cacheVars
<1> QED BY <1>1, <1>6, <1>7, DropsUse

LEMMA TellUse ==
  ASSUME IInv, UseInv, Tell
  PROVE  UseInv'
<1>1. calls # <<>> /\ Head(calls).do = "tell"
  BY DEF Tell, Doing
<1>2. PICK o \in Objects : o = On
  BY <1>1, TheCall DEF IInv, CacheInv, CacheTyped
<1>3. PICK e : e = Drops(sources[o])
  OBVIOUS
<1>4. sources[o] \in Seq(Objects)
  BY SeqGrows DEF IInv, KeptTyped, CacheInv, CacheTyped
<1>5. e \in Seq(Entries(Objects)) /\ \A y \in Elements(e) : y.do = "drop"
  BY <1>3, <1>4, DropsOwed, DropsKinds
<1>6. UNCHANGED <<created, unused, refs>> /\ Continue(e)
  BY <1>2, <1>3 DEF Tell, cacheVars
<1> QED BY <1>1, <1>5, <1>6, DropsUse

(* What a handle shares with a texture was in use already.                 *)
LEMMA HandOutUse ==
  ASSUME IInv, RefsInv, UseInv, HandOut
  PROVE  UseInv'
<1>1. calls # <<>> /\ Head(calls).do = "handOut"
  BY DEF HandOut, Doing
<1>2. On \in CubeTiles /\ info[On] # None
  BY <1>1, TheCall DEF IInv
<1>3. PICK o \in Objects : o = info[On]
  BY <1>2, TileAssumption DEF IInv, CacheInv, CacheTyped, Tiles
<1>4. PICK e : e = IF keep["cube"] THEN <<>> ELSE <<Do("drop", o)>>
  OBVIOUS
<1>5. e \in Seq(Entries(Objects)) /\ \A y \in Elements(e) : y.do = "drop"
  BY <1>4, OneDrop
<1>6. /\ UNCHANGED <<created, unused>> /\ Continue(e)
      /\ refs' = [x \in Objects |-> refs[x] + Times(x, sources[o])]
  BY <1>3, <1>4 DEF HandOut
<1>7. ASSUME NEW x \in Objects PROVE refs'[x] = 0 <=> refs[x] = 0
  <2>1. sources[o] \in Seq(created)
    BY DEF IInv, KeptTyped
  <2>2. PICK k \in Nat : k = Tally(sources[o], {x})
    BY <2>1, TallySome
  <2>3. (\E y \in Elements(sources[o]) : y \in {x}) <=> k > 0
    BY <2>1, <2>2, TallySome
  <2>4. k > 0 => x \in Elements(sources[o])
    BY <2>3
  <2>5. x \in Elements(sources[o]) => refs[x] > 0
    BY ReferredTo
  <2>6. Times(x, sources[o]) = k
    BY <2>2 DEF Times, Tally
  <2>7. PICK r \in Nat : r = refs[x]
    BY ReferredTo
  <2>8. refs'[x] = r + k
    BY <1>6, <2>6, <2>7
  <2> QED BY <2>4, <2>5, <2>7, <2>8
<1> QED BY <1>1, <1>5, <1>6, <1>7, DropsUse

(* The last of its references goes, and two calls see to it.               *)
LEMMA DropUse ==
  ASSUME IInv, RefsInv, UseInv, Drop
  PROVE  UseInv'
<1>1. calls # <<>> /\ Head(calls).do = "drop"
  BY DEF Drop, Doing
<1>2. PICK o \in Objects : o = On /\ o \in created
  BY <1>1, TheCall DEF IInv, CacheInv, CacheTyped
<1>3. PICK e : e = IF refs[o] > 1 THEN <<>> ELSE <<Do("tell", o), Do("giveBack", o)>>
  OBVIOUS
<1>4. Continue(e) /\ refs' = [refs EXCEPT ![o] = refs[o] - 1] /\ UNCHANGED <<created, unused>>
  BY <1>2, <1>3 DEF Drop
<1>5. refs \in [Objects -> Nat] /\ refs[o] \in Nat /\ refs[o] > 0
  BY <1>2, DropRefs DEF RefsInv
<1>6. refs'[o] = refs[o] - 1 /\ \A x \in Objects : x # o => refs'[x] = refs[x]
  BY <1>4, <1>5
<1>7. CASE refs[o] > 1
  <2>1. e = <<>>
    BY <1>3, <1>7
  <2>2. e \in Seq(Entries(Objects)) /\ \A y \in Elements(e) : y.do # "giveBack"
    BY <2>1, ElementsEmpty
  <2>3. refs'[o] # 0 /\ refs[o] # 0
    BY <1>5, <1>6, <1>7
  <2>4. \A x \in Objects : refs'[x] = 0 <=> refs[x] = 0
    BY <1>6, <2>3
  <2> QED BY <1>1, <1>4, <2>2, <2>4, DropsUse
<1>8. CASE ~(refs[o] > 1)
  <2>1. PICK a : a = Do("tell", o)
    OBVIOUS
  <2>2. PICK b : b = Do("giveBack", o)
    OBVIOUS
  <2>3. e = <<a, b>> /\ a \in Entries(Objects) /\ b \in Entries(Objects)
    BY <1>3, <1>8, <2>1, <2>2, TileEntries
  <2>4. e \in Seq(Entries(Objects))
    BY <2>3, TwoElements
  <2>5. refs'[o] = 0 /\ refs[o] = 1
    BY <1>5, <1>6, <1>8
  <2>6. ASSUME NEW x \in Objects
        PROVE  Returning(x)' = Returning(x) + IF x = o THEN 1 ELSE 0
    <3>1. PICK n \in Nat : Returning(x) = n /\ Returning(x)' = Tally(e, {Do("giveBack", x)}) + n
      BY <1>1, <1>4, <2>4, ReturnsCounted
    <3>2. Tally(e, {Do("giveBack", x)}) = IF x = o THEN 1 ELSE 0
      <4>1. PICK q : q = <<b>>
        OBVIOUS
      <4>2. q \in Seq(Entries(Objects))
        BY <2>3, <4>1, OneElement
      <4>3. e = <<a>> \o q
        BY <2>3, <4>1
      <4>4. Tally(e, {Do("giveBack", x)}) = Tally(q, {Do("giveBack", x)}) + IF a \in {Do("giveBack", x)} THEN 1 ELSE 0
        <5>1. PICK K : K = {Do("giveBack", x)}
          OBVIOUS
        <5>2. PICK r : r = <<a>>
          OBVIOUS
        <5>3. r \in Seq(Entries(Objects)) /\ e = r \o q
          BY <2>3, <4>3, <5>2, OneElement
        <5>4. Tally(r \o q, K) = Tally(r, K) + Tally(q, K) /\ Tally(q, K) \in Nat
          BY <4>2, <5>3, TallyConcat
        <5>5. Tally(r, K) = IF a \in K THEN 1 ELSE 0
          BY <5>2, TallySingle
        <5> QED BY <5>1, <5>3, <5>4, <5>5
      <4>5. Tally(q, {Do("giveBack", x)}) = IF b \in {Do("giveBack", x)} THEN 1 ELSE 0
        BY <4>1, TallySingle
      <4>6. a # Do("giveBack", x) /\ (b = Do("giveBack", x) <=> x = o)
        BY <2>1, <2>2 DEF Do
      <4> QED BY <4>4, <4>5, <4>6
    <3> QED BY <3>1, <3>2
  <2>7. \A c : Idling(c)' = Idling(c)
    BY <1>4 DEF Idling
  <2>8. UnusedOnce'
    BY <1>4 DEF UseInv, UnusedOnce
  <2>9. ASSUME NEW x \in Objects
        PROVE  /\ x \notin created' => refs'[x] = 0
               /\ x \in Idling(CacheOf[x])' => refs'[x] = 0
               /\ Returning(x)' = IF Unheld(x)' THEN 1 ELSE 0
    <3>1. /\ x \notin created => refs[x] = 0
          /\ x \in Idling(CacheOf[x]) => refs[x] = 0
          /\ Returning(x) = IF Unheld(x) THEN 1 ELSE 0
      BY DEF UseInv
    <3>2. CASE x = o
      <4>1. ~Unheld(x) /\ o \notin Idling(CacheOf[o])
        BY <2>5, <3>1, <3>2 DEF Unheld
      <4>2. Unheld(x)'
        BY <1>2, <1>4, <2>5, <2>7, <3>2, <4>1 DEF Unheld
      <4>3. Returning(x)' = 1
        BY <2>6, <3>1, <3>2, <4>1
      <4> QED BY <2>5, <3>2, <4>2, <4>3
    <3>3. CASE x # o
      <4>1. Unheld(x)' <=> Unheld(x)
        BY <1>4, <1>6, <2>7, <3>3 DEF Unheld
      <4>2. Returning(x)' = Returning(x)
        BY <2>6, <3>1, <3>3
      <4> QED BY <1>4, <1>6, <2>7, <3>1, <3>3, <4>1, <4>2
    <3> QED BY <3>2, <3>3
  <2> QED BY <2>8, <2>9 DEF UseInv
<1> QED BY <1>7, <1>8

(* The call that returns a texture is the only one, and puts it in its     *)
(* list once.                                                              *)
LEMMA ReturnedUse ==
  ASSUME IInv, RefsInv, UseInv, Returned
  PROVE  UseInv'
<1>1. calls # <<>> /\ Head(calls).do = "giveBack" /\ GiveBack(On)
  BY DEF Returned, Doing
<1>2. PICK o \in Objects : o = On /\ o \in created
  BY <1>1, TheCall DEF IInv, CacheInv, CacheTyped
<1>3. PICK e : e = <<>>
  OBVIOUS
<1>4. Continue(e) /\ e \in Seq(Entries(Objects))
  BY <1>3 DEF Returned
<1>5. /\ unused' = [unused EXCEPT ![CacheOf[o]] = Append(unused[CacheOf[o]], o)]
      /\ UNCHANGED <<created, refs>>
  BY <1>1, <1>2 DEF GiveBack
<1>6. ASSUME NEW x \in Objects
      PROVE  Returning(x) = Returning(x)' + (IF x = o THEN 1 ELSE 0) /\ Returning(x)' \in Nat
  <2>1. PICK n \in Nat : /\ Returning(x) = n + IF x = o THEN 1 ELSE 0
                         /\ Returning(x)' = Tally(e, {Do("giveBack", x)}) + n
    BY <1>1, <1>2, <1>4, ReturnsCounted
  <2>2. Tally(e, {Do("giveBack", x)}) = 0
    BY <1>3, TallyEmpty
  <2> QED BY <2>1, <2>2
<1>7. Returning(o) = 1 /\ Unheld(o)
  <2>1. Returning(o) = Returning(o)' + 1 /\ Returning(o)' \in Nat
    BY <1>6
  <2>2. Returning(o) = IF Unheld(o) THEN 1 ELSE 0
    BY DEF UseInv
  <2> QED BY <2>1, <2>2
<1>8. refs[o] = 0 /\ o \notin Idling(CacheOf[o]) /\ CacheOf[o] \in Caches
  BY <1>7, CacheAssumption DEF Unheld
<1>9. /\ Distinct(Append(unused[CacheOf[o]], o))
      /\ Elements(Append(unused[CacheOf[o]], o)) = Elements(unused[CacheOf[o]]) \cup {o}
  <2>1. unused[CacheOf[o]] \in Seq(created) /\ Distinct(unused[CacheOf[o]])
    BY <1>8 DEF IInv, CacheInv, CacheTyped, UseInv, UnusedOnce
  <2>2. o \notin Elements(unused[CacheOf[o]])
    BY <1>8, IdlingElements
  <2> QED BY <1>2, <2>1, <2>2, ElementsAppend
<1>10. unused \in [Caches -> Seq(created)]
  BY DEF IInv, CacheInv, CacheTyped
<1>11. UnusedOnce'
  BY <1>5, <1>9, <1>10 DEF UseInv, UnusedOnce
<1>12. ASSUME NEW c \in Caches PROVE Idling(c)' = IF c = CacheOf[o] THEN Idling(c) \cup {o} ELSE Idling(c)
  <2>1. Idling(c)' = Elements(unused'[c]) /\ Idling(c) = Elements(unused[c])
    BY DEF Idling, Elements
  <2> QED BY <1>5, <1>9, <1>10, <2>1
<1>13. ASSUME NEW x \in Objects
       PROVE  /\ x \notin created' => refs'[x] = 0
              /\ x \in Idling(CacheOf[x])' => refs'[x] = 0
              /\ Returning(x)' = IF Unheld(x)' THEN 1 ELSE 0
  <2>1. /\ x \notin created => refs[x] = 0
        /\ x \in Idling(CacheOf[x]) => refs[x] = 0
        /\ Returning(x) = IF Unheld(x) THEN 1 ELSE 0
    BY DEF UseInv
  <2>2. CacheOf[x] \in Caches
    BY CacheAssumption
  <2>3. CASE x = o
    <3>1. Returning(x)' = 0
      <4>1. Returning(o) = Returning(o)' + 1 /\ Returning(o)' \in Nat
        BY <1>6
      <4> QED BY <1>7, <2>3, <4>1
    <3>2. x \in Idling(CacheOf[x])'
      BY <1>12, <2>2, <2>3
    <3>3. ~Unheld(x)'
      BY <3>2 DEF Unheld
    <3> QED BY <1>5, <1>8, <2>3, <3>1, <3>3
  <2>4. CASE x # o
    <3>1. x \in Idling(CacheOf[x])' <=> x \in Idling(CacheOf[x])
      BY <1>12, <2>2, <2>4
    <3>2. Returning(x)' = Returning(x)
      BY <1>6, <2>4
    <3>3. Unheld(x)' <=> Unheld(x)
      BY <1>5, <3>1 DEF Unheld
    <3> QED BY <1>5, <2>1, <3>1, <3>2, <3>3
  <2> QED BY <2>3, <2>4
<1> QED BY <1>11, <1>13 DEF UseInv

(* A call that starts when there is none returns no texture.               *)
LEMMA StartUse ==
  ASSUME UseInv, UNCHANGED <<created, unused, refs>>, calls = <<>>,
         NEW A, calls' \in Seq(A), \A y \in Elements(calls') : y.do # "giveBack"
  PROVE  UseInv'
<1>1. ASSUME NEW x \in Objects PROVE Returning(x)' = Returning(x)
  <2>1. Returning(x) = 0
    BY TallyEmpty DEF Returning
  <2>2. Tally(calls', {Do("giveBack", x)}) = 0
    BY ReturnsNone
  <2> QED BY <2>1, <2>2 DEF Returning, Do
<1> QED BY <1>1, UseKept

LEMMA GetTileTextureUse ==
  ASSUME UseInv, NEW t \in CubeTiles, GetTileTexture(t)
  PROVE  UseInv'
<1>1. UNCHANGED <<created, unused, refs>> /\ calls = <<>> /\ calls' = <<Do("find", t)>>
  BY DEF GetTileTexture, Start, Idle, cacheVars
<1>2. Do("find", t) \in TileCalls
  BY CallKinds
<1>3. calls' \in Seq(TileCalls) /\ Elements(calls') = {Do("find", t)}
  BY <1>1, <1>2 DEF Elements
<1>4. \A y \in Elements(calls') : y.do # "giveBack"
  BY <1>3 DEF Do
<1> QED BY <1>1, <1>3, <1>4, StartUse

LEMMA ChangeSourceUse ==
  ASSUME UseInv, ChangeSource
  PROVE  UseInv'
<1>1. UNCHANGED <<created, unused, refs>> /\ calls = <<>> /\ calls' = <<>>
  BY DEF ChangeSource, Start, Idle, cacheVars
<1>2. calls' \in Seq(TileCalls) /\ \A y \in Elements(calls') : y.do # "giveBack"
  BY <1>1, ElementsEmpty
<1> QED BY <1>1, <1>2, StartUse

(* What a handle lets go of.                                               *)
LEMMA HandleDrops ==
  ASSUME IInv, NEW i \in DOMAIN handles, DropHandle(i)
  PROVE  calls' \in Seq(DropCalls(created)) /\ \A y \in Elements(calls') : y.do = "drop"
<1>1. PICK h : h = handles[i]
  OBVIOUS
<1>2. PICK d : d = Drops(h.sources)
  OBVIOUS
<1>3. PICK e : e = IF h.object = None THEN <<>> ELSE <<Do("drop", h.object)>>
  OBVIOUS
<1>4. calls' = d \o e
  BY <1>1, <1>2, <1>3 DEF DropHandle, Start
<1>5. h.sources \in Seq(created) /\ h.object \in created \cup {None}
  BY <1>1, HandleTyped
<1>6. d \in Seq(DropCalls(created)) /\ \A y \in Elements(d) : y.do = "drop"
  BY <1>2, <1>5, DropsTyped, DropsKinds
<1>7. e \in Seq(DropCalls(created)) /\ \A y \in Elements(e) : y.do = "drop"
  <2>1. CASE h.object = None
    <3>1. e = <<>>
      BY <1>3, <2>1
    <3> QED BY <3>1, ElementsEmpty
  <2>2. CASE h.object # None
    <3>1. PICK x : x = Do("drop", h.object)
      OBVIOUS
    <3>2. e = <<x>>
      BY <1>3, <2>2, <3>1
    <3>3. x \in DropCalls(created) /\ x.do = "drop"
      BY <1>5, <2>2, <3>1 DEF Do, DropCalls
    <3>4. Elements(e) = {x}
      BY <3>2 DEF Elements
    <3> QED BY <3>2, <3>3, <3>4, OneElement
  <2> QED BY <2>1, <2>2
<1>8. d \o e \in Seq(DropCalls(created)) /\ Elements(d \o e) = Elements(d) \cup Elements(e)
  BY <1>6, <1>7, ElementsConcat
<1>9. PICK c : c = calls'
  OBVIOUS
<1>10. c \in Seq(DropCalls(created)) /\ Elements(c) = Elements(d) \cup Elements(e)
  BY <1>4, <1>8, <1>9
<1> QED BY <1>6, <1>7, <1>9, <1>10

LEMMA DropHandleUse ==
  ASSUME IInv, UseInv, NEW i \in DOMAIN handles, DropHandle(i)
  PROVE  UseInv'
<1>1. UNCHANGED <<created, unused, refs>> /\ calls = <<>>
  BY DEF DropHandle, Start, Idle, cacheVars
<1>2. calls' \in Seq(DropCalls(created)) /\ \A y \in Elements(calls') : y.do # "giveBack"
  BY HandleDrops
<1> QED BY <1>1, <1>2, StartUse

LEMMA InitUse == Init => UseInv
<1> SUFFICES ASSUME Init PROVE UseInv
  OBVIOUS
<1>1. /\ created = {} /\ unused = [c \in Caches |-> <<>>] /\ refs = [o \in Objects |-> 0] /\ calls = <<>>
  BY DEF Init, CacheInit
<1>2. UnusedOnce
  BY <1>1, ElementsEmpty DEF UnusedOnce
<1>3. \A x : Returning(x) = 0
  BY <1>1, TallyEmpty DEF Returning
<1>4. \A x : ~Unheld(x)
  BY <1>1 DEF Unheld
<1> QED BY <1>1, <1>2, <1>3, <1>4 DEF UseInv

LEMMA StepUse == IInv /\ RefsInv /\ ShapeInv /\ UseInv /\ [Next]_vars => UseInv'
<1> SUFFICES ASSUME IInv, RefsInv, ShapeInv, UseInv, [Next]_vars PROVE UseInv'
  OBVIOUS
<1>1. CASE \E t \in CubeTiles : GetTileTexture(t)
  BY <1>1, GetTileTextureUse
<1>2. CASE \E i \in DOMAIN handles : DropHandle(i)
  BY <1>2, DropHandleUse
<1>3. CASE ChangeSource
  BY <1>3, ChangeSourceUse
<1>4. CASE Find
  BY <1>4, FindUse
<1>5. CASE Draw
  BY <1>5, DrawUse
<1>6. CASE Load
  BY <1>6, LoadUse
<1>7. CASE Drawn
  BY <1>7, DrawnUse
<1>8. CASE Rendered
  BY <1>8, RenderedUse
<1>9. CASE HandOut
  BY <1>9, HandOutUse
<1>10. CASE Drop
  BY <1>10, DropUse
<1>11. CASE Tell
  BY <1>11, TellUse
<1>12. CASE Returned
  BY <1>12, ReturnedUse
<1>13. CASE UNCHANGED vars
  <2>1. UNCHANGED <<created, unused, refs, calls>>
    BY <1>13 DEF vars, cacheVars
  <2>2. \A x \in Objects : Returning(x)' = Returning(x)
    BY <2>1 DEF Returning, Do
  <2> QED BY <2>1, <2>2, UseKept
<1> QED BY <1>1, <1>2, <1>3, <1>4, <1>5, <1>6, <1>7, <1>8, <1>9, <1>10, <1>11, <1>12, <1>13
        DEF Next
-----------------------------------------------------------------------------
(* What textures keep: those of cube tiles keep those of source tiles, and *)
(* nothing is kept by a texture that was returned.                         *)
SourceTextures == {x \in Objects : \E s \in SourceTiles : CacheOf[x] = CacheOf[s]}
CubeTextures == {x \in Objects : \E t \in CubeTiles : CacheOf[x] = CacheOf[t]}

Attended(x) == refs[x] > 0 \/ Do("tell", x) \in Elements(calls)
KeepersInv ==
  \A x \in Objects : /\ Elements(sources[x]) \subseteq SourceTextures
                     /\ sources[x] # <<>> => x \in CubeTextures /\ Attended(x)
DrawnKinds == Elements(rendering.kept) \subseteq SourceTextures
HandleKinds == \A i \in DOMAIN handles : Elements(handles[i].sources) \subseteq SourceTextures
KindsInv == KeepersInv /\ DrawnKinds /\ HandleKinds

LEMMA KindsApart ==
  /\ CubeTextures \cap SourceTextures = {}
  /\ \A x \in CubeTextures \cup SourceTextures : CacheOf[x] # "height"
<1>1. \A t \in CubeTiles, s \in SourceTiles : CacheOf[t] # CacheOf[s]
  BY TileAssumption
<1>2. \A t \in Tiles : CacheOf[t] # "height"
  BY TileAssumption
<1> QED BY <1>1, <1>2 DEF CubeTextures, SourceTextures, Tiles

(* The textures that tiles find are of their kind.                         *)
LEMMA FoundKinds ==
  ASSUME CacheInv
  PROVE  /\ \A t \in CubeTiles : info[t] # None => info[t] \in CubeTextures
         /\ \A s \in SourceTiles : info[s] # None => info[s] \in SourceTextures
<1>1. \A v \in Volatiles : info[v] # None => info[v] \in Objects /\ CacheOf[v] = CacheOf[info[v]]
  BY DEF CacheInv, CacheTyped, Matching
<1>2. \A t \in CubeTiles : t \in Volatiles
  BY TileAssumption DEF Tiles
<1>3. \A s \in SourceTiles : s \in Volatiles
  BY TileAssumption DEF Tiles
<1> QED BY <1>1, <1>2, <1>3 DEF CubeTextures, SourceTextures

(* Textures stay attended: references are kept, and a call that tells one  *)
(* is only gone when it has.                                               *)
LEMMA StaysCalled ==
  ASSUME IInv, calls # <<>>, NEW e \in Seq(Entries(Objects)), Continue(e), NEW y \in Elements(calls),
         y # Head(calls)
  PROVE  y \in Elements(calls')
<1>1. calls \in Seq(Entries(Objects))
  BY EntriesExist
<1>2. PICK t : t = Tail(calls)
  OBVIOUS
<1>3. t \in Seq(Entries(Objects)) /\ y \in Elements(t)
  BY <1>1, <1>2, ElementsTail
<1>4. Elements(e \o t) = Elements(e) \cup Elements(t)
  BY <1>3, ElementsConcat
<1>5. calls' = e \o t
  BY <1>2 DEF Continue
<1>6. PICK c : c = calls'
  OBVIOUS
<1> QED BY <1>3, <1>4, <1>5, <1>6

LEMMA StaysAttended ==
  ASSUME IInv, calls # <<>>, Head(calls).do # "tell", NEW e \in Seq(Entries(Objects)), Continue(e),
         NEW x, refs[x] > 0 => refs'[x] > 0, Attended(x)
  PROVE  Attended(x)'
<1>1. CASE refs[x] > 0
  BY <1>1 DEF Attended
<1>2. CASE Do("tell", x) \in Elements(calls)
  <2>1. Do("tell", x) # Head(calls)
    BY DEF Do
  <2>2. PICK y : y = Do("tell", x)
    OBVIOUS
  <2>3. y \in Elements(calls')
    BY <1>2, <2>1, <2>2, StaysCalled
  <2> QED BY <2>2, <2>3 DEF Attended, Do, Elements
<1> QED BY <1>1, <1>2 DEF Attended

LEMMA KeepersKept ==
  ASSUME KeepersInv, UNCHANGED sources, \A x \in Objects : Attended(x) => Attended(x)'
  PROVE  KeepersInv'
BY DEF KeepersInv, SourceTextures, CubeTextures, Elements

LEMMA KindsKept ==
  ASSUME KindsInv, UNCHANGED <<sources, rendering, handles>>, \A x \in Objects : Attended(x) => Attended(x)'
  PROVE  KindsInv'
<1>1. KeepersInv'
  BY KeepersKept DEF KindsInv
<1>2. DrawnKinds'
  BY DEF KindsInv, DrawnKinds, SourceTextures, Elements
<1>3. HandleKinds'
  BY DEF KindsInv, HandleKinds, SourceTextures, Elements
<1> QED BY <1>1, <1>2, <1>3 DEF KindsInv

(* A call that starts when there is none.                                  *)
LEMMA StartAttended ==
  ASSUME calls = <<>>, UNCHANGED refs, NEW x, Attended(x)
  PROVE  Attended(x)'
<1>1. Elements(calls) = {}
  BY ElementsEmpty
<1>2. refs[x] > 0
  BY <1>1 DEF Attended
<1> QED BY <1>2 DEF Attended

(* A texture is given to a tile.                                           *)
LEMMA GivenKinds ==
  ASSUME IInv, RefsInv, KindsInv, NEW o \in Objects, Give(o), UNCHANGED <<sources, rendering, handles>>,
         calls # <<>>, Head(calls).do # "tell", NEW e \in Seq(Entries(Objects)), Continue(e)
  PROVE  KindsInv'
<1>1. refs' = [refs EXCEPT ![o] = refs[o] + 1] /\ refs \in [Objects -> Nat]
  BY DEF Give, RefsInv
<1>2. \A x \in Objects : refs[x] > 0 => refs'[x] > 0
  BY <1>1
<1>3. \A x \in Objects : Attended(x) => Attended(x)'
  BY <1>2, StaysAttended
<1> QED BY <1>3, KindsKept

LEMMA FindEntries ==
  ASSUME IInv, ShapeInv, Find \/ Draw
  PROVE  \E e \in Seq(Entries(Objects)) : Continue(e)
<1>1. CASE Find
  <2>1. On \in CubeTiles
    BY <1>1, FindBelow
  <2>2. PICK t \in CubeTiles : t = On
    BY <2>1
  <2>3. PICK a : a = [i \in DOMAIN Covers[t] |-> Do("draw", Covers[t][i])] \o <<Do("rendered", t)>>
    OBVIOUS
  <2>4. a \in Seq(Entries(Objects))
    BY <2>3, DrawsOwed
  <2>5. PICK b : b = IF OutOfDate(t) THEN a ELSE <<>>
    OBVIOUS
  <2>6. PICK c : c = <<Do("handOut", t)>>
    OBVIOUS
  <2>7. Do("handOut", t) \in Entries(Objects)
    BY TileEntries
  <2>8. b \in Seq(Entries(Objects)) /\ c \in Seq(Entries(Objects))
    BY <2>4, <2>5, <2>6, <2>7, OneElement
  <2>9. b \o c \in Seq(Entries(Objects))
    BY <2>8, ElementsConcat
  <2>10. Continue(b \o c)
    BY <1>1, <2>2, <2>3, <2>5, <2>6 DEF Find
  <2> QED BY <2>9, <2>10
<1>2. CASE Draw
  <2>1. On \in SourceTiles
    BY <1>2, DrawBelow
  <2>2. PICK s \in SourceTiles : s = On
    BY <2>1
  <2>3. Do("load", s) \in Entries(Objects) /\ Do("drawn", s) \in Entries(Objects)
    BY TileEntries
  <2>4. PICK a : a = IF OutOfDate(s) THEN <<Do("load", s)>> ELSE <<>>
    OBVIOUS
  <2>5. PICK c : c = <<Do("drawn", s)>>
    OBVIOUS
  <2>6. a \in Seq(Entries(Objects)) /\ c \in Seq(Entries(Objects))
    BY <2>3, <2>4, <2>5, OneElement
  <2>7. a \o c \in Seq(Entries(Objects))
    BY <2>6, ElementsConcat
  <2>8. Continue(a \o c)
    BY <1>2, <2>2, <2>4, <2>5 DEF Draw
  <2> QED BY <2>7, <2>8
<1> QED BY <1>1, <1>2

LEMMA FindKinds ==
  ASSUME IInv, RefsInv, ShapeInv, KindsInv, Find \/ Draw
  PROVE  KindsInv'
<1>1. /\ On \in Volatiles /\ Acquire(On) /\ calls # <<>> /\ Head(calls).do # "tell"
      /\ UNCHANGED <<sources, rendering, handles>>
  <2>1. CASE Find
    BY <2>1, FindBelow DEF Find, Doing, tileVars
  <2>2. CASE Draw
    BY <2>2, DrawBelow DEF Draw, Doing, tileVars
  <2> QED BY <2>1, <2>2
<1>2. PICK o : Obtains(On, o)
  BY <1>1, AcquireObtains DEF IInv
<1>3. o \in Objects /\ Give(o)
  BY <1>2 DEF Obtains
<1>4. PICK e \in Seq(Entries(Objects)) : Continue(e)
  BY FindEntries
<1> QED BY <1>1, <1>3, <1>4, GivenKinds

LEMMA LoadKinds ==
  ASSUME IInv, RefsInv, KindsInv, Load
  PROVE  KindsInv'
<1>1. calls # <<>> /\ Head(calls).do # "tell" /\ UNCHANGED <<sources, rendering, handles>>
  BY DEF Load, Doing
<1>2. PICK h \in Objects : Allocate("height", h) /\ Continue(<<Do("drop", h)>>)
  BY DEF Load
<1>3. PICK e : e = <<Do("drop", h)>>
  OBVIOUS
<1>4. e \in Seq(Entries(Objects)) /\ Continue(e) /\ Give(h)
  BY <1>2, <1>3, OneDrop DEF Allocate
<1> QED BY <1>1, <1>4, GivenKinds

LEMMA DrawnKindsStep ==
  ASSUME IInv, KindsInv, Drawn
  PROVE  KindsInv'
<1>1. calls # <<>> /\ Head(calls).do = "drawn"
  BY DEF Drawn, Doing
<1>2. On \in SourceTiles /\ info[On] # None
  BY <1>1, TheCall DEF IInv
<1>3. PICK o \in Objects : o = info[On] /\ o \in SourceTextures
  BY <1>2, FoundKinds DEF IInv, SourceTextures
<1>4. PICK e : e = IF keep["source"] THEN <<>> ELSE <<Do("drop", o)>>
  OBVIOUS
<1>5. e \in Seq(Entries(Objects)) /\ Continue(e) /\ UNCHANGED <<sources, handles, refs>>
  BY <1>3, <1>4, OneDrop DEF Drawn, cacheVars
<1>6. rendering'.kept = IF keep["source"] THEN Append(rendering.kept, o) ELSE rendering.kept
  BY <1>3 DEF Drawn
<1>7. \A x \in Objects : Attended(x) => Attended(x)'
  BY <1>1, <1>5, StaysAttended
<1>8. KeepersInv'
  BY <1>5, <1>7, KeepersKept DEF KindsInv
<1>9. HandleKinds'
  BY <1>5 DEF KindsInv, HandleKinds, SourceTextures, Elements
<1>10. Elements(rendering'.kept) \subseteq SourceTextures
  <2>1. PICK k : k = rendering.kept
    OBVIOUS
  <2>2. k \in Seq(created) /\ created \subseteq Objects
    BY <2>1 DEF IInv, KeptTyped, CacheInv, CacheTyped
  <2>3. k \in Seq(Objects)
    BY <2>2, SeqGrows
  <2>4. Elements(k) \subseteq SourceTextures
    BY <2>1 DEF KindsInv, DrawnKinds
  <2>5. Elements(Append(k, o)) = Elements(k) \cup {o}
    BY <2>3, ElementsAppend
  <2>6. PICK n : n = rendering'.kept
    OBVIOUS
  <2>7. n = k \/ n = Append(k, o)
    BY <1>6, <2>1, <2>6
  <2>8. Elements(n) \subseteq SourceTextures
    BY <1>3, <2>4, <2>5, <2>7
  <2> QED BY <2>6, <2>8
<1>11. DrawnKinds'
  BY <1>10 DEF DrawnKinds, SourceTextures, Elements
<1> QED BY <1>8, <1>9, <1>11 DEF KindsInv

(* The texture that is rendered into is held, for it is to be handed out.  *)
LEMMA RenderedHeld ==
  ASSUME IInv, RefsInv, ShapeInv, Rendered
  PROVE  On \in CubeTiles /\ info[On] \in Objects /\ refs[info[On]] > 0
<1>1. calls # <<>> /\ Head(calls).do = "rendered"
  BY DEF Rendered, Doing
<1>2. On \in CubeTiles /\ info[On] # None
  BY <1>1, TheCall DEF IInv
<1>3. PICK t \in CubeTiles : t = On
  BY <1>2
<1>4. PICK o \in Objects : o = info[t]
  BY <1>2, <1>3, TileAssumption DEF IInv, CacheInv, CacheTyped, Tiles
<1>5. PICK y : y = Do("handOut", t)
  OBVIOUS
<1>6. PICK r : r = Tail(calls)
  OBVIOUS
<1>7. r = <<y>>
  BY <1>1, <1>3, <1>5, <1>6, ShapeTop DEF AfterRendered
<1>8. y \in Elements(r)
  BY <1>7 DEF Elements
<1>9. y \in Elements(calls)
  <2>1. calls \in Seq(Entries(Objects))
    BY EntriesExist
  <2>2. Elements(calls) = {Head(calls)} \cup Elements(r)
    BY <1>1, <1>6, <2>1, ElementsTail
  <2> QED BY <1>8, <2>2
<1>10. y \in Owed(o, info)
  <2>1. y \in Entries(Objects)
    BY <1>5, TileEntries
  <2> QED BY <1>4, <1>5, <2>1, OwedDo
<1>11. refs[o] > 0
  BY <1>9, <1>10, ReferredTo
<1> QED BY <1>3, <1>4, <1>11

LEMMA RenderedKinds ==
  ASSUME IInv, RefsInv, ShapeInv, KindsInv, Rendered
  PROVE  KindsInv'
<1>1. calls # <<>> /\ Head(calls).do = "rendered"
  BY DEF Rendered, Doing
<1>2. PICK o \in Objects : o = info[On]
  BY RenderedHeld
<1>3. refs[o] > 0 /\ o \in CubeTextures
  <2>1. o # None
    BY CacheAssumption
  <2> QED BY <1>2, <2>1, RenderedHeld, FoundKinds DEF IInv
<1>4. PICK e : e = Drops(sources[o])
  OBVIOUS
<1>5. sources \in [Objects -> Seq(created)]
  BY DEF IInv, KeptTyped
<1>6. sources[o] \in Seq(Objects)
  BY <1>5, SeqGrows DEF IInv, CacheInv, CacheTyped
<1>7. /\ e \in Seq(Entries(Objects)) /\ Continue(e) /\ UNCHANGED <<handles, refs>>
      /\ sources' = [sources EXCEPT ![o] = rendering.kept] /\ rendering' = NotRendering
  BY <1>2, <1>4, <1>6, DropsOwed DEF Rendered, cacheVars
<1>8. \A x \in Objects : Attended(x) => Attended(x)'
  BY <1>1, <1>7, StaysAttended
<1>9. Attended(o)'
  BY <1>3, <1>7 DEF Attended
<1>10. \A x \in Objects : sources'[x] = IF x = o THEN rendering.kept ELSE sources[x]
  BY <1>5, <1>7
<1>11. ASSUME NEW x \in Objects
       PROVE  /\ Elements(sources'[x]) \subseteq SourceTextures
              /\ sources'[x] # <<>> => x \in CubeTextures /\ Attended(x)'
  <2>1. CASE x = o
    <3>1. Elements(rendering.kept) \subseteq SourceTextures
      BY DEF KindsInv, DrawnKinds
    <3>2. PICK k : k = sources'[x]
      OBVIOUS
    <3>3. k = rendering.kept
      BY <1>10, <2>1, <3>2
    <3> QED BY <1>3, <1>9, <2>1, <3>1, <3>2, <3>3
  <2>2. CASE x # o
    <3>1. PICK k : k = sources'[x]
      OBVIOUS
    <3>2. k = sources[x]
      BY <1>10, <2>2, <3>1
    <3>3. Elements(k) \subseteq SourceTextures /\ (k # <<>> => x \in CubeTextures /\ Attended(x))
      BY <3>2 DEF KindsInv, KeepersInv
    <3> QED BY <1>8, <3>1, <3>3
  <2> QED BY <2>1, <2>2
<1>12. KeepersInv'
  BY <1>11 DEF KeepersInv, SourceTextures, CubeTextures, Elements
<1>13. DrawnKinds'
  BY <1>7 DEF DrawnKinds, NotRendering, Elements
<1>14. HandleKinds'
  BY <1>7 DEF KindsInv, HandleKinds, SourceTextures, Elements
<1> QED BY <1>12, <1>13, <1>14 DEF KindsInv

LEMMA HandOutKinds ==
  ASSUME IInv, RefsInv, KindsInv, HandOut
  PROVE  KindsInv'
<1>1. calls # <<>> /\ Head(calls).do = "handOut"
  BY DEF HandOut, Doing
<1>2. On \in CubeTiles /\ info[On] # None
  BY <1>1, TheCall DEF IInv
<1>3. PICK o \in Objects : o = info[On]
  BY <1>2, TileAssumption DEF IInv, CacheInv, CacheTyped, Tiles
<1>4. PICK e : e = IF keep["cube"] THEN <<>> ELSE <<Do("drop", o)>>
  OBVIOUS
<1>5. PICK h : h = [tile |-> On, object |-> IF keep["cube"] THEN o ELSE None,
                    sources |-> sources[o], since |-> version]
  OBVIOUS
<1>6. /\ e \in Seq(Entries(Objects)) /\ Continue(e) /\ UNCHANGED <<sources, rendering>>
      /\ refs' = [x \in Objects |-> refs[x] + Times(x, sources[o])]
      /\ handles' = Append(handles, h)
  BY <1>3, <1>4, <1>5, OneDrop DEF HandOut
<1>7. ASSUME NEW x \in Objects, refs[x] > 0 PROVE refs'[x] > 0
  <2>1. sources[o] \in Seq(created)
    BY DEF IInv, KeptTyped
  <2>2. PICK k \in Nat : k = Tally(sources[o], {x})
    BY <2>1, TallySome
  <2>3. Times(x, sources[o]) = k
    BY <2>2 DEF Times, Tally
  <2>4. PICK r \in Nat : r = refs[x]
    BY ReferredTo
  <2>5. refs'[x] = r + k
    BY <1>6, <2>3, <2>4
  <2> QED BY <1>7, <2>4, <2>5
<1>8. \A x \in Objects : Attended(x) => Attended(x)'
  BY <1>1, <1>6, <1>7, StaysAttended
<1>9. KeepersInv'
  BY <1>6, <1>8, KeepersKept DEF KindsInv
<1>10. DrawnKinds'
  BY <1>6 DEF KindsInv, DrawnKinds, SourceTextures, Elements
<1>11. ASSUME NEW i \in DOMAIN handles' PROVE Elements(handles'[i].sources) \subseteq SourceTextures
  <2>1. PICK n \in Nat : n = Len(handles) /\ DOMAIN handles = 1..n
    BY DEF IInv, KeptTyped, HandlesTyped
  <2>2. PICK S : handles \in Seq(S)
    BY DEF IInv, KeptTyped, HandlesTyped
  <2>3. i \in 1..(n + 1) /\ handles'[i] = IF i = n + 1 THEN h ELSE handles[i]
    BY <1>6, <2>1, <2>2
  <2>4. CASE i = n + 1
    <3>1. PICK k : k = handles'[i].sources
      OBVIOUS
    <3>2. k = sources[o]
      BY <1>5, <2>3, <2>4, <3>1
    <3>3. Elements(k) \subseteq SourceTextures
      BY <3>2 DEF KindsInv, KeepersInv
    <3> QED BY <3>1, <3>3
  <2>5. CASE i # n + 1
    <3>1. i \in DOMAIN handles /\ handles'[i] = handles[i]
      BY <2>1, <2>3, <2>5
    <3>2. Elements(handles[i].sources) \subseteq SourceTextures
      BY <3>1 DEF KindsInv, HandleKinds
    <3> QED BY <3>1, <3>2
  <2> QED BY <2>4, <2>5
<1>12. HandleKinds'
  BY <1>11 DEF HandleKinds, SourceTextures, Elements
<1> QED BY <1>9, <1>10, <1>12 DEF KindsInv

(* A texture that loses its last reference is told so.                     *)
LEMMA DropKinds ==
  ASSUME IInv, RefsInv, KindsInv, Drop
  PROVE  KindsInv'
<1>1. calls # <<>> /\ Head(calls).do = "drop"
  BY DEF Drop, Doing
<1>2. PICK o \in Objects : o = On
  BY <1>1, TheCall DEF IInv, CacheInv, CacheTyped
<1>3. PICK e : e = IF refs[o] > 1 THEN <<>> ELSE <<Do("tell", o), Do("giveBack", o)>>
  OBVIOUS
<1>4. Continue(e) /\ refs' = [refs EXCEPT ![o] = refs[o] - 1] /\ UNCHANGED <<sources, rendering, handles>>
  BY <1>2, <1>3 DEF Drop, tileVars
<1>5. refs \in [Objects -> Nat]
  BY DEF RefsInv
<1>6. e \in Seq(Entries(Objects)) /\ (refs[o] > 1 \/ Do("tell", o) \in Elements(e))
  <2>1. CASE refs[o] > 1
    BY <1>3, <2>1
  <2>2. CASE ~(refs[o] > 1)
    <3>1. PICK a \in Entries(Objects) : a = Do("tell", o)
      BY TileEntries
    <3>2. PICK b \in Entries(Objects) : b = Do("giveBack", o)
      BY TileEntries
    <3>3. e = <<a, b>>
      BY <1>3, <2>2, <3>1, <3>2
    <3>4. a \in Elements(e)
      BY <3>3 DEF Elements
    <3> QED BY <3>1, <3>3, <3>4, TwoElements
  <2> QED BY <2>1, <2>2
<1>7. ASSUME NEW x \in Objects, Attended(x) PROVE Attended(x)'
  <2>1. CASE x = o
    <3>1. CASE refs[o] > 1
      <4>1. refs'[o] > 0
        BY <1>4, <1>5, <3>1
      <4> QED BY <2>1, <4>1 DEF Attended
    <3>2. CASE Do("tell", o) \in Elements(e)
      <4>1. PICK t : t = Tail(calls)
        OBVIOUS
      <4>2. t \in Seq(Entries(Objects))
        BY <1>1, <4>1, EntriesExist, ElementsTail
      <4>3. Elements(e \o t) = Elements(e) \cup Elements(t)
        BY <1>6, <4>2, ElementsConcat
      <4>4. PICK c : c = calls'
        OBVIOUS
      <4>5. c = e \o t
        BY <1>4, <4>1, <4>4 DEF Continue
      <4>6. Do("tell", o) \in Elements(c)
        BY <3>2, <4>3, <4>5
      <4> QED BY <2>1, <4>4, <4>6 DEF Attended, Do, Elements
    <3> QED BY <1>6, <3>1, <3>2
  <2>2. CASE x # o
    <3>1. refs'[x] = refs[x]
      BY <1>4, <1>5, <2>2
    <3> QED BY <1>1, <1>4, <1>6, <1>7, <3>1, StaysAttended
  <2> QED BY <2>1, <2>2
<1> QED BY <1>4, <1>7, KindsKept

LEMMA TellKinds ==
  ASSUME IInv, KindsInv, Tell
  PROVE  KindsInv'
<1>1. calls # <<>> /\ Head(calls).do = "tell"
  BY DEF Tell, Doing
<1>2. PICK o \in Objects : o = On
  BY <1>1, TheCall DEF IInv, CacheInv, CacheTyped
<1>3. PICK e : e = Drops(sources[o])
  OBVIOUS
<1>4. sources \in [Objects -> Seq(created)]
  BY DEF IInv, KeptTyped
<1>5. sources[o] \in Seq(Objects)
  BY <1>4, SeqGrows DEF IInv, CacheInv, CacheTyped
<1>6. /\ e \in Seq(Entries(Objects)) /\ Continue(e) /\ UNCHANGED <<handles, rendering, refs>>
      /\ sources' = [sources EXCEPT ![o] = <<>>]
  BY <1>2, <1>3, <1>5, DropsOwed DEF Tell, cacheVars
<1>7. ASSUME NEW x \in Objects, x # o, Attended(x) PROVE Attended(x)'
  <2>1. CASE refs[x] > 0
    BY <1>6, <2>1 DEF Attended
  <2>2. CASE Do("tell", x) \in Elements(calls)
    <3>1. Do("tell", x) # Head(calls)
      BY <1>2, <1>7 DEF Do, On
    <3>2. PICK y : y = Do("tell", x)
      OBVIOUS
    <3>3. y \in Elements(calls')
      BY <1>1, <1>6, <2>2, <3>1, <3>2, StaysCalled
    <3> QED BY <3>2, <3>3 DEF Attended, Do, Elements
  <2> QED BY <1>7, <2>1, <2>2 DEF Attended
<1>8. ASSUME NEW x \in Objects
      PROVE  /\ Elements(sources'[x]) \subseteq SourceTextures
             /\ sources'[x] # <<>> => x \in CubeTextures /\ Attended(x)'
  <2>1. PICK k : k = sources'[x]
    OBVIOUS
  <2>2. CASE x = o
    <3>1. k = <<>>
      BY <1>4, <1>6, <2>1, <2>2
    <3> QED BY <2>1, <3>1, ElementsEmpty
  <2>3. CASE x # o
    <3>1. k = sources[x]
      BY <1>4, <1>6, <2>1, <2>3
    <3>2. Elements(k) \subseteq SourceTextures /\ (k # <<>> => x \in CubeTextures /\ Attended(x))
      BY <3>1 DEF KindsInv, KeepersInv
    <3> QED BY <1>7, <2>1, <2>3, <3>2
  <2> QED BY <2>2, <2>3
<1>9. KeepersInv'
  BY <1>8 DEF KeepersInv, SourceTextures, CubeTextures, Elements
<1>10. DrawnKinds' /\ HandleKinds'
  BY <1>6 DEF KindsInv, DrawnKinds, HandleKinds, SourceTextures, Elements
<1> QED BY <1>9, <1>10 DEF KindsInv

LEMMA ReturnedKinds ==
  ASSUME IInv, KindsInv, Returned
  PROVE  KindsInv'
<1>1. calls # <<>> /\ Head(calls).do # "tell" /\ UNCHANGED <<sources, rendering, handles, refs>>
  BY DEF Returned, Doing, tileVars, GiveBack
<1>2. PICK e : e = <<>>
  OBVIOUS
<1>3. e \in Seq(Entries(Objects)) /\ Continue(e)
  BY <1>2 DEF Returned
<1>4. \A x \in Objects : Attended(x) => Attended(x)'
  BY <1>1, <1>3, StaysAttended
<1> QED BY <1>1, <1>4, KindsKept

LEMMA DropHandleKinds ==
  ASSUME IInv, KindsInv, NEW i \in DOMAIN handles, DropHandle(i)
  PROVE  KindsInv'
<1>1. calls = <<>> /\ UNCHANGED <<sources, rendering, refs>> /\ handles' = RemoveAt(handles, i)
  BY DEF DropHandle, Start, Idle, cacheVars
<1>2. KeepersInv'
  BY <1>1, StartAttended, KeepersKept DEF KindsInv
<1>3. DrawnKinds'
  BY <1>1 DEF KindsInv, DrawnKinds, SourceTextures, Elements
<1>4. PICK S : handles \in Seq(S)
  BY DEF IInv, KeptTyped, HandlesTyped
<1>5. \A j \in DOMAIN handles' : \E k \in DOMAIN handles : handles'[j] = handles[k]
  BY <1>1, <1>4, RemovedElements
<1>6. ASSUME NEW j \in DOMAIN handles' PROVE Elements(handles'[j].sources) \subseteq SourceTextures
  <2>1. PICK k \in DOMAIN handles : handles'[j] = handles[k]
    BY <1>5
  <2>2. Elements(handles[k].sources) \subseteq SourceTextures
    BY DEF KindsInv, HandleKinds
  <2> QED BY <2>1, <2>2
<1>7. HandleKinds'
  BY <1>6 DEF HandleKinds, SourceTextures, Elements
<1> QED BY <1>2, <1>3, <1>7 DEF KindsInv

LEMMA InitKinds == Init => KindsInv
<1> SUFFICES ASSUME Init PROVE KindsInv
  OBVIOUS
<1>1. sources = [o \in Objects |-> <<>>] /\ rendering.kept = <<>> /\ handles = <<>>
  BY DEF Init, NotRendering
<1>2. KeepersInv
  BY <1>1, ElementsEmpty DEF KeepersInv
<1>3. DrawnKinds /\ HandleKinds
  BY <1>1, ElementsEmpty DEF DrawnKinds, HandleKinds
<1> QED BY <1>2, <1>3 DEF KindsInv

LEMMA StepKinds == IInv /\ RefsInv /\ ShapeInv /\ KindsInv /\ [Next]_vars => KindsInv'
<1> SUFFICES ASSUME IInv, RefsInv, ShapeInv, KindsInv, [Next]_vars PROVE KindsInv'
  OBVIOUS
<1>1. CASE \E t \in CubeTiles : GetTileTexture(t)
  <2>1. calls = <<>> /\ UNCHANGED <<refs, sources, rendering, handles>>
    BY <1>1 DEF GetTileTexture, Start, Idle, cacheVars, tileVars
  <2> QED BY <2>1, StartAttended, KindsKept
<1>2. CASE \E i \in DOMAIN handles : DropHandle(i)
  BY <1>2, DropHandleKinds
<1>3. CASE ChangeSource
  <2>1. calls = <<>> /\ UNCHANGED <<refs, sources, rendering, handles>>
    BY <1>3 DEF ChangeSource, Start, Idle, cacheVars
  <2> QED BY <2>1, StartAttended, KindsKept
<1>4. CASE Find \/ Draw
  BY <1>4, FindKinds
<1>5. CASE Load
  BY <1>5, LoadKinds
<1>6. CASE Drawn
  BY <1>6, DrawnKindsStep
<1>7. CASE Rendered
  BY <1>7, RenderedKinds
<1>8. CASE HandOut
  BY <1>8, HandOutKinds
<1>9. CASE Drop
  BY <1>9, DropKinds
<1>10. CASE Tell
  BY <1>10, TellKinds
<1>11. CASE Returned
  BY <1>11, ReturnedKinds
<1>12. CASE UNCHANGED vars
  <2>1. UNCHANGED <<refs, sources, rendering, handles, calls>>
    BY <1>12 DEF vars, cacheVars, tileVars
  <2>2. \A x \in Objects : Attended(x) => Attended(x)'
    BY <2>1 DEF Attended, Do, Elements
  <2> QED BY <2>1, <2>2, KindsKept
<1> QED BY <1>1, <1>2, <1>3, <1>4, <1>5, <1>6, <1>7, <1>8, <1>9, <1>10, <1>11, <1>12 DEF Next
-----------------------------------------------------------------------------
(* What is in the textures that are found, and in those that are held.     *)
Found(v, what, k) == info[v] # None /\ Do(what, v) \notin Elements(calls) => content[info[v]] = k
Right(h) ==
  h.object # None => /\ info[h.tile] = h.object
                     /\ \E k \in h.since..version : content[h.object] = Made(h.tile, k)
ContentTyped == seen \in [Tiles -> Nat] /\ DOMAIN content = Objects
ContentInv ==
  /\ ContentTyped
  /\ \A t \in CubeTiles : Found(t, "rendered", Made(t, seen[t]))
  /\ \A s \in SourceTiles : Found(s, "load", <<s, seen[s]>>)
  /\ \A i \in DOMAIN handles : Right(handles[i])

LEMMA FoundOnce ==
  ASSUME CacheInv, NEW v \in Tiles, NEW w \in Tiles, info[v] # None, info[v] = info[w]
  PROVE  v = w
<1>1. v \in Volatiles /\ w \in Volatiles
  BY TileAssumption
<1>2. info[v] \in Objects
  BY <1>1 DEF CacheInv, CacheTyped
<1>3. owner[info[v]] = v /\ owner[info[v]] = w
  BY <1>1, <1>2 DEF CacheInv, Matching
<1> QED BY <1>3

LEMMA FoundApart ==
  ASSUME CacheInv, NEW t \in CubeTiles, NEW s \in SourceTiles, info[t] # None
  PROVE  info[t] # info[s]
<1>1. t \in Tiles /\ s \in Tiles /\ t # s
  BY TileAssumption DEF Tiles
<1> QED BY <1>1, FoundOnce

(* The texture of a handle is in use.                                      *)
LEMMA HandleHeld ==
  ASSUME IInv, RefsInv, NEW i \in DOMAIN handles, handles[i].object # None
  PROVE  handles[i].object \in Objects /\ refs[handles[i].object] > 0
<1>1. PICK h : h = handles[i]
  OBVIOUS
<1>2. PICK o \in Objects : o = h.object
  BY <1>1, HandleTyped
<1>3. h.sources \in Seq(Objects)
  BY <1>1, HandleTyped
<1>4. Tally(h.sources, {o}) \in Nat
  BY <1>3, TallySome
<1>5. Holds(h) \in Seq(Objects) /\ Tally(Holds(h), {o}) = Tally(h.sources, {o}) + 1
  BY <1>2, <1>3, HoldsCounted
<1>6. Tally(Holds(h), {o}) > 0
  BY <1>4, <1>5
<1>7. o \in Elements(Holds(h))
  BY <1>5, <1>6, TallySome
<1>8. refs[o] > 0
  BY <1>1, <1>7, ReferredTo
<1> QED BY <1>1, <1>2, <1>8

(* Nothing is written, and tiles that are done with are so still.          *)
LEMMA FoundKept ==
  ASSUME NEW v, NEW what, NEW k, Found(v, what, k),
         info'[v] = None \/ (info'[v] = info[v] /\ content'[info[v]] = content[info[v]]),
         Do(what, v) \in Elements(calls) => Do(what, v) \in Elements(calls')
  PROVE  Found(v, what, k)'
BY DEF Found, Do, Elements

LEMMA RightKept ==
  ASSUME KeptTyped, NEW h, h.since \in Nat, Right(h), version' \in Nat, version <= version',
         h.object # None => info'[h.tile] = info[h.tile] /\ content'[h.object] = content[h.object]
  PROVE  Right(h)'
<1> SUFFICES ASSUME h.object # None PROVE Right(h)'
  BY DEF Right
<1>1. version \in Nat
  BY DEF KeptTyped
<1>2. PICK k \in h.since..version : content[h.object] = Made(h.tile, k)
  BY DEF Right
<1>3. k \in h.since..version'
  BY <1>1, <1>2
<1>4. content'[h.object] = Made(h.tile, k)
  BY <1>2
<1>5. info'[h.tile] = h.object
  BY DEF Right
<1> QED BY <1>3, <1>4, <1>5 DEF Right, Made

(* A step that writes no texture and gives none to a tile.                 *)
LEMMA ContentKept ==
  ASSUME IInv, ContentInv, UNCHANGED <<info, content, seen, version>>,
         \A what, v : what \in {"rendered", "load"} /\ Do(what, v) \in Elements(calls) => Do(what, v) \in Elements(calls'),
         \A i \in DOMAIN handles' : \E j \in DOMAIN handles : handles'[i] = handles[j]
  PROVE  ContentInv'
<1>1. ContentTyped'
  BY DEF ContentInv, ContentTyped
<1>2. ASSUME NEW t \in CubeTiles PROVE Found(t, "rendered", Made(t, seen[t]))'
  <2>1. PICK k : k = Made(t, seen[t])
    OBVIOUS
  <2>2. Found(t, "rendered", k)
    BY <2>1 DEF ContentInv
  <2>3. Found(t, "rendered", k)'
    BY <2>2, FoundKept
  <2>4. k = Made(t, seen'[t])
    BY <2>1
  <2> QED BY <2>3, <2>4 DEF Found, Made
<1>3. ASSUME NEW s \in SourceTiles PROVE Found(s, "load", <<s, seen[s]>>)'
  <2>1. PICK k : k = <<s, seen[s]>>
    OBVIOUS
  <2>2. Found(s, "load", k)
    BY <2>1 DEF ContentInv
  <2>3. Found(s, "load", k)'
    BY <2>2, FoundKept
  <2> QED BY <2>1, <2>3 DEF Found
<1>4. ASSUME NEW i \in DOMAIN handles' PROVE Right(handles[i])'
  <2>1. PICK j \in DOMAIN handles : handles'[i] = handles[j]
    OBVIOUS
  <2>2. PICK h : h = handles[j]
    OBVIOUS
  <2>3. Right(h) /\ h.since \in Nat
    BY <2>2, HandleTyped DEF ContentInv
  <2>4. version \in Nat
    BY DEF IInv, KeptTyped
  <2>5. Right(h)'
    BY <2>3, <2>4, RightKept DEF IInv
  <2> QED BY <2>1, <2>2, <2>5 DEF Right, Made
<1> QED BY <1>1, <1>2, <1>3, <1>4 DEF ContentInv

LEMMA StaysOut ==
  ASSUME IInv, calls # <<>>, NEW e \in Seq(Entries(Objects)), Continue(e)
  PROVE  \A what, v : Do(what, v) \in Elements(calls) /\ ~(Head(calls).do = what /\ On = v)
                        => Do(what, v) \in Elements(calls')
<1> SUFFICES ASSUME NEW what, NEW v, Do(what, v) \in Elements(calls), ~(Head(calls).do = what /\ On = v)
             PROVE  Do(what, v) \in Elements(calls')
  OBVIOUS
<1>1. PICK y : y = Do(what, v)
  OBVIOUS
<1>2. y # Head(calls)
  BY <1>1 DEF Do, On
<1> QED BY <1>1, <1>2, StaysCalled

(* A texture that a tile obtains was its own or is nobody's, so that what  *)
(* others find and hold stays as it is.                                    *)
LEMMA ObtainedContent ==
  ASSUME IInv, RefsInv, UseInv, ContentInv, UNCHANGED tileVars, NEW u \in Tiles, NEW o, Obtains(u, o),
         \A what, v : what \in {"rendered", "load"} /\ Do(what, v) \in Elements(calls) => Do(what, v) \in Elements(calls'),
         info[u] = None /\ u \in CubeTiles => Do("rendered", u) \in Elements(calls'),
         info[u] = None /\ u \in SourceTiles => Do("load", u) \in Elements(calls')
  PROVE  ContentInv'
<1>1. UNCHANGED <<version, seen, content, handles>>
  BY DEF tileVars
<1>2. u \in Volatiles /\ CubeTiles \subseteq Tiles /\ SourceTiles \subseteq Tiles /\ Tiles = Volatiles
  BY TileAssumption DEF Tiles
<1>3. ASSUME NEW v \in Tiles PROVE v # u => info'[v] = None \/ info'[v] = info[v]
  BY <1>2 DEF Obtains
<1>4. info[u] # None => info' = info
  BY DEF Obtains
<1>5. ContentTyped'
  BY <1>1 DEF ContentInv, ContentTyped
<1>6. ASSUME NEW v \in Tiles, NEW what \in {"rendered", "load"}, NEW k, Found(v, what, k),
             info[u] = None /\ v = u => Do(what, v) \in Elements(calls')
      PROVE  Found(v, what, k)'
  <2>1. CASE v = u /\ info[u] = None
    <3>1. Do(what, v) \in Elements(calls')
      BY <1>6, <2>1
    <3> QED BY <3>1 DEF Found, Do, Elements
  <2>2. CASE ~(v = u /\ info[u] = None)
    <3>1. info'[v] = None \/ (info'[v] = info[v] /\ content'[info[v]] = content[info[v]])
      BY <1>1, <1>3, <1>4, <2>2
    <3>2. Do(what, v) \in Elements(calls) => Do(what, v) \in Elements(calls')
      OBVIOUS
    <3> QED BY <1>6, <3>1, <3>2, FoundKept
  <2> QED BY <2>1, <2>2
<1>7. ASSUME NEW t \in CubeTiles PROVE Found(t, "rendered", Made(t, seen[t]))'
  <2>1. PICK k : k = Made(t, seen[t])
    OBVIOUS
  <2>2. Found(t, "rendered", k)
    BY <2>1 DEF ContentInv
  <2>3. t \in Tiles /\ (info[u] = None /\ t = u => Do("rendered", t) \in Elements(calls'))
    BY <1>2
  <2>4. Found(t, "rendered", k)'
    BY <1>6, <2>2, <2>3
  <2>5. k = Made(t, seen'[t])
    BY <1>1, <2>1
  <2> QED BY <2>4, <2>5 DEF Found, Made
<1>8. ASSUME NEW s \in SourceTiles PROVE Found(s, "load", <<s, seen[s]>>)'
  <2>1. PICK k : k = <<s, seen[s]>>
    OBVIOUS
  <2>2. Found(s, "load", k)
    BY <2>1 DEF ContentInv
  <2>3. s \in Tiles /\ (info[u] = None /\ s = u => Do("load", s) \in Elements(calls'))
    BY <1>2
  <2>4. Found(s, "load", k)'
    BY <1>6, <2>2, <2>3
  <2>5. k = <<s, seen'[s]>>
    BY <1>1, <2>1
  <2> QED BY <2>4, <2>5 DEF Found
<1>9. ASSUME NEW i \in DOMAIN handles PROVE Right(handles[i])'
  <2>1. PICK h : h = handles[i]
    OBVIOUS
  <2>2. Right(h) /\ h.since \in Nat /\ h.tile \in CubeTiles
    BY <2>1, HandleTyped DEF ContentInv
  <2>3. version \in Nat
    BY DEF IInv, KeptTyped
  <2>4. ASSUME h.object # None PROVE info'[h.tile] = info[h.tile]
    <3>1. PICK x : x = h.object
      OBVIOUS
    <3>2. x \in Objects /\ refs[x] > 0 /\ info[h.tile] = x /\ x # None
      BY <2>1, <2>2, <2>4, <3>1, HandleHeld DEF Right
    <3>3. CASE info' = info
      BY <3>3
    <3>4. CASE info' # info
      <4>1. /\ info[u] = None /\ (o \notin created \/ o \in Idling(CacheOf[o])) /\ o \in Objects
            /\ \A w \in Volatiles : w # u => info'[w] = IF info[w] = o THEN None ELSE info[w]
        BY <3>4 DEF Obtains
      <4>2. refs[o] = 0
        BY <4>1 DEF UseInv
      <4>3. x # o
        BY <3>2, <4>2
      <4>4. h.tile # u /\ h.tile \in Volatiles
        BY <1>2, <2>2, <3>2, <4>1
      <4> QED BY <3>2, <4>1, <4>3, <4>4
    <3> QED BY <3>3, <3>4
  <2>5. Right(h)'
    BY <1>1, <2>2, <2>3, <2>4, RightKept DEF IInv
  <2> QED BY <1>1, <2>1, <2>5 DEF Right, Made
<1>10. \A i \in DOMAIN handles' : Right(handles[i])'
  BY <1>1, <1>9
<1> QED BY <1>5, <1>7, <1>8, <1>10 DEF ContentInv

LEMMA FindContent ==
  ASSUME IInv, RefsInv, ShapeInv, UseInv, ContentInv, Find
  PROVE  ContentInv'
<1>1. On \in CubeTiles /\ On \in Volatiles /\ Tail(calls) = <<>>
  BY FindBelow
<1>2. calls # <<>> /\ Head(calls).do = "find" /\ Acquire(On) /\ UNCHANGED tileVars
  BY DEF Find, Doing
<1>3. PICK t \in CubeTiles : t = On
  BY <1>1
<1>4. PICK o : Obtains(t, o)
  BY <1>1, <1>2, <1>3, AcquireObtains DEF IInv
<1>5. PICK e \in Seq(Entries(Objects)) : Continue(e)
  BY FindEntries
<1>6. \A what, v : what \in {"rendered", "load"} /\ Do(what, v) \in Elements(calls) => Do(what, v) \in Elements(calls')
  BY <1>2, <1>5, StaysOut
<1>7. ASSUME info[t] = None PROVE Do("rendered", t) \in Elements(calls')
  <2>1. OutOfDate(t)
    BY <1>7 DEF OutOfDate
  <2>2. calls' = Remaining(t, 0)
    BY <1>3, <2>1, FindCalls
  <2>3. PICK m \in Nat : m = Len(Covers[t])
    BY CoversTyped
  <2>4. PICK r : r = Remaining(t, 0)
    OBVIOUS
  <2>5. 0 \in 0..(m + 1) /\ m + 1 \in 1..(m - 0 + 2)
    OBVIOUS
  <2>6. /\ r \in Seq(TileCalls) /\ Len(r) = m - 0 + 2
        /\ \A i \in 1..(m - 0 + 2) :
             r[i] = IF i <= m - 0 THEN Do("draw", Covers[t][0 + i])
                    ELSE IF i = m - 0 + 1 THEN Do("rendered", t) ELSE Do("handOut", t)
    BY <2>3, <2>4, <2>5, RemainingTyped
  <2>7. r[m + 1] = Do("rendered", t) /\ m + 1 \in DOMAIN r
    BY <2>5, <2>6
  <2>8. Do("rendered", t) \in Elements(r)
    BY <2>7 DEF Elements
  <2>9. PICK c : c = calls'
    OBVIOUS
  <2> QED BY <2>2, <2>4, <2>8, <2>9
<1>8. t \in Tiles /\ t \notin SourceTiles
  BY TileAssumption DEF Tiles
<1> QED BY <1>2, <1>4, <1>6, <1>7, <1>8, ObtainedContent

LEMMA DrawContent ==
  ASSUME IInv, RefsInv, ShapeInv, UseInv, ContentInv, Draw
  PROVE  ContentInv'
<1>1. On \in SourceTiles /\ On \in Volatiles
  BY DrawBelow
<1>2. calls # <<>> /\ Head(calls).do = "draw" /\ Acquire(On) /\ UNCHANGED tileVars
  BY DEF Draw, Doing
<1>3. PICK s \in SourceTiles : s = On
  BY <1>1
<1>4. PICK o : Obtains(s, o)
  BY <1>1, <1>2, <1>3, AcquireObtains DEF IInv
<1>5. PICK e \in Seq(Entries(Objects)) : Continue(e)
  BY FindEntries
<1>6. \A what, v : what \in {"rendered", "load"} /\ Do(what, v) \in Elements(calls) => Do(what, v) \in Elements(calls')
  BY <1>2, <1>5, StaysOut
<1>7. ASSUME info[s] = None PROVE Do("load", s) \in Elements(calls')
  <2>1. OutOfDate(s)
    BY <1>7 DEF OutOfDate
  <2>2. PICK x : x = Do("load", s)
    OBVIOUS
  <2>3. PICK y : y = Do("drawn", s)
    OBVIOUS
  <2>4. PICK r : r = Tail(calls)
    OBVIOUS
  <2>5. r \in Seq(TileCalls) /\ calls' = <<x>> \o (<<y>> \o r)
    BY <1>3, <2>1, <2>2, <2>3, <2>4, DrawCalls
  <2>6. x \in TileCalls /\ y \in TileCalls
    BY <2>2, <2>3, CallKinds
  <2>7. PICK q : q = <<y>> \o r
    OBVIOUS
  <2>8. q \in Seq(TileCalls)
    BY <2>5, <2>6, <2>7, Pushing
  <2>9. PICK c : c = calls'
    OBVIOUS
  <2>10. c = <<x>> \o q
    BY <2>5, <2>7, <2>9
  <2>11. x \in Elements(c)
    <3>1. PICK p : p = <<x>>
      OBVIOUS
    <3>2. p \in Seq(TileCalls) /\ Elements(p) = {x}
      BY <2>6, <3>1 DEF Elements
    <3>3. Elements(p \o q) = Elements(p) \cup Elements(q)
      BY <2>8, <3>2, ElementsConcat
    <3>4. c = p \o q
      BY <2>10, <3>1
    <3> QED BY <3>2, <3>3, <3>4
  <2> QED BY <2>2, <2>9, <2>11
<1>8. s \in Tiles /\ s \notin CubeTiles
  BY TileAssumption DEF Tiles
<1> QED BY <1>2, <1>4, <1>6, <1>7, <1>8, ObtainedContent

(* A texture that is written belongs to one tile: what others find stays.  *)
LEMMA WrittenApart ==
  ASSUME IInv, NEW u \in Tiles, info[u] # None, NEW v \in Tiles, v # u, info'[v] = info[v],
         NEW c, content' = [content EXCEPT ![info[u]] = c], NEW what, NEW k, Found(v, what, k),
         Do(what, v) \in Elements(calls) => Do(what, v) \in Elements(calls')
  PROVE  Found(v, what, k)'
<1>1. CASE info[v] = None
  <2>1. info'[v] = None \/ (info'[v] = info[v] /\ content'[info[v]] = content[info[v]])
    BY <1>1
  <2> QED BY <2>1, FoundKept
<1>2. CASE info[v] # None
  <2>1. info[v] # info[u]
    BY <1>2, FoundOnce DEF IInv
  <2>2. content'[info[v]] = content[info[v]]
    BY <2>1
  <2>3. info'[v] = None \/ (info'[v] = info[v] /\ content'[info[v]] = content[info[v]])
    BY <2>2
  <2> QED BY <2>3, FoundKept
<1> QED BY <1>1, <1>2

LEMMA LoadContent ==
  ASSUME IInv, ContentInv, Load
  PROVE  ContentInv'
<1>1. calls # <<>> /\ Head(calls).do = "load"
  BY DEF Load, Doing
<1>2. On \in SourceTiles /\ info[On] # None
  BY <1>1, TheCall DEF IInv
<1>3. PICK s \in SourceTiles : s = On /\ info[s] # None
  BY <1>2
<1>4. PICK h \in Objects : Allocate("height", h) /\ Continue(<<Do("drop", h)>>)
  BY DEF Load
<1>5. PICK e : e = <<Do("drop", h)>>
  OBVIOUS
<1>6. e \in Seq(Entries(Objects)) /\ Continue(e)
  BY <1>4, <1>5, OneDrop
<1>7. \A v \in Tiles : info'[v] = info[v]
  BY <1>4, AllocateStep, TileAssumption DEF IInv
<1>8. PICK o \in Objects : o = info[s]
  BY <1>3, TileAssumption DEF IInv, CacheInv, CacheTyped, Tiles
<1>9. /\ content' = [content EXCEPT ![info[s]] = <<s, version>>] /\ seen' = [seen EXCEPT ![s] = version]
      /\ UNCHANGED <<version, handles>>
  BY <1>3 DEF Load
<1>10. seen \in [Tiles -> Nat] /\ DOMAIN content = Objects /\ version \in Nat
  BY DEF ContentInv, ContentTyped, IInv, KeptTyped
<1>11. CubeTiles \subseteq Tiles /\ SourceTiles \subseteq Tiles /\ s \in Tiles /\ s \notin CubeTiles
  BY TileAssumption DEF Tiles
<1>12. ContentTyped'
  BY <1>9, <1>10, <1>11 DEF ContentTyped
<1>13. \A what, v : Do(what, v) \in Elements(calls) /\ ~(Head(calls).do = what /\ On = v) => Do(what, v) \in Elements(calls')
  BY <1>1, <1>6, StaysOut
<1>14. ASSUME NEW t \in CubeTiles PROVE Found(t, "rendered", Made(t, seen[t]))'
  <2>1. PICK k : k = Made(t, seen[t])
    OBVIOUS
  <2>2. Found(t, "rendered", k)
    BY <2>1 DEF ContentInv
  <2>3. t \in Tiles /\ t # s /\ info'[t] = info[t]
    BY <1>7, <1>11
  <2>4. Do("rendered", t) \in Elements(calls) => Do("rendered", t) \in Elements(calls')
    BY <1>1, <1>13
  <2>5. PICK c : content' = [content EXCEPT ![info[s]] = c]
    BY <1>9
  <2>6. Found(t, "rendered", k)'
    BY <1>3, <1>11, <2>2, <2>3, <2>4, <2>5, WrittenApart
  <2>7. seen'[t] = seen[t]
    BY <1>9, <1>10, <2>3
  <2>8. k = Made(t, seen'[t])
    BY <2>1, <2>7
  <2> QED BY <2>6, <2>8 DEF Found, Made
<1>15. ASSUME NEW v \in SourceTiles PROVE Found(v, "load", <<v, seen[v]>>)'
  <2>1. CASE v = s
    <3>1. content'[info'[s]] = <<s, seen'[s]>>
      BY <1>7, <1>8, <1>9, <1>10, <1>11
    <3> QED BY <2>1, <3>1 DEF Found
  <2>2. CASE v # s
    <3>1. PICK k : k = <<v, seen[v]>>
      OBVIOUS
    <3>2. Found(v, "load", k)
      BY <3>1 DEF ContentInv
    <3>3. v \in Tiles /\ info'[v] = info[v]
      BY <1>7, <1>11
    <3>4. Do("load", v) \in Elements(calls) => Do("load", v) \in Elements(calls')
      BY <1>3, <1>13, <2>2
    <3>5. PICK c : content' = [content EXCEPT ![info[s]] = c]
      BY <1>9
    <3>6. Found(v, "load", k)'
      BY <1>3, <1>11, <2>2, <3>2, <3>3, <3>4, <3>5, WrittenApart
    <3>7. seen'[v] = seen[v]
      BY <1>9, <1>10, <2>2, <3>3
    <3>8. k = <<v, seen'[v]>>
      BY <3>1, <3>7
    <3> QED BY <3>6, <3>8 DEF Found
  <2> QED BY <2>1, <2>2
<1>16. ASSUME NEW i \in DOMAIN handles PROVE Right(handles[i])'
  <2>1. PICK g : g = handles[i]
    OBVIOUS
  <2>2. Right(g) /\ g.since \in Nat /\ g.tile \in CubeTiles
    BY <2>1, HandleTyped DEF ContentInv
  <2>3. ASSUME g.object # None PROVE info'[g.tile] = info[g.tile] /\ content'[g.object] = content[g.object]
    <3>1. info[g.tile] = g.object
      BY <2>2, <2>3 DEF Right
    <3>2. g.object # info[s]
      BY <2>2, <2>3, <3>1, FoundApart DEF IInv
    <3> QED BY <1>7, <1>9, <1>11, <2>2, <3>2
  <2>4. version' \in Nat /\ version <= version'
    BY <1>9, <1>10
  <2>5. Right(g)'
    BY <2>2, <2>3, <2>4, RightKept DEF IInv
  <2> QED BY <1>9, <2>1, <2>5 DEF Right, Made
<1>17. \A i \in DOMAIN handles' : Right(handles[i])'
  BY <1>9, <1>16
<1> QED BY <1>12, <1>14, <1>15, <1>17 DEF ContentInv

(* A cube tile that is rendered has what was drawn for it.                 *)
LEMMA RenderedContent ==
  ASSUME IInv, ShapeInv, ContentInv, Rendered
  PROVE  ContentInv' /\ content'[info[On]] = Made(On, version)
<1>1. calls # <<>> /\ Head(calls).do = "rendered"
  BY DEF Rendered, Doing
<1>2. On \in CubeTiles /\ info[On] # None
  BY <1>1, TheCall DEF IInv
<1>3. PICK t \in CubeTiles : t = On /\ info[t] # None
  BY <1>2
<1>4. PICK o \in Objects : o = info[t]
  BY <1>3, TileAssumption DEF IInv, CacheInv, CacheTyped, Tiles
<1>5. rendering.drawn = [i \in 1..Len(Covers[t]) |-> <<Covers[t][i], version>>]
  BY <1>1, <1>3, ShapeTop DEF AfterRendered, DrawnFor
<1>6. DOMAIN Covers[t] = 1..Len(Covers[t])
  BY CoversTyped
<1>7. <<t, rendering.drawn>> = Made(t, version)
  BY <1>5, <1>6 DEF Made
<1>8. /\ content' = [content EXCEPT ![info[t]] = Made(t, version)] /\ seen' = [seen EXCEPT ![t] = version]
      /\ UNCHANGED <<version, handles, info>>
  BY <1>3, <1>7 DEF Rendered, cacheVars, references
<1>9. PICK e : e = Drops(sources[o])
  OBVIOUS
<1>10. e \in Seq(Entries(Objects)) /\ Continue(e)
  <2>1. sources[o] \in Seq(created) /\ created \subseteq Objects
    BY DEF IInv, KeptTyped, CacheInv, CacheTyped
  <2>2. sources[o] \in Seq(Objects)
    BY <2>1, SeqGrows
  <2> QED BY <1>3, <1>4, <1>9, <2>2, DropsOwed DEF Rendered
<1>11. seen \in [Tiles -> Nat] /\ DOMAIN content = Objects /\ version \in Nat
  BY DEF ContentInv, ContentTyped, IInv, KeptTyped
<1>12. CubeTiles \subseteq Tiles /\ SourceTiles \subseteq Tiles /\ t \in Tiles /\ t \notin SourceTiles
  BY TileAssumption DEF Tiles
<1>13. ContentTyped'
  BY <1>8, <1>11, <1>12 DEF ContentTyped
<1>14. \A what, v : Do(what, v) \in Elements(calls) /\ ~(Head(calls).do = what /\ On = v) => Do(what, v) \in Elements(calls')
  BY <1>1, <1>10, StaysOut
<1>15. content'[o] = Made(t, version) /\ content'[info[On]] = Made(On, version)
  BY <1>3, <1>4, <1>8, <1>11
<1>16. ASSUME NEW v \in CubeTiles PROVE Found(v, "rendered", Made(v, seen[v]))'
  <2>1. CASE v = t
    <3>1. seen'[t] = version
      BY <1>8, <1>11, <1>12
    <3>2. content'[info'[t]] = Made(t, seen'[t])
      BY <1>4, <1>8, <1>15, <3>1
    <3> QED BY <2>1, <3>2 DEF Found, Made
  <2>2. CASE v # t
    <3>1. PICK k : k = Made(v, seen[v])
      OBVIOUS
    <3>2. Found(v, "rendered", k)
      BY <3>1 DEF ContentInv
    <3>3. v \in Tiles /\ info'[v] = info[v]
      BY <1>8, <1>12
    <3>4. Do("rendered", v) \in Elements(calls) => Do("rendered", v) \in Elements(calls')
      BY <1>3, <1>14, <2>2
    <3>5. PICK c : content' = [content EXCEPT ![info[t]] = c]
      BY <1>8
    <3>6. Found(v, "rendered", k)'
      BY <1>3, <1>12, <2>2, <3>2, <3>3, <3>4, <3>5, WrittenApart
    <3>7. seen'[v] = seen[v]
      BY <1>8, <1>11, <2>2, <3>3
    <3>8. k = Made(v, seen'[v])
      BY <3>1, <3>7
    <3> QED BY <3>6, <3>8 DEF Found, Made
  <2> QED BY <2>1, <2>2
<1>17. ASSUME NEW s \in SourceTiles PROVE Found(s, "load", <<s, seen[s]>>)'
  <2>1. PICK k : k = <<s, seen[s]>>
    OBVIOUS
  <2>2. Found(s, "load", k)
    BY <2>1 DEF ContentInv
  <2>3. s \in Tiles /\ s # t /\ info'[s] = info[s]
    BY <1>8, <1>12
  <2>4. Do("load", s) \in Elements(calls) => Do("load", s) \in Elements(calls')
    BY <1>1, <1>14
  <2>5. PICK c : content' = [content EXCEPT ![info[t]] = c]
    BY <1>8
  <2>6. Found(s, "load", k)'
    BY <1>3, <1>12, <2>2, <2>3, <2>4, <2>5, WrittenApart
  <2>7. seen'[s] = seen[s]
    BY <1>8, <1>11, <2>3
  <2>8. k = <<s, seen'[s]>>
    BY <2>1, <2>7
  <2> QED BY <2>6, <2>8 DEF Found
<1>18. ASSUME NEW i \in DOMAIN handles PROVE Right(handles[i])'
  <2>1. PICK g : g = handles[i]
    OBVIOUS
  <2>2. Right(g) /\ g.since \in Nat /\ g.tile \in CubeTiles
    BY <2>1, HandleTyped DEF ContentInv
  <2>3. CASE g.object # o \/ g.object = None
    <3>1. g.object # None => info'[g.tile] = info[g.tile] /\ content'[g.object] = content[g.object]
      BY <1>4, <1>8, <2>3
    <3>2. version' \in Nat /\ version <= version'
      BY <1>8, <1>11
    <3>3. Right(g)'
      BY <2>2, <3>1, <3>2, RightKept DEF IInv
    <3> QED BY <1>8, <2>1, <3>3 DEF Right, Made
  <2>4. CASE g.object = o /\ g.object # None
    <3>1. info[g.tile] = o
      BY <2>2, <2>4 DEF Right
    <3>2. g.tile = t
      BY <1>3, <1>4, <1>12, <2>2, <3>1, FoundOnce DEF IInv
    <3>3. PICK k \in g.since..version : content[g.object] = Made(g.tile, k)
      BY <2>2, <2>4 DEF Right
    <3>4. version \in g.since..version'
      BY <1>8, <1>11, <2>2, <3>3
    <3>5. content'[g.object] = Made(g.tile, version) /\ info'[g.tile] = g.object
      BY <1>8, <1>15, <2>4, <3>1, <3>2
    <3>6. Right(g)'
      BY <3>4, <3>5 DEF Right, Made
    <3> QED BY <1>8, <2>1, <3>6 DEF Right, Made
  <2> QED BY <2>3, <2>4
<1>19. \A i \in DOMAIN handles' : Right(handles[i])'
  BY <1>8, <1>18
<1> QED BY <1>13, <1>15, <1>16, <1>17, <1>19 DEF ContentInv

(* A client gets the texture that its tile finds.                          *)
LEMMA HandOutContent ==
  ASSUME IInv, ShapeInv, ContentInv, HandOut
  PROVE  ContentInv'
<1>1. calls # <<>> /\ Head(calls).do = "handOut"
  BY DEF HandOut, Doing
<1>2. On \in CubeTiles /\ info[On] # None
  BY <1>1, TheCall DEF IInv
<1>3. PICK o \in Objects : o = info[On]
  BY <1>2, TileAssumption DEF IInv, CacheInv, CacheTyped, Tiles
<1>4. PICK e : e = IF keep["cube"] THEN <<>> ELSE <<Do("drop", o)>>
  OBVIOUS
<1>5. PICK h : h = [tile |-> On, object |-> IF keep["cube"] THEN o ELSE None,
                    sources |-> sources[o], since |-> version]
  OBVIOUS
<1>6. /\ e \in Seq(Entries(Objects)) /\ Continue(e) /\ UNCHANGED <<info, content, seen, version>>
      /\ handles' = Append(handles, h)
  BY <1>3, <1>4, <1>5, OneDrop DEF HandOut, references
<1>7. \A what, v : Do(what, v) \in Elements(calls) /\ ~(Head(calls).do = what /\ On = v) => Do(what, v) \in Elements(calls')
  BY <1>1, <1>6, StaysOut
<1>8. content[o] = Made(On, version)
  BY <1>1, <1>3, ShapeTop DEF AfterHandOut
<1>9. version \in Nat
  BY DEF IInv, KeptTyped
<1>10. ContentTyped'
  BY <1>6 DEF ContentInv, ContentTyped
<1>11. ASSUME NEW t \in CubeTiles PROVE Found(t, "rendered", Made(t, seen[t]))'
  <2>1. PICK k : k = Made(t, seen[t])
    OBVIOUS
  <2>2. Found(t, "rendered", k)
    BY <2>1 DEF ContentInv
  <2>3. Do("rendered", t) \in Elements(calls) => Do("rendered", t) \in Elements(calls')
    BY <1>1, <1>7
  <2>4. Found(t, "rendered", k)'
    BY <1>6, <2>2, <2>3, FoundKept
  <2>5. k = Made(t, seen'[t])
    BY <1>6, <2>1
  <2> QED BY <2>4, <2>5 DEF Found, Made
<1>12. ASSUME NEW s \in SourceTiles PROVE Found(s, "load", <<s, seen[s]>>)'
  <2>1. PICK k : k = <<s, seen[s]>>
    OBVIOUS
  <2>2. Found(s, "load", k)
    BY <2>1 DEF ContentInv
  <2>3. Do("load", s) \in Elements(calls) => Do("load", s) \in Elements(calls')
    BY <1>1, <1>7
  <2>4. Found(s, "load", k)'
    BY <1>6, <2>2, <2>3, FoundKept
  <2> QED BY <1>6, <2>1, <2>4 DEF Found
<1>13. Right(h)'
  <2> SUFFICES ASSUME h.object # None PROVE Right(h)'
    BY DEF Right
  <2>1. h.object = o /\ h.tile = On /\ h.since = version
    BY <1>5
  <2>2. info'[h.tile] = h.object /\ content'[h.object] = Made(h.tile, version)
    BY <1>3, <1>6, <1>8, <2>1
  <2>3. version \in h.since..version'
    BY <1>6, <1>9, <2>1
  <2> QED BY <2>2, <2>3 DEF Right, Made
<1>14. ASSUME NEW i \in DOMAIN handles' PROVE Right(handles[i])'
  <2>1. PICK n \in Nat : n = Len(handles) /\ DOMAIN handles = 1..n
    BY DEF IInv, KeptTyped, HandlesTyped
  <2>2. PICK S : handles \in Seq(S)
    BY DEF IInv, KeptTyped, HandlesTyped
  <2>3. i \in 1..(n + 1) /\ handles'[i] = IF i = n + 1 THEN h ELSE handles[i]
    BY <1>6, <2>1, <2>2
  <2>4. CASE i = n + 1
    BY <1>13, <2>3, <2>4 DEF Right, Made
  <2>5. CASE i # n + 1
    <3>1. i \in DOMAIN handles /\ handles'[i] = handles[i]
      BY <2>1, <2>3, <2>5
    <3>2. PICK g : g = handles[i]
      OBVIOUS
    <3>3. Right(g) /\ g.since \in Nat
      BY <3>1, <3>2, HandleTyped DEF ContentInv
    <3>4. Right(g)'
      BY <1>6, <1>9, <3>3, RightKept DEF IInv
    <3> QED BY <3>1, <3>2, <3>4 DEF Right, Made
  <2> QED BY <2>4, <2>5
<1> QED BY <1>10, <1>11, <1>12, <1>14 DEF ContentInv

(* The other calls write no texture and give none to a tile.               *)
LEMMA CallsContent ==
  ASSUME IInv, ContentInv, UNCHANGED <<info, content, seen, version, handles>>,
         calls # <<>>, Head(calls).do \notin {"rendered", "load"},
         NEW e \in Seq(Entries(Objects)), Continue(e)
  PROVE  ContentInv'
<1>1. \A what, v : what \in {"rendered", "load"} /\ Do(what, v) \in Elements(calls) => Do(what, v) \in Elements(calls')
  BY StaysOut
<1>2. \A i \in DOMAIN handles' : \E j \in DOMAIN handles : handles'[i] = handles[j]
  OBVIOUS
<1> QED BY <1>1, <1>2, ContentKept

LEMMA StartContent ==
  ASSUME IInv, ContentInv, UNCHANGED <<info, content, seen, version>>, calls = <<>>,
         \A i \in DOMAIN handles' : \E j \in DOMAIN handles : handles'[i] = handles[j]
  PROVE  ContentInv'
<1>1. Elements(calls) = {}
  BY ElementsEmpty
<1>2. \A what, v : what \in {"rendered", "load"} /\ Do(what, v) \in Elements(calls) => Do(what, v) \in Elements(calls')
  BY <1>1
<1> QED BY <1>2, ContentKept

LEMMA DrawnContent ==
  ASSUME IInv, ContentInv, Drawn
  PROVE  ContentInv'
<1>1. calls # <<>> /\ Head(calls).do = "drawn"
  BY DEF Drawn, Doing
<1>2. On \in SourceTiles /\ info[On] # None
  BY <1>1, TheCall DEF IInv
<1>3. PICK o \in Objects : o = info[On]
  BY <1>2, FoundKinds DEF IInv, SourceTextures
<1>4. PICK e : e = IF keep["source"] THEN <<>> ELSE <<Do("drop", o)>>
  OBVIOUS
<1>5. e \in Seq(Entries(Objects)) /\ Continue(e) /\ UNCHANGED <<info, content, seen, version, handles>>
  BY <1>3, <1>4, OneDrop DEF Drawn, cacheVars, references
<1> QED BY <1>1, <1>5, CallsContent

LEMMA DropContent ==
  ASSUME IInv, ContentInv, Drop
  PROVE  ContentInv'
<1>1. calls # <<>> /\ Head(calls).do = "drop"
  BY DEF Drop, Doing
<1>2. PICK o \in Objects : o = On
  BY <1>1, TheCall DEF IInv, CacheInv, CacheTyped
<1>3. PICK e : e = IF refs[o] > 1 THEN <<>> ELSE <<Do("tell", o), Do("giveBack", o)>>
  OBVIOUS
<1>4. Do("tell", o) \in Entries(Objects) /\ Do("giveBack", o) \in Entries(Objects)
  BY TileEntries
<1>5. e \in Seq(Entries(Objects))
  BY <1>3, <1>4, TwoElements
<1>6. Continue(e) /\ UNCHANGED <<info, content, seen, version, handles>>
  BY <1>2, <1>3 DEF Drop, tileVars, references
<1> QED BY <1>1, <1>5, <1>6, CallsContent

LEMMA TellContent ==
  ASSUME IInv, ContentInv, Tell
  PROVE  ContentInv'
<1>1. calls # <<>> /\ Head(calls).do = "tell"
  BY DEF Tell, Doing
<1>2. PICK o \in Objects : o = On
  BY <1>1, TheCall DEF IInv, CacheInv, CacheTyped
<1>3. PICK e : e = Drops(sources[o])
  OBVIOUS
<1>4. sources[o] \in Seq(created) /\ created \subseteq Objects
  BY DEF IInv, KeptTyped, CacheInv, CacheTyped
<1>5. sources[o] \in Seq(Objects)
  BY <1>4, SeqGrows
<1>6. e \in Seq(Entries(Objects)) /\ Continue(e) /\ UNCHANGED <<info, content, seen, version, handles>>
  BY <1>2, <1>3, <1>5, DropsOwed DEF Tell, cacheVars, references
<1> QED BY <1>1, <1>6, CallsContent

LEMMA ReturnedContent ==
  ASSUME IInv, ContentInv, Returned
  PROVE  ContentInv'
<1>1. calls # <<>> /\ Head(calls).do = "giveBack" /\ UNCHANGED <<info, content, seen, version, handles>>
  BY DEF Returned, Doing, tileVars, GiveBack, references
<1>2. PICK e : e = <<>>
  OBVIOUS
<1>3. e \in Seq(Entries(Objects)) /\ Continue(e)
  BY <1>2 DEF Returned
<1> QED BY <1>1, <1>3, CallsContent

(* Tiles are out of date when the source changes, and what clients have is *)
(* what they got.                                                          *)
LEMMA ChangeSourceContent ==
  ASSUME IInv, ContentInv, ChangeSource
  PROVE  ContentInv'
<1>1. /\ calls = <<>> /\ calls' = <<>> /\ version' = version + 1
      /\ UNCHANGED <<info, content, seen, handles>>
  BY DEF ChangeSource, Start, Idle, cacheVars, references
<1>2. version \in Nat
  BY DEF IInv, KeptTyped
<1>3. ContentTyped'
  BY <1>1 DEF ContentInv, ContentTyped
<1>4. ASSUME NEW t \in CubeTiles PROVE Found(t, "rendered", Made(t, seen[t]))'
  <2>1. Found(t, "rendered", Made(t, seen[t]))
    BY DEF ContentInv
  <2> QED BY <1>1, <2>1 DEF Found, Made, Do, Elements
<1>5. ASSUME NEW s \in SourceTiles PROVE Found(s, "load", <<s, seen[s]>>)'
  <2>1. Found(s, "load", <<s, seen[s]>>)
    BY DEF ContentInv
  <2> QED BY <1>1, <2>1 DEF Found, Do, Elements
<1>6. ASSUME NEW i \in DOMAIN handles' PROVE Right(handles[i])'
  <2>1. PICK h : h = handles[i]
    OBVIOUS
  <2>2. Right(h) /\ h.since \in Nat
    BY <1>1, <2>1, HandleTyped DEF ContentInv
  <2>3. version' \in Nat /\ version <= version'
    BY <1>1, <1>2
  <2>4. Right(h)'
    BY <1>1, <2>2, <2>3, RightKept DEF IInv
  <2> QED BY <1>1, <2>1, <2>4 DEF Right, Made
<1> QED BY <1>3, <1>4, <1>5, <1>6 DEF ContentInv

LEMMA InitContent == Init => ContentInv
<1> SUFFICES ASSUME Init PROVE ContentInv
  OBVIOUS
<1>1. /\ info = [v \in Volatiles |-> None] /\ seen = [t \in Tiles |-> 0] /\ handles = <<>>
      /\ content = [o \in Objects |-> <<>>]
  BY DEF Init, CacheInit
<1>2. \A v \in Tiles : info[v] = None
  BY <1>1, TileAssumption
<1>3. \A v \in CubeTiles \cup SourceTiles : \A what, k : Found(v, what, k)
  BY <1>2 DEF Found, Tiles
<1>4. ContentTyped
  BY <1>1 DEF ContentTyped
<1> QED BY <1>1, <1>3, <1>4 DEF ContentInv

LEMMA StepContent == IInv /\ RefsInv /\ ShapeInv /\ UseInv /\ ContentInv /\ [Next]_vars => ContentInv'
<1> SUFFICES ASSUME IInv, RefsInv, ShapeInv, UseInv, ContentInv, [Next]_vars PROVE ContentInv'
  OBVIOUS
<1>1. CASE \E t \in CubeTiles : GetTileTexture(t)
  <2>1. UNCHANGED <<info, content, seen, version, handles>> /\ calls = <<>>
    BY <1>1 DEF GetTileTexture, Start, Idle, cacheVars, references, tileVars
  <2> QED BY <2>1, StartContent
<1>2. CASE \E i \in DOMAIN handles : DropHandle(i)
  <2>1. PICK i \in DOMAIN handles : DropHandle(i)
    BY <1>2
  <2>2. UNCHANGED <<info, content, seen, version>> /\ calls = <<>> /\ handles' = RemoveAt(handles, i)
    BY <2>1 DEF DropHandle, Start, Idle, cacheVars, references
  <2>3. PICK S : handles \in Seq(S)
    BY DEF IInv, KeptTyped, HandlesTyped
  <2>4. \A j \in DOMAIN handles' : \E k \in DOMAIN handles : handles'[j] = handles[k]
    BY <2>2, <2>3, RemovedElements
  <2> QED BY <2>2, <2>4, StartContent
<1>3. CASE ChangeSource
  BY <1>3, ChangeSourceContent
<1>4. CASE Find
  BY <1>4, FindContent
<1>5. CASE Draw
  BY <1>5, DrawContent
<1>6. CASE Load
  BY <1>6, LoadContent
<1>7. CASE Drawn
  BY <1>7, DrawnContent
<1>8. CASE Rendered
  BY <1>8, RenderedContent
<1>9. CASE HandOut
  BY <1>9, HandOutContent
<1>10. CASE Drop
  BY <1>10, DropContent
<1>11. CASE Tell
  BY <1>11, TellContent
<1>12. CASE Returned
  BY <1>12, ReturnedContent
<1>13. CASE UNCHANGED vars
  <2>1. UNCHANGED <<info, content, seen, version, handles, calls>>
    BY <1>13 DEF vars, cacheVars, tileVars, references
  <2>2. \A what, v : what \in {"rendered", "load"} /\ Do(what, v) \in Elements(calls) => Do(what, v) \in Elements(calls')
    BY <2>1
  <2>3. \A i \in DOMAIN handles' : \E j \in DOMAIN handles : handles'[i] = handles[j]
    BY <2>1
  <2> QED BY <2>1, <2>2, <2>3, ContentKept
<1> QED BY <1>1, <1>2, <1>3, <1>4, <1>5, <1>6, <1>7, <1>8, <1>9, <1>10, <1>11, <1>12, <1>13
        DEF Next
-----------------------------------------------------------------------------
(* How the stack changes. *)

LEMMA ShapeNext ==
  ASSUME NEW d \in Seq(DropCalls(created')), NEW b \in Seq(TileCalls), calls' = d \o b, Base(b)'
  PROVE  ShapeInv'
BY DEF ShapeInv, Layered

LEMMA NoDrops ==
  ASSUME NEW b \in Seq(TileCalls), calls' = b, Base(b)'
  PROVE  ShapeInv'
<1>1. PICK d : d = <<>>
  OBVIOUS
<1>2. d \in Seq(DropCalls(created')) /\ calls' = d \o b
  BY <1>1
<1> QED BY <1>2, ShapeNext

LEMMA DropEntries ==
  ASSUME NEW A
  PROVE  \A x \in A : Do("drop", x) \in DropCalls(A) /\ Do("tell", x) \in DropCalls(A) /\ Do("giveBack", x) \in DropCalls(A)
BY DEF Do, DropCalls

(* Nothing is kept or drawn yet when no call is out.                       *)
LEMMA EmptyShape ==
  ASSUME ShapeInv, calls = <<>>
  PROVE  rendering = NotRendering
<1>1. PICK d \in Seq(DropCalls(created)), b \in Seq(TileCalls) : calls = d \o b /\ Base(b)
  BY DEF ShapeInv, Layered
<1>2. Len(d \o b) = Len(d) + Len(b) /\ Len(d) \in Nat /\ Len(b) \in Nat
  BY <1>1
<1>3. Len(d \o b) = 0
  BY <1>1
<1>4. Len(b) = 0
  BY <1>2, <1>3
<1>5. b = <<>>
  BY <1>4
<1>6. \A x : <<x>> # <<>>
  OBVIOUS
<1>7. SUFFICES ASSUME NEW t \in CubeTiles,
                      \/ ToFind(b, t) \/ ToHandOut(b, t)
                      \/ \E n \in 0..Len(Covers[t]) :
                           \/ ToDraw(b, t, n)
                           \/ \E s \in SourceTiles : ToLoad(b, t, n, s) \/ Loaded(b, t, n, s)
               PROVE  FALSE
  BY <1>1 DEF Base
<1>8. ASSUME NEW n \in 0..Len(Covers[t]) PROVE ~ToDraw(b, t, n)
  BY <1>5, RemainingTop DEF ToDraw
<1>9. ASSUME NEW n \in 0..Len(Covers[t]), NEW s \in SourceTiles
      PROVE  ~ToLoad(b, t, n, s) /\ ~Loaded(b, t, n, s)
  <2> SUFFICES ASSUME n < Len(Covers[t])
               PROVE  ~ToLoad(b, t, n, s) /\ ~Loaded(b, t, n, s)
    BY DEF ToLoad, Loaded
  <2>1. n + 1 \in 0..(Len(Covers[t]) + 1)
    BY CoversTyped
  <2>2. PICK r : r = Remaining(t, n + 1)
    OBVIOUS
  <2>3. r \in Seq(TileCalls)
    BY <2>1, <2>2, RemainingTyped
  <2>4. PICK y \in TileCalls : y = Do("drawn", s)
    BY CallKinds
  <2>5. PICK x \in TileCalls : x = Do("load", s)
    BY CallKinds
  <2>6. PICK q : q = <<y>> \o r
    OBVIOUS
  <2>7. q \in Seq(TileCalls) /\ q # <<>>
    BY <2>3, <2>6, Pushing
  <2>8. <<x>> \o q # <<>>
    BY <2>7, Pushing
  <2> QED BY <1>5, <2>2, <2>4, <2>5, <2>6, <2>7, <2>8 DEF ToLoad, Loaded
<1> QED BY <1>5, <1>6, <1>7, <1>8, <1>9 DEF ToFind, ToHandOut

LEMMA BaseKept ==
  ASSUME NEW b, Base(b), UNCHANGED <<info, content, rendering, version>>
  PROVE  Base(b)'
<1>1. info' = info /\ content' = content /\ rendering' = rendering /\ version' = version
  OBVIOUS
<1>2. \A t, n : DrawnFor(t, n) => DrawnFor(t, n)'
  BY <1>1 DEF DrawnFor
<1>3. \A t : ToFind(b, t) => ToFind(b, t)'
  BY <1>1 DEF ToFind, NotRendering, Do
<1>4. \A t : ToHandOut(b, t) => ToHandOut(b, t)'
  BY <1>1 DEF ToHandOut, NotRendering, Do, Made
<1>5. \A t, n : ToDraw(b, t, n) => ToDraw(b, t, n)'
  BY <1>2 DEF ToDraw, Remaining, Do
<1>6. \A t, n, s : ToLoad(b, t, n, s) => ToLoad(b, t, n, s)'
  BY <1>2 DEF ToLoad, Remaining, Do
<1>7. \A t, n, s : Loaded(b, t, n, s) => Loaded(b, t, n, s)'
  BY <1>1, <1>2 DEF Loaded, Remaining, Do
<1>8. b = <<>> /\ rendering = NotRendering => b = <<>> /\ rendering' = NotRendering
  BY <1>1
<1> QED BY <1>3, <1>4, <1>5, <1>6, <1>7, <1>8 DEF Base, NotRendering

(* Textures that are let go, on what was there before.                     *)
LEMMA DropsOnTop ==
  ASSUME ShapeInv, calls # <<>>, Head(calls).do \in {"drop", "tell", "giveBack"},
         NEW e \in Seq(DropCalls(created)), Continue(e), created' = created,
         UNCHANGED <<info, content, rendering, version>>
  PROVE  ShapeInv'
<1>1. Layered(Tail(calls))
  BY ShapeTop
<1>2. PICK d \in Seq(DropCalls(created)), b \in Seq(TileCalls) : Tail(calls) = d \o b /\ Base(b)
  BY <1>1 DEF Layered
<1>3. PICK A : A = DropCalls(created) \cup TileCalls
  OBVIOUS
<1>4. e \in Seq(A) /\ d \in Seq(A) /\ b \in Seq(A)
  BY <1>3, SeqGrows
<1>5. (e \o d) \o b = e \o (d \o b)
  BY <1>4, ConcatAssociates
<1>6. calls' = (e \o d) \o b
  BY <1>2, <1>5 DEF Continue
<1>7. e \o d \in Seq(DropCalls(created'))
  <2>1. e \o d \in Seq(DropCalls(created))
    BY ElementsConcat
  <2> QED BY <2>1
<1>8. Base(b)'
  BY <1>2, BaseKept
<1>9. PICK f : f = e \o d
  OBVIOUS
<1> QED BY <1>6, <1>7, <1>8, <1>9, ShapeNext

LEMMA DropShape ==
  ASSUME IInv, ShapeInv, Drop
  PROVE  ShapeInv'
<1>1. calls # <<>> /\ Head(calls).do = "drop"
  BY DEF Drop, Doing
<1>2. On \in created
  BY <1>1, TheCall DEF IInv
<1>3. PICK e : e = IF refs[On] > 1 THEN <<>> ELSE <<Do("tell", On), Do("giveBack", On)>>
  OBVIOUS
<1>4. Continue(e) /\ created' = created /\ UNCHANGED <<info, content, rendering, version>>
  BY <1>3 DEF Drop, tileVars, references
<1>5. e \in Seq(DropCalls(created))
  BY <1>2, <1>3, DropEntries, TwoElements
<1> QED BY <1>1, <1>4, <1>5, DropsOnTop

LEMMA TellShape ==
  ASSUME IInv, ShapeInv, Tell
  PROVE  ShapeInv'
<1>1. calls # <<>> /\ Head(calls).do = "tell"
  BY DEF Tell, Doing
<1>2. PICK o \in Objects : o = On
  BY <1>1, TheCall DEF IInv, CacheInv, CacheTyped
<1>3. PICK e : e = Drops(sources[o])
  OBVIOUS
<1>4. sources[o] \in Seq(created)
  BY DEF IInv, KeptTyped
<1>5. e \in Seq(DropCalls(created))
  BY <1>3, <1>4, DropsTyped
<1>6. Continue(e) /\ created' = created /\ UNCHANGED <<info, content, rendering, version>>
  BY <1>2, <1>3 DEF Tell, cacheVars, references
<1> QED BY <1>1, <1>5, <1>6, DropsOnTop

LEMMA ReturnedShape ==
  ASSUME ShapeInv, Returned
  PROVE  ShapeInv'
<1>1. calls # <<>> /\ Head(calls).do = "giveBack"
  BY DEF Returned, Doing
<1>2. PICK e : e = <<>>
  OBVIOUS
<1>3. Continue(e) /\ created' = created /\ UNCHANGED <<info, content, rendering, version>>
  BY <1>2 DEF Returned, GiveBack, tileVars, references
<1>4. e \in Seq(DropCalls(created))
  BY <1>2
<1> QED BY <1>1, <1>3, <1>4, DropsOnTop

(* Calls that start when there is none.                                    *)
LEMMA GetTileTextureShape ==
  ASSUME ShapeInv, NEW t \in CubeTiles, GetTileTexture(t)
  PROVE  ShapeInv'
<1>1. calls = <<>> /\ calls' = <<Do("find", t)>> /\ rendering' = rendering
  BY DEF GetTileTexture, Start, Idle, tileVars
<1>2. PICK b : b = <<Do("find", t)>>
  OBVIOUS
<1>3. b \in Seq(TileCalls)
  BY <1>2, CallKinds, OneElement
<1>4. ToFind(b, t)'
  BY <1>1, <1>2, EmptyShape DEF ToFind, NotRendering, Do
<1>5. Base(b)'
  BY <1>4 DEF Base
<1> QED BY <1>1, <1>2, <1>3, <1>5, NoDrops

LEMMA OnlyDrops ==
  ASSUME calls' \in Seq(DropCalls(created')), rendering' = NotRendering
  PROVE  ShapeInv'
<1>1. PICK b : b = <<>>
  OBVIOUS
<1>2. PICK d \in Seq(DropCalls(created')) : d = calls'
  OBVIOUS
<1>3. calls' = d \o b /\ b \in Seq(TileCalls)
  BY <1>1, <1>2
<1>4. Base(b)'
  BY <1>1 DEF Base, NotRendering
<1> QED BY <1>3, <1>4, ShapeNext

LEMMA DropHandleShape ==
  ASSUME IInv, ShapeInv, NEW i \in DOMAIN handles, DropHandle(i)
  PROVE  ShapeInv'
<1>1. calls = <<>> /\ rendering' = rendering /\ created' = created
  BY DEF DropHandle, Start, Idle, cacheVars
<1>2. calls' \in Seq(DropCalls(created'))
  BY <1>1, HandleDrops
<1> QED BY <1>1, <1>2, EmptyShape, OnlyDrops

LEMMA ChangeSourceShape ==
  ASSUME ShapeInv, ChangeSource
  PROVE  ShapeInv'
<1>1. calls = <<>> /\ calls' = <<>> /\ rendering' = rendering
  BY DEF ChangeSource, Start, Idle
<1>2. calls' \in Seq(DropCalls(created'))
  BY <1>1
<1> QED BY <1>1, <1>2, EmptyShape, OnlyDrops

(* A tile is looked up.                                                    *)
LEMMA FindShape ==
  ASSUME IInv, ShapeInv, ContentInv, Find
  PROVE  ShapeInv'
<1>1. On \in CubeTiles /\ On \in Volatiles /\ Tail(calls) = <<>>
  BY FindBelow
<1>2. /\ calls # <<>> /\ Head(calls).do = "find" /\ Acquire(On)
      /\ UNCHANGED <<rendering, version, content>>
  BY DEF Find, Doing, tileVars
<1>3. PICK t \in CubeTiles : t = On
  BY <1>1
<1>4. PICK o : Obtains(t, o)
  BY <1>1, <1>2, <1>3, AcquireObtains DEF IInv
<1>5. rendering = NotRendering
  BY <1>2, ShapeTop
<1>6. PICK b : b = calls'
  OBVIOUS
<1>7. b \in Seq(TileCalls) /\ b = IF OutOfDate(t) THEN Remaining(t, 0) ELSE <<Do("handOut", t)>>
  BY <1>3, <1>6, FindCalls
<1>8. CASE OutOfDate(t)
  <2>1. rendering'.drawn = [i \in 1..0 |-> <<Covers[t][i], version'>>]
    BY <1>2, <1>5 DEF NotRendering
  <2>2. DrawnFor(t, 0)'
    BY <2>1 DEF DrawnFor
  <2>3. ToDraw(b, t, 0)'
    BY <1>7, <1>8, <2>2 DEF ToDraw, Remaining, Do
  <2>4. 0 \in 0..Len(Covers[t])
    BY CoversTyped
  <2>5. Base(b)'
    BY <2>3, <2>4 DEF Base
  <2> QED BY <1>6, <1>7, <2>5, NoDrops
<1>9. CASE ~OutOfDate(t)
  <2>1. info[t] # None /\ seen[t] = version
    BY <1>9 DEF OutOfDate
  <2>2. info' = info
    BY <1>4, <2>1 DEF Obtains
  <2>3. Do("rendered", t) \notin Elements(calls)
    <3>1. calls \in Seq(Entries(Objects))
      BY EntriesExist
    <3>2. Elements(calls) = {Head(calls)} \cup Elements(<<>>)
      BY <1>1, <1>2, <3>1, ElementsTail
    <3>3. Do("rendered", t) # Head(calls)
      BY <1>2 DEF Do
    <3> QED BY <3>2, <3>3, ElementsEmpty
  <2>4. content[info[t]] = Made(t, version)
    BY <2>1, <2>3 DEF ContentInv, Found
  <2>5. content'[info'[t]] = Made(t, version')
    BY <1>2, <2>2, <2>4 DEF Made
  <2>6. ToHandOut(b, t)'
    BY <1>2, <1>5, <1>7, <1>9, <2>5 DEF ToHandOut, NotRendering, Do, Made
  <2>7. Base(b)'
    BY <2>6 DEF Base
  <2> QED BY <1>6, <1>7, <2>7, NoDrops
<1> QED BY <1>8, <1>9

LEMMA DrawShape ==
  ASSUME IInv, ShapeInv, ContentInv, Draw
  PROVE  ShapeInv'
<1>1. On \in SourceTiles /\ On \in Volatiles
  BY DrawBelow
<1>2. /\ calls # <<>> /\ Head(calls).do = "draw" /\ Acquire(On)
      /\ UNCHANGED <<rendering, version, content>>
  BY DEF Draw, Doing, tileVars
<1>3. PICK s \in SourceTiles : s = On
  BY <1>1
<1>4. PICK o : Obtains(s, o)
  BY <1>1, <1>2, <1>3, AcquireObtains DEF IInv
<1>5. PICK b : b = calls'
  OBVIOUS
<1>6. /\ b = IF OutOfDate(s) THEN <<Do("load", s)>> \o (<<Do("drawn", s)>> \o Tail(calls))
             ELSE <<Do("drawn", s)>> \o Tail(calls)
      /\ b \in Seq(TileCalls) /\ AfterDraw(s)
  BY <1>3, <1>5, DrawCalls
<1>7. PICK t \in CubeTiles : \E n \in 0..Len(Covers[t]) :
        /\ n < Len(Covers[t]) /\ s = Covers[t][n + 1] /\ DrawnFor(t, n)
        /\ Tail(calls) = Remaining(t, n + 1)
  BY <1>6 DEF AfterDraw
<1>8. PICK n \in 0..Len(Covers[t]) :
        /\ n < Len(Covers[t]) /\ s = Covers[t][n + 1] /\ DrawnFor(t, n)
        /\ Tail(calls) = Remaining(t, n + 1)
  BY <1>7
<1>9. PICK r : r = Remaining(t, n + 1)
  OBVIOUS
<1>10. DrawnFor(t, n)'
  BY <1>2, <1>8 DEF DrawnFor
<1>11. CASE OutOfDate(s)
  <2>1. b = <<Do("load", s)>> \o (<<Do("drawn", s)>> \o r)
    BY <1>6, <1>8, <1>9, <1>11
  <2>2. ToLoad(b, t, n, s)'
    BY <1>8, <1>9, <1>10, <2>1 DEF ToLoad
  <2>3. Base(b)'
    BY <2>2 DEF Base
  <2> QED BY <1>5, <1>6, <2>3, NoDrops
<1>12. CASE ~OutOfDate(s)
  <2>1. info[s] # None /\ seen[s] = version
    BY <1>12 DEF OutOfDate
  <2>2. info' = info
    BY <1>4, <2>1 DEF Obtains
  <2>3. Do("load", s) \notin Elements(calls)
    <3>1. calls \in Seq(Entries(Objects))
      BY EntriesExist
    <3>2. Elements(calls) = {Head(calls)} \cup Elements(Tail(calls))
      BY <1>2, <3>1, ElementsTail
    <3>3. Do("load", s) # Head(calls)
      BY <1>2 DEF Do
    <3>4. \A i \in DOMAIN Tail(calls) : Tail(calls)[i].do \notin {"load", "drawn"}
      BY <1>2, TheCall DEF IInv
    <3>5. \A y \in Elements(Tail(calls)) : y.do # "load"
      BY <3>4 DEF Elements
    <3> QED BY <3>2, <3>3, <3>5 DEF Do
  <2>4. content[info[s]] = <<s, version>>
    BY <2>1, <2>3 DEF ContentInv, Found
  <2>5. content'[info'[s]] = <<s, version'>>
    BY <1>2, <2>2, <2>4
  <2>6. b = <<Do("drawn", s)>> \o r
    BY <1>6, <1>8, <1>9, <1>12
  <2>7. Loaded(b, t, n, s)'
    BY <1>8, <1>9, <1>10, <2>5, <2>6 DEF Loaded
  <2>8. Base(b)'
    BY <2>7 DEF Base
  <2> QED BY <1>5, <1>6, <2>8, NoDrops
<1> QED BY <1>11, <1>12

(* A source tile is loaded: the heights go, and the tile is there.         *)
LEMMA LoadShape ==
  ASSUME IInv, ShapeInv, ContentInv, Load
  PROVE  ShapeInv'
<1>1. calls # <<>> /\ Head(calls).do = "load"
  BY DEF Load, Doing
<1>2. On \in SourceTiles /\ info[On] # None
  BY <1>1, TheCall DEF IInv
<1>3. PICK s \in SourceTiles : s = On /\ info[s] # None
  BY <1>2
<1>4. PICK h \in Objects : Allocate("height", h) /\ Continue(<<Do("drop", h)>>)
  BY DEF Load
<1>5. /\ content' = [content EXCEPT ![info[s]] = <<s, version>>]
      /\ UNCHANGED <<version, rendering>>
  BY <1>3 DEF Load
<1>6. s \in Tiles
  BY DEF Tiles
<1>7. info'[s] = info[s] /\ created' = created \cup {h}
  BY <1>4, <1>6, AllocateStep, TileAssumption DEF IInv
<1>8. PICK o \in Objects : o = info[s]
  BY <1>3, <1>6, TileAssumption DEF IInv, CacheInv, CacheTyped
<1>9. DOMAIN content = Objects
  BY DEF ContentInv, ContentTyped
<1>10. content'[info'[s]] = <<s, version'>>
  BY <1>5, <1>7, <1>8, <1>9
<1>11. AfterLoad(s) /\ calls \in Seq(TileCalls)
  BY <1>1, <1>3, ShapeTop
<1>12. PICK t \in CubeTiles : \E n \in 0..Len(Covers[t]) :
        /\ n < Len(Covers[t]) /\ s = Covers[t][n + 1] /\ DrawnFor(t, n)
        /\ Tail(calls) = <<Do("drawn", s)>> \o Remaining(t, n + 1)
  BY <1>11 DEF AfterLoad
<1>13. PICK n \in 0..Len(Covers[t]) :
        /\ n < Len(Covers[t]) /\ s = Covers[t][n + 1] /\ DrawnFor(t, n)
        /\ Tail(calls) = <<Do("drawn", s)>> \o Remaining(t, n + 1)
  BY <1>12
<1>14. PICK b : b = Tail(calls)
  OBVIOUS
<1>15. b \in Seq(TileCalls)
  BY <1>1, <1>11, <1>14, ElementsTail
<1>16. DrawnFor(t, n)'
  BY <1>5, <1>13 DEF DrawnFor
<1>17. PICK r : r = Remaining(t, n + 1)
  OBVIOUS
<1>18. b = <<Do("drawn", s)>> \o r
  BY <1>13, <1>14, <1>17
<1>19. Loaded(b, t, n, s)'
  BY <1>10, <1>13, <1>16, <1>17, <1>18 DEF Loaded
<1>20. Base(b)'
  BY <1>19 DEF Base
<1>21. PICK d : d = <<Do("drop", h)>>
  OBVIOUS
<1>22. d \in Seq(DropCalls(created')) /\ calls' = d \o b
  <2>1. Do("drop", h) \in DropCalls(created')
    BY <1>7, DropEntries
  <2> QED BY <1>4, <1>14, <1>21, <2>1, OneElement DEF Continue
<1> QED BY <1>15, <1>20, <1>22, ShapeNext

(* A source tile is drawn, and the next one is up.                         *)
LEMMA DrawnShape ==
  ASSUME IInv, ShapeInv, Drawn
  PROVE  ShapeInv'
<1>1. calls # <<>> /\ Head(calls).do = "drawn"
  BY DEF Drawn, Doing
<1>2. On \in SourceTiles /\ info[On] # None
  BY <1>1, TheCall DEF IInv
<1>3. PICK s \in SourceTiles : s = On /\ info[s] # None
  BY <1>2
<1>4. PICK o \in created : o = info[s]
  BY <1>3, TileAssumption DEF IInv, CacheInv, CacheTyped, Tiles
<1>5. AfterDrawn(s) /\ calls \in Seq(TileCalls)
  BY <1>1, <1>3, ShapeTop
<1>6. content[info[s]] = <<s, version>> /\ AfterDraw(s)
  BY <1>5 DEF AfterDrawn
<1>7. PICK t \in CubeTiles : \E n \in 0..Len(Covers[t]) :
        /\ n < Len(Covers[t]) /\ s = Covers[t][n + 1] /\ DrawnFor(t, n)
        /\ Tail(calls) = Remaining(t, n + 1)
  BY <1>6 DEF AfterDraw
<1>8. PICK n \in 0..Len(Covers[t]) :
        /\ n < Len(Covers[t]) /\ s = Covers[t][n + 1] /\ DrawnFor(t, n)
        /\ Tail(calls) = Remaining(t, n + 1)
  BY <1>7
<1>9. rendering'.drawn = Append(rendering.drawn, <<s, version>>) /\ UNCHANGED <<version, created>>
  BY <1>3, <1>6 DEF Drawn, cacheVars
<1>10. n \in Nat /\ n + 1 \in 0..Len(Covers[t])
  BY <1>8, CoversTyped
<1>11. DrawnFor(t, n + 1)'
  <2>1. PICK c : c = Covers[t]
    OBVIOUS
  <2>2. PICK k : k = version
    OBVIOUS
  <2>3. rendering.drawn = [i \in 1..n |-> <<c[i], k>>]
    BY <1>8, <2>1, <2>2 DEF DrawnFor
  <2>4. Append([i \in 1..n |-> <<c[i], k>>], <<c[n + 1], k>>) = [i \in 1..(n + 1) |-> <<c[i], k>>]
    BY <1>10
  <2>5. rendering'.drawn = [i \in 1..(n + 1) |-> <<c[i], k>>]
    BY <1>8, <1>9, <2>1, <2>2, <2>3, <2>4
  <2> QED BY <1>9, <2>1, <2>2, <2>5 DEF DrawnFor
<1>12. PICK b : b = Tail(calls)
  OBVIOUS
<1>13. b \in Seq(TileCalls)
  BY <1>1, <1>5, <1>12, ElementsTail
<1>14. PICK r : r = Remaining(t, n + 1)
  OBVIOUS
<1>15. ToDraw(b, t, n + 1)'
  BY <1>8, <1>11, <1>12, <1>14 DEF ToDraw, Remaining, Do
<1>16. Base(b)'
  BY <1>10, <1>15 DEF Base
<1>17. PICK d : d = IF keep["source"] THEN <<>> ELSE <<Do("drop", o)>>
  OBVIOUS
<1>18. d \in Seq(DropCalls(created')) /\ calls' = d \o b
  <2>1. Do("drop", o) \in DropCalls(created')
    BY <1>9, DropEntries
  <2> QED BY <1>3, <1>4, <1>12, <1>17, <2>1, OneElement DEF Drawn, Continue
<1> QED BY <1>13, <1>16, <1>18, ShapeNext

LEMMA RenderedShape ==
  ASSUME IInv, ShapeInv, ContentInv, Rendered
  PROVE  ShapeInv'
<1>1. calls # <<>> /\ Head(calls).do = "rendered"
  BY DEF Rendered, Doing
<1>2. On \in CubeTiles /\ info[On] # None
  BY <1>1, TheCall DEF IInv
<1>3. PICK t \in CubeTiles : t = On /\ info[t] # None
  BY <1>2
<1>4. PICK o \in Objects : o = info[t]
  BY <1>3, TileAssumption DEF IInv, CacheInv, CacheTyped, Tiles
<1>5. Tail(calls) = <<Do("handOut", t)>>
  BY <1>1, <1>3, ShapeTop DEF AfterRendered
<1>6. content'[info[t]] = Made(t, version)
  BY <1>3, RenderedContent
<1>7. rendering' = NotRendering /\ UNCHANGED <<version, created, info>>
  BY DEF Rendered, cacheVars, references
<1>8. PICK b : b = <<Do("handOut", t)>>
  OBVIOUS
<1>9. b \in Seq(TileCalls)
  BY <1>8, CallKinds, OneElement
<1>10. content'[info'[t]] = Made(t, version')
  BY <1>6, <1>7 DEF Made
<1>11. ToHandOut(b, t)'
  BY <1>7, <1>8, <1>10 DEF ToHandOut, NotRendering, Do, Made
<1>12. Base(b)'
  BY <1>11 DEF Base
<1>13. PICK d : d = Drops(sources[o])
  OBVIOUS
<1>14. sources[o] \in Seq(created)
  BY DEF IInv, KeptTyped
<1>15. d \in Seq(DropCalls(created')) /\ calls' = d \o b
  BY <1>3, <1>4, <1>5, <1>7, <1>8, <1>13, <1>14, DropsTyped DEF Rendered, Continue
<1> QED BY <1>9, <1>12, <1>15, ShapeNext

LEMMA HandOutShape ==
  ASSUME IInv, ShapeInv, HandOut
  PROVE  ShapeInv'
<1>1. calls # <<>> /\ Head(calls).do = "handOut"
  BY DEF HandOut, Doing
<1>2. On \in CubeTiles /\ info[On] # None
  BY <1>1, TheCall DEF IInv
<1>3. PICK o \in created : o = info[On]
  BY <1>2, TileAssumption DEF IInv, CacheInv, CacheTyped, Tiles
<1>4. rendering = NotRendering /\ Tail(calls) = <<>>
  BY <1>1, ShapeTop DEF AfterHandOut
<1>5. PICK d : d = IF keep["cube"] THEN <<>> ELSE <<Do("drop", o)>>
  OBVIOUS
<1>6. rendering' = rendering /\ created' = created /\ calls' = d \o <<>>
  BY <1>3, <1>4, <1>5 DEF HandOut, Continue
<1>7. d \in Seq(DropCalls(created'))
  <2>1. Do("drop", o) \in DropCalls(created')
    BY <1>6, DropEntries
  <2> QED BY <1>5, <2>1, OneElement
<1>8. d \o <<>> = d
  BY <1>7
<1>9. calls' \in Seq(DropCalls(created'))
  BY <1>6, <1>7, <1>8
<1> QED BY <1>4, <1>6, <1>9, OnlyDrops

LEMMA InitShape == Init => ShapeInv
<1> SUFFICES ASSUME Init PROVE ShapeInv
  OBVIOUS
<1>1. calls = <<>> /\ rendering = NotRendering
  BY DEF Init
<1>2. PICK e : e = <<>>
  OBVIOUS
<1>3. e \in Seq(DropCalls(created)) /\ e \in Seq(TileCalls) /\ calls = e \o e
  BY <1>1, <1>2
<1>4. Base(e)
  BY <1>1, <1>2 DEF Base
<1> QED BY <1>3, <1>4 DEF ShapeInv, Layered

LEMMA StepShape == IInv /\ ShapeInv /\ ContentInv /\ [Next]_vars => ShapeInv'
<1> SUFFICES ASSUME IInv, ShapeInv, ContentInv, [Next]_vars PROVE ShapeInv'
  OBVIOUS
<1>1. CASE \E t \in CubeTiles : GetTileTexture(t)
  BY <1>1, GetTileTextureShape
<1>2. CASE \E i \in DOMAIN handles : DropHandle(i)
  BY <1>2, DropHandleShape
<1>3. CASE ChangeSource
  BY <1>3, ChangeSourceShape
<1>4. CASE Find
  BY <1>4, FindShape
<1>5. CASE Draw
  BY <1>5, DrawShape
<1>6. CASE Load
  BY <1>6, LoadShape
<1>7. CASE Drawn
  BY <1>7, DrawnShape
<1>8. CASE Rendered
  BY <1>8, RenderedShape
<1>9. CASE HandOut
  BY <1>9, HandOutShape
<1>10. CASE Drop
  BY <1>10, DropShape
<1>11. CASE Tell
  BY <1>11, TellShape
<1>12. CASE Returned
  BY <1>12, ReturnedShape
<1>13. CASE UNCHANGED vars
  <2>1. UNCHANGED <<created, info, content, rendering, version, calls>>
    BY <1>13 DEF vars, cacheVars, tileVars, references
  <2>2. PICK d \in Seq(DropCalls(created)), b \in Seq(TileCalls) : calls = d \o b /\ Base(b)
    BY DEF ShapeInv, Layered
  <2>3. Base(b)'
    BY <2>1, <2>2, BaseKept
  <2>4. d \in Seq(DropCalls(created')) /\ calls' = d \o b
    BY <2>1, <2>2
  <2> QED BY <2>3, <2>4, ShapeNext
<1> QED BY <1>1, <1>2, <1>3, <1>4, <1>5, <1>6, <1>7, <1>8, <1>9, <1>10, <1>11, <1>12, <1>13
        DEF Next
-----------------------------------------------------------------------------
(* What follows from the invariant. *)

AllInv == /\ IInv /\ GrowthInv /\ RefsInv /\ ShapeInv /\ UseInv /\ KindsInv /\ ContentInv
          /\ keep \in [{"cube", "source"} -> BOOLEAN]

LEMMA InitAll == Init => AllInv
<1> SUFFICES ASSUME Init PROVE AllInv
  OBVIOUS
<1>1. keep \in [{"cube", "source"} -> BOOLEAN]
  BY DEF Init
<1> QED BY <1>1, InitInv, InitGrowth, InitRefs, InitShape, InitUse, InitKinds, InitContent DEF AllInv

LEMMA KeepStays == [Next]_vars => keep' = keep
BY DEF Next, vars, tileVars, GetTileTexture, DropHandle, ChangeSource, Find, Draw, Load, Drawn, Rendered,
       HandOut, Drop, Tell, Returned

LEMMA StepAll == AllInv /\ [Next]_vars => AllInv'
<1> SUFFICES ASSUME AllInv, [Next]_vars PROVE AllInv'
  OBVIOUS
<1>1. /\ IInv /\ GrowthInv /\ RefsInv /\ ShapeInv /\ UseInv /\ KindsInv /\ ContentInv
      /\ keep \in [{"cube", "source"} -> BOOLEAN]
  BY DEF AllInv
<1>2. IInv' /\ GrowthInv' /\ RefsInv' /\ ShapeInv' /\ UseInv' /\ KindsInv' /\ ContentInv'
  BY <1>1, StepInv, StepGrowth, StepRefs, StepShape, StepUse, StepKinds, StepContent
<1>3. keep' \in [{"cube", "source"} -> BOOLEAN]
  BY <1>1, KeepStays
<1> QED BY <1>2, <1>3 DEF AllInv

THEOREM AllInvariant == Spec => []AllInv
BY InitAll, StepAll, PTL DEF Spec

LEMMA TypesFollow == AllInv => TypeOK
<1> SUFFICES ASSUME AllInv PROVE TypeOK
  OBVIOUS
<1>1. IInv /\ CacheTyped /\ KeptTyped
  BY DEF AllInv, IInv, CacheInv
<1>2. ASSUME NEW c \in Caches
      PROVE  Idling(c) \subseteq Allocated(c) /\ Len(unused[c]) = Cardinality(Idling(c))
  <2>1. unused[c] \in Seq(created) /\ Distinct(unused[c])
    BY <1>1 DEF CacheTyped, AllInv, UseInv, UnusedOnce
  <2>2. Len(unused[c]) = Cardinality(Elements(unused[c]))
    BY <2>1, ElementsCounted
  <2>3. \A i \in DOMAIN unused[c] : unused[c][i] \in created /\ CacheOf[unused[c][i]] = c
    BY <1>1, <2>1 DEF CacheTyped
  <2> QED BY <2>2, <2>3, IdlingElements DEF Idling, Allocated
<1>3. /\ created \subseteq Objects
      /\ info \in [Volatiles -> created \cup {None}] /\ owner \in [Objects -> Volatiles \cup {None}]
  BY <1>1 DEF CacheTyped
<1>4. refs \in [Objects -> Nat] /\ peak \in [Caches -> Nat] /\ seen \in [Tiles -> Nat]
  BY DEF AllInv, RefsInv, GrowthInv, ContentInv, ContentTyped
<1>5. keep \in [{"cube", "source"} -> BOOLEAN] /\ version \in Nat
  BY <1>1 DEF AllInv, KeptTyped
<1>6. ASSUME NEW i \in DOMAIN handles
      PROVE  /\ handles[i].tile \in CubeTiles /\ handles[i].object \in created \cup {None}
             /\ ToSet(handles[i].sources) \subseteq created
  <2>1. PICK s : s = handles[i].sources
    OBVIOUS
  <2>2. s \in Seq(created)
    BY <1>1, <2>1, HandleTyped
  <2>3. ToSet(s) \subseteq created
    BY <2>2 DEF ToSet
  <2> QED BY <1>1, <2>1, <2>3, HandleTyped
<1>7. ASSUME NEW o \in Objects PROVE ToSet(sources[o]) \subseteq created
  <2>1. PICK s \in Seq(created) : s = sources[o]
    BY <1>1 DEF KeptTyped
  <2>2. ToSet(s) \subseteq created
    BY DEF ToSet
  <2> QED BY <2>1, <2>2
<1> QED BY <1>2, <1>3, <1>4, <1>5, <1>6, <1>7 DEF TypeOK

(* An object that exists and is in no list is in use.                      *)
Used == UNION {InUse(c) : c \in Caches}

LEMMA UsedObjects ==
  ASSUME CacheTyped
  PROVE  Used = {x \in Objects : x \in created /\ x \notin Idling(CacheOf[x])}
<1>1. created \subseteq Objects /\ \A x \in Objects : CacheOf[x] \in Caches
  BY CacheAssumption DEF CacheTyped
<1>2. ASSUME NEW x \in Used PROVE x \in Objects /\ x \in created /\ x \notin Idling(CacheOf[x])
  <2>1. PICK c \in Caches : x \in InUse(c)
    BY DEF Used
  <2> QED BY <1>1, <2>1 DEF InUse, Allocated
<1>3. ASSUME NEW x \in Objects, x \in created, x \notin Idling(CacheOf[x]) PROVE x \in Used
  <2>1. x \in InUse(CacheOf[x])
    BY <1>3 DEF InUse, Allocated
  <2> QED BY <1>1, <2>1 DEF Used
<1> QED BY <1>2, <1>3

LEMMA HoldsElements ==
  ASSUME IInv, NEW i \in DOMAIN handles
  PROVE  Elements(Holds(handles[i])) = Elements(handles[i].sources) \cup ({handles[i].object} \ {None})
<1>1. PICK h : h = handles[i]
  OBVIOUS
<1>2. PICK s : s = h.sources
  OBVIOUS
<1>3. PICK e : e = IF h.object = None THEN <<>> ELSE <<h.object>>
  OBVIOUS
<1>4. s \in Seq(Objects) /\ h.object \in Objects \cup {None}
  BY <1>1, <1>2, HandleTyped
<1>5. e \in Seq(Objects) /\ Elements(e) = {h.object} \ {None}
  <2>1. CASE h.object = None
    <3>1. e = <<>>
      BY <1>3, <2>1
    <3> QED BY <2>1, <3>1, ElementsEmpty
  <2>2. CASE h.object # None
    <3>1. PICK o \in Objects : o = h.object
      BY <1>4, <2>2
    <3>2. e = <<o>>
      BY <1>3, <2>2, <3>1
    <3>3. Elements(e) = {o}
      BY <3>2 DEF Elements
    <3> QED BY <2>2, <3>1, <3>2, <3>3, OneElement
  <2> QED BY <2>1, <2>2
<1>6. Elements(s \o e) = Elements(s) \cup Elements(e)
  BY <1>4, <1>5, ElementsConcat
<1>7. Holds(h) = s \o e
  BY <1>2, <1>3 DEF Holds
<1> QED BY <1>1, <1>2, <1>5, <1>6, <1>7

LEMMA UseFollows == AllInv => UsedWhileHeld
<1> SUFFICES ASSUME AllInv, calls = <<>> PROVE Used = Reachable
  BY DEF UsedWhileHeld, Idle, Used
<1>1. IInv /\ CacheTyped /\ RefsInv /\ ShapeInv /\ UseInv /\ KindsInv /\ created \subseteq Objects
  BY DEF AllInv, IInv, CacheInv, CacheTyped
<1>2. rendering.kept = <<>>
  BY <1>1, EmptyShape DEF NotRendering
<1>3. Elements(calls) = {} /\ Elements(rendering.kept) = {}
  BY <1>2, ElementsEmpty
<1>4. ASSUME NEW x \in Objects
      PROVE  refs[x] > 0 <=> \/ \E i \in DOMAIN handles : x \in Elements(Holds(handles[i]))
                             \/ \E o \in Objects : x \in Elements(sources[o])
  BY <1>1, <1>3, ReferredTo
<1>5. ASSUME NEW x \in Objects PROVE x \in Used <=> refs[x] > 0
  <2>1. Returning(x) = 0
    BY TallyEmpty DEF Returning
  <2>2. refs[x] \in Nat
    BY <1>1 DEF RefsInv
  <2>3. /\ x \notin created => refs[x] = 0
        /\ x \in Idling(CacheOf[x]) => refs[x] = 0
        /\ Returning(x) = IF Unheld(x) THEN 1 ELSE 0
    BY <1>1 DEF UseInv
  <2>4. ~Unheld(x)
    BY <2>1, <2>3
  <2>5. x \in Used <=> x \in created /\ x \notin Idling(CacheOf[x])
    BY <1>1, UsedObjects
  <2> QED BY <2>2, <2>3, <2>4, <2>5 DEF Unheld
<1> DEFINE B == {handles[i].object : i \in DOMAIN handles} \ {None}
           C == UNION {ToSet(handles[i].sources) : i \in DOMAIN handles}
           D == UNION {ToSet(sources[o]) : o \in B}
<1>6. Reachable = B \cup C \cup D
  BY DEF Reachable
<1>7. \A x : x \in B <=> x # None /\ \E i \in DOMAIN handles : x = handles[i].object
  OBVIOUS
<1>8. \A x : x \in Reachable <=> \/ x \in B
                                 \/ \E i \in DOMAIN handles : x \in Elements(handles[i].sources)
                                 \/ \E o \in B : x \in Elements(sources[o])
  <2>4. \A s : ToSet(s) = Elements(s)
    BY DEF ToSet, Elements
  <2>5. \A x : x \in C <=> \E i \in DOMAIN handles : x \in Elements(handles[i].sources)
    BY <2>4
  <2>6. \A x : x \in D <=> \E o \in B : x \in Elements(sources[o])
    <3> HIDE DEF B
    <3> QED BY <2>4
  <2> HIDE DEF B, C, D
  <2> QED BY <1>6, <2>5, <2>6
<1> HIDE DEF B, C, D
<1>9. \A i \in DOMAIN handles :
        Elements(Holds(handles[i])) = Elements(handles[i].sources) \cup ({handles[i].object} \ {None})
  BY <1>1, HoldsElements
<1>10. B \subseteq Objects
  BY <1>1, <1>7, HandleTyped
<1>11. ASSUME NEW x \in Used PROVE x \in Reachable
  <2>1. x \in Objects /\ refs[x] > 0
    BY <1>1, <1>5, UsedObjects
  <2>2. ASSUME NEW i \in DOMAIN handles, x \in Elements(Holds(handles[i])) PROVE x \in Reachable
    BY <1>7, <1>8, <1>9, <2>2
  <2>3. ASSUME NEW o \in Objects, x \in Elements(sources[o]) PROVE x \in Reachable
    <3>1. sources[o] # <<>>
      BY <2>3, ElementsEmpty
    <3>2. o \in CubeTextures /\ Attended(o)
      BY <1>1, <3>1 DEF KindsInv, KeepersInv
    <3>3. refs[o] > 0
      BY <1>3, <3>2 DEF Attended
    <3>4. o \notin SourceTextures
      BY <3>2, KindsApart
    <3>5. \A p \in Objects : o \notin Elements(sources[p])
      BY <1>1, <3>4 DEF KindsInv, KeepersInv
    <3>6. PICK i \in DOMAIN handles : o \in Elements(Holds(handles[i]))
      BY <1>4, <3>3, <3>5
    <3>7. o \notin Elements(handles[i].sources)
      BY <1>1, <3>4 DEF KindsInv, HandleKinds
    <3>8. o \in B
      BY <1>7, <1>9, <3>6, <3>7
    <3> QED BY <1>8, <2>3, <3>8
  <2> QED BY <1>4, <2>1, <2>2, <2>3
<1>12. ASSUME NEW x \in Reachable PROVE x \in Used
  <2>1. CASE x \in B
    <3>1. x \in Objects /\ \E i \in DOMAIN handles : x \in Elements(Holds(handles[i]))
      BY <1>7, <1>9, <1>10, <2>1
    <3> QED BY <1>4, <1>5, <3>1
  <2>2. CASE \E i \in DOMAIN handles : x \in Elements(handles[i].sources)
    <3>1. PICK i \in DOMAIN handles : x \in Elements(handles[i].sources)
      BY <2>2
    <3>2. PICK s : s = handles[i].sources
      OBVIOUS
    <3>3. s \in Seq(Objects)
      BY <1>1, <3>2, HandleTyped
    <3>4. x \in Objects
      BY <3>1, <3>2, <3>3, ElementsTyped
    <3>5. x \in Elements(Holds(handles[i]))
      BY <1>9, <3>1
    <3> QED BY <1>4, <1>5, <3>4, <3>5
  <2>3. CASE \E o \in B : x \in Elements(sources[o])
    <3>1. PICK o \in B : x \in Elements(sources[o])
      BY <2>3
    <3>2. o \in Objects
      BY <1>10
    <3>3. sources[o] \in Seq(created)
      BY <1>1, <3>2 DEF IInv, KeptTyped
    <3>4. x \in Objects
      BY <1>1, <3>1, <3>3, ElementsTyped
    <3> QED BY <1>4, <1>5, <3>1, <3>2, <3>4
  <2> QED BY <1>8, <2>1, <2>2, <2>3
<1> QED BY <1>11, <1>12

LEMMA TilesFollow == AllInv => TilesAreRight
<1> SUFFICES ASSUME AllInv PROVE TilesAreRight
  OBVIOUS
<1>1. ASSUME Doing("handOut") PROVE content[info[On]] = Made(On, version)
  BY <1>1, ShapeTop DEF Doing, AllInv, AfterHandOut
<1>2. ASSUME NEW i \in DOMAIN handles, handles[i].object # None
      PROVE  \E k \in handles[i].since..version : content[handles[i].object] = Made(handles[i].tile, k)
  BY <1>2 DEF AllInv, ContentInv, Right
<1> QED BY <1>1, <1>2 DEF TilesAreRight

(* Counts, lists and handles are what the classes take them to be: an      *)
(* object that is not in use is in the list of its own cache, once.        *)
THEOREM TypesCorrect == Spec => []TypeOK
<1>1. AllInv => TypeOK
  BY TypesFollow
<1> QED BY <1>1, AllInvariant, PTL

(* Whatever handles are dropped and tiles rendered again, a texture is     *)
(* recycled only when no client can reach it by a handle, and can be       *)
(* recycled then.                                                          *)
THEOREM UsedCorrect == Spec => []UsedWhileHeld
<1>1. AllInv => UsedWhileHeld
  BY UseFollows
<1> QED BY <1>1, AllInvariant, PTL

(* Clients get textures of the tile that they asked for, of the source as  *)
(* it is, and what they hold stays that, whatever is recycled around it.   *)
THEOREM TilesCorrect == Spec => []TilesAreRight
<1>1. AllInv => TilesAreRight
  BY TilesFollow
<1> QED BY <1>1, AllInvariant, PTL
-----------------------------------------------------------------------------
(* The caches are the abstract one. *)

LEMMA GivenIsUsed ==
  ASSUME CacheTyped, CacheTyped', UnusedOnce, NEW o \in Objects, Give(o), created' = created \cup {o}
  PROVE  Used' = Used \cup {o}
<1>1. \A c \in Caches : Idling(c)' = Idling(c) \ {o}
  BY GiveIdling
<1>2. Used = {x \in Objects : x \in created /\ x \notin Idling(CacheOf[x])}
  BY UsedObjects
<1>3. Used' = {x \in Objects : x \in created' /\ x \notin Idling(CacheOf[x])'}
  <2>1. created' \subseteq Objects /\ \A x \in Objects : CacheOf[x] \in Caches
    BY CacheAssumption DEF CacheTyped
  <2>2. ASSUME NEW x \in Used' PROVE x \in Objects /\ x \in created' /\ x \notin Idling(CacheOf[x])'
    <3>1. PICK c \in Caches : x \in InUse(c)'
      BY DEF Used
    <3> QED BY <2>1, <3>1 DEF InUse, Allocated, Idling
  <2>3. ASSUME NEW x \in Objects, x \in created', x \notin Idling(CacheOf[x])' PROVE x \in Used'
    <3>1. x \in InUse(CacheOf[x])'
      BY <2>3 DEF InUse, Allocated, Idling
    <3> QED BY <2>1, <3>1 DEF Used, InUse, Allocated, Idling
  <2> QED BY <2>2, <2>3
<1>4. \A x \in Objects : CacheOf[x] \in Caches
  BY CacheAssumption
<1> QED BY <1>1, <1>2, <1>3, <1>4

LEMMA ObtainedAbstractly ==
  ASSUME IInv, IInv', UseInv, NEW v \in Volatiles, NEW o, Obtains(v, o)
  PROVE  Abstract!Next
<1>1. o \in Objects /\ Give(o) /\ created' = created \cup {o} /\ info'[v] = o
  BY DEF Obtains
<1>2. CacheTyped /\ CacheTyped' /\ UnusedOnce /\ None \notin Objects
  BY CacheAssumption DEF IInv, CacheInv, UseInv
<1>3. Used' = Used \cup {o}
  BY <1>1, <1>2, GivenIsUsed
<1>4. CASE info[v] = o /\ info' = info
  <2>1. Abstract!Find(v)
    BY <1>1, <1>2, <1>3, <1>4 DEF Abstract!Find, Used
  <2> QED BY <2>1 DEF Abstract!Next
<1>5. CASE /\ info[v] = None
           /\ o \notin created \/ o \in Idling(CacheOf[o])
           /\ \A w \in Volatiles : w # v => info'[w] = IF info[w] = o THEN None ELSE info[w]
  <2>1. o \notin Used
    BY <1>2, <1>5, UsedObjects
  <2>2. info \in [Volatiles -> created \cup {None}] /\ info' \in [Volatiles -> created' \cup {None}]
    BY <1>2 DEF CacheTyped
  <2>3. PICK f : f = [w \in Volatiles |-> IF info[w] = o THEN None ELSE info[w]]
    OBVIOUS
  <2>4. info' = [f EXCEPT ![v] = o]
    BY <1>1, <1>5, <2>2, <2>3
  <2>5. Abstract!Fill(v, o)
    BY <1>3, <1>5, <2>1, <2>3, <2>4 DEF Abstract!Fill, Abstract!Lost, Used
  <2> QED BY <1>1, <2>5 DEF Abstract!Next
<1> QED BY <1>4, <1>5 DEF Obtains

LEMMA AbstractStep ==
  ASSUME AllInv, AllInv', [Next]_vars
  PROVE  [Abstract!Next]_<<info, Used>>
<1>1. IInv /\ IInv' /\ UseInv /\ CacheTyped /\ CacheTyped' /\ UnusedOnce
  BY DEF AllInv, IInv, CacheInv, UseInv
<1>2. ASSUME UNCHANGED <<created, unused, info>> PROVE UNCHANGED <<info, Used>>
  BY <1>2 DEF Used, InUse, Allocated, Idling
<1>3. CASE \E t \in CubeTiles : GetTileTexture(t)
  BY <1>2, <1>3 DEF GetTileTexture, cacheVars, references
<1>4. CASE \E i \in DOMAIN handles : DropHandle(i)
  BY <1>2, <1>4 DEF DropHandle, cacheVars, references
<1>5. CASE ChangeSource
  BY <1>2, <1>5 DEF ChangeSource, cacheVars, references
<1>6. CASE Find
  <2>1. On \in Volatiles /\ Acquire(On)
    BY <1>1, <1>6, FindBelow DEF Find
  <2>2. PICK o : Obtains(On, o)
    BY <1>1, <2>1, AcquireObtains DEF IInv
  <2> QED BY <1>1, <2>1, <2>2, ObtainedAbstractly
<1>7. CASE Draw
  <2>1. On \in Volatiles /\ Acquire(On)
    BY <1>1, <1>7, DrawBelow DEF Draw
  <2>2. PICK o : Obtains(On, o)
    BY <1>1, <2>1, AcquireObtains DEF IInv
  <2> QED BY <1>1, <2>1, <2>2, ObtainedAbstractly
<1>8. CASE Load
  <2>1. PICK h \in Objects : Allocate("height", h)
    BY <1>8 DEF Load
  <2>2. /\ CacheOf[h] = "height" /\ Give(h) /\ created' = created \cup {h}
        /\ h \notin created \/ h \in Idling("height")
        /\ \A w \in Volatiles : info'[w] = IF info[w] = h THEN None ELSE info[w]
    BY <1>1, <2>1, AllocateTakes, TileAssumption DEF IInv
  <2>3. Used' = Used \cup {h}
    BY <1>1, <2>2, GivenIsUsed
  <2>4. h \notin Used
    BY <1>1, <2>2, UsedObjects
  <2>5. info \in [Volatiles -> created \cup {None}] /\ info' \in [Volatiles -> created' \cup {None}]
    BY <1>1 DEF CacheTyped
  <2>6. info' = [w \in Volatiles |-> IF info[w] = h THEN None ELSE info[w]]
    BY <2>2, <2>5
  <2>7. Abstract!Take(h)
    BY <2>3, <2>4, <2>6 DEF Abstract!Take, Abstract!Lost, Used
  <2> QED BY <2>7 DEF Abstract!Next
<1>9. CASE Drawn
  BY <1>2, <1>9 DEF Drawn, cacheVars, references
<1>10. CASE Rendered
  BY <1>2, <1>10 DEF Rendered, cacheVars, references
<1>11. CASE HandOut
  BY <1>2, <1>11 DEF HandOut, references
<1>12. CASE Drop
  BY <1>2, <1>12 DEF Drop, references
<1>13. CASE Tell
  BY <1>2, <1>13 DEF Tell, cacheVars, references
<1>14. CASE Returned
  <2>1. calls # <<>> /\ Head(calls).do = "giveBack" /\ GiveBack(On)
    BY <1>14 DEF Returned, Doing
  <2>2. PICK o \in Objects : o = On
    BY <1>1, <2>1, TheCall DEF IInv, CacheTyped
  <2>3. /\ unused' = [unused EXCEPT ![CacheOf[o]] = Append(unused[CacheOf[o]], o)]
        /\ UNCHANGED <<created, info>>
    BY <2>1, <2>2 DEF GiveBack, references
  <2>4. CacheOf[o] \in Caches /\ unused \in [Caches -> Seq(created)] /\ unused' \in [Caches -> Seq(created')]
    BY <1>1, CacheAssumption DEF CacheTyped
  <2>5. \A c \in Caches : unused'[c] = IF c = CacheOf[o] THEN Append(unused[c], o) ELSE unused[c]
    BY <2>3, <2>4
  <2>6. ASSUME NEW c \in Caches PROVE InUse(c)' = InUse(c) \ {o}
    <3>1. Idling(c)' = Elements(unused'[c]) /\ Idling(c) = Elements(unused[c])
      BY DEF Idling, Elements
    <3>2. unused[c] \in Seq(Objects)
      <4>1. unused[c] \in Seq(created) /\ created \subseteq Objects
        BY <1>1, <2>4 DEF CacheTyped
      <4> QED BY <4>1, SeqGrows
    <3>3. CASE c = CacheOf[o]
      <4>1. Elements(Append(unused[c], o)) = Elements(unused[c]) \cup {o}
        BY <3>2, ElementsAppend
      <4>2. Idling(c)' = Idling(c) \cup {o}
        BY <2>5, <3>1, <3>3, <4>1
      <4>3. Allocated(c)' = Allocated(c)
        BY <2>3 DEF Allocated
      <4> QED BY <4>2, <4>3 DEF InUse
    <3>4. CASE c # CacheOf[o]
      <4>1. Idling(c)' = Idling(c)
        BY <2>5, <3>1, <3>4
      <4>2. Allocated(c)' = Allocated(c) /\ o \notin Allocated(c)
        BY <2>3, <3>4 DEF Allocated
      <4> QED BY <4>1, <4>2 DEF InUse
    <3> QED BY <3>3, <3>4
  <2>7. Used' = Used \ {o}
    <3>1. Used' = UNION {InUse(c)' : c \in Caches}
      BY DEF Used
    <3>2. \A x : x \in Used' <=> \E c \in Caches : x \in InUse(c)'
      BY <3>1
    <3>3. \A x : x \in Used <=> \E c \in Caches : x \in InUse(c)
      BY DEF Used
    <3> QED BY <2>6, <3>2, <3>3
  <2>8. Abstract!Release(o)
    BY <2>3, <2>7 DEF Abstract!Release, Used
  <2> QED BY <2>8 DEF Abstract!Next
<1>15. CASE UNCHANGED vars
  BY <1>2, <1>15 DEF vars, cacheVars, references
<1> QED BY <1>3, <1>4, <1>5, <1>6, <1>7, <1>8, <1>9, <1>10, <1>11, <1>12, <1>13, <1>14, <1>15 DEF Next

(* To their clients the caches are one of VolatileCache: a texture that is *)
(* held is given to nobody else, and the volatile object that it was asked *)
(* for by finds it for as long.                                            *)
THEOREM VolatileCacheImplemented == Spec => ImplementsVolatileCache
<1>1. Init => Abstract!Init
  <2> SUFFICES ASSUME Init PROVE Abstract!Init
    OBVIOUS
  <2>1. info = [v \in Volatiles |-> None] /\ created = {}
    BY DEF Init, CacheInit
  <2>2. Used = {}
    BY <2>1 DEF Used, InUse, Allocated
  <2> QED BY <2>1, <2>2 DEF Abstract!Init, Used
<1>2. AllInv /\ AllInv' /\ [Next]_vars => [Abstract!Next]_<<info, UNION {InUse(c) : c \in Caches}>>
  BY AbstractStep DEF Used
<1> QED BY <1>1, <1>2, AllInvariant, PTL DEF Spec, ImplementsVolatileCache, Abstract!Spec
=============================================================================
