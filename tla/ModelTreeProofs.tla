--------------------------- MODULE ModelTreeProofs ---------------------------
(***************************************************************************)
(* Proofs about ModelTree, for any handles and any number of operations.   *)
(*                                                                         *)
(* The parent pointers and indices of handles that are held agree with the *)
(* slots.  The agenda is a stack: its entries are what the operations and  *)
(* the flush still have to do, and say which handles are about to be       *)
(* deactivated, which collections are about to be flagged, and which       *)
(* handles a flush has not visited yet.                                    *)
(***************************************************************************)
EXTENDS ModelTree, SequenceLemmas

(* The entries of the agenda. *)
AnyNews == News \cup {Added(i) : i \in Nat}
Steps == {"callback", "scope", "unguard", "modified", "bubble", "added", "deactivate",
          "cascade", "vacate", "orphan", "flush", "flush_children", "flush_modified",
          "clear_modified", "flush_added", "clear_added", "flush_active"}
Entries == [do : Steps, on : Handles, at : Nat, news : SUBSET AnyNews]

Clears == {e \in Entries : e.do \in {"clear_modified", "clear_added"}}
Visits == {e \in Entries : e.do \in {"flush", "flush_children"}}
Telling == {e \in Entries : e.do \in {"flush_modified", "flush_added", "flush_active"}}
FlushWork == Clears \cup Visits \cup Telling
Unguards == {e \in Entries : e.do = "unguard"}
Guards == {e \in Entries : e.do \in {"scope", "unguard"}}
Vacating(p) == {e \in Entries : e.do = "vacate" /\ e.on = p}

(* Which entry may be above which: a handle that dies has nothing but      *)
(* scopes below it; what is told is told before anything else is flushed;  *)
(* and there is one flush at a time.                                       *)
Order ==
  {p \in Entries \X Entries :
     /\ p[1].do = "orphan" => p[2].do = "scope"
     /\ p[2] \in Clears => p[1] \notin FlushWork
     /\ p[2] \in Unguards => p[1] \notin Unguards}

Stacked(s) ==
  /\ s \in Seq(Entries) /\ Ordered(s, Order)
  /\ Followed(s, FlushWork, Unguards)
  /\ \A p \in Handles : Followed(s, Vacating(p), {Modified(p, Publisher)})

ToDo == Elements(agenda)

(* The tree: slots, parents and indices agree for every handle that is     *)
(* held, and every handle that is active and has a parent is held.         *)
TreeTypes ==
  /\ slots \in [Handles -> Seq(Handles \cup {NULL})]
  /\ \A h \in Handles : \A i \in DOMAIN slots[h] : slots[h][i] \in ChildrenOf(h) \cup {NULL}
  /\ parent \in [Handles -> Handles \cup {NULL}]
  /\ \A h \in Handles : parent[h] # NULL => h \in ChildrenOf(parent[h])
  /\ index \in [Handles -> Nat]
  /\ live \in [Handles -> BOOLEAN]
  /\ active \in [Handles -> BOOLEAN] /\ wasActive \in [Handles -> BOOLEAN]
  /\ ops \in 0..MaxOps /\ \A h \in Handles : Len(slots[h]) <= ops

SlotsKnown ==
  \A p \in Handles : \A i \in DOMAIN slots[p] : slots[p][i] # NULL =>
    live[slots[p][i]] /\ parent[slots[p][i]] = p /\ index[slots[p][i]] = i
ParentsKnown ==
  \A h \in Handles : live[h] /\ active[h] /\ parent[h] # NULL =>
    live[parent[h]] /\ index[h] \in DOMAIN slots[parent[h]] /\ slots[parent[h]][index[h]] = h

(* What the entries say of the tree. *)
EntryFits(e) ==
  /\ e.do \in {"vacate", "added"} => e.at \in DOMAIN slots[e.on]
  /\ e.do = "modified" => e.news \subseteq Publisher \cup Child
  /\ e.do \in {"cascade", "flush_children"} => 1 <= e.at /\ e.at <= Len(slots[e.on]) + 1
  /\ e.do = "orphan" => e = Do("orphan", e.on) /\ e.on # Root /\ live[e.on] /\ ~Held(e.on)
EntriesFit == \A e \in ToDo : EntryFits(e)

(* What a slot to be vacated holds is not active, or is about to be told.  *)
Leaving(c) == c = NULL \/ ~active[c] \/ (agenda # <<>> /\ Head(agenda) = Do("deactivate", c))
VacatedLeave == \A e \in ToDo : e.do = "vacate" => Leaving(slots[e.on][e.at])

(* The children of a handle that is not active are not, or will be told.   *)
Cascading(p, i) ==
  \/ Do("deactivate", slots[p][i]) \in ToDo
  \/ \E e \in ToDo : e.do = "cascade" /\ e.on = p /\ e.at <= i
ChildrenFollow ==
  \A p \in Handles : \A i \in DOMAIN slots[p] :
    ~active[p] /\ slots[p][i] # NULL => ~active[slots[p][i]] \/ Cascading(p, i)

GuardInv == guard \in Nat /\ guard = Tally(agenda, Guards) /\ guard <= ops

(* A collection that changed is flagged, or the news is on its way.        *)
OnItsWay(c) ==
  \E e \in ToDo : \/ e.do = "modified" /\ e.on = c
                  \/ e.do \in {"modified", "bubble"} /\ parent[e.on] = c
SavedInv ==
  /\ unsaved \subseteq Collections /\ dirty \subseteq Collections
  /\ \A c \in dirty : c \in unsaved \/ OnItsWay(c)

(* News that is held back is noted in its handle, which is in the model    *)
(* or will never be again; and once the last guard of a client has gone,   *)
(* the flush will visit the handle.                                        *)
Bits == Publisher \cup Child
NewsTypes ==
  /\ pendMod \in [Handles -> SUBSET Bits]
  /\ pendAdd \in [Handles -> Seq(Nat)]
  /\ \A h \in Handles : Elements(pendAdd[h]) \subseteq DOMAIN slots[h]
  /\ owed \subseteq Handles \X (Bits \cup {Added(i) : i \in 1..ops})

NewsNoted ==
  \A o \in owed :
    /\ o[2] \in Bits => o[2] \in pendMod[o[1]] /\ \A e \in ToDo : ~(e.do = "clear_modified" /\ e.on = o[1])
    /\ o[2] \notin Bits => /\ \E i \in Elements(pendAdd[o[1]]) : o[2] = Added(i)
                           /\ \A e \in ToDo : ~(e.do = "clear_added" /\ e.on = o[1])
    /\ InModel(o[1]) \/ (parent[o[1]] = NULL /\ ~active[o[1]])

Visited(e, h) ==
  \/ e.do = "flush" /\ (h = e.on \/ parent[h] = e.on \/ (parent[h] # NULL /\ parent[parent[h]] = e.on))
  \/ /\ e.do = "flush_children"
     /\ \/ parent[h] = e.on /\ e.at <= index[h]
        \/ parent[h] # NULL /\ parent[parent[h]] = e.on /\ e.at <= index[parent[h]]
Told(e, o) ==
  \/ Visited(e, o[1])
  \/ e.do = "flush_modified" /\ e.on = o[1] /\ o[2] \in Bits
  \/ e.do = "flush_added" /\ e.on = o[1] /\ o[2] \notin Bits
FlushDue ==
  guard = 0 \/ Flushing => \A o \in owed : InTree(o[1]) => \E e \in ToDo : Told(e, o)

TreeInv == TreeTypes /\ SlotsKnown /\ ParentsKnown
StackInv == Stacked(agenda) /\ GuardInv
EntryInv == EntriesFit /\ VacatedLeave /\ ChildrenFollow
OwedInv == NewsTypes /\ NewsNoted /\ FlushDue
IInv == TreeInv /\ StackInv /\ EntryInv /\ SavedInv /\ OwedInv
-----------------------------------------------------------------------------
(* The stack: taking an entry off and putting one on. *)

(* What lets an entry stand above a stack. *)
NoClears(t) == \A y \in Elements(t) : y \notin Clears
HasUnguard(t) == \E y \in Elements(t) : y \in Unguards
Plain(x) == x \notin FlushWork /\ x \notin Unguards /\ x.do # "orphan" /\ x.do # "vacate"
Above(x, t) ==
  /\ \A y \in Elements(t) : <<x, y>> \in Order
  /\ x \in FlushWork => HasUnguard(t)
  /\ \A p \in Handles : x \in Vacating(p) => Modified(p, Publisher) \in Elements(t)

(* What a stack is before and after an entry is taken off. *)
Takes(s, x, t) ==
  /\ x \in Entries /\ Stacked(t) /\ Above(x, t)
  /\ Elements(s) = {x} \cup Elements(t)
  /\ Tally(s, Guards) = Tally(t, Guards) + IF x \in Guards THEN 1 ELSE 0
  /\ Tally(t, Guards) \in Nat

LEMMA PlainAbove ==
  ASSUME NEW x \in Entries, NEW t \in Seq(Entries), Plain(x)
  PROVE  Above(x, t)
<1>1. Elements(t) \subseteq Entries
  BY ElementsTyped
<1>2. \A y \in Elements(t) : <<x, y>> \in Order
  BY <1>1 DEF Order, Plain
<1> QED BY <1>2 DEF Above, Plain, Vacating

LEMMA FlushAbove ==
  ASSUME NEW x \in FlushWork, NEW t \in Seq(Entries), NoClears(t), HasUnguard(t)
  PROVE  x \in Entries /\ Above(x, t)
<1>1. Elements(t) \subseteq Entries
  BY ElementsTyped
<1>2. x \in Entries /\ x.do # "orphan" /\ x.do # "vacate" /\ x.do # "unguard"
  BY DEF FlushWork, Clears, Visits, Telling
<1>3. \A y \in Elements(t) : <<x, y>> \in Order
  BY <1>1, <1>2 DEF Order, NoClears, Unguards
<1> QED BY <1>2, <1>3 DEF Above, Vacating

LEMMA Below ==
  ASSUME NEW x \in Entries, NEW t \in Seq(Entries), Above(x, t)
  PROVE  /\ x \in FlushWork => NoClears(t) /\ HasUnguard(t)
         /\ x.do = "orphan" => \A y \in Elements(t) : y.do = "scope"
         /\ x.do = "vacate" => Modified(x.on, Publisher) \in Elements(t)
         /\ x.do = "unguard" => \A y \in Elements(t) : y \notin Unguards
<1>1. \A y \in Elements(t) : /\ x.do = "orphan" => y.do = "scope"
                             /\ y \in Clears => x \notin FlushWork
                             /\ y \in Unguards => x \notin Unguards
  BY DEF Above, Order
<1>2. x.do = "vacate" => x \in Vacating(x.on) /\ x.on \in Handles
  BY DEF Vacating, Entries
<1>3. x.do = "unguard" => x \in Unguards
  BY DEF Unguards
<1> QED BY <1>1, <1>2, <1>3 DEF Above, NoClears

LEMMA Taken ==
  ASSUME NEW s, Stacked(s), s # <<>>
  PROVE  Takes(s, Head(s), Tail(s)) /\ Tail(s) \in Seq(Entries)
<1>1. s \in Seq(Entries)
  BY DEF Stacked
<1>2. Head(s) \in Entries /\ Tail(s) \in Seq(Entries) /\ Elements(s) = {Head(s)} \cup Elements(Tail(s))
  BY <1>1, ElementsTail
<1>3. /\ Tally(Tail(s), Guards) \in Nat
      /\ Tally(s, Guards) = Tally(Tail(s), Guards) + IF Head(s) \in Guards THEN 1 ELSE 0
  BY <1>1, TallyTail
<1>4. /\ Ordered(Tail(s), Order)
      /\ \A y \in Elements(Tail(s)) : <<Head(s), y>> \in Order
  BY <1>1, StackTail DEF Stacked
<1>5. /\ Followed(Tail(s), FlushWork, Unguards)
      /\ Head(s) \in FlushWork => HasUnguard(Tail(s))
  BY <1>1, StackTail DEF Stacked, HasUnguard
<1>6. ASSUME NEW p \in Handles
      PROVE  /\ Followed(Tail(s), Vacating(p), {Modified(p, Publisher)})
             /\ Head(s) \in Vacating(p) => Modified(p, Publisher) \in Elements(Tail(s))
  <2>1. Followed(s, Vacating(p), {Modified(p, Publisher)})
    BY DEF Stacked
  <2>2. /\ Followed(Tail(s), Vacating(p), {Modified(p, Publisher)})
        /\ Head(s) \in Vacating(p) => \E y \in Elements(Tail(s)) : y \in {Modified(p, Publisher)}
    BY <1>1, <2>1, StackTail
  <2> QED BY <2>2
<1>7. Stacked(Tail(s))
  BY <1>2, <1>4, <1>5, <1>6 DEF Stacked
<1>8. Above(Head(s), Tail(s))
  BY <1>4, <1>5, <1>6 DEF Above
<1> QED BY <1>2, <1>3, <1>7, <1>8 DEF Takes

LEMMA Pushed ==
  ASSUME NEW x \in Entries, NEW t \in Seq(Entries), Stacked(t), Above(x, t), NEW s, s = <<x>> \o t
  PROVE  Stacked(s) /\ s \in Seq(Entries) /\ s # <<>> /\ Head(s) = x /\ Tail(s) = t /\ Takes(s, x, t)
<1>1. /\ s \in Seq(Entries) /\ s # <<>> /\ Head(s) = x /\ Tail(s) = t
      /\ Elements(s) = {x} \cup Elements(t)
  BY Pushing
<1>2. Tally(s, Guards) = Tally(t, Guards) + (IF x \in Guards THEN 1 ELSE 0) /\ Tally(t, Guards) \in Nat
  <2>1. /\ Tally(Tail(s), Guards) \in Nat
        /\ Tally(s, Guards) = Tally(Tail(s), Guards) + IF Head(s) \in Guards THEN 1 ELSE 0
    BY <1>1, TallyTail
  <2> QED BY <1>1, <2>1
<1>3. Ordered(s, Order)
  <2>1. Ordered(t, Order) /\ \A y \in Elements(t) : <<x, y>> \in Order
    BY DEF Stacked, Above
  <2> QED BY <2>1, PushingKeeps
<1>4. Followed(s, FlushWork, Unguards)
  <2>1. Followed(t, FlushWork, Unguards) /\ (x \in FlushWork => \E y \in Elements(t) : y \in Unguards)
    BY DEF Stacked, Above, HasUnguard
  <2> QED BY <2>1, PushingKeeps
<1>5. ASSUME NEW p \in Handles PROVE Followed(s, Vacating(p), {Modified(p, Publisher)})
  <2>1. PICK L : L = {Modified(p, Publisher)}
    OBVIOUS
  <2>2. Followed(t, Vacating(p), L) /\ (x \in Vacating(p) => \E y \in Elements(t) : y \in L)
    BY <2>1 DEF Stacked, Above
  <2>3. Followed(s, Vacating(p), L)
    BY <2>2, PushingKeeps
  <2> QED BY <2>1, <2>3
<1>6. Stacked(s)
  BY <1>1, <1>3, <1>4, <1>5 DEF Stacked
<1> QED BY <1>1, <1>2, <1>6 DEF Takes

(* What the parts of an entry are. *)
LEMMA Made ==
  ASSUME NEW what \in Steps, NEW h \in Handles, NEW i \in Nat, NEW n \in SUBSET AnyNews,
         NEW e, e = [do |-> what, on |-> h, at |-> i, news |-> n]
  PROVE  e \in Entries /\ e.do = what /\ e.on = h /\ e.at = i /\ e.news = n
BY DEF Entries

LEMMA MadeAt ==
  ASSUME NEW what \in Steps, NEW h \in Handles, NEW i \in Nat, NEW e, e = DoAt(what, h, i)
  PROVE  e \in Entries /\ e.do = what /\ e.on = h /\ e.at = i
BY Made DEF DoAt

LEMMA MadeDo ==
  ASSUME NEW what \in Steps, NEW h \in Handles, NEW e, e = Do(what, h)
  PROVE  e \in Entries /\ e.do = what /\ e.on = h
BY MadeAt DEF Do

LEMMA MadeModified ==
  ASSUME NEW h \in Handles, NEW n \in SUBSET Bits, NEW e, e = Modified(h, n)
  PROVE  e \in Entries /\ e.do = "modified" /\ e.on = h /\ e.news = n
<1>1. n \in SUBSET AnyNews
  BY DEF Bits, AnyNews, News, Publisher, Child
<1>2. e = [do |-> "modified", on |-> h, at |-> 0, news |-> n]
  BY DEF Modified
<1>3. PICK what : what = "modified"
  OBVIOUS
<1>4. what \in Steps /\ 0 \in Nat
  BY <1>3 DEF Steps
<1>5. e \in Entries /\ e.do = what /\ e.on = h /\ e.news = n
  BY <1>1, <1>2, <1>3, <1>4, Made
<1> QED BY <1>3, <1>5

LEMMA MadeTell ==
  ASSUME NEW h \in Handles, NEW n \in SUBSET AnyNews, NEW e, e = Tell(h, n)
  PROVE  e \in Entries /\ e.do = "callback" /\ e.on = h
<1>1. e = [do |-> "callback", on |-> h, at |-> 0, news |-> n]
  BY DEF Tell
<1>2. PICK what : what = "callback"
  OBVIOUS
<1>3. what \in Steps /\ 0 \in Nat
  BY <1>2 DEF Steps
<1>4. e \in Entries /\ e.do = what /\ e.on = h
  BY <1>1, <1>2, <1>3, Made
<1> QED BY <1>2, <1>4

(* What an entry does decides which kinds it is of. *)
LEMMA Kinds ==
  ASSUME NEW e \in Entries
  PROVE  /\ e \in Clears <=> e.do = "clear_modified" \/ e.do = "clear_added"
         /\ e \in Visits <=> e.do = "flush" \/ e.do = "flush_children"
         /\ e \in Telling <=> \/ e.do = "flush_modified" \/ e.do = "flush_added"
                              \/ e.do = "flush_active"
         /\ e \in Unguards <=> e.do = "unguard"
         /\ e \in Guards <=> e.do = "scope" \/ e.do = "unguard"
BY DEF Clears, Visits, Telling, Unguards, Guards
-----------------------------------------------------------------------------
(* The tree, and what a step that leaves a part alone keeps of it. *)

LEMMA FlushingToDo ==
  /\ Flushing <=> \E e \in ToDo : e.do = "unguard"
  /\ Flushing' <=> \E e \in ToDo' : e.do = "unguard"
BY DEF Flushing, ToDo, Elements

LEMMA NullIsNoHandle == NULL \notin Handles /\ Root \in Handles
BY HandlesAssumption DEF Handles

(* A handle is never its own child's child, and the root is no child. *)
LEMMA Levels ==
  ASSUME NEW p \in Handles, NEW c \in ChildrenOf(p)
  PROVE  /\ c \in Handles /\ c # Root /\ c # p
         /\ p = Root => c \in Collections
         /\ p # Root => p \in Collections /\ c \in Features
         /\ \A d \in ChildrenOf(c) : p = Root /\ c \in Collections /\ d \in Features
BY HandlesAssumption DEF ChildrenOf, Handles

(* The first occupied slot is there. *)
LEMMA Seeking ==
  ASSUME TreeInv, NEW p \in Handles, NEW i \in Nat, 1 <= i, i <= Len(slots[p]) + 1
  PROVE  /\ Seek(p, i) \in Nat /\ i <= Seek(p, i) /\ Seek(p, i) <= Len(slots[p]) + 1
         /\ Seek(p, i) <= Len(slots[p]) => slots[p][Seek(p, i)] # NULL
         /\ \A k \in Nat : i <= k /\ k < Seek(p, i) => slots[p][k] = NULL
<1> DEFINE n == Len(slots[p])
           T == {j \in Nat : i <= j /\ (j = n + 1 \/ (j <= n /\ slots[p][j] # NULL))}
           P(j) == /\ j <= n => slots[p][j] # NULL
                   /\ \A k \in i..(j - 1) : slots[p][k] = NULL
<1>1. n \in Nat
  BY DEF TreeInv, TreeTypes
<1>2. n + 1 \in T
  BY <1>1
<1>3. PICK j \in T : \A y \in T : j <= y
  BY <1>2, Least
<1>4. j \in i..(n + 1)
  BY <1>1, <1>2, <1>3
<1>5. P(j)
  <2>1. j <= n => slots[p][j] # NULL
    BY <1>1
  <2>2. ASSUME NEW k \in i..(j - 1) PROVE slots[p][k] = NULL
    BY <1>1, <1>3, <1>4
  <2> QED BY <2>1, <2>2
<1>6. \E k \in i..(n + 1) : P(k)
  BY <1>4, <1>5
<1>7. Seek(p, i) = CHOOSE k \in i..(n + 1) : P(k)
  BY DEF Seek
<1>8. Seek(p, i) \in i..(n + 1) /\ P(Seek(p, i))
  BY <1>6, <1>7
<1> QED BY <1>1, <1>8

(* A held handle is below the one that holds it. *)
LEMMA HeldBelow ==
  ASSUME TreeInv, NEW p \in Handles, NEW h, InSlot(p, h), h # NULL
  PROVE  /\ h \in ChildrenOf(p) /\ live[h] /\ parent[h] = p
         /\ index[h] \in DOMAIN slots[p] /\ slots[p][index[h]] = h
         /\ index[h] \in Nat /\ 1 <= index[h]
<1>1. PICK i \in DOMAIN slots[p] : slots[p][i] = h
  BY DEF InSlot
<1>2. slots[p] \in Seq(Handles \cup {NULL})
  BY DEF TreeInv, TreeTypes
<1>3. h \in ChildrenOf(p)
  BY <1>1 DEF TreeInv, TreeTypes
<1>4. live[h] /\ parent[h] = p /\ index[h] = i
  BY <1>1 DEF TreeInv, SlotsKnown
<1>5. i \in Nat /\ 1 <= i
  BY <1>2
<1> QED BY <1>1, <1>3, <1>4, <1>5

LEMMA TreeBelow ==
  ASSUME TreeInv, NEW h \in Handles, InTree(h)
  PROVE  \/ h = Root
         \/ InSlot(Root, h) /\ parent[h] = Root /\ h # Root
         \/ /\ parent[h] \in Collections /\ parent[h] # Root
            /\ InSlot(parent[h], h)
            /\ InSlot(Root, parent[h]) /\ parent[parent[h]] = Root
<1>1. CASE InSlot(Root, h)
  <2>1. parent[h] = Root /\ h \in ChildrenOf(Root)
    BY <1>1, HeldBelow, NullIsNoHandle
  <2> QED BY <1>1, <2>1, NullIsNoHandle, Levels
<1>2. ASSUME NEW c \in Collections, InSlot(Root, c), InSlot(c, h)
      PROVE  /\ parent[h] \in Collections /\ parent[h] # Root
             /\ InSlot(parent[h], h)
             /\ InSlot(Root, parent[h]) /\ parent[parent[h]] = Root
  <2>1. c \in Handles /\ c # NULL /\ Root \in Handles /\ h # NULL /\ c # Root
    BY NullIsNoHandle, HandlesAssumption DEF Handles
  <2>2. parent[h] = c
    BY <1>2, <2>1, HeldBelow
  <2>3. parent[c] = Root
    BY <1>2, <2>1, HeldBelow
  <2> QED BY <1>2, <2>1, <2>2, <2>3
<1> QED BY <1>1, <1>2 DEF InTree

(* What stays true when the tree stays as it is and the agenda changes by  *)
(* entries of no concern.                                                  *)
LEMMA TreeKept ==
  ASSUME TreeInv, UNCHANGED <<slots, parent, index, live, active>>,
         wasActive' \in [Handles -> BOOLEAN], ops' \in 0..MaxOps, ops <= ops'
  PROVE  TreeInv'
<1>1. \A h \in Handles : Len(slots[h]) \in Nat /\ Len(slots[h]) <= ops
  BY DEF TreeInv, TreeTypes
<1>2. ops \in Nat /\ ops' \in Nat
  BY HandlesAssumption DEF TreeInv, TreeTypes
<1>3. \A h \in Handles : Len(slots'[h]) <= ops'
  BY <1>1, <1>2
<1>4. TreeTypes'
  BY <1>3 DEF TreeInv, TreeTypes
<1>5. SlotsKnown' /\ ParentsKnown'
  BY DEF TreeInv, SlotsKnown, ParentsKnown
<1> QED BY <1>4, <1>5 DEF TreeInv

LEMMA EntriesKept ==
  ASSUME EntryInv, UNCHANGED <<slots, live, active>>, NEW D, NEW N,
         ToDo \ D \subseteq ToDo', ToDo' \subseteq ToDo \cup N,
         \A e \in D : e.do # "deactivate" /\ e.do # "cascade",
         agenda # <<>> => Head(agenda).do # "deactivate",
         \A e \in N : EntryFits(e) /\ e.do # "vacate"
  PROVE  EntryInv'
<1>1. EntriesFit'
  <2>1. \A e \in ToDo \cup N : EntryFits(e)
    BY DEF EntryInv, EntriesFit
  <2>2. \A e : EntryFits(e) => EntryFits(e)'
    BY DEF EntryFits, Held, InSlot
  <2> QED BY <2>1, <2>2 DEF EntriesFit
<1>2. VacatedLeave'
  <2>1. SUFFICES ASSUME NEW e \in ToDo', e.do = "vacate" PROVE Leaving(slots[e.on][e.at])'
    BY DEF VacatedLeave
  <2>2. Leaving(slots[e.on][e.at])
    BY <2>1 DEF EntryInv, VacatedLeave
  <2>3. agenda # <<>> => \A c : Head(agenda) # Do("deactivate", c)
    BY DEF Do, DoAt
  <2> QED BY <2>2, <2>3 DEF Leaving
<1>3. ChildrenFollow'
  <2>1. SUFFICES ASSUME NEW p \in Handles, NEW i \in DOMAIN slots[p], ~active[p], slots[p][i] # NULL,
                        active[slots[p][i]]
                 PROVE  Cascading(p, i)'
    BY DEF ChildrenFollow
  <2>2. Cascading(p, i)
    BY <2>1 DEF EntryInv, ChildrenFollow
  <2>3. Do("deactivate", slots[p][i]) \in ToDo => Do("deactivate", slots[p][i]) \in ToDo'
    BY DEF Do, DoAt
  <2>4. \A e \in ToDo : e.do = "cascade" => e \in ToDo'
    OBVIOUS
  <2> QED BY <2>2, <2>3, <2>4 DEF Cascading
<1> QED BY <1>1, <1>2, <1>3 DEF EntryInv

LEMMA SavedKept ==
  ASSUME SavedInv, UNCHANGED <<parent, unsaved, dirty>>, NEW D,
         ToDo \ D \subseteq ToDo', \A e \in D : e.do # "modified" /\ e.do # "bubble"
  PROVE  SavedInv'
<1>1. \A c : OnItsWay(c) => OnItsWay(c)'
  BY DEF OnItsWay
<1> QED BY <1>1 DEF SavedInv

LEMMA OwedKept ==
  ASSUME TreeInv, OwedInv, UNCHANGED <<slots, parent, index, pendMod, pendAdd, owed>>,
         ops \in Nat, ops' \in Nat, ops <= ops',
         \A h \in Handles : active'[h] => active[h], NEW D, NEW N,
         ToDo \ D \subseteq ToDo', ToDo' \subseteq ToDo \cup N,
         \A e \in D : \A o \in owed : ~Told(e, o),
         \A e \in N : e.do # "clear_modified" /\ e.do # "clear_added",
         guard' = 0 \/ Flushing' => guard = 0 \/ Flushing
  PROVE  OwedInv'
<1>1. NewsTypes'
  <2>1. \A i \in 1..ops : i \in 1..ops'
    OBVIOUS
  <2>2. {Added(i) : i \in 1..ops} \subseteq {Added(i) : i \in 1..ops'}
    BY <2>1
  <2> QED BY <2>2 DEF OwedInv, NewsTypes
<1>2. NewsNoted'
  <2>1. SUFFICES ASSUME NEW o \in owed
                 PROVE  /\ o[2] \in Bits => /\ o[2] \in pendMod[o[1]]
                                            /\ \A e \in ToDo' : ~(e.do = "clear_modified" /\ e.on = o[1])
                        /\ o[2] \notin Bits => /\ \E i \in Elements(pendAdd[o[1]]) : o[2] = Added(i)
                                               /\ \A e \in ToDo' : ~(e.do = "clear_added" /\ e.on = o[1])
                        /\ InModel(o[1])' \/ (parent[o[1]] = NULL /\ ~active'[o[1]])
    BY DEF NewsNoted
  <2>2. o[1] \in Handles
    BY DEF OwedInv, NewsTypes
  <2>3. InModel(o[1]) => InModel(o[1])'
    BY DEF InModel
  <2> QED BY <2>2, <2>3 DEF OwedInv, NewsNoted
<1>3. FlushDue'
  <2>1. SUFFICES ASSUME guard' = 0 \/ Flushing', NEW o \in owed, InTree(o[1])'
                 PROVE  \E e \in ToDo' : Told(e, o)'
    BY DEF FlushDue
  <2>2. InTree(o[1])
    BY <2>1 DEF InTree, InSlot
  <2>3. PICK e \in ToDo : Told(e, o)
    BY <2>1, <2>2 DEF OwedInv, FlushDue
  <2>4. Told(e, o)'
    BY <2>3 DEF Told, Visited
  <2> QED BY <2>3, <2>4
<1> QED BY <1>1, <1>2, <1>3 DEF OwedInv

LEMMA GuardKept ==
  ASSUME GuardInv, guard' = guard, ops \in Nat, ops' \in Nat, ops <= ops',
         Tally(agenda', Guards) = Tally(agenda, Guards)
  PROVE  GuardInv'
BY DEF GuardInv
-----------------------------------------------------------------------------
(* The step that is under way: the entry x that is done, and the rest t.   *)
Runs(x, t) ==
  /\ agenda # <<>> /\ x = Head(agenda) /\ t = Tail(agenda)
  /\ t \in Seq(Entries) /\ Takes(agenda, x, t)
  /\ ToDo = {x} \cup Elements(t) /\ EntryFits(x)

LEMMA Running ==
  ASSUME IInv, agenda # <<>>
  PROVE  \E x, t : Runs(x, t)
<1>1. Takes(agenda, Head(agenda), Tail(agenda)) /\ Tail(agenda) \in Seq(Entries)
  BY Taken DEF IInv, StackInv
<1>2. ToDo = {Head(agenda)} \cup Elements(Tail(agenda))
  BY <1>1 DEF Takes, ToDo
<1>3. EntryFits(Head(agenda))
  BY <1>2 DEF IInv, EntryInv, EntriesFit
<1> QED BY <1>1, <1>2, <1>3 DEF Runs

(* Entries that count no guard, put onto a stack. *)
Onto(s, N, t) ==
  /\ s \in Seq(Entries) /\ Stacked(s)
  /\ Elements(s) = N \cup Elements(t)
  /\ Tally(s, Guards) = Tally(t, Guards) /\ Tally(t, Guards) \in Nat

LEMMA OntoNone ==
  ASSUME NEW t \in Seq(Entries), Stacked(t), NEW s, s = <<>> \o t
  PROVE  s = t /\ Onto(s, {}, t)
<1>1. s = t
  OBVIOUS
<1>2. Tally(t, Guards) \in Nat
  BY TallyConcat
<1> QED BY <1>1, <1>2 DEF Onto

LEMMA OntoOne ==
  ASSUME NEW t \in Seq(Entries), Stacked(t), NEW y \in Entries, Above(y, t), y \notin Guards,
         NEW s, s = <<y>> \o t
  PROVE  Onto(s, {y}, t) /\ s # <<>> /\ Head(s) = y
<1>1. Stacked(s) /\ s \in Seq(Entries) /\ s # <<>> /\ Head(s) = y /\ Takes(s, y, t)
  BY Pushed
<1> QED BY <1>1 DEF Onto, Takes

LEMMA OntoTwo ==
  ASSUME NEW t \in Seq(Entries), Stacked(t), NEW z \in Entries, Above(z, t), z \notin Guards,
         NEW y \in Entries, Plain(y), y \notin Guards, NEW s, s = <<y, z>> \o t
  PROVE  Onto(s, {y, z}, t) /\ s # <<>> /\ Head(s) = y
<1>1. PICK r : r = <<z>> \o t
  OBVIOUS
<1>2. Onto(r, {z}, t)
  BY <1>1, OntoOne
<1>3. r \in Seq(Entries) /\ Stacked(r)
  BY <1>2 DEF Onto
<1>4. s = <<y>> \o r
  <2>1. <<y, z>> \o t = <<y>> \o (<<z>> \o t)
    BY ConcatTwo
  <2> QED BY <1>1, <2>1
<1>5. Above(y, r)
  BY <1>3, PlainAbove
<1>6. Onto(s, {y}, r) /\ s # <<>> /\ Head(s) = y
  BY <1>3, <1>4, <1>5, OntoOne
<1>7. Elements(s) = {y, z} \cup Elements(t)
  BY <1>2, <1>6 DEF Onto
<1> QED BY <1>2, <1>6, <1>7 DEF Onto

(* What goes onto the rest of the agenda, or onto the agenda. *)
LEMMA ContinuesWith ==
  ASSUME IInv, NEW x, NEW t, Runs(x, t), x \notin Guards, NEW N, Onto(agenda', N, t),
         guard' = guard, ops' = ops
  PROVE  StackInv' /\ ToDo' = N \cup Elements(t)
<1>1. ToDo' = N \cup Elements(t)
  BY DEF Onto, ToDo
<1>2. Tally(agenda', Guards) = Tally(t, Guards) /\ Stacked(agenda')
  BY DEF Onto
<1>3. Tally(agenda, Guards) = Tally(t, Guards) + 0 /\ Tally(t, Guards) \in Nat
  BY DEF Runs, Takes
<1>4. ops \in Nat
  BY HandlesAssumption DEF IInv, TreeInv, TreeTypes
<1>5. GuardInv'
  BY <1>2, <1>3, <1>4, GuardKept DEF IInv, StackInv
<1> QED BY <1>1, <1>2, <1>5 DEF StackInv

LEMMA StartsWith ==
  ASSUME IInv, NEW N, Onto(agenda', N, agenda), guard' = guard, ops' = ops + 1, ops < MaxOps
  PROVE  /\ StackInv' /\ ToDo' = N \cup ToDo
         /\ ops \in Nat /\ ops' \in 0..MaxOps /\ ops <= ops' /\ ops' \in Nat
<1>1. ToDo' = N \cup ToDo
  BY DEF Onto, ToDo
<1>2. Tally(agenda', Guards) = Tally(agenda, Guards) /\ Stacked(agenda')
  BY DEF Onto
<1>3. ops \in Nat /\ ops' \in 0..MaxOps /\ ops <= ops' /\ ops' \in Nat
  BY HandlesAssumption DEF IInv, TreeInv, TreeTypes
<1>4. GuardInv'
  BY <1>2, <1>3, GuardKept DEF IInv, StackInv
<1> QED BY <1>1, <1>2, <1>3, <1>4 DEF StackInv

(* What client code starts does not come between what an operation does.   *)
LEMMA ClientRuns ==
  ASSUME IInv, ClientTurn
  PROVE  /\ agenda # <<>> => Head(agenda).do # "deactivate"
         /\ agenda \in Seq(Entries) /\ Stacked(agenda)
BY DEF ClientTurn, IInv, StackInv, Stacked

(* A step that touches neither the handles nor the news. *)
LEMMA Quiet ==
  ASSUME IInv, NEW x, NEW t, Runs(x, t), StackInv', NEW N, ToDo' = N \cup Elements(t),
         UNCHANGED <<slots, parent, index, live, active, pendMod, pendAdd, owed, unsaved, dirty, ops>>,
         wasActive' \in [Handles -> BOOLEAN],
         x.do # "deactivate", x.do # "cascade", x.do # "modified", x.do # "bubble",
         \A o \in owed : ~Told(x, o),
         \A e \in N : /\ EntryFits(e) /\ e.do # "vacate"
                      /\ e.do # "clear_modified" /\ e.do # "clear_added",
         guard' = 0 \/ Flushing' => guard = 0 \/ Flushing
  PROVE  IInv'
<1> DEFINE D == {x}
<1>1. ToDo \ D \subseteq ToDo' /\ ToDo' \subseteq ToDo \cup N
  BY DEF Runs
<1>2. ops \in 0..MaxOps /\ ops \in Nat /\ ops <= ops
  BY HandlesAssumption DEF IInv, TreeInv, TreeTypes
<1>3. TreeInv'
  BY <1>2, TreeKept DEF IInv
<1>4. EntryInv'
  <2>1. \A e \in D : e.do # "deactivate" /\ e.do # "cascade"
    OBVIOUS
  <2>2. agenda # <<>> => Head(agenda).do # "deactivate"
    BY DEF Runs
  <2>3. \A e \in N : EntryFits(e) /\ e.do # "vacate"
    OBVIOUS
  <2> HIDE DEF D
  <2> QED BY <1>1, <2>1, <2>2, <2>3, EntriesKept DEF IInv
<1>5. SavedInv'
  <2>1. \A e \in D : e.do # "modified" /\ e.do # "bubble"
    OBVIOUS
  <2> HIDE DEF D
  <2> QED BY <1>1, <2>1, SavedKept DEF IInv
<1>6. OwedInv'
  <2>1. \A e \in D : \A o \in owed : ~Told(e, o)
    OBVIOUS
  <2>2. \A e \in N : e.do # "clear_modified" /\ e.do # "clear_added"
    OBVIOUS
  <2>3. \A h \in Handles : active'[h] => active[h]
    OBVIOUS
  <2> HIDE DEF D
  <2> QED BY <1>1, <1>2, <2>1, <2>2, <2>3, OwedKept DEF IInv
<1> QED BY <1>3, <1>4, <1>5, <1>6 DEF IInv

LEMMA ReturnStep == ASSUME IInv, Return PROVE IInv'
<1>1. PICK x, t : Runs(x, t)
  BY Running DEF Return
<1>2. /\ agenda' = t /\ x.do = "callback" /\ guard' = guard /\ ops' = ops
      /\ UNCHANGED <<slots, parent, index, live, active, pendMod, pendAdd, owed, unsaved, dirty>>
      /\ wasActive' = wasActive
  BY <1>1 DEF Return, Runs, tree, activity, pending, saving
<1>3. x \notin Guards /\ x \in Entries /\ Stacked(t) /\ t \in Seq(Entries)
  BY <1>1, <1>2 DEF Runs, Takes, Guards
<1>4. Onto(agenda', {}, t)
  <2>1. agenda' = <<>> \o t
    BY <1>2, <1>3
  <2> QED BY <1>3, <2>1, OntoNone
<1>5. StackInv' /\ ToDo' = {} \cup Elements(t)
  BY <1>1, <1>2, <1>3, <1>4, ContinuesWith
<1>6. \A o \in owed : ~Told(x, o)
  BY <1>2 DEF Told, Visited
<1>7. Flushing' => Flushing
  BY <1>1, <1>5, FlushingToDo DEF Runs
<1>8. wasActive' \in [Handles -> BOOLEAN]
  BY <1>2 DEF IInv, TreeInv, TreeTypes
<1>9. PICK N : N = {}
  OBVIOUS
<1>10. x.do # "deactivate" /\ x.do # "cascade" /\ x.do # "modified" /\ x.do # "bubble"
  BY <1>2
<1>11. ToDo' = N \cup Elements(t)
  BY <1>5, <1>9
<1>12. guard' = 0 \/ Flushing' => guard = 0 \/ Flushing
  BY <1>2, <1>7
<1>13. \A e \in N : EntryFits(e) /\ e.do # "vacate" /\ e.do # "clear_modified" /\ e.do # "clear_added"
  BY <1>9
<1> QED BY <1>1, <1>2, <1>5, <1>6, <1>8, <1>10, <1>11, <1>12, <1>13, Quiet
-----------------------------------------------------------------------------
(* What client code starts without touching a handle. *)
LEMMA QuietStart ==
  ASSUME IInv, ClientTurn, StackInv', NEW N, ToDo' = N \cup ToDo,
         UNCHANGED <<slots, parent, index, live, active, wasActive, pendMod, pendAdd, owed>>,
         ops' \in 0..MaxOps, ops <= ops', ops \in Nat, ops' \in Nat,
         \A e \in N : /\ EntryFits(e) /\ e.do # "vacate"
                      /\ e.do # "clear_modified" /\ e.do # "clear_added" /\ e.do # "unguard",
         guard' = 0 => guard = 0
  PROVE  SavedInv' \/ (dirty' = dirty /\ unsaved' = unsaved) => IInv'
<1>1. PICK D : D = {}
  OBVIOUS
<1>2. ToDo \ D \subseteq ToDo' /\ ToDo' \subseteq ToDo \cup N
  OBVIOUS
<1>3. TreeInv'
  <2>1. wasActive' \in [Handles -> BOOLEAN]
    BY DEF IInv, TreeInv, TreeTypes
  <2> QED BY <2>1, TreeKept DEF IInv
<1>4. EntryInv'
  <2>1. \A e \in D : e.do # "deactivate" /\ e.do # "cascade"
    BY <1>1
  <2>2. agenda # <<>> => Head(agenda).do # "deactivate"
    BY ClientRuns
  <2>3. \A e \in N : EntryFits(e) /\ e.do # "vacate"
    OBVIOUS
  <2> QED BY <1>2, <2>1, <2>2, <2>3, EntriesKept DEF IInv
<1>5. dirty' = dirty /\ unsaved' = unsaved => SavedInv'
  <2>1. \A e \in D : e.do # "modified" /\ e.do # "bubble"
    BY <1>1
  <2> QED BY <1>2, <2>1, SavedKept DEF IInv
<1>6. OwedInv'
  <2>1. \A e \in D : \A o \in owed : ~Told(e, o)
    BY <1>1
  <2>2. \A e \in N : e.do # "clear_modified" /\ e.do # "clear_added"
    OBVIOUS
  <2>3. \A h \in Handles : active'[h] => active[h]
    OBVIOUS
  <2>4. Flushing' => Flushing
    BY FlushingToDo
  <2> QED BY <1>2, <2>1, <2>2, <2>3, <2>4, OwedKept DEF IInv
<1> QED BY <1>3, <1>4, <1>5, <1>6 DEF IInv

LEMMA AcquireStep == ASSUME IInv, Acquire PROVE IInv'
<1>1. /\ ClientTurn /\ ops < MaxOps /\ ops' = ops + 1 /\ guard' = guard + 1
      /\ agenda' = <<Do("scope", Root)>> \o agenda
      /\ UNCHANGED <<slots, parent, index, live, active, wasActive, pendMod, pendAdd, owed>>
      /\ UNCHANGED <<unsaved, dirty>>
  BY DEF Acquire, Start, tree, activity, pending, saving
<1>2. PICK y : y = Do("scope", Root)
  OBVIOUS
<1>3. PICK what : what = "scope"
  OBVIOUS
<1>4. what \in Steps /\ Root \in Handles
  BY <1>3, NullIsNoHandle DEF Steps
<1>5. y \in Entries /\ y.do = "scope"
  <2>1. y \in Entries /\ y.do = what
    BY <1>2, <1>3, <1>4, MadeDo
  <2> QED BY <1>3, <2>1
<1>6. agenda \in Seq(Entries) /\ Stacked(agenda)
  BY <1>1, ClientRuns
<1>7. Plain(y) /\ y \in Guards
  BY <1>5, Kinds DEF Plain, FlushWork
<1>8. agenda' = <<y>> \o agenda
  BY <1>1, <1>2
<1>9. Stacked(agenda') /\ Takes(agenda', y, agenda)
  <2>1. Above(y, agenda)
    BY <1>5, <1>6, <1>7, PlainAbove
  <2> QED BY <1>5, <1>6, <1>8, <2>1, Pushed
<1>10. ops \in Nat /\ ops' \in Nat /\ ops' \in 0..MaxOps /\ ops <= ops'
  BY <1>1, HandlesAssumption DEF IInv, TreeInv, TreeTypes
<1>11. GuardInv'
  <2>1. Tally(agenda', Guards) = Tally(agenda, Guards) + 1
    BY <1>7, <1>9 DEF Takes
  <2>2. guard \in Nat /\ guard = Tally(agenda, Guards) /\ guard <= ops
    BY DEF IInv, StackInv, GuardInv
  <2>3. guard' \in Nat /\ guard' = Tally(agenda', Guards) /\ guard' <= ops'
    BY <1>1, <1>10, <2>1, <2>2
  <2> QED BY <2>3 DEF GuardInv
<1>12. StackInv'
  BY <1>9, <1>11 DEF StackInv
<1>13. PICK N : N = {y}
  OBVIOUS
<1>14. ToDo' = N \cup ToDo
  BY <1>9, <1>13 DEF Takes, ToDo
<1>15. guard' = 0 => guard = 0
  BY <1>1 DEF IInv, StackInv, GuardInv
<1>16. EntryFits(y)
  BY <1>5 DEF EntryFits
<1>17. \A e \in N : /\ EntryFits(e) /\ e.do # "vacate"
                    /\ e.do # "clear_modified" /\ e.do # "clear_added" /\ e.do # "unguard"
  BY <1>5, <1>13, <1>16
<1> QED BY <1>1, <1>10, <1>12, <1>14, <1>15, <1>17, QuietStart

LEMMA SaveStep == ASSUME IInv, NEW c \in Collections, Save(c) PROVE IInv'
<1>1. /\ ClientTurn /\ ops < MaxOps /\ ops' = ops + 1 /\ guard' = guard
      /\ agenda' = <<>> \o agenda
      /\ UNCHANGED <<slots, parent, index, live, active, wasActive, pendMod, pendAdd, owed>>
      /\ unsaved' = unsaved \ {c} /\ dirty' = dirty \ {c}
  BY DEF Save, Start, tree, activity, pending, saving
<1>2. agenda \in Seq(Entries) /\ Stacked(agenda)
  BY <1>1, ClientRuns
<1>3. PICK N : N = {}
  OBVIOUS
<1>4. agenda' = agenda /\ Onto(agenda', N, agenda)
  BY <1>1, <1>2, <1>3, OntoNone
<1>5. /\ StackInv' /\ ToDo' = N \cup ToDo
      /\ ops \in Nat /\ ops' \in 0..MaxOps /\ ops <= ops' /\ ops' \in Nat
  BY <1>1, <1>4, StartsWith
<1>6. SavedInv'
  <2>1. ToDo' = ToDo /\ parent' = parent
    BY <1>1, <1>3, <1>5
  <2>2. \A d : OnItsWay(d) => OnItsWay(d)'
    BY <2>1 DEF OnItsWay
  <2> QED BY <1>1, <2>2 DEF IInv, SavedInv
<1>7. \A e \in N : /\ EntryFits(e) /\ e.do # "vacate"
                   /\ e.do # "clear_modified" /\ e.do # "clear_added" /\ e.do # "unguard"
  BY <1>3
<1> QED BY <1>1, <1>5, <1>6, <1>7, QuietStart

LEMMA ModifyStep ==
  ASSUME IInv, NEW f \in Features, NEW bits \in {Publisher, Child}, Modify(f, bits)
  PROVE  IInv'
<1>1. /\ ClientTurn /\ ops < MaxOps /\ ops' = ops + 1 /\ guard' = guard
      /\ agenda' = <<Modified(f, bits)>> \o agenda
      /\ UNCHANGED <<slots, parent, index, live, active, wasActive, pendMod, pendAdd, owed>>
      /\ unsaved' = unsaved /\ dirty' = dirty \cup {c \in Collections : InSlot(c, f)}
  BY DEF Modify, Start, tree, activity, pending, saving
<1>2. agenda \in Seq(Entries) /\ Stacked(agenda)
  BY <1>1, ClientRuns
<1>3. f \in Handles /\ bits \in SUBSET Bits
  BY DEF Handles, Bits
<1>4. PICK y : y = Modified(f, bits)
  OBVIOUS
<1>5. y \in Entries /\ y.do = "modified" /\ y.on = f /\ y.news = bits
  BY <1>3, <1>4, MadeModified
<1>6. Plain(y) /\ y \notin Guards
  BY <1>5, Kinds DEF Plain, FlushWork
<1>7. Above(y, agenda)
  BY <1>2, <1>5, <1>6, PlainAbove
<1>8. agenda' = <<y>> \o agenda
  BY <1>1, <1>4
<1>9. Onto(agenda', {y}, agenda)
  BY <1>2, <1>5, <1>6, <1>7, <1>8, OntoOne
<1>10. /\ StackInv' /\ ToDo' = {y} \cup ToDo
       /\ ops \in Nat /\ ops' \in 0..MaxOps /\ ops <= ops' /\ ops' \in Nat
  BY <1>1, <1>9, StartsWith
<1>11. PICK N : N = {y}
  OBVIOUS
<1>12. ToDo' = N \cup ToDo
  BY <1>10, <1>11
<1>13. EntryFits(y)
  BY <1>3, <1>5 DEF EntryFits, Bits
<1>14. \A e \in N : /\ EntryFits(e) /\ e.do # "vacate"
                    /\ e.do # "clear_modified" /\ e.do # "clear_added" /\ e.do # "unguard"
  BY <1>5, <1>11, <1>13
<1>15. SavedInv'
  <2>1. \A c : OnItsWay(c) => OnItsWay(c)'
    BY <1>1, <1>10 DEF OnItsWay
  <2>2. ASSUME NEW c \in Collections, InSlot(c, f) PROVE OnItsWay(c)'
    <3>1. parent[f] = c
      <4>1. c \in Handles /\ f # NULL
        BY <1>3, NullIsNoHandle DEF Handles
      <4> QED BY <2>2, <4>1, HeldBelow DEF IInv
    <3>2. y \in ToDo' /\ parent'[y.on] = c
      BY <1>1, <1>5, <1>10, <3>1
    <3> QED BY <1>5, <3>2 DEF OnItsWay
  <2> QED BY <1>1, <2>1, <2>2 DEF IInv, SavedInv
<1> QED BY <1>1, <1>10, <1>12, <1>14, <1>15, QuietStart

LEMMA DropStep == ASSUME IInv, NEW h \in Handles \ {Root}, Drop(h) PROVE IInv'
<1>1. /\ ClientTurn /\ ops < MaxOps /\ ops' = ops + 1 /\ guard' = guard
      /\ agenda' = <<Tell(h, {<<"destroyed", 0>>}), Do("orphan", h)>> \o agenda
      /\ UNCHANGED <<slots, parent, index, live, active, wasActive, pendMod, pendAdd, owed>>
      /\ unsaved' = unsaved /\ dirty' = dirty
      /\ Settled /\ live[h] /\ ~Held(h)
  BY DEF Drop, Start, tree, activity, pending, saving
<1>2. agenda \in Seq(Entries) /\ Stacked(agenda)
  BY <1>1, ClientRuns
<1>3. {<<"destroyed", 0>>} \in SUBSET AnyNews
  BY DEF AnyNews, News
<1>4. PICK y : y = Tell(h, {<<"destroyed", 0>>})
  OBVIOUS
<1>5. y \in Entries /\ y.do = "callback"
  BY <1>3, <1>4, MadeTell
<1>6. PICK z : z = Do("orphan", h)
  OBVIOUS
<1>7. z \in Entries /\ z.do = "orphan" /\ z.on = h
  <2>1. PICK what : what = "orphan"
    OBVIOUS
  <2>2. what \in Steps
    BY <2>1 DEF Steps
  <2>3. z \in Entries /\ z.do = what /\ z.on = h
    BY <1>6, <2>1, <2>2, MadeDo
  <2> QED BY <2>1, <2>3
<1>8. /\ Plain(y) /\ y \notin Guards /\ z \notin Guards /\ z \notin FlushWork
      /\ z \notin Clears /\ z \notin Unguards
  BY <1>5, <1>7, Kinds DEF Plain, FlushWork
<1>9. Above(z, agenda)
  <2>1. ASSUME NEW e \in Elements(agenda) PROVE <<z, e>> \in Order
    <3>1. e \in Entries /\ e.do = "scope"
      BY <1>1, <1>2, ElementsTyped DEF Settled, Elements
    <3> QED BY <1>7, <1>8, <3>1 DEF Order
  <2>2. \A p \in Handles : z \notin Vacating(p)
    BY <1>7 DEF Vacating
  <2> QED BY <1>8, <2>1, <2>2 DEF Above
<1>10. agenda' = <<y, z>> \o agenda
  BY <1>1, <1>4, <1>6
<1>11. Onto(agenda', {y, z}, agenda)
  BY <1>2, <1>5, <1>7, <1>8, <1>9, <1>10, OntoTwo
<1>12. /\ StackInv' /\ ToDo' = {y, z} \cup ToDo
       /\ ops \in Nat /\ ops' \in 0..MaxOps /\ ops <= ops' /\ ops' \in Nat
  BY <1>1, <1>11, StartsWith
<1>13. PICK N : N = {y, z}
  OBVIOUS
<1>14. ToDo' = N \cup ToDo
  BY <1>12, <1>13
<1>15. EntryFits(y) /\ EntryFits(z)
  BY <1>1, <1>5, <1>6, <1>7 DEF EntryFits
<1>16. \A e \in N : /\ EntryFits(e) /\ e.do # "vacate"
                    /\ e.do # "clear_modified" /\ e.do # "clear_added" /\ e.do # "unguard"
  BY <1>5, <1>7, <1>13, <1>15
<1> QED BY <1>1, <1>12, <1>14, <1>16, QuietStart

LEMMA SeekFinds ==
  ASSUME TreeInv, NEW p \in Handles, NEW i \in DOMAIN slots[p], slots[p][i] # NULL
  PROVE  Seek(p, i) = i
<1>1. slots[p] \in Seq(Handles \cup {NULL})
  BY DEF TreeInv, TreeTypes
<1>2. i \in Nat /\ 1 <= i /\ i <= Len(slots[p]) + 1 /\ i <= Len(slots[p])
  BY <1>1
<1>3. /\ Seek(p, i) \in Nat /\ i <= Seek(p, i)
      /\ \A k \in Nat : i <= k /\ k < Seek(p, i) => slots[p][k] = NULL
  BY <1>2, Seeking
<1> QED BY <1>2, <1>3

LEMMA ThreeEntries ==
  \A x, y, z \in Entries : \A t \in Seq(Entries) :
    <<x, y, z>> \o t = <<x>> \o (<<y>> \o (<<z>> \o t))
<1>1. TAKE x, y, z \in Entries
<1>2. TAKE t \in Seq(Entries)
<1>3. PICK A : A = Entries
  OBVIOUS
<1> QED BY <1>3, ConcatThree

LEMMA RemoveStep == ASSUME IInv, NEW c \in Handles, Remove(c) PROVE IInv'
<1> DEFINE p == parent[c]
           i == index[c]
<1>1. /\ ClientTurn /\ ops < MaxOps /\ ops' = ops + 1 /\ guard' = guard
      /\ live[c] /\ active[c] /\ p # NULL
      /\ agenda' = RemoveEntries(p, Seek(p, i)) \o agenda
      /\ UNCHANGED <<slots, parent, index, live, active, wasActive, pendMod, pendAdd, owed>>
      /\ unsaved' = unsaved /\ dirty' = dirty
  BY DEF Remove, Start, Usable, tree, activity, pending, saving
<1>2. agenda \in Seq(Entries) /\ Stacked(agenda)
  BY <1>1, ClientRuns
<1>3. p \in Handles /\ i \in DOMAIN slots[p] /\ slots[p][i] = c /\ i \in Nat
  <2>1. p \in Handles /\ i \in Nat
    BY <1>1 DEF IInv, TreeInv, TreeTypes
  <2>2. i \in DOMAIN slots[p] /\ slots[p][i] = c
    BY <1>1 DEF IInv, TreeInv, ParentsKnown
  <2> QED BY <2>1, <2>2
<1>4. Seek(p, i) = i
  BY <1>3, NullIsNoHandle, SeekFinds DEF IInv
<1> HIDE DEF p, i
<1>5. agenda' = <<Do("deactivate", c), DoAt("vacate", p, i), Modified(p, Publisher)>> \o agenda
  BY <1>1, <1>3, <1>4 DEF RemoveEntries
<1>6. PICK x : x = Do("deactivate", c)
  OBVIOUS
<1>7. PICK y : y = DoAt("vacate", p, i)
  OBVIOUS
<1>8. PICK z : z = Modified(p, Publisher)
  OBVIOUS
<1>9. x \in Entries /\ x.do = "deactivate" /\ x.on = c
  <2>1. PICK what : what = "deactivate"
    OBVIOUS
  <2>2. what \in Steps
    BY <2>1 DEF Steps
  <2>3. x \in Entries /\ x.do = what /\ x.on = c
    BY <1>6, <2>1, <2>2, MadeDo
  <2> QED BY <2>1, <2>3
<1>10. y \in Entries /\ y.do = "vacate" /\ y.on = p /\ y.at = i
  <2>1. PICK what : what = "vacate"
    OBVIOUS
  <2>2. what \in Steps
    BY <2>1 DEF Steps
  <2>3. y \in Entries /\ y.do = what /\ y.on = p /\ y.at = i
    BY <1>3, <1>7, <2>1, <2>2, MadeAt
  <2> QED BY <2>1, <2>3
<1>11. z \in Entries /\ z.do = "modified" /\ z.on = p /\ z.news = Publisher
  <2>1. Publisher \in SUBSET Bits
    BY DEF Bits
  <2> QED BY <1>3, <1>8, <2>1, MadeModified
<1>12. Plain(x) /\ x \notin Guards /\ y \notin FlushWork /\ y \notin Unguards /\ y \notin Guards
  BY <1>9, <1>10, Kinds DEF Plain, FlushWork
<1>13. Plain(z) /\ z \notin Guards
  BY <1>11, Kinds DEF Plain, FlushWork
<1>14. PICK r : r = <<z>> \o agenda
  OBVIOUS
<1>15. Onto(r, {z}, agenda)
  <2>1. Above(z, agenda)
    BY <1>2, <1>11, <1>13, PlainAbove
  <2> QED BY <1>2, <1>11, <1>13, <1>14, <2>1, OntoOne
<1>16. r \in Seq(Entries) /\ Stacked(r) /\ Elements(r) = {z} \cup Elements(agenda)
  BY <1>15 DEF Onto
<1>17. Above(y, r)
  <2>1. Elements(r) \subseteq Entries
    BY <1>16, ElementsTyped
  <2>2. \A e \in Elements(r) : <<y, e>> \in Order
    BY <1>10, <1>12, <2>1 DEF Order
  <2>3. ASSUME NEW q \in Handles, y \in Vacating(q) PROVE Modified(q, Publisher) \in Elements(r)
    <3>1. q = p
      BY <1>10, <2>3 DEF Vacating
    <3> QED BY <1>8, <1>16, <3>1
  <2> QED BY <1>12, <2>2, <2>3 DEF Above
<1>18. agenda' = <<x, y>> \o r
  <2>1. <<x, y, z>> \o agenda = <<x>> \o (<<y>> \o (<<z>> \o agenda))
    <3>1. x \in Entries /\ y \in Entries /\ z \in Entries
      BY <1>9, <1>10, <1>11
    <3>2. \A t \in Seq(Entries) : <<x, y, z>> \o t = <<x>> \o (<<y>> \o (<<z>> \o t))
      BY <3>1, ThreeEntries
    <3> QED BY <1>2, <3>2
  <2>2. <<x, y>> \o r = <<x>> \o (<<y>> \o r)
    BY <1>9, <1>10, <1>16, ConcatTwo
  <2> QED BY <1>5, <1>6, <1>7, <1>8, <1>14, <2>1, <2>2
<1>19. Onto(agenda', {x, y}, r) /\ agenda' # <<>> /\ Head(agenda') = x
  BY <1>9, <1>10, <1>12, <1>16, <1>17, <1>18, OntoTwo
<1>20. Onto(agenda', {x, y, z}, agenda)
  <2>1. Elements(agenda') = {x, y, z} \cup Elements(agenda)
    BY <1>16, <1>19 DEF Onto
  <2> QED BY <1>15, <1>19, <2>1 DEF Onto
<1>21. /\ StackInv' /\ ToDo' = {x, y, z} \cup ToDo
       /\ ops \in Nat /\ ops' \in 0..MaxOps /\ ops <= ops' /\ ops' \in Nat
  BY <1>1, <1>20, StartsWith
<1>22. PICK D : D = {}
  OBVIOUS
<1>23. PICK N : N = {x, y, z}
  OBVIOUS
<1>24. ToDo \ D \subseteq ToDo' /\ ToDo' \subseteq ToDo \cup N
  BY <1>21, <1>22, <1>23
<1>25. TreeInv'
  <2>1. wasActive' \in [Handles -> BOOLEAN]
    BY <1>1 DEF IInv, TreeInv, TreeTypes
  <2> QED BY <1>1, <1>21, <2>1, TreeKept DEF IInv
<1>26. SavedInv'
  <2>1. \A e \in D : e.do # "modified" /\ e.do # "bubble"
    BY <1>22
  <2> QED BY <1>1, <1>24, <2>1, SavedKept DEF IInv
<1>27. OwedInv'
  <2>1. \A e \in D : \A o \in owed : ~Told(e, o)
    BY <1>22
  <2>2. \A e \in N : e.do # "clear_modified" /\ e.do # "clear_added"
    BY <1>9, <1>10, <1>11, <1>23
  <2>3. \A h \in Handles : active'[h] => active[h]
    BY <1>1
  <2>4. Flushing' => Flushing
    BY <1>9, <1>10, <1>11, <1>21, FlushingToDo
  <2> QED BY <1>1, <1>21, <1>24, <2>1, <2>2, <2>3, <2>4, OwedKept DEF IInv
<1>28. EntriesFit'
  <2>1. \A e \in ToDo : EntryFits(e)
    BY DEF IInv, EntryInv, EntriesFit
  <2>2. EntryFits(x) /\ EntryFits(y) /\ EntryFits(z)
    <3>1. EntryFits(x)
      BY <1>9 DEF EntryFits
    <3>2. EntryFits(y)
      BY <1>3, <1>10 DEF EntryFits, p, i
    <3>3. EntryFits(z)
      BY <1>11 DEF EntryFits
    <3> QED BY <3>1, <3>2, <3>3
  <2>3. \A e : EntryFits(e) => EntryFits(e)'
    BY <1>1 DEF EntryFits, Held, InSlot
  <2> QED BY <1>21, <2>1, <2>2, <2>3 DEF EntriesFit
<1>29. VacatedLeave'
  <2>1. SUFFICES ASSUME NEW e \in ToDo', e.do = "vacate" PROVE Leaving(slots[e.on][e.at])'
    BY DEF VacatedLeave
  <2>2. CASE e = y
    <3>1. slots'[e.on][e.at] = c
      BY <1>1, <1>3, <1>10, <2>2 DEF p, i
    <3>2. Head(agenda') = Do("deactivate", c) /\ agenda' # <<>>
      BY <1>6, <1>19
    <3> QED BY <3>1, <3>2 DEF Leaving
  <2>3. CASE e \in ToDo
    <3>1. Leaving(slots[e.on][e.at])
      BY <2>1, <2>3 DEF IInv, EntryInv, VacatedLeave
    <3>2. agenda # <<>> => \A d : Head(agenda) # Do("deactivate", d)
      BY <1>1, ClientRuns DEF Do, DoAt
    <3> QED BY <1>1, <3>1, <3>2 DEF Leaving
  <2> QED BY <1>9, <1>11, <1>21, <2>1, <2>2, <2>3
<1>30. ChildrenFollow'
  <2>1. ToDo \subseteq ToDo'
    BY <1>21
  <2>2. \A q, k : Cascading(q, k) => Cascading(q, k)'
    BY <1>1, <2>1 DEF Cascading
  <2> QED BY <1>1, <2>2 DEF IInv, EntryInv, ChildrenFollow
<1> QED BY <1>21, <1>25, <1>26, <1>27, <1>28, <1>29, <1>30 DEF IInv, EntryInv

LEMMA AddStep == ASSUME IInv, NEW p \in Handles, NEW c \in Handles, Add(p, c) PROVE IInv'
<1> DEFINE n == Len(slots[p]) + 1
<1>1. /\ ClientTurn /\ ops < MaxOps /\ ops' = ops + 1 /\ guard' = guard
      /\ c \in ChildrenOf(p) /\ live[p] /\ active[p] /\ live[c] /\ active[c] /\ ~Dying(c)
      /\ parent[c] = NULL
      /\ slots' = [slots EXCEPT ![p] = Append(@, c)]
      /\ parent' = [parent EXCEPT ![c] = p]
      /\ index' = [index EXCEPT ![c] = n]
      /\ dirty' = dirty \cup ({p} \cap Collections)
      /\ agenda' = <<Modified(p, Publisher), DoAt("added", p, n)>> \o agenda
      /\ UNCHANGED <<live, active, wasActive, pendMod, pendAdd, owed, unsaved>>
  BY DEF Add, Start, Usable, AppendPosition, activity, pending
<1>2. agenda \in Seq(Entries) /\ Stacked(agenda)
  BY <1>1, ClientRuns
<1>3. /\ slots \in [Handles -> Seq(Handles \cup {NULL})] /\ parent \in [Handles -> Handles \cup {NULL}]
      /\ index \in [Handles -> Nat]
  BY DEF IInv, TreeInv, TreeTypes
<1>4. n \in Nat /\ 1 <= n
  BY <1>3
<1>5. /\ \A q \in Handles : \A i \in DOMAIN slots[q] : i \in DOMAIN slots'[q] /\ slots'[q][i] = slots[q][i]
      /\ \A q \in Handles : \A i \in DOMAIN slots'[q] :
           \/ i \in DOMAIN slots[q] /\ slots'[q][i] = slots[q][i]
           \/ q = p /\ i = n /\ slots'[q][i] = c
      /\ n \in DOMAIN slots'[p] /\ slots'[p][n] = c
      /\ slots' \in [Handles -> Seq(Handles \cup {NULL})]
      /\ Len(slots'[p]) = Len(slots[p]) + 1 /\ \A q \in Handles : q # p => slots'[q] = slots[q]
  <2>1. PICK s : s = slots[p]
    OBVIOUS
  <2>2. s \in Seq(Handles \cup {NULL})
    BY <1>3, <2>1
  <2>3. PICK r : r = Append(s, c)
    OBVIOUS
  <2>4. /\ r \in Seq(Handles \cup {NULL}) /\ Len(r) = Len(s) + 1 /\ Len(s) \in Nat
        /\ DOMAIN r = 1..(Len(s) + 1) /\ DOMAIN s = 1..Len(s)
        /\ r[Len(s) + 1] = c /\ \A i \in DOMAIN s : r[i] = s[i]
    BY <2>2, <2>3
  <2>5. slots'[p] = r /\ \A q \in Handles : q # p => slots'[q] = slots[q]
    BY <1>1, <1>3, <2>1, <2>3
  <2>6. slots' \in [Handles -> Seq(Handles \cup {NULL})]
    BY <1>1, <1>3, <2>1, <2>3, <2>4
  <2>7. \A i \in DOMAIN r : i \in DOMAIN s \/ i = Len(s) + 1
    BY <2>4
  <2>8. \A i \in DOMAIN s : i \in DOMAIN r
    BY <2>4
  <2>9. n \in DOMAIN r
    BY <2>1, <2>4
  <2> QED BY <2>1, <2>4, <2>5, <2>6, <2>7, <2>8, <2>9
<1>6. /\ c # p /\ c # Root /\ p # NULL /\ c # NULL
      /\ parent'[c] = p /\ index'[c] = n
      /\ \A h \in Handles : h # c => parent'[h] = parent[h] /\ index'[h] = index[h]
      /\ parent' \in [Handles -> Handles \cup {NULL}] /\ index' \in [Handles -> Nat]
  <2>1. c # p /\ c # Root
    BY <1>1, Levels
  <2>2. p # NULL /\ c # NULL
    BY NullIsNoHandle
  <2>3. parent'[c] = p /\ index'[c] = n
    BY <1>1, <1>3
  <2>4. \A h \in Handles : h # c => parent'[h] = parent[h] /\ index'[h] = index[h]
    BY <1>1, <1>3
  <2>5. parent' \in [Handles -> Handles \cup {NULL}]
    BY <1>1, <1>3
  <2>6. index' \in [Handles -> Nat]
    BY <1>1, <1>3, <1>4
  <2> QED BY <2>1, <2>2, <2>3, <2>4, <2>5, <2>6
<1> HIDE DEF n
<1>7. PICK y : y = Modified(p, Publisher)
  OBVIOUS
<1>8. PICK z : z = DoAt("added", p, n)
  OBVIOUS
<1>9. y \in Entries /\ y.do = "modified" /\ y.on = p /\ y.news = Publisher
  <2>1. Publisher \in SUBSET Bits
    BY DEF Bits
  <2> QED BY <1>7, <2>1, MadeModified
<1>10. z \in Entries /\ z.do = "added" /\ z.on = p /\ z.at = n
  <2>1. PICK what : what = "added"
    OBVIOUS
  <2>2. what \in Steps
    BY <2>1 DEF Steps
  <2>3. z \in Entries /\ z.do = what /\ z.on = p /\ z.at = n
    BY <1>4, <1>8, <2>1, <2>2, MadeAt
  <2> QED BY <2>1, <2>3
<1>11. Plain(y) /\ y \notin Guards
  BY <1>9, Kinds DEF Plain, FlushWork
<1>12. Plain(z) /\ z \notin Guards
  BY <1>10, Kinds DEF Plain, FlushWork
<1>13. agenda' = <<y, z>> \o agenda
  BY <1>1, <1>7, <1>8
<1>14. Onto(agenda', {y, z}, agenda)
  <2>1. Above(z, agenda)
    BY <1>2, <1>10, <1>12, PlainAbove
  <2> QED BY <1>2, <1>9, <1>10, <1>11, <1>12, <1>13, <2>1, OntoTwo
<1>15. /\ StackInv' /\ ToDo' = {y, z} \cup ToDo
       /\ ops \in Nat /\ ops' \in 0..MaxOps /\ ops <= ops' /\ ops' \in Nat
  BY <1>1, <1>14, StartsWith
<1>16. TreeTypes'
  <2>1. \A h \in Handles : \A i \in DOMAIN slots'[h] : slots'[h][i] \in ChildrenOf(h) \cup {NULL}
    BY <1>1, <1>5 DEF IInv, TreeInv, TreeTypes
  <2>2. \A h \in Handles : parent'[h] # NULL => h \in ChildrenOf(parent'[h])
    BY <1>1, <1>6 DEF IInv, TreeInv, TreeTypes
  <2>3. \A h \in Handles : Len(slots'[h]) <= ops'
    <3>1. \A h \in Handles : Len(slots[h]) \in Nat /\ Len(slots[h]) <= ops
      BY <1>3 DEF IInv, TreeInv, TreeTypes
    <3> QED BY <1>1, <1>5, <1>15, <3>1
  <2>4. /\ live' \in [Handles -> BOOLEAN]
        /\ active' \in [Handles -> BOOLEAN] /\ wasActive' \in [Handles -> BOOLEAN]
    BY <1>1 DEF IInv, TreeInv, TreeTypes
  <2> QED BY <1>5, <1>6, <1>15, <2>1, <2>2, <2>3, <2>4 DEF TreeTypes
<1>17. SlotsKnown'
  <2>1. SUFFICES ASSUME NEW q \in Handles, NEW i \in DOMAIN slots'[q], slots'[q][i] # NULL
                 PROVE  live[slots'[q][i]] /\ parent'[slots'[q][i]] = q /\ index'[slots'[q][i]] = i
    BY <1>1 DEF SlotsKnown
  <2>2. CASE i \in DOMAIN slots[q] /\ slots'[q][i] = slots[q][i]
    <3>1. PICK d : d = slots[q][i]
      OBVIOUS
    <3>2. live[d] /\ parent[d] = q /\ index[d] = i
      BY <2>1, <2>2, <3>1 DEF IInv, TreeInv, SlotsKnown
    <3>3. d \in Handles /\ d # c
      <4>1. d \in Handles
        BY <1>3, <2>1, <2>2, <3>1
      <4> QED BY <1>1, <3>2, <4>1, NullIsNoHandle
    <3> QED BY <1>6, <2>2, <3>1, <3>2, <3>3
  <2>3. CASE q = p /\ i = n /\ slots'[q][i] = c
    BY <1>1, <1>6, <2>3
  <2> QED BY <1>5, <2>2, <2>3
<1>18. ParentsKnown'
  <2>1. SUFFICES ASSUME NEW h \in Handles, live[h], active[h], parent'[h] # NULL
                 PROVE  /\ live[parent'[h]] /\ index'[h] \in DOMAIN slots'[parent'[h]]
                        /\ slots'[parent'[h]][index'[h]] = h
    BY <1>1 DEF ParentsKnown
  <2>2. CASE h = c
    BY <1>1, <1>5, <1>6, <2>2
  <2>3. CASE h # c
    <3>1. parent'[h] = parent[h] /\ index'[h] = index[h] /\ parent[h] \in Handles
      BY <1>3, <1>6, <2>1, <2>3
    <3>2. live[parent[h]] /\ index[h] \in DOMAIN slots[parent[h]] /\ slots[parent[h]][index[h]] = h
      BY <2>1, <3>1 DEF IInv, TreeInv, ParentsKnown
    <3> QED BY <1>5, <3>1, <3>2
  <2> QED BY <2>2, <2>3
<1>19. EntriesFit'
  <2>1. ASSUME NEW e \in ToDo PROVE EntryFits(e)'
    <3>1. EntryFits(e) /\ e \in Entries
      BY <1>2, ElementsTyped DEF IInv, EntryInv, EntriesFit, ToDo
    <3>2. e.on \in Handles /\ e.at \in Nat
      BY <3>1 DEF Entries
    <3>3. e.do = "vacate" \/ e.do = "added" => e.at \in DOMAIN slots'[e.on]
      BY <1>5, <3>1, <3>2 DEF EntryFits
    <3>4. e.do = "cascade" \/ e.do = "flush_children" => 1 <= e.at /\ e.at <= Len(slots'[e.on]) + 1
      <4>1. Len(slots[e.on]) \in Nat
        BY <1>3, <3>2
      <4>2. Len(slots'[e.on]) = Len(slots[e.on]) \/ Len(slots'[e.on]) = Len(slots[e.on]) + 1
        BY <1>5, <3>2
      <4>3. e.do = "cascade" \/ e.do = "flush_children" => 1 <= e.at /\ e.at <= Len(slots[e.on]) + 1
        BY <3>1 DEF EntryFits
      <4> QED BY <3>2, <4>1, <4>2, <4>3
    <3>5. e.do = "orphan" => e = Do("orphan", e.on) /\ e.on # Root /\ live'[e.on] /\ ~Held(e.on)'
      <4>1. SUFFICES ASSUME e.do = "orphan" PROVE ~Held(e.on)'
        BY <1>1, <3>1 DEF EntryFits
      <4>2. e = Do("orphan", e.on) /\ ~Held(e.on)
        BY <3>1, <4>1 DEF EntryFits
      <4>3. e.on # c
        <5>1. PICK i \in DOMAIN agenda : agenda[i] = e
          BY DEF ToDo, Elements
        <5> QED BY <1>1, <4>2, <5>1 DEF Dying
      <4>4. \A q \in Handles : InSlot(q, e.on)' => InSlot(q, e.on)
        BY <1>5, <4>3 DEF InSlot
      <4> QED BY <4>2, <4>4 DEF Held
    <3>6. e.do = "modified" => e.news \subseteq Publisher \cup Child
      BY <3>1 DEF EntryFits
    <3> QED BY <3>3, <3>4, <3>5, <3>6 DEF EntryFits
  <2>2. EntryFits(y)'
    BY <1>9 DEF EntryFits
  <2>3. EntryFits(z)'
    BY <1>5, <1>10 DEF EntryFits
  <2> QED BY <1>15, <2>1, <2>2, <2>3 DEF EntriesFit
<1>20. VacatedLeave'
  <2>1. SUFFICES ASSUME NEW e \in ToDo, e.do = "vacate" PROVE Leaving(slots[e.on][e.at])'
    <3>1. \A e \in ToDo : e \in Entries /\ EntryFits(e)
      BY <1>2, ElementsTyped DEF IInv, EntryInv, EntriesFit, ToDo
    <3>2. \A e \in ToDo : e.do = "vacate" => slots'[e.on][e.at] = slots[e.on][e.at]
      BY <1>5, <3>1 DEF EntryFits, Entries
    <3> QED BY <1>9, <1>10, <1>15, <3>2 DEF VacatedLeave, Leaving
  <2>2. Leaving(slots[e.on][e.at])
    BY <2>1 DEF IInv, EntryInv, VacatedLeave
  <2>3. e \in Entries /\ EntryFits(e)
    BY <1>2, ElementsTyped DEF IInv, EntryInv, EntriesFit, ToDo
  <2>4. slots'[e.on][e.at] = slots[e.on][e.at]
    BY <1>5, <2>1, <2>3 DEF EntryFits, Entries
  <2>5. agenda # <<>> => \A d : Head(agenda) # Do("deactivate", d)
    BY <1>1, ClientRuns DEF Do, DoAt
  <2> QED BY <1>1, <2>2, <2>4, <2>5 DEF Leaving
<1>21. ChildrenFollow'
  <2>1. SUFFICES ASSUME NEW q \in Handles, NEW i \in DOMAIN slots'[q], ~active[q], slots'[q][i] # NULL
                 PROVE  ~active[slots'[q][i]] \/ Cascading(q, i)'
    BY <1>1 DEF ChildrenFollow
  <2>2. q # p
    BY <1>1, <2>1
  <2>3. i \in DOMAIN slots[q] /\ slots'[q][i] = slots[q][i]
    BY <1>5, <2>1, <2>2
  <2>4. ~active[slots[q][i]] \/ Cascading(q, i)
    BY <2>1, <2>3 DEF IInv, EntryInv, ChildrenFollow
  <2>5. ToDo \subseteq ToDo'
    BY <1>15
  <2> QED BY <2>3, <2>4, <2>5 DEF Cascading
<1>22. SavedInv'
  <2>1. \A d \in Collections : OnItsWay(d) => OnItsWay(d)'
    <3>1. ASSUME NEW d \in Collections, NEW e \in ToDo, parent[e.on] = d PROVE parent'[e.on] = d
      <4>1. e \in Entries
        BY <1>2, ElementsTyped DEF ToDo
      <4>2. e.on \in Handles /\ e.on # c
        <5>1. d # NULL
          BY HandlesAssumption
        <5> QED BY <1>1, <3>1, <4>1, <5>1 DEF Entries
      <4> QED BY <1>6, <3>1, <4>2
    <3> QED BY <1>15, <3>1 DEF OnItsWay
  <2>2. p \in Collections => OnItsWay(p)'
    BY <1>9, <1>15 DEF OnItsWay
  <2>3. unsaved \subseteq Collections /\ dirty \subseteq Collections /\ \A d \in dirty : d \in unsaved \/ OnItsWay(d)
    BY DEF IInv, SavedInv
  <2> QED BY <1>1, <2>1, <2>2, <2>3 DEF SavedInv
<1>23. ASSUME NEW o \in owed
       PROVE  /\ o[1] \in Handles /\ o[1] # c /\ parent[o[1]] # c
              /\ parent'[o[1]] = parent[o[1]] /\ index'[o[1]] = index[o[1]]
              /\ parent[o[1]] # NULL => /\ parent'[parent[o[1]]] = parent[parent[o[1]]]
                                        /\ index'[parent[o[1]]] = index[parent[o[1]]]
  <2>1. o[1] \in Handles /\ (InModel(o[1]) \/ (parent[o[1]] = NULL /\ ~active[o[1]]))
    BY DEF IInv, OwedInv, NewsTypes, NewsNoted
  <2>2. o[1] # c
    BY <1>1, <1>6, <2>1, NullIsNoHandle DEF InModel
  <2>3. ASSUME parent[o[1]] = c PROVE FALSE
    <3>1. InModel(o[1])
      BY <1>6, <2>1, <2>3
    <3>2. o[1] \in ChildrenOf(c)
      BY <1>6, <2>1, <2>3 DEF IInv, TreeInv, TreeTypes
    <3>3. o[1] # Root
      BY <3>2, Levels
    <3> QED BY <1>1, <1>6, <2>3, <3>1, <3>3, NullIsNoHandle DEF InModel
  <2>4. parent[o[1]] # NULL => parent[o[1]] \in Handles
    BY <1>3, <2>1
  <2> QED BY <1>6, <2>1, <2>2, <2>3, <2>4
<1>24. NewsTypes'
  <2>1. {Added(i) : i \in 1..ops} \subseteq {Added(i) : i \in 1..ops'}
    <3>1. \A i \in 1..ops : i \in 1..ops'
      BY <1>15
    <3> QED BY <3>1
  <2>2. \A h \in Handles : Elements(pendAdd[h]) \subseteq DOMAIN slots'[h]
    BY <1>5 DEF IInv, OwedInv, NewsTypes
  <2> QED BY <1>1, <2>1, <2>2 DEF IInv, OwedInv, NewsTypes
<1>25. NewsNoted'
  <2>1. SUFFICES ASSUME NEW o \in owed
                 PROVE  /\ o[2] \in Bits => /\ o[2] \in pendMod[o[1]]
                                            /\ \A e \in ToDo' : ~(e.do = "clear_modified" /\ e.on = o[1])
                        /\ o[2] \notin Bits => /\ \E i \in Elements(pendAdd[o[1]]) : o[2] = Added(i)
                                               /\ \A e \in ToDo' : ~(e.do = "clear_added" /\ e.on = o[1])
                        /\ InModel(o[1])' \/ (parent'[o[1]] = NULL /\ ~active[o[1]])
    BY <1>1 DEF NewsNoted
  <2>2. InModel(o[1]) => InModel(o[1])'
    BY <1>23 DEF InModel
  <2>3. parent'[o[1]] = parent[o[1]]
    BY <1>23
  <2> QED BY <1>9, <1>10, <1>15, <2>2, <2>3 DEF IInv, OwedInv, NewsNoted
<1>26. FlushDue'
  <2>1. SUFFICES ASSUME guard = 0 \/ Flushing', NEW o \in owed, InTree(o[1])'
                 PROVE  \E e \in ToDo' : Told(e, o)'
    BY <1>1 DEF FlushDue
  <2>2. Flushing' => Flushing
    BY <1>9, <1>10, <1>15, FlushingToDo
  <2>3. InTree(o[1])
    <3>1. \A q \in Handles : InSlot(q, o[1])' => InSlot(q, o[1])
      BY <1>5, <1>23 DEF InSlot
    <3>2. ASSUME NEW d \in Collections, InSlot(Root, d)', InSlot(d, o[1])' PROVE InSlot(Root, d)
      <4>1. d \in Handles /\ Root \in Handles
        BY DEF Handles
      <4>2. InSlot(d, o[1]) /\ o[1] # NULL
        BY <1>23, <3>1, <3>2, <4>1, NullIsNoHandle
      <4>3. parent[o[1]] = d
        BY <4>1, <4>2, HeldBelow DEF IInv
      <4>4. d # c
        BY <1>23, <4>3
      <4> QED BY <1>5, <3>2, <4>1, <4>4 DEF InSlot
    <3>3. Root \in Handles /\ Collections \subseteq Handles
      BY DEF Handles
    <3> QED BY <2>1, <3>1, <3>2, <3>3 DEF InTree
  <2>4. PICK e \in ToDo : Told(e, o)
    BY <2>1, <2>2, <2>3 DEF IInv, OwedInv, FlushDue
  <2>5. Visited(e, o[1]) => Visited(e, o[1])'
    BY <1>23 DEF Visited
  <2> QED BY <1>15, <2>4, <2>5 DEF Told
<1> QED BY <1>15, <1>16, <1>17, <1>18, <1>19, <1>20, <1>21, <1>22, <1>24, <1>25, <1>26
       DEF IInv, TreeInv, EntryInv, OwedInv
-----------------------------------------------------------------------------
(* What a step does to the agenda, if it is not the end of a guard.        *)
LEMMA Following ==
  ASSUME IInv, NEW x, NEW t, Runs(x, t)
  PROVE  /\ x \in Entries /\ t \in Seq(Entries) /\ Stacked(t) /\ Above(x, t) /\ Elements(t) \subseteq Entries
         /\ x.on \in Handles /\ x.at \in Nat /\ x.news \in SUBSET AnyNews
         /\ x.do # "scope" /\ x.do # "unguard" => x \notin Guards
         /\ agenda # <<>> => Head(agenda) = x
<1>1. x \in Entries /\ t \in Seq(Entries) /\ Stacked(t) /\ Above(x, t)
  BY DEF Runs, Takes
<1>2. Elements(t) \subseteq Entries
  BY <1>1, ElementsTyped
<1>3. x.on \in Handles /\ x.at \in Nat /\ x.news \in SUBSET AnyNews
  BY <1>1 DEF Entries
<1> QED BY <1>1, <1>2, <1>3 DEF Runs, Guards

LEMMA MadePlain ==
  ASSUME NEW e \in Entries,
         e.do = "callback" \/ e.do = "modified" \/ e.do = "bubble" \/ e.do = "added"
         \/ e.do = "deactivate" \/ e.do = "cascade"
  PROVE  Plain(e) /\ e \notin Guards
BY Kinds DEF Plain, FlushWork

LEMMA MadeNamed ==
  ASSUME NEW h \in Handles
  PROVE  /\ Do("bubble", h) \in Entries /\ Do("bubble", h).do = "bubble" /\ Do("bubble", h).on = h
         /\ Do("deactivate", h) \in Entries /\ Do("deactivate", h).do = "deactivate"
         /\ Do("deactivate", h).on = h
<1>1. PICK what : what = "bubble"
  OBVIOUS
<1>2. what \in Steps
  BY <1>1 DEF Steps
<1>3. PICK e : e = Do("bubble", h)
  OBVIOUS
<1>4. e \in Entries /\ e.do = what /\ e.on = h
  BY <1>1, <1>2, <1>3, MadeDo
<1>5. PICK name : name = "deactivate"
  OBVIOUS
<1>6. name \in Steps
  BY <1>5 DEF Steps
<1>7. PICK f : f = Do("deactivate", h)
  OBVIOUS
<1>8. f \in Entries /\ f.do = name /\ f.on = h
  BY <1>5, <1>6, <1>7, MadeDo
<1> QED BY <1>1, <1>3, <1>4, <1>5, <1>7, <1>8

LEMMA BubbleStep == ASSUME IInv, Bubble PROVE IInv'
<1>1. PICK x, t : Runs(x, t)
  BY Running DEF Bubble, Doing
<1>2. /\ x.do = "bubble" /\ guard' = guard /\ ops' = ops
      /\ agenda' = (IF x.on = Root \/ parent[x.on] = NULL THEN <<>>
                    ELSE <<Modified(parent[x.on], Child)>>) \o t
      /\ UNCHANGED <<slots, parent, index, live, active, wasActive, pendMod, pendAdd, owed>>
      /\ UNCHANGED <<unsaved, dirty>>
  BY <1>1 DEF Bubble, Doing, Continue, On, Runs, tree, activity, pending, saving
<1>3. /\ x \in Entries /\ t \in Seq(Entries) /\ Stacked(t) /\ x.on \in Handles /\ x \notin Guards
  BY <1>1, <1>2, Following
<1>4. parent[x.on] \in Handles \cup {NULL}
  BY <1>3 DEF IInv, TreeInv, TreeTypes
<1>5. \E N : /\ Onto(agenda', N, t)
             /\ \A e \in N : EntryFits(e) /\ e.do = "modified"
             /\ x.on # Root /\ parent[x.on] # NULL => \E e \in N : e.on = parent[x.on]
  <2>1. CASE x.on = Root \/ parent[x.on] = NULL
    <3>1. PICK N : N = {}
      OBVIOUS
    <3>2. agenda' = <<>> \o t
      BY <1>2, <2>1
    <3>3. Onto(agenda', N, t)
      BY <1>3, <3>1, <3>2, OntoNone
    <3> QED BY <2>1, <3>1, <3>3
  <2>2. CASE x.on # Root /\ parent[x.on] # NULL
    <3>1. PICK y : y = Modified(parent[x.on], Child)
      OBVIOUS
    <3>2. Child \in SUBSET Bits
      BY DEF Bits
    <3>3. parent[x.on] \in Handles
      BY <1>4, <2>2
    <3>4. y \in Entries /\ y.do = "modified" /\ y.on = parent[x.on] /\ y.news = Child
      BY <3>1, <3>2, <3>3, MadeModified
    <3>5. Plain(y) /\ y \notin Guards
      BY <3>4, MadePlain
    <3>6. agenda' = <<y>> \o t
      BY <1>2, <2>2, <3>1
    <3>7. Above(y, t)
      BY <1>3, <3>4, <3>5, PlainAbove
    <3>8. Onto(agenda', {y}, t)
      BY <1>3, <3>4, <3>5, <3>6, <3>7, OntoOne
    <3>9. EntryFits(y)
      BY <3>4 DEF EntryFits
    <3> QED BY <3>4, <3>8, <3>9
  <2> QED BY <2>1, <2>2
<1>6. PICK N : /\ Onto(agenda', N, t)
               /\ \A e \in N : EntryFits(e) /\ e.do = "modified"
               /\ x.on # Root /\ parent[x.on] # NULL => \E e \in N : e.on = parent[x.on]
  BY <1>5
<1>7. StackInv' /\ ToDo' = N \cup Elements(t)
  BY <1>1, <1>2, <1>3, <1>6, ContinuesWith
<1>8. PICK D : D = {x}
  OBVIOUS
<1>9. ToDo \ D \subseteq ToDo' /\ ToDo' \subseteq ToDo \cup N
  BY <1>1, <1>7, <1>8 DEF Runs
<1>10. ops \in 0..MaxOps /\ ops' \in 0..MaxOps /\ ops \in Nat /\ ops' \in Nat /\ ops <= ops'
  BY <1>2, HandlesAssumption DEF IInv, TreeInv, TreeTypes
<1>11. TreeInv'
  <2>1. wasActive' \in [Handles -> BOOLEAN]
    BY <1>2 DEF IInv, TreeInv, TreeTypes
  <2> QED BY <1>2, <1>10, <2>1, TreeKept DEF IInv
<1>12. EntryInv'
  <2>1. \A e \in D : e.do # "deactivate" /\ e.do # "cascade"
    BY <1>2, <1>8
  <2>2. agenda # <<>> => Head(agenda).do # "deactivate"
    BY <1>1, <1>2, Following
  <2>3. \A e \in N : EntryFits(e) /\ e.do # "vacate"
    BY <1>6
  <2> QED BY <1>2, <1>9, <2>1, <2>2, <2>3, EntriesKept DEF IInv
<1>13. OwedInv'
  <2>1. \A e \in D : \A o \in owed : ~Told(e, o)
    BY <1>2, <1>8 DEF Told, Visited
  <2>2. \A e \in N : e.do # "clear_modified" /\ e.do # "clear_added"
    BY <1>6
  <2>3. \A h \in Handles : active'[h] => active[h]
    BY <1>2
  <2>4. Flushing' => Flushing
    BY <1>6, <1>9, FlushingToDo
  <2> QED BY <1>2, <1>9, <1>10, <2>1, <2>2, <2>3, <2>4, OwedKept DEF IInv
<1>14. SavedInv'
  <2>1. ASSUME NEW c \in Collections, OnItsWay(c) PROVE OnItsWay(c)'
    <3>1. PICK e \in ToDo : \/ e.do = "modified" /\ e.on = c
                            \/ (e.do = "modified" \/ e.do = "bubble") /\ parent[e.on] = c
      BY <2>1 DEF OnItsWay
    <3>2. CASE e = x
      <4>1. parent[x.on] = c /\ c # NULL
        BY <1>2, <3>1, <3>2, HandlesAssumption
      <4>2. x.on # Root
        <5>1. parent[Root] = NULL
          BY NullIsNoHandle, Levels DEF IInv, TreeInv, TreeTypes
        <5> QED BY <4>1, <5>1
      <4>3. PICK f \in N : f.on = c
        BY <1>6, <4>1, <4>2
      <4> QED BY <1>6, <1>7, <4>3 DEF OnItsWay
    <3>3. CASE e # x
      <4>1. e \in ToDo'
        BY <1>8, <1>9, <3>3
      <4> QED BY <1>2, <3>1, <4>1 DEF OnItsWay
    <3> QED BY <3>2, <3>3
  <2> QED BY <1>2, <2>1 DEF IInv, SavedInv
<1> QED BY <1>7, <1>11, <1>12, <1>13, <1>14 DEF IInv

(* News is noted, and owed if it is held back by a guard of a client. *)
LEMMA OwedNoted ==
  ASSUME OwedInv, UNCHANGED <<slots, parent, index, active, ops, guard>>, NEW M, owed' = owed \cup M,
         pendMod' \in [Handles -> SUBSET Bits], \A h \in Handles : pendMod[h] \subseteq pendMod'[h],
         pendAdd' \in [Handles -> Seq(Nat)],
         \A h \in Handles : /\ Elements(pendAdd[h]) \subseteq Elements(pendAdd'[h])
                            /\ Elements(pendAdd'[h]) \subseteq DOMAIN slots[h],
         M \subseteq Handles \X (Bits \cup {Added(i) : i \in 1..ops}),
         \A o \in M : /\ InModel(o[1])
                      /\ o[2] \in Bits => o[2] \in pendMod'[o[1]]
                      /\ o[2] \notin Bits => \E i \in Elements(pendAdd'[o[1]]) : o[2] = Added(i),
         M # {} => /\ guard # 0 /\ ~Flushing
                   /\ \A e \in ToDo : e.do # "clear_modified" /\ e.do # "clear_added",
         NEW D, NEW N, ToDo \ D \subseteq ToDo', ToDo' \subseteq ToDo \cup N,
         \A e \in D : \A o \in owed : ~Told(e, o),
         \A e \in N : e.do # "clear_modified" /\ e.do # "clear_added" /\ e.do # "unguard"
  PROVE  OwedInv'
<1>1. NewsTypes'
  BY DEF OwedInv, NewsTypes
<1>2. NewsNoted'
  <2>1. SUFFICES ASSUME NEW o \in owed \cup M
                 PROVE  /\ o[2] \in Bits => /\ o[2] \in pendMod'[o[1]]
                                            /\ \A e \in ToDo' : ~(e.do = "clear_modified" /\ e.on = o[1])
                        /\ o[2] \notin Bits => /\ \E i \in Elements(pendAdd'[o[1]]) : o[2] = Added(i)
                                               /\ \A e \in ToDo' : ~(e.do = "clear_added" /\ e.on = o[1])
                        /\ InModel(o[1])' \/ (parent[o[1]] = NULL /\ ~active[o[1]])
    BY DEF NewsNoted
  <2>2. InModel(o[1]) => InModel(o[1])'
    BY DEF InModel
  <2>3. CASE o \in owed
    <3>1. o[1] \in Handles
      BY <2>3 DEF OwedInv, NewsTypes
    <3> QED BY <2>2, <2>3, <3>1 DEF OwedInv, NewsNoted
  <2>4. CASE o \in M
    BY <2>2, <2>4
  <2> QED BY <2>3, <2>4
<1>3. FlushDue'
  <2>1. SUFFICES ASSUME guard = 0 \/ Flushing', NEW o \in owed \cup M, InTree(o[1])'
                 PROVE  \E e \in ToDo' : Told(e, o)'
    BY DEF FlushDue
  <2>2. Flushing' => Flushing
    BY FlushingToDo
  <2>3. InTree(o[1]) /\ o \in owed
    BY <2>1, <2>2 DEF InTree, InSlot
  <2>4. PICK e \in ToDo : Told(e, o)
    BY <2>1, <2>2, <2>3 DEF OwedInv, FlushDue
  <2>5. Told(e, o)'
    BY <2>4 DEF Told, Visited
  <2> QED BY <2>3, <2>4, <2>5
<1> QED BY <1>1, <1>2, <1>3 DEF OwedInv

(* Outside a flush nothing of a flush is left to do. *)
LEMMA NoFlushWork ==
  ASSUME IInv, ~Flushing
  PROVE  \A e \in ToDo : e \in Entries /\ e \notin FlushWork
<1>1. agenda \in Seq(Entries) /\ Followed(agenda, FlushWork, Unguards)
  BY DEF IInv, StackInv, Stacked
<1>2. \A i \in DOMAIN agenda : agenda[i] \notin Unguards
  BY DEF Flushing, Unguards
<1> QED BY <1>1, <1>2 DEF Followed, ToDo, Elements

LEMMA NotifyModifiedStep == ASSUME IInv, NotifyModified PROVE IInv'
<1>1. PICK x, t : Runs(x, t)
  BY Running DEF NotifyModified, Doing
<1>2. PICK bits : bits = x.news
  OBVIOUS
<1>3. PICK b : b = Do("bubble", x.on)
  OBVIOUS
<1>4. /\ x.do = "modified" /\ guard' = guard /\ ops' = ops
      /\ UNCHANGED <<slots, parent, index, live, active, wasActive, pendAdd, dirty>>
      /\ unsaved' = unsaved \cup ({x.on} \cap Collections)
      /\ Guarded(x.on) => /\ pendMod' = [pendMod EXCEPT ![x.on] = pendMod[x.on] \cup bits]
                          /\ owed' = IF Flushing THEN owed ELSE owed \cup ({x.on} \X bits)
                          /\ agenda' = <<b>> \o t
      /\ ~Guarded(x.on) => /\ pendMod' = pendMod /\ owed' = owed
                           /\ agenda' = <<Tell(x.on, bits), b>> \o t
  BY <1>1, <1>2, <1>3
     DEF NotifyModified, Doing, Continue, On, Runs, tree, activity, Flagged, Noted
<1>5. /\ x \in Entries /\ t \in Seq(Entries) /\ Stacked(t) /\ x.on \in Handles /\ x \notin Guards
      /\ x.news \in SUBSET AnyNews
  BY <1>1, <1>4, Following
<1>6. bits \subseteq Bits
  BY <1>1, <1>2, <1>4 DEF Runs, EntryFits, Bits
<1>7. b \in Entries /\ b.do = "bubble" /\ b.on = x.on
  BY <1>3, <1>5, MadeNamed
<1>8. Plain(b) /\ b \notin Guards
  BY <1>7, MadePlain
<1>9. Above(b, t)
  BY <1>5, <1>7, <1>8, PlainAbove
<1>10. \E N : /\ Onto(agenda', N, t) /\ b \in N
              /\ \A e \in N : e.do = "bubble" \/ e.do = "callback"
  <2>1. CASE Guarded(x.on)
    <3>1. Onto(agenda', {b}, t)
      BY <1>4, <1>5, <1>7, <1>8, <1>9, <2>1, OntoOne
    <3> QED BY <1>7, <3>1
  <2>2. CASE ~Guarded(x.on)
    <3>1. PICK y : y = Tell(x.on, bits)
      OBVIOUS
    <3>2. y \in Entries /\ y.do = "callback"
      BY <1>2, <1>5, <3>1, MadeTell
    <3>3. Plain(y) /\ y \notin Guards
      BY <3>2, MadePlain
    <3>4. agenda' = <<y, b>> \o t
      BY <1>4, <2>2, <3>1
    <3>5. Onto(agenda', {y, b}, t)
      BY <1>5, <1>7, <1>8, <1>9, <3>2, <3>3, <3>4, OntoTwo
    <3> QED BY <1>7, <3>2, <3>5
  <2> QED BY <2>1, <2>2
<1>11. PICK N : /\ Onto(agenda', N, t) /\ b \in N
                /\ \A e \in N : e.do = "bubble" \/ e.do = "callback"
  BY <1>10
<1>12. StackInv' /\ ToDo' = N \cup Elements(t)
  BY <1>1, <1>4, <1>5, <1>11, ContinuesWith
<1>13. PICK D : D = {x}
  OBVIOUS
<1>14. ToDo \ D \subseteq ToDo' /\ ToDo' \subseteq ToDo \cup N
  BY <1>1, <1>12, <1>13 DEF Runs
<1>15. TreeInv'
  <2>1. ops' \in 0..MaxOps /\ ops <= ops'
    BY <1>4, HandlesAssumption DEF IInv, TreeInv, TreeTypes
  <2>2. wasActive' \in [Handles -> BOOLEAN]
    BY <1>4 DEF IInv, TreeInv, TreeTypes
  <2> QED BY <1>4, <2>1, <2>2, TreeKept DEF IInv
<1>16. EntryInv'
  <2>1. \A e \in D : e.do # "deactivate" /\ e.do # "cascade"
    BY <1>4, <1>13
  <2>2. agenda # <<>> => Head(agenda).do # "deactivate"
    BY <1>1, <1>4, Following
  <2>3. \A e \in N : EntryFits(e) /\ e.do # "vacate"
    BY <1>11 DEF EntryFits
  <2> QED BY <1>4, <1>14, <2>1, <2>2, <2>3, EntriesKept DEF IInv
<1>17. SavedInv'
  <2>1. ASSUME NEW c \in dirty PROVE c \in unsaved' \/ OnItsWay(c)'
    <3>1. c \in Collections /\ (c \in unsaved \/ OnItsWay(c))
      BY DEF IInv, SavedInv
    <3>2. ASSUME OnItsWay(c) PROVE c \in unsaved' \/ OnItsWay(c)'
      <4>1. PICK e \in ToDo : \/ e.do = "modified" /\ e.on = c
                              \/ (e.do = "modified" \/ e.do = "bubble") /\ parent[e.on] = c
        BY <3>2 DEF OnItsWay
      <4>2. CASE e = x
        <5>1. CASE x.on = c
          BY <1>4, <3>1, <5>1
        <5>2. CASE parent[x.on] = c
          <6>1. b \in ToDo' /\ parent'[b.on] = c
            BY <1>4, <1>7, <1>11, <1>12, <5>2
          <6> QED BY <1>7, <6>1 DEF OnItsWay
        <5> QED BY <4>1, <4>2, <5>1, <5>2
      <4>3. CASE e # x
        <5>1. e \in ToDo'
          BY <1>13, <1>14, <4>3
        <5> QED BY <1>4, <4>1, <5>1 DEF OnItsWay
      <4> QED BY <4>2, <4>3
    <3> QED BY <1>4, <3>1, <3>2
  <2> QED BY <1>4, <2>1 DEF IInv, SavedInv
<1>18. OwedInv'
  <2>1. PICK M : M = IF Guarded(x.on) /\ ~Flushing THEN {x.on} \X bits ELSE {}
    OBVIOUS
  <2>2. owed' = owed \cup M
    BY <1>4, <2>1
  <2>3. pendMod \in [Handles -> SUBSET Bits] /\ pendAdd \in [Handles -> Seq(Nat)]
    BY DEF IInv, OwedInv, NewsTypes
  <2>4. /\ pendMod' \in [Handles -> SUBSET Bits]
        /\ \A h \in Handles : pendMod[h] \subseteq pendMod'[h]
        /\ Guarded(x.on) => bits \subseteq pendMod'[x.on]
    BY <1>4, <1>5, <1>6, <2>3
  <2>5. /\ pendAdd' \in [Handles -> Seq(Nat)]
        /\ \A h \in Handles : /\ Elements(pendAdd[h]) \subseteq Elements(pendAdd'[h])
                              /\ Elements(pendAdd'[h]) \subseteq DOMAIN slots[h]
    BY <1>4, <2>3 DEF IInv, OwedInv, NewsTypes
  <2>6. M \subseteq Handles \X (Bits \cup {Added(i) : i \in 1..ops})
    BY <1>5, <1>6, <2>1
  <2>7. ASSUME NEW o \in M
        PROVE  /\ InModel(o[1]) /\ o[2] \in Bits /\ o[2] \in pendMod'[o[1]]
               /\ guard # 0 /\ ~Flushing
    <3>1. Guarded(x.on) /\ ~Flushing /\ o \in {x.on} \X bits
      BY <2>1, <2>7
    <3>2. o[1] = x.on /\ o[2] \in bits
      BY <3>1
    <3>3. InModel(x.on) /\ guard # 0
      BY <3>1 DEF Guarded, IInv, StackInv, GuardInv
    <3> QED BY <1>6, <2>4, <3>1, <3>2, <3>3
  <2>8. M # {} => /\ guard # 0 /\ ~Flushing
                  /\ \A e \in ToDo : e.do # "clear_modified" /\ e.do # "clear_added"
    <3>1. ASSUME ~Flushing, NEW e \in ToDo PROVE e.do # "clear_modified" /\ e.do # "clear_added"
      <4>1. e \in Entries /\ e \notin FlushWork
        BY <3>1, NoFlushWork
      <4> QED BY <4>1, Kinds DEF FlushWork
    <3> QED BY <2>7, <3>1
  <2>9. \A e \in D : \A o \in owed : ~Told(e, o)
    BY <1>4, <1>13 DEF Told, Visited
  <2>10. \A e \in N : e.do # "clear_modified" /\ e.do # "clear_added" /\ e.do # "unguard"
    BY <1>11
  <2> QED BY <1>4, <1>14, <2>2, <2>4, <2>5, <2>6, <2>7, <2>8, <2>9, <2>10, OwedNoted DEF IInv
<1> QED BY <1>12, <1>15, <1>16, <1>17, <1>18 DEF IInv

LEMMA AddedIsNoBit == \A i : Added(i) \notin Bits
BY DEF Added, Bits, Publisher, Child

LEMMA NotifyAddedStep == ASSUME IInv, NotifyAdded PROVE IInv'
<1>1. PICK x, t : Runs(x, t)
  BY Running DEF NotifyAdded, Doing
<1>2. PICK i : i = x.at
  OBVIOUS
<1>3. /\ x.do = "added" /\ guard' = guard /\ ops' = ops
      /\ UNCHANGED <<slots, parent, index, live, active, wasActive, pendMod, unsaved, dirty>>
      /\ Guarded(x.on) => /\ pendAdd' = [pendAdd EXCEPT ![x.on] = Append(pendAdd[x.on], i)]
                          /\ owed' = IF Flushing THEN owed ELSE owed \cup {<<x.on, Added(i)>>}
                          /\ agenda' = <<>> \o t
      /\ ~Guarded(x.on) => /\ pendAdd' = pendAdd /\ owed' = owed
                           /\ agenda' = <<Tell(x.on, {Added(i)})>> \o t
  BY <1>1, <1>2 DEF NotifyAdded, Doing, Continue, On, At, Runs, tree, activity, saving
<1>4. /\ x \in Entries /\ t \in Seq(Entries) /\ Stacked(t) /\ x.on \in Handles /\ x \notin Guards
      /\ i \in Nat
  BY <1>1, <1>2, <1>3, Following
<1>5. i \in DOMAIN slots[x.on]
  BY <1>1, <1>2, <1>3 DEF Runs, EntryFits
<1>6. \E N : Onto(agenda', N, t) /\ \A e \in N : e.do = "callback"
  <2>1. CASE Guarded(x.on)
    <3>1. PICK N : N = {}
      OBVIOUS
    <3>2. Onto(agenda', N, t)
      BY <1>3, <1>4, <2>1, <3>1, OntoNone
    <3> QED BY <3>1, <3>2
  <2>2. CASE ~Guarded(x.on)
    <3>1. PICK y : y = Tell(x.on, {Added(i)})
      OBVIOUS
    <3>2. {Added(i)} \in SUBSET AnyNews
      BY <1>4 DEF AnyNews
    <3>3. y \in Entries /\ y.do = "callback"
      BY <1>4, <3>1, <3>2, MadeTell
    <3>4. Plain(y) /\ y \notin Guards
      BY <3>3, MadePlain
    <3>5. agenda' = <<y>> \o t
      BY <1>3, <2>2, <3>1
    <3>6. Above(y, t)
      BY <1>4, <3>3, <3>4, PlainAbove
    <3>7. Onto(agenda', {y}, t)
      BY <1>4, <3>3, <3>4, <3>5, <3>6, OntoOne
    <3> QED BY <3>3, <3>7
  <2> QED BY <2>1, <2>2
<1>7. PICK N : Onto(agenda', N, t) /\ \A e \in N : e.do = "callback"
  BY <1>6
<1>8. StackInv' /\ ToDo' = N \cup Elements(t)
  BY <1>1, <1>3, <1>4, <1>7, ContinuesWith
<1>9. PICK D : D = {x}
  OBVIOUS
<1>10. ToDo \ D \subseteq ToDo' /\ ToDo' \subseteq ToDo \cup N
  BY <1>1, <1>8, <1>9 DEF Runs
<1>11. TreeInv'
  <2>1. ops' \in 0..MaxOps /\ ops <= ops'
    BY <1>3, HandlesAssumption DEF IInv, TreeInv, TreeTypes
  <2>2. wasActive' \in [Handles -> BOOLEAN]
    BY <1>3 DEF IInv, TreeInv, TreeTypes
  <2> QED BY <1>3, <2>1, <2>2, TreeKept DEF IInv
<1>12. EntryInv'
  <2>1. \A e \in D : e.do # "deactivate" /\ e.do # "cascade"
    BY <1>3, <1>9
  <2>2. agenda # <<>> => Head(agenda).do # "deactivate"
    BY <1>1, <1>3, Following
  <2>3. \A e \in N : EntryFits(e) /\ e.do # "vacate"
    BY <1>7 DEF EntryFits
  <2> QED BY <1>3, <1>10, <2>1, <2>2, <2>3, EntriesKept DEF IInv
<1>13. SavedInv'
  <2>1. \A e \in D : e.do # "modified" /\ e.do # "bubble"
    BY <1>3, <1>9
  <2> QED BY <1>3, <1>10, <2>1, SavedKept DEF IInv
<1>14. OwedInv'
  <2>1. PICK M : M = IF Guarded(x.on) /\ ~Flushing THEN {<<x.on, Added(i)>>} ELSE {}
    OBVIOUS
  <2>2. owed' = owed \cup M
    BY <1>3, <2>1
  <2>3. /\ pendMod \in [Handles -> SUBSET Bits] /\ pendAdd \in [Handles -> Seq(Nat)]
        /\ \A h \in Handles : Elements(pendAdd[h]) \subseteq DOMAIN slots[h]
    BY DEF IInv, OwedInv, NewsTypes
  <2>4. pendMod' \in [Handles -> SUBSET Bits] /\ \A h \in Handles : pendMod[h] \subseteq pendMod'[h]
    BY <1>3, <2>3
  <2>5. /\ pendAdd' \in [Handles -> Seq(Nat)]
        /\ \A h \in Handles : /\ Elements(pendAdd[h]) \subseteq Elements(pendAdd'[h])
                              /\ Elements(pendAdd'[h]) \subseteq DOMAIN slots[h]
        /\ Guarded(x.on) => i \in Elements(pendAdd'[x.on])
    <3>1. CASE Guarded(x.on)
      <4>1. PICK s : s = Append(pendAdd[x.on], i)
        OBVIOUS
      <4>2. s \in Seq(Nat) /\ Elements(s) = Elements(pendAdd[x.on]) \cup {i}
        <5>1. pendAdd[x.on] \in Seq(Nat)
          BY <1>4, <2>3
        <5> QED BY <1>4, <4>1, <5>1, ElementsAppend
      <4>3. pendAdd' = [pendAdd EXCEPT ![x.on] = s]
        BY <1>3, <3>1, <4>1
      <4>4. pendAdd'[x.on] = s /\ \A h \in Handles : h # x.on => pendAdd'[h] = pendAdd[h]
        BY <1>4, <2>3, <4>3
      <4>5. pendAdd' \in [Handles -> Seq(Nat)]
        BY <1>4, <2>3, <4>2, <4>3
      <4> QED BY <1>5, <2>3, <4>2, <4>4, <4>5
    <3>2. CASE ~Guarded(x.on)
      BY <1>3, <2>3, <3>2
    <3> QED BY <3>1, <3>2
  <2>6. M \subseteq Handles \X (Bits \cup {Added(j) : j \in 1..ops})
    <3>1. i \in 1..ops
      <4>1. slots[x.on] \in Seq(Handles \cup {NULL}) /\ Len(slots[x.on]) <= ops /\ ops \in Nat
        BY <1>4, HandlesAssumption DEF IInv, TreeInv, TreeTypes
      <4> QED BY <1>5, <4>1
    <3> QED BY <1>4, <2>1, <3>1
  <2>7. ASSUME NEW o \in M
        PROVE  /\ InModel(o[1]) /\ o[2] \notin Bits
               /\ \E j \in Elements(pendAdd'[o[1]]) : o[2] = Added(j)
               /\ guard # 0 /\ ~Flushing
    <3>1. Guarded(x.on) /\ ~Flushing /\ o = <<x.on, Added(i)>>
      BY <2>1, <2>7
    <3>2. o[1] = x.on /\ o[2] = Added(i)
      BY <3>1
    <3>3. InModel(x.on) /\ guard # 0
      BY <3>1 DEF Guarded, IInv, StackInv, GuardInv
    <3> QED BY <2>5, <3>1, <3>2, <3>3, AddedIsNoBit
  <2>8. M # {} => /\ guard # 0 /\ ~Flushing
                  /\ \A e \in ToDo : e.do # "clear_modified" /\ e.do # "clear_added"
    <3>1. ASSUME ~Flushing, NEW e \in ToDo PROVE e.do # "clear_modified" /\ e.do # "clear_added"
      <4>1. e \in Entries /\ e \notin FlushWork
        BY <3>1, NoFlushWork
      <4> QED BY <4>1, Kinds DEF FlushWork
    <3> QED BY <2>7, <3>1
  <2>9. \A e \in D : \A o \in owed : ~Told(e, o)
    BY <1>3, <1>9 DEF Told, Visited
  <2>10. \A e \in N : e.do # "clear_modified" /\ e.do # "clear_added" /\ e.do # "unguard"
    BY <1>7
  <2> QED BY <1>3, <1>10, <2>2, <2>4, <2>5, <2>6, <2>7, <2>8, <2>9, <2>10, OwedNoted DEF IInv
<1> QED BY <1>8, <1>11, <1>12, <1>13, <1>14 DEF IInv

LEMMA DeactivateStep == ASSUME IInv, Deactivate PROVE IInv'
<1>1. PICK x, t : Runs(x, t)
  BY Running DEF Deactivate, Doing
<1>2. PICK h : h = x.on
  OBVIOUS
<1>3. PICK z : z = DoAt("cascade", h, 1)
  OBVIOUS
<1>4. /\ x.do = "deactivate" /\ guard' = guard /\ ops' = ops
      /\ UNCHANGED <<slots, parent, index, live, pendMod, pendAdd, owed, unsaved, dirty>>
      /\ active[h] => /\ active' = [active EXCEPT ![h] = FALSE]
                      /\ wasActive' = [wasActive EXCEPT ![h] = Guarded(h) /\ wasActive[h]]
                      /\ Guarded(h) => agenda' = <<z>> \o t
                      /\ ~Guarded(h) => agenda' = <<Tell(h, {<<"deactivated", 0>>}), z>> \o t
      /\ ~active[h] => active' = active /\ wasActive' = wasActive /\ agenda' = <<>> \o t
  BY <1>1, <1>2, <1>3 DEF Deactivate, Doing, Continue, On, Runs, tree, activity, pending, saving
<1>5. /\ x \in Entries /\ t \in Seq(Entries) /\ Stacked(t) /\ h \in Handles /\ x \notin Guards
      /\ Elements(t) \subseteq Entries
  BY <1>1, <1>2, <1>4, Following
<1>6. z \in Entries /\ z.do = "cascade" /\ z.on = h /\ z.at = 1
  <2>1. PICK what : what = "cascade"
    OBVIOUS
  <2>2. what \in Steps /\ 1 \in Nat
    BY <2>1 DEF Steps
  <2>3. PICK k : k = 1
    OBVIOUS
  <2>4. z \in Entries /\ z.do = what /\ z.on = h /\ z.at = k
    BY <1>3, <1>5, <2>1, <2>2, <2>3, MadeAt
  <2> QED BY <2>1, <2>3, <2>4
<1>7. Plain(z) /\ z \notin Guards
  BY <1>6, MadePlain
<1>8. Above(z, t)
  BY <1>5, <1>6, <1>7, PlainAbove
<1>9. \E N : /\ Onto(agenda', N, t) /\ (active[h] => z \in N)
             /\ \A e \in N : e = z \/ e.do = "callback"
  <2>1. CASE active[h] /\ Guarded(h)
    <3>1. agenda' = <<z>> \o t
      BY <1>4, <2>1
    <3>2. Onto(agenda', {z}, t)
      BY <1>5, <1>6, <1>7, <1>8, <3>1, OntoOne
    <3> QED BY <3>2
  <2>2. CASE active[h] /\ ~Guarded(h)
    <3>1. PICK y : y = Tell(h, {<<"deactivated", 0>>})
      OBVIOUS
    <3>2. {<<"deactivated", 0>>} \in SUBSET AnyNews
      BY DEF AnyNews, News
    <3>3. y \in Entries /\ y.do = "callback"
      BY <1>5, <3>1, <3>2, MadeTell
    <3>4. Plain(y) /\ y \notin Guards
      BY <3>3, MadePlain
    <3>5. agenda' = <<y, z>> \o t
      BY <1>4, <2>2, <3>1
    <3>6. Onto(agenda', {y, z}, t)
      BY <1>5, <1>6, <1>7, <1>8, <3>3, <3>4, <3>5, OntoTwo
    <3> QED BY <3>3, <3>6
  <2>3. CASE ~active[h]
    <3>1. PICK N : N = {}
      OBVIOUS
    <3>2. Onto(agenda', N, t)
      BY <1>4, <1>5, <2>3, <3>1, OntoNone
    <3> QED BY <2>3, <3>1, <3>2
  <2> QED BY <2>1, <2>2, <2>3
<1>10. PICK N : /\ Onto(agenda', N, t) /\ (active[h] => z \in N)
                /\ \A e \in N : e = z \/ e.do = "callback"
  BY <1>9
<1>11. StackInv' /\ ToDo' = N \cup Elements(t)
  BY <1>1, <1>4, <1>5, <1>10, ContinuesWith
<1>12. PICK D : D = {x}
  OBVIOUS
<1>13. ToDo \ D \subseteq ToDo' /\ ToDo' \subseteq ToDo \cup N
  BY <1>1, <1>11, <1>12 DEF Runs
<1>14. /\ active \in [Handles -> BOOLEAN] /\ wasActive \in [Handles -> BOOLEAN]
       /\ slots \in [Handles -> Seq(Handles \cup {NULL})]
  BY DEF IInv, TreeInv, TreeTypes
<1>15. /\ active' \in [Handles -> BOOLEAN] /\ ~active'[h]
       /\ \A g \in Handles : active'[g] => active[g]
       /\ \A g \in Handles : ~active'[g] => g = h \/ ~active[g]
  <2>1. CASE active[h]
    <3>1. active' = [active EXCEPT ![h] = FALSE]
      BY <1>4, <2>1
    <3> QED BY <1>5, <1>14, <3>1
  <2>2. CASE ~active[h]
    <3>1. active' = active
      BY <1>4, <2>2
    <3> QED BY <1>5, <1>14, <2>2, <3>1
  <2> QED BY <2>1, <2>2
<1>16. wasActive' \in [Handles -> BOOLEAN]
  <2>1. CASE active[h]
    <3>1. wasActive' = [wasActive EXCEPT ![h] = Guarded(h) /\ wasActive[h]]
      BY <1>4, <2>1
    <3>2. wasActive[h] \in BOOLEAN /\ (Guarded(h) /\ wasActive[h]) \in BOOLEAN
      BY <1>5, <1>14 DEF Guarded
    <3> QED BY <1>5, <1>14, <3>1, <3>2
  <2>2. CASE ~active[h]
    BY <1>4, <1>14, <2>2
  <2> QED BY <2>1, <2>2
<1>17. TreeInv'
  <2>1. TreeTypes'
    BY <1>4, <1>15, <1>16 DEF IInv, TreeInv, TreeTypes
  <2>2. SlotsKnown'
    BY <1>4 DEF IInv, TreeInv, SlotsKnown
  <2>3. ParentsKnown'
    BY <1>4, <1>15 DEF IInv, TreeInv, ParentsKnown
  <2> QED BY <2>1, <2>2, <2>3 DEF TreeInv
<1>18. SavedInv'
  <2>1. \A e \in D : e.do # "modified" /\ e.do # "bubble"
    BY <1>4, <1>12
  <2> QED BY <1>4, <1>13, <2>1, SavedKept DEF IInv
<1>19. OwedInv'
  <2>1. \A e \in D : \A o \in owed : ~Told(e, o)
    BY <1>4, <1>12 DEF Told, Visited
  <2>2. \A e \in N : e.do # "clear_modified" /\ e.do # "clear_added"
    BY <1>6, <1>10
  <2>3. Flushing' => Flushing
    BY <1>6, <1>10, <1>13, FlushingToDo
  <2>4. ops \in Nat /\ ops' \in Nat /\ ops <= ops'
    BY <1>4, HandlesAssumption DEF IInv, TreeInv, TreeTypes
  <2> QED BY <1>4, <1>13, <1>15, <2>1, <2>2, <2>3, <2>4, OwedKept DEF IInv
<1>20. EntriesFit'
  <2>1. \A e \in ToDo : EntryFits(e)
    BY DEF IInv, EntryInv, EntriesFit
  <2>2. EntryFits(z)
    <3>1. Len(slots[h]) \in Nat
      BY <1>5, <1>14
    <3> QED BY <1>6, <3>1 DEF EntryFits
  <2>3. \A e \in N : EntryFits(e)
    BY <1>10, <2>2 DEF EntryFits
  <2>4. \A e : EntryFits(e) => EntryFits(e)'
    BY <1>4 DEF EntryFits, Held, InSlot
  <2> QED BY <1>13, <2>1, <2>3, <2>4 DEF EntriesFit
<1>21. VacatedLeave'
  <2>1. SUFFICES ASSUME NEW e \in ToDo', e.do = "vacate" PROVE Leaving(slots[e.on][e.at])'
    BY DEF VacatedLeave
  <2>2. e \in ToDo
    BY <1>6, <1>10, <1>13, <2>1
  <2>3. Leaving(slots[e.on][e.at]) /\ EntryFits(e) /\ e \in Entries
    <3>1. ToDo \subseteq Entries
      BY ElementsTyped DEF IInv, StackInv, Stacked, ToDo
    <3> QED BY <2>1, <2>2, <3>1 DEF IInv, EntryInv, EntriesFit, VacatedLeave
  <2>4. PICK c : c = slots[e.on][e.at]
    OBVIOUS
  <2>5. c \in Handles \cup {NULL}
    <3>1. e.on \in Handles /\ e.at \in DOMAIN slots[e.on]
      BY <2>1, <2>3 DEF EntryFits, Entries
    <3> QED BY <1>14, <2>4, <3>1
  <2>6. c = NULL \/ ~active[c] \/ c = h
    <3>1. CASE Head(agenda) = Do("deactivate", c) /\ c # NULL
      <4>1. x = Do("deactivate", c) /\ c \in Handles
        BY <1>1, <2>5, <3>1 DEF Runs
      <4>2. x.on = c
        BY <4>1, MadeNamed
      <4> QED BY <1>2, <4>2
    <3> QED BY <2>3, <2>4, <3>1 DEF Leaving
  <2>7. c = NULL \/ ~active'[c]
    BY <1>15, <2>5, <2>6
  <2>8. c = slots'[e.on][e.at]
    BY <1>4, <2>4
  <2> QED BY <2>7, <2>8 DEF Leaving
<1>22. ChildrenFollow'
  <2>1. SUFFICES ASSUME NEW p \in Handles, NEW i \in DOMAIN slots[p], ~active'[p], slots[p][i] # NULL,
                        active'[slots[p][i]]
                 PROVE  Cascading(p, i)'
    BY <1>4 DEF ChildrenFollow
  <2>2. slots[p][i] \in Handles /\ i \in Nat /\ 1 <= i
    BY <1>14, <2>1
  <2>3. active[slots[p][i]] /\ slots[p][i] # h
    BY <1>15, <2>1, <2>2
  <2>4. CASE active[p]
    <3>1. p = h
      BY <1>15, <2>1, <2>4
    <3>2. z \in ToDo' /\ z.do = "cascade" /\ z.on = p /\ z.at <= i
      BY <1>6, <1>10, <1>11, <2>2, <2>4, <3>1
    <3> QED BY <3>2 DEF Cascading
  <2>5. CASE ~active[p]
    <3>1. Cascading(p, i)
      BY <2>1, <2>3, <2>5 DEF IInv, EntryInv, ChildrenFollow
    <3>2. Do("deactivate", slots[p][i]) # x
      BY <1>2, <2>2, <2>3, MadeNamed
    <3>3. Do("deactivate", slots[p][i]) \in ToDo => Do("deactivate", slots[p][i]) \in ToDo'
      BY <1>12, <1>13, <3>2
    <3>4. \A e \in ToDo : e.do = "cascade" => e \in ToDo'
      BY <1>4, <1>12, <1>13
    <3> QED BY <1>4, <3>1, <3>3, <3>4 DEF Cascading
  <2> QED BY <2>4, <2>5
<1> QED BY <1>11, <1>17, <1>18, <1>19, <1>20, <1>21, <1>22 DEF IInv, EntryInv
-----------------------------------------------------------------------------
LEMMA CascadeStep == ASSUME IInv, Cascade PROVE IInv'
<1>1. PICK x, t : Runs(x, t)
  BY Running DEF Cascade, Doing
<1>2. PICK h, i : h = x.on /\ i = Seek(x.on, x.at)
  OBVIOUS
<1>3. PICK y : y = Do("deactivate", slots[h][i])
  OBVIOUS
<1>4. PICK z : z = DoAt("cascade", h, i + 1)
  OBVIOUS
<1>5. /\ x.do = "cascade" /\ guard' = guard /\ ops' = ops
      /\ UNCHANGED <<slots, parent, index, live, active, wasActive, pendMod, pendAdd, owed>>
      /\ UNCHANGED <<unsaved, dirty>>
      /\ i > Len(slots[h]) => agenda' = <<>> \o t
      /\ ~(i > Len(slots[h])) => agenda' = <<y, z>> \o t
  BY <1>1, <1>2, <1>3, <1>4
     DEF Cascade, ForChildren, Doing, Continue, On, At, Runs, tree, activity, pending, saving
<1>6. /\ x \in Entries /\ t \in Seq(Entries) /\ Stacked(t) /\ h \in Handles /\ x \notin Guards
      /\ x.at \in Nat
  BY <1>1, <1>2, <1>5, Following
<1>7. slots[h] \in Seq(Handles \cup {NULL}) /\ Len(slots[h]) \in Nat
  BY <1>6 DEF IInv, TreeInv, TreeTypes
<1>8. /\ i \in Nat /\ 1 <= x.at /\ x.at <= i /\ i <= Len(slots[h]) + 1
      /\ i <= Len(slots[h]) => slots[h][i] # NULL
      /\ \A k \in Nat : x.at <= k /\ k < i => slots[h][k] = NULL
  <2>1. 1 <= x.at /\ x.at <= Len(slots[h]) + 1
    BY <1>1, <1>2, <1>5 DEF Runs, EntryFits
  <2> QED BY <1>2, <1>6, <2>1, Seeking DEF IInv
<1>9. ~(i > Len(slots[h])) =>
        /\ y \in Entries /\ y.do = "deactivate" /\ z \in Entries /\ z.do = "cascade"
        /\ z.on = h /\ z.at = i + 1
  <2>1. SUFFICES ASSUME ~(i > Len(slots[h]))
                 PROVE  /\ y \in Entries /\ y.do = "deactivate" /\ z \in Entries /\ z.do = "cascade"
                        /\ z.on = h /\ z.at = i + 1
    OBVIOUS
  <2>2. i \in DOMAIN slots[h] /\ slots[h][i] # NULL
    <3>1. i <= Len(slots[h]) /\ 1 <= i /\ i \in Nat
      BY <1>6, <1>7, <1>8, <2>1
    <3>2. DOMAIN slots[h] = 1..Len(slots[h])
      BY <1>7
    <3> QED BY <1>7, <1>8, <3>1, <3>2
  <2>3. slots[h][i] \in Handles
    BY <1>7, <2>2
  <2>4. y \in Entries /\ y.do = "deactivate"
    BY <1>3, <2>3, MadeNamed
  <2>5. PICK what : what = "cascade"
    OBVIOUS
  <2>6. what \in Steps /\ i + 1 \in Nat
    BY <1>8, <2>5 DEF Steps
  <2>7. z \in Entries /\ z.do = what /\ z.on = h /\ z.at = i + 1
    BY <1>4, <1>6, <2>5, <2>6, MadeAt
  <2> QED BY <2>4, <2>5, <2>7
<1>10. \E N : /\ Onto(agenda', N, t) /\ (~(i > Len(slots[h])) => N = {y, z})
              /\ (i > Len(slots[h]) => N = {})
  <2>1. CASE i > Len(slots[h])
    <3>1. PICK N : N = {}
      OBVIOUS
    <3>2. Onto(agenda', N, t)
      BY <1>5, <1>6, <2>1, <3>1, OntoNone
    <3> QED BY <2>1, <3>1, <3>2
  <2>2. CASE ~(i > Len(slots[h]))
    <3>1. Plain(y) /\ y \notin Guards
      BY <1>9, <2>2, MadePlain
    <3>2. Plain(z) /\ z \notin Guards
      BY <1>9, <2>2, MadePlain
    <3>3. Above(z, t)
      BY <1>6, <1>9, <2>2, <3>2, PlainAbove
    <3>4. Onto(agenda', {y, z}, t)
      BY <1>5, <1>6, <1>9, <2>2, <3>1, <3>2, <3>3, OntoTwo
    <3> QED BY <2>2, <3>4
  <2> QED BY <2>1, <2>2
<1>11. PICK N : /\ Onto(agenda', N, t) /\ (~(i > Len(slots[h])) => N = {y, z})
                /\ (i > Len(slots[h]) => N = {})
  BY <1>10
<1>12. StackInv' /\ ToDo' = N \cup Elements(t)
  BY <1>1, <1>5, <1>6, <1>11, ContinuesWith
<1>13. PICK D : D = {x}
  OBVIOUS
<1>14. ToDo \ D \subseteq ToDo' /\ ToDo' \subseteq ToDo \cup N
  BY <1>1, <1>12, <1>13 DEF Runs
<1>15. \A e \in N : e.do = "deactivate" \/ (e = z /\ e.do = "cascade" /\ ~(i > Len(slots[h])))
  BY <1>9, <1>11
<1>16. ops \in 0..MaxOps /\ ops \in Nat /\ ops' \in Nat /\ ops' \in 0..MaxOps /\ ops <= ops'
  BY <1>5, HandlesAssumption DEF IInv, TreeInv, TreeTypes
<1>17. TreeInv'
  <2>1. wasActive' \in [Handles -> BOOLEAN]
    BY <1>5 DEF IInv, TreeInv, TreeTypes
  <2> QED BY <1>5, <1>16, <2>1, TreeKept DEF IInv
<1>18. SavedInv'
  <2>1. \A e \in D : e.do # "modified" /\ e.do # "bubble"
    BY <1>5, <1>13
  <2> QED BY <1>5, <1>14, <2>1, SavedKept DEF IInv
<1>19. OwedInv'
  <2>1. \A e \in D : \A o \in owed : ~Told(e, o)
    BY <1>5, <1>13 DEF Told, Visited
  <2>2. \A e \in N : e.do # "clear_modified" /\ e.do # "clear_added" /\ e.do # "unguard"
    BY <1>15
  <2>3. Flushing' => Flushing
    BY <1>14, <2>2, FlushingToDo
  <2>4. \A g \in Handles : active'[g] => active[g]
    BY <1>5
  <2> QED BY <1>5, <1>14, <1>16, <2>1, <2>2, <2>3, <2>4, OwedKept DEF IInv
<1>20. EntriesFit'
  <2>1. \A e \in ToDo : EntryFits(e)
    BY DEF IInv, EntryInv, EntriesFit
  <2>2. ~(i > Len(slots[h])) => EntryFits(z)
    BY <1>7, <1>8, <1>9 DEF EntryFits
  <2>3. \A e \in N : EntryFits(e)
    BY <1>15, <2>2 DEF EntryFits
  <2>4. \A e : EntryFits(e) => EntryFits(e)'
    BY <1>5 DEF EntryFits, Held, InSlot
  <2> QED BY <1>14, <2>1, <2>3, <2>4 DEF EntriesFit
<1>21. VacatedLeave'
  <2>1. SUFFICES ASSUME NEW e \in ToDo', e.do = "vacate" PROVE Leaving(slots[e.on][e.at])'
    BY DEF VacatedLeave
  <2>2. e \in ToDo
    BY <1>14, <1>15, <2>1
  <2>3. Leaving(slots[e.on][e.at])
    BY <2>1, <2>2 DEF IInv, EntryInv, VacatedLeave
  <2>4. agenda # <<>> => \A d : Head(agenda) # Do("deactivate", d)
    BY <1>1, <1>5 DEF Runs, Do, DoAt
  <2> QED BY <1>5, <2>3, <2>4 DEF Leaving
<1>22. ChildrenFollow'
  <2>1. SUFFICES ASSUME NEW p \in Handles, NEW j \in DOMAIN slots[p], ~active[p], slots[p][j] # NULL,
                        active[slots[p][j]]
                 PROVE  Cascading(p, j)'
    BY <1>5 DEF ChildrenFollow
  <2>2. Cascading(p, j)
    BY <2>1 DEF IInv, EntryInv, ChildrenFollow
  <2>3. CASE Do("deactivate", slots[p][j]) \in ToDo
    <3>1. Do("deactivate", slots[p][j]) # x
      BY <1>5 DEF Do, DoAt
    <3>2. Do("deactivate", slots[p][j]) \in ToDo'
      BY <1>13, <1>14, <2>3, <3>1
    <3> QED BY <1>5, <3>2 DEF Cascading
  <2>4. ASSUME NEW e \in ToDo, e.do = "cascade", e.on = p, e.at <= j PROVE Cascading(p, j)'
    <3>1. CASE e = x
      <4>1. p = h /\ x.at <= j /\ j \in Nat /\ j <= Len(slots[h])
        BY <1>2, <1>7, <2>1, <2>4, <3>1
      <4>2. i <= j
        BY <1>6, <1>8, <2>1, <4>1
      <4>3. N = {y, z} /\ ~(i > Len(slots[h]))
        BY <1>7, <1>8, <1>11, <4>1, <4>2
      <4>4. CASE i = j
        <5>1. y \in ToDo' /\ y = Do("deactivate", slots[p][j])
          BY <1>3, <1>12, <4>1, <4>3, <4>4
        <5> QED BY <1>5, <5>1 DEF Cascading
      <4>5. CASE i # j
        <5>1. i + 1 <= j
          BY <1>8, <4>1, <4>2, <4>5
        <5>2. z \in ToDo' /\ z.do = "cascade" /\ z.on = p /\ z.at <= j
          BY <1>9, <1>12, <4>1, <4>3, <5>1
        <5> QED BY <5>2 DEF Cascading
      <4> QED BY <4>4, <4>5
    <3>2. CASE e # x
      <4>1. e \in ToDo'
        BY <1>13, <1>14, <3>2
      <4> QED BY <2>4, <4>1 DEF Cascading
    <3> QED BY <3>1, <3>2
  <2> QED BY <2>2, <2>3, <2>4 DEF Cascading
<1> QED BY <1>12, <1>17, <1>18, <1>19, <1>20, <1>21, <1>22 DEF IInv, EntryInv

LEMMA VacateStep == ASSUME IInv, Vacate PROVE IInv'
<1>1. PICK x, t : Runs(x, t)
  BY Running DEF Vacate, Doing
<1>2. PICK p, i : p = x.on /\ i = x.at
  OBVIOUS
<1>3. /\ x.do = "vacate" /\ guard' = guard /\ ops' = ops
      /\ UNCHANGED <<parent, index, live, active, wasActive, pendMod, pendAdd, owed, unsaved>>
      /\ slots' = [slots EXCEPT ![p][i] = NULL]
      /\ dirty' = dirty \cup ({p} \cap Collections)
      /\ agenda' = <<>> \o t
  BY <1>1, <1>2 DEF Vacate, Doing, Continue, On, At, Runs, activity, pending
<1>4. /\ x \in Entries /\ t \in Seq(Entries) /\ Stacked(t) /\ Above(x, t) /\ p \in Handles /\ x \notin Guards
  BY <1>1, <1>2, <1>3, Following
<1>5. i \in DOMAIN slots[p] /\ slots \in [Handles -> Seq(Handles \cup {NULL})]
  BY <1>1, <1>2, <1>3 DEF Runs, EntryFits, IInv, TreeInv, TreeTypes
<1>6. /\ slots' \in [Handles -> Seq(Handles \cup {NULL})]
      /\ \A q \in Handles : DOMAIN slots'[q] = DOMAIN slots[q] /\ Len(slots'[q]) = Len(slots[q])
      /\ slots'[p][i] = NULL
      /\ \A q \in Handles : \A j \in DOMAIN slots[q] :
           ~(q = p /\ j = i) => slots'[q][j] = slots[q][j]
  <2>1. PICK s : s = slots[p]
    OBVIOUS
  <2>2. s \in Seq(Handles \cup {NULL}) /\ i \in DOMAIN s
    BY <1>4, <1>5, <2>1
  <2>3. PICK r : r = [s EXCEPT ![i] = NULL]
    OBVIOUS
  <2>4. /\ r \in Seq(Handles \cup {NULL}) /\ Len(r) = Len(s) /\ DOMAIN r = DOMAIN s
        /\ r[i] = NULL /\ \A j \in DOMAIN s : j # i => r[j] = s[j]
    BY <2>2, <2>3
  <2>5. slots' = [slots EXCEPT ![p] = r]
    BY <1>3, <2>1, <2>3
  <2>6. slots'[p] = r /\ \A q \in Handles : q # p => slots'[q] = slots[q]
    BY <1>4, <1>5, <2>5
  <2>7. slots' \in [Handles -> Seq(Handles \cup {NULL})]
    BY <1>5, <2>4, <2>5
  <2> QED BY <2>1, <2>4, <2>6, <2>7
<1>7. \A q \in Handles : \A c : c # NULL /\ InSlot(q, c)' => InSlot(q, c)
  <2>1. SUFFICES ASSUME NEW q \in Handles, NEW c, c # NULL, InSlot(q, c)' PROVE InSlot(q, c)
    OBVIOUS
  <2>2. PICK j \in DOMAIN slots'[q] : slots'[q][j] = c
    BY <2>1 DEF InSlot
  <2>3. j \in DOMAIN slots[q] /\ slots[q][j] = c
    BY <1>6, <2>1, <2>2
  <2> QED BY <2>3 DEF InSlot
<1>8. PICK N : N = {}
  OBVIOUS
<1>9. Onto(agenda', N, t)
  BY <1>3, <1>4, <1>8, OntoNone
<1>10. StackInv' /\ ToDo' = N \cup Elements(t)
  BY <1>1, <1>3, <1>4, <1>9, ContinuesWith
<1>11. ToDo' \subseteq ToDo /\ \A e \in ToDo : e # x => e \in ToDo'
  BY <1>1, <1>8, <1>10 DEF Runs
<1>12. slots[p][i] = NULL \/ ~active[slots[p][i]]
  <2>1. x \in ToDo
    BY <1>1 DEF Runs
  <2>2. Leaving(slots[p][i])
    BY <1>2, <1>3, <2>1 DEF IInv, EntryInv, VacatedLeave
  <2>3. \A d : Head(agenda) # Do("deactivate", d)
    BY <1>1, <1>3 DEF Runs, Do, DoAt
  <2> QED BY <2>2, <2>3 DEF Leaving
<1>13. TreeTypes'
  <2>1. \A h \in Handles : \A j \in DOMAIN slots'[h] : slots'[h][j] \in ChildrenOf(h) \cup {NULL}
    BY <1>6 DEF IInv, TreeInv, TreeTypes
  <2>2. \A h \in Handles : Len(slots'[h]) <= ops'
    BY <1>3, <1>6 DEF IInv, TreeInv, TreeTypes
  <2> QED BY <1>3, <1>6, <2>1, <2>2 DEF IInv, TreeInv, TreeTypes
<1>14. SlotsKnown'
  <2>1. SUFFICES ASSUME NEW q \in Handles, NEW j \in DOMAIN slots'[q], slots'[q][j] # NULL
                 PROVE  live[slots'[q][j]] /\ parent[slots'[q][j]] = q /\ index[slots'[q][j]] = j
    BY <1>3 DEF SlotsKnown
  <2>2. j \in DOMAIN slots[q] /\ slots'[q][j] = slots[q][j]
    BY <1>6, <2>1
  <2> QED BY <2>1, <2>2 DEF IInv, TreeInv, SlotsKnown
<1>15. ParentsKnown'
  <2>1. SUFFICES ASSUME NEW h \in Handles, live[h], active[h], parent[h] # NULL
                 PROVE  /\ live[parent[h]] /\ index[h] \in DOMAIN slots'[parent[h]]
                        /\ slots'[parent[h]][index[h]] = h
    BY <1>3 DEF ParentsKnown
  <2>2. /\ live[parent[h]] /\ index[h] \in DOMAIN slots[parent[h]]
        /\ slots[parent[h]][index[h]] = h /\ parent[h] \in Handles
    BY <2>1 DEF IInv, TreeInv, TreeTypes, ParentsKnown
  <2>3. ~(parent[h] = p /\ index[h] = i)
    BY <1>12, <2>1, <2>2, NullIsNoHandle
  <2> QED BY <1>6, <2>2, <2>3
<1>16. EntriesFit'
  <2>1. SUFFICES ASSUME NEW e \in ToDo PROVE EntryFits(e)'
    BY <1>11 DEF EntriesFit
  <2>2. EntryFits(e) /\ e \in Entries
    <3>1. ToDo \subseteq Entries
      BY ElementsTyped DEF IInv, StackInv, Stacked, ToDo
    <3> QED BY <3>1 DEF IInv, EntryInv, EntriesFit
  <2>3. e.on \in Handles /\ e.on # NULL
    BY <2>2, NullIsNoHandle DEF Entries
  <2>4. Held(e.on)' => Held(e.on)
    BY <1>7, <2>3 DEF Held
  <2> QED BY <1>3, <1>6, <2>2, <2>3, <2>4 DEF EntryFits
<1>17. VacatedLeave'
  <2>1. SUFFICES ASSUME NEW e \in ToDo, e.do = "vacate"
                 PROVE  slots'[e.on][e.at] = NULL \/ ~active[slots'[e.on][e.at]]
    BY <1>3, <1>11 DEF VacatedLeave, Leaving
  <2>2. EntryFits(e) /\ e \in Entries
    <3>1. ToDo \subseteq Entries
      BY ElementsTyped DEF IInv, StackInv, Stacked, ToDo
    <3> QED BY <3>1 DEF IInv, EntryInv, EntriesFit
  <2>3. e.on \in Handles /\ e.at \in DOMAIN slots[e.on]
    BY <2>1, <2>2 DEF Entries, EntryFits
  <2>4. slots[e.on][e.at] = NULL \/ ~active[slots[e.on][e.at]]
    <3>1. Leaving(slots[e.on][e.at])
      BY <2>1 DEF IInv, EntryInv, VacatedLeave
    <3>2. \A d : Head(agenda) # Do("deactivate", d)
      BY <1>1, <1>3 DEF Runs, Do, DoAt
    <3> QED BY <3>1, <3>2 DEF Leaving
  <2> QED BY <1>6, <2>3, <2>4
<1>18. ChildrenFollow'
  <2>1. SUFFICES ASSUME NEW q \in Handles, NEW j \in DOMAIN slots'[q], ~active[q], slots'[q][j] # NULL
                 PROVE  ~active[slots'[q][j]] \/ Cascading(q, j)'
    BY <1>3 DEF ChildrenFollow
  <2>2. j \in DOMAIN slots[q] /\ slots'[q][j] = slots[q][j]
    BY <1>6, <2>1
  <2>3. ~active[slots[q][j]] \/ Cascading(q, j)
    BY <2>1, <2>2 DEF IInv, EntryInv, ChildrenFollow
  <2>4. Do("deactivate", slots[q][j]) # x
    BY <1>3 DEF Do, DoAt
  <2>5. \A e \in ToDo : e.do = "cascade" => e \in ToDo'
    BY <1>3, <1>11
  <2>6. Do("deactivate", slots[q][j]) \in ToDo => Do("deactivate", slots[q][j]) \in ToDo'
    BY <1>11, <2>4
  <2> QED BY <2>2, <2>3, <2>5, <2>6 DEF Cascading
<1>19. SavedInv'
  <2>1. \A e \in ToDo : e.do # "vacate" => e \in ToDo'
    BY <1>3, <1>11
  <2>2. \A c : OnItsWay(c) => OnItsWay(c)'
    BY <1>3, <2>1 DEF OnItsWay
  <2>3. OnItsWay(p)'
    <3>1. Modified(p, Publisher) \in Elements(t)
      BY <1>2, <1>3, <1>4, Below
    <3>2. PICK y : y = Modified(p, Publisher)
      OBVIOUS
    <3>3. y \in ToDo' /\ y.do = "modified" /\ y.on = p
      <4>1. Publisher \in SUBSET Bits
        BY DEF Bits
      <4>2. y.do = "modified" /\ y.on = p
        BY <1>4, <3>2, <4>1, MadeModified
      <4> QED BY <1>10, <3>1, <3>2, <4>2
    <3> QED BY <3>3 DEF OnItsWay
  <2> QED BY <1>3, <2>2, <2>3 DEF IInv, SavedInv
<1>20. NewsTypes'
  BY <1>3, <1>6 DEF IInv, OwedInv, NewsTypes
<1>21. NewsNoted'
  <2>1. \A h : InModel(h) => InModel(h)'
    BY <1>3 DEF InModel
  <2> QED BY <1>3, <1>11, <2>1 DEF IInv, OwedInv, NewsNoted
<1>22. FlushDue'
  <2>1. SUFFICES ASSUME guard = 0 \/ Flushing', NEW o \in owed, InTree(o[1])'
                 PROVE  \E e \in ToDo' : Told(e, o)'
    BY <1>3 DEF FlushDue
  <2>2. Flushing' => Flushing
    BY <1>11, FlushingToDo
  <2>3. o[1] # NULL /\ Root \in Handles /\ \A c \in Collections : c \in Handles /\ c # NULL
    <3>1. o[1] \in Handles
      BY DEF IInv, OwedInv, NewsTypes
    <3> QED BY <3>1, NullIsNoHandle, HandlesAssumption DEF Handles
  <2>4. InTree(o[1])
    BY <1>7, <2>1, <2>3 DEF InTree
  <2>5. PICK e \in ToDo : Told(e, o)
    BY <2>1, <2>2, <2>4 DEF IInv, OwedInv, FlushDue
  <2>6. e # x
    BY <1>3, <2>5 DEF Told, Visited
  <2>7. Told(e, o)'
    BY <1>3, <2>5 DEF Told, Visited
  <2> QED BY <1>11, <2>6, <2>7
<1> QED BY <1>10, <1>13, <1>14, <1>15, <1>16, <1>17, <1>18, <1>19, <1>20, <1>21, <1>22
       DEF IInv, TreeInv, EntryInv, OwedInv
-----------------------------------------------------------------------------
(* Entries of a flush, put onto a stack that has the end of the flush. *)
LEMMA OntoFlush ==
  ASSUME NEW t \in Seq(Entries), Stacked(t), NoClears(t), HasUnguard(t),
         NEW y \in Entries, y \in FlushWork, y \notin Clears, NEW s, s = <<y>> \o t
  PROVE  Onto(s, {y}, t) /\ s \in Seq(Entries) /\ Stacked(s) /\ NoClears(s) /\ HasUnguard(s)
<1>1. Above(y, t)
  BY FlushAbove
<1>2. y \notin Guards
  BY Kinds DEF FlushWork
<1>3. Onto(s, {y}, t)
  BY <1>1, <1>2, OntoOne
<1> QED BY <1>3 DEF Onto, NoClears, HasUnguard

LEMMA MadeFlush ==
  ASSUME NEW e \in Entries,
         e.do = "flush" \/ e.do = "flush_children" \/ e.do = "flush_modified"
         \/ e.do = "flush_added" \/ e.do = "flush_active"
  PROVE  e \in FlushWork /\ e \notin Clears
BY Kinds DEF FlushWork

LEMMA MadeClear ==
  ASSUME NEW e \in Entries, e.do = "clear_modified" \/ e.do = "clear_added"
  PROVE  e \in FlushWork /\ e \notin Guards
BY Kinds DEF FlushWork

(* A step that touches no handle and leaves no one to be told anew. *)
LEMMA NewsOnly ==
  ASSUME IInv, NEW x, NEW t, Runs(x, t), StackInv', NEW N, ToDo' = N \cup Elements(t),
         UNCHANGED <<slots, parent, index, live, active, unsaved, dirty, ops>>,
         wasActive' \in [Handles -> BOOLEAN],
         x.do # "deactivate", x.do # "cascade", x.do # "modified", x.do # "bubble",
         \A e \in N : EntryFits(e) /\ e.do # "vacate"
  PROVE  /\ OwedInv' => IInv'
         /\ ToDo' \subseteq ToDo \cup N /\ \A e \in ToDo : e # x => e \in ToDo'
         /\ ops \in Nat /\ \A e \in ToDo : e \in Entries
<1>1. PICK D : D = {x}
  OBVIOUS
<1>2. ToDo \ D \subseteq ToDo' /\ ToDo' \subseteq ToDo \cup N
  BY <1>1 DEF Runs
<1>3. ops \in 0..MaxOps /\ ops' \in 0..MaxOps /\ ops \in Nat /\ ops <= ops'
  BY HandlesAssumption DEF IInv, TreeInv, TreeTypes
<1>4. TreeInv'
  BY <1>3, TreeKept DEF IInv
<1>5. EntryInv'
  <2>1. \A e \in D : e.do # "deactivate" /\ e.do # "cascade"
    BY <1>1
  <2>2. agenda # <<>> => Head(agenda).do # "deactivate"
    BY DEF Runs
  <2>3. \A e \in N : EntryFits(e) /\ e.do # "vacate"
    OBVIOUS
  <2> QED BY <1>2, <2>1, <2>2, <2>3, EntriesKept DEF IInv
<1>6. SavedInv'
  <2>1. \A e \in D : e.do # "modified" /\ e.do # "bubble"
    BY <1>1
  <2> QED BY <1>2, <2>1, SavedKept DEF IInv
<1>7. ToDo \subseteq Entries
  BY ElementsTyped DEF IInv, StackInv, Stacked, ToDo
<1> QED BY <1>1, <1>2, <1>3, <1>4, <1>5, <1>6, <1>7 DEF IInv

(* Nothing is owed that was not owed, and who was to be told still is. *)
LEMMA OwedLess ==
  ASSUME OwedInv, UNCHANGED <<slots, parent, index, active, ops>>,
         owed' \subseteq owed,
         pendMod' \in [Handles -> SUBSET Bits], pendAdd' \in [Handles -> Seq(Nat)],
         \A h \in Handles : Elements(pendAdd'[h]) \subseteq Elements(pendAdd[h]),
         \A o \in owed' : /\ o[2] \in Bits => o[2] \in pendMod'[o[1]]
                          /\ o[2] \notin Bits => pendAdd'[o[1]] = pendAdd[o[1]],
         \A o \in owed' : \A e \in ToDo' :
            /\ o[2] \in Bits => ~(e.do = "clear_modified" /\ e.on = o[1])
            /\ o[2] \notin Bits => ~(e.do = "clear_added" /\ e.on = o[1]),
         guard' = 0 \/ Flushing' =>
           \A o \in owed' : InTree(o[1]) => \E e \in ToDo' : Told(e, o)
  PROVE  OwedInv'
<1>1. NewsTypes'
  BY DEF OwedInv, NewsTypes
<1>2. NewsNoted'
  <2>1. SUFFICES ASSUME NEW o \in owed'
                 PROVE  /\ o[2] \in Bits => /\ o[2] \in pendMod'[o[1]]
                                            /\ \A e \in ToDo' : ~(e.do = "clear_modified" /\ e.on = o[1])
                        /\ o[2] \notin Bits => /\ \E i \in Elements(pendAdd'[o[1]]) : o[2] = Added(i)
                                               /\ \A e \in ToDo' : ~(e.do = "clear_added" /\ e.on = o[1])
                        /\ InModel(o[1])' \/ (parent[o[1]] = NULL /\ ~active[o[1]])
    BY DEF NewsNoted
  <2>2. InModel(o[1]) => InModel(o[1])'
    BY DEF InModel
  <2>3. o[2] \notin Bits => \E i \in Elements(pendAdd[o[1]]) : o[2] = Added(i)
    BY DEF OwedInv, NewsNoted
  <2>4. InModel(o[1]) \/ (parent[o[1]] = NULL /\ ~active[o[1]])
    BY DEF OwedInv, NewsNoted
  <2> QED BY <2>2, <2>3, <2>4
<1>3. FlushDue'
  <2>1. SUFFICES ASSUME guard' = 0 \/ Flushing', NEW o \in owed', InTree(o[1])'
                 PROVE  \E e \in ToDo' : Told(e, o)'
    BY DEF FlushDue
  <2>2. InTree(o[1])
    BY <2>1 DEF InTree, InSlot
  <2>3. PICK e \in ToDo' : Told(e, o)
    BY <2>1, <2>2
  <2>4. Told(e, o)'
    BY <2>3 DEF Told, Visited
  <2> QED BY <2>3, <2>4
<1> QED BY <1>1, <1>2, <1>3 DEF OwedInv

LEMMA FlushModifiedStep == ASSUME IInv, FlushModified PROVE IInv'
<1>1. PICK x, t : Runs(x, t)
  BY Running DEF FlushModified, Doing
<1>2. PICK h : h = x.on
  OBVIOUS
<1>3. PICK z : z = Do("clear_modified", h)
  OBVIOUS
<1>4. /\ x.do = "flush_modified" /\ guard' = guard /\ ops' = ops
      /\ UNCHANGED <<slots, parent, index, live, active, wasActive, pendMod, pendAdd, unsaved, dirty>>
      /\ owed' = owed \ ({h} \X pendMod[h])
      /\ pendMod[h] = {} => agenda' = <<>> \o t
      /\ pendMod[h] # {} => agenda' = <<Tell(h, pendMod[h]), z>> \o t
  BY <1>1, <1>2, <1>3 DEF FlushModified, Doing, Continue, On, Runs, tree, activity, saving
<1>5. /\ x \in Entries /\ t \in Seq(Entries) /\ Stacked(t) /\ Above(x, t) /\ h \in Handles /\ x \notin Guards
      /\ Elements(t) \subseteq Entries
  BY <1>1, <1>2, <1>4, Following
<1>6. x \in FlushWork
  BY <1>4, <1>5, MadeFlush
<1>7. NoClears(t) /\ HasUnguard(t)
  BY <1>5, <1>6, Below
<1>8. pendMod \in [Handles -> SUBSET Bits] /\ pendAdd \in [Handles -> Seq(Nat)]
  BY DEF IInv, OwedInv, NewsTypes
<1>9. z \in Entries /\ z.do = "clear_modified" /\ z.on = h
  <2>1. PICK what : what = "clear_modified"
    OBVIOUS
  <2>2. what \in Steps
    BY <2>1 DEF Steps
  <2>3. z \in Entries /\ z.do = what /\ z.on = h
    BY <1>3, <1>5, <2>1, <2>2, MadeDo
  <2> QED BY <2>1, <2>3
<1>10. z \in FlushWork /\ z \notin Guards
  BY <1>9, MadeClear
<1>11. Above(z, t)
  BY <1>5, <1>7, <1>10, FlushAbove
<1>12. \E N : Onto(agenda', N, t) /\ \A e \in N : e = z \/ e.do = "callback"
  <2>1. CASE pendMod[h] = {}
    <3>1. PICK N : N = {}
      OBVIOUS
    <3>2. Onto(agenda', N, t)
      BY <1>4, <1>5, <2>1, <3>1, OntoNone
    <3> QED BY <3>1, <3>2
  <2>2. CASE pendMod[h] # {}
    <3>1. PICK y : y = Tell(h, pendMod[h])
      OBVIOUS
    <3>2. pendMod[h] \in SUBSET AnyNews
      <4>1. Bits \subseteq AnyNews
        BY DEF Bits, AnyNews, News, Publisher, Child
      <4> QED BY <1>5, <1>8, <4>1
    <3>3. y \in Entries /\ y.do = "callback"
      BY <1>5, <3>1, <3>2, MadeTell
    <3>4. Plain(y) /\ y \notin Guards
      BY <3>3, MadePlain
    <3>5. agenda' = <<y, z>> \o t
      BY <1>4, <2>2, <3>1
    <3>6. Onto(agenda', {y, z}, t)
      BY <1>5, <1>9, <1>10, <1>11, <3>3, <3>4, <3>5, OntoTwo
    <3> QED BY <3>3, <3>6
  <2> QED BY <2>1, <2>2
<1>13. PICK N : Onto(agenda', N, t) /\ \A e \in N : e = z \/ e.do = "callback"
  BY <1>12
<1>14. StackInv' /\ ToDo' = N \cup Elements(t)
  BY <1>1, <1>4, <1>5, <1>13, ContinuesWith
<1>15. \A e \in N : EntryFits(e) /\ e.do # "vacate"
  BY <1>9, <1>13 DEF EntryFits
<1>16. wasActive' \in [Handles -> BOOLEAN]
  BY <1>4 DEF IInv, TreeInv, TreeTypes
<1>17. /\ OwedInv' => IInv'
       /\ ToDo' \subseteq ToDo \cup N /\ \A e \in ToDo : e # x => e \in ToDo'
  <2>1. x.do # "deactivate" /\ x.do # "cascade" /\ x.do # "modified" /\ x.do # "bubble"
    BY <1>4
  <2> QED BY <1>1, <1>4, <1>14, <1>15, <1>16, <2>1, NewsOnly
<1>18. \A o \in owed' : o \in owed /\ ~(o[1] = h /\ o[2] \in Bits)
  <2>1. SUFFICES ASSUME NEW o \in owed', o[1] = h, o[2] \in Bits PROVE FALSE
    BY <1>4
  <2>2. o \in owed /\ o[2] \in pendMod[h]
    BY <1>4, <2>1 DEF IInv, OwedInv, NewsNoted
  <2>3. o \in Handles \X (Bits \cup {Added(i) : i \in 1..ops})
    BY <2>2 DEF IInv, OwedInv, NewsTypes
  <2>4. o = <<o[1], o[2]>>
    BY <2>3
  <2> QED BY <1>4, <2>1, <2>2, <2>4
<1>19. \A e \in ToDo' : e.do = "clear_modified" \/ e.do = "clear_added" => e = z
  <2>1. ASSUME NEW e \in Elements(t) PROVE e.do # "clear_modified" /\ e.do # "clear_added"
    <3>1. e \in Entries /\ e \notin Clears
      BY <1>5, <1>7 DEF NoClears
    <3> QED BY <3>1, Kinds
  <2> QED BY <1>13, <1>14, <2>1
<1>20. OwedInv'
  <2>1. Flushing' => Flushing
    BY <1>9, <1>13, <1>17, FlushingToDo
  <2>2. \A o \in owed' : /\ o[2] \in Bits => o[2] \in pendMod'[o[1]]
                         /\ o[2] \notin Bits => pendAdd'[o[1]] = pendAdd[o[1]]
    BY <1>4, <1>18 DEF IInv, OwedInv, NewsNoted
  <2>3. \A o \in owed' : \A e \in ToDo' :
           /\ o[2] \in Bits => ~(e.do = "clear_modified" /\ e.on = o[1])
           /\ o[2] \notin Bits => ~(e.do = "clear_added" /\ e.on = o[1])
    BY <1>9, <1>18, <1>19
  <2>4. guard' = 0 \/ Flushing' =>
          \A o \in owed' : InTree(o[1]) => \E e \in ToDo' : Told(e, o)
    <3>1. SUFFICES ASSUME guard' = 0 \/ Flushing', NEW o \in owed', InTree(o[1])
                   PROVE  \E e \in ToDo' : Told(e, o)
      OBVIOUS
    <3>2. PICK e \in ToDo : Told(e, o)
      BY <1>4, <1>18, <2>1, <3>1 DEF IInv, OwedInv, FlushDue
    <3>3. e # x
      BY <1>2, <1>4, <1>18, <3>1, <3>2 DEF Told, Visited
    <3> QED BY <1>17, <3>2, <3>3
  <2>5. owed' \subseteq owed /\ \A g \in Handles : Elements(pendAdd'[g]) \subseteq Elements(pendAdd[g])
    BY <1>4
  <2> QED BY <1>4, <1>8, <2>1, <2>2, <2>3, <2>4, <2>5, OwedLess DEF IInv
<1> QED BY <1>17, <1>20

LEMMA ClearModifiedStep == ASSUME IInv, ClearModified PROVE IInv'
<1>1. PICK x, t : Runs(x, t)
  BY Running DEF ClearModified, Doing
<1>2. PICK h : h = x.on
  OBVIOUS
<1>3. /\ x.do = "clear_modified" /\ guard' = guard /\ ops' = ops
      /\ UNCHANGED <<slots, parent, index, live, active, wasActive, pendAdd, owed, unsaved, dirty>>
      /\ pendMod' = [pendMod EXCEPT ![h] = {}] /\ agenda' = <<>> \o t
  BY <1>1, <1>2 DEF ClearModified, Doing, Continue, On, Runs, tree, activity, saving
<1>4. /\ x \in Entries /\ t \in Seq(Entries) /\ Stacked(t) /\ h \in Handles /\ x \notin Guards
  BY <1>1, <1>2, <1>3, Following
<1>5. PICK N : N = {}
  OBVIOUS
<1>6. Onto(agenda', N, t)
  BY <1>3, <1>4, <1>5, OntoNone
<1>7. StackInv' /\ ToDo' = N \cup Elements(t)
  BY <1>1, <1>3, <1>4, <1>6, ContinuesWith
<1>8. wasActive' \in [Handles -> BOOLEAN]
  BY <1>3 DEF IInv, TreeInv, TreeTypes
<1>9. /\ OwedInv' => IInv'
      /\ ToDo' \subseteq ToDo /\ \A e \in ToDo : e # x => e \in ToDo'
  <2>1. x.do # "deactivate" /\ x.do # "cascade" /\ x.do # "modified" /\ x.do # "bubble"
    BY <1>3
  <2>2. \A e \in N : EntryFits(e) /\ e.do # "vacate"
    BY <1>5
  <2>3. /\ OwedInv' => IInv'
        /\ ToDo' \subseteq ToDo \cup N /\ \A e \in ToDo : e # x => e \in ToDo'
    BY <1>1, <1>3, <1>7, <1>8, <2>1, <2>2, NewsOnly
  <2> QED BY <1>5, <2>3
<1>10. OwedInv'
  <2>1. Flushing' => Flushing
    BY <1>9, FlushingToDo
  <2>2. pendMod \in [Handles -> SUBSET Bits] /\ pendAdd \in [Handles -> Seq(Nat)]
    BY DEF IInv, OwedInv, NewsTypes
  <2>3. pendMod' \in [Handles -> SUBSET Bits] /\ pendAdd' \in [Handles -> Seq(Nat)]
    BY <1>3, <1>4, <2>2
  <2>4. \A o \in owed : ~(o[1] = h /\ o[2] \in Bits)
    <3>1. x \in ToDo /\ x.on = h
      BY <1>1, <1>2 DEF Runs
    <3> QED BY <1>3, <3>1 DEF IInv, OwedInv, NewsNoted
  <2>5. \A o \in owed' : /\ o[2] \in Bits => o[2] \in pendMod'[o[1]]
                         /\ o[2] \notin Bits => pendAdd'[o[1]] = pendAdd[o[1]]
    <3>1. \A g \in Handles : g # h => pendMod'[g] = pendMod[g]
      BY <1>3, <1>4, <2>2
    <3>2. \A o \in owed : o[1] \in Handles /\ (o[2] \in Bits => o[2] \in pendMod[o[1]])
      BY DEF IInv, OwedInv, NewsTypes, NewsNoted
    <3> QED BY <1>3, <2>4, <3>1, <3>2
  <2>6. \A o \in owed' : \A e \in ToDo' :
           /\ o[2] \in Bits => ~(e.do = "clear_modified" /\ e.on = o[1])
           /\ o[2] \notin Bits => ~(e.do = "clear_added" /\ e.on = o[1])
    BY <1>3, <1>9 DEF IInv, OwedInv, NewsNoted
  <2>7. guard' = 0 \/ Flushing' =>
          \A o \in owed' : InTree(o[1]) => \E e \in ToDo' : Told(e, o)
    <3>1. SUFFICES ASSUME guard' = 0 \/ Flushing', NEW o \in owed', InTree(o[1])
                   PROVE  \E e \in ToDo' : Told(e, o)
      OBVIOUS
    <3>2. PICK e \in ToDo : Told(e, o)
      BY <1>3, <2>1, <3>1 DEF IInv, OwedInv, FlushDue
    <3>3. e # x
      BY <1>3, <3>2 DEF Told, Visited
    <3> QED BY <1>9, <3>2, <3>3
  <2>8. owed' \subseteq owed /\ \A g \in Handles : Elements(pendAdd'[g]) \subseteq Elements(pendAdd[g])
    BY <1>3
  <2> QED BY <1>3, <2>1, <2>3, <2>5, <2>6, <2>7, <2>8, OwedLess DEF IInv
<1> QED BY <1>9, <1>10

LEMMA FlushAddedStep == ASSUME IInv, FlushAdded PROVE IInv'
<1>1. PICK x, t : Runs(x, t)
  BY Running DEF FlushAdded, Doing
<1>2. PICK h : h = x.on
  OBVIOUS
<1>3. PICK news : news = {Added(pendAdd[h][i]) : i \in DOMAIN pendAdd[h]}
  OBVIOUS
<1>4. PICK z : z = Do("clear_added", h)
  OBVIOUS
<1>5. /\ x.do = "flush_added" /\ guard' = guard /\ ops' = ops
      /\ UNCHANGED <<slots, parent, index, live, active, wasActive, pendMod, pendAdd, unsaved, dirty>>
      /\ owed' = owed \ ({h} \X news)
      /\ news = {} => agenda' = <<>> \o t
      /\ news # {} => agenda' = <<Tell(h, news), z>> \o t
  BY <1>1, <1>2, <1>3, <1>4 DEF FlushAdded, Doing, Continue, On, Runs, tree, activity, saving
<1>6. /\ x \in Entries /\ t \in Seq(Entries) /\ Stacked(t) /\ Above(x, t) /\ h \in Handles /\ x \notin Guards
      /\ Elements(t) \subseteq Entries
  BY <1>1, <1>2, <1>5, Following
<1>7. x \in FlushWork
  BY <1>5, <1>6, MadeFlush
<1>8. NoClears(t) /\ HasUnguard(t)
  BY <1>6, <1>7, Below
<1>9. pendMod \in [Handles -> SUBSET Bits] /\ pendAdd \in [Handles -> Seq(Nat)]
  BY DEF IInv, OwedInv, NewsTypes
<1>10. z \in Entries /\ z.do = "clear_added" /\ z.on = h
  <2>1. PICK what : what = "clear_added"
    OBVIOUS
  <2>2. what \in Steps
    BY <2>1 DEF Steps
  <2>3. z \in Entries /\ z.do = what /\ z.on = h
    BY <1>4, <1>6, <2>1, <2>2, MadeDo
  <2> QED BY <2>1, <2>3
<1>11. z \in FlushWork /\ z \notin Guards
  BY <1>10, MadeClear
<1>12. Above(z, t)
  BY <1>6, <1>8, <1>11, FlushAbove
<1>13. \E N : Onto(agenda', N, t) /\ \A e \in N : e = z \/ e.do = "callback"
  <2>1. CASE news = {}
    <3>1. PICK N : N = {}
      OBVIOUS
    <3>2. Onto(agenda', N, t)
      BY <1>5, <1>6, <2>1, <3>1, OntoNone
    <3> QED BY <3>1, <3>2
  <2>2. CASE news # {}
    <3>1. PICK y : y = Tell(h, news)
      OBVIOUS
    <3>2. news \in SUBSET AnyNews
      <4>1. \A i \in DOMAIN pendAdd[h] : pendAdd[h][i] \in Nat
        BY <1>6, <1>9
      <4> QED BY <1>3, <4>1 DEF AnyNews
    <3>3. y \in Entries /\ y.do = "callback"
      BY <1>6, <3>1, <3>2, MadeTell
    <3>4. Plain(y) /\ y \notin Guards
      BY <3>3, MadePlain
    <3>5. agenda' = <<y, z>> \o t
      BY <1>5, <2>2, <3>1
    <3>6. Onto(agenda', {y, z}, t)
      BY <1>6, <1>10, <1>11, <1>12, <3>3, <3>4, <3>5, OntoTwo
    <3> QED BY <3>3, <3>6
  <2> QED BY <2>1, <2>2
<1>14. PICK N : Onto(agenda', N, t) /\ \A e \in N : e = z \/ e.do = "callback"
  BY <1>13
<1>15. StackInv' /\ ToDo' = N \cup Elements(t)
  BY <1>1, <1>5, <1>6, <1>14, ContinuesWith
<1>16. \A e \in N : EntryFits(e) /\ e.do # "vacate"
  BY <1>10, <1>14 DEF EntryFits
<1>17. wasActive' \in [Handles -> BOOLEAN]
  BY <1>5 DEF IInv, TreeInv, TreeTypes
<1>18. /\ OwedInv' => IInv'
       /\ ToDo' \subseteq ToDo \cup N /\ \A e \in ToDo : e # x => e \in ToDo'
  <2>1. x.do # "deactivate" /\ x.do # "cascade" /\ x.do # "modified" /\ x.do # "bubble"
    BY <1>5
  <2> QED BY <1>1, <1>5, <1>15, <1>16, <1>17, <2>1, NewsOnly
<1>19. \A o \in owed' : o \in owed /\ ~(o[1] = h /\ o[2] \notin Bits)
  <2>1. SUFFICES ASSUME NEW o \in owed', o[1] = h, o[2] \notin Bits PROVE FALSE
    BY <1>5
  <2>2. o \in owed /\ o[2] \in news
    <3>1. o \in owed
      BY <1>5
    <3>2. PICK i \in Elements(pendAdd[h]) : o[2] = Added(i)
      BY <2>1, <3>1 DEF IInv, OwedInv, NewsNoted
    <3> QED BY <1>3, <3>1, <3>2 DEF Elements
  <2>3. o \in Handles \X (Bits \cup {Added(i) : i \in 1..ops})
    BY <2>2 DEF IInv, OwedInv, NewsTypes
  <2>4. o = <<o[1], o[2]>>
    BY <2>3
  <2> QED BY <1>5, <2>1, <2>2, <2>4
<1>20. \A e \in ToDo' : e.do = "clear_modified" \/ e.do = "clear_added" => e = z
  <2>1. ASSUME NEW e \in Elements(t) PROVE e.do # "clear_modified" /\ e.do # "clear_added"
    <3>1. e \in Entries /\ e \notin Clears
      BY <1>6, <1>8 DEF NoClears
    <3> QED BY <3>1, Kinds
  <2> QED BY <1>14, <1>15, <2>1
<1>21. OwedInv'
  <2>1. Flushing' => Flushing
    BY <1>10, <1>14, <1>18, FlushingToDo
  <2>2. \A o \in owed' : /\ o[2] \in Bits => o[2] \in pendMod'[o[1]]
                         /\ o[2] \notin Bits => pendAdd'[o[1]] = pendAdd[o[1]]
    BY <1>5, <1>19 DEF IInv, OwedInv, NewsNoted
  <2>3. \A o \in owed' : \A e \in ToDo' :
           /\ o[2] \in Bits => ~(e.do = "clear_modified" /\ e.on = o[1])
           /\ o[2] \notin Bits => ~(e.do = "clear_added" /\ e.on = o[1])
    BY <1>10, <1>19, <1>20
  <2>4. guard' = 0 \/ Flushing' =>
          \A o \in owed' : InTree(o[1]) => \E e \in ToDo' : Told(e, o)
    <3>1. SUFFICES ASSUME guard' = 0 \/ Flushing', NEW o \in owed', InTree(o[1])
                   PROVE  \E e \in ToDo' : Told(e, o)
      OBVIOUS
    <3>2. PICK e \in ToDo : Told(e, o)
      BY <1>5, <1>19, <2>1, <3>1 DEF IInv, OwedInv, FlushDue
    <3>3. e # x
      BY <1>2, <1>5, <1>19, <3>1, <3>2 DEF Told, Visited
    <3> QED BY <1>18, <3>2, <3>3
  <2>5. owed' \subseteq owed /\ \A g \in Handles : Elements(pendAdd'[g]) \subseteq Elements(pendAdd[g])
    BY <1>5
  <2> QED BY <1>5, <1>9, <2>1, <2>2, <2>3, <2>4, <2>5, OwedLess DEF IInv
<1> QED BY <1>18, <1>21

LEMMA ClearAddedStep == ASSUME IInv, ClearAdded PROVE IInv'
<1>1. PICK x, t : Runs(x, t)
  BY Running DEF ClearAdded, Doing
<1>2. PICK h : h = x.on
  OBVIOUS
<1>3. /\ x.do = "clear_added" /\ guard' = guard /\ ops' = ops
      /\ UNCHANGED <<slots, parent, index, live, active, wasActive, pendMod, owed, unsaved, dirty>>
      /\ pendAdd' = [pendAdd EXCEPT ![h] = <<>>] /\ agenda' = <<>> \o t
  BY <1>1, <1>2 DEF ClearAdded, Doing, Continue, On, Runs, tree, activity, saving
<1>4. /\ x \in Entries /\ t \in Seq(Entries) /\ Stacked(t) /\ h \in Handles /\ x \notin Guards
  BY <1>1, <1>2, <1>3, Following
<1>5. PICK N : N = {}
  OBVIOUS
<1>6. Onto(agenda', N, t)
  BY <1>3, <1>4, <1>5, OntoNone
<1>7. StackInv' /\ ToDo' = N \cup Elements(t)
  BY <1>1, <1>3, <1>4, <1>6, ContinuesWith
<1>8. wasActive' \in [Handles -> BOOLEAN]
  BY <1>3 DEF IInv, TreeInv, TreeTypes
<1>9. /\ OwedInv' => IInv'
      /\ ToDo' \subseteq ToDo /\ \A e \in ToDo : e # x => e \in ToDo'
  <2>1. x.do # "deactivate" /\ x.do # "cascade" /\ x.do # "modified" /\ x.do # "bubble"
    BY <1>3
  <2>2. \A e \in N : EntryFits(e) /\ e.do # "vacate"
    BY <1>5
  <2>3. /\ OwedInv' => IInv'
        /\ ToDo' \subseteq ToDo \cup N /\ \A e \in ToDo : e # x => e \in ToDo'
    BY <1>1, <1>3, <1>7, <1>8, <2>1, <2>2, NewsOnly
  <2> QED BY <1>5, <2>3
<1>10. OwedInv'
  <2>1. Flushing' => Flushing
    BY <1>9, FlushingToDo
  <2>2. pendMod \in [Handles -> SUBSET Bits] /\ pendAdd \in [Handles -> Seq(Nat)]
    BY DEF IInv, OwedInv, NewsTypes
  <2>3. pendMod' \in [Handles -> SUBSET Bits] /\ pendAdd' \in [Handles -> Seq(Nat)]
    BY <1>3, <1>4, <2>2
  <2>4. \A o \in owed : ~(o[1] = h /\ o[2] \notin Bits)
    <3>1. x \in ToDo /\ x.on = h
      BY <1>1, <1>2 DEF Runs
    <3> QED BY <1>3, <3>1 DEF IInv, OwedInv, NewsNoted
  <2>5. \A o \in owed' : /\ o[2] \in Bits => o[2] \in pendMod'[o[1]]
                         /\ o[2] \notin Bits => pendAdd'[o[1]] = pendAdd[o[1]]
    <3>1. \A g \in Handles : g # h => pendAdd'[g] = pendAdd[g]
      BY <1>3, <1>4, <2>2
    <3>2. \A o \in owed : o[1] \in Handles /\ (o[2] \in Bits => o[2] \in pendMod[o[1]])
      BY DEF IInv, OwedInv, NewsTypes, NewsNoted
    <3> QED BY <1>3, <2>4, <3>1, <3>2
  <2>6. \A o \in owed' : \A e \in ToDo' :
           /\ o[2] \in Bits => ~(e.do = "clear_modified" /\ e.on = o[1])
           /\ o[2] \notin Bits => ~(e.do = "clear_added" /\ e.on = o[1])
    BY <1>3, <1>9 DEF IInv, OwedInv, NewsNoted
  <2>7. guard' = 0 \/ Flushing' =>
          \A o \in owed' : InTree(o[1]) => \E e \in ToDo' : Told(e, o)
    <3>1. SUFFICES ASSUME guard' = 0 \/ Flushing', NEW o \in owed', InTree(o[1])
                   PROVE  \E e \in ToDo' : Told(e, o)
      OBVIOUS
    <3>2. PICK e \in ToDo : Told(e, o)
      BY <1>3, <2>1, <3>1 DEF IInv, OwedInv, FlushDue
    <3>3. e # x
      BY <1>3, <3>2 DEF Told, Visited
    <3> QED BY <1>9, <3>2, <3>3
  <2>8. owed' \subseteq owed /\ \A g \in Handles : Elements(pendAdd'[g]) \subseteq Elements(pendAdd[g])
    <3>1. pendAdd'[h] = <<>> /\ \A g \in Handles : g # h => pendAdd'[g] = pendAdd[g]
      BY <1>3, <1>4, <2>2
    <3> QED BY <1>3, <3>1, ElementsEmpty
  <2> QED BY <1>3, <2>1, <2>3, <2>5, <2>6, <2>7, <2>8, OwedLess DEF IInv
<1> QED BY <1>9, <1>10

LEMMA FlushActiveStep == ASSUME IInv, FlushActive PROVE IInv'
<1>1. PICK x, t : Runs(x, t)
  BY Running DEF FlushActive, Doing
<1>2. PICK h : h = x.on
  OBVIOUS
<1>3. PICK y : y = Tell(h, {<<"deactivated", 0>>})
  OBVIOUS
<1>4. /\ x.do = "flush_active" /\ guard' = guard /\ ops' = ops
      /\ UNCHANGED <<slots, parent, index, live, active, pendMod, pendAdd, owed, unsaved, dirty>>
      /\ wasActive' = [wasActive EXCEPT ![h] = active[h]]
      /\ agenda' = <<>> \o t \/ agenda' = <<y>> \o t
  BY <1>1, <1>2, <1>3 DEF FlushActive, Doing, Continue, On, Runs, tree, pending, saving
<1>5. /\ x \in Entries /\ t \in Seq(Entries) /\ Stacked(t) /\ h \in Handles /\ x \notin Guards
  BY <1>1, <1>2, <1>4, Following
<1>6. y \in Entries /\ y.do = "callback"
  <2>1. {<<"deactivated", 0>>} \in SUBSET AnyNews
    BY DEF AnyNews, News
  <2> QED BY <1>3, <1>5, <2>1, MadeTell
<1>7. \E N : Onto(agenda', N, t) /\ \A e \in N : e.do = "callback"
  <2>1. CASE agenda' = <<>> \o t
    <3>1. PICK N : N = {}
      OBVIOUS
    <3>2. Onto(agenda', N, t)
      BY <1>5, <2>1, <3>1, OntoNone
    <3> QED BY <3>1, <3>2
  <2>2. CASE agenda' = <<y>> \o t
    <3>1. Plain(y) /\ y \notin Guards
      BY <1>6, MadePlain
    <3>2. Above(y, t)
      BY <1>5, <1>6, <3>1, PlainAbove
    <3>3. Onto(agenda', {y}, t)
      BY <1>5, <1>6, <2>2, <3>1, <3>2, OntoOne
    <3> QED BY <1>6, <3>3
  <2> QED BY <1>4, <2>1, <2>2
<1>8. PICK N : Onto(agenda', N, t) /\ \A e \in N : e.do = "callback"
  BY <1>7
<1>9. StackInv' /\ ToDo' = N \cup Elements(t)
  BY <1>1, <1>4, <1>5, <1>8, ContinuesWith
<1>10. wasActive' \in [Handles -> BOOLEAN]
  <2>1. wasActive \in [Handles -> BOOLEAN] /\ active \in [Handles -> BOOLEAN]
    BY DEF IInv, TreeInv, TreeTypes
  <2> QED BY <1>4, <1>5, <2>1
<1>11. x.do # "deactivate" /\ x.do # "cascade" /\ x.do # "modified" /\ x.do # "bubble"
  BY <1>4
<1>12. \A o \in owed : ~Told(x, o)
  BY <1>4 DEF Told, Visited
<1>13. \A e \in N : EntryFits(e) /\ e.do # "vacate" /\ e.do # "clear_modified" /\ e.do # "clear_added"
  BY <1>8 DEF EntryFits
<1>14. guard' = 0 \/ Flushing' => guard = 0 \/ Flushing
  BY <1>1, <1>4, <1>8, <1>9, FlushingToDo DEF Runs
<1> QED BY <1>1, <1>4, <1>9, <1>10, <1>11, <1>12, <1>13, <1>14, Quiet

(* Where a handle of the tree is. *)
LEMMA InTreeAt ==
  ASSUME TreeInv, NEW h \in Handles, InTree(h)
  PROVE  \/ h = Root /\ parent[h] = NULL
         \/ parent[h] = Root /\ h # Root /\ index[h] \in DOMAIN slots[Root] /\ slots[Root][index[h]] = h
         \/ /\ parent[h] \in Collections /\ parent[h] # Root /\ parent[h] # NULL /\ h # Root
            /\ index[h] \in DOMAIN slots[parent[h]] /\ slots[parent[h]][index[h]] = h
            /\ parent[parent[h]] = Root
            /\ index[parent[h]] \in DOMAIN slots[Root] /\ slots[Root][index[parent[h]]] = parent[h]
<1>1. Root \in Handles /\ h # NULL
  BY NullIsNoHandle
<1>2. CASE h = Root
  BY <1>1, <1>2, Levels DEF TreeInv, TreeTypes
<1>3. CASE InSlot(Root, h) /\ parent[h] = Root /\ h # Root
  <2>1. index[h] \in DOMAIN slots[Root] /\ slots[Root][index[h]] = h
    BY <1>1, <1>3, HeldBelow
  <2> QED BY <1>3, <2>1
<1>4. CASE /\ parent[h] \in Collections /\ parent[h] # Root
           /\ InSlot(parent[h], h)
           /\ InSlot(Root, parent[h]) /\ parent[parent[h]] = Root
  <2>1. parent[h] \in Handles /\ parent[h] # NULL
    BY <1>4, HandlesAssumption DEF Handles
  <2>2. index[h] \in DOMAIN slots[parent[h]] /\ slots[parent[h]][index[h]] = h /\ h \in ChildrenOf(parent[h])
    BY <1>1, <1>4, <2>1, HeldBelow
  <2>3. index[parent[h]] \in DOMAIN slots[Root] /\ slots[Root][index[parent[h]]] = parent[h]
    BY <1>1, <1>4, <2>1, HeldBelow
  <2>4. h # Root
    BY <2>1, <2>2, Levels
  <2> QED BY <1>4, <2>1, <2>2, <2>3, <2>4
<1> QED BY <1>2, <1>3, <1>4, TreeBelow

(* The rest of a flush step, when the news stays as it is.                 *)
LEMMA FlushGoesOn ==
  ASSUME IInv, NEW x, NEW t, Runs(x, t), StackInv', NEW N, ToDo' = N \cup Elements(t),
         x.do = "flush" \/ x.do = "flush_children",
         UNCHANGED <<slots, parent, index, live, active, wasActive, pendMod, pendAdd, owed>>,
         UNCHANGED <<unsaved, dirty, ops, guard>>,
         \A e \in N : /\ EntryFits(e) /\ e.do # "vacate" /\ e.do # "unguard"
                      /\ e.do # "clear_modified" /\ e.do # "clear_added",
         \A o \in owed : InTree(o[1]) /\ Told(x, o) => \E e \in N : Told(e, o)
  PROVE  IInv'
<1>1. wasActive' \in [Handles -> BOOLEAN]
  BY DEF IInv, TreeInv, TreeTypes
<1>2. /\ OwedInv' => IInv'
      /\ ToDo' \subseteq ToDo \cup N /\ \A e \in ToDo : e # x => e \in ToDo'
  <2>1. x.do # "deactivate" /\ x.do # "cascade" /\ x.do # "modified" /\ x.do # "bubble"
    OBVIOUS
  <2>2. \A e \in N : EntryFits(e) /\ e.do # "vacate"
    OBVIOUS
  <2> QED BY <1>1, <2>1, <2>2, NewsOnly
<1>3. OwedInv'
  <2>1. Flushing' => Flushing
    BY <1>2, FlushingToDo
  <2>2. pendMod' \in [Handles -> SUBSET Bits] /\ pendAdd' \in [Handles -> Seq(Nat)]
    BY DEF IInv, OwedInv, NewsTypes
  <2>3. \A o \in owed' : /\ o[2] \in Bits => o[2] \in pendMod'[o[1]]
                         /\ o[2] \notin Bits => pendAdd'[o[1]] = pendAdd[o[1]]
    BY DEF IInv, OwedInv, NewsNoted
  <2>4. \A o \in owed' : \A e \in ToDo' :
           /\ o[2] \in Bits => ~(e.do = "clear_modified" /\ e.on = o[1])
           /\ o[2] \notin Bits => ~(e.do = "clear_added" /\ e.on = o[1])
    BY <1>2 DEF IInv, OwedInv, NewsNoted
  <2>5. guard' = 0 \/ Flushing' =>
          \A o \in owed' : InTree(o[1]) => \E e \in ToDo' : Told(e, o)
    <3>1. SUFFICES ASSUME guard' = 0 \/ Flushing', NEW o \in owed', InTree(o[1])
                   PROVE  \E e \in ToDo' : Told(e, o)
      OBVIOUS
    <3>2. PICK e \in ToDo : Told(e, o)
      BY <2>1, <3>1 DEF IInv, OwedInv, FlushDue
    <3> QED BY <1>2, <3>1, <3>2
  <2>6. owed' \subseteq owed /\ \A g \in Handles : Elements(pendAdd'[g]) \subseteq Elements(pendAdd[g])
    OBVIOUS
  <2> QED BY <2>1, <2>2, <2>3, <2>4, <2>5, <2>6, OwedLess DEF IInv
<1> QED BY <1>2, <1>3

LEMMA FlushStep == ASSUME IInv, Flush PROVE IInv'
<1>1. PICK x, t : Runs(x, t)
  BY Running DEF Flush, Doing
<1>2. PICK h : h = x.on
  OBVIOUS
<1>3. PICK c : c = DoAt("flush_children", h, 1)
  OBVIOUS
<1>4. PICK m : m = Do("flush_modified", h)
  OBVIOUS
<1>5. PICK a : a = Do("flush_added", h)
  OBVIOUS
<1>6. PICK d : d = Do("flush_active", h)
  OBVIOUS
<1>7. /\ x.do = "flush" /\ guard' = guard /\ ops' = ops
      /\ UNCHANGED <<slots, parent, index, live, active, wasActive, pendMod, pendAdd, owed>>
      /\ UNCHANGED <<unsaved, dirty>>
      /\ agenda' = <<c, m, a, d>> \o t
  BY <1>1, <1>2, <1>3, <1>4, <1>5, <1>6
     DEF Flush, Doing, Continue, On, Runs, tree, activity, pending, saving
<1>8. /\ x \in Entries /\ t \in Seq(Entries) /\ Stacked(t) /\ Above(x, t) /\ h \in Handles /\ x \notin Guards
  BY <1>1, <1>2, <1>7, Following
<1>9. NoClears(t) /\ HasUnguard(t)
  <2>1. x \in FlushWork
    BY <1>7, <1>8, MadeFlush
  <2> QED BY <1>8, <2>1, Below
<1>10. c \in Entries /\ c.do = "flush_children" /\ c.on = h /\ c.at = 1
  <2>1. PICK what : what = "flush_children"
    OBVIOUS
  <2>2. PICK k : k = 1
    OBVIOUS
  <2>3. what \in Steps /\ k \in Nat
    BY <2>1, <2>2 DEF Steps
  <2>4. c \in Entries /\ c.do = what /\ c.on = h /\ c.at = k
    BY <1>3, <1>8, <2>1, <2>2, <2>3, MadeAt
  <2> QED BY <2>1, <2>2, <2>4
<1>11. m \in Entries /\ m.do = "flush_modified" /\ m.on = h
  <2>1. PICK what : what = "flush_modified"
    OBVIOUS
  <2>2. what \in Steps
    BY <2>1 DEF Steps
  <2>3. m \in Entries /\ m.do = what /\ m.on = h
    BY <1>4, <1>8, <2>1, <2>2, MadeDo
  <2> QED BY <2>1, <2>3
<1>12. a \in Entries /\ a.do = "flush_added" /\ a.on = h
  <2>1. PICK what : what = "flush_added"
    OBVIOUS
  <2>2. what \in Steps
    BY <2>1 DEF Steps
  <2>3. a \in Entries /\ a.do = what /\ a.on = h
    BY <1>5, <1>8, <2>1, <2>2, MadeDo
  <2> QED BY <2>1, <2>3
<1>13. d \in Entries /\ d.do = "flush_active" /\ d.on = h
  <2>1. PICK what : what = "flush_active"
    OBVIOUS
  <2>2. what \in Steps
    BY <2>1 DEF Steps
  <2>3. d \in Entries /\ d.do = what /\ d.on = h
    BY <1>6, <1>8, <2>1, <2>2, MadeDo
  <2> QED BY <2>1, <2>3
<1>14. /\ c \in FlushWork /\ c \notin Clears /\ m \in FlushWork /\ m \notin Clears
       /\ a \in FlushWork /\ a \notin Clears /\ d \in FlushWork /\ d \notin Clears
  BY <1>10, <1>11, <1>12, <1>13, MadeFlush
<1>15. PICK r1 : r1 = <<d>> \o t
  OBVIOUS
<1>16. PICK r2 : r2 = <<a>> \o r1
  OBVIOUS
<1>17. PICK r3 : r3 = <<m>> \o r2
  OBVIOUS
<1>18. agenda' = <<c>> \o r3
  <2>1. <<c, m, a, d>> \o t = <<c>> \o (<<m>> \o (<<a>> \o (<<d>> \o t)))
    <3>1. c \in Entries /\ m \in Entries /\ a \in Entries /\ d \in Entries
      BY <1>10, <1>11, <1>12, <1>13
    <3>2. PICK u : u = <<c, m, a, d>>
      OBVIOUS
    <3>3. PICK v : v = <<m, a, d>>
      OBVIOUS
    <3>4. u \in Seq(Entries) /\ u # <<>> /\ c = Head(u) /\ v = Tail(u)
      BY <3>1, <3>2, <3>3
    <3>5. u \o t = <<c>> \o (v \o t)
      BY <1>8, <3>4, ConcatHead
    <3>6. \A s \in Seq(Entries) : <<m, a, d>> \o s = <<m>> \o (<<a>> \o (<<d>> \o s))
      BY <3>1, ThreeEntries
    <3>7. v \o t = <<m>> \o (<<a>> \o (<<d>> \o t))
      BY <1>8, <3>3, <3>6
    <3> QED BY <3>2, <3>5, <3>7
  <2> QED BY <1>7, <1>15, <1>16, <1>17, <2>1
<1>19. Onto(r1, {d}, t) /\ r1 \in Seq(Entries) /\ Stacked(r1) /\ NoClears(r1) /\ HasUnguard(r1)
  BY <1>8, <1>9, <1>13, <1>14, <1>15, OntoFlush
<1>20. Onto(r2, {a}, r1) /\ r2 \in Seq(Entries) /\ Stacked(r2) /\ NoClears(r2) /\ HasUnguard(r2)
  BY <1>12, <1>14, <1>16, <1>19, OntoFlush
<1>21. Onto(r3, {m}, r2) /\ r3 \in Seq(Entries) /\ Stacked(r3) /\ NoClears(r3) /\ HasUnguard(r3)
  BY <1>11, <1>14, <1>17, <1>20, OntoFlush
<1>22. Onto(agenda', {c}, r3)
  BY <1>10, <1>14, <1>18, <1>21, OntoFlush
<1>23. PICK N : N = {c} \cup ({m} \cup ({a} \cup {d}))
  OBVIOUS
<1>24. Onto(agenda', N, t)
  BY <1>19, <1>20, <1>21, <1>22, <1>23 DEF Onto
<1>25. StackInv' /\ ToDo' = N \cup Elements(t)
  BY <1>1, <1>7, <1>8, <1>24, ContinuesWith
<1>26. \A e \in N : e = c \/ e = m \/ e = a \/ e = d
  BY <1>23
<1>27. EntryFits(c)
  <2>1. Len(slots[h]) \in Nat
    BY <1>8 DEF IInv, TreeInv, TreeTypes
  <2> QED BY <1>10, <2>1 DEF EntryFits
<1>28. \A e \in N : /\ EntryFits(e) /\ e.do # "vacate" /\ e.do # "unguard"
                    /\ e.do # "clear_modified" /\ e.do # "clear_added"
  <2>1. EntryFits(m) /\ EntryFits(a) /\ EntryFits(d)
    BY <1>11, <1>12, <1>13 DEF EntryFits
  <2> QED BY <1>10, <1>11, <1>12, <1>13, <1>26, <1>27, <2>1
<1>29. \A o \in owed : InTree(o[1]) /\ Told(x, o) => \E e \in N : Told(e, o)
  <2>1. SUFFICES ASSUME NEW o \in owed, InTree(o[1]), Told(x, o) PROVE \E e \in N : Told(e, o)
    OBVIOUS
  <2>2. PICK g : g = o[1]
    OBVIOUS
  <2>3. g \in Handles /\ InTree(g)
    BY <2>1, <2>2 DEF IInv, OwedInv, NewsTypes
  <2>4. h = g \/ parent[g] = h \/ (parent[g] # NULL /\ parent[parent[g]] = h)
    BY <1>2, <1>7, <2>1, <2>2 DEF Told, Visited
  <2>5. CASE h = g
    <3>1. Told(m, o) \/ Told(a, o)
      BY <1>11, <1>12, <2>2, <2>5 DEF Told
    <3> QED BY <1>23, <3>1
  <2>6. CASE h # g
    <3>1. slots[Root] \in Seq(Handles \cup {NULL}) /\ Root \in Handles
      BY NullIsNoHandle DEF IInv, TreeInv, TreeTypes
    <3>2. parent[g] = h => 1 <= index[g]
      <4>1. SUFFICES ASSUME parent[g] = h PROVE 1 <= index[g]
        OBVIOUS
      <4>2. slots[h] \in Seq(Handles \cup {NULL}) /\ index[g] \in Nat
        BY <1>8, <2>3 DEF IInv, TreeInv, TreeTypes
      <4>3. index[g] \in DOMAIN slots[h]
        BY <1>8, <2>3, <4>1, InTreeAt, NullIsNoHandle DEF IInv
      <4> QED BY <4>2, <4>3
    <3>3. parent[g] # h => 1 <= index[parent[g]] /\ parent[g] # NULL /\ parent[parent[g]] = h
      <4>1. SUFFICES ASSUME parent[g] # h PROVE 1 <= index[parent[g]] /\ parent[g] # NULL /\ parent[parent[g]] = h
        OBVIOUS
      <4>2. parent[g] # NULL /\ parent[parent[g]] = h
        BY <2>4, <2>6, <4>1
      <4>3. parent[Root] = NULL
        BY <3>1, Levels DEF IInv, TreeInv, TreeTypes
      <4>4. index[parent[g]] \in DOMAIN slots[Root] /\ parent[g] \in Handles
        BY <1>8, <2>3, <4>2, <4>3, InTreeAt, NullIsNoHandle DEF IInv, Handles
      <4>5. index[parent[g]] \in Nat
        BY <4>4 DEF IInv, TreeInv, TreeTypes
      <4> QED BY <3>1, <4>2, <4>4, <4>5
    <3>4. Visited(c, g)
      BY <1>10, <3>2, <3>3 DEF Visited
    <3> QED BY <1>23, <2>2, <3>4 DEF Told
  <2> QED BY <2>5, <2>6
<1> QED BY <1>1, <1>7, <1>25, <1>28, <1>29, FlushGoesOn

LEMMA FlushChildrenStep == ASSUME IInv, FlushChildren PROVE IInv'
<1>1. PICK x, t : Runs(x, t)
  BY Running DEF FlushChildren, Doing
<1>2. PICK h, i : h = x.on /\ i = Seek(x.on, x.at)
  OBVIOUS
<1>3. PICK y : y = Do("flush", slots[h][i])
  OBVIOUS
<1>4. PICK z : z = DoAt("flush_children", h, i + 1)
  OBVIOUS
<1>5. /\ x.do = "flush_children" /\ guard' = guard /\ ops' = ops
      /\ UNCHANGED <<slots, parent, index, live, active, wasActive, pendMod, pendAdd, owed>>
      /\ UNCHANGED <<unsaved, dirty>>
      /\ i > Len(slots[h]) => agenda' = <<>> \o t
      /\ ~(i > Len(slots[h])) => agenda' = <<y, z>> \o t
  BY <1>1, <1>2, <1>3, <1>4
     DEF FlushChildren, ForChildren, Doing, Continue, On, At, Runs, tree, activity, pending, saving
<1>6. /\ x \in Entries /\ t \in Seq(Entries) /\ Stacked(t) /\ Above(x, t) /\ h \in Handles /\ x \notin Guards
      /\ x.at \in Nat
  BY <1>1, <1>2, <1>5, Following
<1>7. slots[h] \in Seq(Handles \cup {NULL}) /\ Len(slots[h]) \in Nat
  BY <1>6 DEF IInv, TreeInv, TreeTypes
<1>8. /\ i \in Nat /\ 1 <= x.at /\ x.at <= i /\ i <= Len(slots[h]) + 1
      /\ i <= Len(slots[h]) => slots[h][i] # NULL
      /\ \A k \in Nat : x.at <= k /\ k < i => slots[h][k] = NULL
  <2>1. 1 <= x.at /\ x.at <= Len(slots[h]) + 1
    BY <1>1, <1>2, <1>5 DEF Runs, EntryFits
  <2> QED BY <1>2, <1>6, <2>1, Seeking DEF IInv
<1>9. NoClears(t) /\ HasUnguard(t)
  <2>1. x \in FlushWork
    BY <1>5, <1>6, MadeFlush
  <2> QED BY <1>6, <2>1, Below
<1>10. ~(i > Len(slots[h])) =>
         /\ y \in Entries /\ y.do = "flush" /\ y.on = slots[h][i] /\ z \in Entries /\ z.do = "flush_children"
         /\ z.on = h /\ z.at = i + 1
  <2>1. SUFFICES ASSUME ~(i > Len(slots[h]))
                 PROVE  /\ y \in Entries /\ y.do = "flush" /\ y.on = slots[h][i]
                        /\ z \in Entries /\ z.do = "flush_children" /\ z.on = h /\ z.at = i + 1
    OBVIOUS
  <2>2. i \in DOMAIN slots[h] /\ slots[h][i] # NULL
    <3>1. i <= Len(slots[h]) /\ 1 <= i /\ i \in Nat
      BY <1>6, <1>7, <1>8, <2>1
    <3>2. DOMAIN slots[h] = 1..Len(slots[h])
      BY <1>7
    <3> QED BY <1>7, <1>8, <3>1, <3>2
  <2>3. slots[h][i] \in Handles
    BY <1>7, <2>2
  <2>4. PICK name : name = "flush"
    OBVIOUS
  <2>5. name \in Steps
    BY <2>4 DEF Steps
  <2>6. y \in Entries /\ y.do = name /\ y.on = slots[h][i]
    BY <1>3, <2>3, <2>4, <2>5, MadeDo
  <2>7. PICK what : what = "flush_children"
    OBVIOUS
  <2>8. what \in Steps /\ i + 1 \in Nat
    BY <1>8, <2>7 DEF Steps
  <2>9. z \in Entries /\ z.do = what /\ z.on = h /\ z.at = i + 1
    BY <1>4, <1>6, <2>7, <2>8, MadeAt
  <2> QED BY <2>4, <2>6, <2>7, <2>9
<1>11. \E N : /\ Onto(agenda', N, t) /\ (~(i > Len(slots[h])) => N = {y, z})
              /\ (i > Len(slots[h]) => N = {})
  <2>1. CASE i > Len(slots[h])
    <3>1. PICK N : N = {}
      OBVIOUS
    <3>2. Onto(agenda', N, t)
      BY <1>5, <1>6, <2>1, <3>1, OntoNone
    <3> QED BY <2>1, <3>1, <3>2
  <2>2. CASE ~(i > Len(slots[h]))
    <3>1. y \in FlushWork /\ y \notin Clears /\ z \in FlushWork /\ z \notin Clears
      BY <1>10, <2>2, MadeFlush
    <3>2. PICK r : r = <<z>> \o t
      OBVIOUS
    <3>3. Onto(r, {z}, t) /\ r \in Seq(Entries) /\ Stacked(r) /\ NoClears(r) /\ HasUnguard(r)
      BY <1>6, <1>9, <1>10, <2>2, <3>1, <3>2, OntoFlush
    <3>4. agenda' = <<y>> \o r
      <4>1. y \in Entries /\ z \in Entries /\ t \in Seq(Entries)
        BY <1>6, <1>10, <2>2
      <4>2. <<y, z>> \o t = <<y>> \o (<<z>> \o t)
        BY <4>1, ConcatTwo
      <4> QED BY <1>5, <2>2, <3>2, <4>2
    <3>5. Onto(agenda', {y}, r)
      BY <1>10, <2>2, <3>1, <3>3, <3>4, OntoFlush
    <3>6. Onto(agenda', {y, z}, t)
      BY <3>3, <3>5 DEF Onto
    <3> QED BY <2>2, <3>6
  <2> QED BY <2>1, <2>2
<1>12. PICK N : /\ Onto(agenda', N, t) /\ (~(i > Len(slots[h])) => N = {y, z})
                /\ (i > Len(slots[h]) => N = {})
  BY <1>11
<1>13. StackInv' /\ ToDo' = N \cup Elements(t)
  BY <1>1, <1>5, <1>6, <1>12, ContinuesWith
<1>14. \A e \in N : e.do = "flush" \/ (e = z /\ e.do = "flush_children" /\ ~(i > Len(slots[h])))
  BY <1>10, <1>12
<1>15. \A e \in N : /\ EntryFits(e) /\ e.do # "vacate" /\ e.do # "unguard"
                    /\ e.do # "clear_modified" /\ e.do # "clear_added"
  <2>1. ~(i > Len(slots[h])) => EntryFits(z)
    BY <1>7, <1>8, <1>10 DEF EntryFits
  <2>2. \A e \in N : EntryFits(e)
    BY <1>14, <2>1 DEF EntryFits
  <2> QED BY <1>14, <2>2
<1>16. ASSUME NEW k \in DOMAIN slots[h], x.at <= k, slots[h][k] # NULL
       PROVE  N = {y, z} /\ ~(i > Len(slots[h])) /\ (k = i \/ i + 1 <= k)
  <2>1. k \in Nat /\ k <= Len(slots[h])
    BY <1>7
  <2>2. i <= k
    BY <1>6, <1>8, <1>16, <2>1
  <2> QED BY <1>7, <1>8, <1>12, <2>1, <2>2
<1>17. \A o \in owed : InTree(o[1]) /\ Told(x, o) => \E e \in N : Told(e, o)
  <2>1. SUFFICES ASSUME NEW o \in owed, InTree(o[1]), Told(x, o) PROVE \E e \in N : Told(e, o)
    OBVIOUS
  <2>2. PICK g : g = o[1]
    OBVIOUS
  <2>3. g \in Handles /\ InTree(g)
    BY <2>1, <2>2 DEF IInv, OwedInv, NewsTypes
  <2>4. \/ parent[g] = h /\ x.at <= index[g]
        \/ parent[g] # NULL /\ parent[parent[g]] = h /\ x.at <= index[parent[g]]
    BY <1>2, <1>5, <2>1, <2>2 DEF Told, Visited
  <2>5. h # NULL /\ Root \in Handles /\ parent[Root] = NULL
    BY <1>6, NullIsNoHandle, Levels DEF IInv, TreeInv, TreeTypes
  <2>6. CASE parent[g] = h /\ x.at <= index[g]
    <3>1. index[g] \in DOMAIN slots[h] /\ slots[h][index[g]] = g /\ g # NULL
      BY <2>3, <2>5, <2>6, InTreeAt, NullIsNoHandle DEF IInv
    <3>2. N = {y, z} /\ ~(i > Len(slots[h])) /\ (index[g] = i \/ i + 1 <= index[g])
      BY <1>16, <2>6, <3>1
    <3>3. CASE index[g] = i
      <4>1. Visited(y, g)
        BY <1>10, <3>1, <3>2, <3>3 DEF Visited
      <4> QED BY <2>2, <3>2, <4>1 DEF Told
    <3>4. CASE i + 1 <= index[g]
      <4>1. Visited(z, g)
        BY <1>10, <2>6, <3>2, <3>4 DEF Visited
      <4> QED BY <2>2, <3>2, <4>1 DEF Told
    <3> QED BY <3>2, <3>3, <3>4
  <2>7. CASE parent[g] # NULL /\ parent[parent[g]] = h /\ x.at <= index[parent[g]]
    <3>1. PICK f : f = parent[g]
      OBVIOUS
    <3>2. index[f] \in DOMAIN slots[h] /\ slots[h][index[f]] = f /\ f # NULL
      BY <2>3, <2>5, <2>7, <3>1, InTreeAt DEF IInv
    <3>3. N = {y, z} /\ ~(i > Len(slots[h])) /\ (index[f] = i \/ i + 1 <= index[f])
      BY <1>16, <2>7, <3>1, <3>2
    <3>4. CASE index[f] = i
      <4>1. Visited(y, g)
        BY <1>10, <3>1, <3>2, <3>3, <3>4 DEF Visited
      <4> QED BY <2>2, <3>3, <4>1 DEF Told
    <3>5. CASE i + 1 <= index[f]
      <4>1. Visited(z, g)
        BY <1>10, <2>7, <3>1, <3>3, <3>5 DEF Visited
      <4> QED BY <2>2, <3>3, <4>1 DEF Told
    <3> QED BY <3>3, <3>4, <3>5
  <2> QED BY <2>4, <2>6, <2>7
<1> QED BY <1>1, <1>5, <1>13, <1>15, <1>17, FlushGoesOn
-----------------------------------------------------------------------------
LEMMA ToldByFlush ==
  ASSUME NEW e \in Entries, NEW o, Told(e, o)
  PROVE  e \in FlushWork
BY Kinds DEF Told, Visited, FlushWork

(* Below the end of the flush nothing of a flush is left. *)
LEMMA NoneBelow ==
  ASSUME NEW t \in Seq(Entries), Stacked(t), \A y \in Elements(t) : y \notin Unguards
  PROVE  \A y \in Elements(t) : y \in Entries /\ y \notin FlushWork
<1>1. Followed(t, FlushWork, Unguards)
  BY DEF Stacked
<1> QED BY <1>1 DEF Followed, Elements

LEMMA UnguardStep == ASSUME IInv, Unguard PROVE IInv'
<1>1. PICK x, t : Runs(x, t)
  BY Running DEF Unguard, Doing
<1>2. /\ x.do = "unguard" /\ guard' = guard - 1 /\ ops' = ops
      /\ UNCHANGED <<slots, parent, index, live, active, wasActive, pendMod, pendAdd, owed>>
      /\ UNCHANGED <<unsaved, dirty>>
      /\ agenda' = <<>> \o t
  BY <1>1 DEF Unguard, Doing, Continue, Runs, tree, activity, pending, saving
<1>3. /\ x \in Entries /\ t \in Seq(Entries) /\ Stacked(t) /\ Above(x, t)
  BY <1>1, Following
<1>4. PICK N : N = {}
  OBVIOUS
<1>5. agenda' = t /\ Onto(agenda', N, t)
  BY <1>2, <1>3, <1>4, OntoNone
<1>6. ToDo' = N \cup Elements(t)
  BY <1>5 DEF Onto, ToDo
<1>7. GuardInv'
  <2>1. x \in Guards
    BY <1>2, <1>3, Kinds
  <2>2. Tally(agenda, Guards) = Tally(t, Guards) + 1 /\ Tally(t, Guards) \in Nat
    BY <1>1, <2>1 DEF Runs, Takes
  <2>3. guard \in Nat /\ guard = Tally(agenda, Guards) /\ guard <= ops /\ ops \in Nat
    BY HandlesAssumption DEF IInv, StackInv, GuardInv, TreeInv, TreeTypes
  <2>4. guard' \in Nat /\ guard' = Tally(t, Guards) /\ guard' <= ops
    BY <1>2, <2>2, <2>3
  <2> QED BY <1>2, <1>5, <2>4 DEF GuardInv
<1>8. StackInv'
  BY <1>3, <1>5, <1>7 DEF StackInv
<1>9. wasActive' \in [Handles -> BOOLEAN]
  BY <1>2 DEF IInv, TreeInv, TreeTypes
<1>10. /\ OwedInv' => IInv'
       /\ ToDo' \subseteq ToDo /\ \A e \in ToDo : e # x => e \in ToDo'
  <2>1. x.do # "deactivate" /\ x.do # "cascade" /\ x.do # "modified" /\ x.do # "bubble"
    BY <1>2
  <2>2. \A e \in N : EntryFits(e) /\ e.do # "vacate"
    BY <1>4
  <2>3. /\ OwedInv' => IInv'
        /\ ToDo' \subseteq ToDo \cup N /\ \A e \in ToDo : e # x => e \in ToDo'
    BY <1>1, <1>2, <1>6, <1>8, <1>9, <2>1, <2>2, NewsOnly
  <2> QED BY <1>4, <2>3
<1>11. \A o \in owed : ~InTree(o[1])
  <2>1. Flushing
    BY <1>1, <1>2, FlushingToDo DEF Runs
  <2>2. \A y \in Elements(t) : y \in Entries /\ y \notin FlushWork
    <3>1. \A y \in Elements(t) : y \notin Unguards
      BY <1>2, <1>3, Below
    <3> QED BY <1>3, <3>1, NoneBelow
  <2>3. x \notin FlushWork
    BY <1>2, <1>3, Kinds DEF FlushWork
  <2>4. \A e \in ToDo : \A o \in owed : ~Told(e, o)
    BY <1>1, <1>3, <2>2, <2>3, ToldByFlush DEF Runs
  <2> QED BY <2>1, <2>4 DEF IInv, OwedInv, FlushDue
<1>12. OwedInv'
  <2>1. pendMod' \in [Handles -> SUBSET Bits] /\ pendAdd' \in [Handles -> Seq(Nat)]
    BY <1>2 DEF IInv, OwedInv, NewsTypes
  <2>2. \A o \in owed' : /\ o[2] \in Bits => o[2] \in pendMod'[o[1]]
                         /\ o[2] \notin Bits => pendAdd'[o[1]] = pendAdd[o[1]]
    BY <1>2 DEF IInv, OwedInv, NewsNoted
  <2>3. \A o \in owed' : \A e \in ToDo' :
           /\ o[2] \in Bits => ~(e.do = "clear_modified" /\ e.on = o[1])
           /\ o[2] \notin Bits => ~(e.do = "clear_added" /\ e.on = o[1])
    BY <1>2, <1>10 DEF IInv, OwedInv, NewsNoted
  <2>4. guard' = 0 \/ Flushing' =>
          \A o \in owed' : InTree(o[1]) => \E e \in ToDo' : Told(e, o)
    BY <1>2, <1>11
  <2>5. owed' \subseteq owed /\ \A g \in Handles : Elements(pendAdd'[g]) \subseteq Elements(pendAdd[g])
    BY <1>2
  <2> QED BY <1>2, <2>1, <2>2, <2>3, <2>4, <2>5, OwedLess DEF IInv
<1> QED BY <1>10, <1>12

(* A guard goes that is not the last one. *)
LEMMA ReleaseOneStep == ASSUME IInv, Release, guard # 1 PROVE IInv'
<1>1. PICK x, t : Runs(x, t)
  BY Running DEF Release
<1>2. /\ x.do = "scope" /\ guard' = guard - 1 /\ ops' = ops
      /\ UNCHANGED <<slots, parent, index, live, active, wasActive, pendMod, pendAdd, owed>>
      /\ UNCHANGED <<unsaved, dirty>>
      /\ agenda' = t
  BY <1>1 DEF Release, Runs, tree, activity, pending, saving
<1>3. /\ x \in Entries /\ t \in Seq(Entries) /\ Stacked(t)
  BY <1>1, Following
<1>4. PICK N : N = {}
  OBVIOUS
<1>5. ToDo' = N \cup Elements(t)
  BY <1>2, <1>4 DEF ToDo
<1>6. GuardInv' /\ guard' # 0
  <2>1. x \in Guards
    BY <1>2, <1>3, Kinds
  <2>2. Tally(agenda, Guards) = Tally(t, Guards) + 1 /\ Tally(t, Guards) \in Nat
    BY <1>1, <2>1 DEF Runs, Takes
  <2>3. guard \in Nat /\ guard = Tally(agenda, Guards) /\ guard <= ops /\ ops \in Nat
    BY HandlesAssumption DEF IInv, StackInv, GuardInv, TreeInv, TreeTypes
  <2>4. guard' \in Nat /\ guard' = Tally(t, Guards) /\ guard' <= ops /\ guard' # 0
    BY <1>2, <2>2, <2>3
  <2> QED BY <1>2, <2>4 DEF GuardInv
<1>7. StackInv'
  BY <1>2, <1>3, <1>6 DEF StackInv
<1>8. wasActive' \in [Handles -> BOOLEAN]
  BY <1>2 DEF IInv, TreeInv, TreeTypes
<1>9. x.do # "deactivate" /\ x.do # "cascade" /\ x.do # "modified" /\ x.do # "bubble"
  BY <1>2
<1>10. \A o \in owed : ~Told(x, o)
  BY <1>2 DEF Told, Visited
<1>11. \A e \in N : EntryFits(e) /\ e.do # "vacate" /\ e.do # "clear_modified" /\ e.do # "clear_added"
  BY <1>4
<1>12. guard' = 0 \/ Flushing' => guard = 0 \/ Flushing
  BY <1>1, <1>4, <1>5, <1>6, FlushingToDo DEF Runs
<1> QED BY <1>1, <1>2, <1>5, <1>7, <1>8, <1>9, <1>10, <1>11, <1>12, Quiet

(* The last guard goes: the flush begins. *)
LEMMA ReleaseLastStep == ASSUME IInv, Release, guard = 1 PROVE IInv'
<1>1. PICK x, t : Runs(x, t)
  BY Running DEF Release
<1>2. PICK f : f = Do("flush", Root)
  OBVIOUS
<1>3. PICK u : u = Do("unguard", Root)
  OBVIOUS
<1>4. /\ x.do = "scope" /\ guard' = 1 /\ ops' = ops
      /\ UNCHANGED <<slots, parent, index, live, active, wasActive, pendMod, pendAdd, owed>>
      /\ UNCHANGED <<unsaved, dirty>>
      /\ agenda' = <<f, u>> \o t
  BY <1>1, <1>2, <1>3 DEF Release, CountWhileFlushing, Runs, tree, activity, pending, saving
<1>5. /\ x \in Entries /\ t \in Seq(Entries) /\ Stacked(t) /\ Elements(t) \subseteq Entries
  BY <1>1, Following
<1>6. f \in Entries /\ f.do = "flush" /\ f.on = Root
  <2>1. PICK what : what = "flush"
    OBVIOUS
  <2>2. what \in Steps
    BY <2>1 DEF Steps
  <2>3. f \in Entries /\ f.do = what /\ f.on = Root
    BY <1>2, <2>1, <2>2, MadeDo, NullIsNoHandle
  <2> QED BY <2>1, <2>3
<1>7. u \in Entries /\ u.do = "unguard"
  <2>1. PICK what : what = "unguard"
    OBVIOUS
  <2>2. what \in Steps
    BY <2>1 DEF Steps
  <2>3. u \in Entries /\ u.do = what /\ u.on = Root
    BY <1>3, <2>1, <2>2, MadeDo, NullIsNoHandle
  <2> QED BY <2>1, <2>3
<1>8. Tally(t, Guards) = 0 /\ ops \in Nat /\ 1 <= ops
  <2>1. x \in Guards
    BY <1>4, <1>5, Kinds
  <2>2. Tally(agenda, Guards) = Tally(t, Guards) + 1 /\ Tally(t, Guards) \in Nat
    BY <1>1, <2>1 DEF Runs, Takes
  <2>3. guard = Tally(agenda, Guards) /\ guard <= ops /\ ops \in Nat
    BY HandlesAssumption DEF IInv, StackInv, GuardInv, TreeInv, TreeTypes
  <2> QED BY <2>2, <2>3
<1>9. \A y \in Elements(t) : y \notin Unguards /\ y \notin FlushWork
  <2>1. \A y \in Elements(t) : y \notin Guards
    BY <1>5, <1>8, TallyZero
  <2>2. \A y \in Elements(t) : y \notin Unguards
    BY <1>5, <2>1, Kinds
  <2> QED BY <1>5, <2>2, NoneBelow
<1>10. PICK r : r = <<u>> \o t
  OBVIOUS
<1>11. u \notin FlushWork /\ u \in Guards /\ u \in Unguards /\ u \notin Clears
  BY <1>7, Kinds DEF FlushWork
<1>12. Above(u, t)
  <2>1. \A y \in Elements(t) : <<u, y>> \in Order
    BY <1>5, <1>7, <1>9, <1>11 DEF Order
  <2>2. \A p \in Handles : u \notin Vacating(p)
    BY <1>7 DEF Vacating
  <2> QED BY <1>11, <2>1, <2>2 DEF Above
<1>13. r \in Seq(Entries) /\ Stacked(r) /\ Takes(r, u, t)
  BY <1>5, <1>7, <1>10, <1>12, Pushed
<1>14. Tally(r, Guards) = 1 /\ Elements(r) = {u} \cup Elements(t)
  BY <1>8, <1>11, <1>13 DEF Takes
<1>15. NoClears(r) /\ HasUnguard(r)
  <2>1. \A y \in Elements(t) : y \notin Clears
    BY <1>9 DEF FlushWork
  <2> QED BY <1>11, <1>14, <2>1 DEF NoClears, HasUnguard
<1>16. agenda' = <<f>> \o r
  <2>1. <<f, u>> \o t = <<f>> \o (<<u>> \o t)
    BY <1>5, <1>6, <1>7, ConcatTwo
  <2> QED BY <1>4, <1>10, <2>1
<1>17. Onto(agenda', {f}, r)
  <2>1. f \in FlushWork /\ f \notin Clears
    BY <1>6, MadeFlush
  <2> QED BY <1>6, <1>13, <1>15, <1>16, <2>1, OntoFlush
<1>18. StackInv'
  <2>1. Tally(agenda', Guards) = 1 /\ Stacked(agenda')
    BY <1>14, <1>17 DEF Onto
  <2>2. GuardInv'
    BY <1>4, <1>8, <2>1 DEF GuardInv
  <2> QED BY <2>1, <2>2 DEF StackInv
<1>19. PICK N : N = {f, u}
  OBVIOUS
<1>20. ToDo' = N \cup Elements(t)
  BY <1>14, <1>17, <1>19 DEF Onto, ToDo
<1>21. wasActive' \in [Handles -> BOOLEAN]
  BY <1>4 DEF IInv, TreeInv, TreeTypes
<1>22. /\ OwedInv' => IInv'
       /\ ToDo' \subseteq ToDo \cup N
  <2>1. x.do # "deactivate" /\ x.do # "cascade" /\ x.do # "modified" /\ x.do # "bubble"
    BY <1>4
  <2>2. \A e \in N : EntryFits(e) /\ e.do # "vacate"
    BY <1>6, <1>7, <1>19 DEF EntryFits
  <2> QED BY <1>1, <1>4, <1>18, <1>20, <1>21, <2>1, <2>2, NewsOnly
<1>23. OwedInv'
  <2>1. pendMod' \in [Handles -> SUBSET Bits] /\ pendAdd' \in [Handles -> Seq(Nat)]
    BY <1>4 DEF IInv, OwedInv, NewsTypes
  <2>2. \A o \in owed' : /\ o[2] \in Bits => o[2] \in pendMod'[o[1]]
                         /\ o[2] \notin Bits => pendAdd'[o[1]] = pendAdd[o[1]]
    BY <1>4 DEF IInv, OwedInv, NewsNoted
  <2>3. \A o \in owed' : \A e \in ToDo' :
           /\ o[2] \in Bits => ~(e.do = "clear_modified" /\ e.on = o[1])
           /\ o[2] \notin Bits => ~(e.do = "clear_added" /\ e.on = o[1])
    BY <1>4, <1>6, <1>7, <1>19, <1>22 DEF IInv, OwedInv, NewsNoted
  <2>4. \A o \in owed' : InTree(o[1]) => Told(f, o)
    <3>1. SUFFICES ASSUME NEW o \in owed, InTree(o[1]) PROVE Told(f, o)
      BY <1>4
    <3>2. o[1] \in Handles
      BY DEF IInv, OwedInv, NewsTypes
    <3>3. o[1] = Root \/ parent[o[1]] = Root \/ (parent[o[1]] # NULL /\ parent[parent[o[1]]] = Root)
      BY <3>1, <3>2, InTreeAt DEF IInv
    <3> QED BY <1>6, <3>3 DEF Told, Visited
  <2>5. guard' = 0 \/ Flushing' =>
          \A o \in owed' : InTree(o[1]) => \E e \in ToDo' : Told(e, o)
    BY <1>19, <1>20, <2>4
  <2>6. owed' \subseteq owed /\ \A g \in Handles : Elements(pendAdd'[g]) \subseteq Elements(pendAdd[g])
    BY <1>4
  <2> QED BY <1>4, <2>1, <2>2, <2>3, <2>5, <2>6, OwedLess DEF IInv
<1> QED BY <1>22, <1>23

LEMMA OrphanStep == ASSUME IInv, Orphan PROVE IInv'
<1>1. PICK x, t : Runs(x, t)
  BY Running DEF Orphan, Doing
<1>2. PICK k : k = x.on
  OBVIOUS
<1>3. /\ x.do = "orphan" /\ guard' = guard /\ ops' = ops
      /\ UNCHANGED <<index, active, wasActive>>
      /\ parent' = [c \in Handles |-> IF c \in Orphaned(k) THEN NULL ELSE parent[c]]
      /\ slots' = [slots EXCEPT ![k] = <<>>]
      /\ live' = [live EXCEPT ![k] = FALSE]
      /\ pendMod' = [pendMod EXCEPT ![k] = {}]
      /\ pendAdd' = [pendAdd EXCEPT ![k] = <<>>]
      /\ owed' = {o \in owed : o[1] # k}
      /\ unsaved' = unsaved \ {k} /\ dirty' = dirty \ {k}
      /\ agenda' = <<>> \o t
  BY <1>1, <1>2 DEF Orphan, Doing, Continue, On, Runs, activity
<1>4. /\ x \in Entries /\ t \in Seq(Entries) /\ Stacked(t) /\ Above(x, t) /\ k \in Handles /\ x \notin Guards
  BY <1>1, <1>2, <1>3, Following
<1>5. k # Root /\ live[k] /\ ~Held(k) /\ k # NULL
  BY <1>1, <1>2, <1>3, <1>4, NullIsNoHandle DEF Runs, EntryFits
<1>6. PICK N : N = {}
  OBVIOUS
<1>7. agenda' = t /\ Onto(agenda', N, t)
  BY <1>3, <1>4, <1>6, OntoNone
<1>8. StackInv' /\ ToDo' = Elements(t)
  <2>1. StackInv' /\ ToDo' = N \cup Elements(t)
    BY <1>1, <1>3, <1>4, <1>7, ContinuesWith
  <2> QED BY <1>6, <2>1
<1>9. \A e \in ToDo' : e.do = "scope"
  BY <1>3, <1>4, <1>8, Below
<1>10. \A e \in ToDo : e = x \/ e.do = "scope"
  BY <1>1, <1>8, <1>9 DEF Runs
<1>11. /\ slots \in [Handles -> Seq(Handles \cup {NULL})] /\ parent \in [Handles -> Handles \cup {NULL}]
       /\ live \in [Handles -> BOOLEAN] /\ index \in [Handles -> Nat]
       /\ active \in [Handles -> BOOLEAN] /\ wasActive \in [Handles -> BOOLEAN]
  BY DEF IInv, TreeInv, TreeTypes
<1>12. /\ slots'[k] = <<>> /\ \A q \in Handles : q # k => slots'[q] = slots[q]
       /\ ~live'[k] /\ \A q \in Handles : q # k => live'[q] = live[q]
       /\ slots' \in [Handles -> Seq(Handles \cup {NULL})] /\ live' \in [Handles -> BOOLEAN]
  <2>1. slots'[k] = <<>> /\ \A q \in Handles : q # k => slots'[q] = slots[q]
    BY <1>3, <1>4, <1>11
  <2>2. ~live'[k] /\ \A q \in Handles : q # k => live'[q] = live[q]
    BY <1>3, <1>4, <1>11
  <2>3. slots' \in [Handles -> Seq(Handles \cup {NULL})]
    <3>1. PICK s : s = <<>>
      OBVIOUS
    <3>2. s \in Seq(Handles \cup {NULL})
      BY <3>1
    <3> QED BY <1>3, <1>4, <1>11, <3>1, <3>2
  <2>4. live' \in [Handles -> BOOLEAN]
    BY <1>3, <1>4, <1>11
  <2> QED BY <2>1, <2>2, <2>3, <2>4
<1>13. \A q \in Handles : \A i \in DOMAIN slots'[q] : q # k /\ i \in DOMAIN slots[q] /\ slots'[q][i] = slots[q][i]
  <2>1. \A i \in DOMAIN slots'[k] : FALSE
    BY <1>12
  <2> QED BY <1>12, <2>1
<1>14. \A c \in Handles : parent'[c] = IF InSlot(k, c) THEN NULL ELSE parent[c]
  BY <1>3 DEF Orphaned
<1>15. \A c \in Handles : InSlot(k, c) => parent[c] = k
  BY <1>4, HeldBelow, NullIsNoHandle DEF IInv
<1>16. TreeTypes'
  <2>1. \A h \in Handles : \A i \in DOMAIN slots'[h] : slots'[h][i] \in ChildrenOf(h) \cup {NULL}
    BY <1>13 DEF IInv, TreeInv, TreeTypes
  <2>2. parent' \in [Handles -> Handles \cup {NULL}]
    BY <1>3, <1>11
  <2>3. \A h \in Handles : parent'[h] # NULL => h \in ChildrenOf(parent'[h])
    BY <1>14 DEF IInv, TreeInv, TreeTypes
  <2>4. \A h \in Handles : Len(slots'[h]) <= ops'
    <3>1. ops \in Nat /\ \A h \in Handles : Len(slots[h]) <= ops
      BY HandlesAssumption DEF IInv, TreeInv, TreeTypes
    <3>2. Len(slots'[k]) = 0
      BY <1>12
    <3> QED BY <1>3, <1>4, <1>12, <3>1, <3>2
  <2>5. ops' \in 0..MaxOps
    BY <1>3 DEF IInv, TreeInv, TreeTypes
  <2> QED BY <1>3, <1>11, <1>12, <2>1, <2>2, <2>3, <2>4, <2>5 DEF TreeTypes
<1>17. SlotsKnown'
  <2>1. SUFFICES ASSUME NEW q \in Handles, NEW i \in DOMAIN slots'[q], slots'[q][i] # NULL
                 PROVE  live'[slots'[q][i]] /\ parent'[slots'[q][i]] = q /\ index[slots'[q][i]] = i
    BY <1>3 DEF SlotsKnown
  <2>2. PICK d : d = slots[q][i]
    OBVIOUS
  <2>3. q # k /\ i \in DOMAIN slots[q] /\ slots'[q][i] = d /\ d # NULL
    BY <1>13, <2>1, <2>2
  <2>4. d \in Handles /\ live[d] /\ parent[d] = q /\ index[d] = i
    BY <1>11, <2>2, <2>3 DEF IInv, TreeInv, SlotsKnown
  <2>5. d # k
    BY <1>5, <2>2, <2>3 DEF Held, InSlot
  <2>6. ~InSlot(k, d)
    BY <1>15, <2>3, <2>4
  <2> QED BY <1>12, <1>14, <2>3, <2>4, <2>5, <2>6
<1>18. ParentsKnown'
  <2>1. SUFFICES ASSUME NEW h \in Handles, live'[h], active[h], parent'[h] # NULL
                 PROVE  /\ live'[parent'[h]] /\ index[h] \in DOMAIN slots'[parent'[h]]
                        /\ slots'[parent'[h]][index[h]] = h
    BY <1>3 DEF ParentsKnown
  <2>2. live[h] /\ parent'[h] = parent[h] /\ ~InSlot(k, h)
    BY <1>12, <1>14, <2>1
  <2>3. /\ live[parent[h]] /\ index[h] \in DOMAIN slots[parent[h]]
        /\ slots[parent[h]][index[h]] = h /\ parent[h] \in Handles
    BY <1>11, <2>1, <2>2 DEF IInv, TreeInv, ParentsKnown
  <2>4. parent[h] # k
    BY <2>2, <2>3 DEF InSlot
  <2> QED BY <1>12, <2>2, <2>3, <2>4
<1>19. EntryInv'
  <2>1. EntriesFit'
    BY <1>9 DEF EntriesFit, EntryFits
  <2>2. VacatedLeave'
    BY <1>9 DEF VacatedLeave
  <2>3. ChildrenFollow'
    <3>1. SUFFICES ASSUME NEW q \in Handles, NEW i \in DOMAIN slots'[q], ~active[q], slots'[q][i] # NULL
                   PROVE  ~active[slots'[q][i]]
      BY <1>3 DEF ChildrenFollow
    <3>2. i \in DOMAIN slots[q] /\ slots'[q][i] = slots[q][i]
      BY <1>13, <3>1
    <3>3. ~Cascading(q, i)
      BY <1>3, <1>10 DEF Cascading, Do, DoAt
    <3> QED BY <3>1, <3>2, <3>3 DEF IInv, EntryInv, ChildrenFollow
  <2> QED BY <2>1, <2>2, <2>3 DEF EntryInv
<1>20. SavedInv'
  <2>1. \A c : ~OnItsWay(c)
    BY <1>3, <1>10 DEF OnItsWay
  <2> QED BY <1>3, <2>1 DEF IInv, SavedInv
<1>21. NewsTypes'
  <2>1. pendMod \in [Handles -> SUBSET Bits] /\ pendAdd \in [Handles -> Seq(Nat)]
    BY DEF IInv, OwedInv, NewsTypes
  <2>2. pendMod' \in [Handles -> SUBSET Bits]
    BY <1>3, <1>4, <2>1
  <2>3. pendAdd' \in [Handles -> Seq(Nat)]
    <3>1. PICK s : s = <<>>
      OBVIOUS
    <3>2. s \in Seq(Nat)
      BY <3>1
    <3> QED BY <1>3, <1>4, <2>1, <3>1, <3>2
  <2>4. \A h \in Handles : Elements(pendAdd'[h]) \subseteq DOMAIN slots'[h]
    <3>1. pendAdd'[k] = <<>> /\ \A h \in Handles : h # k => pendAdd'[h] = pendAdd[h]
      BY <1>3, <1>4, <2>1
    <3> QED BY <1>12, <3>1, ElementsEmpty DEF IInv, OwedInv, NewsTypes
  <2>5. owed' \subseteq Handles \X (Bits \cup {Added(i) : i \in 1..ops'})
    BY <1>3 DEF IInv, OwedInv, NewsTypes
  <2> QED BY <2>2, <2>3, <2>4, <2>5 DEF NewsTypes
<1>22. NewsNoted'
  <2>1. SUFFICES ASSUME NEW o \in owed, o[1] # k
                 PROVE  /\ o[2] \in Bits => /\ o[2] \in pendMod'[o[1]]
                                            /\ \A e \in ToDo' : ~(e.do = "clear_modified" /\ e.on = o[1])
                        /\ o[2] \notin Bits => /\ \E i \in Elements(pendAdd'[o[1]]) : o[2] = Added(i)
                                               /\ \A e \in ToDo' : ~(e.do = "clear_added" /\ e.on = o[1])
                        /\ InModel(o[1])' \/ (parent'[o[1]] = NULL /\ ~active[o[1]])
    BY <1>3 DEF NewsNoted
  <2>2. o[1] \in Handles /\ pendMod \in [Handles -> SUBSET Bits] /\ pendAdd \in [Handles -> Seq(Nat)]
    BY DEF IInv, OwedInv, NewsTypes
  <2>3. pendMod'[o[1]] = pendMod[o[1]] /\ pendAdd'[o[1]] = pendAdd[o[1]]
    BY <1>3, <2>1, <2>2
  <2>4. /\ o[2] \in Bits => o[2] \in pendMod[o[1]]
        /\ o[2] \notin Bits => \E i \in Elements(pendAdd[o[1]]) : o[2] = Added(i)
        /\ InModel(o[1]) \/ (parent[o[1]] = NULL /\ ~active[o[1]])
    BY DEF IInv, OwedInv, NewsNoted
  <2>5. InModel(o[1])' \/ (parent'[o[1]] = NULL /\ ~active[o[1]])
    <3>1. CASE InSlot(k, o[1])
      <4>1. parent'[o[1]] = NULL /\ parent[o[1]] = k
        BY <1>14, <1>15, <2>2, <3>1
      <4>2. ~active[o[1]]
        <5>1. parent[o[1]] = NULL => FALSE
          BY <1>5, <4>1
        <5>2. InModel(o[1])
          BY <2>4, <5>1
        <5>3. o[1] \in ChildrenOf(k)
          BY <1>5, <2>2, <4>1 DEF IInv, TreeInv, TreeTypes
        <5>4. o[1] # Root
          BY <1>4, <5>3, Levels
        <5>5. parent[k] = Root /\ parent[k] # NULL
          BY <1>5, <4>1, <5>2, <5>4, NullIsNoHandle DEF InModel
        <5>6. ~active[k]
          <6>1. SUFFICES ASSUME active[k] PROVE FALSE
            OBVIOUS
          <6>2. index[k] \in DOMAIN slots[Root] /\ slots[Root][index[k]] = k
            BY <1>4, <1>5, <5>5, <6>1 DEF IInv, TreeInv, ParentsKnown
          <6> QED BY <1>5, <6>2, NullIsNoHandle DEF Held, InSlot
        <5>7. PICK i \in DOMAIN slots[k] : slots[k][i] = o[1]
          BY <3>1 DEF InSlot
        <5>8. ~Cascading(k, i)
          BY <1>3, <1>10 DEF Cascading, Do, DoAt
        <5>9. o[1] # NULL
          BY <2>2, NullIsNoHandle
        <5> QED BY <1>4, <5>6, <5>7, <5>8, <5>9 DEF IInv, EntryInv, ChildrenFollow
      <4> QED BY <4>1, <4>2
    <3>2. CASE ~InSlot(k, o[1])
      <4>1. parent'[o[1]] = parent[o[1]]
        BY <1>14, <2>2, <3>2
      <4>2. ASSUME o[1] # Root, parent[o[1]] # NULL, parent[parent[o[1]]] = Root
            PROVE  parent'[parent[o[1]]] = Root
        <5>1. parent[o[1]] \in Handles
          BY <1>11, <2>2, <4>2
        <5>2. ~InSlot(k, parent[o[1]])
          BY <1>5, <1>15, <4>2, <5>1
        <5> QED BY <1>14, <4>2, <5>1, <5>2
      <4> QED BY <2>4, <4>1, <4>2 DEF InModel
    <3> QED BY <3>1, <3>2
  <2> QED BY <1>9, <2>3, <2>4, <2>5
<1>23. FlushDue'
  <2>1. SUFFICES ASSUME guard = 0 \/ Flushing', NEW o \in owed, o[1] # k, InTree(o[1])'
                 PROVE  FALSE
    BY <1>3 DEF FlushDue
  <2>2. guard = 0
    BY <1>9, <2>1, FlushingToDo
  <2>3. \A q \in Handles : \A c : InSlot(q, c)' => InSlot(q, c)
    BY <1>13 DEF InSlot
  <2>4. Root \in Handles /\ Collections \subseteq Handles
    BY DEF Handles
  <2>5. InTree(o[1])
    BY <2>1, <2>3, <2>4 DEF InTree
  <2>6. PICK e \in ToDo : Told(e, o)
    BY <2>1, <2>2, <2>5 DEF IInv, OwedInv, FlushDue
  <2> QED BY <1>3, <1>10, <2>6 DEF Told, Visited
<1> QED BY <1>8, <1>16, <1>17, <1>18, <1>19, <1>20, <1>21, <1>22, <1>23
       DEF IInv, TreeInv, OwedInv
-----------------------------------------------------------------------------
LEMMA Initially == Init => IInv
<1> SUFFICES ASSUME Init PROVE IInv
  OBVIOUS
<1>1. PICK none : none = <<>>
  OBVIOUS
<1>2. \A A : none \in Seq(A) /\ Len(none) = 0 /\ DOMAIN none = {}
  BY <1>1
<1>3. /\ slots = [h \in Handles |-> none] /\ parent = [h \in Handles |-> NULL]
      /\ index = [h \in Handles |-> 0] /\ pendAdd = [h \in Handles |-> none]
      /\ pendMod = [h \in Handles |-> {}]
      /\ live = [h \in Handles |-> TRUE] /\ active = [h \in Handles |-> TRUE]
      /\ wasActive = [h \in Handles |-> TRUE]
  BY <1>1 DEF Init
<1>4. unsaved = {} /\ dirty = {} /\ owed = {} /\ guard = 0 /\ agenda = none /\ ops = 0
  BY <1>1 DEF Init
<1>5. TreeInv
  <2>1. ops \in 0..MaxOps
    BY <1>4, HandlesAssumption
  <2>2. \A h \in Handles : /\ slots[h] = none /\ parent[h] = NULL /\ live[h] = TRUE
    BY <1>3
  <2>3. TreeTypes
    <3>1. slots \in [Handles -> Seq(Handles \cup {NULL})] /\ parent \in [Handles -> Handles \cup {NULL}]
      BY <1>2, <1>3
    <3>2. /\ index \in [Handles -> Nat] /\ live \in [Handles -> BOOLEAN]
          /\ active \in [Handles -> BOOLEAN] /\ wasActive \in [Handles -> BOOLEAN]
      BY <1>3
    <3>3. \A h \in Handles : DOMAIN slots[h] = {} /\ Len(slots[h]) <= ops
      BY <1>2, <1>4, <2>2
    <3> QED BY <2>1, <2>2, <3>1, <3>2, <3>3 DEF TreeTypes
  <2>4. SlotsKnown /\ ParentsKnown
    BY <1>2, <2>2 DEF SlotsKnown, ParentsKnown
  <2> QED BY <2>3, <2>4 DEF TreeInv
<1>6. Elements(agenda) = {} /\ ToDo = {}
  BY <1>1, <1>4, ElementsEmpty DEF ToDo
<1>7. StackInv
  <2>1. agenda \in Seq(Entries) /\ DOMAIN agenda = {}
    BY <1>2, <1>4
  <2>2. Stacked(agenda)
    BY <2>1 DEF Stacked, Ordered, Followed
  <2>3. Tally(agenda, Guards) = 0
    BY <1>1, <1>4, TallyEmpty
  <2> QED BY <1>4, <2>2, <2>3 DEF StackInv, GuardInv
<1>8. EntryInv
  BY <1>2, <1>3, <1>6 DEF EntryInv, EntriesFit, VacatedLeave, ChildrenFollow
<1>9. SavedInv
  BY <1>4 DEF SavedInv
<1>10. OwedInv
  <2>1. \A h \in Handles : Elements(pendAdd[h]) \subseteq DOMAIN slots[h]
    BY <1>1, <1>3, ElementsEmpty
  <2>2. pendAdd \in [Handles -> Seq(Nat)] /\ pendMod \in [Handles -> SUBSET Bits]
    BY <1>2, <1>3
  <2> QED BY <1>4, <2>1, <2>2 DEF OwedInv, NewsTypes, NewsNoted, FlushDue
<1> QED BY <1>5, <1>7, <1>8, <1>9, <1>10 DEF IInv

LEMMA Stuttering == ASSUME IInv, UNCHANGED vars PROVE IInv'
<1>1. /\ UNCHANGED <<slots, parent, index, live, active, wasActive, pendMod, pendAdd, owed>>
      /\ UNCHANGED <<unsaved, dirty, guard, agenda, ops>>
  BY DEF vars, tree, activity, pending, saving
<1>2. TreeInv'
  BY <1>1 DEF IInv, TreeInv, TreeTypes, SlotsKnown, ParentsKnown
<1>3. ToDo' = ToDo
  BY <1>1 DEF ToDo
<1>4. StackInv'
  BY <1>1 DEF IInv, StackInv, GuardInv
<1>5. EntryInv'
  BY <1>1, <1>3 DEF IInv, EntryInv, EntriesFit, EntryFits, VacatedLeave, Leaving, ChildrenFollow, Cascading,
                    Held, InSlot
<1>6. SavedInv'
  BY <1>1, <1>3 DEF IInv, SavedInv, OnItsWay
<1>7. OwedInv'
  BY <1>1, <1>3 DEF IInv, OwedInv, NewsTypes, NewsNoted, FlushDue, Flushing, InModel, InTree, InSlot, Told, Visited
<1> QED BY <1>2, <1>4, <1>5, <1>6, <1>7 DEF IInv

LEMMA Preserved == IInv /\ [Next]_vars => IInv'
<1> SUFFICES ASSUME IInv, [Next]_vars PROVE IInv'
  OBVIOUS
<1>1. CASE Client
  BY <1>1, AddStep, RemoveStep, ModifyStep, SaveStep, AcquireStep, DropStep DEF Client
<1>2. CASE Step
  BY <1>2, ReturnStep, ReleaseOneStep, ReleaseLastStep, UnguardStep, NotifyModifiedStep, BubbleStep,
     NotifyAddedStep, DeactivateStep, CascadeStep, VacateStep, FlushStep, FlushChildrenStep,
     FlushModifiedStep, ClearModifiedStep, FlushAddedStep, ClearAddedStep, FlushActiveStep, OrphanStep
     DEF Step
<1>3. CASE UNCHANGED vars
  BY <1>3, Stuttering
<1> QED BY <1>1, <1>2, <1>3 DEF Next

LEMMA Invariant == Spec => []IInv
BY Initially, Preserved, PTL DEF Spec
-----------------------------------------------------------------------------
(* Pointers, flags and pending lists keep their types: in particular the   *)
(* notification guard's count never goes below zero, and every pending     *)
(* addition names a slot that exists.                                      *)
THEOREM TypesKept == Spec => []TypeOK
<1>1. ASSUME IInv PROVE TypeOK
  <2>1. /\ TreeTypes /\ GuardInv /\ NewsTypes
        /\ unsaved \subseteq Collections /\ dirty \subseteq Collections
    BY <1>1 DEF IInv, TreeInv, StackInv, SavedInv, OwedInv
  <2>2. \A h \in Handles :
          /\ \A i \in DOMAIN slots[h] : slots[h][i] \in ChildrenOf(h) \cup {NULL}
          /\ parent[h] = NULL \/ h \in ChildrenOf(parent[h])
          /\ pendMod[h] \subseteq Publisher \cup Child
    BY <2>1 DEF TreeTypes, NewsTypes, Bits
  <2>3. \A h \in Handles : \A i \in DOMAIN pendAdd[h] : pendAdd[h][i] \in DOMAIN slots[h]
    BY <2>1 DEF NewsTypes, Elements
  <2>4. guard \in 0..MaxOps /\ ops \in 0..MaxOps
    BY <2>1, HandlesAssumption DEF GuardInv, TreeTypes
  <2>5. Bits \subseteq News /\ 1..ops \subseteq 1..MaxOps
    BY <2>4, HandlesAssumption DEF Bits, News, Publisher, Child
  <2>6. owed \subseteq Handles \X (News \cup {Added(i) : i \in 1..MaxOps})
    BY <2>1, <2>5 DEF NewsTypes
  <2> QED BY <2>1, <2>2, <2>3, <2>4, <2>6 DEF TypeOK, TreeTypes
<1> QED BY <1>1, Invariant, PTL

(* Removing a handle that clients may reach removes that handle from the   *)
(* slot it remembers, and no two slots hold the same handle.               *)
THEOREM RemoveCorrect == Spec => []RemoveFindsItsOwn
<1>1. IInv => RemoveFindsItsOwn
  BY DEF IInv, TreeInv, SlotsKnown, ParentsKnown, RemoveFindsItsOwn
<1> QED BY <1>1, Invariant, PTL

(* When the last guard has gone, no news that it held back is left untold, *)
(* whatever the listeners did while the flush told it.                     *)
THEOREM HeldNewsCorrect == Spec => []HeldNewsIsTold
<1>1. ASSUME IInv, guard = 0, NEW o \in owed, InTree(o[1]) PROVE FALSE
  <2>1. /\ agenda \in Seq(Entries) /\ Followed(agenda, FlushWork, Unguards)
        /\ Tally(agenda, Guards) = 0
    BY <1>1 DEF IInv, StackInv, Stacked, GuardInv
  <2>2. PICK e \in ToDo : Told(e, o)
    BY <1>1 DEF IInv, OwedInv, FlushDue
  <2>3. e \in Entries
    BY <2>1, ElementsTyped DEF ToDo
  <2>4. e \in FlushWork
    BY <2>2, <2>3, ToldByFlush
  <2>5. PICK u \in Elements(agenda) : u \in Unguards
    BY <2>1, <2>2, <2>4 DEF ToDo, Followed, Elements
  <2>6. u \in Guards
    BY <2>5 DEF Guards, Unguards
  <2> QED BY <2>1, <2>5, <2>6, TallyZero
<1>2. IInv => HeldNewsIsTold
  BY <1>1 DEF HeldNewsIsTold
<1> QED BY <1>2, Invariant, PTL

(* Between operations every collection that changed since it was saved is  *)
(* flagged as unsaved, whether or not a guard holds the news back.         *)
THEOREM UnsavedCorrect == Spec => []UnsavedCoversChanges
<1>1. ASSUME IInv, Settled, NEW c \in dirty PROVE c \in unsaved
  <2>1. \A e \in ToDo : e.do = "scope"
    BY <1>1 DEF Settled, ToDo, Elements
  <2>2. ~OnItsWay(c)
    BY <2>1 DEF OnItsWay
  <2> QED BY <1>1, <2>2 DEF IInv, SavedInv
<1>2. IInv => UnsavedCoversChanges
  BY <1>1 DEF UnsavedCoversChanges
<1> QED BY <1>2, Invariant, PTL

(* Guards that listeners take during a flush start no second flush, and no *)
(* handle is telling the same news twice at a time.                        *)
THEOREM FlushedOnceCorrect == Spec => []FlushedOnce
<1>1. ASSUME IInv, NEW i \in DOMAIN agenda, NEW j \in DOMAIN agenda, i < j,
             agenda[i].do \in {"unguard", "clear_modified", "clear_added"},
             agenda[i].do = agenda[j].do
      PROVE  FALSE
  <2>1. agenda \in Seq(Entries) /\ <<agenda[i], agenda[j]>> \in Order
    BY <1>1 DEF IInv, StackInv, Stacked, Ordered
  <2>2. agenda[i] \in Entries /\ agenda[j] \in Entries
    BY <2>1
  <2>3. /\ agenda[j] \in Clears => agenda[i] \notin FlushWork
        /\ agenda[j] \in Unguards => agenda[i] \notin Unguards
    BY <2>1 DEF Order
  <2> QED BY <1>1, <2>2, <2>3 DEF Clears, Unguards, FlushWork
<1>2. ASSUME IInv, NEW i \in DOMAIN agenda, NEW j \in DOMAIN agenda, i # j,
             agenda[i].do \in {"unguard", "clear_modified", "clear_added"},
             agenda[i].do = agenda[j].do
      PROVE  FALSE
  <2>1. i < j \/ j < i
    BY <1>2 DEF IInv, StackInv, Stacked
  <2> QED BY <1>1, <1>2, <2>1
<1>3. IInv => FlushedOnce
  BY <1>2 DEF FlushedOnce
<1> QED BY <1>3, Invariant, PTL
=============================================================================
