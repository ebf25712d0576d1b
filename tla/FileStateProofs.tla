-------------------------- MODULE FileStateProofs --------------------------
(***************************************************************************)
(* Proofs about the loaded files, for any number of files, of files in a   *)
(* batch, and of signals that are out at a time.                           *)
(***************************************************************************)
EXTENDS FileState, SequenceLemmas, SequenceTheorems

-----------------------------------------------------------------------------
(* The inductive invariant.  What the arrays hold is only kept if the      *)
(* callbacks come when they should, so it says what may be on the stack.   *)

Unloading == {"deactivated", "unload"}
Ending == {"destroying", "erase"}
Callbacks == Unloading \cup Ending \cup {"reactivated"}

EntrySet == [do : Callbacks \cup Signals \cup {"adding"}, on : Nat,
             todo : Seq(Files), done : Seq(Nat \ {0})]

Depths == 1 .. Len(calls)

(* The entries for a handle that is released or reactivated are out of the *)
(* way when another may come.                                              *)
StackTyped ==
  /\ calls \in Seq(EntrySet)
  /\ \A i \in Depths : calls[i].do \in Callbacks => calls[i].on \in Live
  /\ \A i \in Depths : \A j \in 1 .. Len(calls[i].done) : calls[i].done[j] \in Handles
  /\ \A i \in Depths : calls[i].do = "adding" => i = 1

(* The files that are being added are new, and those that were are not.    *)
FilesApart ==
  /\ \A i \in Depths : calls[i].do = "adding" =>
       /\ \A j \in 1 .. Len(calls[i].todo) : where[calls[i].todo[j]] = "new"
       /\ \A j, k \in 1 .. Len(calls[i].todo) : calls[i].todo[j] = calls[i].todo[k] => j = k
  /\ \A h \in Live : where[FileOf(h)] # "new"
  /\ \A g, h \in Live : FileOf(g) = FileOf(h) => g = h

(* A file is unloaded while it counts as loaded, and reactivated while it  *)
(* does not; if two callbacks for it are on the stack, it is unloaded      *)
(* before it ends, and when its entry is to be erased it is unloaded       *)
(* already or right before.                                                *)
CallbacksFit ==
  /\ \A i \in Depths : calls[i].do \in Unloading => calls[i].on \in Active
  /\ \A i \in Depths : calls[i].do = "reactivated" => calls[i].on \notin Active
  /\ \A i \in Depths : calls[i].do \in Unloading \cup Ending => where[FileOf(calls[i].on)] # "in"
  /\ \A i, j \in Depths :
       i < j /\ calls[i].do \in Callbacks /\ calls[j].do \in Callbacks
             /\ calls[i].on = calls[j].on =>
         calls[i].do \in Unloading /\ calls[j].do \in Ending
  /\ \A i \in Depths : calls[i].do = "erase" /\ calls[i].on \in Active =>
       i > 1 /\ calls[i - 1].do \in Unloading /\ calls[i - 1].on = calls[i].on

StackOK == StackTyped /\ FilesApart /\ CallbacksFit
StoreOK == TypeOK /\ SlotsMatchIndices /\ IndicesOrderFiles
IInv == StoreOK /\ StackOK

-----------------------------------------------------------------------------
(* What a step does to the stack: k entries (none or the head) go and the  *)
(* entries new come on top of those that stay.                             *)
Pushed(new, k) ==
  /\ calls' \in Seq(EntrySet)
  /\ Len(calls') = Len(new) + Len(calls) - k
  /\ \A i \in 1 .. Len(new) : calls'[i] = new[i]
  /\ \A i \in 1 .. Len(calls') : i > Len(new) =>
       calls'[i] = calls[i - Len(new) + k] /\ i - Len(new) + k \in Depths

LEMMA StartPushes ==
  ASSUME calls \in Seq(EntrySet), NEW new \in Seq(EntrySet), Start(new)
  PROVE  Pushed(new, 0)
<1>1. calls' = new \o calls
  BY DEF Start
<1>2. /\ calls' \in Seq(EntrySet)
      /\ Len(calls') = Len(new) + Len(calls)
      /\ \A i \in 1 .. Len(new) + Len(calls) :
           calls'[i] = IF i <= Len(new) THEN new[i] ELSE calls[i - Len(new)]
  BY <1>1, ConcatProperties, Zenon
<1>3. Len(new) \in Nat /\ Len(calls) \in Nat
  BY LenProperties
<1> QED
  BY <1>2, <1>3 DEF Pushed, Depths

LEMMA ContinuePushes ==
  ASSUME calls \in Seq(EntrySet), calls # <<>>, NEW new \in Seq(EntrySet), Continue(new)
  PROVE  Pushed(new, 1) /\ Len(calls) > 0
<1>1. calls' = new \o Tail(calls)
  BY DEF Continue
<1>2. /\ Tail(calls) \in Seq(EntrySet)
      /\ Len(Tail(calls)) = Len(calls) - 1
      /\ \A i \in 1 .. Len(Tail(calls)) : Tail(calls)[i] = calls[i + 1]
  BY HeadTailProperties, Zenon
<1>3. /\ calls' \in Seq(EntrySet)
      /\ Len(calls') = Len(new) + Len(Tail(calls))
      /\ \A i \in 1 .. Len(new) + Len(Tail(calls)) :
           calls'[i] = IF i <= Len(new) THEN new[i] ELSE Tail(calls)[i - Len(new)]
  BY <1>1, <1>2, ConcatProperties, Zenon
<1>4. Len(new) \in Nat /\ Len(calls) \in Nat \ {0}
  BY LenProperties, EmptySeq
<1> QED
  BY <1>2, <1>3, <1>4 DEF Pushed, Depths

(* What the entries that stay must still meet when the store has changed.  *)
Survive(k) ==
  /\ \A j \in Depths : j > k => calls[j].do # "adding"
  /\ \A j \in Depths : j > k /\ calls[j].do \in Callbacks => calls[j].on \in Live'
  /\ Handles \subseteq Handles'
  /\ \A j \in Depths : j > k /\ calls[j].do \in Unloading => calls[j].on \in Active'
  /\ \A j \in Depths : j > k /\ calls[j].do = "reactivated" => calls[j].on \notin Active'
  /\ \A j \in Depths : j > k /\ calls[j].do \in Unloading \cup Ending =>
       where'[slots'[calls[j].on].file] # "in"

(* What the new entries must meet, also towards those that stay.           *)
Fresh(new, k) ==
  /\ \A i \in 1 .. Len(new) : new[i].do \in Callbacks => new[i].on \in Live'
  /\ \A i \in 1 .. Len(new) : \A j \in 1 .. Len(new[i].done) : new[i].done[j] \in Handles'
  /\ \A i \in 1 .. Len(new) : new[i].do = "adding" => i = 1
  /\ \A i \in 1 .. Len(new) : new[i].do \in Unloading => new[i].on \in Active'
  /\ \A i \in 1 .. Len(new) : new[i].do = "reactivated" => new[i].on \notin Active'
  /\ \A i \in 1 .. Len(new) : new[i].do \in Unloading \cup Ending =>
       where'[slots'[new[i].on].file] # "in"
  /\ \A i, j \in 1 .. Len(new) :
       i < j /\ new[i].do \in Callbacks /\ new[j].do \in Callbacks /\ new[i].on = new[j].on =>
         new[i].do \in Unloading /\ new[j].do \in Ending
  /\ \A i \in 1 .. Len(new), j \in Depths :
       j > k /\ new[i].do \in Callbacks /\ calls[j].do \in Callbacks /\ new[i].on = calls[j].on =>
         new[i].do \in Unloading /\ calls[j].do \in Ending
  /\ \A i \in 1 .. Len(new) : new[i].do = "erase" /\ new[i].on \in Active' =>
       i > 1 /\ new[i - 1].do \in Unloading /\ new[i - 1].on = new[i].on
  /\ \A j \in Depths : j > k /\ calls[j].do = "erase" /\ calls[j].on \in Active' =>
       \/ j > k + 1 /\ calls[j - 1].do \in Unloading /\ calls[j - 1].on = calls[j].on
       \/ /\ j = k + 1 /\ Len(new) > 0
          /\ new[Len(new)].do \in Unloading /\ new[Len(new)].on = calls[j].on

(* Then the stack stays well-formed.                                       *)
LEMMA StackStep ==
  ASSUME StackOK, NEW k \in 0 .. 1, NEW new \in Seq(EntrySet),
         Pushed(new, k), Survive(k), Fresh(new, k)
  PROVE  StackTyped' /\ CallbacksFit'
<1> DEFINE n == Len(new)
           old(i) == i - n + k
           D == 1 .. Len(calls')
<1>0. /\ n \in Nat /\ Len(calls) \in Nat /\ Len(calls') \in Nat
      /\ k \in {0, 1}
  BY LenProperties DEF Pushed, StackOK, StackTyped
<1>1. \A i \in D : i <= n => i \in 1 .. n /\ calls'[i] = new[i]
  BY <1>0 DEF Pushed
<1>2. \A i \in D : i > n =>
        old(i) \in Depths /\ old(i) > k /\ calls'[i] = calls[old(i)]
  <2>1. \A i \in D : i > n => old(i) \in Depths /\ calls'[i] = calls[old(i)]
    BY DEF Pushed
  <2>2. \A i \in D : i > n => old(i) > k
    BY <1>0
  <2> QED
    BY <2>1, <2>2
<1>3. \A i \in D : i <= n \/ i > n
  BY <1>0
<1> HIDE DEF n, old, D
<1>4. calls' \in Seq(EntrySet)
  BY DEF Pushed
<1>5. ASSUME NEW i \in D, calls'[i].do \in Callbacks
      PROVE  calls'[i].on \in Live'
  BY <1>1, <1>2, <1>3, <1>5 DEF Fresh, Survive, n
<1>6. ASSUME NEW i \in D, NEW j \in 1 .. Len(calls'[i].done)
      PROVE  calls'[i].done[j] \in Handles'
  BY <1>1, <1>2, <1>3 DEF Fresh, Survive, StackOK, StackTyped, n
<1>7. ASSUME NEW i \in D, calls'[i].do = "adding"
      PROVE  i = 1
  BY <1>1, <1>2, <1>3, <1>7 DEF Fresh, Survive, n
<1>8. ASSUME NEW i \in D, calls'[i].do \in Unloading
      PROVE  calls'[i].on \in Active'
  BY <1>1, <1>2, <1>3, <1>8 DEF Fresh, Survive, n
<1>9. ASSUME NEW i \in D, calls'[i].do = "reactivated"
      PROVE  calls'[i].on \notin Active'
  BY <1>1, <1>2, <1>3, <1>9 DEF Fresh, Survive, n
<1>10. ASSUME NEW i \in D, calls'[i].do \in Unloading \cup Ending
       PROVE  where'[slots'[calls'[i].on].file] # "in"
  BY <1>1, <1>2, <1>3, <1>10 DEF Fresh, Survive, n
<1>11. ASSUME NEW i \in D, NEW j \in D, i < j,
              calls'[i].do \in Callbacks, calls'[j].do \in Callbacks,
              calls'[i].on = calls'[j].on
       PROVE  calls'[i].do \in Unloading /\ calls'[j].do \in Ending
  <2>1. CASE j <= n
    <3>1. i <= n
      BY <1>0, <1>11, <2>1 DEF D
    <3> QED
      BY <1>1, <1>11, <2>1, <3>1 DEF Fresh, n
  <2>2. CASE i <= n /\ j > n
    BY <1>1, <1>2, <1>11, <2>2 DEF Fresh, n
  <2>3. CASE i > n /\ j > n
    <3>1. old(i) < old(j)
      BY <1>0, <1>11 DEF D, old
    <3> QED
      BY <1>2, <1>11, <2>3, <3>1 DEF StackOK, CallbacksFit
  <2> QED
    BY <1>3, <2>1, <2>2, <2>3
<1>12. ASSUME NEW i \in D, calls'[i].do = "erase", calls'[i].on \in Active'
       PROVE  i > 1 /\ calls'[i - 1].do \in Unloading /\ calls'[i - 1].on = calls'[i].on
  <2>1. CASE i <= n
    <3>1. i > 1 /\ new[i - 1].do \in Unloading /\ new[i - 1].on = new[i].on
      BY <1>1, <1>12, <2>1 DEF Fresh, n
    <3>2. i - 1 \in D /\ i - 1 <= n
      BY <1>0, <2>1, <3>1 DEF D
    <3> QED
      BY <1>1, <2>1, <3>1, <3>2
  <2>2. CASE i > n
    <3>1. old(i) \in Depths /\ old(i) > k /\ calls'[i] = calls[old(i)]
      BY <1>2, <2>2
    <3>2. CASE old(i) > k + 1 /\ calls[old(i) - 1].do \in Unloading
                              /\ calls[old(i) - 1].on = calls[old(i)].on
      <4>1. i - 1 \in D /\ i - 1 > n /\ old(i - 1) = old(i) - 1 /\ i > 1
        BY <1>0, <2>2, <3>2 DEF D, old
      <4> QED
        BY <1>2, <3>1, <3>2, <4>1
    <3>3. CASE /\ old(i) = k + 1 /\ n > 0
               /\ new[n].do \in Unloading /\ new[n].on = calls[old(i)].on
      <4>1. i - 1 = n /\ i - 1 \in D /\ i > 1
        BY <1>0, <2>2, <3>3 DEF D, old
      <4>2. i - 1 <= n
        BY <1>0, <4>1
      <4> QED
        BY <1>1, <3>1, <3>3, <4>1, <4>2
    <3> QED
      BY <1>12, <3>1, <3>2, <3>3 DEF Fresh, n
  <2> QED
    BY <1>3, <2>1, <2>2
<1>13. StackTyped'
  BY <1>4, <1>5, <1>6, <1>7 DEF StackTyped, Depths, D
<1>14. CallbacksFit'
  BY <1>8, <1>9, <1>10, <1>11, <1>12 DEF CallbacksFit, Depths, FileOf, D
<1> QED
  BY <1>13, <1>14

-----------------------------------------------------------------------------
(* The arrays.                                                             *)

LEMMA StoreFacts ==
  ASSUME StoreOK
  PROVE  /\ Len(slots) \in Nat /\ Handles = 1 .. Len(slots)
         /\ \A h \in Handles : slots[h] \in [file : Files, pos : Nat \ {0}, active : BOOLEAN]
         /\ Len(free) \in Nat /\ DOMAIN free = 1 .. Len(free)
         /\ Freed \subseteq Handles
         /\ Live \subseteq Handles /\ Active \subseteq Live
         /\ Len(indices) \in Nat /\ DOMAIN indices = 1 .. Len(indices)
         /\ \A i \in 1 .. Len(indices) : indices[i] \in Nat
         /\ \A h \in Live : PosOf(h) \in 1 .. Len(indices) /\ FileIndex(h) \in Nat
         /\ IsFiniteSet(Active)
<1>1. /\ slots \in Seq([file : Files, pos : Nat \ {0}, active : BOOLEAN])
      /\ free \in Seq(Nat \ {0})
      /\ indices \in Seq(Nat)
  BY DEF StoreOK, TypeOK
<1>2. /\ Len(slots) \in Nat /\ Handles = 1 .. Len(slots)
      /\ \A h \in Handles : slots[h] \in [file : Files, pos : Nat \ {0}, active : BOOLEAN]
  <2>1. Len(slots) \in Nat /\ Handles = 1 .. Len(slots)
    BY <1>1 DEF Handles
  <2>2. \A h \in Handles : slots[h] \in [file : Files, pos : Nat \ {0}, active : BOOLEAN]
    BY <1>1, <2>1, ElementOfSeq
  <2> QED
    BY <2>1, <2>2
<1>3. Len(free) \in Nat /\ DOMAIN free = 1 .. Len(free)
  BY <1>1
<1>4. /\ Len(indices) \in Nat /\ DOMAIN indices = 1 .. Len(indices)
      /\ \A i \in 1 .. Len(indices) : indices[i] \in Nat
  BY <1>1
<1>5. Freed \subseteq Handles \ Active
  BY DEF StoreOK, SlotsMatchIndices
<1>6. Live \subseteq Handles /\ Active \subseteq Live
  BY <1>5 DEF Live, Active
<1>7. \A h \in Live : PosOf(h) \in 1 .. Len(indices)
  BY <1>4 DEF StoreOK, SlotsMatchIndices
<1>8. \A h \in Live : FileIndex(h) \in Nat
  BY <1>4, <1>7 DEF FileIndex
<1>9. IsFiniteSet(Active)
  <2>1. IsFiniteSet(1 .. Len(slots))
    BY <1>2, FS_Interval, 1 \in Int
  <2>2. Active \in SUBSET (1 .. Len(slots))
    BY <1>2, <1>6
  <2> QED
    BY <2>1, <2>2, FS_Subset
<1> QED
  BY <1>2, <1>3, <1>4, <1>5, <1>6, <1>7, <1>8, <1>9

(* The invariants of the store again, clause by clause.                    *)
LEMMA OrderFacts ==
  ASSUME StoreOK
  PROVE  /\ num \in Nat /\ num = Cardinality(Active)
         /\ \A g, h \in Live : PosOf(g) = PosOf(h) => g = h
         /\ \A k \in 1 .. Len(indices) : \E h \in Live : PosOf(h) = k
         /\ \A h \in Active : FileIndex(h) < num
         /\ \A h \in Live : FileIndex(h) <= num
         /\ \A g, h \in Live : PosOf(g) < PosOf(h) => FileIndex(g) <= FileIndex(h)
         /\ \A g, h \in Live : PosOf(g) < PosOf(h) /\ g \in Active => FileIndex(g) < FileIndex(h)
<1>1. DOMAIN indices = 1 .. Len(indices)
  BY StoreFacts
<1>2. {PosOf(h) : h \in Live} = 1 .. Len(indices)
  BY <1>1 DEF StoreOK, SlotsMatchIndices
<1>3. \A k \in 1 .. Len(indices) : \E h \in Live : PosOf(h) = k
  BY <1>2
<1> QED
  BY <1>3 DEF StoreOK, TypeOK, SlotsMatchIndices, IndicesOrderFiles

(* A function on an interval from 1 is a sequence.                         *)
LEMMA FunctionIsSeq ==
  ASSUME NEW S, NEW n \in Nat, NEW f, f \in [1 .. n -> S]
  PROVE  f \in Seq(S) /\ Len(f) = n
BY SeqDef

(* Setting the loaded flag of a slot leaves the rest of the slots alone.   *)
LEMMA FlagStep ==
  ASSUME StoreOK, NEW h \in Live, NEW b \in BOOLEAN,
         slots' = [slots EXCEPT ![h].active = b], free' = free
  PROVE  /\ slots' \in Seq([file : Files, pos : Nat \ {0}, active : BOOLEAN])
         /\ Handles' = Handles /\ Live' = Live
         /\ \A g \in Handles : slots'[g].file = slots[g].file /\ slots'[g].pos = slots[g].pos
         /\ Active' = IF b THEN Active \cup {h} ELSE Active \ {h}
<1>1. /\ slots \in Seq([file : Files, pos : Nat \ {0}, active : BOOLEAN])
      /\ h \in Handles /\ Handles = 1 .. Len(slots) /\ Len(slots) \in Nat
      /\ \A g \in Handles : slots[g] \in [file : Files, pos : Nat \ {0}, active : BOOLEAN]
  BY StoreFacts DEF StoreOK, TypeOK
<1>2. slots' = [slots EXCEPT ![h] = [slots[h] EXCEPT !.active = b]]
  OBVIOUS
<1>3. [slots[h] EXCEPT !.active = b] \in [file : Files, pos : Nat \ {0}, active : BOOLEAN]
  BY <1>1
<1>4. /\ slots' \in Seq([file : Files, pos : Nat \ {0}, active : BOOLEAN])
      /\ Len(slots') = Len(slots)
  BY <1>1, <1>2, <1>3, ExceptSeq
<1>5. Handles' = Handles
  BY DEF Handles
<1>6. Live' = Live
  BY <1>5 DEF Live, Freed
<1>7. \A g \in Handles : /\ slots'[g].file = slots[g].file
                         /\ slots'[g].pos = slots[g].pos
                         /\ slots'[g].active = IF g = h THEN b ELSE slots[g].active
  BY <1>1 DEF Handles
<1>8. Active' = IF b THEN Active \cup {h} ELSE Active \ {h}
  BY <1>1, <1>5, <1>7 DEF Active
<1> QED
  BY <1>4, <1>5, <1>6, <1>7, <1>8

(* What TypeOK says beyond the arrays.                                     *)
ToldTyped ==
  /\ where \in [Files -> {"new", "in", "out", "gone"}]
  /\ known \subseteq Files /\ mirror \in Seq(Files) /\ disturbed \in BOOLEAN

(* When a file is unloaded, the files behind it in load order move down.   *)
LEMMA UnloadStore ==
  ASSUME StoreOK, ToldTyped', NEW h \in Active,
         slots' = [slots EXCEPT ![h].active = FALSE], free' = free,
         indices' = Lowered(PosOf(h)), num' = num - 1
  PROVE  StoreOK'
<1> DEFINE k == PosOf(h)
<1>1. /\ h \in Live /\ k \in 1 .. Len(indices) /\ Len(indices) \in Nat
      /\ DOMAIN indices = 1 .. Len(indices)
      /\ \A i \in 1 .. Len(indices) : indices[i] \in Nat
      /\ \A g \in Live : PosOf(g) \in 1 .. Len(indices) /\ FileIndex(g) \in Nat
      /\ Live \subseteq Handles /\ Active \subseteq Live
  BY StoreFacts
<1>2. /\ slots' \in Seq([file : Files, pos : Nat \ {0}, active : BOOLEAN])
      /\ Handles' = Handles /\ Live' = Live
      /\ \A g \in Handles : slots'[g].file = slots[g].file /\ slots'[g].pos = slots[g].pos
      /\ Active' = Active \ {h}
  BY <1>1, FlagStep
<1>3. \A i \in 1 .. Len(indices) : indices'[i] = IF i > k THEN indices[i] - 1 ELSE indices[i]
  BY <1>1 DEF Lowered
<1>4. \A i \in 1 .. Len(indices) : i > k => indices[i] >= 1
  <2>1. ASSUME NEW i \in 1 .. Len(indices), i > k
        PROVE  indices[i] >= 1
    <3>1. PICK g \in Live : PosOf(g) = i
      BY OrderFacts
    <3>2. FileIndex(h) < FileIndex(g)
      BY <1>1, <2>1, <3>1, OrderFacts
    <3> QED
      BY <1>1, <3>1, <3>2 DEF FileIndex
  <2> QED
    BY <2>1
<1>5. indices' \in Seq(Nat) /\ Len(indices') = Len(indices)
  <2>1. indices' \in [1 .. Len(indices) -> Nat]
    BY <1>1, <1>4 DEF Lowered
  <2> QED
    BY <1>1, <2>1, FunctionIsSeq
<1>6. FileIndex(h) < num /\ num \in Nat
  BY OrderFacts
<1>7. \A g \in Live : PosOf(g)' = PosOf(g)
  BY <1>1, <1>2 DEF PosOf
<1>8. \A g \in Live : FileIndex(g)' = IF PosOf(g) > k THEN FileIndex(g) - 1 ELSE FileIndex(g)
  BY <1>1, <1>3, <1>7 DEF FileIndex
<1>9. TypeOK'
  <2>1. num' \in Nat
    BY <1>1, <1>6
  <2>2. free' \in Seq(Nat \ {0})
    BY DEF StoreOK, TypeOK
  <2> QED
    BY <1>2, <1>5, <2>1, <2>2 DEF TypeOK, ToldTyped
<1>10. SlotsMatchIndices'
  <2>1. Freed' = Freed /\ Freed' \subseteq Handles' \ Active'
    BY <1>2 DEF Freed, StoreOK, SlotsMatchIndices
  <2>2. \A i, j \in DOMAIN free' : free'[i] = free'[j] => i = j
    BY DEF StoreOK, SlotsMatchIndices
  <2>3. {PosOf(g)' : g \in Live'} = DOMAIN indices'
    <3>1. DOMAIN indices' = 1 .. Len(indices)
      BY <1>1 DEF Lowered
    <3>2. \A g \in Live' : PosOf(g)' \in DOMAIN indices'
      BY <1>1, <1>2, <1>7, <3>1
    <3>3. \A i \in DOMAIN indices' : \E g \in Live' : PosOf(g)' = i
      BY <1>2, <1>7, <3>1, OrderFacts
    <3> QED
      BY <3>2, <3>3
  <2>4. \A f, g \in Live' : PosOf(f)' = PosOf(g)' => f = g
    BY <1>2, <1>7, OrderFacts
  <2> QED
    BY <2>1, <2>2, <2>3, <2>4 DEF SlotsMatchIndices
<1>11. num' = Cardinality(Active')
  <2>1. Cardinality(Active \ {h}) = Cardinality(Active) - 1
    BY StoreFacts, FS_RemoveElement
  <2> QED
    BY <1>2, <2>1, OrderFacts
<1>12. \A g \in Live : g # h => PosOf(g) < k \/ PosOf(g) > k
  BY <1>1, OrderFacts
<1>13. \A g \in Live : /\ PosOf(g) < k => FileIndex(g) <= FileIndex(h)
                       /\ PosOf(g) < k /\ g \in Active => FileIndex(g) < FileIndex(h)
                       /\ PosOf(g) > k => FileIndex(h) < FileIndex(g)
  BY <1>1, OrderFacts
<1>14. ASSUME NEW g \in Active'
       PROVE  FileIndex(g)' < num'
  <2>1. g \in Active /\ g # h /\ g \in Live
    BY <1>1, <1>2, <1>14
  <2>2. FileIndex(g) < num
    BY <2>1, OrderFacts
  <2> QED
    BY <1>1, <1>6, <1>8, <1>12, <1>13, <2>1, <2>2
<1>15. ASSUME NEW g \in Live'
       PROVE  FileIndex(g)' <= num'
  <2>1. g \in Live /\ FileIndex(g) <= num
    BY <1>2, OrderFacts
  <2> QED
    BY <1>1, <1>6, <1>8, <1>12, <1>13, <2>1
<1>16. ASSUME NEW f \in Live', NEW g \in Live', PosOf(f)' < PosOf(g)'
       PROVE  FileIndex(f)' <= FileIndex(g)' /\ (f \in Active' => FileIndex(f)' < FileIndex(g)')
  <2>1. f \in Live /\ g \in Live /\ PosOf(f) < PosOf(g)
    BY <1>2, <1>7, <1>16
  <2>2. FileIndex(f) <= FileIndex(g) /\ (f \in Active => FileIndex(f) < FileIndex(g))
    BY <2>1, OrderFacts
  <2>3. CASE PosOf(f) > k
    <3>1. PosOf(g) > k
      BY <1>1, <2>1, <2>3
    <3>2. FileIndex(f)' = FileIndex(f) - 1 /\ FileIndex(g)' = FileIndex(g) - 1
      BY <1>8, <2>1, <2>3, <3>1
    <3>3. f # h /\ FileIndex(f) \in Nat /\ FileIndex(g) \in Nat
      BY <1>1, <2>1, <2>3
    <3>4. f \in Active' => f \in Active
      BY <1>2, <3>3
    <3> QED
      BY <2>2, <3>2, <3>3, <3>4
  <2>4. CASE PosOf(f) < k /\ PosOf(g) > k
    <3>1. FileIndex(f)' = FileIndex(f) /\ FileIndex(g)' = FileIndex(g) - 1
      BY <1>1, <1>8, <2>1, <2>4
    <3>2. FileIndex(f) \in Nat /\ FileIndex(h) \in Nat /\ FileIndex(g) \in Nat
      BY <1>1, <2>1
    <3> QED
      BY <1>2, <1>13, <2>1, <2>4, <3>1, <3>2
  <2>5. CASE f = h
    BY <1>1, <1>2, <1>8, <1>13, <2>1, <2>5
  <2>6. CASE PosOf(g) <= k
    <3>1. FileIndex(f)' = FileIndex(f) /\ FileIndex(g)' = FileIndex(g)
      BY <1>1, <1>8, <2>1, <2>6
    <3>2. f # h
      BY <1>1, <2>1, <2>6
    <3> QED
      BY <1>2, <2>2, <3>1, <3>2
  <2> QED
    BY <1>1, <1>12, <2>1, <2>3, <2>4, <2>5, <2>6
<1>17. IndicesOrderFiles'
  BY <1>11, <1>14, <1>15, <1>16 DEF IndicesOrderFiles
<1> QED
  BY <1>9, <1>10, <1>17 DEF StoreOK

(* When it comes back they move up.                                        *)
LEMMA ReactivateStore ==
  ASSUME StoreOK, ToldTyped', NEW h \in Live \ Active,
         slots' = [slots EXCEPT ![h].active = TRUE], free' = free,
         indices' = Raised(PosOf(h)), num' = num + 1
  PROVE  StoreOK'
<1> DEFINE k == PosOf(h)
<1>1. /\ h \in Live /\ k \in 1 .. Len(indices) /\ Len(indices) \in Nat
      /\ DOMAIN indices = 1 .. Len(indices)
      /\ \A i \in 1 .. Len(indices) : indices[i] \in Nat
      /\ \A g \in Live : PosOf(g) \in 1 .. Len(indices) /\ FileIndex(g) \in Nat
      /\ Live \subseteq Handles /\ Active \subseteq Live
  BY StoreFacts
<1>2. /\ slots' \in Seq([file : Files, pos : Nat \ {0}, active : BOOLEAN])
      /\ Handles' = Handles /\ Live' = Live
      /\ \A g \in Handles : slots'[g].file = slots[g].file /\ slots'[g].pos = slots[g].pos
      /\ Active' = Active \cup {h}
  BY <1>1, FlagStep
<1>3. \A i \in 1 .. Len(indices) : indices'[i] = IF i > k THEN indices[i] + 1 ELSE indices[i]
  BY <1>1 DEF Raised
<1>4. indices' \in Seq(Nat) /\ Len(indices') = Len(indices)
  <2>1. indices' \in [1 .. Len(indices) -> Nat]
    BY <1>1 DEF Raised
  <2> QED
    BY <1>1, <2>1, FunctionIsSeq
<1>5. FileIndex(h) <= num /\ num \in Nat
  BY OrderFacts
<1>6. \A g \in Live : PosOf(g)' = PosOf(g)
  BY <1>1, <1>2 DEF PosOf
<1>7. \A g \in Live : FileIndex(g)' = IF PosOf(g) > k THEN FileIndex(g) + 1 ELSE FileIndex(g)
  BY <1>1, <1>3, <1>6 DEF FileIndex
<1>8. TypeOK'
  <2>1. num' \in Nat
    BY <1>1, <1>5
  <2>2. free' \in Seq(Nat \ {0})
    BY DEF StoreOK, TypeOK
  <2> QED
    BY <1>2, <1>4, <2>1, <2>2 DEF TypeOK, ToldTyped
<1>9. SlotsMatchIndices'
  <2>1. Freed' = Freed /\ Freed' \subseteq Handles' \ Active'
    BY <1>2 DEF Freed, Live, StoreOK, SlotsMatchIndices
  <2>2. \A i, j \in DOMAIN free' : free'[i] = free'[j] => i = j
    BY DEF StoreOK, SlotsMatchIndices
  <2>3. {PosOf(g)' : g \in Live'} = DOMAIN indices'
    <3>1. DOMAIN indices' = 1 .. Len(indices)
      BY <1>1 DEF Raised
    <3>2. \A g \in Live' : PosOf(g)' \in DOMAIN indices'
      BY <1>1, <1>2, <1>6, <3>1
    <3>3. \A i \in DOMAIN indices' : \E g \in Live' : PosOf(g)' = i
      BY <1>2, <1>6, <3>1, OrderFacts
    <3> QED
      BY <3>2, <3>3
  <2>4. \A f, g \in Live' : PosOf(f)' = PosOf(g)' => f = g
    BY <1>2, <1>6, OrderFacts
  <2> QED
    BY <2>1, <2>2, <2>3, <2>4 DEF SlotsMatchIndices
<1>10. num' = Cardinality(Active')
  <2>1. Cardinality(Active \cup {h}) = Cardinality(Active) + 1
    BY StoreFacts, FS_AddElement
  <2> QED
    BY <1>2, <2>1, OrderFacts
<1>11. \A g \in Live : g # h => PosOf(g) < k \/ PosOf(g) > k
  BY <1>1, OrderFacts
<1>12. \A g \in Live : /\ PosOf(g) < k => FileIndex(g) <= FileIndex(h)
                       /\ PosOf(g) < k /\ g \in Active => FileIndex(g) < FileIndex(h)
                       /\ PosOf(g) > k => FileIndex(h) <= FileIndex(g)
  BY <1>1, OrderFacts
<1>13. ASSUME NEW g \in Active'
       PROVE  FileIndex(g)' < num'
  <2>1. g \in Live /\ (g = h \/ g \in Active)
    BY <1>1, <1>2, <1>13
  <2>2. g \in Active => FileIndex(g) < num
    BY OrderFacts
  <2> QED
    BY <1>1, <1>5, <1>7, <2>1, <2>2
<1>14. ASSUME NEW g \in Live'
       PROVE  FileIndex(g)' <= num'
  <2>1. g \in Live /\ FileIndex(g) <= num
    BY <1>2, OrderFacts
  <2> QED
    BY <1>1, <1>5, <1>7, <2>1
<1>15. ASSUME NEW f \in Live', NEW g \in Live', PosOf(f)' < PosOf(g)'
       PROVE  FileIndex(f)' <= FileIndex(g)' /\ (f \in Active' => FileIndex(f)' < FileIndex(g)')
  <2>1. f \in Live /\ g \in Live /\ PosOf(f) < PosOf(g)
    BY <1>2, <1>6, <1>15
  <2>2. FileIndex(f) <= FileIndex(g) /\ (f \in Active => FileIndex(f) < FileIndex(g))
    BY <2>1, OrderFacts
  <2>3. CASE PosOf(f) > k
    <3>1. PosOf(g) > k
      BY <1>1, <2>1, <2>3
    <3>2. FileIndex(f)' = FileIndex(f) + 1 /\ FileIndex(g)' = FileIndex(g) + 1
      BY <1>7, <2>1, <2>3, <3>1
    <3>3. f # h /\ FileIndex(f) \in Nat /\ FileIndex(g) \in Nat
      BY <1>1, <2>1, <2>3
    <3>4. f \in Active' => f \in Active
      BY <1>2, <3>3
    <3> QED
      BY <2>2, <3>2, <3>3, <3>4
  <2>4. CASE PosOf(f) < k /\ PosOf(g) > k
    <3>1. FileIndex(f)' = FileIndex(f) /\ FileIndex(g)' = FileIndex(g) + 1
      BY <1>1, <1>7, <2>1, <2>4
    <3>2. FileIndex(f) \in Nat /\ FileIndex(h) \in Nat /\ FileIndex(g) \in Nat
      BY <1>1, <2>1
    <3> QED
      BY <1>2, <1>12, <2>1, <2>4, <3>1, <3>2
  <2>5. CASE f = h
    BY <1>1, <1>2, <1>7, <1>12, <2>1, <2>5
  <2>6. CASE PosOf(g) <= k
    <3>1. FileIndex(f)' = FileIndex(f) /\ FileIndex(g)' = FileIndex(g)
      BY <1>1, <1>7, <2>1, <2>6
    <3>2. f # h
      BY <1>1, <2>1, <2>6
    <3> QED
      BY <1>2, <2>2, <3>1, <3>2
  <2> QED
    BY <1>1, <1>11, <2>1, <2>3, <2>4, <2>5, <2>6
<1>16. IndicesOrderFiles'
  BY <1>10, <1>13, <1>14, <1>15 DEF IndicesOrderFiles
<1> QED
  BY <1>8, <1>9, <1>16 DEF StoreOK

(* When the entry of a destroyed file is erased, the slots of the files    *)
(* behind it follow their entries.                                         *)
LEMMA EraseStore ==
  ASSUME StoreOK, ToldTyped', NEW h \in Live \ Active,
         indices' = Dropped(indices, PosOf(h)), slots' = MovedUp(PosOf(h)),
         free' = Append(free, h), num' = num
  PROVE  /\ StoreOK'
         /\ Handles' = Handles /\ Live' = Live \ {h} /\ Active' = Active
         /\ \A g \in Handles : slots'[g].file = slots[g].file
         /\ \A g \in Live' :
              /\ g \in Live /\ PosOf(g) # PosOf(h) /\ FileIndex(g)' = FileIndex(g)
              /\ PosOf(g)' = IF PosOf(g) > PosOf(h) THEN PosOf(g) - 1 ELSE PosOf(g)
<1> DEFINE k == PosOf(h)
           Slot == [file : Files, pos : Nat \ {0}, active : BOOLEAN]
<1>1. /\ h \in Live /\ k \in 1 .. Len(indices) /\ Len(indices) \in Nat
      /\ h \in Handles /\ h \notin Active
      /\ \A i \in 1 .. Len(indices) : indices[i] \in Nat
      /\ \A g \in Live : PosOf(g) \in 1 .. Len(indices) /\ FileIndex(g) \in Nat
      /\ Live \subseteq Handles /\ Active \subseteq Live
  BY StoreFacts
<1>2. /\ Len(slots) \in Nat /\ Handles = 1 .. Len(slots)
      /\ \A g \in Handles : slots[g] \in Slot
  BY StoreFacts
<1>3. k \in Nat /\ \A g \in Live : PosOf(g) \in Nat /\ PosOf(g) >= 1 /\ PosOf(g) <= Len(indices)
  BY <1>1
<1>4. /\ DOMAIN slots' = Handles
      /\ \A g \in Handles :
           slots'[g] = IF PosOf(g) > k THEN [slots[g] EXCEPT !.pos = @ - 1] ELSE slots[g]
  BY DEF MovedUp
<1>5. \A g \in Handles : slots[g].pos \in Nat /\ PosOf(g) = slots[g].pos
  BY <1>2 DEF PosOf
<1>6. ASSUME NEW g \in Handles
      PROVE  /\ slots'[g] \in Slot
             /\ slots'[g].file = slots[g].file /\ slots'[g].active = slots[g].active
             /\ slots'[g].pos = IF PosOf(g) > k THEN PosOf(g) - 1 ELSE PosOf(g)
  <2>1. slots[g] \in Slot /\ k \in Nat \ {0} /\ PosOf(g) = slots[g].pos
    BY <1>2, <1>1, <1>5
  <2>2. CASE PosOf(g) > k
    <3>1. slots'[g] = [slots[g] EXCEPT !.pos = @ - 1]
      BY <1>4, <2>2
    <3>2. slots[g].pos - 1 \in Nat \ {0}
      BY <2>1, <2>2
    <3> QED
      BY <2>1, <2>2, <3>1, <3>2
  <2>3. CASE ~(PosOf(g) > k)
    BY <1>4, <2>1, <2>3
  <2> QED
    BY <2>2, <2>3
<1>7. slots' \in Seq(Slot)
  <2>1. slots' = [g \in Handles |-> slots'[g]]
    BY DEF MovedUp
  <2>2. slots' \in [1 .. Len(slots) -> Slot]
    BY <1>2, <1>6, <2>1
  <2> QED
    BY <1>2, <2>2, FunctionIsSeq
<1>8. Handles' = Handles /\ Active' = Active
  BY <1>4, <1>6 DEF Handles, Active
<1>9. /\ free' \in Seq(Nat \ {0}) /\ Len(free') = Len(free) + 1 /\ Len(free) \in Nat
      /\ \A i \in 1 .. Len(free) : free'[i] = free[i]
      /\ free'[Len(free) + 1] = h
      /\ DOMAIN free = 1 .. Len(free) /\ DOMAIN free' = 1 .. Len(free')
  <2>1. free \in Seq(Nat \ {0}) /\ h \in Nat \ {0}
    BY <1>2, <1>1 DEF StoreOK, TypeOK
  <2> QED
    BY <2>1, AppendProperties
<1>10. Freed' = Freed \cup {h}
  BY <1>9 DEF Freed
<1>11. Live' = Live \ {h}
  BY <1>8, <1>10 DEF Live
<1>12. h \notin Freed /\ Freed \subseteq Handles \ Active
  BY <1>1 DEF Live, StoreOK, SlotsMatchIndices
<1>13. /\ DOMAIN indices' = 1 .. Len(indices) - 1
       /\ \A i \in 1 .. Len(indices) - 1 : indices'[i] = IF i < k THEN indices[i] ELSE indices[i + 1]
  BY DEF Dropped
<1>14. indices' \in Seq(Nat)
  <2>1. ASSUME NEW i \in 1 .. Len(indices) - 1
        PROVE  indices'[i] \in Nat
    <3>1. i \in 1 .. Len(indices) /\ i + 1 \in 1 .. Len(indices)
      BY <1>1
    <3> QED
      BY <1>1, <1>13, <3>1
  <2>2. indices' = [i \in 1 .. Len(indices) - 1 |-> indices'[i]]
    BY DEF Dropped
  <2>3. indices' \in [1 .. Len(indices) - 1 -> Nat]
    BY <2>1, <2>2
  <2>4. Len(indices) - 1 \in Nat
    BY <1>1
  <2> QED
    BY <2>3, <2>4, FunctionIsSeq, Zenon
<1>15. \A g \in Live' : /\ g \in Live /\ PosOf(g) # k
                        /\ PosOf(g)' = IF PosOf(g) > k THEN PosOf(g) - 1 ELSE PosOf(g)
  BY <1>1, <1>6, <1>11, OrderFacts DEF PosOf
<1>16. ASSUME NEW g \in Live'
       PROVE  FileIndex(g)' = FileIndex(g)
  <2>1. g \in Live /\ PosOf(g) \in 1 .. Len(indices) /\ PosOf(g) # k
    BY <1>1, <1>15
  <2>2. CASE PosOf(g) > k
    <3>1. PosOf(g)' = PosOf(g) - 1 /\ PosOf(g)' \in 1 .. Len(indices) - 1 /\ ~(PosOf(g)' < k)
      BY <1>1, <1>15, <2>1, <2>2
    <3>2. indices'[PosOf(g)'] = indices[PosOf(g)' + 1] /\ PosOf(g)' + 1 = PosOf(g)
      BY <1>13, <2>1, <3>1
    <3> QED
      BY <3>2 DEF FileIndex
  <2>3. CASE PosOf(g) < k
    <3>1. PosOf(g)' = PosOf(g) /\ PosOf(g)' \in 1 .. Len(indices) - 1 /\ PosOf(g)' < k
      BY <1>1, <1>15, <2>1, <2>3
    <3> QED
      BY <1>13, <3>1 DEF FileIndex
  <2> QED
    BY <1>1, <2>1, <2>2, <2>3
<1>17. TypeOK'
  BY <1>7, <1>9, <1>14 DEF StoreOK, TypeOK, ToldTyped
<1>18. SlotsMatchIndices'
  <2>1. Freed' \subseteq Handles' \ Active'
    BY <1>1, <1>8, <1>10, <1>12
  <2>2. ASSUME NEW i \in DOMAIN free', NEW j \in DOMAIN free', free'[i] = free'[j]
        PROVE  i = j
    <3>1. \A m \in 1 .. Len(free) : free[m] # h
      BY <1>9, <1>12 DEF Freed
    <3>2. \A m \in DOMAIN free' : m \in 1 .. Len(free) \/ m = Len(free) + 1
      BY <1>9
    <3>3. \A m, q \in 1 .. Len(free) : free[m] = free[q] => m = q
      BY <1>9 DEF StoreOK, SlotsMatchIndices
    <3> QED
      BY <1>9, <2>2, <3>1, <3>2, <3>3
  <2>3. {PosOf(g)' : g \in Live'} = DOMAIN indices'
    <3>1. ASSUME NEW g \in Live'
          PROVE  PosOf(g)' \in DOMAIN indices'
      <4>1. g \in Live /\ PosOf(g) # k /\ k >= 1 /\ k <= Len(indices)
        BY <1>1, <1>15
      <4>2. PosOf(g)' \in Nat /\ PosOf(g)' >= 1 /\ PosOf(g)' <= Len(indices) - 1
        BY <1>15, <1>3, <4>1
      <4> QED
        BY <1>13, <4>2
    <3>2. ASSUME NEW i \in DOMAIN indices'
          PROVE  \E g \in Live' : PosOf(g)' = i
      <4>1. i \in 1 .. Len(indices) /\ i + 1 \in 1 .. Len(indices) /\ i \in Nat
        BY <1>1, <1>13
      <4>2. CASE i < k
        <5>1. PICK g \in Live : PosOf(g) = i
          BY <4>1, OrderFacts
        <5>2. g \in Live' /\ ~(PosOf(g) > k)
          BY <1>1, <1>11, <4>1, <4>2, <5>1
        <5> QED
          BY <1>15, <5>1, <5>2
      <4>3. CASE i >= k
        <5>1. PICK g \in Live : PosOf(g) = i + 1
          BY <4>1, OrderFacts
        <5>2. g \in Live' /\ PosOf(g) > k
          BY <1>1, <1>11, <4>1, <4>3, <5>1
        <5> QED
          BY <1>15, <4>1, <5>1, <5>2
      <4> QED
        BY <1>1, <4>1, <4>2, <4>3
    <3> QED
      BY <3>1, <3>2
  <2>4. ASSUME NEW f \in Live', NEW g \in Live', PosOf(f)' = PosOf(g)'
        PROVE  f = g
    <3>1. /\ PosOf(f) \in Nat /\ PosOf(g) \in Nat /\ PosOf(f) # k /\ PosOf(g) # k /\ k \in Nat
      BY <1>15, <1>3
    <3>2. PosOf(f) = PosOf(g)
      BY <1>15, <2>4, <3>1
    <3> QED
      BY <1>15, <3>2, OrderFacts
  <2> QED
    BY <2>1, <2>2, <2>3, <2>4 DEF SlotsMatchIndices
<1>19. IndicesOrderFiles'
  <2>1. num' = Cardinality(Active')
    BY <1>8, OrderFacts
  <2>2. \A g \in Active' : g \in Live' /\ g \in Active
    BY <1>1, <1>8, <1>11
  <2>3. \A g \in Active' : FileIndex(g)' < num'
    BY <1>16, <2>2, OrderFacts
  <2>4. ASSUME NEW f \in Live', NEW g \in Live', PosOf(f)' < PosOf(g)'
        PROVE  FileIndex(f)' <= FileIndex(g)' /\ (f \in Active' => FileIndex(f)' < FileIndex(g)')
    <3>1. /\ PosOf(f) \in Nat /\ PosOf(g) \in Nat /\ PosOf(f) # k /\ PosOf(g) # k /\ k \in Nat
      BY <1>15, <1>3
    <3>2. PosOf(f) < PosOf(g)
      BY <1>15, <2>4, <3>1
    <3> QED
      BY <1>8, <1>15, <1>16, <3>2, OrderFacts
  <2>5. \A g \in Live' : FileIndex(g)' <= num'
    BY <1>15, <1>16, OrderFacts
  <2> QED
    BY <2>1, <2>3, <2>4, <2>5 DEF IndicesOrderFiles
<1> QED
  BY <1>6, <1>8, <1>11, <1>15, <1>16, <1>17, <1>18, <1>19 DEF StoreOK

(* A file that is added gets a fresh handle, or the one released last, and *)
(* the last place in load order.                                           *)
AddedLast(f) ==
  /\ slots' = [h \in Handles \cup {NewHandle} |->
                 IF h = NewHandle THEN [file |-> f, pos |-> Len(indices) + 1, active |-> TRUE]
                                  ELSE slots[h]]
  /\ free' = IF free = <<>> THEN free ELSE SubSeq(free, 1, Len(free) - 1)
  /\ indices' = Append(indices, num) /\ num' = num + 1

LEMMA AddStore ==
  ASSUME StoreOK, ToldTyped', NEW f \in Files, AddedLast(f)
  PROVE  /\ StoreOK'
         /\ NewHandle \in Nat \ {0} /\ NewHandle \notin Live
         /\ Handles' = Handles \cup {NewHandle}
         /\ Live' = Live \cup {NewHandle} /\ Active' = Active \cup {NewHandle}
         /\ \A g \in Handles : g # NewHandle => slots'[g].file = slots[g].file
         /\ slots'[NewHandle].file = f
         /\ \A g \in Live : /\ g # NewHandle
                           /\ PosOf(g)' = PosOf(g) /\ FileIndex(g)' = FileIndex(g)
         /\ slots'[NewHandle].pos = Len(indices) + 1 /\ indices'[Len(indices) + 1] = num
<1>1. PICK n : n = NewHandle
  OBVIOUS
<1> DEFINE Slot == [file : Files, pos : Nat \ {0}, active : BOOLEAN]
           new == [file |-> f, pos |-> Len(indices) + 1, active |-> TRUE]
<1>2. /\ Len(slots) \in Nat /\ Handles = 1 .. Len(slots)
      /\ \A g \in Handles : slots[g] \in Slot
  BY StoreFacts
<1>3. /\ Len(indices) \in Nat /\ DOMAIN indices = 1 .. Len(indices)
      /\ \A i \in 1 .. Len(indices) : indices[i] \in Nat
      /\ \A g \in Live : PosOf(g) \in 1 .. Len(indices) /\ FileIndex(g) \in Nat
      /\ Live \subseteq Handles /\ Active \subseteq Live
      /\ num \in Nat
  BY StoreFacts, OrderFacts
<1>4. \A g \in Live : PosOf(g) \in Nat /\ PosOf(g) >= 1 /\ PosOf(g) <= Len(indices)
  BY <1>3
<1>5. /\ Len(free) \in Nat /\ DOMAIN free = 1 .. Len(free)
      /\ free \in Seq(Nat \ {0})
      /\ Freed \subseteq Handles \ Active
      /\ \A i, j \in 1 .. Len(free) : free[i] = free[j] => i = j
      /\ \A i \in 1 .. Len(free) : free[i] \in Freed
  BY StoreFacts DEF StoreOK, TypeOK, SlotsMatchIndices, Freed
<1>6. /\ n \in Nat \ {0} /\ n \notin Live
      /\ free' \in Seq(Nat \ {0})
      /\ Len(free') \in Nat /\ DOMAIN free' = 1 .. Len(free')
      /\ \A i \in 1 .. Len(free') : i \in 1 .. Len(free) /\ free'[i] = free[i]
      /\ Freed' = Freed \ {n}
      /\ \E m \in Nat : Handles \cup {n} = 1 .. m
  <2>1. CASE free = <<>>
    <3>1. n = Len(slots) + 1 /\ Freed = {} /\ free' = free
      BY <1>1, <2>1 DEF NewHandle, Freed, AddedLast
    <3>2. Handles \cup {n} = 1 .. n /\ n \in Nat \ {0} /\ n \notin Handles
      BY <1>2, <3>1
    <3>3. Freed' = Freed
      BY <3>1 DEF Freed
    <3> QED
      BY <1>3, <1>5, <3>1, <3>2, <3>3
  <2>2. CASE free # <<>>
    <3>1. n = free[Len(free)] /\ free' = SubSeq(free, 1, Len(free) - 1)
      BY <1>1, <2>2 DEF NewHandle, AddedLast
    <3>2. Len(free) \in Nat \ {0} /\ Len(free) \in 1 .. Len(free)
      BY <1>5, <2>2, EmptySeq
    <3>3. n \in Freed /\ n \in Handles /\ n \notin Live
      BY <1>5, <3>1, <3>2 DEF Live
    <3>4. /\ free' \in Seq(Nat \ {0})
          /\ Len(free') = Len(free) - 1
          /\ \A i \in 1 .. Len(free) - 1 : free'[i] = free[i]
      BY <1>5, <3>1, <3>2
    <3>5. DOMAIN free' = 1 .. Len(free) - 1
      BY <3>4
    <3>6. \A i \in 1 .. Len(free') : i \in 1 .. Len(free) /\ i # Len(free) /\ free'[i] = free[i]
      BY <3>2, <3>4
    <3>7. Freed' = Freed \ {n}
      <4>1. ASSUME NEW x \in Freed'
            PROVE  x \in Freed \ {n}
        <5>1. PICK i \in 1 .. Len(free') : x = free'[i]
          BY <3>4, <3>5 DEF Freed
        <5> QED
          BY <1>5, <3>1, <3>2, <3>6, <5>1
      <4>2. ASSUME NEW x \in Freed \ {n}
            PROVE  x \in Freed'
        <5>1. PICK i \in 1 .. Len(free) : x = free[i]
          BY <1>5 DEF Freed
        <5>2. i \in 1 .. Len(free) - 1
          BY <3>1, <3>2, <5>1
        <5> QED
          BY <3>4, <3>5, <5>1, <5>2 DEF Freed
      <4> QED
        BY <4>1, <4>2
    <3>8. n \in Nat \ {0} /\ Handles \cup {n} = 1 .. Len(slots)
      BY <1>2, <3>3
    <3>9. \E m \in Nat : Handles \cup {n} = 1 .. m
      BY <1>2, <3>8
    <3>10. Len(free') \in Nat /\ DOMAIN free' = 1 .. Len(free')
      BY <3>2, <3>4, <3>5
    <3> QED
      BY <3>3, <3>4, <3>6, <3>7, <3>8, <3>9, <3>10
  <2> QED
    BY <2>1, <2>2
<1>7. /\ DOMAIN slots' = Handles \cup {n} /\ slots'[n] = new
      /\ \A g \in Handles : g # n => slots'[g] = slots[g]
  BY <1>1 DEF AddedLast
<1>8. Handles' = Handles \cup {n} /\ Live' = Live \cup {n}
  BY <1>5, <1>6, <1>7 DEF Handles, Live
<1>9. Active' = Active \cup {n}
  <2>1. \A g \in Handles' : slots'[g].active <=> g = n \/ g \in Active
    BY <1>3, <1>6, <1>7, <1>8 DEF Active
  <2> QED
    BY <1>3, <1>8, <2>1 DEF Active
<1>10. slots' \in Seq(Slot)
  <2>1. PICK m \in Nat : Handles \cup {n} = 1 .. m
    BY <1>6
  <2>2. new \in Slot
    BY <1>3
  <2>3. \A g \in 1 .. m : slots'[g] \in Slot
    BY <1>2, <1>7, <2>1, <2>2
  <2>4. slots' = [g \in 1 .. m |-> slots'[g]]
    BY <1>1, <2>1 DEF AddedLast
  <2>5. slots' \in [1 .. m -> Slot]
    BY <2>3, <2>4
  <2> QED
    BY <2>5, FunctionIsSeq
<1>11. /\ indices' \in Seq(Nat) /\ Len(indices') = Len(indices) + 1
       /\ DOMAIN indices' = 1 .. Len(indices) + 1
       /\ \A i \in 1 .. Len(indices) : indices'[i] = indices[i]
       /\ indices'[Len(indices) + 1] = num
  <2>1. indices \in Seq(Nat)
    BY DEF StoreOK, TypeOK
  <2>2. indices' = Append(indices, num)
    BY DEF AddedLast
  <2> QED
    BY <1>3, <2>1, <2>2, AppendProperties
<1>12. num' = num + 1 /\ num' \in Nat
  BY <1>3 DEF AddedLast
<1>13. \A g \in Live : g # n /\ PosOf(g)' = PosOf(g)
  BY <1>3, <1>6, <1>7 DEF PosOf
<1>14. PosOf(n)' = Len(indices) + 1 /\ FileIndex(n)' = num
  BY <1>7, <1>11 DEF PosOf, FileIndex
<1>15. \A g \in Live : FileIndex(g)' = FileIndex(g)
  BY <1>3, <1>11, <1>13 DEF FileIndex
<1>16. TypeOK'
  <2>1. num' \in Nat
    BY <1>12
  <2> QED
    BY <1>6, <1>10, <1>11, <2>1 DEF TypeOK, ToldTyped
<1>17. SlotsMatchIndices'
  <2>1. Freed' \subseteq Handles' \ Active'
    BY <1>5, <1>6, <1>8, <1>9
  <2>2. \A i, j \in DOMAIN free' : free'[i] = free'[j] => i = j
    BY <1>5, <1>6
  <2>3. {PosOf(g)' : g \in Live'} = DOMAIN indices'
    <3>1. ASSUME NEW g \in Live'
          PROVE  PosOf(g)' \in DOMAIN indices'
      BY <1>3, <1>4, <1>8, <1>11, <1>13, <1>14
    <3>2. ASSUME NEW i \in DOMAIN indices'
          PROVE  \E g \in Live' : PosOf(g)' = i
      <4>1. i \in 1 .. Len(indices) \/ i = Len(indices) + 1
        BY <1>3, <1>11
      <4>2. CASE i \in 1 .. Len(indices)
        BY <1>8, <1>13, <4>2, OrderFacts
      <4>3. CASE i = Len(indices) + 1
        BY <1>8, <1>14, <4>3
      <4> QED
        BY <4>1, <4>2, <4>3
    <3> QED
      BY <3>1, <3>2
  <2>4. ASSUME NEW g \in Live', NEW h \in Live', PosOf(g)' = PosOf(h)'
        PROVE  g = h
    <3>1. CASE g = n \/ h = n
      BY <1>3, <1>4, <1>8, <1>13, <1>14, <2>4, <3>1
    <3>2. CASE g # n /\ h # n
      BY <1>8, <1>13, <2>4, <3>2, OrderFacts
    <3> QED
      BY <3>1, <3>2
  <2> QED
    BY <2>1, <2>2, <2>3, <2>4 DEF SlotsMatchIndices
<1>18. IndicesOrderFiles'
  <2>1. num' = Cardinality(Active')
    <3>1. n \notin Active
      BY <1>3, <1>6
    <3>2. Cardinality(Active \cup {n}) = Cardinality(Active) + 1
      BY <3>1, StoreFacts, FS_AddElement
    <3> QED
      BY <1>9, <1>12, <3>2, OrderFacts
  <2>2. ASSUME NEW g \in Active'
        PROVE  FileIndex(g)' < num'
    <3>1. g \in Active => FileIndex(g) < num /\ FileIndex(g) \in Nat /\ FileIndex(g)' = FileIndex(g)
      BY <1>3, <1>15, OrderFacts
    <3> QED
      BY <1>3, <1>9, <1>14, <1>12, <3>1
  <2>3. ASSUME NEW g \in Live'
        PROVE  FileIndex(g)' <= num'
    <3>1. g \in Live => FileIndex(g) <= num /\ FileIndex(g) \in Nat /\ FileIndex(g)' = FileIndex(g)
      BY <1>3, <1>15, OrderFacts
    <3> QED
      BY <1>3, <1>8, <1>14, <1>12, <3>1
  <2>4. ASSUME NEW g \in Live', NEW h \in Live', PosOf(g)' < PosOf(h)'
        PROVE  FileIndex(g)' <= FileIndex(h)' /\ (g \in Active' => FileIndex(g)' < FileIndex(h)')
    <3>1. g \in Live /\ g # n
      BY <1>3, <1>4, <1>8, <1>13, <1>14, <2>4
    <3>2. FileIndex(g)' = FileIndex(g) /\ (g \in Active' => g \in Active)
      BY <1>9, <1>15, <3>1
    <3>3. CASE h = n
      BY <1>14, <3>1, <3>2, <3>3, OrderFacts
    <3>4. CASE h # n
      BY <1>8, <1>13, <1>15, <2>4, <3>1, <3>2, <3>4, OrderFacts
    <3> QED
      BY <3>3, <3>4
  <2> QED
    BY <2>1, <2>2, <2>3, <2>4 DEF IndicesOrderFiles
<1> QED
  BY <1>1, <1>6, <1>7, <1>8, <1>9, <1>11, <1>13, <1>15, <1>16, <1>17, <1>18 DEF StoreOK

-----------------------------------------------------------------------------
(* The stack in the steps that leave the arrays alone.                     *)

LEMMA SameArrays ==
  ASSUME StoreOK, ToldTyped', UNCHANGED store
  PROVE  /\ StoreOK'
         /\ Handles' = Handles /\ Live' = Live /\ Active' = Active
<1>1. slots' = slots /\ free' = free /\ indices' = indices /\ num' = num
  BY DEF store
<1>2. Handles' = Handles /\ Live' = Live /\ Active' = Active /\ Freed' = Freed
  BY <1>1 DEF Handles, Live, Active, Freed
<1>3. TypeOK'
  BY <1>1 DEF StoreOK, TypeOK, ToldTyped
<1>4. SlotsMatchIndices' /\ IndicesOrderFiles'
  BY <1>1, <1>2 DEF StoreOK, SlotsMatchIndices, IndicesOrderFiles, PosOf, FileIndex
<1> QED
  BY <1>2, <1>3, <1>4 DEF StoreOK

(* Entries have their types and fields.                                    *)
LEMMA EntryFacts ==
  /\ \A what \in Callbacks, h \in Nat :
       /\ Do(what, h) \in EntrySet
       /\ Do(what, h).do = what /\ Do(what, h).on = h /\ Len(Do(what, h).done) = 0
  /\ \A what \in Signals, hs \in Seq(Nat \ {0}) :
       /\ Signal(what, hs) \in EntrySet
       /\ Signal(what, hs).do = what /\ Signal(what, hs).done = hs
BY DEF Do, Signal, Entry, EntrySet, Callbacks, Unloading, Ending

(* Only the head can be a call of add_files, and a call from outside or    *)
(* from a listener finds a signal there.                                   *)
LEMMA NoAdding ==
  ASSUME StackOK, NEW k \in 0 .. 1, k = 1 \/ calls = <<>> \/ Head(calls).do \in Signals
  PROVE  \A j \in Depths : j > k => calls[j].do # "adding"
<1>1. calls \in Seq(EntrySet) /\ Len(calls) \in Nat
  BY LenProperties DEF StackOK, StackTyped
<1>2. \A j \in Depths : calls[j].do = "adding" => j = 1
  BY DEF StackOK, StackTyped
<1>3. CASE k = 1
  BY <1>2, <1>3
<1>4. CASE calls = <<>>
  BY <1>4 DEF Depths
<1>5. CASE Head(calls).do \in Signals /\ calls # <<>>
  <2>1. calls[1].do \in Signals
    BY <1>1, <1>5
  <2> QED
    BY <1>2, <2>1 DEF Signals
<1> QED
  BY <1>3, <1>4, <1>5

(* What stays on the stack still fits when only the whereabouts of files   *)
(* change, and no file with a callback on the stack comes in.              *)
LEMMA SurviveSame ==
  ASSUME IInv, NEW k \in 0 .. 1, k = 1 \/ calls = <<>> \/ Head(calls).do \in Signals,
         slots' = slots, Handles' = Handles, Live' = Live, Active' = Active,
         \A j \in Depths : j > k /\ calls[j].do \in Unloading \cup Ending =>
           where'[FileOf(calls[j].on)] # "in"
  PROVE  Survive(k)
<1>1. \A j \in Depths : j > k => calls[j].do # "adding"
  BY NoAdding DEF IInv
<1> QED
  BY <1>1 DEF Survive, IInv, StackOK, StackTyped, CallbacksFit, FileOf

(* The files stay apart when nothing is added.                             *)
LEMMA FilesKept ==
  ASSUME StackOK, NEW k \in 0 .. 1, NEW new \in Seq(EntrySet), Pushed(new, k), Survive(k),
         \A i \in 1 .. Len(new) : new[i].do # "adding",
         Live' \subseteq Live,
         \A g \in Live' : slots'[g].file = slots[g].file,
         \A g \in Live' : where'[slots[g].file] # "new"
  PROVE  FilesApart'
<1>1. Len(new) \in Nat
  BY LenProperties
<1>2. \A i \in 1 .. Len(calls') : calls'[i].do # "adding"
  <2>1. ASSUME NEW i \in 1 .. Len(calls')
        PROVE  calls'[i].do # "adding"
    <3>1. CASE i <= Len(new)
      BY <1>1, <3>1 DEF Pushed
    <3>2. CASE i > Len(new)
      <4>1. /\ calls'[i] = calls[i - Len(new) + k]
            /\ i - Len(new) + k \in Depths /\ i - Len(new) + k > k
        BY <1>1, <3>2 DEF Pushed
      <4> QED
        BY <4>1 DEF Survive
    <3> QED
      BY <1>1, <3>1, <3>2
  <2> QED
    BY <2>1
<1>3. \A g, h \in Live' : slots'[g].file = slots'[h].file => g = h
  BY DEF StackOK, FilesApart, FileOf
<1>4. \A g \in Live' : where'[slots'[g].file] # "new"
  OBVIOUS
<1> QED
  BY <1>2, <1>3, <1>4 DEF FilesApart, Depths, FileOf

(* Together: a step that adds no file keeps the invariant.                 *)
LEMMA QuietStep ==
  ASSUME IInv, NEW k \in 0 .. 1, NEW new \in Seq(EntrySet),
         Pushed(new, k), Survive(k), Fresh(new, k),
         \A i \in 1 .. Len(new) : new[i].do # "adding",
         StoreOK', Live' \subseteq Live,
         \A g \in Live' : slots'[g].file = slots[g].file,
         \A g \in Live' : where'[slots[g].file] # "new"
  PROVE  IInv'
<1>1. StackOK
  BY DEF IInv
<1>2. StackTyped' /\ CallbacksFit'
  BY <1>1, StackStep
<1>3. FilesApart'
  BY <1>1, FilesKept
<1> QED
  BY <1>2, <1>3 DEF IInv, StackOK

-----------------------------------------------------------------------------
(* The steps, one lemma for each.                                          *)

LEMMA ReturnStep ==
  ASSUME IInv, Return
  PROVE  IInv'
<1>1. calls \in Seq(EntrySet) /\ calls # <<>> /\ Continue(<<>>) /\ calls[1].do \in Signals
  BY DEF IInv, StackOK, StackTyped, Return, Doing
<1>2. Pushed(<<>>, 1) /\ Len(calls) > 0
  BY <1>1, ContinuePushes, EmptySeq
<1>3. UNCHANGED store /\ UNCHANGED told /\ where' = where /\ slots' = slots
  BY DEF Return, store
<1>4. ToldTyped'
  BY <1>3 DEF IInv, StoreOK, TypeOK, ToldTyped, told
<1>5. StoreOK' /\ Handles' = Handles /\ Live' = Live /\ Active' = Active
  BY <1>3, <1>4, SameArrays DEF IInv
<1>6. Survive(1)
  BY <1>3, <1>5, SurviveSame DEF IInv, StackOK, CallbacksFit
<1>7. Fresh(<<>>, 1)
  <2>1. ASSUME NEW j \in Depths, j > 1, calls[j].do = "erase", calls[j].on \in Active'
        PROVE  j > 1 + 1 /\ calls[j - 1].do \in Unloading /\ calls[j - 1].on = calls[j].on
    <3>1. calls[j - 1].do \in Unloading /\ calls[j - 1].on = calls[j].on
      BY <1>5, <2>1 DEF IInv, StackOK, CallbacksFit
    <3>2. calls[1].do \notin Unloading
      BY <1>1 DEF Signals, Unloading
    <3> QED
      BY <2>1, <3>1, <3>2 DEF Depths
  <2> QED
    BY <2>1 DEF Fresh
<1>8. /\ \A i \in 1 .. Len(<<>>) : <<>>[i].do # "adding"
      /\ \A g \in Live' : slots'[g].file = slots[g].file
      /\ \A g \in Live' : where'[slots[g].file] # "new"
  BY <1>3, <1>5 DEF IInv, StackOK, FilesApart, FileOf
<1>9. 1 \in 0 .. 1 /\ <<>> \in Seq(EntrySet)
  OBVIOUS
<1> QED
  BY <1>2, <1>5, <1>6, <1>7, <1>8, <1>9, QuietStep

(* What a new callback entry for a handle without others needs.            *)
LEMMA CallStep ==
  ASSUME IInv, NEW what \in Ending \cup {"reactivated"}, NEW h \in Live,
         ~Busy(h), Start(<<Do(what, h)>>),
         what = "erase" => h \notin Active, what = "reactivated" => h \notin Active,
         UNCHANGED store, ToldTyped',
         what \in Ending => where'[FileOf(h)] # "in",
         \A g \in Live : where'[FileOf(g)] # "new",
         \A g \in Live : g # h => where'[FileOf(g)] = where[FileOf(g)]
  PROVE  IInv'
<1> DEFINE new == <<Do(what, h)>>
<1>1. StoreOK' /\ Handles' = Handles /\ Live' = Live /\ Active' = Active /\ slots' = slots
  BY SameArrays DEF IInv, store
<1>2. h \in Nat /\ what \in Callbacks /\ what # "adding" /\ what \notin Unloading
  BY StoreFacts DEF IInv, Callbacks, Ending, Unloading
<1>3. /\ Do(what, h) \in EntrySet
      /\ Do(what, h).do = what /\ Do(what, h).on = h /\ Len(Do(what, h).done) = 0
  BY <1>2, EntryFacts
<1>4. /\ new \in Seq(EntrySet) /\ Len(new) = 1 /\ new[1] = Do(what, h)
      /\ \A i \in 1 .. Len(new) : i = 1
  BY <1>3
<1> HIDE DEF new
<1>5. calls \in Seq(EntrySet) /\ Start(new)
  BY DEF IInv, StackOK, StackTyped, new
<1>6. Pushed(new, 0)
  BY <1>4, <1>5, StartPushes
<1>7. \A j \in Depths : calls[j].on # h
  BY <1>5 DEF Busy, Depths
<1>8. calls = <<>> \/ Head(calls).do \in Signals
  BY <1>5 DEF Start
<1>9. Survive(0)
  <2>1. ASSUME NEW j \in Depths, calls[j].do \in Unloading \cup Ending
        PROVE  where'[FileOf(calls[j].on)] # "in"
    BY <1>7, <2>1 DEF IInv, StackOK, StackTyped, CallbacksFit, Callbacks
  <2>2. 0 \in 0 .. 1
    OBVIOUS
  <2> QED
    BY <1>1, <1>8, <2>1, <2>2, SurviveSame
<1>10. Fresh(new, 0)
  <2>1. \A j \in Depths : calls[j].do = "erase" /\ calls[j].on \in Active' =>
          j > 0 + 1 /\ calls[j - 1].do \in Unloading /\ calls[j - 1].on = calls[j].on
    BY <1>1 DEF IInv, StackOK, CallbacksFit
  <2>2. new[1].do = what /\ new[1].on = h /\ Len(new[1].done) = 0
    BY <1>3, <1>4
  <2>3. where'[slots'[h].file] # "in" \/ what = "reactivated"
    BY <1>1 DEF FileOf
  <2>4. \A i \in 1 .. Len(new) :
          i = 1 /\ new[i].do = what /\ new[i].on = h /\ Len(new[i].done) = 0
    BY <1>4, <2>2
  <2>5. \A i \in 1 .. Len(new) : \A j \in 1 .. Len(new[i].done) : new[i].done[j] \in Handles'
    BY <2>4
  <2>6. what \in Unloading \cup Ending => what \notin Unloading /\ what # "reactivated"
    BY <1>2 DEF Ending
  <2>7. \A i, j \in 1 .. Len(new) : ~(i < j)
    BY <2>4
  <2> QED
    BY <1>1, <1>2, <1>7, <2>1, <2>3, <2>4, <2>5, <2>6, <2>7 DEF Fresh
<1>11. /\ \A i \in 1 .. Len(new) : new[i].do # "adding"
       /\ \A g \in Live' : slots'[g].file = slots[g].file
       /\ \A g \in Live' : where'[slots[g].file] # "new"
  BY <1>1, <1>2, <1>3, <1>4 DEF FileOf
<1>12. 0 \in 0 .. 1
  OBVIOUS
<1> QED
  BY <1>1, <1>4, <1>6, <1>9, <1>10, <1>11, <1>12, QuietStep

LEMMA ForsakeStep ==
  ASSUME IInv, NEW h \in Handles, Forsake(h)
  PROVE  IInv'
<1>1. h \in Live /\ ~Busy(h) /\ where[FileOf(h)] = "out" /\ Start(<<Do("destroying", h)>>)
  BY DEF Forsake
<1>2. UNCHANGED store /\ where' = where
  BY DEF Forsake
<1>3. ToldTyped'
  BY DEF Forsake, IInv, StoreOK, TypeOK, ToldTyped
<1>4. \A g \in Live : where[FileOf(g)] # "new"
  BY DEF IInv, StackOK, FilesApart
<1>5. "destroying" \in Ending /\ "destroying" # "erase" /\ "destroying" # "reactivated"
  BY DEF Ending
<1> QED
  BY <1>1, <1>2, <1>3, <1>4, <1>5, CallStep

LEMMA UndoStep ==
  ASSUME IInv, NEW h \in Handles, Undo(h)
  PROVE  IInv'
<1>1. /\ h \in Live /\ h \notin Active /\ ~Busy(h)
      /\ where' = [where EXCEPT ![FileOf(h)] = "in"]
      /\ Start(<<Do("reactivated", h)>>)
  BY DEF Undo
<1>2. UNCHANGED store /\ known' = known /\ mirror' = mirror /\ disturbed' \in BOOLEAN
  BY DEF Undo, IInv, StoreOK, TypeOK, Announcing
<1>3. /\ where \in [Files -> {"new", "in", "out", "gone"}]
      /\ \A g \in Live : FileOf(g) \in Files /\ where[FileOf(g)] # "new"
      /\ \A g \in Live : FileOf(g) = FileOf(h) => g = h
  BY <1>1, StoreFacts DEF IInv, StoreOK, TypeOK, StackOK, FilesApart, FileOf
<1>4. ToldTyped'
  BY <1>1, <1>2, <1>3 DEF IInv, StoreOK, TypeOK, ToldTyped
<1>5. \A g \in Live : /\ where'[FileOf(g)] # "new"
                      /\ g # h => where'[FileOf(g)] = where[FileOf(g)]
  BY <1>1, <1>3
<1>6. "reactivated" \notin Ending /\ "reactivated" # "erase"
  BY DEF Ending
<1> QED
  BY <1>1, <1>2, <1>4, <1>5, <1>6, CallStep

LEMMA OneOrNone ==
  ASSUME NEW S, NEW a \in S, NEW s, s = <<>> \/ s = <<a>>
  PROVE  s \in Seq(S) /\ Len(s) \in 0 .. 1 /\ \A i \in 1 .. Len(s) : s[i] = a
<1>1. CASE s = <<>>
  BY <1>1
<1>2. CASE s = <<a>>
  <2>1. Len(s) = 1 /\ s[1] = a /\ s \in Seq(S)
    BY <1>2
  <2>2. \A i \in 1 .. Len(s) : i = 1
    BY <2>1
  <2> QED
    BY <2>1, <2>2
<1> QED
  BY <1>1, <1>2

LEMMA RemoveFileStep ==
  ASSUME IInv, NEW h \in Handles, NEW heard \in BOOLEAN, NEW kept \in BOOLEAN,
         RemoveFile(h, heard, kept)
  PROVE  IInv'
<1> DEFINE d == Do("deactivated", h)
           e == Do("destroying", h)
           x == IF heard THEN <<d>> ELSE <<>>
           y == IF kept THEN <<>> ELSE <<e>>
           new == x \o y
<1>1. /\ h \in Active /\ where[FileOf(h)] = "in" /\ Start(new)
      /\ where' = [where EXCEPT ![FileOf(h)] = "out"]
      /\ UNCHANGED store /\ known' = known /\ mirror' = mirror
  BY DEF RemoveFile
<1>2. h \in Live /\ h \in Nat
  BY <1>1, StoreFacts DEF IInv
<1>3. /\ d \in EntrySet /\ d.do = "deactivated" /\ d.on = h /\ Len(d.done) = 0
      /\ e \in EntrySet /\ e.do = "destroying" /\ e.on = h /\ Len(e.done) = 0
  BY <1>2, EntryFacts DEF Callbacks, Unloading, Ending
<1> HIDE DEF d, e
<1>4. /\ x \in Seq(EntrySet) /\ Len(x) \in 0 .. 1 /\ \A i \in 1 .. Len(x) : x[i] = d
      /\ y \in Seq(EntrySet) /\ Len(y) \in 0 .. 1 /\ \A i \in 1 .. Len(y) : y[i] = e
  <2>1. x = <<>> \/ x = <<d>>
    OBVIOUS
  <2>2. y = <<>> \/ y = <<e>>
    OBVIOUS
  <2> HIDE DEF x, y
  <2>3. x \in Seq(EntrySet) /\ Len(x) \in 0 .. 1 /\ \A i \in 1 .. Len(x) : x[i] = d
    BY <1>3, <2>1, OneOrNone
  <2>4. y \in Seq(EntrySet) /\ Len(y) \in 0 .. 1 /\ \A i \in 1 .. Len(y) : y[i] = e
    BY <1>3, <2>2, OneOrNone
  <2> QED
    BY <2>3, <2>4
<1> HIDE DEF x, y
<1>5. /\ new \in Seq(EntrySet) /\ Len(new) \in Nat /\ Len(new) = Len(x) + Len(y)
      /\ \A i \in 1 .. Len(new) : new[i] = IF i <= Len(x) THEN x[i] ELSE y[i - Len(x)]
  BY <1>4, ConcatProperties
<1>6. /\ \A i \in 1 .. Len(new) : new[i] = d \/ new[i] = e
      /\ \A i, j \in 1 .. Len(new) : i < j => new[i] = d /\ new[j] = e
  <2>1. \A i \in 1 .. Len(new) : i <= Len(x) => i \in 1 .. Len(x) /\ new[i] = d
    BY <1>4, <1>5
  <2>2. \A i \in 1 .. Len(new) : i > Len(x) => i - Len(x) \in 1 .. Len(y) /\ new[i] = e
    BY <1>4, <1>5
  <2>3. \A i, j \in 1 .. Len(new) : i < j => i <= Len(x) /\ j > Len(x)
    BY <1>4, <1>5
  <2> QED
    BY <1>4, <2>1, <2>2, <2>3
<1> HIDE DEF new
<1>7. calls \in Seq(EntrySet)
  BY DEF IInv, StackOK, StackTyped
<1>8. Pushed(new, 0)
  BY <1>1, <1>5, <1>7, StartPushes
<1>9. /\ where \in [Files -> {"new", "in", "out", "gone"}]
      /\ \A g \in Live : FileOf(g) \in Files /\ where[FileOf(g)] # "new"
  BY StoreFacts DEF IInv, StoreOK, TypeOK, StackOK, FilesApart, FileOf
<1>10. ToldTyped'
  <2>1. disturbed' \in BOOLEAN
    BY DEF RemoveFile, IInv, StoreOK, TypeOK, Announcing
  <2>2. where' \in [Files -> {"new", "in", "out", "gone"}]
    BY <1>1, <1>9
  <2> QED
    BY <1>1, <2>1, <2>2 DEF IInv, StoreOK, TypeOK, ToldTyped
<1>11. StoreOK' /\ Handles' = Handles /\ Live' = Live /\ Active' = Active /\ slots' = slots
  BY <1>1, <1>10, SameArrays DEF IInv, store
<1>12. \A g \in Live : /\ where'[FileOf(g)] # "new"
                       /\ where[FileOf(g)] # "in" => where'[FileOf(g)] # "in"
  BY <1>1, <1>9
<1>13. where'[FileOf(h)] # "in"
  BY <1>1, <1>2, <1>9
<1>14. Survive(0)
  <2>1. ASSUME NEW j \in Depths, calls[j].do \in Unloading \cup Ending
        PROVE  where'[FileOf(calls[j].on)] # "in"
    BY <1>12, <2>1 DEF IInv, StackOK, StackTyped, CallbacksFit, Callbacks
  <2>2. 0 \in 0 .. 1 /\ (calls = <<>> \/ Head(calls).do \in Signals)
    BY <1>1 DEF Start
  <2> QED
    BY <1>11, <2>1, <2>2, SurviveSame
<1>15. Fresh(new, 0)
  <2>1. \A j \in Depths : calls[j].do = "erase" /\ calls[j].on \in Active' =>
          j > 0 + 1 /\ calls[j - 1].do \in Unloading /\ calls[j - 1].on = calls[j].on
    BY <1>11 DEF IInv, StackOK, CallbacksFit
  <2>2. ASSUME NEW j \in Depths, calls[j].do \in Callbacks
        PROVE  calls[j].on # h
    BY <1>1, <2>2 DEF IInv, StackOK, CallbacksFit, Callbacks
  <2>3. \A i \in 1 .. Len(new) :
          /\ new[i].do \in {"deactivated", "destroying"}
          /\ new[i].on = h /\ Len(new[i].done) = 0
    BY <1>3, <1>6
  <2>4. \A i \in 1 .. Len(new) : \A j \in 1 .. Len(new[i].done) : new[i].done[j] \in Handles'
    BY <2>3
  <2>5. \A i, j \in 1 .. Len(new) : i < j => new[i].do \in Unloading /\ new[j].do \in Ending
    BY <1>3, <1>6 DEF Unloading, Ending
  <2>6. h \in Live' /\ h \in Active' /\ where'[slots'[h].file] # "in"
    BY <1>1, <1>2, <1>11, <1>13 DEF FileOf
  <2> QED
    BY <2>1, <2>2, <2>3, <2>4, <2>5, <2>6 DEF Fresh
<1>16. /\ \A i \in 1 .. Len(new) : new[i].do # "adding"
       /\ \A g \in Live' : slots'[g].file = slots[g].file
       /\ \A g \in Live' : where'[slots[g].file] # "new"
  BY <1>3, <1>6, <1>11, <1>12 DEF FileOf
<1>17. 0 \in 0 .. 1
  OBVIOUS
<1> QED
  BY <1>5, <1>8, <1>11, <1>14, <1>15, <1>16, <1>17, QuietStep

(* The signals that a step leaves on the stack in place of its entry.      *)
LEMMA SignalStep ==
  ASSUME IInv, NEW new \in Seq(EntrySet), calls # <<>>, Continue(new),
         calls[1].do \notin Unloading,
         \A i \in 1 .. Len(new) : new[i].do \in Signals,
         \A i \in 1 .. Len(new) : \A j \in 1 .. Len(new[i].done) : new[i].done[j] \in Handles',
         UNCHANGED <<store, where>>, ToldTyped'
  PROVE  IInv'
<1>1. calls \in Seq(EntrySet) /\ Len(new) \in Nat
  BY LenProperties DEF IInv, StackOK, StackTyped
<1>2. Pushed(new, 1)
  BY <1>1, ContinuePushes
<1>3. /\ StoreOK' /\ Handles' = Handles /\ Live' = Live /\ Active' = Active
      /\ slots' = slots /\ where' = where
  BY SameArrays DEF IInv, store
<1>4. Survive(1)
  BY <1>3, SurviveSame DEF IInv, StackOK, CallbacksFit
<1>5. Fresh(new, 1)
  <2>1. ASSUME NEW j \in Depths, j > 1, calls[j].do = "erase", calls[j].on \in Active'
        PROVE  j > 1 + 1 /\ calls[j - 1].do \in Unloading /\ calls[j - 1].on = calls[j].on
    <3>1. calls[j - 1].do \in Unloading /\ calls[j - 1].on = calls[j].on
      BY <1>3, <2>1 DEF IInv, StackOK, CallbacksFit
    <3> QED
      BY <2>1, <3>1 DEF Depths
  <2>2. \A i \in 1 .. Len(new) : /\ new[i].do \notin Callbacks
                                 /\ new[i].do \notin Unloading \cup Ending
                                 /\ new[i].do \notin {"adding", "reactivated", "erase"}
    BY DEF Signals, Callbacks, Unloading, Ending
  <2> QED
    BY <2>1, <2>2 DEF Fresh, Unloading, Ending
<1>6. /\ \A i \in 1 .. Len(new) : new[i].do # "adding"
      /\ \A g \in Live' : slots'[g].file = slots[g].file
      /\ \A g \in Live' : where'[slots[g].file] # "new"
  BY <1>3 DEF IInv, StackOK, FilesApart, FileOf, Signals
<1>7. 1 \in 0 .. 1
  OBVIOUS
<1> QED
  BY <1>2, <1>3, <1>4, <1>5, <1>6, <1>7, QuietStep

LEMMA AddDoneStep ==
  ASSUME IInv, AddDone
  PROVE  IInv'
<1> DEFINE hs == Head(calls).done
           fs == [i \in DOMAIN hs |-> FileOf(hs[i])]
           new == <<Signal("files_added", hs), Signal("changed", <<>>)>>
<1>1. /\ calls \in Seq(EntrySet) /\ calls # <<>> /\ Continue(new)
      /\ calls[1].do = "adding" /\ Head(calls) = calls[1] /\ 1 \in Depths
  BY DEF IInv, StackOK, StackTyped, AddDone, Doing, Depths
<1>2. hs \in Seq(Nat \ {0}) /\ Len(hs) \in Nat /\ DOMAIN hs = 1 .. Len(hs)
  <2>1. calls[1] \in EntrySet
    BY <1>1 DEF Depths
  <2> QED
    BY <1>1, <2>1 DEF EntrySet
<1>3. \A j \in 1 .. Len(hs) : hs[j] \in Handles
  BY <1>1 DEF IInv, StackOK, StackTyped
<1>4. /\ UNCHANGED <<store, where>> /\ Handles' = Handles /\ disturbed' = disturbed
      /\ known' = known \cup {fs[i] : i \in DOMAIN fs} /\ mirror' = mirror \o fs
  BY DEF AddDone, store, Handles
<1>5. fs \in Seq(Files)
  <2>1. \A j \in 1 .. Len(hs) : FileOf(hs[j]) \in Files
    BY <1>3, StoreFacts DEF IInv, FileOf
  <2>2. fs \in [1 .. Len(hs) -> Files]
    BY <1>2, <2>1
  <2> QED
    BY <1>2, <2>2, FunctionIsSeq
<1>6. ToldTyped'
  <2>1. {fs[i] : i \in DOMAIN fs} \subseteq Files
    BY <1>5
  <2>2. mirror' \in Seq(Files)
    BY <1>4, <1>5, ConcatProperties DEF IInv, StoreOK, TypeOK
  <2> QED
    BY <1>4, <2>1, <2>2 DEF IInv, StoreOK, TypeOK, ToldTyped
<1>7. /\ Signal("files_added", hs) \in EntrySet /\ Signal("changed", <<>>) \in EntrySet
      /\ Signal("files_added", hs).do \in Signals /\ Signal("changed", <<>>).do \in Signals
      /\ Signal("files_added", hs).done = hs /\ Len(Signal("changed", <<>>).done) = 0
  <2>1. "files_added" \in Signals /\ "changed" \in Signals /\ <<>> \in Seq(Nat \ {0})
    BY DEF Signals
  <2>2. Len(<<>>) = 0
    OBVIOUS
  <2> HIDE DEF hs
  <2>3. /\ Signal("files_added", hs) \in EntrySet
        /\ Signal("files_added", hs).do = "files_added" /\ Signal("files_added", hs).done = hs
    BY <1>2, <2>1, EntryFacts
  <2>4. /\ Signal("changed", <<>>) \in EntrySet
        /\ Signal("changed", <<>>).do = "changed" /\ Signal("changed", <<>>).done = <<>>
    BY <2>1, EntryFacts
  <2> QED
    BY <2>1, <2>2, <2>3, <2>4
<1>8. /\ new \in Seq(EntrySet) /\ Len(new) = 2
      /\ new[1] = Signal("files_added", hs) /\ new[2] = Signal("changed", <<>>)
      /\ \A i \in 1 .. Len(new) : i = 1 \/ i = 2
  BY <1>7
<1>9. calls[1].do \notin Unloading
  BY <1>1 DEF Unloading
<1> HIDE DEF new, hs
<1>10. \A i \in 1 .. Len(new) : new[i].do \in Signals
  BY <1>7, <1>8
<1>11. \A i \in 1 .. Len(new) : \A j \in 1 .. Len(new[i].done) : new[i].done[j] \in Handles'
  BY <1>3, <1>4, <1>7, <1>8
<1> QED
  BY <1>1, <1>4, <1>6, <1>8, <1>9, <1>10, <1>11, SignalStep

(* The callback at the head of the stack and the others for its handle.    *)
LEMMA HeadFacts ==
  ASSUME IInv, calls # <<>>, Head(calls).do \in Callbacks
  PROVE  /\ calls \in Seq(EntrySet) /\ 1 \in Depths
         /\ calls[1].do = Head(calls).do /\ calls[1].on = On
         /\ On \in Live /\ On \in Handles /\ On \in Nat
         /\ \A j \in Depths : j > 1 /\ calls[j].do \in Callbacks /\ calls[j].on = On =>
              calls[1].do \in Unloading /\ calls[j].do \in Ending
         /\ \A j \in Depths : j > 1 /\ calls[j].do = "erase" /\ calls[j].on \in Active =>
              calls[j - 1].do \in Unloading /\ calls[j - 1].on = calls[j].on /\ (j = 2 \/ j > 2)
<1>1. calls \in Seq(EntrySet) /\ 1 \in Depths /\ Head(calls) = calls[1]
  BY DEF IInv, StackOK, StackTyped, Depths
<1>2. calls[1].do = Head(calls).do /\ calls[1].on = On
  BY <1>1 DEF On
<1>3. On \in Live
  BY <1>1, <1>2 DEF IInv, StackOK, StackTyped
<1>4. On \in Handles /\ On \in Nat
  BY <1>3, StoreFacts DEF IInv
<1>5. \A j \in Depths : j > 1 /\ calls[j].do \in Callbacks /\ calls[j].on = On =>
        calls[1].do \in Unloading /\ calls[j].do \in Ending
  <2>1. \A i, j \in Depths :
          i < j /\ calls[i].do \in Callbacks /\ calls[j].do \in Callbacks
                /\ calls[i].on = calls[j].on =>
            calls[i].do \in Unloading /\ calls[j].do \in Ending
    BY DEF IInv, StackOK, CallbacksFit
  <2>2. \A j \in Depths : j > 1 => 1 < j
    BY DEF Depths
  <2> QED
    BY <1>1, <1>2, <2>1, <2>2
<1>6. \A j \in Depths : j > 1 /\ calls[j].do = "erase" /\ calls[j].on \in Active =>
        calls[j - 1].do \in Unloading /\ calls[j - 1].on = calls[j].on /\ (j = 2 \/ j > 2)
  BY DEF IInv, StackOK, CallbacksFit, Depths
<1> QED
  BY <1>1, <1>2, <1>3, <1>4, <1>5, <1>6

LEMMA DeactivatedStep ==
  ASSUME IInv, Deactivated
  PROVE  IInv'
<1>0. PICK h : h = On
  OBVIOUS
<1> DEFINE s == Signal("about_to_be_removed", <<h>>)
           u == Do("unload", h)
           new == <<s, u>>
<1>1. /\ calls # <<>> /\ Head(calls).do = "deactivated" /\ Continue(new)
      /\ UNCHANGED <<store, where, disturbed>>
      /\ known' = known \ {FileOf(h)}
      /\ mirror' = IF FileIndex(h) < Len(mirror) THEN Dropped(mirror, FileIndex(h) + 1) ELSE mirror
  BY <1>0 DEF Deactivated, Doing
<1>2. /\ calls \in Seq(EntrySet) /\ 1 \in Depths
      /\ calls[1].do = "deactivated" /\ calls[1].on = h
      /\ h \in Live /\ h \in Handles /\ h \in Nat
      /\ \A j \in Depths : j > 1 /\ calls[j].do \in Callbacks /\ calls[j].on = h =>
           calls[j].do \in Ending
      /\ \A j \in Depths : j > 1 /\ calls[j].do = "erase" /\ calls[j].on \in Active =>
           calls[j - 1].do \in Unloading /\ calls[j - 1].on = calls[j].on /\ (j = 2 \/ j > 2)
  BY <1>0, <1>1, HeadFacts DEF Callbacks, Unloading
<1>3. h \in Active /\ where[FileOf(h)] # "in" /\ h \in Nat \ {0}
  BY <1>2, StoreFacts DEF IInv, StackOK, CallbacksFit, Unloading
<1>4. mirror' \in Seq(Files)
  <2>1. mirror \in Seq(Files) /\ Len(mirror) \in Nat
    BY DEF IInv, StoreOK, TypeOK
  <2>2. CASE FileIndex(h) < Len(mirror)
    <3>1. FileIndex(h) \in Nat
      BY <1>2, StoreFacts DEF IInv
    <3>2. Len(mirror) - 1 \in Nat
      BY <2>1, <2>2, <3>1
    <3>3. \A i \in 1 .. Len(mirror) - 1 : mirror[i] \in Files /\ mirror[i + 1] \in Files
      <4>1. \A i \in 1 .. Len(mirror) - 1 : i \in 1 .. Len(mirror) /\ i + 1 \in 1 .. Len(mirror)
        BY <2>1
      <4> QED
        BY <2>1, <4>1
    <3>4. mirror' \in [1 .. Len(mirror) - 1 -> Files]
      BY <1>1, <2>2, <3>3 DEF Dropped
    <3> QED
      BY <3>2, <3>4, FunctionIsSeq
  <2>3. CASE ~(FileIndex(h) < Len(mirror))
    BY <1>1, <2>1, <2>3
  <2> QED
    BY <2>2, <2>3
<1>5. ToldTyped'
  BY <1>1, <1>4 DEF IInv, StoreOK, TypeOK, ToldTyped
<1>6. StoreOK' /\ Handles' = Handles /\ Live' = Live /\ Active' = Active /\ slots' = slots /\ where' = where
  BY <1>1, <1>5, SameArrays DEF IInv, store
<1>7. /\ s \in EntrySet /\ s.do = "about_to_be_removed" /\ s.done = <<h>>
      /\ u \in EntrySet /\ u.do = "unload" /\ u.on = h /\ Len(u.done) = 0
  <2>1. "about_to_be_removed" \in Signals /\ <<h>> \in Seq(Nat \ {0}) /\ "unload" \in Callbacks
    BY <1>3 DEF Signals, Callbacks, Unloading
  <2> DEFINE hs == <<h>>
  <2>2. hs \in Seq(Nat \ {0}) /\ s = Signal("about_to_be_removed", hs)
    BY <2>1
  <2> HIDE DEF hs, s, u
  <2>3. s \in EntrySet /\ s.do = "about_to_be_removed" /\ s.done = hs
    BY <2>1, <2>2, EntryFacts
  <2>4. u \in EntrySet /\ u.do = "unload" /\ u.on = h /\ Len(u.done) = 0
    BY <1>2, <2>1, EntryFacts DEF u
  <2> QED
    BY <2>3, <2>4 DEF hs
<1> HIDE DEF s, u
<1>8. /\ new \in Seq(EntrySet) /\ Len(new) = 2 /\ new[1] = s /\ new[2] = u
      /\ \A i \in 1 .. Len(new) : i = 1 \/ i = 2
  BY <1>7
<1> HIDE DEF new
<1>9. Pushed(new, 1)
  BY <1>1, <1>2, <1>8, ContinuePushes
<1>10. Survive(1)
  BY <1>6, SurviveSame DEF IInv, StackOK, CallbacksFit
<1>11. Fresh(new, 1)
  <2>1. new[1].do = "about_to_be_removed" /\ new[2].do = "unload" /\ new[2].on = h
    BY <1>7, <1>8
  <2>2. ASSUME NEW i \in 1 .. Len(new), NEW j \in 1 .. Len(new[i].done)
        PROVE  new[i].done[j] \in Handles'
    BY <1>2, <1>6, <1>7, <1>8
  <2>3. \A i \in 1 .. Len(new) : /\ new[i].do \in {"about_to_be_removed", "unload"}
                                 /\ new[i].do = "unload" => new[i].on = h
    BY <1>8, <2>1
  <2>4. "about_to_be_removed" \notin Callbacks /\ "unload" \in Unloading /\ "unload" \notin Ending
    BY DEF Callbacks, Unloading, Ending
  <2>5. \A i, j \in 1 .. Len(new) : i < j => new[i].do \notin Callbacks
    BY <1>8, <2>1, <2>4
  <2>6. h \in Live' /\ h \in Active' /\ where'[slots'[h].file] # "in"
    BY <1>2, <1>3, <1>6 DEF FileOf
  <2>7. ASSUME NEW j \in Depths, j > 1, calls[j].do = "erase", calls[j].on \in Active'
        PROVE  \/ j > 1 + 1 /\ calls[j - 1].do \in Unloading /\ calls[j - 1].on = calls[j].on
               \/ /\ j = 1 + 1 /\ Len(new) > 0
                  /\ new[Len(new)].do \in Unloading /\ new[Len(new)].on = calls[j].on
    <3>1. calls[j - 1].do \in Unloading /\ calls[j - 1].on = calls[j].on /\ (j = 2 \/ j > 2)
      BY <1>2, <1>6, <2>7
    <3> QED
      BY <1>2, <1>8, <2>1, <2>4, <3>1
  <2>8. \A i \in 1 .. Len(new) : /\ new[i].do \in Callbacks => new[i].do = "unload" /\ new[i].on = h
                                 /\ new[i].do \in Unloading \cup Ending => new[i].on = h
                                 /\ new[i].do \notin {"adding", "reactivated", "erase"}
    BY <2>3, <2>4 DEF Callbacks
  <2>9. \A i \in 1 .. Len(new), j \in Depths :
          j > 1 /\ new[i].do \in Callbacks /\ calls[j].do \in Callbacks /\ new[i].on = calls[j].on =>
            new[i].do \in Unloading /\ calls[j].do \in Ending
    BY <1>2, <2>4, <2>8
  <2>10. \A i \in 1 .. Len(new) : /\ new[i].do \in Callbacks => new[i].on \in Live'
                                  /\ new[i].do \in Unloading => new[i].on \in Active'
                                  /\ new[i].do \in Unloading \cup Ending =>
                                      where'[slots'[new[i].on].file] # "in"
    BY <2>6, <2>8
  <2> QED
    BY <2>2, <2>5, <2>7, <2>8, <2>9, <2>10 DEF Fresh
<1>12. /\ \A i \in 1 .. Len(new) : new[i].do # "adding"
       /\ \A g \in Live' : slots'[g].file = slots[g].file
       /\ \A g \in Live' : where'[slots[g].file] # "new"
  BY <1>6, <1>7, <1>8 DEF IInv, StackOK, FilesApart, FileOf
<1>13. 1 \in 0 .. 1
  OBVIOUS
<1> QED
  BY <1>6, <1>8, <1>9, <1>10, <1>11, <1>12, <1>13, QuietStep

LEMMA DestroyingStep ==
  ASSUME IInv, Destroying
  PROVE  IInv'
<1>0. PICK h : h = On
  OBVIOUS
<1> DEFINE d == Do("deactivated", h)
           e == Do("erase", h)
           x == UnloadFirst(h)
           y == <<e>>
           new == x \o y
<1>1. /\ calls # <<>> /\ Head(calls).do = "destroying" /\ Continue(new)
      /\ UNCHANGED <<store, told>>
      /\ where' = [where EXCEPT ![FileOf(h)] = "gone"]
  BY <1>0 DEF Destroying, Doing
<1>2. /\ calls \in Seq(EntrySet)
      /\ h \in Live /\ h \in Handles /\ h \in Nat
      /\ \A j \in Depths : j > 1 /\ calls[j].do \in Callbacks => calls[j].on # h
      /\ \A j \in Depths : j > 1 /\ calls[j].do = "erase" /\ calls[j].on \in Active =>
           j > 2 /\ calls[j - 1].do \in Unloading /\ calls[j - 1].on = calls[j].on
  <2>1. "destroying" \in Callbacks /\ "destroying" \notin Unloading
    BY DEF Callbacks, Unloading, Ending
  <2> QED
    BY <1>0, <1>1, <2>1, HeadFacts
<1>3. /\ where \in [Files -> {"new", "in", "out", "gone"}]
      /\ \A g \in Live : FileOf(g) \in Files /\ where[FileOf(g)] # "new"
  BY StoreFacts DEF IInv, StoreOK, TypeOK, StackOK, FilesApart, FileOf
<1>4. ToldTyped'
  <2>1. where' \in [Files -> {"new", "in", "out", "gone"}]
    BY <1>1, <1>3
  <2> QED
    BY <1>1, <2>1 DEF IInv, StoreOK, TypeOK, ToldTyped, told
<1>5. StoreOK' /\ Handles' = Handles /\ Live' = Live /\ Active' = Active /\ slots' = slots
  BY <1>1, <1>4, SameArrays DEF IInv, store
<1>6. \A g \in Live : /\ where'[FileOf(g)] # "new"
                      /\ where[FileOf(g)] # "in" => where'[FileOf(g)] # "in"
  BY <1>1, <1>3
<1>7. where'[FileOf(h)] # "in"
  BY <1>1, <1>2, <1>3
<1>8. /\ d \in EntrySet /\ d.do = "deactivated" /\ d.on = h /\ Len(d.done) = 0
      /\ e \in EntrySet /\ e.do = "erase" /\ e.on = h /\ Len(e.done) = 0
  BY <1>2, EntryFacts DEF Callbacks, Unloading, Ending
<1>9. /\ x \in Seq(EntrySet) /\ Len(x) \in 0 .. 1 /\ \A i \in 1 .. Len(x) : x[i] = d
      /\ h \in Active => Len(x) = 1
      /\ y \in Seq(EntrySet) /\ Len(y) = 1 /\ y[1] = e
  <2>1. (x = <<>> /\ h \notin Active) \/ x = <<d>>
    BY <1>2 DEF UnloadFirst, Active
  <2> HIDE DEF x, d, e
  <2>2. x \in Seq(EntrySet) /\ Len(x) \in 0 .. 1 /\ \A i \in 1 .. Len(x) : x[i] = d
    BY <1>8, <2>1, OneOrNone
  <2>3. h \in Active => Len(x) = 1
    BY <1>8, <2>1
  <2>4. y \in Seq(EntrySet) /\ Len(y) = 1 /\ y[1] = e
    BY <1>8
  <2> QED
    BY <2>2, <2>3, <2>4
<1> HIDE DEF x, y, d, e
<1>10. /\ new \in Seq(EntrySet) /\ Len(new) \in Nat /\ Len(new) = Len(x) + 1
       /\ \A i \in 1 .. Len(new) : new[i] = IF i <= Len(x) THEN x[i] ELSE y[i - Len(x)]
  BY <1>9, ConcatProperties
<1>11. /\ \A i \in 1 .. Len(new) : i < Len(new) => i = 1 /\ new[i] = d
       /\ new[Len(new)] = e /\ Len(new) \in 1 .. 2
       /\ h \in Active => Len(new) = 2
  BY <1>9, <1>10
<1> HIDE DEF new
<1>12. Pushed(new, 1)
  BY <1>1, <1>2, <1>10, ContinuePushes
<1>13. Survive(1)
  <2>1. ASSUME NEW j \in Depths, calls[j].do \in Unloading \cup Ending
        PROVE  where'[FileOf(calls[j].on)] # "in"
    BY <1>6, <2>1 DEF IInv, StackOK, StackTyped, CallbacksFit, Callbacks
  <2> QED
    BY <1>5, <2>1, SurviveSame
<1>14. Fresh(new, 1)
  <2>1. \A i \in 1 .. Len(new) : i < Len(new) \/ i = Len(new)
    BY <1>11
  <2>2. \A i \in 1 .. Len(new) :
          /\ new[i].do \in {"deactivated", "erase"}
          /\ new[i].do = "deactivated" => i < Len(new)
          /\ new[i].on = h /\ Len(new[i].done) = 0
    BY <1>8, <1>11, <2>1
  <2>3. \A i \in 1 .. Len(new) : \A j \in 1 .. Len(new[i].done) : new[i].done[j] \in Handles'
    BY <2>2
  <2>4. h \in Live' /\ where'[slots'[h].file] # "in"
    BY <1>2, <1>5, <1>7 DEF FileOf
  <2>5. ASSUME NEW i \in 1 .. Len(new), new[i].do \in Unloading
        PROVE  h \in Active'
    <3>1. i < Len(new) /\ x # <<>>
      BY <1>9, <1>10, <1>11, <2>2, <2>5 DEF Unloading
    <3> QED
      BY <1>2, <1>5, <3>1 DEF x, UnloadFirst, Active
  <2>6. \A i, j \in 1 .. Len(new) : i < j => new[i].do \in Unloading /\ new[j].do \in Ending
    <3>1. \A i, j \in 1 .. Len(new) : i < j => i < Len(new) /\ j = Len(new)
      BY <1>11
    <3> QED
      BY <1>8, <1>11, <3>1 DEF Unloading, Ending
  <2>7. \A i \in 1 .. Len(new) : new[i].do = "erase" /\ h \in Active' =>
          i > 1 /\ new[i - 1].do \in Unloading /\ new[i - 1].on = new[i].on
    <3>1. ASSUME NEW i \in 1 .. Len(new), new[i].do = "erase", h \in Active'
          PROVE  i > 1 /\ new[i - 1].do \in Unloading /\ new[i - 1].on = new[i].on
      <4>1. Len(new) = 2 /\ new[1] = d /\ new[2] = e
        BY <1>5, <1>11, <3>1
      <4>2. i = 2
        BY <1>8, <3>1, <4>1
      <4> QED
        BY <1>8, <4>1, <4>2 DEF Unloading
    <3> QED
      BY <3>1
  <2>8. \A j \in Depths : j > 1 /\ calls[j].do = "erase" /\ calls[j].on \in Active' =>
          j > 1 + 1 /\ calls[j - 1].do \in Unloading /\ calls[j - 1].on = calls[j].on
    BY <1>2, <1>5
  <2>9. \A i \in 1 .. Len(new) : new[i].do \notin {"adding", "reactivated"}
    BY <2>2
  <2>10. \A i \in 1 .. Len(new) : new[i].on = h
    BY <2>2
  <2> QED
    BY <1>2, <2>3, <2>4, <2>5, <2>6, <2>7, <2>8, <2>9, <2>10 DEF Fresh
<1>15. /\ \A i \in 1 .. Len(new) : new[i].do # "adding"
       /\ \A g \in Live' : slots'[g].file = slots[g].file
       /\ \A g \in Live' : where'[slots[g].file] # "new"
  BY <1>5, <1>6, <1>8, <1>11 DEF FileOf
<1>16. 1 \in 0 .. 1
  OBVIOUS
<1> QED
  BY <1>5, <1>10, <1>12, <1>13, <1>14, <1>15, <1>16, QuietStep

(* Steps that change the arrays and leave only signals behind.             *)
LEMMA FreshSignals ==
  ASSUME NEW new \in Seq(EntrySet),
         \A i \in 1 .. Len(new) : new[i].do \in Signals,
         \A i \in 1 .. Len(new) : \A j \in 1 .. Len(new[i].done) : new[i].done[j] \in Handles',
         \A j \in Depths : j > 1 /\ calls[j].do = "erase" /\ calls[j].on \in Active' =>
           j > 2 /\ calls[j - 1].do \in Unloading /\ calls[j - 1].on = calls[j].on
  PROVE  Fresh(new, 1) /\ \A i \in 1 .. Len(new) : new[i].do # "adding"
<1>1. \A i \in 1 .. Len(new) : /\ new[i].do \notin Callbacks
                              /\ new[i].do \notin Unloading \cup Ending
                              /\ new[i].do \notin {"adding", "reactivated", "erase"}
  BY DEF Signals, Callbacks, Unloading, Ending
<1> QED
  BY <1>1 DEF Fresh, Unloading, Ending

LEMMA UnloadStep ==
  ASSUME IInv, Unload
  PROVE  IInv'
<1>0. PICK h : h = On
  OBVIOUS
<1> DEFINE c == Signal("changed", <<>>)
           new == <<c>>
<1>1. /\ calls # <<>> /\ Head(calls).do = "unload" /\ Continue(new)
      /\ slots' = [slots EXCEPT ![h].active = FALSE] /\ free' = free
      /\ indices' = Lowered(PosOf(h)) /\ num' = num - 1
      /\ where' = where /\ UNCHANGED told
  BY <1>0 DEF Unload, Doing
<1>2. /\ calls \in Seq(EntrySet) /\ 1 \in Depths
      /\ calls[1].do = "unload" /\ calls[1].on = h
      /\ h \in Live /\ h \in Handles
      /\ \A j \in Depths : j > 1 /\ calls[j].do \in Callbacks /\ calls[j].on = h =>
           calls[j].do \in Ending
      /\ \A j \in Depths : j > 1 /\ calls[j].do = "erase" /\ calls[j].on \in Active =>
           calls[j - 1].do \in Unloading /\ calls[j - 1].on = calls[j].on /\ (j = 2 \/ j > 2)
  BY <1>0, <1>1, HeadFacts DEF Callbacks, Unloading
<1>3. h \in Active
  BY <1>2 DEF IInv, StackOK, CallbacksFit, Unloading
<1>4. ToldTyped'
  BY <1>1 DEF IInv, StoreOK, TypeOK, ToldTyped, told
<1>5. StoreOK'
  BY <1>1, <1>3, <1>4, UnloadStore DEF IInv
<1>6. /\ Handles' = Handles /\ Live' = Live /\ Active' = Active \ {h}
      /\ \A g \in Handles : slots'[g].file = slots[g].file
  BY <1>1, <1>2, FlagStep DEF IInv
<1>7. \A g \in Live : g \in Handles /\ where[slots[g].file] # "new"
  BY StoreFacts DEF IInv, StackOK, FilesApart, FileOf
<1>8. new \in Seq(EntrySet) /\ \A i \in 1 .. Len(new) : new[i].do \in Signals /\ Len(new[i].done) = 0
  <2>1. "changed" \in Signals /\ <<>> \in Seq(Nat \ {0}) /\ Len(<<>>) = 0
    BY DEF Signals
  <2>2. c \in EntrySet /\ c.do \in Signals /\ Len(c.done) = 0
    BY <2>1, EntryFacts
  <2> HIDE DEF c
  <2>3. new \in Seq(EntrySet) /\ Len(new) = 1 /\ new[1] = c
    BY <2>2
  <2> QED
    BY <2>2, <2>3
<1> HIDE DEF new
<1>9. Pushed(new, 1)
  BY <1>1, <1>2, <1>8, ContinuePushes
<1>10. Survive(1)
  <2>1. \A j \in Depths : j > 1 => calls[j].do # "adding"
    BY DEF IInv, StackOK, StackTyped
  <2>2. \A j \in Depths : calls[j].do \in Callbacks => calls[j].on \in Live
    BY DEF IInv, StackOK, StackTyped
  <2>3. \A j \in Depths : j > 1 /\ calls[j].do \in Unloading => calls[j].on \in Active'
    BY <1>2, <1>6 DEF IInv, StackOK, CallbacksFit, Callbacks, Unloading, Ending
  <2>4. \A j \in Depths : calls[j].do = "reactivated" => calls[j].on \notin Active'
    BY <1>6 DEF IInv, StackOK, CallbacksFit
  <2>5. \A j \in Depths : calls[j].do \in Unloading \cup Ending => where'[slots'[calls[j].on].file] # "in"
    BY <1>1, <1>6, <1>7, <2>2 DEF IInv, StackOK, CallbacksFit, FileOf, Callbacks
  <2> QED
    BY <1>6, <2>1, <2>2, <2>3, <2>4, <2>5 DEF Survive
<1>11. ASSUME NEW j \in Depths, j > 1, calls[j].do = "erase", calls[j].on \in Active'
       PROVE  j > 2 /\ calls[j - 1].do \in Unloading /\ calls[j - 1].on = calls[j].on
  <2>1. calls[j].on \in Active /\ calls[j].on # h
    BY <1>6, <1>11
  <2>2. calls[j - 1].do \in Unloading /\ calls[j - 1].on = calls[j].on /\ (j = 2 \/ j > 2)
    BY <1>2, <1>11, <2>1
  <2>3. CASE j = 2
    <3>1. j - 1 = 1
      BY <2>3
    <3> QED
      BY <1>2, <2>1, <2>2, <3>1
  <2> QED
    BY <2>2, <2>3
<1>12. Fresh(new, 1) /\ \A i \in 1 .. Len(new) : new[i].do # "adding"
  <2>1. \A i \in 1 .. Len(new) : \A j \in 1 .. Len(new[i].done) : new[i].done[j] \in Handles'
    BY <1>8
  <2> QED
    BY <1>8, <1>11, <2>1, FreshSignals
<1>13. /\ Live' \subseteq Live /\ 1 \in 0 .. 1
       /\ \A g \in Live' : slots'[g].file = slots[g].file
       /\ \A g \in Live' : where'[slots[g].file] # "new"
  BY <1>1, <1>6, <1>7
<1> QED
  BY <1>5, <1>8, <1>9, <1>10, <1>12, <1>13, QuietStep

LEMMA ReactivatedStep ==
  ASSUME IInv, Reactivated
  PROVE  IInv'
<1>0. PICK h : h = On
  OBVIOUS
<1> DEFINE hs == <<h>>
           a == Signal("files_added", hs)
           c == Signal("changed", <<>>)
           new == <<a, c>>
<1>1. /\ calls # <<>> /\ Head(calls).do = "reactivated" /\ Continue(new)
      /\ slots' = [slots EXCEPT ![h].active = TRUE] /\ free' = free
      /\ indices' = Raised(PosOf(h)) /\ num' = num + 1
      /\ where' = where /\ disturbed' = TRUE
      /\ known' = known \cup {FileOf(h)} /\ mirror' = Append(mirror, FileOf(h))
  BY <1>0 DEF Reactivated, Doing
<1>2. /\ calls \in Seq(EntrySet) /\ 1 \in Depths
      /\ calls[1].do = "reactivated" /\ calls[1].on = h
      /\ h \in Live /\ h \in Handles
      /\ \A j \in Depths : j > 1 /\ calls[j].do \in Callbacks => calls[j].on # h
      /\ \A j \in Depths : j > 1 /\ calls[j].do = "erase" /\ calls[j].on \in Active =>
           j > 2 /\ calls[j - 1].do \in Unloading /\ calls[j - 1].on = calls[j].on
  <2>1. "reactivated" \in Callbacks /\ "reactivated" \notin Unloading
    BY DEF Callbacks, Unloading
  <2> QED
    BY <1>0, <1>1, <2>1, HeadFacts
<1>3. h \in Live \ Active /\ FileOf(h) \in Files /\ h \in Nat \ {0}
  BY <1>2, StoreFacts DEF IInv, StackOK, CallbacksFit, FileOf
<1>4. ToldTyped'
  BY <1>1, <1>3 DEF IInv, StoreOK, TypeOK, ToldTyped
<1>5. StoreOK'
  BY <1>1, <1>3, <1>4, ReactivateStore DEF IInv
<1>6. /\ Handles' = Handles /\ Live' = Live /\ Active' = Active \cup {h}
      /\ \A g \in Handles : slots'[g].file = slots[g].file
  BY <1>1, <1>2, FlagStep DEF IInv
<1>7. \A g \in Live : g \in Handles /\ where[slots[g].file] # "new"
  BY StoreFacts DEF IInv, StackOK, FilesApart, FileOf
<1>8. /\ new \in Seq(EntrySet)
      /\ \A i \in 1 .. Len(new) : new[i].do \in Signals
      /\ \A i \in 1 .. Len(new) : \A j \in 1 .. Len(new[i].done) : new[i].done[j] \in Handles'
  <2>1. "changed" \in Signals /\ <<>> \in Seq(Nat \ {0}) /\ Len(<<>>) = 0
    BY DEF Signals
  <2>2. "files_added" \in Signals /\ hs \in Seq(Nat \ {0}) /\ Len(hs) = 1 /\ hs[1] = h
    BY <1>3 DEF Signals
  <2> HIDE DEF hs
  <2>3. c \in EntrySet /\ c.do \in Signals /\ Len(c.done) = 0
    BY <2>1, EntryFacts
  <2>4. a \in EntrySet /\ a.do \in Signals /\ a.done = hs
    BY <2>2, EntryFacts
  <2> HIDE DEF a, c
  <2>5. /\ new \in Seq(EntrySet) /\ Len(new) = 2 /\ new[1] = a /\ new[2] = c
        /\ \A i \in 1 .. Len(new) : i = 1 \/ i = 2
    BY <2>3, <2>4
  <2> HIDE DEF new
  <2>6. \A j \in 1 .. Len(hs) : hs[j] \in Handles'
    BY <1>2, <1>6, <2>2
  <2>7. \A i \in 1 .. Len(new) : \A j \in 1 .. Len(new[i].done) : new[i].done[j] \in Handles'
    BY <2>3, <2>4, <2>5, <2>6
  <2> QED
    BY <2>3, <2>4, <2>5, <2>7
<1> HIDE DEF new
<1>9. Pushed(new, 1)
  BY <1>1, <1>2, <1>8, ContinuePushes
<1>10. Survive(1)
  <2>1. \A j \in Depths : j > 1 => calls[j].do # "adding"
    BY DEF IInv, StackOK, StackTyped
  <2>2. \A j \in Depths : calls[j].do \in Callbacks => calls[j].on \in Live
    BY DEF IInv, StackOK, StackTyped
  <2>3. \A j \in Depths : calls[j].do \in Unloading => calls[j].on \in Active'
    BY <1>6 DEF IInv, StackOK, CallbacksFit
  <2>4. \A j \in Depths : j > 1 /\ calls[j].do = "reactivated" => calls[j].on \notin Active'
    BY <1>2, <1>6 DEF IInv, StackOK, CallbacksFit, Callbacks
  <2>5. \A j \in Depths : calls[j].do \in Unloading \cup Ending => where'[slots'[calls[j].on].file] # "in"
    BY <1>1, <1>6, <1>7, <2>2 DEF IInv, StackOK, CallbacksFit, FileOf, Callbacks
  <2> QED
    BY <1>6, <2>1, <2>2, <2>3, <2>4, <2>5 DEF Survive
<1>11. ASSUME NEW j \in Depths, j > 1, calls[j].do = "erase", calls[j].on \in Active'
       PROVE  j > 2 /\ calls[j - 1].do \in Unloading /\ calls[j - 1].on = calls[j].on
  BY <1>2, <1>6, <1>11 DEF Callbacks, Ending
<1>12. Fresh(new, 1) /\ \A i \in 1 .. Len(new) : new[i].do # "adding"
  BY <1>8, <1>11, FreshSignals
<1>13. /\ Live' \subseteq Live /\ 1 \in 0 .. 1
       /\ \A g \in Live' : slots'[g].file = slots[g].file
       /\ \A g \in Live' : where'[slots[g].file] # "new"
  BY <1>1, <1>6, <1>7
<1> QED
  BY <1>5, <1>8, <1>9, <1>10, <1>12, <1>13, QuietStep

LEMMA EraseStep ==
  ASSUME IInv, Erase
  PROVE  IInv'
<1>0. PICK h : h = On
  OBVIOUS
<1> DEFINE new == <<>>
<1>1. /\ calls # <<>> /\ Head(calls).do = "erase" /\ Continue(new)
      /\ indices' = Dropped(indices, PosOf(h)) /\ slots' = MovedUp(PosOf(h))
      /\ free' = Append(free, h) /\ num' = num
      /\ where' = where /\ UNCHANGED told
  BY <1>0 DEF Erase, Doing
<1>2. /\ calls \in Seq(EntrySet) /\ 1 \in Depths
      /\ calls[1].do = "erase" /\ calls[1].on = h
      /\ h \in Live /\ h \in Handles
      /\ \A j \in Depths : j > 1 /\ calls[j].do \in Callbacks => calls[j].on # h
      /\ \A j \in Depths : j > 1 /\ calls[j].do = "erase" /\ calls[j].on \in Active =>
           j > 2 /\ calls[j - 1].do \in Unloading /\ calls[j - 1].on = calls[j].on
  <2>1. "erase" \in Callbacks /\ "erase" \notin Unloading
    BY DEF Callbacks, Unloading, Ending
  <2> QED
    BY <1>0, <1>1, <2>1, HeadFacts
<1>3. h \in Live \ Active
  BY <1>2 DEF IInv, StackOK, CallbacksFit
<1>4. ToldTyped'
  BY <1>1 DEF IInv, StoreOK, TypeOK, ToldTyped, told
<1>5. /\ StoreOK' /\ Handles' = Handles /\ Live' = Live \ {h} /\ Active' = Active
      /\ \A g \in Handles : slots'[g].file = slots[g].file
  BY <1>1, <1>3, <1>4, EraseStore DEF IInv
<1>6. \A g \in Live : g \in Handles /\ where[slots[g].file] # "new"
  BY StoreFacts DEF IInv, StackOK, FilesApart, FileOf
<1>7. new \in Seq(EntrySet) /\ Len(new) = 0
  OBVIOUS
<1> HIDE DEF new
<1>8. Pushed(new, 1)
  BY <1>1, <1>2, <1>7, ContinuePushes
<1>9. Survive(1)
  <2>1. \A j \in Depths : j > 1 => calls[j].do # "adding"
    BY DEF IInv, StackOK, StackTyped
  <2>2. \A j \in Depths : calls[j].do \in Callbacks => calls[j].on \in Live
    BY DEF IInv, StackOK, StackTyped
  <2>3. \A j \in Depths : j > 1 /\ calls[j].do \in Callbacks => calls[j].on \in Live'
    BY <1>2, <1>5, <2>2
  <2>4. \A j \in Depths : calls[j].do \in Unloading => calls[j].on \in Active'
    BY <1>5 DEF IInv, StackOK, CallbacksFit
  <2>6. \A j \in Depths : calls[j].do = "reactivated" => calls[j].on \notin Active'
    BY <1>5 DEF IInv, StackOK, CallbacksFit
  <2>5. \A j \in Depths : calls[j].do \in Unloading \cup Ending => where'[slots'[calls[j].on].file] # "in"
    BY <1>1, <1>5, <1>6, <2>2 DEF IInv, StackOK, CallbacksFit, FileOf, Callbacks
  <2> QED
    BY <1>5, <2>1, <2>3, <2>4, <2>5, <2>6 DEF Survive
<1>10. Fresh(new, 1) /\ \A i \in 1 .. Len(new) : new[i].do # "adding"
  <2>1. \A i \in 1 .. Len(new) : FALSE
    BY <1>7
  <2>2. \A j \in Depths : j > 1 /\ calls[j].do = "erase" /\ calls[j].on \in Active' =>
          j > 2 /\ calls[j - 1].do \in Unloading /\ calls[j - 1].on = calls[j].on
    BY <1>2, <1>5
  <2> QED
    BY <1>7, <2>1, <2>2, FreshSignals
<1>11. /\ Live' \subseteq Live /\ 1 \in 0 .. 1
       /\ \A g \in Live' : slots'[g].file = slots[g].file
       /\ \A g \in Live' : where'[slots[g].file] # "new"
  BY <1>1, <1>5, <1>6
<1> QED
  BY <1>5, <1>7, <1>8, <1>9, <1>10, <1>11, QuietStep

(* Entries of add_files: the files still to be added are new.              *)
LEMMA AddingStep ==
  ASSUME IInv, NEW k \in 0 .. 1, NEW e \in EntrySet, e.do = "adding",
         k = 1 \/ calls = <<>> \/ Head(calls).do \in Signals,
         k = 1 => Head(calls).do = "adding" /\ calls # <<>>,
         Pushed(<<e>>, k), Survive(k), StoreOK',
         \A j \in 1 .. Len(e.done) : e.done[j] \in Handles',
         \A j \in 1 .. Len(e.todo) : where'[e.todo[j]] = "new",
         \A i, j \in 1 .. Len(e.todo) : e.todo[i] = e.todo[j] => i = j,
         \A h \in Live' : where'[slots'[h].file] # "new",
         \A g, h \in Live' : slots'[g].file = slots'[h].file => g = h,
         \A j \in Depths : j > k /\ calls[j].do \in Callbacks /\ calls[j].on \in Active' =>
           calls[j].on \in Active
  PROVE  IInv'
<1> DEFINE new == <<e>>
<1>1. /\ new \in Seq(EntrySet) /\ Len(new) = 1 /\ new[1] = e
      /\ \A i \in 1 .. Len(new) : i = 1
      /\ e.do \notin Callbacks
  BY DEF Callbacks, Unloading, Ending
<1>2. Pushed(new, k)
  OBVIOUS
<1> HIDE DEF new
<1>3. ASSUME NEW j \in Depths, j > k, calls[j].do = "erase", calls[j].on \in Active'
      PROVE  j > k + 1 /\ calls[j - 1].do \in Unloading /\ calls[j - 1].on = calls[j].on
  <2>1. calls[j].on \in Active
    BY <1>3 DEF Callbacks, Ending
  <2>2. j > 1 /\ calls[j - 1].do \in Unloading /\ calls[j - 1].on = calls[j].on
    BY <1>3, <2>1 DEF IInv, StackOK, CallbacksFit
  <2>3. k = 1 => calls[1].do \notin Unloading
    BY DEF IInv, StackOK, StackTyped, Unloading
  <2>4. j = 2 \/ j > 2
    BY <2>2 DEF Depths
  <2> QED
    BY <2>2, <2>3, <2>4
<1>4. Fresh(new, k)
  <2>1. \A i \in 1 .. Len(new) : /\ new[i].do \notin Callbacks
                                /\ new[i].do \notin Unloading \cup Ending
                                /\ new[i].do \notin {"reactivated", "erase"}
    BY <1>1 DEF Callbacks, Unloading, Ending
  <2>2. \A i \in 1 .. Len(new) : \A j \in 1 .. Len(new[i].done) : new[i].done[j] \in Handles'
    BY <1>1
  <2> QED
    BY <1>1, <1>3, <2>1, <2>2 DEF Fresh
<1>5. StackTyped' /\ CallbacksFit'
  BY <1>1, <1>2, <1>4, StackStep DEF IInv
<1>6. ASSUME NEW i \in 1 .. Len(calls'), calls'[i].do = "adding"
      PROVE  calls'[i] = e
  <2>1. i = 1
    BY <1>5, <1>6 DEF StackTyped, Depths
  <2> QED
    BY <1>1, <1>2, <2>1 DEF Pushed
<1>7. FilesApart'
  BY <1>6 DEF FilesApart, Depths, FileOf
<1> QED
  BY <1>5, <1>7 DEF IInv, StackOK

LEMMA AddFilesStep ==
  ASSUME IInv, NEW fs \in Batches, AddFiles(fs)
  PROVE  IInv'
<1> DEFINE e == Entry("adding", 0, fs, <<>>)
<1>1. /\ \A i \in DOMAIN fs : where[fs[i]] = "new"
      /\ Start(<<e>>) /\ UNCHANGED <<store, where, told>>
  BY DEF AddFiles
<1>2. /\ fs \in Seq(Files) /\ DOMAIN fs = 1 .. Len(fs)
      /\ \A i, j \in 1 .. Len(fs) : fs[i] = fs[j] => i = j
  <2>1. PICK n \in 1 .. MaxBatch : fs \in [1 .. n -> Files]
    BY DEF Batches
  <2>2. n \in Nat
    BY <2>1, BoundsAssumption
  <2>3. fs \in Seq(Files) /\ DOMAIN fs = 1 .. Len(fs)
    BY <2>1, <2>2, FunctionIsSeq
  <2> QED
    BY <2>3 DEF Batches
<1>3. e \in EntrySet /\ e.do = "adding" /\ Len(e.done) = 0 /\ e.todo = fs
  BY <1>2 DEF Entry, EntrySet
<1> HIDE DEF e
<1>4. /\ calls \in Seq(EntrySet) /\ <<e>> \in Seq(EntrySet)
      /\ calls = <<>> \/ Head(calls).do \in Signals
  BY <1>1, <1>3 DEF IInv, StackOK, StackTyped, Start
<1>5. Pushed(<<e>>, 0)
  BY <1>1, <1>4, StartPushes
<1>6. ToldTyped' /\ where' = where
  BY <1>1 DEF IInv, StoreOK, TypeOK, ToldTyped, told
<1>7. StoreOK' /\ Handles' = Handles /\ Live' = Live /\ Active' = Active /\ slots' = slots
  BY <1>1, <1>6, SameArrays DEF IInv, store
<1>8. 0 \in 0 .. 1 /\ 0 # 1
  OBVIOUS
<1>9. Survive(0)
  BY <1>4, <1>6, <1>7, <1>8, SurviveSame DEF IInv, StackOK, CallbacksFit
<1>10. /\ \A h \in Live' : where'[slots'[h].file] # "new"
       /\ \A g, h \in Live' : slots'[g].file = slots'[h].file => g = h
  BY <1>6, <1>7 DEF IInv, StackOK, FilesApart, FileOf
<1>11. /\ \A j \in 1 .. Len(e.done) : e.done[j] \in Handles'
       /\ \A j \in 1 .. Len(e.todo) : where'[e.todo[j]] = "new"
       /\ \A i, j \in 1 .. Len(e.todo) : e.todo[i] = e.todo[j] => i = j
  BY <1>1, <1>2, <1>3, <1>6
<1> QED
  BY <1>3, <1>4, <1>5, <1>7, <1>8, <1>9, <1>10, <1>11, AddingStep

LEMMA AddOneStep ==
  ASSUME IInv, AddOne
  PROVE  IInv'
<1>0. PICK n : n = NewHandle
  OBVIOUS
<1> DEFINE c == calls[1]
           f == Head(c.todo)
           e == Entry("adding", 0, Tail(c.todo), Append(c.done, n))
<1>1. /\ calls \in Seq(EntrySet) /\ calls # <<>> /\ Head(calls) = c /\ 1 \in Depths
      /\ c \in EntrySet /\ c.do = "adding" /\ c.todo # <<>>
  BY DEF IInv, StackOK, StackTyped, Depths, AddOne, Doing
<1>2. /\ c.todo \in Seq(Files) /\ c.done \in Seq(Nat \ {0})
  BY <1>1 DEF EntrySet
<1>3. /\ \A j \in 1 .. Len(c.todo) : where[c.todo[j]] = "new"
      /\ \A i, j \in 1 .. Len(c.todo) : c.todo[i] = c.todo[j] => i = j
      /\ \A j \in 1 .. Len(c.done) : c.done[j] \in Handles
  BY <1>1 DEF IInv, StackOK, StackTyped, FilesApart
<1>4. /\ Continue(<<e>>) /\ UNCHANGED told
      /\ where' = [where EXCEPT ![f] = "in"]
      /\ AddedLast(f)
  BY <1>0, <1>1 DEF AddOne, NewEntry, AddedLast
<1>5. /\ Tail(c.todo) \in Seq(Files) /\ f \in Files /\ f = c.todo[1]
      /\ Len(Tail(c.todo)) = Len(c.todo) - 1 /\ Len(c.todo) \in Nat \ {0}
      /\ \A j \in 1 .. Len(Tail(c.todo)) : Tail(c.todo)[j] = c.todo[j + 1]
  <2>1. Len(c.todo) \in Nat \ {0} /\ f = c.todo[1] /\ f \in Files
    BY <1>1, <1>2
  <2> HIDE DEF c, f
  <2>2. /\ Tail(c.todo) \in Seq(Files)
        /\ Len(Tail(c.todo)) = Len(c.todo) - 1
        /\ \A j \in 1 .. Len(Tail(c.todo)) : Tail(c.todo)[j] = c.todo[j + 1]
    BY <1>1, <1>2, HeadTailProperties
  <2> QED
    BY <2>1, <2>2
<1> HIDE DEF c, f
<1>6. where \in [Files -> {"new", "in", "out", "gone"}]
  BY DEF IInv, StoreOK, TypeOK
<1>7. ToldTyped'
  <2>1. where' \in [Files -> {"new", "in", "out", "gone"}]
    BY <1>4, <1>5, <1>6
  <2> QED
    BY <1>4, <2>1 DEF IInv, StoreOK, TypeOK, ToldTyped, told
<1>8. /\ StoreOK'
      /\ n \in Nat \ {0} /\ n \notin Live
      /\ Handles' = Handles \cup {n}
      /\ Live' = Live \cup {n} /\ Active' = Active \cup {n}
      /\ \A g \in Handles : g # n => slots'[g].file = slots[g].file
      /\ slots'[n].file = f
  BY <1>0, <1>4, <1>5, <1>7, AddStore DEF IInv
<1>9. e \in EntrySet /\ e.do = "adding" /\ e.todo = Tail(c.todo) /\ e.done = Append(c.done, n)
  BY <1>2, <1>5, <1>8, AppendProperties DEF Entry, EntrySet
<1>10. <<e>> \in Seq(EntrySet)
  BY <1>9
<1> HIDE DEF e
<1>11. \A j \in 1 .. Len(e.done) : e.done[j] \in Handles'
  <2>1. /\ Len(e.done) = Len(c.done) + 1 /\ Len(c.done) \in Nat
        /\ \A j \in 1 .. Len(c.done) : e.done[j] = c.done[j]
        /\ e.done[Len(c.done) + 1] = n
    BY <1>2, <1>8, <1>9, AppendProperties
  <2>2. \A j \in 1 .. Len(e.done) : j \in 1 .. Len(c.done) \/ j = Len(c.done) + 1
    BY <2>1
  <2> QED
    BY <1>3, <1>8, <2>1, <2>2
<1>12. \A g \in Files : g # f => where'[g] = where[g]
  BY <1>4, <1>6
<1>13. ASSUME NEW j \in 1 .. Len(e.todo)
       PROVE  where'[e.todo[j]] = "new"
  <2>1. j + 1 \in 1 .. Len(c.todo) /\ 1 \in 1 .. Len(c.todo) /\ j + 1 # 1 /\ e.todo[j] = c.todo[j + 1]
    BY <1>5, <1>9
  <2>2. c.todo[j + 1] # f /\ c.todo[j + 1] \in Files
    BY <1>2, <1>3, <1>5, <2>1
  <2> QED
    BY <1>3, <1>12, <2>1, <2>2
<1>14. ASSUME NEW i \in 1 .. Len(e.todo), NEW j \in 1 .. Len(e.todo), e.todo[i] = e.todo[j]
       PROVE  i = j
  <2>1. /\ i + 1 \in 1 .. Len(c.todo) /\ j + 1 \in 1 .. Len(c.todo)
        /\ c.todo[i + 1] = c.todo[j + 1]
    BY <1>5, <1>9, <1>14
  <2>2. i + 1 = j + 1
    BY <1>3, <2>1
  <2> QED
    BY <2>2
<1>15. \A g \in Live : /\ g # n /\ g \in Handles /\ slots'[g].file = slots[g].file
                       /\ slots[g].file \in Files /\ where[slots[g].file] # "new"
  BY <1>8, StoreFacts DEF IInv, StackOK, FilesApart, FileOf
<1>16. where[f] = "new" /\ where'[f] = "in"
  BY <1>3, <1>4, <1>5, <1>6
<1>17. \A h \in Live' : where'[slots'[h].file] # "new"
  BY <1>8, <1>12, <1>15, <1>16
<1>18. \A g, h \in Live' : slots'[g].file = slots'[h].file => g = h
  <2>1. \A g, h \in Live : slots[g].file = slots[h].file => g = h
    BY DEF IInv, StackOK, FilesApart, FileOf
  <2> QED
    BY <1>8, <1>15, <1>16, <2>1
<1>19. Pushed(<<e>>, 1)
  BY <1>1, <1>4, <1>10, ContinuePushes
<1>20. Survive(1)
  <2>1. \A j \in Depths : j > 1 => calls[j].do # "adding"
    BY DEF IInv, StackOK, StackTyped
  <2>2. \A j \in Depths : calls[j].do \in Callbacks => calls[j].on \in Live
    BY DEF IInv, StackOK, StackTyped
  <2>3. \A j \in Depths : calls[j].do \in Unloading => calls[j].on \in Active'
    BY <1>8 DEF IInv, StackOK, CallbacksFit
  <2>4. \A j \in Depths : calls[j].do = "reactivated" => calls[j].on \notin Active'
    BY <1>8, <2>2 DEF IInv, StackOK, CallbacksFit, Callbacks
  <2>5. ASSUME NEW j \in Depths, calls[j].do \in Unloading \cup Ending
        PROVE  where'[slots'[calls[j].on].file] # "in"
    <3>1. calls[j].on \in Live /\ where[slots[calls[j].on].file] # "in"
      BY <2>2, <2>5 DEF IInv, StackOK, CallbacksFit, FileOf, Callbacks
    <3> QED
      BY <1>12, <1>15, <1>16, <3>1
  <2> QED
    BY <1>8, <2>1, <2>2, <2>3, <2>4, <2>5 DEF Survive
<1>21. \A j \in Depths : j > 1 /\ calls[j].do \in Callbacks /\ calls[j].on \in Active' => calls[j].on \in Active
  BY <1>8 DEF IInv, StackOK, StackTyped
<1>22. 1 \in 0 .. 1
  OBVIOUS
<1> QED
  BY <1>1, <1>8, <1>9, <1>11, <1>13, <1>14, <1>17, <1>18, <1>19, <1>20, <1>21, <1>22, AddingStep

-----------------------------------------------------------------------------
(* The invariant holds in every state that is reached.                     *)

LEMMA InitInv == Init => IInv
<1> SUFFICES ASSUME Init PROVE IInv
  OBVIOUS
<1>1. slots = <<>> /\ free = <<>> /\ indices = <<>> /\ num = 0 /\ calls = <<>>
  BY DEF Init
<1>2. Handles = {} /\ Freed = {} /\ Live = {} /\ Active = {} /\ Depths = {}
  BY <1>1 DEF Handles, Freed, Live, Active, Depths
<1>3. TypeOK
  <2>1. where \in [Files -> {"new", "in", "out", "gone"}]
    BY DEF Init
  <2>2. known \subseteq Files /\ mirror \in Seq(Files) /\ disturbed \in BOOLEAN
    <3>1. known = {} /\ mirror = <<>> /\ disturbed = FALSE
      BY DEF Init
    <3>2. known \subseteq Files
      BY <3>1
    <3>3. mirror \in Seq(Files)
      BY <3>1
    <3>4. disturbed \in BOOLEAN
      BY <3>1
    <3> QED
      BY <3>2, <3>3, <3>4
  <2> QED
    BY <1>1, <2>1, <2>2 DEF TypeOK
<1>4. SlotsMatchIndices
  BY <1>1, <1>2 DEF SlotsMatchIndices
<1>5. IndicesOrderFiles
  BY <1>1, <1>2, FS_EmptySet DEF IndicesOrderFiles
<1>6. StackOK
  BY <1>1, <1>2 DEF StackOK, StackTyped, FilesApart, CallbacksFit
<1> QED
  BY <1>3, <1>4, <1>5, <1>6 DEF IInv, StoreOK

LEMMA NextInv == IInv /\ [Next]_vars => IInv'
<1> SUFFICES ASSUME IInv, [Next]_vars PROVE IInv'
  OBVIOUS
<1>1. ASSUME NEW fs \in Batches, AddFiles(fs) PROVE IInv'
  BY <1>1, AddFilesStep
<1>2. ASSUME NEW h \in Handles, NEW heard \in BOOLEAN, NEW kept \in BOOLEAN, RemoveFile(h, heard, kept)
      PROVE  IInv'
  BY <1>2, RemoveFileStep
<1>3. ASSUME NEW h \in Handles, Forsake(h) \/ Undo(h) PROVE IInv'
  BY <1>3, ForsakeStep, UndoStep
<1>4. CASE Return \/ AddDone \/ AddOne
  BY <1>4, ReturnStep, AddDoneStep, AddOneStep
<1>5. CASE Deactivated \/ Unload \/ Reactivated
  BY <1>5, DeactivatedStep, UnloadStep, ReactivatedStep
<1>6. CASE Destroying \/ Erase
  BY <1>6, DestroyingStep, EraseStep
<1>7. CASE UNCHANGED vars
  <2>1. UNCHANGED store /\ UNCHANGED where /\ UNCHANGED calls /\ UNCHANGED told
    BY <1>7 DEF vars
  <2>2. ToldTyped'
    BY <2>1 DEF IInv, StoreOK, TypeOK, ToldTyped, told
  <2>3. StoreOK' /\ Handles' = Handles /\ Live' = Live /\ Active' = Active /\ slots' = slots
    BY <2>1, <2>2, SameArrays DEF IInv, store
  <2> QED
    BY <2>1, <2>3 DEF IInv, StackOK, StackTyped, FilesApart, CallbacksFit, Depths, FileOf
<1> QED
  BY <1>1, <1>2, <1>3, <1>4, <1>5, <1>6, <1>7 DEF Next

LEMMA Invariant == Spec => []IInv
BY InitInv, NextInv, PTL DEF Spec

-----------------------------------------------------------------------------
(* What listeners know.  A removal that is announced takes effect later,   *)
(* and files that were added are announced later.                          *)

(* Loaded files whose removal was announced, files of which nobody has     *)
(* heard yet, and the others.                                              *)
Announced == {h \in Active : \E i \in Depths : calls[i].do = "unload" /\ calls[i].on = h}
Batch == IF calls # <<>> /\ calls[1].do = "adding" THEN calls[1].done ELSE <<>>
Settled == Active \ (Announced \cup Elements(Batch))

CallsApart ==
  /\ Elements(Batch) \subseteq Active
  /\ \A i \in Depths : calls[i].do = "adding" =>
       \A j \in Depths : calls[j].do # "unload" /\ calls[j].do # "erase"

KnownInv == known = {FileOf(h) : h \in Settled}

(* The place a file will have when the removal that is announced is done.  *)
Place(h) == IF \E u \in Announced : PosOf(u) < PosOf(h) THEN FileIndex(h) - 1 ELSE FileIndex(h)

(* Unless it is disturbed, the mirror runs ahead of one removal and behind *)
(* the files being added.                                                  *)
MirrorInv ==
  disturbed = FALSE =>
    /\ \A i \in Depths : calls[i].do = "unload" =>
         i = 1 \/ (i = 2 /\ calls[1].do = "about_to_be_removed")
    /\ Len(mirror) + Len(Batch) + (IF Announced = {} THEN 0 ELSE 1) = num
    /\ \A h \in Settled : Place(h) < Len(mirror) /\ mirror[Place(h) + 1] = FileOf(h)
    /\ \A j \in 1 .. Len(Batch) : FileIndex(Batch[j]) = Len(mirror) + j - 1

ListenInv == CallsApart /\ KnownInv /\ MirrorInv

(* The entries of the stack after a step.                                  *)
LEMMA OnStack ==
  ASSUME calls \in Seq(EntrySet), NEW k \in 0 .. 1, k <= Len(calls), NEW new \in Seq(EntrySet), Pushed(new, k)
  PROVE  /\ \A i \in Depths' : \/ i \in 1 .. Len(new) /\ calls'[i] = new[i]
                               \/ /\ i - Len(new) + k \in Depths /\ i - Len(new) + k > k
                                  /\ calls'[i] = calls[i - Len(new) + k]
         /\ \A i \in 1 .. Len(new) : i \in Depths' /\ calls'[i] = new[i]
         /\ \A i \in Depths : i > k => i + Len(new) - k \in Depths' /\ calls'[i + Len(new) - k] = calls[i]
<1>1. /\ Len(new) \in Nat /\ Len(calls) \in Nat /\ Len(calls') = Len(new) + Len(calls) - k /\ k \in {0, 1}
      /\ k <= Len(calls)
  BY DEF Pushed
<1>2. Depths' = 1 .. Len(calls') /\ Depths = 1 .. Len(calls)
  BY DEF Depths
<1>3. ASSUME NEW i \in Depths'
      PROVE  \/ i \in 1 .. Len(new) /\ calls'[i] = new[i]
             \/ /\ i - Len(new) + k \in Depths /\ i - Len(new) + k > k
                /\ calls'[i] = calls[i - Len(new) + k]
  <2>1. CASE i <= Len(new)
    BY <1>1, <1>2, <2>1 DEF Pushed
  <2>2. CASE i > Len(new)
    <3>1. calls'[i] = calls[i - Len(new) + k] /\ i - Len(new) + k \in Depths
      BY <1>2, <2>2 DEF Pushed
    <3> QED BY <1>1, <1>2, <2>2, <3>1
  <2> QED BY <1>1, <1>2, <2>1, <2>2
<1>4. ASSUME NEW i \in Depths, i > k
      PROVE  i + Len(new) - k \in Depths' /\ calls'[i + Len(new) - k] = calls[i]
  <2>1. i + Len(new) - k \in 1 .. Len(calls') /\ i + Len(new) - k > Len(new)
    BY <1>1, <1>2, <1>4
  <2>2. calls'[i + Len(new) - k] = calls[(i + Len(new) - k) - Len(new) + k]
    BY <2>1 DEF Pushed
  <2>3. (i + Len(new) - k) - Len(new) + k = i
    BY <1>1, <1>2
  <2> QED BY <1>2, <2>1, <2>2, <2>3
<1>5. ASSUME NEW i \in 1 .. Len(new)
      PROVE  i \in Depths' /\ calls'[i] = new[i]
  <2>1. Len(new) <= Len(calls')
    BY <1>1
  <2> QED BY <1>1, <1>2, <2>1 DEF Pushed
<1> QED BY <1>3, <1>4, <1>5

(* A step that touches no entry of a removal announced or of add_files,    *)
(* and no loaded file.                                                     *)
Untouched ==
  /\ Active' = Active /\ num' = num /\ known' = known /\ mirror' = mirror
  /\ \A g \in Active : FileOf(g)' = FileOf(g) /\ FileIndex(g)' = FileIndex(g)
  /\ \A g, h \in Active : PosOf(g)' < PosOf(h)' <=> PosOf(g) < PosOf(h)

LEMMA QuietListen ==
  ASSUME StackOK, ListenInv, Untouched,
         NEW k \in 0 .. 1, k <= Len(calls), NEW new \in Seq(EntrySet), Pushed(new, k),
         k = 1 \/ calls = <<>> \/ Head(calls).do \in Signals,
         k = 1 => calls[1].do # "unload" /\ calls[1].do # "adding",
         \A i \in 1 .. Len(new) : new[i].do # "unload" /\ new[i].do # "adding",
         disturbed' = TRUE \/
           (disturbed' = disturbed /\ \A i \in Depths : calls[i].do = "unload" => k = 1 /\ Len(new) = 0)
  PROVE  ListenInv'
<1>1. calls \in Seq(EntrySet) /\ Len(calls) \in Nat /\ Len(new) \in Nat /\ k \in {0, 1}
  BY LenProperties DEF StackOK, StackTyped
<1>2. \A j \in Depths : j > k => calls[j].do # "adding"
  BY NoAdding
<1>3. /\ \A i \in Depths' : \/ i \in 1 .. Len(new) /\ calls'[i] = new[i]
                            \/ /\ i - Len(new) + k \in Depths /\ i - Len(new) + k > k
                               /\ calls'[i] = calls[i - Len(new) + k]
      /\ \A i \in Depths : i > k => i + Len(new) - k \in Depths' /\ calls'[i + Len(new) - k] = calls[i]
  BY <1>1, OnStack
<1>4. \A i \in Depths' : calls'[i].do # "adding"
  BY <1>2, <1>3
<1>5. \A i \in Depths : calls[i].do # "adding"
  <2>1. \A i \in Depths : i > k \/ (k = 1 /\ i = 1)
    BY <1>1 DEF Depths
  <2> QED BY <1>2, <2>1
<1>6. \A i \in Depths : calls[i].do = "unload" => i > k
  <2>1. \A i \in Depths : i > k \/ (k = 1 /\ i = 1)
    BY <1>1 DEF Depths
  <2> QED BY <2>1
<1>7. Batch = <<>> /\ Batch' = <<>>
  <2>1. calls # <<>> => 1 \in Depths
    BY <1>1, EmptySeq DEF Depths
  <2>2. calls' # <<>> => 1 \in Depths'
    BY EmptySeq DEF Depths, Pushed
  <2> QED BY <1>4, <1>5, <2>1, <2>2 DEF Batch
<1>8. Announced' = Announced
  <2>1. ASSUME NEW h \in Active
        PROVE  (\E i \in Depths' : calls'[i].do = "unload" /\ calls'[i].on = h)
                 <=> \E i \in Depths : calls[i].do = "unload" /\ calls[i].on = h
    BY <1>3, <1>6
  <2> QED BY <2>1 DEF Announced, Untouched
<1>9. Settled' = Settled /\ Settled \subseteq Active /\ Announced \subseteq Active
  BY <1>7, <1>8 DEF Settled, Untouched, Announced
<1>10. CallsApart'
  <2>1. Elements(Batch)' = {}
    BY <1>7, ElementsEmpty
  <2> QED BY <1>4, <2>1 DEF CallsApart
<1>11. KnownInv'
  BY <1>9 DEF KnownInv, ListenInv, Untouched
<1>12. \A h \in Active : Place(h)' = Place(h)
  BY <1>8, <1>9 DEF Place, Untouched
<1>13. ASSUME disturbed' = FALSE
       PROVE  \A i \in Depths' : calls'[i].do = "unload" => i = 1
  <2>1. disturbed = FALSE /\ \A i \in Depths : calls[i].do = "unload" => k = 1 /\ Len(new) = 0 /\ i <= 2
    BY <1>13 DEF ListenInv, MirrorInv
  <2> SUFFICES ASSUME NEW i \in Depths', calls'[i].do = "unload" PROVE i = 1
    OBVIOUS
  <2>2. PICK m : m = i - Len(new) + k
    OBVIOUS
  <2>3. m \in Depths /\ calls[m].do = "unload"
    BY <1>3, <2>2
  <2>4. k = 1 /\ Len(new) = 0 /\ m <= 2 /\ i \in Nat /\ i >= 1
    BY <2>1, <2>3 DEF Depths
  <2> QED BY <2>2, <2>4
<1>14. MirrorInv'
  <2> SUFFICES ASSUME disturbed' = FALSE
               PROVE  /\ \A i \in Depths' : calls'[i].do = "unload" => i = 1
                      /\ Len(mirror)' + Len(Batch)' + (IF Announced' = {} THEN 0 ELSE 1) = num'
                      /\ \A h \in Settled' : Place(h)' < Len(mirror)' /\ mirror'[Place(h)' + 1] = FileOf(h)'
                      /\ \A j \in 1 .. Len(Batch)' : FileIndex(Batch[j])' = Len(mirror)' + j - 1
    BY DEF MirrorInv
  <2>1. disturbed = FALSE
    OBVIOUS
  <2>2. /\ Len(mirror) + Len(Batch) + (IF Announced = {} THEN 0 ELSE 1) = num
        /\ \A h \in Settled : Place(h) < Len(mirror) /\ mirror[Place(h) + 1] = FileOf(h)
    BY <2>1 DEF ListenInv, MirrorInv
  <2>3. Len(Batch)' = Len(Batch) /\ Len(Batch)' = 0
    BY <1>7
  <2>4. \A i \in Depths' : calls'[i].do = "unload" => i = 1
    BY <1>13
  <2>5. Len(mirror)' + Len(Batch)' + (IF Announced' = {} THEN 0 ELSE 1) = num'
    BY <1>8, <2>2, <2>3, <1>7 DEF Untouched
  <2>6. \A h \in Settled' : Place(h)' < Len(mirror)' /\ mirror'[Place(h)' + 1] = FileOf(h)'
    BY <1>9, <1>12, <2>2 DEF Untouched
  <2>7. \A j \in 1 .. Len(Batch)' : FALSE
    BY <2>3
  <2> QED BY <2>4, <2>5, <2>6, <2>7
<1> QED BY <1>10, <1>11, <1>14 DEF ListenInv

LEMMA SameUntouched ==
  ASSUME UNCHANGED <<store, known, mirror>>
  PROVE  Untouched
<1>1. slots' = slots /\ free' = free /\ indices' = indices /\ num' = num /\ known' = known /\ mirror' = mirror
  BY DEF store
<1>2. Active' = Active
  BY <1>1 DEF Active, Handles
<1>3. \A g \in Active : FileOf(g)' = FileOf(g) /\ FileIndex(g)' = FileIndex(g) /\ PosOf(g)' = PosOf(g)
  BY <1>1 DEF FileOf, FileIndex, PosOf
<1> QED BY <1>1, <1>2, <1>3 DEF Untouched

(* A call that is made while a removal is announced disturbs the mirror.   *)
LEMMA CallListen ==
  ASSUME IInv, ListenInv, NEW new \in Seq(EntrySet), Start(new),
         \A i \in 1 .. Len(new) : new[i].do # "unload" /\ new[i].do # "adding",
         UNCHANGED <<store, known, mirror>>, disturbed' = (disturbed \/ Announcing)
  PROVE  ListenInv'
<1>1. calls \in Seq(EntrySet) /\ StackOK /\ disturbed \in BOOLEAN
  BY DEF IInv, StackOK, StackTyped, StoreOK, TypeOK
<1>2. Pushed(new, 0) /\ (calls = <<>> \/ Head(calls).do \in Signals)
  BY <1>1, StartPushes DEF Start
<1>3. calls # <<>> => Head(calls) = calls[1]
  BY <1>1
<1>4. disturbed' = TRUE \/ (disturbed' = disturbed /\ \A i \in Depths : calls[i].do # "unload")
  <2>1. CASE Announcing
    <3>1. disturbed' = TRUE
      BY <2>1
    <3> QED BY <3>1
  <2>2. CASE ~Announcing /\ disturbed = FALSE
    <3>1. disturbed' = disturbed
      BY <2>2
    <3>2. \A i \in Depths : calls[i].do = "unload" => i = 1 \/ (i = 2 /\ calls[1].do = "about_to_be_removed")
      BY <2>2 DEF ListenInv, MirrorInv
    <3>3. \A i \in Depths : calls[i].do # "about_to_be_removed"
      BY <1>1, <2>2 DEF Announcing, Depths
    <3>4. ASSUME NEW i \in Depths, calls[i].do = "unload" PROVE FALSE
      <4>1. 1 \in Depths /\ calls # <<>>
        BY <1>1, <3>4 DEF Depths
      <4>2. calls[1].do \in Signals
        BY <1>2, <1>3, <4>1
      <4>3. i = 1
        BY <3>2, <3>3, <3>4, <4>1
      <4> QED BY <3>4, <4>2, <4>3 DEF Signals
    <3> QED BY <3>1, <3>4
  <2>3. CASE ~Announcing /\ disturbed = TRUE
    <3>1. disturbed' = TRUE
      BY <2>3
    <3> QED BY <3>1
  <2> QED BY <1>1, <2>1, <2>2, <2>3
<1>5. 0 \in 0 .. 1 /\ 0 <= Len(calls) /\ 0 # 1
  BY <1>1
<1>6. Untouched
  BY SameUntouched
<1> QED BY <1>1, <1>2, <1>4, <1>5, <1>6, QuietListen

LEMMA EitherPart ==
  ASSUME NEW m \in Nat, NEW n \in Nat, NEW x, NEW y, NEW new, Len(new) = m + n,
         \A i \in 1 .. (m + n) : new[i] = IF i <= m THEN x[i] ELSE y[i - m]
  PROVE  \A i \in 1 .. Len(new) : \/ i \in 1 .. m /\ new[i] = x[i]
                                  \/ i - m \in 1 .. n /\ new[i] = y[i - m]
<1> TAKE i \in 1 .. Len(new)
<1>1. i \in 1 .. m \/ (i - m \in 1 .. n /\ ~(i <= m))
  OBVIOUS
<1> QED BY <1>1

LEMMA RemoveFileListen ==
  ASSUME IInv, ListenInv, NEW h \in Handles, NEW heard \in BOOLEAN, NEW kept \in BOOLEAN,
         RemoveFile(h, heard, kept)
  PROVE  ListenInv'
<1>1. PICK x : x = IF heard THEN <<Do("deactivated", h)>> ELSE <<>>
  OBVIOUS
<1>2. PICK y : y = IF kept THEN <<>> ELSE <<Do("destroying", h)>>
  OBVIOUS
<1>3. /\ Start(x \o y) /\ UNCHANGED <<store, known, mirror>>
      /\ disturbed' = (disturbed \/ Announcing)
  BY <1>1, <1>2 DEF RemoveFile
<1>4. h \in Nat
  BY StoreFacts DEF IInv
<1>5. /\ Do("deactivated", h) \in EntrySet /\ Do("deactivated", h).do = "deactivated"
      /\ Do("destroying", h) \in EntrySet /\ Do("destroying", h).do = "destroying"
  BY <1>4, EntryFacts DEF Callbacks, Unloading, Ending
<1>6. /\ x \in Seq(EntrySet) /\ \A i \in 1 .. Len(x) : x[i] = Do("deactivated", h)
      /\ y \in Seq(EntrySet) /\ \A i \in 1 .. Len(y) : y[i] = Do("destroying", h)
  BY <1>1, <1>2, <1>5, OneOrNone
<1>7. PICK new : new = x \o y
  OBVIOUS
<1>8. /\ new \in Seq(EntrySet) /\ Len(new) = Len(x) + Len(y)
      /\ \A i \in 1 .. (Len(x) + Len(y)) : new[i] = IF i <= Len(x) THEN x[i] ELSE y[i - Len(x)]
  BY <1>6, <1>7, ConcatAt
<1>9. Len(x) \in Nat /\ Len(y) \in Nat
  BY <1>6
<1>10. \A i \in 1 .. Len(new) : new[i].do # "unload" /\ new[i].do # "adding"
  <2>1. \A i \in 1 .. Len(x) : x[i].do = "deactivated"
    BY <1>5, <1>6
  <2>2. \A i \in 1 .. Len(y) : y[i].do = "destroying"
    BY <1>5, <1>6
  <2> QED BY <1>8, <1>9, <2>1, <2>2, EitherPart
<1> QED BY <1>3, <1>7, <1>8, <1>10, CallListen

LEMMA ForsakeListen ==
  ASSUME IInv, ListenInv, NEW h \in Handles, Forsake(h) \/ Undo(h)
  PROVE  ListenInv'
<1>1. PICK w \in {"destroying", "reactivated"} : Start(<<Do(w, h)>>)
  BY DEF Forsake, Undo
<1>2. UNCHANGED <<store, known, mirror>> /\ disturbed' = (disturbed \/ Announcing)
  BY DEF Forsake, Undo
<1>3. h \in Nat
  BY StoreFacts DEF IInv
<1>4. Do(w, h) \in EntrySet /\ Do(w, h).do = w
  BY <1>3, EntryFacts DEF Callbacks, Unloading, Ending
<1>5. PICK new : new = <<Do(w, h)>>
  OBVIOUS
<1>6. new \in Seq(EntrySet) /\ \A i \in 1 .. Len(new) : new[i].do = w
  BY <1>4, <1>5
<1>7. \A i \in 1 .. Len(new) : new[i].do # "unload" /\ new[i].do # "adding"
  BY <1>6
<1> QED BY <1>1, <1>2, <1>5, <1>6, <1>7, CallListen

LEMMA ReturnListen ==
  ASSUME IInv, ListenInv, Return
  PROVE  ListenInv'
<1>1. /\ calls \in Seq(EntrySet) /\ calls # <<>> /\ Head(calls) = calls[1] /\ Len(calls) \in Nat
      /\ StackOK /\ disturbed \in BOOLEAN
  BY DEF IInv, StackOK, StackTyped, StoreOK, TypeOK, Return, Doing
<1>2. /\ calls[1].do \in Signals /\ Continue(<<>>) /\ UNCHANGED <<store, known, mirror>> /\ disturbed' = disturbed
  BY <1>1 DEF Return, Doing, told
<1>3. Pushed(<<>>, 1) /\ Len(calls) > 0
  BY <1>1, <1>2, ContinuePushes, EmptySeq
<1>4. Untouched
  BY <1>2, SameUntouched
<1>5. calls[1].do # "unload" /\ calls[1].do # "adding"
  BY <1>2 DEF Signals
<1>6. 1 \in 0 .. 1 /\ 1 <= Len(calls)
  BY <1>1, <1>3
<1>7. PICK new : new = <<>>
  OBVIOUS
<1>8. new \in Seq(EntrySet) /\ Len(new) = 0 /\ \A i \in 1 .. Len(new) : FALSE
  BY <1>7
<1> QED BY <1>1, <1>2, <1>3, <1>4, <1>5, <1>6, <1>7, <1>8, QuietListen

(* While another callback runs no removal is announced that the mirror     *)
(* took notice of.                                                         *)
LEMMA CallbackAlone ==
  ASSUME IInv, ListenInv, calls # <<>>, Head(calls).do \in Callbacks \ {"unload"}
  PROVE  disturbed = FALSE => \A i \in Depths : calls[i].do # "unload"
<1>1. calls[1].do = Head(calls).do
  BY HeadFacts
<1>2. calls[1].do # "unload" /\ calls[1].do # "about_to_be_removed"
  BY <1>1 DEF Callbacks, Unloading, Ending
<1> QED BY <1>2 DEF ListenInv, MirrorInv

LEMMA DestroyingListen ==
  ASSUME IInv, ListenInv, Destroying
  PROVE  ListenInv'
<1>1. PICK h : h = On
  OBVIOUS
<1>2. PICK x : x = UnloadFirst(h)
  OBVIOUS
<1>3. PICK y : y = <<Do("erase", h)>>
  OBVIOUS
<1>4. /\ calls # <<>> /\ Head(calls).do = "destroying" /\ Continue(x \o y)
      /\ UNCHANGED <<store, known, mirror>> /\ disturbed' = disturbed
  BY <1>1, <1>2, <1>3 DEF Destroying, Doing, told
<1>5. Head(calls).do \in Callbacks \ {"unload"}
  BY <1>4 DEF Callbacks, Unloading, Ending
<1>6. /\ calls \in Seq(EntrySet) /\ calls[1].do = "destroying" /\ h \in Nat
      /\ StackOK /\ disturbed \in BOOLEAN
  BY <1>1, <1>4, <1>5, HeadFacts DEF IInv, StoreOK, TypeOK
<1>7. /\ Do("deactivated", h) \in EntrySet /\ Do("deactivated", h).do = "deactivated"
      /\ Do("erase", h) \in EntrySet /\ Do("erase", h).do = "erase"
  BY <1>6, EntryFacts DEF Callbacks, Unloading, Ending
<1>8. /\ x \in Seq(EntrySet) /\ \A i \in 1 .. Len(x) : x[i] = Do("deactivated", h)
      /\ y \in Seq(EntrySet) /\ \A i \in 1 .. Len(y) : y[i] = Do("erase", h)
  BY <1>2, <1>3, <1>7, OneOrNone DEF UnloadFirst
<1>9. PICK new : new = x \o y
  OBVIOUS
<1>10. /\ new \in Seq(EntrySet) /\ Len(new) = Len(x) + Len(y)
       /\ \A i \in 1 .. (Len(x) + Len(y)) : new[i] = IF i <= Len(x) THEN x[i] ELSE y[i - Len(x)]
  BY <1>8, <1>9, ConcatAt
<1>11. Len(x) \in Nat /\ Len(y) \in Nat
  BY <1>8
<1>12. \A i \in 1 .. Len(new) : new[i].do # "unload" /\ new[i].do # "adding"
  <2>1. \A i \in 1 .. Len(x) : x[i].do = "deactivated"
    BY <1>7, <1>8
  <2>2. \A i \in 1 .. Len(y) : y[i].do = "erase"
    BY <1>7, <1>8
  <2>3. \A i \in 1 .. Len(new) : \/ i \in 1 .. Len(x) /\ new[i] = x[i]
                                 \/ i - Len(x) \in 1 .. Len(y) /\ new[i] = y[i - Len(x)]
    BY <1>10, <1>11, EitherPart
  <2> QED BY <2>1, <2>2, <2>3
<1>13. Pushed(new, 1) /\ 1 <= Len(calls) /\ 1 \in 0 .. 1
  <2>1. Pushed(new, 1) /\ Len(calls) > 0
    BY <1>4, <1>6, <1>9, <1>10, ContinuePushes
  <2> QED BY <1>6, <2>1
<1>14. Untouched
  BY <1>4, SameUntouched
<1>15. disturbed' = TRUE \/ (disturbed' = disturbed /\ \A i \in Depths : calls[i].do # "unload")
  BY <1>4, <1>5, <1>6, CallbackAlone
<1> QED BY <1>6, <1>10, <1>12, <1>13, <1>14, <1>15, QuietListen

LEMMA EraseListen ==
  ASSUME IInv, ListenInv, Erase
  PROVE  ListenInv'
<1>1. PICK h : h = On
  OBVIOUS
<1>2. /\ calls # <<>> /\ Head(calls).do = "erase" /\ Continue(<<>>)
      /\ indices' = Dropped(indices, PosOf(h)) /\ slots' = MovedUp(PosOf(h))
      /\ free' = Append(free, h) /\ num' = num
      /\ where' = where /\ known' = known /\ mirror' = mirror /\ disturbed' = disturbed
  BY <1>1 DEF Erase, Doing, told
<1>3. Head(calls).do \in Callbacks \ {"unload"}
  BY <1>2 DEF Callbacks, Unloading, Ending
<1>4. /\ calls \in Seq(EntrySet) /\ calls[1].do = "erase" /\ h \in Live /\ h \in Handles
      /\ StackOK /\ disturbed \in BOOLEAN /\ calls[1].on = h /\ 1 \in Depths
  BY <1>1, <1>2, <1>3, HeadFacts DEF IInv, StoreOK, TypeOK
<1>5. h \in Live \ Active
  BY <1>4 DEF StackOK, CallbacksFit
<1>6. ToldTyped'
  BY <1>2 DEF IInv, StoreOK, TypeOK, ToldTyped
<1>7. /\ StoreOK' /\ Active' = Active
      /\ \A g \in Handles : slots'[g].file = slots[g].file
      /\ Live' = Live \ {h}
      /\ \A g \in Live' :
           /\ g \in Live /\ PosOf(g) # PosOf(h) /\ FileIndex(g)' = FileIndex(g)
           /\ PosOf(g)' = IF PosOf(g) > PosOf(h) THEN PosOf(g) - 1 ELSE PosOf(g)
  BY <1>2, <1>5, <1>6, EraseStore DEF IInv
<1>8. /\ Active \subseteq Handles /\ Active \subseteq Live
      /\ \A g \in Live : PosOf(g) \in Nat
  BY StoreFacts DEF IInv
<1>9. Untouched
  <2>1. \A g \in Active : g \in Live'
    BY <1>5, <1>7, <1>8
  <2>2. ASSUME NEW f \in Active, NEW g \in Active
        PROVE  PosOf(f)' < PosOf(g)' <=> PosOf(f) < PosOf(g)
    <3>1. /\ PosOf(f) \in Nat /\ PosOf(g) \in Nat /\ PosOf(h) \in Nat
          /\ PosOf(f) # PosOf(h) /\ PosOf(g) # PosOf(h)
      BY <1>4, <1>7, <1>8, <2>1
    <3> QED BY <1>7, <2>1, <3>1
  <2>3. \A g \in Active : FileOf(g)' = FileOf(g) /\ FileIndex(g)' = FileIndex(g)
    BY <1>7, <1>8, <2>1 DEF FileOf
  <2> QED BY <1>2, <1>7, <2>2, <2>3 DEF Untouched
<1>10. PICK new : new = <<>>
  OBVIOUS
<1>11. new \in Seq(EntrySet) /\ Len(new) = 0 /\ \A i \in 1 .. Len(new) : FALSE
  BY <1>10
<1>12. Pushed(new, 1) /\ 1 <= Len(calls) /\ 1 \in 0 .. 1
  <2>1. Pushed(new, 1) /\ Len(calls) > 0
    BY <1>2, <1>4, <1>10, <1>11, ContinuePushes
  <2> QED BY <1>4, <2>1
<1>13. disturbed' = TRUE \/ (disturbed' = disturbed /\ \A i \in Depths : calls[i].do # "unload")
  BY <1>2, <1>3, <1>4, CallbackAlone
<1> QED BY <1>4, <1>9, <1>11, <1>12, <1>13, QuietListen

LEMMA Continued ==
  ASSUME calls \in Seq(EntrySet), calls # <<>>, NEW new \in Seq(EntrySet), Continue(new)
  PROVE  /\ \A i \in Depths' : \/ i \in 1 .. Len(new) /\ calls'[i] = new[i]
                               \/ \E m \in Depths : m > 1 /\ m = i - Len(new) + 1 /\ calls'[i] = calls[m]
         /\ \A i \in 1 .. Len(new) : i \in Depths' /\ calls'[i] = new[i]
         /\ \A m \in Depths : m > 1 => \E i \in Depths' : calls'[i] = calls[m]
         /\ 1 \in Depths
<1>1. Pushed(new, 1) /\ Len(calls) > 0 /\ Len(calls) \in Nat
  BY ContinuePushes, LenProperties
<1>2. 1 \in 0 .. 1 /\ 1 <= Len(calls) /\ 1 \in Depths
  BY <1>1 DEF Depths
<1>3. /\ \A i \in Depths' : \/ i \in 1 .. Len(new) /\ calls'[i] = new[i]
                            \/ /\ i - Len(new) + 1 \in Depths /\ i - Len(new) + 1 > 1
                               /\ calls'[i] = calls[i - Len(new) + 1]
      /\ \A i \in 1 .. Len(new) : i \in Depths' /\ calls'[i] = new[i]
      /\ \A i \in Depths : i > 1 => i + Len(new) - 1 \in Depths' /\ calls'[i + Len(new) - 1] = calls[i]
  BY <1>1, <1>2, OnStack
<1> QED BY <1>2, <1>3

(* What is known of the batch and of the removals announced, by the head.  *)
LEMMA BatchFacts ==
  ASSUME IInv, ListenInv, calls # <<>>
  PROVE  /\ calls \in Seq(EntrySet) /\ 1 \in Depths /\ Head(calls) = calls[1] /\ calls[1] \in EntrySet
         /\ Batch = IF Head(calls).do = "adding" THEN Head(calls).done ELSE <<>>
         /\ Batch \in Seq(Nat \ {0}) /\ \A j \in 1 .. Len(Batch) : Batch[j] \in Active
         /\ Head(calls).do = "adding" => Announced = {} /\ \A j \in Depths : calls[j].do # "unload" /\ calls[j].do # "erase"
         /\ \A j \in Depths : j > 1 => calls[j].do # "adding"
<1>1. calls \in Seq(EntrySet) /\ 1 \in Depths /\ Head(calls) = calls[1] /\ calls[1] \in EntrySet
  BY DEF IInv, StackOK, StackTyped, Depths
<1>2. Batch = IF Head(calls).do = "adding" THEN Head(calls).done ELSE <<>>
  BY <1>1 DEF Batch
<1>3. Batch \in Seq(Nat \ {0})
  BY <1>1, <1>2 DEF EntrySet
<1>4. \A j \in 1 .. Len(Batch) : Batch[j] \in Active
  BY <1>3 DEF ListenInv, CallsApart, Elements
<1>5. Head(calls).do = "adding" => \A j \in Depths : calls[j].do # "unload" /\ calls[j].do # "erase"
  BY <1>1 DEF ListenInv, CallsApart
<1>6. Head(calls).do = "adding" => Announced = {}
  BY <1>5 DEF Announced
<1>7. \A j \in Depths : j > 1 => calls[j].do # "adding"
  BY DEF IInv, StackOK, StackTyped
<1> QED BY <1>1, <1>2, <1>3, <1>4, <1>5, <1>6, <1>7

LEMMA AddFilesListen ==
  ASSUME IInv, ListenInv, NEW fs \in Batches, AddFiles(fs)
  PROVE  ListenInv'
<1>1. PICK e : e = Entry("adding", 0, fs, <<>>)
  OBVIOUS
<1>2. /\ Start(<<e>>) /\ UNCHANGED <<store, known, mirror>> /\ disturbed' = disturbed /\ ~SlotReferenced
  BY <1>1 DEF AddFiles, told
<1>3. e \in EntrySet /\ e.do = "adding" /\ e.done = <<>>
  <2>1. PICK n \in 1 .. MaxBatch : fs \in [1 .. n -> Files]
    BY DEF Batches
  <2>2. n \in Nat
    BY <2>1, BoundsAssumption
  <2>3. fs \in Seq(Files)
    BY <2>1, <2>2, FunctionIsSeq
  <2> QED BY <1>1, <2>3 DEF Entry, EntrySet
<1>4. PICK new : new = <<e>>
  OBVIOUS
<1>5. new \in Seq(EntrySet) /\ Len(new) = 1 /\ new[1] = e /\ \A i \in 1 .. Len(new) : i = 1
  BY <1>3, <1>4
<1>6. calls \in Seq(EntrySet) /\ Len(calls) \in Nat /\ StackOK
  BY DEF IInv, StackOK, StackTyped
<1>7. Pushed(new, 0) /\ (calls = <<>> \/ Head(calls).do \in Signals)
  BY <1>2, <1>4, <1>5, <1>6, StartPushes DEF Start
<1>8. 0 \in 0 .. 1 /\ 0 <= Len(calls)
  BY <1>6
<1>9. \A i \in Depths : calls[i].do # "unload" /\ calls[i].do # "erase"
  <2>1. DOMAIN calls = Depths
    BY <1>6 DEF Depths
  <2> QED BY <1>2, <2>1 DEF SlotReferenced
<1>10. /\ \A i \in Depths' : (i \in 1 .. Len(new) /\ calls'[i] = new[i]) \/ \E m \in Depths : calls'[i] = calls[m]
       /\ 1 \in Depths' /\ calls'[1] = e
  <2>1. /\ \A i \in Depths' : \/ i \in 1 .. Len(new) /\ calls'[i] = new[i]
                              \/ /\ i - Len(new) + 0 \in Depths /\ i - Len(new) + 0 > 0
                                 /\ calls'[i] = calls[i - Len(new) + 0]
        /\ \A i \in 1 .. Len(new) : i \in Depths' /\ calls'[i] = new[i]
    BY <1>5, <1>6, <1>7, <1>8, OnStack
  <2> QED BY <1>5, <2>1
<1>11. \A i \in Depths' : calls'[i].do # "unload" /\ calls'[i].do # "erase"
  BY <1>3, <1>5, <1>9, <1>10
<1>12. Announced = {} /\ Announced' = {}
  BY <1>9, <1>11 DEF Announced
<1>13. Batch = <<>> /\ Batch' = <<>>
  <2>1. Batch = <<>>
    BY <1>6, <1>7 DEF Batch, Signals
  <2>2. Batch' = <<>>
    BY <1>3, <1>10 DEF Batch
  <2> QED BY <2>1, <2>2
<1>14. Untouched
  BY <1>2, SameUntouched
<1>15. Settled = Active /\ Settled' = Active
  BY <1>12, <1>13, <1>14, ElementsEmpty DEF Settled, Untouched
<1>16. CallsApart'
  <2>1. Elements(Batch)' = {}
    BY <1>13, ElementsEmpty
  <2> QED BY <1>11, <2>1 DEF CallsApart
<1>17. KnownInv'
  BY <1>14, <1>15 DEF KnownInv, ListenInv, Untouched
<1>18. MirrorInv'
  <2> SUFFICES ASSUME disturbed' = FALSE
               PROVE  /\ Len(mirror)' + Len(Batch)' + (IF Announced' = {} THEN 0 ELSE 1) = num'
                      /\ \A h \in Settled' : Place(h)' < Len(mirror)' /\ mirror'[Place(h)' + 1] = FileOf(h)'
                      /\ \A j \in 1 .. Len(Batch)' : FileIndex(Batch[j])' = Len(mirror)' + j - 1
    BY <1>11 DEF MirrorInv
  <2>1. disturbed = FALSE
    BY <1>2
  <2>2. /\ Len(mirror) + Len(Batch) + (IF Announced = {} THEN 0 ELSE 1) = num
        /\ \A h \in Settled : Place(h) < Len(mirror) /\ mirror[Place(h) + 1] = FileOf(h)
    BY <2>1 DEF ListenInv, MirrorInv
  <2>3. Len(Batch) = 0 /\ Len(Batch)' = 0
    BY <1>13
  <2>4. \A h \in Active : Place(h)' = Place(h)
    BY <1>12, <1>14 DEF Place, Untouched
  <2>5. Len(mirror)' + Len(Batch)' + (IF Announced' = {} THEN 0 ELSE 1) = num'
    BY <1>12, <1>14, <2>2, <2>3 DEF Untouched
  <2>6. \A h \in Settled' : Place(h)' < Len(mirror)' /\ mirror'[Place(h)' + 1] = FileOf(h)'
    BY <1>14, <1>15, <2>2, <2>4 DEF Untouched
  <2>7. \A j \in 1 .. Len(Batch)' : FALSE
    BY <2>3
  <2> QED BY <2>5, <2>6, <2>7
<1> QED BY <1>16, <1>17, <1>18 DEF ListenInv

LEMMA AddOneListen ==
  ASSUME IInv, ListenInv, AddOne
  PROVE  ListenInv'
<1>1. PICK n : n = NewHandle
  OBVIOUS
<1>2. PICK f : f = Head(Head(calls).todo)
  OBVIOUS
<1>3. PICK e : e = Entry("adding", 0, Tail(Head(calls).todo), Append(Head(calls).done, n))
  OBVIOUS
<1>4. /\ calls # <<>> /\ Head(calls).do = "adding" /\ Head(calls).todo # <<>>
      /\ Continue(<<e>>) /\ AddedLast(f) /\ where' = [where EXCEPT ![f] = "in"]
      /\ known' = known /\ mirror' = mirror /\ disturbed' = disturbed
  BY <1>1, <1>2, <1>3 DEF AddOne, Doing, NewEntry, AddedLast, told
<1>5. /\ calls \in Seq(EntrySet) /\ 1 \in Depths /\ Head(calls) = calls[1] /\ calls[1] \in EntrySet
      /\ Batch = Head(calls).done /\ Batch \in Seq(Nat \ {0}) /\ \A j \in 1 .. Len(Batch) : Batch[j] \in Active
      /\ Announced = {} /\ \A j \in Depths : calls[j].do # "unload" /\ calls[j].do # "erase"
  BY <1>4, BatchFacts
<1>6. Head(calls).todo \in Seq(Files) /\ f \in Files /\ Tail(Head(calls).todo) \in Seq(Files)
  <2>1. Head(calls).todo \in Seq(Files)
    BY <1>5 DEF EntrySet
  <2> QED BY <1>2, <1>4, <2>1
<1>7. ToldTyped'
  <2>1. where' \in [Files -> {"new", "in", "out", "gone"}]
    BY <1>4, <1>6 DEF IInv, StoreOK, TypeOK
  <2> QED BY <1>4, <2>1 DEF IInv, StoreOK, TypeOK, ToldTyped
<1>8. /\ n \in Nat \ {0} /\ n \notin Live /\ Active' = Active \cup {n}
      /\ \A g \in Handles : g # n => slots'[g].file = slots[g].file
      /\ \A g \in Live : g # n /\ PosOf(g)' = PosOf(g) /\ FileIndex(g)' = FileIndex(g)
      /\ slots'[n].pos = Len(indices) + 1 /\ indices'[Len(indices) + 1] = num
  BY <1>1, <1>4, <1>6, <1>7, AddStore DEF IInv
<1>9. Active \subseteq Live /\ Live \subseteq Handles /\ num \in Nat
  BY StoreFacts, OrderFacts DEF IInv
<1>10. /\ \A g \in Active : FileOf(g)' = FileOf(g) /\ FileIndex(g)' = FileIndex(g)
       /\ FileIndex(n)' = num /\ num' = num + 1 /\ n \notin Active
  BY <1>4, <1>8, <1>9 DEF FileOf, FileIndex, PosOf, AddedLast
<1>11. e \in EntrySet /\ e.do = "adding" /\ e.done = Append(Batch, n)
  <2>1. Append(Batch, n) \in Seq(Nat \ {0})
    BY <1>5, <1>8
  <2> QED BY <1>3, <1>5, <1>6, <2>1 DEF Entry, EntrySet
<1>12. PICK new : new = <<e>>
  OBVIOUS
<1>13. new \in Seq(EntrySet) /\ Len(new) = 1 /\ new[1] = e /\ \A i \in 1 .. Len(new) : i = 1
  BY <1>11, <1>12
<1>14. /\ \A i \in Depths' : (i \in 1 .. Len(new) /\ calls'[i] = new[i]) \/ \E m \in Depths : calls'[i] = calls[m]
       /\ 1 \in Depths' /\ calls'[1] = e
  <2>1. Continue(new)
    BY <1>4, <1>12
  <2>2. /\ \A i \in Depths' : \/ i \in 1 .. Len(new) /\ calls'[i] = new[i]
                              \/ \E m \in Depths : m > 1 /\ m = i - Len(new) + 1 /\ calls'[i] = calls[m]
        /\ \A i \in 1 .. Len(new) : i \in Depths' /\ calls'[i] = new[i]
    BY <1>4, <1>5, <1>13, <2>1, Continued
  <2>3. 1 \in 1 .. Len(new)
    BY <1>13
  <2> QED BY <1>13, <2>2, <2>3
<1>15. \A i \in Depths' : calls'[i].do # "unload" /\ calls'[i].do # "erase"
  BY <1>5, <1>11, <1>13, <1>14
<1>16. Announced' = {}
  BY <1>15 DEF Announced
<1>17. Batch' = Append(Batch, n)
  <2>1. calls' # <<>>
    BY <1>14 DEF Depths
  <2> QED BY <1>11, <1>14, <2>1 DEF Batch
<1>18. /\ Elements(Batch)' = Elements(Batch) \cup {n}
       /\ Len(Batch)' = Len(Batch) + 1 /\ Len(Batch) \in Nat
       /\ \A j \in 1 .. (Len(Batch) + 1) : Batch'[j] = IF j <= Len(Batch) THEN Batch[j] ELSE n
  <2>1. PICK B : B = Batch
    OBVIOUS
  <2>2. /\ Elements(Append(B, n)) = Elements(B) \cup {n}
        /\ Len(Append(B, n)) = Len(B) + 1 /\ Len(B) \in Nat
        /\ \A j \in 1 .. (Len(B) + 1) : Append(B, n)[j] = IF j <= Len(B) THEN B[j] ELSE n
    BY <1>5, <1>8, <2>1, ElementsAppend
  <2>3. Elements(Batch)' = Elements(Batch')
    BY DEF Elements
  <2> QED BY <1>17, <2>1, <2>2, <2>3
<1>19. Settled' = Settled
  BY <1>5, <1>8, <1>10, <1>16, <1>18 DEF Settled
<1>20. CallsApart'
  BY <1>8, <1>15, <1>18 DEF CallsApart, ListenInv
<1>21. KnownInv'
  <2>1. Settled \subseteq Active
    BY DEF Settled
  <2> QED BY <1>4, <1>10, <1>19, <2>1 DEF KnownInv, ListenInv
<1>22. MirrorInv'
  <2> SUFFICES ASSUME disturbed' = FALSE
               PROVE  /\ Len(mirror)' + Len(Batch)' + (IF Announced' = {} THEN 0 ELSE 1) = num'
                      /\ \A h \in Settled' : Place(h)' < Len(mirror)' /\ mirror'[Place(h)' + 1] = FileOf(h)'
                      /\ \A j \in 1 .. Len(Batch)' : FileIndex(Batch[j])' = Len(mirror)' + j - 1
    BY <1>15 DEF MirrorInv
  <2>1. disturbed = FALSE
    BY <1>4
  <2>2. /\ Len(mirror) + Len(Batch) + (IF Announced = {} THEN 0 ELSE 1) = num
        /\ \A h \in Settled : Place(h) < Len(mirror) /\ mirror[Place(h) + 1] = FileOf(h)
        /\ \A j \in 1 .. Len(Batch) : FileIndex(Batch[j]) = Len(mirror) + j - 1
    BY <2>1 DEF ListenInv, MirrorInv
  <2>3. \A h \in Active : Place(h) = FileIndex(h) /\ Place(h)' = FileIndex(h)'
    BY <1>5, <1>16 DEF Place
  <2>4. mirror \in Seq(Files) /\ Len(mirror) \in Nat /\ Len(mirror) + Len(Batch) = num
    BY <1>5, <2>2 DEF IInv, StoreOK, TypeOK
  <2>5. Len(mirror)' + Len(Batch)' + (IF Announced' = {} THEN 0 ELSE 1) = num'
    BY <1>4, <1>10, <1>16, <1>18, <2>4
  <2>6. ASSUME NEW h \in Settled'
        PROVE  Place(h)' < Len(mirror)' /\ mirror'[Place(h)' + 1] = FileOf(h)'
    <3>1. h \in Settled /\ h \in Active
      BY <1>19 DEF Settled
    <3> QED BY <1>4, <1>10, <2>2, <2>3, <3>1
  <2>7. ASSUME NEW j \in 1 .. Len(Batch)'
        PROVE  FileIndex(Batch[j])' = Len(mirror)' + j - 1
    <3>1. j \in 1 .. (Len(Batch) + 1)
      BY <1>18
    <3>2. CASE j <= Len(Batch)
      <4>1. j \in 1 .. Len(Batch) /\ Batch[j] \in Active /\ Batch'[j] = Batch[j]
        BY <1>5, <1>18, <3>1, <3>2
      <4>2. FileIndex(Batch[j])' = indices'[slots'[Batch[j]].pos]
        BY <4>1 DEF FileIndex, PosOf
      <4> QED BY <1>4, <1>10, <2>2, <4>1, <4>2 DEF FileIndex, PosOf
    <3>3. CASE ~(j <= Len(Batch))
      <4>1. j = Len(Batch) + 1 /\ Batch'[j] = n
        BY <1>18, <3>1, <3>3
      <4>2. FileIndex(Batch[j])' = indices'[slots'[n].pos]
        BY <4>1 DEF FileIndex, PosOf
      <4>3. FileIndex(Batch[j])' = num
        BY <1>8, <4>2
      <4> QED BY <1>4, <1>18, <2>4, <4>1, <4>3
    <3> QED BY <3>2, <3>3
  <2> QED BY <2>5, <2>6, <2>7
<1> QED BY <1>20, <1>21, <1>22 DEF ListenInv

(* The listener appends what was added, in the order of the handles.       *)
LEMMA AddDoneListen ==
  ASSUME IInv, ListenInv, AddDone
  PROVE  ListenInv'
<1>1. PICK hs : hs = Head(calls).done
  OBVIOUS
<1>2. PICK fs : fs = [i \in DOMAIN hs |-> FileOf(hs[i])]
  OBVIOUS
<1>3. PICK new : new = <<Signal("files_added", hs), Signal("changed", <<>>)>>
  OBVIOUS
<1>4. /\ calls # <<>> /\ Head(calls).do = "adding" /\ Continue(new)
      /\ known' = known \cup {fs[i] : i \in DOMAIN fs} /\ mirror' = mirror \o fs
      /\ UNCHANGED store /\ disturbed' = disturbed
  BY <1>1, <1>2, <1>3 DEF AddDone, Doing
<1>5. /\ calls \in Seq(EntrySet) /\ 1 \in Depths /\ Head(calls) = calls[1]
      /\ Batch = hs /\ hs \in Seq(Nat \ {0}) /\ \A j \in 1 .. Len(hs) : hs[j] \in Active
      /\ Announced = {} /\ \A j \in Depths : calls[j].do # "unload"
      /\ \A j \in Depths : j > 1 => calls[j].do # "adding"
  BY <1>1, <1>4, BatchFacts
<1>6. /\ new \in Seq(EntrySet) /\ Len(new) = 2
      /\ \A i \in 1 .. Len(new) : new[i].do \in Signals
  <2>1. "files_added" \in Signals /\ "changed" \in Signals /\ <<>> \in Seq(Nat \ {0})
    BY EmptySeq DEF Signals
  <2>2. Signal("files_added", hs) \in EntrySet /\ Signal("files_added", hs).do = "files_added"
    BY <1>5, <2>1, EntryFacts
  <2>3. Signal("changed", <<>>) \in EntrySet /\ Signal("changed", <<>>).do = "changed"
    BY <2>1, EntryFacts
  <2> QED BY <1>3, <2>1, <2>2, <2>3
<1>7. /\ \A i \in Depths' : \/ i \in 1 .. Len(new) /\ calls'[i] = new[i]
                            \/ \E m \in Depths : m > 1 /\ m = i - Len(new) + 1 /\ calls'[i] = calls[m]
      /\ \A i \in 1 .. Len(new) : i \in Depths' /\ calls'[i] = new[i]
  BY <1>4, <1>5, <1>6, Continued
<1>8. \A i \in Depths' : calls'[i].do # "unload" /\ calls'[i].do # "adding"
  BY <1>5, <1>6, <1>7 DEF Signals
<1>9. Announced' = {}
  BY <1>8 DEF Announced
<1>10. Batch' = <<>>
  <2>1. 1 \in Depths'
    BY <1>6, <1>7
  <2> QED BY <1>8, <2>1 DEF Batch
<1>11. /\ slots' = slots /\ indices' = indices /\ num' = num /\ Active' = Active
       /\ \A g \in Active : FileOf(g)' = FileOf(g) /\ FileIndex(g)' = FileIndex(g)
  BY <1>4 DEF store, Active, Handles, FileOf, FileIndex, PosOf
<1>12. Settled' = Active /\ Elements(Batch)' = {}
  <2>1. Elements(Batch)' = {}
    BY <1>10, ElementsEmpty
  <2> QED BY <1>9, <1>11, <2>1 DEF Settled
<1>13. Settled = Active \ Elements(hs)
  BY <1>5 DEF Settled
<1>14. /\ fs \in Seq(Files) /\ Len(fs) = Len(hs) /\ Len(hs) \in Nat
       /\ DOMAIN fs = 1 .. Len(hs) /\ DOMAIN hs = 1 .. Len(hs)
       /\ \A j \in 1 .. Len(hs) : fs[j] = FileOf(hs[j])
  <2>1. \A g \in Active : FileOf(g) \in Files
    BY StoreFacts DEF IInv, FileOf
  <2>2. Len(hs) \in Nat /\ DOMAIN hs = 1 .. Len(hs)
    BY <1>5
  <2>3. fs \in [1 .. Len(hs) -> Files] /\ \A j \in 1 .. Len(hs) : fs[j] = FileOf(hs[j])
    BY <1>2, <1>5, <2>1, <2>2
  <2> QED BY <2>2, <2>3, FunctionIsSeq
<1>15. CallsApart'
  BY <1>8, <1>12 DEF CallsApart
<1>16. KnownInv'
  <2>1. {fs[i] : i \in DOMAIN fs} = {FileOf(h) : h \in Elements(hs)}
    BY <1>14 DEF Elements
  <2>2. Elements(hs) \subseteq Active
    BY <1>5, <1>14 DEF Elements
  <2>3. known = {FileOf(h) : h \in Settled}
    BY DEF ListenInv, KnownInv
  <2>4. known' = {FileOf(h) : h \in Active}
    BY <1>4, <1>13, <2>1, <2>2, <2>3
  <2> QED BY <1>11, <1>12, <2>4 DEF KnownInv
<1>17. MirrorInv'
  <2> SUFFICES ASSUME disturbed' = FALSE
               PROVE  /\ Len(mirror)' + Len(Batch)' + (IF Announced' = {} THEN 0 ELSE 1) = num'
                      /\ \A h \in Settled' : Place(h)' < Len(mirror)' /\ mirror'[Place(h)' + 1] = FileOf(h)'
                      /\ \A j \in 1 .. Len(Batch)' : FileIndex(Batch[j])' = Len(mirror)' + j - 1
    BY <1>8 DEF MirrorInv
  <2>1. /\ Len(mirror) + Len(Batch) + (IF Announced = {} THEN 0 ELSE 1) = num
        /\ \A h \in Settled : Place(h) < Len(mirror) /\ mirror[Place(h) + 1] = FileOf(h)
        /\ \A j \in 1 .. Len(Batch) : FileIndex(Batch[j]) = Len(mirror) + j - 1
    BY <1>4 DEF ListenInv, MirrorInv
  <2>2. \A h \in Active : Place(h) = FileIndex(h) /\ Place(h)' = FileIndex(h)'
    BY <1>5, <1>9 DEF Place
  <2>3. /\ mirror \in Seq(Files) /\ Len(mirror) \in Nat
        /\ Len(mirror') = Len(mirror) + Len(hs)
        /\ \A i \in 1 .. (Len(mirror) + Len(hs)) :
             mirror'[i] = IF i <= Len(mirror) THEN mirror[i] ELSE fs[i - Len(mirror)]
    <3>1. mirror \in Seq(Files)
      BY DEF IInv, StoreOK, TypeOK
    <3>2. PICK m : m = mirror
      OBVIOUS
    <3>3. /\ Len(m \o fs) = Len(m) + Len(fs)
          /\ \A i \in 1 .. (Len(m) + Len(fs)) : (m \o fs)[i] = IF i <= Len(m) THEN m[i] ELSE fs[i - Len(m)]
      <4>1. m \in Seq(Files) /\ fs \in Seq(Files)
        BY <1>14, <3>1, <3>2
      <4> QED BY <4>1, ConcatAt
    <3> QED BY <1>4, <1>14, <3>1, <3>2, <3>3
  <2>4. Len(mirror)' + Len(Batch)' + (IF Announced' = {} THEN 0 ELSE 1) = num'
    <3>1. Len(Batch)' = 0
      BY <1>10
    <3> QED BY <1>5, <1>9, <1>11, <2>1, <2>3, <3>1
  <2>5. \A h \in Active : FileIndex(h) \in Nat
    BY StoreFacts DEF IInv
  <2>6. ASSUME NEW h \in Settled'
        PROVE  Place(h)' < Len(mirror)' /\ mirror'[Place(h)' + 1] = FileOf(h)'
    <3>1. h \in Active /\ Place(h)' = FileIndex(h) /\ FileOf(h)' = FileOf(h) /\ FileIndex(h) \in Nat
      BY <1>11, <1>12, <2>2, <2>5
    <3>2. CASE h \in Settled
      <4>1. FileIndex(h) < Len(mirror) /\ mirror[FileIndex(h) + 1] = FileOf(h)
        BY <2>1, <2>2, <3>1, <3>2
      <4>2. FileIndex(h) + 1 \in 1 .. (Len(mirror) + Len(hs)) /\ FileIndex(h) + 1 <= Len(mirror)
        BY <1>14, <2>3, <3>1, <4>1
      <4> QED BY <1>14, <2>3, <3>1, <4>1, <4>2
    <3>3. CASE h \notin Settled
      <4>1. PICK j \in 1 .. Len(hs) : h = hs[j]
        BY <1>13, <1>14, <3>1, <3>3 DEF Elements
      <4>2. FileIndex(h) = Len(mirror) + j - 1 /\ fs[j] = FileOf(h)
        BY <1>5, <1>14, <2>1, <4>1
      <4>3. /\ FileIndex(h) + 1 \in 1 .. (Len(mirror) + Len(hs)) /\ ~(FileIndex(h) + 1 <= Len(mirror))
            /\ FileIndex(h) + 1 - Len(mirror) = j
        BY <1>14, <2>3, <4>2
      <4> QED BY <1>14, <2>3, <3>1, <4>2, <4>3
    <3> QED BY <3>2, <3>3
  <2>7. \A j \in 1 .. Len(Batch)' : FALSE
    BY <1>10
  <2> QED BY <2>4, <2>6, <2>7
<1> QED BY <1>15, <1>16, <1>17 DEF ListenInv

(* No two loaded files are one.                                            *)
LEMMA FilesDiffer ==
  ASSUME IInv
  PROVE  /\ \A g, h \in Live : FileOf(g) = FileOf(h) => g = h
         /\ \A g \in Live : FileOf(g) \in Files
         /\ Active \subseteq Live /\ Live \subseteq Handles
         /\ \A g \in Live : PosOf(g) \in Nat /\ FileIndex(g) \in Nat
         /\ \A g, h \in Live : PosOf(g) = PosOf(h) => g = h
         /\ \A h \in Active : FileIndex(h) < num
         /\ \A g, h \in Live : PosOf(g) < PosOf(h) /\ g \in Active => FileIndex(g) < FileIndex(h)
         /\ num \in Nat
<1>1. \A g, h \in Live : FileOf(g) = FileOf(h) => g = h
  BY DEF IInv, StackOK, FilesApart
<1>2. /\ Active \subseteq Live /\ Live \subseteq Handles
      /\ \A g \in Live : PosOf(g) \in 1 .. Len(indices) /\ FileIndex(g) \in Nat
      /\ \A g \in Live : FileOf(g) \in Files
      /\ Len(indices) \in Nat
  BY StoreFacts DEF IInv, FileOf
<1>3. \A g \in Live : PosOf(g) \in Nat
  BY <1>2
<1> QED BY <1>1, <1>2, <1>3, OrderFacts DEF IInv

(* The removal is announced: the mirror drops the file.                    *)
LEMMA DeactivatedListen ==
  ASSUME IInv, ListenInv, Deactivated
  PROVE  ListenInv'
<1>1. PICK h : h = On
  OBVIOUS
<1>2. PICK new : new = <<Signal("about_to_be_removed", <<h>>), Do("unload", h)>>
  OBVIOUS
<1>3. /\ calls # <<>> /\ Head(calls).do = "deactivated" /\ Continue(new)
      /\ known' = known \ {FileOf(h)}
      /\ mirror' = IF FileIndex(h) < Len(mirror) THEN Dropped(mirror, FileIndex(h) + 1) ELSE mirror
      /\ UNCHANGED store /\ disturbed' = disturbed
  BY <1>1, <1>2 DEF Deactivated, Doing
<1>4. /\ Head(calls).do \in Callbacks \ {"unload"} /\ Head(calls).do \in Unloading
      /\ Head(calls).do # "adding"
  BY <1>3 DEF Callbacks, Unloading, Ending
<1>5. /\ calls \in Seq(EntrySet) /\ 1 \in Depths /\ Head(calls) = calls[1] /\ Batch = <<>>
      /\ \A j \in Depths : j > 1 => calls[j].do # "adding"
  BY <1>3, <1>4, BatchFacts
<1>6. h \in Nat \ {0} /\ h \in Active /\ h \in Live
  <2>1. On \in Live /\ calls[1].on = On
    BY <1>3, <1>4, HeadFacts
  <2>2. calls[1].on \in Active
    BY <1>4, <1>5 DEF IInv, StackOK, CallbacksFit
  <2>3. Handles \subseteq Nat \ {0} /\ Live \subseteq Handles
    BY StoreFacts DEF IInv
  <2> QED BY <1>1, <2>1, <2>2, <2>3
<1>7. /\ new \in Seq(EntrySet) /\ Len(new) = 2
      /\ new[1].do = "about_to_be_removed" /\ new[2].do = "unload" /\ new[2].on = h
      /\ \A i \in 1 .. Len(new) : i = 1 \/ i = 2
  <2>1. <<h>> \in Seq(Nat \ {0})
    BY <1>6
  <2>2. "about_to_be_removed" \in Signals /\ "unload" \in Callbacks /\ h \in Nat
    BY <1>6 DEF Signals, Callbacks, Unloading
  <2>3. /\ Signal("about_to_be_removed", <<h>>) \in EntrySet
        /\ Signal("about_to_be_removed", <<h>>).do = "about_to_be_removed"
    BY <2>1, <2>2, EntryFacts
  <2>4. Do("unload", h) \in EntrySet /\ Do("unload", h).do = "unload" /\ Do("unload", h).on = h
    BY <2>2, EntryFacts
  <2> QED BY <1>2, <2>3, <2>4
<1>8. /\ \A i \in Depths' : \/ i \in 1 .. Len(new) /\ calls'[i] = new[i]
                            \/ \E m \in Depths : m > 1 /\ m = i - Len(new) + 1 /\ calls'[i] = calls[m]
      /\ \A i \in 1 .. Len(new) : i \in Depths' /\ calls'[i] = new[i]
      /\ \A m \in Depths : m > 1 => \E i \in Depths' : calls'[i] = calls[m]
  BY <1>3, <1>5, <1>7, Continued
<1>9. 1 \in Depths' /\ 2 \in Depths' /\ calls'[1] = new[1] /\ calls'[2] = new[2]
  BY <1>7, <1>8
<1>10. \A i \in Depths' : calls'[i].do # "adding"
  BY <1>5, <1>7, <1>8
<1>11. /\ slots' = slots /\ indices' = indices /\ num' = num /\ Active' = Active
       /\ \A g \in Active : FileOf(g)' = FileOf(g) /\ FileIndex(g)' = FileIndex(g) /\ PosOf(g)' = PosOf(g)
  BY <1>3 DEF store, Active, Handles, FileOf, FileIndex, PosOf
<1>12. Announced' = Announced \cup {h}
  <2>1. \A m \in Depths : calls[m].do = "unload" => m > 1
    BY <1>3, <1>5 DEF Depths
  <2>2. ASSUME NEW u \in Active
        PROVE  (\E i \in Depths' : calls'[i].do = "unload" /\ calls'[i].on = u)
                 <=> u = h \/ \E i \in Depths : calls[i].do = "unload" /\ calls[i].on = u
    <3>1. ASSUME NEW i \in Depths', calls'[i].do = "unload", calls'[i].on = u
          PROVE  u = h \/ \E m \in Depths : calls[m].do = "unload" /\ calls[m].on = u
      BY <1>7, <1>8, <3>1
    <3>2. u = h => \E i \in Depths' : calls'[i].do = "unload" /\ calls'[i].on = u
      BY <1>7, <1>9
    <3>3. ASSUME NEW m \in Depths, calls[m].do = "unload", calls[m].on = u
          PROVE  \E i \in Depths' : calls'[i].do = "unload" /\ calls'[i].on = u
      BY <1>8, <2>1, <3>3
    <3> QED BY <3>1, <3>2, <3>3
  <2> QED BY <1>6, <1>11, <2>2 DEF Announced
<1>13. Batch' = <<>> /\ Elements(Batch)' = {} /\ Elements(Batch) = {}
  <2>1. Batch' = <<>>
    BY <1>9, <1>10 DEF Batch
  <2> QED BY <1>5, <2>1, ElementsEmpty
<1>14. Settled' = Settled \ {h} /\ Settled = Active \ Announced
  BY <1>11, <1>12, <1>13 DEF Settled
<1>15. CallsApart'
  BY <1>10, <1>13 DEF CallsApart
<1>16. KnownInv'
  <2>1. known = {FileOf(g) : g \in Settled}
    BY DEF ListenInv, KnownInv
  <2>2. \A g \in Settled : g \in Active /\ (FileOf(g) = FileOf(h) => g = h)
    BY <1>6, <1>14, FilesDiffer
  <2>3. known' = {FileOf(g) : g \in Settled \ {h}}
    BY <1>3, <2>1, <2>2
  <2> QED BY <1>11, <1>14, <2>2, <2>3 DEF KnownInv
<1>17. MirrorInv'
  <2> SUFFICES ASSUME disturbed' = FALSE
               PROVE  /\ \A i \in Depths' : calls'[i].do = "unload" => i = 2
                      /\ Len(mirror)' + Len(Batch)' + (IF Announced' = {} THEN 0 ELSE 1) = num'
                      /\ \A g \in Settled' : Place(g)' < Len(mirror)' /\ mirror'[Place(g)' + 1] = FileOf(g)'
                      /\ \A j \in 1 .. Len(Batch)' : FileIndex(Batch[j])' = Len(mirror)' + j - 1
    BY <1>7, <1>9 DEF MirrorInv
  <2>1. /\ Len(mirror) + Len(Batch) + (IF Announced = {} THEN 0 ELSE 1) = num
        /\ \A g \in Settled : Place(g) < Len(mirror) /\ mirror[Place(g) + 1] = FileOf(g)
    BY <1>3 DEF ListenInv, MirrorInv
  <2>2. \A i \in Depths : calls[i].do # "unload"
    BY <1>3, <1>4, CallbackAlone
  <2>3. Announced = {} /\ Announced' = {h} /\ Settled = Active
    BY <1>12, <1>14, <2>2 DEF Announced
  <2>4. \A i \in Depths' : calls'[i].do = "unload" => i = 2
    BY <1>7, <1>8, <2>2
  <2>5. \A g \in Active : Place(g) = FileIndex(g)
    BY <2>3 DEF Place
  <2>6. \A g \in Active : Place(g)' = IF PosOf(h) < PosOf(g) THEN FileIndex(g) - 1 ELSE FileIndex(g)
    BY <1>6, <1>11, <2>3 DEF Place
  <2>7. mirror \in Seq(Files) /\ Len(mirror) \in Nat /\ Len(mirror) = num
    <3>1. Len(Batch) = 0
      BY <1>5
    <3> QED BY <2>1, <2>3, <3>1 DEF IInv, StoreOK, TypeOK
  <2>8. PICK k : k = FileIndex(h) + 1
    OBVIOUS
  <2>9. k \in 1 .. Len(mirror) /\ mirror' = Dropped(mirror, k)
    BY <1>3, <1>6, <2>7, <2>8, FilesDiffer
  <2>10. /\ Len(mirror)' = Len(mirror) - 1
         /\ \A i \in 1 .. (Len(mirror) - 1) : mirror'[i] = IF i < k THEN mirror[i] ELSE mirror[i + 1]
    <3>1. mirror' = [i \in 1 .. (Len(mirror) - 1) |-> IF i < k THEN mirror[i] ELSE mirror[i + 1]]
      BY <2>9 DEF Dropped
    <3>2. \A i \in 1 .. (Len(mirror) - 1) : (IF i < k THEN mirror[i] ELSE mirror[i + 1]) \in Files
      BY <2>7
    <3>3. Len(mirror) - 1 \in Nat
      BY <2>7, <2>9
    <3>4. mirror' \in [1 .. (Len(mirror) - 1) -> Files]
      BY <3>1, <3>2
    <3> QED BY <3>1, <3>3, <3>4, FunctionIsSeq
  <2>11. Len(mirror)' + Len(Batch)' + (IF Announced' = {} THEN 0 ELSE 1) = num'
    <3>1. Len(Batch)' = 0
      BY <1>13
    <3> QED BY <1>11, <2>3, <2>7, <2>10, <3>1
  <2>12. ASSUME NEW g \in Settled'
         PROVE  Place(g)' < Len(mirror)' /\ mirror'[Place(g)' + 1] = FileOf(g)'
    <3>1. g \in Active /\ g # h /\ FileOf(g)' = FileOf(g)
      BY <1>11, <1>14, <2>3
    <3>2. FileIndex(g) \in Nat /\ FileIndex(g) < Len(mirror) /\ mirror[FileIndex(g) + 1] = FileOf(g)
      BY <2>1, <2>3, <2>5, <3>1, FilesDiffer
    <3>3. FileIndex(h) \in Nat /\ PosOf(g) \in Nat /\ PosOf(h) \in Nat /\ PosOf(g) # PosOf(h)
      BY <1>6, <3>1, FilesDiffer
    <3>4. CASE PosOf(h) < PosOf(g)
      <4>1. FileIndex(h) < FileIndex(g) /\ Place(g)' = FileIndex(g) - 1
        BY <1>6, <2>6, <3>1, <3>4, FilesDiffer
      <4>2. FileIndex(g) \in 1 .. (Len(mirror) - 1) /\ ~(FileIndex(g) < k) /\ Place(g)' + 1 = FileIndex(g)
        BY <2>7, <2>8, <3>2, <3>3, <4>1
      <4> QED BY <2>7, <2>10, <3>1, <3>2, <4>1, <4>2
    <3>5. CASE PosOf(g) < PosOf(h)
      <4>1. FileIndex(g) < FileIndex(h) /\ Place(g)' = FileIndex(g)
        BY <1>6, <2>6, <3>1, <3>3, <3>5, FilesDiffer
      <4>2. FileIndex(g) + 1 \in 1 .. (Len(mirror) - 1) /\ FileIndex(g) + 1 < k
        <5>1. FileIndex(g) + 1 <= FileIndex(h) /\ FileIndex(h) + 1 <= Len(mirror)
          BY <2>7, <2>8, <2>9, <3>2, <3>3, <4>1
        <5> QED BY <2>7, <2>8, <3>2, <3>3, <5>1
      <4> QED BY <2>7, <2>10, <3>1, <3>2, <4>1, <4>2
    <3> QED BY <3>3, <3>4, <3>5
  <2>13. \A j \in 1 .. Len(Batch)' : FALSE
    BY <1>13
  <2> QED BY <2>4, <2>11, <2>12, <2>13
<1> QED BY <1>15, <1>16, <1>17 DEF ListenInv

(* The removal takes effect: the arrays catch up with the mirror.          *)
LEMMA UnloadListen ==
  ASSUME IInv, ListenInv, Unload
  PROVE  ListenInv'
<1>1. PICK h : h = On
  OBVIOUS
<1>2. PICK new : new = <<Signal("changed", <<>>)>>
  OBVIOUS
<1>3. /\ calls # <<>> /\ Head(calls).do = "unload" /\ Continue(new)
      /\ slots' = [slots EXCEPT ![h].active = FALSE] /\ free' = free
      /\ indices' = Lowered(PosOf(h)) /\ num' = num - 1
      /\ known' = known /\ mirror' = mirror /\ disturbed' = disturbed
  BY <1>1, <1>2 DEF Unload, Doing, told
<1>4. /\ Head(calls).do \in Callbacks /\ Head(calls).do \in Unloading
      /\ Head(calls).do # "adding" /\ Head(calls).do \notin Signals
  BY <1>3 DEF Callbacks, Unloading, Ending, Signals
<1>5. /\ calls \in Seq(EntrySet) /\ 1 \in Depths /\ Head(calls) = calls[1] /\ Batch = <<>>
      /\ \A j \in Depths : j > 1 => calls[j].do # "adding"
  BY <1>3, <1>4, BatchFacts
<1>6. /\ h \in Active /\ h \in Live /\ calls[1].on = h
      /\ \A j \in Depths : j > 1 /\ calls[j].on = h => calls[j].do # "unload"
  <2>1. /\ On \in Live /\ calls[1].on = On
        /\ \A j \in Depths : j > 1 /\ calls[j].do \in Callbacks /\ calls[j].on = On => calls[j].do \in Ending
    BY <1>3, <1>4, HeadFacts
  <2>2. calls[1].on \in Active
    BY <1>4, <1>5 DEF IInv, StackOK, CallbacksFit
  <2>3. "unload" \in Callbacks /\ "unload" \notin Ending
    BY DEF Callbacks, Unloading, Ending
  <2> QED BY <1>1, <2>1, <2>2, <2>3
<1>7. /\ new \in Seq(EntrySet) /\ Len(new) = 1 /\ new[1].do = "changed" /\ \A i \in 1 .. Len(new) : i = 1
  <2>1. "changed" \in Signals /\ <<>> \in Seq(Nat \ {0})
    BY EmptySeq DEF Signals
  <2>2. Signal("changed", <<>>) \in EntrySet /\ Signal("changed", <<>>).do = "changed"
    BY <2>1, EntryFacts
  <2> QED BY <1>2, <2>2
<1>8. /\ \A i \in Depths' : \/ i \in 1 .. Len(new) /\ calls'[i] = new[i]
                            \/ \E m \in Depths : m > 1 /\ m = i - Len(new) + 1 /\ calls'[i] = calls[m]
      /\ \A i \in 1 .. Len(new) : i \in Depths' /\ calls'[i] = new[i]
      /\ \A m \in Depths : m > 1 => \E i \in Depths' : calls'[i] = calls[m]
  BY <1>3, <1>5, <1>7, Continued
<1>9. \A i \in Depths' : calls'[i].do # "adding"
  BY <1>5, <1>7, <1>8
<1>10. /\ Active' = Active \ {h}
       /\ \A g \in Active : FileOf(g)' = FileOf(g) /\ PosOf(g)' = PosOf(g)
       /\ \A g \in Active : FileIndex(g)' = IF PosOf(g) > PosOf(h) THEN FileIndex(g) - 1 ELSE FileIndex(g)
  <2>1. /\ \A g \in Handles : slots'[g].file = slots[g].file /\ slots'[g].pos = slots[g].pos
        /\ Active' = Active \ {h}
    BY <1>3, <1>6, FlagStep DEF IInv
  <2>2. \A g \in Active : g \in Handles /\ PosOf(g) \in 1 .. Len(indices)
    BY StoreFacts DEF IInv
  <2>3. DOMAIN indices = 1 .. Len(indices)
    BY StoreFacts DEF IInv
  <2>4. \A i \in 1 .. Len(indices) : indices'[i] = IF i > PosOf(h) THEN indices[i] - 1 ELSE indices[i]
    BY <1>3, <2>3 DEF Lowered
  <2>5. \A g \in Active : FileOf(g)' = FileOf(g) /\ PosOf(g)' = PosOf(g)
    BY <2>1, <2>2 DEF FileOf, PosOf
  <2>6. \A g \in Active : FileIndex(g)' = indices'[PosOf(g)]
    BY <2>5 DEF FileIndex
  <2> QED BY <2>1, <2>2, <2>4, <2>5, <2>6 DEF FileIndex
<1>11. Announced' = Announced \ {h} /\ h \in Announced
  <2>1. \A m \in Depths : m = 1 \/ m > 1
    BY DEF Depths
  <2>2. ASSUME NEW u \in Active, u # h
        PROVE  (\E i \in Depths' : calls'[i].do = "unload" /\ calls'[i].on = u)
                 <=> \E i \in Depths : calls[i].do = "unload" /\ calls[i].on = u
    <3>1. ASSUME NEW i \in Depths', calls'[i].do = "unload", calls'[i].on = u
          PROVE  \E m \in Depths : calls[m].do = "unload" /\ calls[m].on = u
      BY <1>7, <1>8, <3>1
    <3>2. ASSUME NEW m \in Depths, calls[m].do = "unload", calls[m].on = u
          PROVE  \E i \in Depths' : calls'[i].do = "unload" /\ calls'[i].on = u
      BY <1>6, <1>8, <2>1, <2>2, <3>2
    <3> QED BY <3>1, <3>2
  <2>3. h \in Announced
    BY <1>3, <1>5, <1>6 DEF Announced
  <2>4. \A u : u \in Announced' <=> u \in Active /\ u # h /\ \E i \in Depths' : calls'[i].do = "unload" /\ calls'[i].on = u
    BY <1>10 DEF Announced
  <2>5. \A u : u \in Announced <=> u \in Active /\ \E i \in Depths : calls[i].do = "unload" /\ calls[i].on = u
    BY DEF Announced
  <2> QED BY <2>2, <2>3, <2>4, <2>5
<1>12. Batch' = <<>> /\ Elements(Batch)' = {} /\ Elements(Batch) = {}
  <2>1. 1 \in Depths'
    BY <1>7, <1>8
  <2>2. Batch' = <<>>
    BY <1>9, <2>1 DEF Batch
  <2> QED BY <1>5, <2>2, ElementsEmpty
<1>13. Settled' = Settled /\ \A g \in Settled : g \in Active /\ g # h
  BY <1>10, <1>11, <1>12 DEF Settled
<1>14. CallsApart'
  BY <1>9, <1>12 DEF CallsApart
<1>15. KnownInv'
  BY <1>3, <1>10, <1>13 DEF KnownInv, ListenInv
<1>16. MirrorInv'
  <2> SUFFICES ASSUME disturbed' = FALSE
               PROVE  /\ \A i \in Depths' : calls'[i].do # "unload"
                      /\ Len(mirror)' + Len(Batch)' + (IF Announced' = {} THEN 0 ELSE 1) = num'
                      /\ \A g \in Settled' : Place(g)' < Len(mirror)' /\ mirror'[Place(g)' + 1] = FileOf(g)'
                      /\ \A j \in 1 .. Len(Batch)' : FileIndex(Batch[j])' = Len(mirror)' + j - 1
    BY DEF MirrorInv
  <2>1. /\ Len(mirror) + Len(Batch) + (IF Announced = {} THEN 0 ELSE 1) = num
        /\ \A g \in Settled : Place(g) < Len(mirror) /\ mirror[Place(g) + 1] = FileOf(g)
        /\ \A i \in Depths : calls[i].do = "unload" => i = 1 \/ (i = 2 /\ calls[1].do = "about_to_be_removed")
    BY <1>3 DEF ListenInv, MirrorInv
  <2>2. \A i \in Depths : calls[i].do = "unload" => i = 1
    BY <1>3, <1>5, <2>1
  <2>3. \A i \in Depths' : calls'[i].do # "unload"
    BY <1>7, <1>8, <2>2
  <2>4. Announced = {h} /\ Announced' = {}
    <3>1. \A u \in Announced : u = h
      BY <1>6, <2>2 DEF Announced
    <3> QED BY <1>11, <3>1
  <2>5. \A g \in Settled : Place(g)' = Place(g)
    <3>1. \A g \in Settled : Place(g)' = FileIndex(g)'
      BY <2>4 DEF Place
    <3>2. \A g \in Settled : PosOf(g) \in Nat /\ PosOf(h) \in Nat /\ (PosOf(h) < PosOf(g) <=> PosOf(g) > PosOf(h))
      BY <1>6, <1>13, FilesDiffer
    <3>3. \A g \in Settled : Place(g) = IF PosOf(h) < PosOf(g) THEN FileIndex(g) - 1 ELSE FileIndex(g)
      BY <2>4 DEF Place
    <3> QED BY <1>10, <1>13, <3>1, <3>2, <3>3
  <2>6. Len(mirror)' + Len(Batch)' + (IF Announced' = {} THEN 0 ELSE 1) = num'
    <3>1. Len(Batch) = 0 /\ Len(Batch)' = 0
      BY <1>5, <1>12
    <3>2. Len(mirror) \in Nat
      BY DEF IInv, StoreOK, TypeOK
    <3>3. num = Len(mirror) + 1
      BY <2>1, <2>4, <3>1, <3>2
    <3> QED BY <1>3, <2>4, <3>1, <3>2, <3>3
  <2>7. \A g \in Settled' : Place(g)' < Len(mirror)' /\ mirror'[Place(g)' + 1] = FileOf(g)'
    BY <1>3, <1>10, <1>13, <2>1, <2>5
  <2>8. \A j \in 1 .. Len(Batch)' : FALSE
    BY <1>12
  <2> QED BY <2>3, <2>6, <2>7, <2>8
<1> QED BY <1>14, <1>15, <1>16 DEF ListenInv

(* A file that comes back is appended, and the mirror is disturbed.        *)
LEMMA ReactivatedListen ==
  ASSUME IInv, ListenInv, Reactivated
  PROVE  ListenInv'
<1>1. PICK h : h = On
  OBVIOUS
<1>2. PICK new : new = <<Signal("files_added", <<h>>), Signal("changed", <<>>)>>
  OBVIOUS
<1>3. /\ calls # <<>> /\ Head(calls).do = "reactivated" /\ Continue(new)
      /\ slots' = [slots EXCEPT ![h].active = TRUE] /\ free' = free
      /\ known' = known \cup {FileOf(h)} /\ disturbed' = TRUE
  BY <1>1, <1>2 DEF Reactivated, Doing
<1>4. Head(calls).do \in Callbacks /\ Head(calls).do \notin Unloading /\ Head(calls).do # "adding"
  BY <1>3 DEF Callbacks, Unloading, Ending
<1>5. /\ calls \in Seq(EntrySet) /\ 1 \in Depths /\ Head(calls) = calls[1] /\ Batch = <<>>
      /\ \A j \in Depths : j > 1 => calls[j].do # "adding"
  BY <1>3, <1>4, BatchFacts
<1>6. /\ h \in Nat \ {0} /\ h \in Live /\ h \notin Active
      /\ \A j \in Depths : calls[j].on = h => calls[j].do # "unload"
  <2>1. /\ On \in Live /\ calls[1].on = On /\ On \in Handles
        /\ \A j \in Depths : j > 1 /\ calls[j].do \in Callbacks /\ calls[j].on = On => calls[1].do \in Unloading
    BY <1>3, <1>4, HeadFacts
  <2>2. calls[1].on \notin Active
    BY <1>3, <1>5 DEF IInv, StackOK, CallbacksFit
  <2>3. "unload" \in Callbacks
    BY DEF Callbacks, Unloading
  <2>4. \A j \in Depths : j = 1 \/ j > 1
    BY DEF Depths
  <2>5. Handles \subseteq Nat \ {0}
    BY StoreFacts DEF IInv
  <2> QED BY <1>1, <1>3, <1>4, <1>5, <2>1, <2>2, <2>3, <2>4, <2>5
<1>7. /\ new \in Seq(EntrySet) /\ Len(new) = 2
      /\ \A i \in 1 .. Len(new) : new[i].do # "unload" /\ new[i].do # "adding"
  <2>1. /\ "files_added" \in Signals /\ "changed" \in Signals
        /\ <<>> \in Seq(Nat \ {0}) /\ <<h>> \in Seq(Nat \ {0})
    BY <1>6, EmptySeq DEF Signals
  <2>2. Signal("files_added", <<h>>) \in EntrySet /\ Signal("files_added", <<h>>).do = "files_added"
    BY <2>1, EntryFacts
  <2>3. Signal("changed", <<>>) \in EntrySet /\ Signal("changed", <<>>).do = "changed"
    BY <2>1, EntryFacts
  <2> QED BY <1>2, <2>2, <2>3
<1>8. /\ \A i \in Depths' : \/ i \in 1 .. Len(new) /\ calls'[i] = new[i]
                            \/ \E m \in Depths : m > 1 /\ m = i - Len(new) + 1 /\ calls'[i] = calls[m]
      /\ \A i \in 1 .. Len(new) : i \in Depths' /\ calls'[i] = new[i]
      /\ \A m \in Depths : m > 1 => \E i \in Depths' : calls'[i] = calls[m]
  BY <1>3, <1>5, <1>7, Continued
<1>9. \A i \in Depths' : calls'[i].do # "adding"
  BY <1>5, <1>7, <1>8
<1>10. /\ Active' = Active \cup {h}
       /\ \A g \in Active \cup {h} : FileOf(g)' = FileOf(g)
  <2>1. \A g \in Active \cup {h} : g \in Handles
    BY <1>6, StoreFacts DEF IInv
  <2> QED BY <1>3, <1>6, <2>1, FlagStep DEF IInv, FileOf
<1>11. Announced' = Announced
  <2>1. \A m \in Depths : calls[m].do = "unload" => m > 1
    BY <1>3, <1>5 DEF Depths
  <2>2. \A u : (\E i \in Depths' : calls'[i].do = "unload" /\ calls'[i].on = u)
                 <=> \E i \in Depths : calls[i].do = "unload" /\ calls[i].on = u
    BY <1>7, <1>8, <2>1
  <2>3. ~\E i \in Depths : calls[i].do = "unload" /\ calls[i].on = h
    BY <1>6
  <2> QED BY <1>10, <2>2, <2>3 DEF Announced
<1>12. Batch' = <<>> /\ Elements(Batch)' = {} /\ Elements(Batch) = {}
  <2>1. 1 \in Depths'
    BY <1>7, <1>8
  <2>2. Batch' = <<>>
    BY <1>9, <2>1 DEF Batch
  <2> QED BY <1>5, <2>2, ElementsEmpty
<1>13. Settled' = Settled \cup {h} /\ Settled \subseteq Active
  <2>1. h \notin Announced
    BY <1>6 DEF Announced
  <2> QED BY <1>10, <1>11, <1>12, <2>1 DEF Settled
<1>14. CallsApart'
  BY <1>9, <1>12 DEF CallsApart
<1>15. KnownInv'
  <2>1. known = {FileOf(g) : g \in Settled}
    BY DEF ListenInv, KnownInv
  <2> QED BY <1>3, <1>10, <1>13, <2>1 DEF KnownInv
<1>16. MirrorInv'
  <2>1. disturbed' # FALSE
    BY <1>3
  <2> QED BY <2>1 DEF MirrorInv
<1> QED BY <1>14, <1>15, <1>16 DEF ListenInv

LEMMA InitListen == Init => ListenInv
<1> SUFFICES ASSUME Init PROVE ListenInv
  OBVIOUS
<1>1. slots = <<>> /\ free = <<>> /\ num = 0 /\ calls = <<>> /\ known = {} /\ mirror = <<>>
  BY DEF Init
<1>2. Active = {} /\ Depths = {} /\ Batch = <<>> /\ Elements(Batch) = {}
  BY <1>1, ElementsEmpty DEF Handles, Active, Depths, Batch
<1>3. Announced = {} /\ Settled = {}
  BY <1>2 DEF Announced, Settled
<1>4. CallsApart /\ KnownInv
  BY <1>1, <1>2, <1>3 DEF CallsApart, KnownInv
<1>5. MirrorInv
  BY <1>1, <1>2, <1>3 DEF MirrorInv
<1> QED BY <1>4, <1>5 DEF ListenInv

LEMMA NextListen == IInv /\ ListenInv /\ [Next]_vars => ListenInv'
<1> SUFFICES ASSUME IInv, ListenInv, [Next]_vars PROVE ListenInv'
  OBVIOUS
<1>1. ASSUME NEW fs \in Batches, AddFiles(fs) PROVE ListenInv'
  BY <1>1, AddFilesListen
<1>2. ASSUME NEW h \in Handles, NEW heard \in BOOLEAN, NEW kept \in BOOLEAN, RemoveFile(h, heard, kept)
      PROVE  ListenInv'
  BY <1>2, RemoveFileListen
<1>3. ASSUME NEW h \in Handles, Forsake(h) \/ Undo(h) PROVE ListenInv'
  BY <1>3, ForsakeListen
<1>4. CASE Return \/ AddDone \/ AddOne
  BY <1>4, ReturnListen, AddDoneListen, AddOneListen
<1>5. CASE Deactivated \/ Unload \/ Reactivated
  BY <1>5, DeactivatedListen, UnloadListen, ReactivatedListen
<1>6. CASE Destroying \/ Erase
  BY <1>6, DestroyingListen, EraseListen
<1>7. CASE UNCHANGED vars
  <2>1. /\ slots' = slots /\ indices' = indices /\ num' = num /\ calls' = calls
        /\ known' = known /\ mirror' = mirror /\ disturbed' = disturbed
    BY <1>7 DEF vars, store, told
  <2>2. Active' = Active /\ Depths' = Depths /\ Batch' = Batch
    BY <2>1 DEF Active, Handles, Depths, Batch
  <2>3. Announced' = Announced /\ Elements(Batch)' = Elements(Batch)
    BY <2>1, <2>2 DEF Announced, Elements
  <2>4. Settled' = Settled
    BY <2>2, <2>3 DEF Settled
  <2>5. \A h : FileOf(h)' = FileOf(h) /\ PosOf(h)' = PosOf(h) /\ FileIndex(h)' = FileIndex(h)
    BY <2>1 DEF FileOf, PosOf, FileIndex
  <2>6. \A h : Place(h)' = Place(h)
    BY <2>3, <2>5 DEF Place
  <2>7. CallsApart'
    BY <2>1, <2>2, <2>3 DEF ListenInv, CallsApart
  <2>8. KnownInv'
    BY <2>1, <2>4, <2>5 DEF ListenInv, KnownInv
  <2>9. \A j : FileIndex(Batch[j])' = FileIndex(Batch[j])
    BY <2>1, <2>2 DEF FileIndex, PosOf
  <2>10. MirrorInv'
    BY <2>1, <2>2, <2>3, <2>4, <2>5, <2>6, <2>9 DEF ListenInv, MirrorInv
  <2> QED BY <2>7, <2>8, <2>10 DEF ListenInv
<1> QED
  BY <1>1, <1>2, <1>3, <1>4, <1>5, <1>6, <1>7 DEF Next

LEMMA ListenInvariant == Spec => [](IInv /\ ListenInv)
<1>1. Init => IInv /\ ListenInv
  BY InitInv, InitListen
<1>2. IInv /\ ListenInv /\ [Next]_vars => (IInv /\ ListenInv)'
  BY NextInv, NextListen
<1> QED BY <1>1, <1>2, PTL DEF Spec

(* Listeners that keep file references know the loaded files, but for      *)
(* those whose removal was announced and those that are being added.       *)
THEOREM ListenersCorrect == Spec => []ListenersKnowFiles
<1>1. IInv /\ ListenInv => ListenersKnowFiles
  <2> SUFFICES ASSUME IInv, ListenInv PROVE ListenersKnowFiles
    OBVIOUS
  <2>1. known = {FileOf(h) : h \in Settled}
    BY DEF ListenInv, KnownInv
  <2>2. calls \in Seq(EntrySet) /\ DOMAIN calls = Depths
    BY DEF IInv, StackOK, StackTyped, Depths
  <2>3. Removing = {FileOf(h) : h \in Announced}
    <3>1. \A i \in Depths : calls[i].do = "unload" => calls[i].on \in Active
      BY DEF IInv, StackOK, CallbacksFit, Unloading
    <3>2. Removing = {FileOf(calls[i].on) : i \in {j \in Depths : calls[j].do = "unload"}}
      BY <2>2 DEF Removing
    <3> QED BY <3>1, <3>2 DEF Announced
  <2>4. Arriving = {FileOf(h) : h \in Elements(Batch)}
    <3>1. \A i \in Depths : calls[i].do = "adding" => i = 1
      BY DEF IInv, StackOK, StackTyped
    <3>2. Arriving = UNION {{FileOf(calls[i].done[j]) : j \in DOMAIN calls[i].done} :
                              i \in {k \in Depths : calls[k].do = "adding"}}
      BY <2>2 DEF Arriving
    <3>3. CASE calls # <<>> /\ calls[1].do = "adding"
      <4>1. 1 \in Depths /\ Batch = calls[1].done
        BY <2>2, <3>3 DEF Depths, Batch
      <4>2. {k \in Depths : calls[k].do = "adding"} = {1}
        BY <3>1, <3>3, <4>1
      <4>3. Arriving = {FileOf(calls[1].done[j]) : j \in DOMAIN calls[1].done}
        BY <3>2, <4>2
      <4> QED BY <4>1, <4>3 DEF Elements
    <3>4. CASE ~(calls # <<>> /\ calls[1].do = "adding")
      <4>1. {k \in Depths : calls[k].do = "adding"} = {}
        BY <2>2, <3>1, <3>4 DEF Depths
      <4>2. Arriving = {} /\ Batch = <<>>
        BY <3>2, <3>4, <4>1 DEF Batch
      <4> QED BY <4>2, ElementsEmpty
    <3> QED BY <3>3, <3>4
  <2>5. Settled \subseteq Active /\ Announced \subseteq Active /\ Elements(Batch) \subseteq Active
    BY DEF Settled, Announced, ListenInv, CallsApart
  <2>6. \A g, h \in Active : FileOf(g) = FileOf(h) => g = h
    BY FilesDiffer
  <2>7. Settled = Active \ (Announced \cup Elements(Batch))
    BY DEF Settled
  <2>8. known = {FileOf(h) : h \in Active} \ ({FileOf(h) : h \in Announced} \cup {FileOf(h) : h \in Elements(Batch)})
    BY <2>1, <2>5, <2>6, <2>7
  <2> QED BY <2>3, <2>4, <2>8 DEF ListenersKnowFiles, LoadedSlots
<1> QED BY <1>1, ListenInvariant, PTL

(* A sequence kept by the indices that listeners are told is the list of   *)
(* loaded files between calls, as the header promises, unless something    *)
(* was added or removed inside the announcement of a removal, or undone.   *)
THEOREM MirrorCorrect == Spec => []MirrorMatches
<1>1. IInv /\ ListenInv => MirrorMatches
  <2> SUFFICES ASSUME IInv, ListenInv, calls = <<>>, ~disturbed
               PROVE  /\ Len(mirror) = num
                      /\ \A h \in Active : FileIndex(h) < num /\ mirror[FileIndex(h) + 1] = FileOf(h)
    BY DEF MirrorMatches
  <2>1. disturbed = FALSE
    BY DEF IInv, StoreOK, TypeOK
  <2>2. Depths = {} /\ Batch = <<>> /\ Elements(Batch) = {} /\ Len(Batch) = 0
    BY ElementsEmpty DEF Depths, Batch
  <2>3. Announced = {} /\ Settled = Active
    BY <2>2 DEF Announced, Settled
  <2>4. \A h \in Active : Place(h) = FileIndex(h)
    BY <2>3 DEF Place
  <2>5. Len(mirror) \in Nat
    BY DEF IInv, StoreOK, TypeOK
  <2>6. Len(mirror) + Len(Batch) + (IF Announced = {} THEN 0 ELSE 1) = num
    BY <2>1 DEF ListenInv, MirrorInv
  <2>7. Len(mirror) = num
    BY <2>2, <2>3, <2>5, <2>6
  <2>8. \A h \in Active : FileIndex(h) < Len(mirror) /\ mirror[FileIndex(h) + 1] = FileOf(h)
    BY <2>1, <2>3, <2>4 DEF ListenInv, MirrorInv
  <2> QED BY <2>7, <2>8
<1> QED BY <1>1, ListenInvariant, PTL
(* The arrays keep their types: no index of a file ever falls below zero,  *)
(* in whatever order the model calls back and listeners call in.           *)
THEOREM TypeCorrect == Spec => []TypeOK
<1>1. IInv => TypeOK
  BY DEF IInv, StoreOK
<1> QED
  BY <1>1, Invariant, PTL

(* Slots and indices match one to one, although entries are erased and     *)
(* handles used again.                                                     *)
THEOREM SlotsCorrect == Spec => []SlotsMatchIndices
<1>1. IInv => SlotsMatchIndices
  BY DEF IInv, StoreOK
<1> QED
  BY <1>1, Invariant, PTL

(* get_loaded_files is right at every moment: the loaded files have the    *)
(* indices 0 to n - 1, each once and in load order.                        *)
THEOREM IndicesCorrect == Spec => []IndicesOrderFiles
<1>1. IInv => IndicesOrderFiles
  BY DEF IInv, StoreOK
<1> QED
  BY <1>1, Invariant, PTL

-----------------------------------------------------------------------------
(* The refinement of LoadOrder: what the arrays stand for.                 *)

Order == [k \in DOMAIN indices |-> FileAt(k)]
OrderOK ==
  /\ Order \in Seq(Files) /\ DOMAIN Order = 1 .. Len(indices)
  /\ \A h \in Live : PosOf(h) \in DOMAIN Order /\ Order[PosOf(h)] = FileOf(h)
  /\ \A k \in DOMAIN Order : \E h \in Live : PosOf(h) = k

LEMMA OrderHolds == IInv => OrderOK
<1> SUFFICES ASSUME IInv PROVE OrderOK
  OBVIOUS
<1>1. /\ Len(indices) \in Nat /\ DOMAIN indices = 1 .. Len(indices)
      /\ \A h \in Live : PosOf(h) \in 1 .. Len(indices)
      /\ \A k \in 1 .. Len(indices) : \E h \in Live : PosOf(h) = k
      /\ \A g, h \in Live : PosOf(g) = PosOf(h) => g = h
  BY StoreFacts, OrderFacts DEF IInv
<1>2. ASSUME NEW h \in Live PROVE FileAt(PosOf(h)) = FileOf(h)
  <2>1. PICK g : g = CHOOSE x \in Live : PosOf(x) = PosOf(h)
    OBVIOUS
  <2>2. g \in Live /\ PosOf(g) = PosOf(h)
    BY <2>1
  <2> QED BY <1>1, <2>1, <2>2 DEF FileAt
<1>3. \A k \in 1 .. Len(indices) : FileAt(k) \in Files
  BY <1>1, <1>2, FilesDiffer
<1>4. Order \in [1 .. Len(indices) -> Files]
  BY <1>1, <1>3 DEF Order
<1>5. Order \in Seq(Files)
  BY <1>1, <1>4, FunctionIsSeq
<1> QED BY <1>1, <1>2, <1>4, <1>5 DEF OrderOK, Order

(* Dropping an element of a sequence without repetitions leaves the others.*)
LEMMA OnlyDrops ==
  ASSUME NEW A, NEW s \in Seq(A), Distinct(s), NEW k \in DOMAIN s
  PROVE  Only(s, A \ {s[k]}) = Dropped(s, k)
<1> DEFINE OK(r) == Distinct(r) => \A i \in DOMAIN r : Only(r, A \ {r[i]}) = Dropped(r, i)
           T == {r \in Seq(A) : OK(r)}
<1>1. <<>> \in T
  <2>1. \A i \in DOMAIN <<>> : FALSE
    OBVIOUS
  <2> QED BY <2>1
<1>2. ASSUME NEW r \in Seq(A), OK(r), NEW x \in A PROVE OK(Append(r, x))
  <2> SUFFICES ASSUME Distinct(Append(r, x)), NEW i \in DOMAIN Append(r, x)
               PROVE  Only(Append(r, x), A \ {Append(r, x)[i]}) = Dropped(Append(r, x), i)
    OBVIOUS
  <2>1. PICK n : n = Len(r)
    OBVIOUS
  <2>2. PICK t : t = Append(r, x)
    OBVIOUS
  <2>3. /\ n \in Nat /\ DOMAIN r = 1 .. n /\ DOMAIN t = 1 .. (n + 1) /\ Len(t) = n + 1 /\ t \in Seq(A)
        /\ \A j \in 1 .. n : t[j] = r[j] /\ r[j] \in A
        /\ t[n + 1] = x
    BY <2>1, <2>2
  <2>4. \A j \in 1 .. n : r[j] # x
    <3>1. \A j \in 1 .. n : j \in DOMAIN t /\ n + 1 \in DOMAIN t /\ j # n + 1
      BY <2>3
    <3> QED BY <2>2, <2>3, <3>1 DEF Distinct
  <2>5. Distinct(r)
    <3>1. \A j \in DOMAIN r : j \in DOMAIN t /\ t[j] = r[j]
      BY <2>3
    <3> QED BY <2>2, <3>1 DEF Distinct
  <2>6. PICK S : S = A \ {t[i]}
    OBVIOUS
  <2>7. Only(t, S) = IF x \in S THEN Append(Only(r, S), x) ELSE Only(r, S)
    BY <2>2, OnlyAppend
  <2>8. CASE i = n + 1
    <3>1. Elements(r) \subseteq S /\ x \notin S
      BY <2>3, <2>4, <2>6, <2>8 DEF Elements
    <3>2. Only(t, S) = r
      BY <2>7, <3>1, OnlyElements
    <3>3. Dropped(t, i) = [j \in 1 .. n |-> r[j]]
      <4>1. \A j \in 1 .. n : (IF j < i THEN t[j] ELSE t[j + 1]) = r[j]
        BY <2>3, <2>8
      <4> QED BY <2>3, <4>1 DEF Dropped
    <3>4. r = [j \in 1 .. n |-> r[j]]
      BY <2>3
    <3> QED BY <2>2, <2>6, <3>2, <3>3, <3>4
  <2>9. CASE i \in 1 .. n
    <3>1. t[i] = r[i] /\ x \in S /\ i \in DOMAIN r
      BY <2>3, <2>4, <2>6, <2>9
    <3>2. Only(r, S) = Dropped(r, i)
      BY <1>2, <2>5, <2>6, <3>1
    <3>3. PICK d : d = Dropped(r, i)
      OBVIOUS
    <3>4. d = [j \in 1 .. (n - 1) |-> IF j < i THEN r[j] ELSE r[j + 1]]
      BY <2>1, <3>3 DEF Dropped
    <3>5. d \in Seq(A) /\ Len(d) = n - 1
      <4>1. n - 1 \in Nat /\ \A j \in 1 .. (n - 1) : j \in 1 .. n /\ j + 1 \in 1 .. n
        BY <2>3, <2>9
      <4>2. d \in [1 .. (n - 1) -> A]
        BY <2>3, <3>4, <4>1
      <4> QED BY <4>1, <4>2, FunctionIsSeq
    <3>6. PICK u : u = Append(d, x)
      OBVIOUS
    <3>7. u = [j \in 1 .. n |-> IF j <= n - 1 THEN d[j] ELSE x]
      <4>1. /\ u \in Seq(A) /\ Len(u) = n /\ \A j \in 1 .. (n - 1) : u[j] = d[j]
            /\ u[n] = x
        BY <2>3, <2>9, <3>5, <3>6, AppendProperties
      <4>2. DOMAIN u = 1 .. n /\ u = [j \in 1 .. n |-> u[j]]
        BY <4>1
      <4>3. \A j \in 1 .. n : j \in 1 .. (n - 1) \/ (j = n /\ ~(j <= n - 1))
        BY <2>3
      <4>4. \A j \in 1 .. n : u[j] = IF j <= n - 1 THEN d[j] ELSE x
        BY <2>3, <4>1, <4>3
      <4> QED BY <4>2, <4>4
    <3>8. Dropped(t, i) = [j \in 1 .. n |-> IF j < i THEN t[j] ELSE t[j + 1]]
      BY <2>3 DEF Dropped
    <3>9. ASSUME NEW j \in 1 .. n
          PROVE  (IF j < i THEN t[j] ELSE t[j + 1]) = (IF j <= n - 1 THEN d[j] ELSE x)
      <4>1. CASE j <= n - 1
        <5>1. j \in 1 .. (n - 1) /\ j \in 1 .. n /\ j + 1 \in 1 .. n
          BY <2>3, <4>1
        <5> QED BY <2>3, <3>4, <4>1, <5>1
      <4>2. CASE ~(j <= n - 1)
        <5>1. j = n /\ ~(j < i)
          BY <2>3, <2>9, <4>2
        <5> QED BY <2>3, <4>2, <5>1
      <4> QED BY <4>1, <4>2
    <3>10. Dropped(t, i) = u
      BY <3>7, <3>8, <3>9
    <3> QED BY <2>2, <2>6, <2>7, <3>1, <3>2, <3>3, <3>6, <3>10
  <2>10. i = n + 1 \/ i \in 1 .. n
    BY <2>2, <2>3
  <2> QED BY <2>8, <2>9, <2>10
<1> HIDE DEF OK
<1>3. \A r \in Seq(A) : r \in T => \A x \in A : Append(r, x) \in T
  <2> SUFFICES ASSUME NEW r \in Seq(A), r \in T, NEW x \in A PROVE Append(r, x) \in T
    OBVIOUS
  <2>1. OK(r)
    OBVIOUS
  <2>2. OK(Append(r, x))
    BY <1>2, <2>1
  <2>3. Append(r, x) \in Seq(A)
    OBVIOUS
  <2> QED BY <2>2, <2>3
<1> HIDE DEF T
<1>4. Seq(A) \subseteq T
  BY <1>1, <1>3, SequenceInduction
<1>5. OK(s)
  BY <1>4 DEF T
<1> QED BY <1>5 DEF OK

LEMMA OrderFiles ==
  ASSUME IInv, OrderOK
  PROVE  /\ Abstract!Held = {FileOf(h) : h \in Live}
         /\ Distinct(Order)
         /\ LoadedSlots \subseteq {FileOf(h) : h \in Live}
<1>1. Abstract!Held = {Order[k] : k \in DOMAIN Order}
  BY DEF Abstract!Held, Order
<1>2. {Order[k] : k \in DOMAIN Order} = {FileOf(h) : h \in Live}
  BY DEF OrderOK
<1>3. Distinct(Order)
  <2> SUFFICES ASSUME NEW i \in DOMAIN Order, NEW j \in DOMAIN Order, Order[i] = Order[j] PROVE i = j
    BY DEF Distinct
  <2>1. PICK g \in Live : PosOf(g) = i
    BY DEF OrderOK
  <2>2. PICK h \in Live : PosOf(h) = j
    BY DEF OrderOK
  <2>3. FileOf(g) = FileOf(h)
    BY <2>1, <2>2 DEF OrderOK
  <2> QED BY <2>1, <2>2, <2>3, FilesDiffer
<1> QED BY <1>1, <1>2, <1>3, FilesDiffer DEF LoadedSlots

(* Entries that keep their files keep the order.                           *)
LEMMA SameOrder ==
  ASSUME OrderOK, OrderOK', Live' = Live, Len(indices') = Len(indices),
         \A h \in Live : FileOf(h)' = FileOf(h) /\ PosOf(h)' = PosOf(h)
  PROVE  Order' = Order
<1>1. Order \in Seq(Files) /\ Order' \in Seq(Files) /\ DOMAIN Order = 1 .. Len(indices) /\ DOMAIN Order' = DOMAIN Order
  BY DEF OrderOK
<1>2. ASSUME NEW k \in DOMAIN Order PROVE Order'[k] = Order[k]
  <2>1. PICK h \in Live : PosOf(h) = k
    BY DEF OrderOK
  <2> QED BY <2>1 DEF OrderOK
<1>3. Order = [k \in DOMAIN Order |-> Order[k]] /\ Order' = [k \in DOMAIN Order' |-> Order'[k]]
  BY <1>1
<1> QED BY <1>1, <1>2, <1>3

LEMMA AbstractInit == Init => Abstract!Init
<1> SUFFICES ASSUME Init PROVE Abstract!Init
  OBVIOUS
<1>1. slots = <<>> /\ indices = <<>>
  BY DEF Init
<1>2. LoadedSlots = {}
  BY <1>1 DEF LoadedSlots, Active, Handles
<1>3. [k \in DOMAIN indices |-> FileAt(k)] = <<>>
  BY <1>1
<1> QED BY <1>2, <1>3 DEF Abstract!Init

LEMMA LoadStep ==
  ASSUME IInv, OrderOK, OrderOK', AddOne
  PROVE  Abstract!Next
<1>1. PICK n : n = NewHandle
  OBVIOUS
<1>2. PICK f : f = Head(Head(calls).todo)
  OBVIOUS
<1>3. /\ calls # <<>> /\ Head(calls).do = "adding" /\ Head(calls).todo # <<>>
      /\ AddedLast(f) /\ where' = [where EXCEPT ![f] = "in"] /\ UNCHANGED told
  BY <1>2 DEF AddOne, Doing, NewEntry, AddedLast
<1>4. /\ f \in Files /\ where[f] = "new"
  <2>1. /\ calls[1] = Head(calls) /\ 1 \in Depths /\ Head(calls) \in EntrySet
    BY <1>3 DEF IInv, StackOK, StackTyped, Depths
  <2>2. Head(calls).todo \in Seq(Files)
    BY <2>1 DEF EntrySet
  <2>3. f \in Files /\ f = Head(calls).todo[1] /\ 1 \in 1 .. Len(Head(calls).todo)
    BY <1>2, <1>3, <2>2
  <2> QED BY <1>3, <2>1, <2>3 DEF IInv, StackOK, FilesApart
<1>5. ToldTyped'
  <2>1. where' \in [Files -> {"new", "in", "out", "gone"}]
    BY <1>3, <1>4 DEF IInv, StoreOK, TypeOK
  <2> QED BY <1>3, <2>1 DEF IInv, StoreOK, TypeOK, ToldTyped, told
<1>6. /\ n \notin Live /\ Live' = Live \cup {n} /\ Active' = Active \cup {n}
      /\ \A g \in Handles : g # n => slots'[g].file = slots[g].file
      /\ slots'[n].file = f
      /\ \A g \in Live : g # n /\ PosOf(g)' = PosOf(g)
      /\ slots'[n].pos = Len(indices) + 1
  BY <1>1, <1>3, <1>4, <1>5, AddStore DEF IInv
<1>7. \A g \in Live : FileOf(g)' = FileOf(g)
  BY <1>6, FilesDiffer DEF FileOf
<1>8. FileOf(n)' = f /\ PosOf(n)' = Len(indices) + 1
  BY <1>6 DEF FileOf, PosOf
<1>9. Len(indices) \in Nat /\ Len(indices') = Len(indices) + 1
  <2>1. indices \in Seq(Nat) /\ num \in Nat
    BY DEF IInv, StoreOK, TypeOK
  <2> QED BY <1>3, <2>1 DEF AddedLast
<1>10. Order' = Append(Order, f)
  <2>1. /\ Order \in Seq(Files) /\ Order' \in Seq(Files) /\ Len(Order) = Len(indices)
        /\ DOMAIN Order = 1 .. Len(indices) /\ DOMAIN Order' = 1 .. (Len(indices) + 1)
    BY <1>9 DEF OrderOK
  <2>2. PICK t : t = Append(Order, f)
    OBVIOUS
  <2>3. /\ DOMAIN t = 1 .. (Len(indices) + 1) /\ t[Len(indices) + 1] = f
        /\ \A k \in 1 .. Len(indices) : t[k] = Order[k]
        /\ t = [k \in DOMAIN t |-> t[k]]
    <3>1. PICK o : o = Order
      OBVIOUS
    <3>2. PICK m : m = Len(indices)
      OBVIOUS
    <3>3. o \in Seq(Files) /\ Len(o) = m /\ m \in Nat /\ t = Append(o, f)
      BY <1>9, <2>1, <2>2, <3>1, <3>2
    <3>4. t \in Seq(Files) /\ Len(t) = m + 1 /\ t[m + 1] = f /\ \A k \in 1 .. m : t[k] = o[k]
      BY <1>4, <3>3, AppendProperties
    <3>5. DOMAIN t = 1 .. (m + 1) /\ t = [k \in DOMAIN t |-> t[k]]
      BY <3>4
    <3> QED BY <3>1, <3>2, <3>4, <3>5
  <2>4. ASSUME NEW k \in 1 .. (Len(indices) + 1) PROVE Order'[k] = t[k]
    <3>1. CASE k \in 1 .. Len(indices)
      <4>1. PICK h \in Live : PosOf(h) = k
        BY <3>1 DEF OrderOK
      <4>2. Order[k] = FileOf(h)
        BY <4>1 DEF OrderOK
      <4>3. h \in Live' /\ PosOf(h)' = k /\ FileOf(h)' = FileOf(h)
        BY <1>6, <1>7, <4>1
      <4>4. Order'[k] = FileOf(h)'
        BY <4>3 DEF OrderOK
      <4> QED BY <2>3, <3>1, <4>2, <4>3, <4>4
    <3>2. CASE k = Len(indices) + 1
      <4>1. n \in Live'
        BY <1>6
      <4>2. Order'[k] = FileOf(n)'
        BY <1>8, <3>2, <4>1 DEF OrderOK
      <4> QED BY <1>8, <2>3, <3>2, <4>2
    <3> QED BY <1>9, <3>1, <3>2
  <2>5. Order' = [k \in DOMAIN Order' |-> Order'[k]]
    BY <2>1
  <2> QED BY <2>1, <2>2, <2>3, <2>4, <2>5
<1>11. LoadedSlots' = LoadedSlots \cup {f}
  <2>1. \A g \in Active : FileOf(g)' = FileOf(g)
    BY <1>7, FilesDiffer
  <2> QED BY <1>6, <1>8, <2>1 DEF LoadedSlots
<1>12. f \notin Abstract!Held
  <2>1. \A g \in Live : where[FileOf(g)] # "new"
    BY DEF IInv, StackOK, FilesApart
  <2> QED BY <1>4, <2>1, OrderFiles
<1>13. Abstract!Load(f)
  BY <1>10, <1>11, <1>12 DEF Abstract!Load, Order
<1> QED BY <1>4, <1>13 DEF Abstract!Next

LEMMA HideStep ==
  ASSUME IInv, OrderOK, OrderOK', Unload
  PROVE  Abstract!Next
<1>1. PICK h : h = On
  OBVIOUS
<1>2. /\ calls # <<>> /\ Head(calls).do = "unload"
      /\ slots' = [slots EXCEPT ![h].active = FALSE] /\ free' = free
      /\ indices' = Lowered(PosOf(h))
  BY <1>1 DEF Unload, Doing
<1>3. Head(calls).do \in Callbacks /\ Head(calls).do \in Unloading
  BY <1>2 DEF Callbacks, Unloading
<1>4. h \in Active /\ h \in Live
  <2>1. On \in Live /\ calls[1].on = On /\ 1 \in Depths /\ calls[1].do = Head(calls).do
    BY <1>2, <1>3, HeadFacts
  <2> QED BY <1>1, <1>3, <2>1 DEF IInv, StackOK, CallbacksFit
<1>5. /\ Live' = Live /\ Active' = Active \ {h}
      /\ \A g \in Live : FileOf(g)' = FileOf(g) /\ PosOf(g)' = PosOf(g)
  BY <1>2, <1>4, FlagStep, FilesDiffer DEF IInv, FileOf, PosOf
<1>6. Len(indices') = Len(indices)
  <2>1. Len(indices) \in Nat /\ DOMAIN indices = 1 .. Len(indices)
    BY StoreFacts DEF IInv
  <2>2. DOMAIN indices' = 1 .. Len(indices)
    BY <1>2, <2>1 DEF Lowered
  <2> QED BY <2>1, <2>2 DEF OrderOK, Order
<1>7. Order' = Order
  BY <1>5, <1>6, SameOrder
<1>8. PICK f : f = FileOf(h)
  OBVIOUS
<1>9. \A g \in Active : FileOf(g)' = FileOf(g) /\ (FileOf(g) = f => g = h)
  BY <1>4, <1>5, <1>8, FilesDiffer
<1>10. f \in Files /\ f \in LoadedSlots /\ LoadedSlots' = LoadedSlots \ {f}
  <2>1. f \in Files /\ f \in LoadedSlots
    BY <1>4, <1>8, FilesDiffer DEF LoadedSlots
  <2>2. LoadedSlots' = {FileOf(g) : g \in Active \ {h}}
    BY <1>5, <1>9 DEF LoadedSlots
  <2>3. {FileOf(g) : g \in Active \ {h}} = {FileOf(g) : g \in Active} \ {f}
    BY <1>8, <1>9
  <2> QED BY <2>1, <2>2, <2>3 DEF LoadedSlots
<1>11. Abstract!Hide(f)
  BY <1>7, <1>10 DEF Abstract!Hide, Order
<1> QED BY <1>10, <1>11 DEF Abstract!Next

LEMMA ShowStep ==
  ASSUME IInv, OrderOK, OrderOK', Reactivated
  PROVE  Abstract!Next
<1>1. PICK h : h = On
  OBVIOUS
<1>2. /\ calls # <<>> /\ Head(calls).do = "reactivated"
      /\ slots' = [slots EXCEPT ![h].active = TRUE] /\ free' = free
      /\ indices' = Raised(PosOf(h))
  BY <1>1 DEF Reactivated, Doing
<1>3. Head(calls).do \in Callbacks
  BY <1>2 DEF Callbacks
<1>4. h \notin Active /\ h \in Live
  <2>1. On \in Live /\ calls[1].on = On /\ 1 \in Depths /\ calls[1].do = Head(calls).do
    BY <1>2, <1>3, HeadFacts
  <2> QED BY <1>1, <1>2, <2>1 DEF IInv, StackOK, CallbacksFit
<1>5. /\ Live' = Live /\ Active' = Active \cup {h}
      /\ \A g \in Live : FileOf(g)' = FileOf(g) /\ PosOf(g)' = PosOf(g)
  BY <1>2, <1>4, FlagStep, FilesDiffer DEF IInv, FileOf, PosOf
<1>6. Len(indices') = Len(indices)
  <2>1. Len(indices) \in Nat /\ DOMAIN indices = 1 .. Len(indices)
    BY StoreFacts DEF IInv
  <2>2. DOMAIN indices' = 1 .. Len(indices)
    BY <1>2, <2>1 DEF Raised
  <2> QED BY <2>1, <2>2 DEF OrderOK, Order
<1>7. Order' = Order
  BY <1>5, <1>6, SameOrder
<1>8. PICK f : f = FileOf(h)
  OBVIOUS
<1>9. \A g \in Active : FileOf(g)' = FileOf(g) /\ FileOf(g) # f
  BY <1>4, <1>5, <1>8, FilesDiffer
<1>10. f \in Files /\ f \in Abstract!Held /\ f \notin LoadedSlots /\ LoadedSlots' = LoadedSlots \cup {f}
  <2>1. f \in Files /\ f \in Abstract!Held
    BY <1>4, <1>8, FilesDiffer, OrderFiles
  <2>2. f \notin LoadedSlots
    BY <1>9 DEF LoadedSlots
  <2>3. LoadedSlots' = LoadedSlots \cup {f}
    BY <1>4, <1>5, <1>8, <1>9 DEF LoadedSlots
  <2> QED BY <2>1, <2>2, <2>3
<1>11. Abstract!Show(f)
  BY <1>7, <1>10 DEF Abstract!Show, Order
<1> QED BY <1>10, <1>11 DEF Abstract!Next

LEMMA ForgetStep ==
  ASSUME IInv, OrderOK, OrderOK', Erase
  PROVE  Abstract!Next
<1>1. PICK h : h = On
  OBVIOUS
<1>2. /\ calls # <<>> /\ Head(calls).do = "erase"
      /\ indices' = Dropped(indices, PosOf(h)) /\ slots' = MovedUp(PosOf(h))
      /\ free' = Append(free, h) /\ num' = num
      /\ where' = where /\ UNCHANGED told
  BY <1>1 DEF Erase, Doing
<1>3. Head(calls).do \in Callbacks /\ Head(calls).do # "deactivated" /\ Head(calls).do # "unload"
  BY <1>2 DEF Callbacks, Ending
<1>4. h \in Live \ Active
  <2>1. On \in Live /\ calls[1].on = On /\ 1 \in Depths /\ calls[1].do = Head(calls).do
    BY <1>2, <1>3, HeadFacts
  <2> QED BY <1>1, <1>2, <2>1 DEF IInv, StackOK, CallbacksFit
<1>5. ToldTyped'
  BY <1>2 DEF IInv, StoreOK, TypeOK, ToldTyped, told
<1>6. /\ Live' = Live \ {h} /\ Active' = Active
      /\ \A g \in Handles : slots'[g].file = slots[g].file
      /\ \A g \in Live' :
           /\ g \in Live /\ PosOf(g) # PosOf(h)
           /\ PosOf(g)' = IF PosOf(g) > PosOf(h) THEN PosOf(g) - 1 ELSE PosOf(g)
  BY <1>2, <1>4, <1>5, EraseStore DEF IInv
<1>7. \A g \in Live : FileOf(g)' = FileOf(g)
  BY <1>6, FilesDiffer DEF FileOf
<1>8. PICK k : k = PosOf(h)
  OBVIOUS
<1>9. PICK n : n = Len(indices)
  OBVIOUS
<1>10. /\ n \in Nat /\ k \in 1 .. n /\ DOMAIN Order = 1 .. n /\ Order \in Seq(Files) /\ Len(Order) = n
       /\ Order[k] = FileOf(h)
  <2>1. n \in Nat /\ DOMAIN Order = 1 .. n /\ Order \in Seq(Files)
    BY <1>9, StoreFacts DEF IInv, OrderOK
  <2>2. k \in DOMAIN Order /\ Order[k] = FileOf(h)
    BY <1>4, <1>8 DEF OrderOK
  <2> QED BY <2>1, <2>2
<1>11. DOMAIN Order' = 1 .. (n - 1)
  BY <1>2, <1>9 DEF Order, Dropped
<1>12. Order' = Dropped(Order, k)
  <2>1. ASSUME NEW i \in 1 .. (n - 1) PROVE Order'[i] = IF i < k THEN Order[i] ELSE Order[i + 1]
    <3>1. PICK g \in Live' : PosOf(g)' = i
      BY <1>11 DEF OrderOK
    <3>2. Order'[i] = FileOf(g) /\ g \in Live /\ PosOf(g) # k
      BY <1>6, <1>7, <1>8, <3>1 DEF OrderOK
    <3>3. Order[PosOf(g)] = FileOf(g) /\ PosOf(g) \in 1 .. n
      BY <1>10, <3>2 DEF OrderOK
    <3>4. i = IF PosOf(g) > k THEN PosOf(g) - 1 ELSE PosOf(g)
      BY <1>6, <1>8, <3>1
    <3>5. CASE PosOf(g) > k
      <4>1. i + 1 = PosOf(g) /\ ~(i < k)
        BY <1>10, <3>3, <3>4, <3>5
      <4> QED BY <3>2, <3>3, <4>1
    <3>6. CASE PosOf(g) < k
      <4>1. i = PosOf(g) /\ i < k
        BY <1>10, <3>3, <3>4, <3>6
      <4> QED BY <3>2, <3>3, <4>1
    <3> QED BY <1>10, <3>2, <3>3, <3>5, <3>6
  <2>2. Order' = [i \in 1 .. (n - 1) |-> Order'[i]]
    <3>1. Order' \in Seq(Files)
      BY DEF OrderOK
    <3> QED BY <1>11, <3>1
  <2>3. Dropped(Order, k) = [i \in 1 .. (n - 1) |-> IF i < k THEN Order[i] ELSE Order[i + 1]]
    BY <1>10 DEF Dropped
  <2> QED BY <2>1, <2>2, <2>3
<1>13. PICK f : f = FileOf(h)
  OBVIOUS
<1>14. Order' = Only(Order, Files \ {f})
  <2>1. k \in DOMAIN Order
    BY <1>10
  <2>2. PICK s : s = Order
    OBVIOUS
  <2>3. Only(s, Files \ {s[k]}) = Dropped(s, k)
    BY <1>10, <2>1, <2>2, OrderFiles, OnlyDrops
  <2> QED BY <1>10, <1>12, <1>13, <2>2, <2>3
<1>15. LoadedSlots' = LoadedSlots
  BY <1>6, <1>7, FilesDiffer DEF LoadedSlots
<1>16. f \in Files /\ f \in Abstract!Held /\ f \notin LoadedSlots
  BY <1>4, <1>13, FilesDiffer, OrderFiles DEF LoadedSlots
<1>17. Order' = Abstract!Without(Order, f)
  <2>1. \A s, S : Abstract!Only(s, S) = Only(s, S)
    BY DEF Only, Abstract!Only
  <2> QED BY <1>14, <2>1 DEF Abstract!Without
<1>18. Abstract!Forget(f)
  BY <1>15, <1>16, <1>17 DEF Abstract!Forget, Order
<1> QED BY <1>16, <1>18 DEF Abstract!Next

LEMMA AbstractStep ==
  (IInv /\ OrderOK) /\ (IInv /\ OrderOK)' /\ [Next]_vars
    => [Abstract!Next]_<<[k \in DOMAIN indices |-> FileAt(k)], LoadedSlots>>
<1> SUFFICES ASSUME IInv, OrderOK, OrderOK', [Next]_vars
             PROVE  Abstract!Next \/ UNCHANGED <<[k \in DOMAIN indices |-> FileAt(k)], LoadedSlots>>
  OBVIOUS
<1>1. ASSUME UNCHANGED store
      PROVE  UNCHANGED <<[k \in DOMAIN indices |-> FileAt(k)], LoadedSlots>>
  BY <1>1 DEF store, FileAt, Live, Freed, Handles, FileOf, PosOf, LoadedSlots, Active
<1>2. ASSUME NEW fs \in Batches, AddFiles(fs) PROVE UNCHANGED store
  BY <1>2 DEF AddFiles
<1>3. ASSUME NEW h \in Handles, NEW heard \in BOOLEAN, NEW kept \in BOOLEAN, RemoveFile(h, heard, kept)
      PROVE  UNCHANGED store
  BY <1>3 DEF RemoveFile
<1>4. ASSUME NEW h \in Handles, Forsake(h) \/ Undo(h) PROVE UNCHANGED store
  BY <1>4 DEF Forsake, Undo
<1>5. CASE Return \/ AddDone \/ Deactivated \/ Destroying
  <2>1. UNCHANGED store
    BY <1>5 DEF Return, AddDone, Deactivated, Destroying
  <2> QED BY <1>1, <2>1
<1>6. CASE AddOne \/ Unload \/ Reactivated \/ Erase
  BY <1>6, LoadStep, HideStep, ShowStep, ForgetStep
<1>7. CASE UNCHANGED vars
  <2>1. UNCHANGED store
    BY <1>7 DEF vars
  <2> QED BY <1>1, <2>1
<1> QED BY <1>1, <1>2, <1>3, <1>4, <1>5, <1>6, <1>7 DEF Next

(* Slots, indices and handles implement a list of files in load order,     *)
(* from which files are hidden and forgotten.                              *)
THEOREM LoadOrderImplemented == Spec => KeepsLoadOrder
<1>1. IInv => OrderOK
  BY OrderHolds
<1>2. Init => Abstract!Init
  BY AbstractInit
<1>3. (IInv /\ OrderOK) /\ (IInv /\ OrderOK)' /\ [Next]_vars
        => [Abstract!Next]_<<[k \in DOMAIN indices |-> FileAt(k)], LoadedSlots>>
  BY AbstractStep
<1> QED BY <1>1, <1>2, <1>3, Invariant, PTL DEF Spec, KeepsLoadOrder, Abstract!Spec
=============================================================================
