------------------------ MODULE ApplicationStateProofs ------------------------
(***************************************************************************)
(* Proofs about ApplicationState, for any number of calls, scopes and      *)
(* guards.                                                                 *)
(*                                                                         *)
(* Nothing is above layers that hear of changes on the call stack, whose   *)
(* entries count the scopes and the guards that are open.  What the layers *)
(* have not heard of is kept by a guard with no reconstruction under it,   *)
(* and a reconstruction that layers hear in finds nothing unheard; what    *)
(* changed and what the sections missed is kept by a request, an           *)
(* announcement, or a guard that will make one.                            *)
(***************************************************************************)
EXTENDS ApplicationState, SequenceLemmas

(* Which entry may be above which on the call stack. *)
Order == {p \in Frames \X Frames : p[2] # "hear"}

ScopeEnds == {"scope", "end", "endAsking"}
Holds == {"guard", "release", "announce", "settle"}
Keeps == {"guard", "release", "announce"}

Stacked(s) ==
  /\ s \in Seq(Frames) /\ Ordered(s, Order)
  /\ Followed(s, {"listed"}, {"filesChanged"})
  /\ Followed(s, {"update", "reconstructed"}, {"release"})
  /\ Backed(s, {"begin"}, ScopeEnds)

On(s, what) == what \in Elements(s)
Kept(s) == ~On(s, "settle") /\ \E x \in Keeps : On(s, x)

(* A guard that no reconstruction ends. *)
Guarded(s) ==
  \E i \in DOMAIN s : /\ s[i] \in {"guard", "release"}
                      /\ \A j \in DOMAIN s : i < j => s[j] # "finish"

CountsInv ==
  /\ nesting \in Nat /\ nesting + Tally(calls, {"begin"}) = Tally(calls, ScopeEnds)
  /\ guards \in Nat /\ guards = Tally(calls, Holds)

FlagsInv ==
  /\ onExit \in BOOLEAN /\ (onExit => nesting > 0)
  /\ reconstructing \in BOOLEAN /\ (reconstructing => On(calls, "finish"))
  /\ pending \in BOOLEAN /\ (pending => guards > 0)
  /\ unheard \in BOOLEAN /\ outdated \in BOOLEAN /\ ops \in Nat

HeardInv ==
  /\ unheard /\ ~On(calls, "hear") =>
       pending /\ ~On(calls, "announce") /\ ~On(calls, "settle") /\ Guarded(calls)
  /\ unheard /\ On(calls, "hear") => ~On(calls, "finish")

Requested == On(calls, "reconstruct") \/ (nesting > 0 /\ onExit)
DueInv ==
  /\ due \subseteq {"settings", "features"}
  /\ "settings" \in due => Requested
  /\ "features" \in due => Requested \/ On(calls, "storeModified") \/ (pending /\ Kept(calls))
  /\ "features" \in due /\ On(calls, "finish") => unheard

SectionsInv ==
  /\ sections \in {"unknown", "right", "wrong"}
  /\ sections = "wrong" =>
       On(calls, "storeModified") \/ On(calls, "filesChanged") \/ (pending /\ Kept(calls))

IInv == Stacked(calls) /\ CountsInv /\ FlagsInv /\ HeardInv /\ DueInv /\ SectionsInv
-----------------------------------------------------------------------------
(* What an entry x adds to the stack t below it. *)
Above(s, x, t) ==
  /\ Elements(s) = {x} \cup Elements(t)
  /\ Tally(s, {"begin"}) = Tally(t, {"begin"}) + (IF x = "begin" THEN 1 ELSE 0)
  /\ Tally(s, ScopeEnds) = Tally(t, ScopeEnds) + (IF x \in ScopeEnds THEN 1 ELSE 0)
  /\ Tally(s, Holds) = Tally(t, Holds) + (IF x \in Holds THEN 1 ELSE 0)
  /\ Guarded(s) <=> Guarded(t) \/ (x \in {"guard", "release"} /\ ~On(t, "finish"))

LEMMA Counted ==
  ASSUME NEW s, Stacked(s)
  PROVE  /\ Tally(s, {"begin"}) \in Nat /\ Tally(s, ScopeEnds) \in Nat /\ Tally(s, Holds) \in Nat
         /\ Tally(s, {"begin"}) <= Tally(s, ScopeEnds)
         /\ Tally(s, Holds) = 0 <=> \A x \in Elements(s) : x \notin Holds
         /\ s = <<>> => Tally(s, {"begin"}) = 0 /\ Tally(s, ScopeEnds) = 0
         /\ Elements(s) \subseteq Frames
<1>1. s \in Seq(Frames) /\ Backed(s, {"begin"}, ScopeEnds)
  BY DEF Stacked
<1>2. Tally(s, {"begin"}) \in Nat /\ Tally(s, ScopeEnds) \in Nat /\ Tally(s, Holds) \in Nat
  BY <1>1, TallyConcat
<1>3. Tally(s, {"begin"}) <= Tally(s, ScopeEnds)
  BY <1>1, BackedTally
<1>4. Tally(s, Holds) = 0 <=> \A x \in Elements(s) : x \notin Holds
  BY <1>1, TallyZero
<1>5. s = <<>> => Tally(s, {"begin"}) = 0 /\ Tally(s, ScopeEnds) = 0
  BY TallyEmpty
<1> QED BY <1>1, <1>2, <1>3, <1>4, <1>5, ElementsTyped

LEMMA GuardedAbove ==
  ASSUME NEW s \in Seq(Frames), s # <<>>
  PROVE  Guarded(s) <=> Guarded(Tail(s)) \/ (Head(s) \in {"guard", "release"} /\ ~On(Tail(s), "finish"))
<1>1. PICK t : t = Tail(s)
  OBVIOUS
<1>2. /\ 1 \in DOMAIN s /\ Head(s) = s[1] /\ DOMAIN s \subseteq Nat
      /\ \A i \in DOMAIN t : i \in Nat /\ 0 < i /\ i + 1 \in DOMAIN s /\ t[i] = s[i + 1]
      /\ \A i \in DOMAIN s : 1 < i => i - 1 \in DOMAIN t /\ s[i] = t[i - 1]
  BY <1>1, TailShifts
<1>3. ASSUME Guarded(t) PROVE Guarded(s)
  <2>1. PICK i \in DOMAIN t : t[i] \in {"guard", "release"} /\ \A j \in DOMAIN t : i < j => t[j] # "finish"
    BY <1>3 DEF Guarded
  <2>2. i + 1 \in DOMAIN s /\ s[i + 1] \in {"guard", "release"}
    BY <1>2, <2>1
  <2>3. ASSUME NEW j \in DOMAIN s, i + 1 < j PROVE s[j] # "finish"
    <3>1. j - 1 \in DOMAIN t /\ s[j] = t[j - 1] /\ i < j - 1
      BY <1>2, <2>3
    <3> QED BY <2>1, <3>1
  <2> QED BY <2>2, <2>3 DEF Guarded
<1>4. ASSUME Head(s) \in {"guard", "release"}, ~On(t, "finish") PROVE Guarded(s)
  <2>1. ASSUME NEW j \in DOMAIN s, 1 < j PROVE s[j] # "finish"
    BY <1>2, <1>4, <2>1 DEF On, Elements
  <2> QED BY <1>2, <1>4, <2>1 DEF Guarded
<1>5. ASSUME Guarded(s) PROVE Guarded(t) \/ (Head(s) \in {"guard", "release"} /\ ~On(t, "finish"))
  <2>1. PICK i \in DOMAIN s : s[i] \in {"guard", "release"} /\ \A j \in DOMAIN s : i < j => s[j] # "finish"
    BY <1>5 DEF Guarded
  <2>2. CASE i = 1
    <3>1. \A j \in DOMAIN t : t[j] # "finish"
      BY <1>2, <2>1, <2>2
    <3> QED BY <1>2, <2>1, <2>2, <3>1 DEF On, Elements
  <2>3. CASE i # 1
    <3>1. i - 1 \in DOMAIN t /\ t[i - 1] \in {"guard", "release"}
      BY <1>2, <2>1, <2>3
    <3>2. \A j \in DOMAIN t : i - 1 < j => t[j] # "finish"
      BY <1>2, <2>1
    <3> QED BY <3>1, <3>2 DEF Guarded
  <2> QED BY <2>2, <2>3
<1> QED BY <1>1, <1>3, <1>4, <1>5

LEMMA AboveTail ==
  ASSUME NEW s \in Seq(Frames), s # <<>>
  PROVE  Above(s, Head(s), Tail(s))
<1>1. PICK x : x = Head(s)
  OBVIOUS
<1>2. PICK t : t = Tail(s)
  OBVIOUS
<1>3. \A K : Tally(s, K) = Tally(t, K) + IF x \in K THEN 1 ELSE 0
  BY <1>1, <1>2, TallyTail
<1>4. Elements(s) = {x} \cup Elements(t)
  BY <1>1, <1>2, ElementsTail
<1>5. Guarded(s) <=> Guarded(t) \/ (x \in {"guard", "release"} /\ ~On(t, "finish"))
  BY <1>1, <1>2, GuardedAbove
<1>6. Tally(s, {"begin"}) = Tally(t, {"begin"}) + (IF x = "begin" THEN 1 ELSE 0)
  BY <1>3
<1> QED BY <1>1, <1>2, <1>3, <1>4, <1>5, <1>6 DEF Above

(* The call that runs, and what it leaves. *)
LEMMA Taken ==
  ASSUME NEW s, Stacked(s), s # <<>>
  PROVE  /\ Stacked(Tail(s)) /\ Above(s, Head(s), Tail(s)) /\ Head(s) \in Frames
         /\ ~On(Tail(s), "hear")
         /\ Head(s) \in {"update", "reconstructed"} => On(Tail(s), "release")
         /\ Head(s) = "listed" => On(Tail(s), "filesChanged")
<1>1. s \in Seq(Frames) /\ Head(s) \in Frames /\ Tail(s) \in Seq(Frames)
  BY ElementsTail DEF Stacked
<1>2. Ordered(Tail(s), Order) /\ \A y \in Elements(Tail(s)) : <<Head(s), y>> \in Order
  BY <1>1, StackTail DEF Stacked
<1>3. /\ Followed(Tail(s), {"listed"}, {"filesChanged"})
      /\ Head(s) \in {"listed"} => \E y \in Elements(Tail(s)) : y \in {"filesChanged"}
  BY <1>1, StackTail DEF Stacked
<1>4. /\ Followed(Tail(s), {"update", "reconstructed"}, {"release"})
      /\ Head(s) \in {"update", "reconstructed"} => \E y \in Elements(Tail(s)) : y \in {"release"}
  BY <1>1, StackTail DEF Stacked
<1>5. Backed(Tail(s), {"begin"}, ScopeEnds)
  BY <1>1, BackedTail DEF Stacked
<1>6. Above(s, Head(s), Tail(s))
  BY <1>1, AboveTail
<1>7. ~On(Tail(s), "hear")
  BY <1>2 DEF Order, On
<1>8. /\ Head(s) \in {"update", "reconstructed"} => On(Tail(s), "release")
      /\ Head(s) = "listed" => On(Tail(s), "filesChanged")
  BY <1>3, <1>4 DEF On
<1>9. Stacked(Tail(s))
  BY <1>1, <1>2, <1>3, <1>4, <1>5 DEF Stacked
<1> QED BY <1>1, <1>6, <1>7, <1>8, <1>9

LEMMA OneFrame ==
  ASSUME NEW x \in Frames, NEW R, NEW K, NEW L
  PROVE  /\ <<x>> \in Seq(Frames) /\ Elements(<<x>>) = {x} /\ Ordered(<<x>>, R)
         /\ x \notin K => Followed(<<x>>, K, L)
BY DEF Elements, Ordered, Followed

LEMMA FollowedPush ==
  ASSUME NEW x \in Frames, NEW t \in Seq(Frames), NEW K, NEW L, Followed(t, K, L),
         x \in K => \E y \in L : On(t, y)
  PROVE  Followed(<<x>> \o t, K, L)
<1> DEFINE s == <<x>> \o t
<1>1. /\ s \in Seq(Frames) /\ s # <<>> /\ Head(s) = x /\ Tail(s) = t /\ s[1] = x
  OBVIOUS
<1> HIDE DEF s
<1>2. /\ DOMAIN s \subseteq Nat
      /\ \A i \in DOMAIN t : i \in Nat /\ 0 < i /\ i + 1 \in DOMAIN s /\ t[i] = s[i + 1]
      /\ \A i \in DOMAIN s : 1 < i => i - 1 \in DOMAIN t /\ s[i] = t[i - 1]
  BY <1>1, TailShifts
<1>3. SUFFICES ASSUME NEW i \in DOMAIN s, s[i] \in K PROVE \E j \in DOMAIN s : i < j /\ s[j] \in L
  BY DEF Followed, s
<1>4. CASE 1 < i
  <2>1. i - 1 \in DOMAIN t /\ t[i - 1] \in K
    BY <1>2, <1>3, <1>4
  <2>2. PICK j \in DOMAIN t : i - 1 < j /\ t[j] \in L
    BY <2>1 DEF Followed
  <2>3. j + 1 \in DOMAIN s /\ i < j + 1 /\ s[j + 1] \in L
    BY <1>2, <2>2
  <2> QED BY <2>3
<1>5. CASE ~(1 < i)
  <2>1. i = 1
    <3>1. DOMAIN s = 1..Len(s) /\ Len(s) \in Nat
      BY <1>1
    <3> QED BY <1>5, <3>1
  <2>2. PICK j \in DOMAIN t : t[j] \in L
    BY <1>1, <1>3, <2>1 DEF On, Elements
  <2>3. j + 1 \in DOMAIN s /\ i < j + 1 /\ s[j + 1] \in L
    BY <1>2, <2>1, <2>2
  <2> QED BY <2>3
<1> QED BY <1>4, <1>5

(* One call more. *)
LEMMA Pushed ==
  ASSUME NEW t, Stacked(t), NEW x \in Frames, NEW s, s = <<x>> \o t,
         ~On(t, "hear"),
         x \in {"update", "reconstructed"} => On(t, "release"),
         x = "listed" => On(t, "filesChanged"),
         x = "begin" => Tally(t, {"begin"}) < Tally(t, ScopeEnds)
  PROVE  Stacked(s) /\ Above(s, x, t) /\ s # <<>> /\ Head(s) = x /\ Tail(s) = t
<1>1. t \in Seq(Frames) /\ Elements(t) \subseteq Frames
  BY ElementsTyped DEF Stacked
<1>2. s \in Seq(Frames) /\ s # <<>> /\ Head(s) = x /\ Tail(s) = t
  BY <1>1
<1>3. Above(s, x, t)
  BY <1>2, AboveTail
<1>4. Ordered(s, Order)
  <2>1. PICK e : e = <<x>>
    OBVIOUS
  <2>2. e \in Seq(Frames) /\ Elements(e) = {x} /\ Ordered(e, Order)
    BY <2>1, OneFrame
  <2>3. \A y \in Elements(t) : <<x, y>> \in Order
    BY <1>1 DEF Order, On
  <2>4. Ordered(t, Order) /\ s = e \o t
    BY <2>1 DEF Stacked
  <2> QED BY <1>1, <2>2, <2>3, <2>4, StackConcat
<1>5. Followed(s, {"listed"}, {"filesChanged"})
  BY <1>1, FollowedPush DEF Stacked
<1>6. Followed(s, {"update", "reconstructed"}, {"release"})
  BY <1>1, FollowedPush DEF Stacked
<1>7. Backed(s, {"begin"}, ScopeEnds)
  <2>1. x \in {"begin"} => Tally(t, {"begin"}) < Tally(t, ScopeEnds)
    OBVIOUS
  <2> QED BY <1>1, <2>1, BackedPush DEF Stacked
<1> QED BY <1>2, <1>3, <1>4, <1>5, <1>6, <1>7 DEF Stacked

LEMMA NoFrames ==
  Stacked(<<>>) /\ Elements(<<>>) = {} /\ ~Guarded(<<>>)
<1>1. <<>> \in Seq(Frames) /\ Elements(<<>>) = {}
  BY ElementsEmpty
<1>2. /\ Ordered(<<>>, Order) /\ Followed(<<>>, {"listed"}, {"filesChanged"})
      /\ Followed(<<>>, {"update", "reconstructed"}, {"release"}) /\ ~Guarded(<<>>)
  BY DEF Ordered, Followed, Guarded
<1>3. Backed(<<>>, {"begin"}, ScopeEnds)
  BY <1>1, BackedNone
<1> QED BY <1>1, <1>2, <1>3 DEF Stacked
-----------------------------------------------------------------------------
(* One and two calls more. *)
LEMMA PushedTwo ==
  ASSUME NEW t, Stacked(t), NEW x \in Frames, NEW y \in Frames, NEW s, s = <<x, y>> \o t,
         ~On(t, "hear"), y # "hear",
         x \notin {"update", "reconstructed", "listed"},
         y \notin {"update", "reconstructed", "listed", "begin", "finish"},
         x = "begin" => y \in ScopeEnds
  PROVE  Stacked(s) /\ s # <<>> /\ \E a : Above(s, x, a) /\ Above(a, y, t)
<1>1. t \in Seq(Frames)
  BY DEF Stacked
<1>2. PICK a : a = <<y>> \o t
  OBVIOUS
<1>3. Stacked(a) /\ Above(a, y, t)
  BY <1>2, Pushed
<1>4. s = <<x>> \o a
  <2>1. PICK e : e = <<x, y>>
    OBVIOUS
  <2>2. PICK r : r = <<y>>
    OBVIOUS
  <2>3. e \in Seq(Frames) /\ e # <<>> /\ x = Head(e) /\ r = Tail(e)
    BY <2>1, <2>2
  <2>4. e \o t = <<x>> \o (r \o t)
    BY <1>1, <2>3, ConcatHead
  <2> QED BY <1>2, <2>1, <2>2, <2>4
<1>5. ~On(a, "hear")
  BY <1>3 DEF Above, On
<1>6. x = "begin" => Tally(a, {"begin"}) < Tally(a, ScopeEnds)
  <2>1. Tally(t, {"begin"}) \in Nat /\ Tally(t, ScopeEnds) \in Nat /\ Tally(t, {"begin"}) <= Tally(t, ScopeEnds)
    BY Counted
  <2> QED BY <1>3, <2>1 DEF Above
<1>7. Stacked(s) /\ Above(s, x, a) /\ s # <<>>
  BY <1>3, <1>4, <1>5, <1>6, Pushed
<1> QED BY <1>3, <1>7

(* What holds when clients call. *)
LEMMA ClientRuns ==
  ASSUME IInv, NEW e, Start(e)
  PROVE  /\ Stacked(calls) /\ calls \in Seq(Frames) /\ ~On(calls, "hear")
         /\ calls' = e \o calls /\ ops' = ops + 1
         /\ Tally(calls, {"begin"}) \in Nat /\ Tally(calls, ScopeEnds) \in Nat /\ Tally(calls, Holds) \in Nat
<1>1. Stacked(calls) /\ calls \in Seq(Frames)
  BY DEF IInv, Stacked
<1>2. ~On(calls, "hear")
  <2>1. CASE calls = <<>>
    BY <2>1, NoFrames DEF On
  <2>2. CASE calls # <<>>
    BY <1>1, <2>2, Taken DEF Above, On, ClientFrames, Start
  <2> QED BY <2>1, <2>2
<1> QED BY <1>1, <1>2, Counted DEF Start

LEMMA StackWhenModifying ==
  ASSUME MayModify
  PROVE  \A x \in {"update", "finish", "announce", "settle"} : ~On(calls, x)
BY DEF MayModify, Stack, On, Elements

LEMMA FramesTyped ==
  /\ ClientFrames \subseteq Frames /\ ScopeEnds \subseteq Frames /\ Holds \subseteq Frames
  /\ {"reconstruct", "hear", "begin", "connect", "intoModel", "listed", "filesChanged"} \subseteq Frames
BY DEF Frames, ClientFrames, ScopeEnds, Holds
-----------------------------------------------------------------------------
LEMMA SetTimeStep == ASSUME IInv, SetTime PROVE IInv'
<1>1. /\ Start(<<"reconstruct", "told">>)
      /\ due' = due \cup {"settings"} /\ outdated' = TRUE
      /\ UNCHANGED <<nesting, onExit, reconstructing, guards, pending, unheard, sections>>
  BY DEF SetTime, flags, model
<1>2. /\ Stacked(calls) /\ ~On(calls, "hear")
      /\ calls' = <<"reconstruct", "told">> \o calls /\ ops' = ops + 1
      /\ Tally(calls, {"begin"}) \in Nat /\ Tally(calls, ScopeEnds) \in Nat /\ Tally(calls, Holds) \in Nat
  BY <1>1, ClientRuns
<1>3. Stacked(calls') /\ \E a : Above(calls', "reconstruct", a) /\ Above(a, "told", calls)
  <2>1. "reconstruct" \in Frames /\ "told" \in Frames /\ ("reconstruct" = "begin" => "told" \in ScopeEnds)
    BY DEF Frames, ClientFrames, ScopeEnds
  <2> QED BY <1>2, <2>1, PushedTwo
<1>4. PICK a : Above(calls', "reconstruct", a) /\ Above(a, "told", calls)
  BY <1>3
<1>5. /\ Elements(calls') = {"reconstruct", "told"} \cup Elements(calls)
      /\ Tally(calls', {"begin"}) = Tally(calls, {"begin"})
      /\ Tally(calls', ScopeEnds) = Tally(calls, ScopeEnds)
      /\ Tally(calls', Holds) = Tally(calls, Holds)
      /\ Guarded(calls) => Guarded(calls')
  BY <1>2, <1>4 DEF Above, ScopeEnds, Holds
<1>6. CountsInv' /\ FlagsInv'
  BY <1>1, <1>2, <1>3, <1>5 DEF IInv, CountsInv, FlagsInv, On, Above, ScopeEnds, Holds
<1>7. HeardInv'
  BY <1>1, <1>2, <1>3, <1>5 DEF IInv, HeardInv, On, Above
<1>8. DueInv' /\ SectionsInv'
  BY <1>1, <1>2, <1>3, <1>5
     DEF IInv, CountsInv, FlagsInv, HeardInv, DueInv, SectionsInv, Requested, Kept, Keeps, On, Above
<1> QED BY <1>3, <1>6, <1>7, <1>8 DEF IInv

LEMMA ChangeLayersStep == ASSUME IInv, ChangeLayers PROVE IInv'
<1>1. /\ Start(<<"connect">>)
      /\ UNCHANGED <<nesting, onExit, reconstructing, guards, pending, unheard, outdated, sections, due>>
  BY DEF ChangeLayers, flags, model
<1>2. /\ Stacked(calls) /\ ~On(calls, "hear")
      /\ calls' = <<"connect">> \o calls /\ ops' = ops + 1
      /\ Tally(calls, {"begin"}) \in Nat /\ Tally(calls, ScopeEnds) \in Nat /\ Tally(calls, Holds) \in Nat
  BY <1>1, ClientRuns
<1>3. Stacked(calls') /\ Above(calls', "connect", calls)
  BY <1>2, FramesTyped, Pushed DEF ClientFrames
<1>4. CountsInv' /\ FlagsInv'
  BY <1>1, <1>2, <1>3 DEF IInv, CountsInv, FlagsInv, On, Above, ScopeEnds, Holds
<1>5. HeardInv'
  BY <1>1, <1>2, <1>3 DEF IInv, HeardInv, On, Above
<1>6. DueInv' /\ SectionsInv'
  BY <1>1, <1>2, <1>3
     DEF IInv, CountsInv, FlagsInv, HeardInv, DueInv, SectionsInv, Requested, Kept, Keeps, On, Above
<1> QED BY <1>3, <1>4, <1>5, <1>6 DEF IInv

LEMMA RequestStep == ASSUME IInv, Request PROVE IInv'
<1>1. /\ Start(<<"reconstruct">>)
      /\ UNCHANGED <<nesting, onExit, reconstructing, guards, pending, unheard, outdated, sections, due>>
  BY DEF Request, flags, model
<1>2. /\ Stacked(calls) /\ ~On(calls, "hear")
      /\ calls' = <<"reconstruct">> \o calls /\ ops' = ops + 1
      /\ Tally(calls, {"begin"}) \in Nat /\ Tally(calls, ScopeEnds) \in Nat /\ Tally(calls, Holds) \in Nat
  BY <1>1, ClientRuns
<1>3. Stacked(calls') /\ Above(calls', "reconstruct", calls)
  BY <1>2, FramesTyped, Pushed DEF ClientFrames
<1>4. CountsInv' /\ FlagsInv'
  BY <1>1, <1>2, <1>3 DEF IInv, CountsInv, FlagsInv, On, Above, ScopeEnds, Holds
<1>5. HeardInv'
  BY <1>1, <1>2, <1>3 DEF IInv, HeardInv, On, Above
<1>6. DueInv' /\ SectionsInv'
  BY <1>1, <1>2, <1>3
     DEF IInv, CountsInv, FlagsInv, HeardInv, DueInv, SectionsInv, Requested, Kept, Keeps, On, Above
<1> QED BY <1>3, <1>4, <1>5, <1>6 DEF IInv

LEMMA OpenScopeStep == ASSUME IInv, OpenScope PROVE IInv'
<1>1. /\ Start(<<"begin", "scope">>)
      /\ UNCHANGED <<nesting, onExit, reconstructing, guards, pending, unheard, outdated, sections, due>>
  BY DEF OpenScope, flags, model
<1>2. /\ Stacked(calls) /\ ~On(calls, "hear")
      /\ calls' = <<"begin", "scope">> \o calls /\ ops' = ops + 1
      /\ Tally(calls, {"begin"}) \in Nat /\ Tally(calls, ScopeEnds) \in Nat /\ Tally(calls, Holds) \in Nat
  BY <1>1, ClientRuns
<1>3. Stacked(calls') /\ \E a : Above(calls', "begin", a) /\ Above(a, "scope", calls)
  <2>1. "begin" \in Frames /\ "scope" \in Frames /\ ("begin" = "begin" => "scope" \in ScopeEnds)
    BY DEF Frames, ClientFrames, ScopeEnds
  <2> QED BY <1>2, <2>1, PushedTwo
<1>4. PICK a : Above(calls', "begin", a) /\ Above(a, "scope", calls)
  BY <1>3
<1>5. /\ Elements(calls') = {"begin", "scope"} \cup Elements(calls)
      /\ Tally(calls', {"begin"}) = Tally(calls, {"begin"}) + 1
      /\ Tally(calls', ScopeEnds) = Tally(calls, ScopeEnds) + 1
      /\ Tally(calls', Holds) = Tally(calls, Holds)
      /\ Guarded(calls) => Guarded(calls')
  BY <1>2, <1>4 DEF Above, ScopeEnds, Holds
<1>6. CountsInv' /\ FlagsInv'
  <2>1. CountsInv'
    BY <1>1, <1>2, <1>5 DEF IInv, CountsInv
  <2>2. FlagsInv'
    BY <1>1, <1>2, <1>5 DEF IInv, FlagsInv, On
  <2> QED BY <2>1, <2>2
<1>7. HeardInv'
  BY <1>1, <1>2, <1>3, <1>5 DEF IInv, HeardInv, On, Above
<1>8. DueInv' /\ SectionsInv'
  BY <1>1, <1>2, <1>3, <1>5
     DEF IInv, CountsInv, FlagsInv, HeardInv, DueInv, SectionsInv, Requested, Kept, Keeps, On, Above
<1> QED BY <1>3, <1>6, <1>7, <1>8 DEF IInv

LEMMA OpenGuardStep == ASSUME IInv, OpenGuard PROVE IInv'
<1>1. /\ Start(<<"guard">>)
      /\ guards' = guards + 1
      /\ UNCHANGED <<nesting, onExit, reconstructing, pending, unheard, outdated, sections, due>>
  BY DEF OpenGuard, flags, model
<1>2. /\ Stacked(calls) /\ ~On(calls, "hear")
      /\ calls' = <<"guard">> \o calls /\ ops' = ops + 1
      /\ Tally(calls, {"begin"}) \in Nat /\ Tally(calls, ScopeEnds) \in Nat /\ Tally(calls, Holds) \in Nat
  BY <1>1, ClientRuns
<1>3. Stacked(calls') /\ Above(calls', "guard", calls)
  BY <1>2, FramesTyped, Pushed DEF ClientFrames
<1>4. CountsInv' /\ FlagsInv'
  BY <1>1, <1>2, <1>3 DEF IInv, CountsInv, FlagsInv, On, Above, ScopeEnds, Holds
<1>5. HeardInv'
  BY <1>1, <1>2, <1>3 DEF IInv, HeardInv, On, Above
<1>6. DueInv' /\ SectionsInv'
  BY <1>1, <1>2, <1>3
     DEF IInv, CountsInv, FlagsInv, HeardInv, DueInv, SectionsInv, Requested, Kept, Keeps, On, Above
<1> QED BY <1>3, <1>4, <1>5, <1>6 DEF IInv
-----------------------------------------------------------------------------
(* The longer rows of calls: what s adds to the stack t, but for the marks *)
(* that the invariant looks for.                                           *)
Grows(s, t, scopes, ends, holds) ==
  /\ Stacked(s) /\ ~On(s, "hear") /\ Elements(t) \subseteq Elements(s)
  /\ (On(s, "announce") => On(t, "announce")) /\ (On(s, "settle") => On(t, "settle"))
  /\ Tally(s, {"begin"}) = Tally(t, {"begin"}) + scopes
  /\ Tally(s, ScopeEnds) = Tally(t, ScopeEnds) + ends
  /\ Tally(s, Holds) = Tally(t, Holds) + holds
  /\ Guarded(t) => Guarded(s)

LEMMA FilesAdded ==
  ASSUME NEW t, Stacked(t), ~On(t, "hear")
  PROVE  \E s : s = <<"intoModel", "listed", "begin", "connect", "endAsking", "told", "filesChanged">> \o t
              /\ Grows(s, t, 1, 1, 0) /\ (On(s, "finish") => On(t, "finish"))
<1>1. /\ t \in Seq(Frames) /\ Tally(t, {"begin"}) \in Nat /\ Tally(t, ScopeEnds) \in Nat
      /\ Tally(t, Holds) \in Nat /\ Tally(t, {"begin"}) <= Tally(t, ScopeEnds)
  BY Counted DEF Stacked
<1>2. "begin" \in Frames /\ "connect" \in Frames /\ "endAsking" \in Frames
      /\ "filesChanged" \in Frames /\ "intoModel" \in Frames /\ "listed" \in Frames /\ "told" \in Frames
  BY DEF Frames, ClientFrames
<1>3. PICK e0 : e0 = <<>>
  OBVIOUS
<1>4. PICK e1 : e1 = <<"filesChanged">>
  OBVIOUS
<1>5. PICK e2 : e2 = <<"told", "filesChanged">>
  OBVIOUS
<1>6. PICK e3 : e3 = <<"endAsking", "told", "filesChanged">>
  OBVIOUS
<1>7. PICK e4 : e4 = <<"connect", "endAsking", "told", "filesChanged">>
  OBVIOUS
<1>8. PICK e5 : e5 = <<"begin", "connect", "endAsking", "told", "filesChanged">>
  OBVIOUS
<1>9. PICK e6 : e6 = <<"listed", "begin", "connect", "endAsking", "told", "filesChanged">>
  OBVIOUS
<1>10. PICK e7 : e7 = <<"intoModel", "listed", "begin", "connect", "endAsking", "told", "filesChanged">>
  OBVIOUS
<1>11. PICK s0 : s0 = e0 \o t
  OBVIOUS
<1>12. PICK s1 : s1 = e1 \o t
  OBVIOUS
<1>13. PICK s2 : s2 = e2 \o t
  OBVIOUS
<1>14. PICK s3 : s3 = e3 \o t
  OBVIOUS
<1>15. PICK s4 : s4 = e4 \o t
  OBVIOUS
<1>16. PICK s5 : s5 = e5 \o t
  OBVIOUS
<1>17. PICK s6 : s6 = e6 \o t
  OBVIOUS
<1>18. PICK s7 : s7 = e7 \o t
  OBVIOUS
<1>19. Grows(s0, t, 0, 0, 0) /\ (On(s0, "finish") => On(t, "finish"))
  <2>1. s0 = t
    BY <1>1, <1>3, <1>11
  <2> QED BY <1>1, <2>1 DEF Grows
<1>20. Grows(s1, t, 0, 0, 0) /\ (On(s1, "finish") => On(t, "finish")) /\ On(s1, "filesChanged")
  <2>1. e1 \in Seq(Frames) /\ e1 # <<>> /\ "filesChanged" = Head(e1) /\ e0 = Tail(e1)
    BY <1>2, <1>3, <1>4
  <2>2. s1 = <<"filesChanged">> \o s0
    BY <1>1, <1>11, <1>12, <2>1, ConcatHead
  <2>3. /\ Stacked(s0) /\ ~On(s0, "hear")
        /\ "filesChanged" \in {"update", "reconstructed"} => On(s0, "release")
        /\ "filesChanged" = "listed" => On(s0, "filesChanged")
        /\ "filesChanged" = "begin" => Tally(s0, {"begin"}) < Tally(s0, ScopeEnds)
    BY <1>1, <1>19 DEF Grows
  <2>4. Stacked(s1) /\ Above(s1, "filesChanged", s0)
    BY <1>2, <2>2, <2>3, Pushed
  <2> QED BY <1>1, <1>19, <2>4 DEF Grows, Above, On, ScopeEnds, Holds
<1>21. Grows(s2, t, 0, 0, 0) /\ (On(s2, "finish") => On(t, "finish")) /\ On(s2, "filesChanged")
  <2>1. e2 \in Seq(Frames) /\ e2 # <<>> /\ "told" = Head(e2) /\ e1 = Tail(e2)
    BY <1>2, <1>4, <1>5
  <2>2. s2 = <<"told">> \o s1
    BY <1>1, <1>12, <1>13, <2>1, ConcatHead
  <2>3. /\ Stacked(s1) /\ ~On(s1, "hear")
        /\ "told" \in {"update", "reconstructed"} => On(s1, "release")
        /\ "told" = "listed" => On(s1, "filesChanged")
        /\ "told" = "begin" => Tally(s1, {"begin"}) < Tally(s1, ScopeEnds)
    BY <1>1, <1>20 DEF Grows
  <2>4. Stacked(s2) /\ Above(s2, "told", s1)
    BY <1>2, <2>2, <2>3, Pushed
  <2> QED BY <1>1, <1>20, <2>4 DEF Grows, Above, On, ScopeEnds, Holds
<1>22. Grows(s3, t, 0, 1, 0) /\ (On(s3, "finish") => On(t, "finish")) /\ On(s3, "filesChanged")
  <2>1. e3 \in Seq(Frames) /\ e3 # <<>> /\ "endAsking" = Head(e3) /\ e2 = Tail(e3)
    BY <1>2, <1>5, <1>6
  <2>2. s3 = <<"endAsking">> \o s2
    BY <1>1, <1>13, <1>14, <2>1, ConcatHead
  <2>3. /\ Stacked(s2) /\ ~On(s2, "hear")
        /\ "endAsking" \in {"update", "reconstructed"} => On(s2, "release")
        /\ "endAsking" = "listed" => On(s2, "filesChanged")
        /\ "endAsking" = "begin" => Tally(s2, {"begin"}) < Tally(s2, ScopeEnds)
    BY <1>1, <1>21 DEF Grows
  <2>4. Stacked(s3) /\ Above(s3, "endAsking", s2)
    BY <1>2, <2>2, <2>3, Pushed
  <2> QED BY <1>1, <1>21, <2>4 DEF Grows, Above, On, ScopeEnds, Holds
<1>23. Grows(s4, t, 0, 1, 0) /\ (On(s4, "finish") => On(t, "finish")) /\ On(s4, "filesChanged")
  <2>1. e4 \in Seq(Frames) /\ e4 # <<>> /\ "connect" = Head(e4) /\ e3 = Tail(e4)
    BY <1>2, <1>6, <1>7
  <2>2. s4 = <<"connect">> \o s3
    BY <1>1, <1>14, <1>15, <2>1, ConcatHead
  <2>3. /\ Stacked(s3) /\ ~On(s3, "hear")
        /\ "connect" \in {"update", "reconstructed"} => On(s3, "release")
        /\ "connect" = "listed" => On(s3, "filesChanged")
        /\ "connect" = "begin" => Tally(s3, {"begin"}) < Tally(s3, ScopeEnds)
    BY <1>1, <1>22 DEF Grows
  <2>4. Stacked(s4) /\ Above(s4, "connect", s3)
    BY <1>2, <2>2, <2>3, Pushed
  <2> QED BY <1>1, <1>22, <2>4 DEF Grows, Above, On, ScopeEnds, Holds
<1>24. Grows(s5, t, 1, 1, 0) /\ (On(s5, "finish") => On(t, "finish")) /\ On(s5, "filesChanged")
  <2>1. e5 \in Seq(Frames) /\ e5 # <<>> /\ "begin" = Head(e5) /\ e4 = Tail(e5)
    BY <1>2, <1>7, <1>8
  <2>2. s5 = <<"begin">> \o s4
    BY <1>1, <1>15, <1>16, <2>1, ConcatHead
  <2>3. /\ Stacked(s4) /\ ~On(s4, "hear")
        /\ "begin" \in {"update", "reconstructed"} => On(s4, "release")
        /\ "begin" = "listed" => On(s4, "filesChanged")
        /\ "begin" = "begin" => Tally(s4, {"begin"}) < Tally(s4, ScopeEnds)
    BY <1>1, <1>23 DEF Grows
  <2>4. Stacked(s5) /\ Above(s5, "begin", s4)
    BY <1>2, <2>2, <2>3, Pushed
  <2> QED BY <1>1, <1>23, <2>4 DEF Grows, Above, On, ScopeEnds, Holds
<1>25. Grows(s6, t, 1, 1, 0) /\ (On(s6, "finish") => On(t, "finish")) /\ On(s6, "filesChanged")
  <2>1. e6 \in Seq(Frames) /\ e6 # <<>> /\ "listed" = Head(e6) /\ e5 = Tail(e6)
    BY <1>2, <1>8, <1>9
  <2>2. s6 = <<"listed">> \o s5
    BY <1>1, <1>16, <1>17, <2>1, ConcatHead
  <2>3. /\ Stacked(s5) /\ ~On(s5, "hear")
        /\ "listed" \in {"update", "reconstructed"} => On(s5, "release")
        /\ "listed" = "listed" => On(s5, "filesChanged")
        /\ "listed" = "begin" => Tally(s5, {"begin"}) < Tally(s5, ScopeEnds)
    BY <1>1, <1>24 DEF Grows
  <2>4. Stacked(s6) /\ Above(s6, "listed", s5)
    BY <1>2, <2>2, <2>3, Pushed
  <2> QED BY <1>1, <1>24, <2>4 DEF Grows, Above, On, ScopeEnds, Holds
<1>26. Grows(s7, t, 1, 1, 0) /\ (On(s7, "finish") => On(t, "finish")) /\ On(s7, "filesChanged")
  <2>1. e7 \in Seq(Frames) /\ e7 # <<>> /\ "intoModel" = Head(e7) /\ e6 = Tail(e7)
    BY <1>2, <1>9, <1>10
  <2>2. s7 = <<"intoModel">> \o s6
    BY <1>1, <1>17, <1>18, <2>1, ConcatHead
  <2>3. /\ Stacked(s6) /\ ~On(s6, "hear")
        /\ "intoModel" \in {"update", "reconstructed"} => On(s6, "release")
        /\ "intoModel" = "listed" => On(s6, "filesChanged")
        /\ "intoModel" = "begin" => Tally(s6, {"begin"}) < Tally(s6, ScopeEnds)
    BY <1>1, <1>25 DEF Grows
  <2>4. Stacked(s7) /\ Above(s7, "intoModel", s6)
    BY <1>2, <2>2, <2>3, Pushed
  <2> QED BY <1>1, <1>25, <2>4 DEF Grows, Above, On, ScopeEnds, Holds
<1>27. s7 = <<"intoModel", "listed", "begin", "connect", "endAsking", "told", "filesChanged">> \o t
  BY <1>10, <1>18
<1> QED BY <1>26, <1>27

LEMMA FileRemoved ==
  ASSUME NEW t, Stacked(t), ~On(t, "hear")
  PROVE  \E s : s = <<"begin", "connect", "endAsking", "listed", "filesChanged", "storeModified">> \o t
              /\ Grows(s, t, 1, 1, 0) /\ (On(s, "finish") => On(t, "finish"))
<1>1. /\ t \in Seq(Frames) /\ Tally(t, {"begin"}) \in Nat /\ Tally(t, ScopeEnds) \in Nat
      /\ Tally(t, Holds) \in Nat /\ Tally(t, {"begin"}) <= Tally(t, ScopeEnds)
  BY Counted DEF Stacked
<1>2. "begin" \in Frames /\ "connect" \in Frames /\ "endAsking" \in Frames
      /\ "filesChanged" \in Frames /\ "listed" \in Frames /\ "storeModified" \in Frames
  BY DEF Frames, ClientFrames
<1>3. PICK e0 : e0 = <<>>
  OBVIOUS
<1>4. PICK e1 : e1 = <<"storeModified">>
  OBVIOUS
<1>5. PICK e2 : e2 = <<"filesChanged", "storeModified">>
  OBVIOUS
<1>6. PICK e3 : e3 = <<"listed", "filesChanged", "storeModified">>
  OBVIOUS
<1>7. PICK e4 : e4 = <<"endAsking", "listed", "filesChanged", "storeModified">>
  OBVIOUS
<1>8. PICK e5 : e5 = <<"connect", "endAsking", "listed", "filesChanged", "storeModified">>
  OBVIOUS
<1>9. PICK e6 : e6 = <<"begin", "connect", "endAsking", "listed", "filesChanged", "storeModified">>
  OBVIOUS
<1>10. PICK s0 : s0 = e0 \o t
  OBVIOUS
<1>11. PICK s1 : s1 = e1 \o t
  OBVIOUS
<1>12. PICK s2 : s2 = e2 \o t
  OBVIOUS
<1>13. PICK s3 : s3 = e3 \o t
  OBVIOUS
<1>14. PICK s4 : s4 = e4 \o t
  OBVIOUS
<1>15. PICK s5 : s5 = e5 \o t
  OBVIOUS
<1>16. PICK s6 : s6 = e6 \o t
  OBVIOUS
<1>17. Grows(s0, t, 0, 0, 0) /\ (On(s0, "finish") => On(t, "finish"))
  <2>1. s0 = t
    BY <1>1, <1>3, <1>10
  <2> QED BY <1>1, <2>1 DEF Grows
<1>18. Grows(s1, t, 0, 0, 0) /\ (On(s1, "finish") => On(t, "finish"))
  <2>1. e1 \in Seq(Frames) /\ e1 # <<>> /\ "storeModified" = Head(e1) /\ e0 = Tail(e1)
    BY <1>2, <1>3, <1>4
  <2>2. s1 = <<"storeModified">> \o s0
    BY <1>1, <1>10, <1>11, <2>1, ConcatHead
  <2>3. /\ Stacked(s0) /\ ~On(s0, "hear")
        /\ "storeModified" \in {"update", "reconstructed"} => On(s0, "release")
        /\ "storeModified" = "listed" => On(s0, "filesChanged")
        /\ "storeModified" = "begin" => Tally(s0, {"begin"}) < Tally(s0, ScopeEnds)
    BY <1>1, <1>17 DEF Grows
  <2>4. Stacked(s1) /\ Above(s1, "storeModified", s0)
    BY <1>2, <2>2, <2>3, Pushed
  <2> QED BY <1>1, <1>17, <2>4 DEF Grows, Above, On, ScopeEnds, Holds
<1>19. Grows(s2, t, 0, 0, 0) /\ (On(s2, "finish") => On(t, "finish")) /\ On(s2, "filesChanged")
  <2>1. e2 \in Seq(Frames) /\ e2 # <<>> /\ "filesChanged" = Head(e2) /\ e1 = Tail(e2)
    BY <1>2, <1>4, <1>5
  <2>2. s2 = <<"filesChanged">> \o s1
    BY <1>1, <1>11, <1>12, <2>1, ConcatHead
  <2>3. /\ Stacked(s1) /\ ~On(s1, "hear")
        /\ "filesChanged" \in {"update", "reconstructed"} => On(s1, "release")
        /\ "filesChanged" = "listed" => On(s1, "filesChanged")
        /\ "filesChanged" = "begin" => Tally(s1, {"begin"}) < Tally(s1, ScopeEnds)
    BY <1>1, <1>18 DEF Grows
  <2>4. Stacked(s2) /\ Above(s2, "filesChanged", s1)
    BY <1>2, <2>2, <2>3, Pushed
  <2> QED BY <1>1, <1>18, <2>4 DEF Grows, Above, On, ScopeEnds, Holds
<1>20. Grows(s3, t, 0, 0, 0) /\ (On(s3, "finish") => On(t, "finish")) /\ On(s3, "filesChanged")
  <2>1. e3 \in Seq(Frames) /\ e3 # <<>> /\ "listed" = Head(e3) /\ e2 = Tail(e3)
    BY <1>2, <1>5, <1>6
  <2>2. s3 = <<"listed">> \o s2
    BY <1>1, <1>12, <1>13, <2>1, ConcatHead
  <2>3. /\ Stacked(s2) /\ ~On(s2, "hear")
        /\ "listed" \in {"update", "reconstructed"} => On(s2, "release")
        /\ "listed" = "listed" => On(s2, "filesChanged")
        /\ "listed" = "begin" => Tally(s2, {"begin"}) < Tally(s2, ScopeEnds)
    BY <1>1, <1>19 DEF Grows
  <2>4. Stacked(s3) /\ Above(s3, "listed", s2)
    BY <1>2, <2>2, <2>3, Pushed
  <2> QED BY <1>1, <1>19, <2>4 DEF Grows, Above, On, ScopeEnds, Holds
<1>21. Grows(s4, t, 0, 1, 0) /\ (On(s4, "finish") => On(t, "finish")) /\ On(s4, "filesChanged")
  <2>1. e4 \in Seq(Frames) /\ e4 # <<>> /\ "endAsking" = Head(e4) /\ e3 = Tail(e4)
    BY <1>2, <1>6, <1>7
  <2>2. s4 = <<"endAsking">> \o s3
    BY <1>1, <1>13, <1>14, <2>1, ConcatHead
  <2>3. /\ Stacked(s3) /\ ~On(s3, "hear")
        /\ "endAsking" \in {"update", "reconstructed"} => On(s3, "release")
        /\ "endAsking" = "listed" => On(s3, "filesChanged")
        /\ "endAsking" = "begin" => Tally(s3, {"begin"}) < Tally(s3, ScopeEnds)
    BY <1>1, <1>20 DEF Grows
  <2>4. Stacked(s4) /\ Above(s4, "endAsking", s3)
    BY <1>2, <2>2, <2>3, Pushed
  <2> QED BY <1>1, <1>20, <2>4 DEF Grows, Above, On, ScopeEnds, Holds
<1>22. Grows(s5, t, 0, 1, 0) /\ (On(s5, "finish") => On(t, "finish")) /\ On(s5, "filesChanged")
  <2>1. e5 \in Seq(Frames) /\ e5 # <<>> /\ "connect" = Head(e5) /\ e4 = Tail(e5)
    BY <1>2, <1>7, <1>8
  <2>2. s5 = <<"connect">> \o s4
    BY <1>1, <1>14, <1>15, <2>1, ConcatHead
  <2>3. /\ Stacked(s4) /\ ~On(s4, "hear")
        /\ "connect" \in {"update", "reconstructed"} => On(s4, "release")
        /\ "connect" = "listed" => On(s4, "filesChanged")
        /\ "connect" = "begin" => Tally(s4, {"begin"}) < Tally(s4, ScopeEnds)
    BY <1>1, <1>21 DEF Grows
  <2>4. Stacked(s5) /\ Above(s5, "connect", s4)
    BY <1>2, <2>2, <2>3, Pushed
  <2> QED BY <1>1, <1>21, <2>4 DEF Grows, Above, On, ScopeEnds, Holds
<1>23. Grows(s6, t, 1, 1, 0) /\ (On(s6, "finish") => On(t, "finish")) /\ On(s6, "filesChanged")
  <2>1. e6 \in Seq(Frames) /\ e6 # <<>> /\ "begin" = Head(e6) /\ e5 = Tail(e6)
    BY <1>2, <1>8, <1>9
  <2>2. s6 = <<"begin">> \o s5
    BY <1>1, <1>15, <1>16, <2>1, ConcatHead
  <2>3. /\ Stacked(s5) /\ ~On(s5, "hear")
        /\ "begin" \in {"update", "reconstructed"} => On(s5, "release")
        /\ "begin" = "listed" => On(s5, "filesChanged")
        /\ "begin" = "begin" => Tally(s5, {"begin"}) < Tally(s5, ScopeEnds)
    BY <1>1, <1>22 DEF Grows
  <2>4. Stacked(s6) /\ Above(s6, "begin", s5)
    BY <1>2, <2>2, <2>3, Pushed
  <2> QED BY <1>1, <1>22, <2>4 DEF Grows, Above, On, ScopeEnds, Holds
<1>24. s6 = <<"begin", "connect", "endAsking", "listed", "filesChanged", "storeModified">> \o t
  BY <1>9, <1>16
<1> QED BY <1>23, <1>24

LEMMA Reconstructed ==
  ASSUME NEW t, Stacked(t), ~On(t, "hear")
  PROVE  \E s : s = <<"update", "reconstructed", "release", "finish">> \o t /\ Grows(s, t, 0, 0, 1) /\ On(s, "finish")
<1>1. /\ t \in Seq(Frames) /\ Tally(t, {"begin"}) \in Nat /\ Tally(t, ScopeEnds) \in Nat
      /\ Tally(t, Holds) \in Nat /\ Tally(t, {"begin"}) <= Tally(t, ScopeEnds)
  BY Counted DEF Stacked
<1>2. "finish" \in Frames /\ "reconstructed" \in Frames /\ "release" \in Frames /\ "update" \in Frames
  BY DEF Frames, ClientFrames
<1>3. PICK e0 : e0 = <<>>
  OBVIOUS
<1>4. PICK e1 : e1 = <<"finish">>
  OBVIOUS
<1>5. PICK e2 : e2 = <<"release", "finish">>
  OBVIOUS
<1>6. PICK e3 : e3 = <<"reconstructed", "release", "finish">>
  OBVIOUS
<1>7. PICK e4 : e4 = <<"update", "reconstructed", "release", "finish">>
  OBVIOUS
<1>8. PICK s0 : s0 = e0 \o t
  OBVIOUS
<1>9. PICK s1 : s1 = e1 \o t
  OBVIOUS
<1>10. PICK s2 : s2 = e2 \o t
  OBVIOUS
<1>11. PICK s3 : s3 = e3 \o t
  OBVIOUS
<1>12. PICK s4 : s4 = e4 \o t
  OBVIOUS
<1>13. Grows(s0, t, 0, 0, 0)
  <2>1. s0 = t
    BY <1>1, <1>3, <1>8
  <2> QED BY <1>1, <2>1 DEF Grows
<1>14. Grows(s1, t, 0, 0, 0) /\ On(s1, "finish")
  <2>1. e1 \in Seq(Frames) /\ e1 # <<>> /\ "finish" = Head(e1) /\ e0 = Tail(e1)
    BY <1>2, <1>3, <1>4
  <2>2. s1 = <<"finish">> \o s0
    BY <1>1, <1>8, <1>9, <2>1, ConcatHead
  <2>3. /\ Stacked(s0) /\ ~On(s0, "hear")
        /\ "finish" \in {"update", "reconstructed"} => On(s0, "release")
        /\ "finish" = "listed" => On(s0, "filesChanged")
        /\ "finish" = "begin" => Tally(s0, {"begin"}) < Tally(s0, ScopeEnds)
    BY <1>1, <1>13 DEF Grows
  <2>4. Stacked(s1) /\ Above(s1, "finish", s0)
    BY <1>2, <2>2, <2>3, Pushed
  <2> QED BY <1>1, <1>13, <2>4 DEF Grows, Above, On, ScopeEnds, Holds
<1>15. Grows(s2, t, 0, 0, 1) /\ On(s2, "finish") /\ On(s2, "release")
  <2>1. e2 \in Seq(Frames) /\ e2 # <<>> /\ "release" = Head(e2) /\ e1 = Tail(e2)
    BY <1>2, <1>4, <1>5
  <2>2. s2 = <<"release">> \o s1
    BY <1>1, <1>9, <1>10, <2>1, ConcatHead
  <2>3. /\ Stacked(s1) /\ ~On(s1, "hear")
        /\ "release" \in {"update", "reconstructed"} => On(s1, "release")
        /\ "release" = "listed" => On(s1, "filesChanged")
        /\ "release" = "begin" => Tally(s1, {"begin"}) < Tally(s1, ScopeEnds)
    BY <1>1, <1>14 DEF Grows
  <2>4. Stacked(s2) /\ Above(s2, "release", s1)
    BY <1>2, <2>2, <2>3, Pushed
  <2> QED BY <1>1, <1>14, <2>4 DEF Grows, Above, On, ScopeEnds, Holds
<1>16. Grows(s3, t, 0, 0, 1) /\ On(s3, "finish") /\ On(s3, "release")
  <2>1. e3 \in Seq(Frames) /\ e3 # <<>> /\ "reconstructed" = Head(e3) /\ e2 = Tail(e3)
    BY <1>2, <1>5, <1>6
  <2>2. s3 = <<"reconstructed">> \o s2
    BY <1>1, <1>10, <1>11, <2>1, ConcatHead
  <2>3. /\ Stacked(s2) /\ ~On(s2, "hear")
        /\ "reconstructed" \in {"update", "reconstructed"} => On(s2, "release")
        /\ "reconstructed" = "listed" => On(s2, "filesChanged")
        /\ "reconstructed" = "begin" => Tally(s2, {"begin"}) < Tally(s2, ScopeEnds)
    BY <1>1, <1>15 DEF Grows
  <2>4. Stacked(s3) /\ Above(s3, "reconstructed", s2)
    BY <1>2, <2>2, <2>3, Pushed
  <2> QED BY <1>1, <1>15, <2>4 DEF Grows, Above, On, ScopeEnds, Holds
<1>17. Grows(s4, t, 0, 0, 1) /\ On(s4, "finish") /\ On(s4, "release")
  <2>1. e4 \in Seq(Frames) /\ e4 # <<>> /\ "update" = Head(e4) /\ e3 = Tail(e4)
    BY <1>2, <1>6, <1>7
  <2>2. s4 = <<"update">> \o s3
    BY <1>1, <1>11, <1>12, <2>1, ConcatHead
  <2>3. /\ Stacked(s3) /\ ~On(s3, "hear")
        /\ "update" \in {"update", "reconstructed"} => On(s3, "release")
        /\ "update" = "listed" => On(s3, "filesChanged")
        /\ "update" = "begin" => Tally(s3, {"begin"}) < Tally(s3, ScopeEnds)
    BY <1>1, <1>16 DEF Grows
  <2>4. Stacked(s4) /\ Above(s4, "update", s3)
    BY <1>2, <2>2, <2>3, Pushed
  <2> QED BY <1>1, <1>16, <2>4 DEF Grows, Above, On, ScopeEnds, Holds
<1>18. s4 = <<"update", "reconstructed", "release", "finish">> \o t
  BY <1>7, <1>12
<1> QED BY <1>17, <1>18
-----------------------------------------------------------------------------
(* Modifying features, and adding and removing files. *)
LEMMA GuardedWithout ==
  ASSUME NEW t, NEW x \in {"guard", "release"}, On(t, x), ~On(t, "finish")
  PROVE  Guarded(t)
<1>1. PICK i \in DOMAIN t : t[i] = x
  BY DEF On, Elements
<1>2. \A j \in DOMAIN t : i < j => t[j] # "finish"
  BY DEF On, Elements
<1> QED BY <1>1, <1>2 DEF Guarded

LEMMA GuardedHolds ==
  ASSUME NEW t, Guarded(t)
  PROVE  On(t, "guard") \/ On(t, "release")
BY DEF Guarded, On, Elements

LEMMA ModifyFeaturesStep == ASSUME IInv, ModifyFeatures PROVE IInv'
<1>1. /\ MayModify /\ Start(IF guards = 0 THEN <<"hear", "storeModified">> ELSE <<>>)
      /\ pending' = (pending \/ guards > 0) /\ unheard' = TRUE
      /\ due' = due \cup {"features"} /\ sections' = Spoilt
      /\ UNCHANGED <<nesting, onExit, reconstructing, guards, outdated>>
  BY DEF ModifyFeatures, flags
<1>2. PICK e : e = IF guards = 0 THEN <<"hear", "storeModified">> ELSE <<>>
  OBVIOUS
<1>3. /\ Stacked(calls) /\ calls \in Seq(Frames) /\ ~On(calls, "hear")
      /\ calls' = e \o calls /\ ops' = ops + 1
      /\ Tally(calls, {"begin"}) \in Nat /\ Tally(calls, ScopeEnds) \in Nat /\ Tally(calls, Holds) \in Nat
  <2>1. Start(e)
    BY <1>1, <1>2
  <2> QED BY <2>1, ClientRuns
<1>4. \A x \in {"update", "finish", "announce", "settle"} : ~On(calls, x)
  BY <1>1, StackWhenModifying
<1>5. guards \in Nat /\ guards = Tally(calls, Holds)
  BY DEF IInv, CountsInv
<1>6. pending' \in BOOLEAN /\ (guards = 0 => pending' = pending) /\ (guards # 0 => pending')
  <2>1. (guards = 0 => ~(guards > 0)) /\ (guards # 0 => guards > 0)
    BY <1>5
  <2>2. pending \in BOOLEAN /\ pending' = (pending \/ guards > 0)
    BY <1>1 DEF IInv, FlagsInv
  <2> QED BY <2>1, <2>2, Zenon
<1>7. CASE guards = 0
  <2>1. calls' = <<"hear", "storeModified">> \o calls
    BY <1>2, <1>3, <1>7
  <2>2. Stacked(calls') /\ \E a : Above(calls', "hear", a) /\ Above(a, "storeModified", calls)
    <3>1. "hear" \in Frames /\ "storeModified" \in Frames
      BY DEF Frames
    <3> QED BY <1>3, <2>1, <3>1, PushedTwo
  <2>3. PICK a : Above(calls', "hear", a) /\ Above(a, "storeModified", calls)
    BY <2>2
  <2>4. /\ Elements(calls') = {"hear", "storeModified"} \cup Elements(calls)
        /\ Tally(calls', {"begin"}) = Tally(calls, {"begin"})
        /\ Tally(calls', ScopeEnds) = Tally(calls, ScopeEnds)
        /\ Tally(calls', Holds) = Tally(calls, Holds)
    BY <1>3, <2>3 DEF Above, ScopeEnds, Holds
  <2>5. CountsInv' /\ FlagsInv'
    <3>1. CountsInv'
      BY <1>1, <1>3, <2>4 DEF IInv, CountsInv
    <3>2. pending' => guards' > 0
      BY <1>1, <1>7, <1>6 DEF IInv, FlagsInv
    <3>3. reconstructing' => On(calls', "finish")
      BY <1>1, <2>4 DEF IInv, FlagsInv, On
    <3>4. /\ onExit' \in BOOLEAN /\ (onExit' => nesting' > 0) /\ reconstructing' \in BOOLEAN
          /\ unheard' \in BOOLEAN /\ outdated' \in BOOLEAN
      BY <1>1 DEF IInv, FlagsInv
    <3>5. ops' \in Nat
      BY <1>3 DEF IInv, FlagsInv
    <3> QED BY <1>6, <3>1, <3>2, <3>3, <3>4, <3>5 DEF FlagsInv
  <2>6. HeardInv'
    BY <1>4, <2>4 DEF HeardInv, On
  <2>7. DueInv' /\ SectionsInv'
    BY <1>1, <1>3, <1>7, <2>4 DEF IInv, FlagsInv, DueInv, SectionsInv, Spoilt, Requested, Kept, Keeps, On
  <2> QED BY <2>2, <2>5, <2>6, <2>7 DEF IInv
<1>8. CASE guards # 0
  <2>1. calls' = calls
    BY <1>2, <1>3, <1>8
  <2>2. Stacked(calls') /\ CountsInv' /\ FlagsInv'
    BY <1>1, <1>3, <1>5, <1>8, <2>1 DEF IInv, CountsInv, FlagsInv, On, ScopeEnds, Holds
  <2>3. PICK x \in {"guard", "release"} : On(calls, x)
    <3>1. \E x \in Elements(calls) : x \in Holds
      BY <1>3, <1>5, <1>8, Counted
    <3> QED BY <1>4, <3>1 DEF On, Holds
  <2>4. Guarded(calls) /\ Kept(calls)
    BY <1>3, <1>4, <2>3, GuardedWithout DEF Kept, Keeps
  <2>5. HeardInv'
    BY <1>4, <1>8, <1>6, <2>1, <2>4 DEF HeardInv
  <2>6. DueInv' /\ SectionsInv'
    BY <1>1, <1>3, <1>8, <1>6, <2>1, <2>4 DEF IInv, DueInv, SectionsInv, Spoilt, Requested
  <2> QED BY <2>2, <2>5, <2>6 DEF IInv
<1> QED BY <1>7, <1>8

LEMMA AddFilesStep == ASSUME IInv, AddFiles PROVE IInv'
<1>1. /\ Start(<<"intoModel", "listed", "begin", "connect", "endAsking", "told", "filesChanged">>)
      /\ UNCHANGED <<nesting, onExit, reconstructing, guards, pending, unheard, outdated, sections, due>>
  BY DEF AddFiles, flags, model
<1>2. /\ Stacked(calls) /\ ~On(calls, "hear") /\ ops' = ops + 1
      /\ calls' = <<"intoModel", "listed", "begin", "connect", "endAsking", "told", "filesChanged">> \o calls
      /\ Tally(calls, {"begin"}) \in Nat /\ Tally(calls, ScopeEnds) \in Nat /\ Tally(calls, Holds) \in Nat
  BY <1>1, ClientRuns
<1>3. Grows(calls', calls, 1, 1, 0) /\ (On(calls', "finish") => On(calls, "finish"))
  <2>1. PICK s : /\ s = <<"intoModel", "listed", "begin", "connect", "endAsking", "told", "filesChanged">> \o calls
                 /\ Grows(s, calls, 1, 1, 0) /\ (On(s, "finish") => On(calls, "finish"))
    BY <1>2, FilesAdded
  <2>2. s = calls'
    BY <1>2, <2>1
  <2>3. Grows(calls', calls, 1, 1, 0)
    BY <2>1, <2>2
  <2>4. On(calls', "finish") => On(calls, "finish")
    BY <2>1, <2>2 DEF On
  <2> QED BY <2>3, <2>4
<1>4. /\ Stacked(calls) /\ ~On(calls, "hear") /\ ops' = ops + 1
       /\ UNCHANGED <<nesting, onExit, reconstructing, guards, pending, unheard, outdated, sections, due>>
      /\ Tally(calls, {"begin"}) \in Nat /\ Tally(calls, ScopeEnds) \in Nat /\ Tally(calls, Holds) \in Nat
  BY <1>1, <1>2
<1>5. CountsInv' /\ FlagsInv'
  BY <1>3, <1>4 DEF IInv, CountsInv, FlagsInv, On, Grows
<1>6. HeardInv'
  BY <1>3, <1>4 DEF IInv, HeardInv, Grows
<1>7. DueInv' /\ SectionsInv'
  BY <1>3, <1>4 DEF IInv, DueInv, SectionsInv, Requested, Kept, Keeps, On, Grows
<1> QED BY <1>3, <1>5, <1>6, <1>7 DEF IInv, Grows

LEMMA RemoveFileStep == ASSUME IInv, RemoveFile PROVE IInv'
<1>1. /\ Start(<<"begin", "connect", "endAsking", "listed", "filesChanged", "storeModified">>)
      /\ UNCHANGED <<nesting, onExit, reconstructing, guards, pending, unheard, outdated, sections, due>>
  BY DEF RemoveFile, flags, model
<1>2. /\ Stacked(calls) /\ ~On(calls, "hear") /\ ops' = ops + 1
      /\ calls' = <<"begin", "connect", "endAsking", "listed", "filesChanged", "storeModified">> \o calls
      /\ Tally(calls, {"begin"}) \in Nat /\ Tally(calls, ScopeEnds) \in Nat /\ Tally(calls, Holds) \in Nat
  BY <1>1, ClientRuns
<1>3. Grows(calls', calls, 1, 1, 0) /\ (On(calls', "finish") => On(calls, "finish"))
  <2>1. PICK s : /\ s = <<"begin", "connect", "endAsking", "listed", "filesChanged", "storeModified">> \o calls
                 /\ Grows(s, calls, 1, 1, 0) /\ (On(s, "finish") => On(calls, "finish"))
    BY <1>2, FileRemoved
  <2>2. s = calls'
    BY <1>2, <2>1
  <2>3. Grows(calls', calls, 1, 1, 0)
    BY <2>1, <2>2
  <2>4. On(calls', "finish") => On(calls, "finish")
    BY <2>1, <2>2 DEF On
  <2> QED BY <2>3, <2>4
<1>4. /\ Stacked(calls) /\ ~On(calls, "hear") /\ ops' = ops + 1
       /\ UNCHANGED <<nesting, onExit, reconstructing, guards, pending, unheard, outdated, sections, due>>
      /\ Tally(calls, {"begin"}) \in Nat /\ Tally(calls, ScopeEnds) \in Nat /\ Tally(calls, Holds) \in Nat
  BY <1>1, <1>2
<1>5. CountsInv' /\ FlagsInv'
  BY <1>3, <1>4 DEF IInv, CountsInv, FlagsInv, On, Grows
<1>6. HeardInv'
  BY <1>3, <1>4 DEF IInv, HeardInv, Grows
<1>7. DueInv' /\ SectionsInv'
  BY <1>3, <1>4 DEF IInv, DueInv, SectionsInv, Requested, Kept, Keeps, On, Grows
<1> QED BY <1>3, <1>5, <1>6, <1>7 DEF IInv, Grows
-----------------------------------------------------------------------------
(* The calls that the machine makes: x runs, and t is what it leaves. *)
Runs(x, t) ==
  /\ Stacked(t) /\ t \in Seq(Frames) /\ Above(calls, x, t) /\ t = Tail(calls)
  /\ ~On(t, "hear")
  /\ x \in {"update", "reconstructed"} => On(t, "release")
  /\ x = "listed" => On(t, "filesChanged")
  /\ Tally(t, {"begin"}) \in Nat /\ Tally(t, ScopeEnds) \in Nat /\ Tally(t, Holds) \in Nat
  /\ Tally(t, {"begin"}) <= Tally(t, ScopeEnds)
  /\ Tally(t, Holds) = 0 <=> \A y \in Elements(t) : y \notin Holds

LEMMA Running ==
  ASSUME IInv, NEW x, Doing(x)
  PROVE  \E t : Runs(x, t)
<1>1. Stacked(calls) /\ calls # <<>> /\ Head(calls) = x /\ calls \in Seq(Frames)
  BY DEF IInv, Doing, Stacked
<1>2. PICK t : t = Tail(calls)
  OBVIOUS
<1>3. Stacked(t) /\ t \in Seq(Frames)
  BY <1>1, <1>2, Taken DEF Stacked
<1>4. /\ Tally(t, {"begin"}) \in Nat /\ Tally(t, ScopeEnds) \in Nat /\ Tally(t, Holds) \in Nat
      /\ Tally(t, {"begin"}) <= Tally(t, ScopeEnds)
      /\ Tally(t, Holds) = 0 <=> \A y \in Elements(t) : y \notin Holds
  BY <1>3, Counted
<1>5. /\ Above(calls, x, t) /\ ~On(t, "hear")
      /\ x \in {"update", "reconstructed"} => On(t, "release")
      /\ x = "listed" => On(t, "filesChanged")
  BY <1>1, <1>2, Taken
<1> QED BY <1>2, <1>3, <1>4, <1>5 DEF Runs

LEMMA Continuing ==
  ASSUME NEW x, NEW t, Runs(x, t)
  PROVE  /\ Continue(<<>>) => calls' = t /\ ops' = ops
         /\ \A y \in Frames : Continue(<<y>>) => calls' = <<y>> \o t /\ ops' = ops
         /\ \A y, z \in Frames : Continue(<<y, z>>) => calls' = <<y, z>> \o t /\ ops' = ops
BY DEF Runs, Continue

LEMMA CloseGuardStep == ASSUME IInv, CloseGuard PROVE IInv'
<1>1. Doing("guard") /\ Continue(<<"release">>)
  BY DEF CloseGuard, flags, model
<1>2. /\ UNCHANGED <<nesting, onExit, reconstructing, guards, pending, unheard, outdated, sections, due>>
  BY DEF CloseGuard, flags, model
<1>3. PICK t : Runs("guard", t)
  BY <1>1, Running
<1>4. "release" \in Frames
  BY DEF Frames, ClientFrames
<1>5. calls' = <<"release">> \o t /\ ops' = ops
  BY <1>1, <1>3, <1>4, Continuing
<1>6. ops' = ops
  BY <1>5
<1>7. "release" \in Frames
  BY <1>2, <1>3, <1>6, <1>5 DEF Frames, ClientFrames, Runs
<1>8. Stacked(calls') /\ Above(calls', "release", t)
  BY <1>2, <1>3, <1>6, <1>5, <1>7, Pushed DEF Runs
<1>9. CountsInv'
  BY <1>2, <1>3, <1>6, <1>8 DEF IInv, CountsInv, Above, ScopeEnds, Holds, Runs
<1>10. FlagsInv'
  BY <1>2, <1>3, <1>6, <1>8 DEF IInv, CountsInv, FlagsInv, On, Above, ScopeEnds, Holds, Runs
<1>11. HeardInv'
  BY <1>2, <1>3, <1>6, <1>8 DEF IInv, CountsInv, HeardInv, On, Above, Runs
<1>12. DueInv' /\ SectionsInv'
  BY <1>2, <1>3, <1>6, <1>8
     DEF IInv, CountsInv, FlagsInv, HeardInv, DueInv, SectionsInv, Requested, Kept, Keeps, On,
         Above, Runs, Spoilt
<1> QED BY <1>8, <1>9, <1>10, <1>11, <1>12 DEF IInv

LEMMA ConnectStep == ASSUME IInv, Connect PROVE IInv'
<1>1. Doing("connect") /\ Continue(<<"reconstruct", "told">>)
  BY DEF Connect, flags, model
<1>2. /\ due' = due \cup {"settings"} /\ outdated' = TRUE
      /\ UNCHANGED <<nesting, onExit, reconstructing, guards, pending, unheard, sections>>
  BY DEF Connect, flags, model
<1>3. PICK t : Runs("connect", t)
  BY <1>1, Running
<1>4. "reconstruct" \in Frames /\ "told" \in Frames
  BY DEF Frames, ClientFrames
<1>5. calls' = <<"reconstruct", "told">> \o t /\ ops' = ops
  BY <1>1, <1>3, <1>4, Continuing
<1>6. ops' = ops
  BY <1>5
<1>7. "reconstruct" \in Frames /\ "told" \in Frames
  BY <1>2, <1>3, <1>6, <1>5 DEF Frames, ClientFrames, Runs
<1>8. Stacked(t) /\ ~On(t, "hear")
  BY <1>2, <1>3, <1>6, <1>5 DEF Runs
<1>9. Stacked(calls') /\ \E a : Above(calls', "reconstruct", a) /\ Above(a, "told", t)
  BY <1>5, <1>7, <1>8, PushedTwo
<1>10. PICK a : Above(calls', "reconstruct", a) /\ Above(a, "told", t)
  BY <1>9
<1>11. /\ Elements(calls') = {"reconstruct", "told"} \cup Elements(t)
       /\ Tally(calls', {"begin"}) = Tally(t, {"begin"})
       /\ Tally(calls', ScopeEnds) = Tally(t, ScopeEnds)
       /\ Tally(calls', Holds) = Tally(t, Holds)
       /\ Guarded(t) => Guarded(calls')
  BY <1>2, <1>3, <1>6, <1>5, <1>10 DEF Above, ScopeEnds, Holds, Runs
<1>12. CountsInv'
  BY <1>2, <1>3, <1>6, <1>11 DEF IInv, CountsInv, Above, ScopeEnds, Holds, Runs
<1>13. FlagsInv'
  BY <1>2, <1>3, <1>6, <1>11 DEF IInv, CountsInv, FlagsInv, On, Above, ScopeEnds, Holds, Runs
<1>14. HeardInv'
  BY <1>2, <1>3, <1>6, <1>11 DEF IInv, CountsInv, HeardInv, On, Above, Runs
<1>15. DueInv' /\ SectionsInv'
  BY <1>2, <1>3, <1>6, <1>11
     DEF IInv, CountsInv, FlagsInv, HeardInv, DueInv, SectionsInv, Requested, Kept, Keeps, On,
         Above, Runs, Spoilt
<1> QED BY <1>9, <1>12, <1>13, <1>14, <1>15 DEF IInv

LEMMA BeginStep == ASSUME IInv, Begin PROVE IInv'
<1>1. Doing("begin") /\ Continue(<<>>)
  BY DEF Begin, flags, model
<1>2. /\ nesting' = nesting + 1
      /\ UNCHANGED <<onExit, reconstructing, guards, pending, unheard, outdated, sections, due>>
  BY DEF Begin, flags, model
<1>3. PICK t : Runs("begin", t)
  BY <1>1, Running
<1>4. calls' = t /\ ops' = ops
  BY <1>1, <1>3, Continuing
<1>5. ops' = ops
  BY <1>4
<1>6. calls' = t /\ Stacked(calls')
  BY <1>2, <1>3, <1>5, <1>4 DEF Runs
<1>7. CountsInv'
  BY <1>2, <1>3, <1>5, <1>4, <1>6 DEF IInv, CountsInv, Above, ScopeEnds, Holds, Runs
<1>8. FlagsInv'
  BY <1>2, <1>3, <1>5, <1>4, <1>6 DEF IInv, CountsInv, FlagsInv, On, Above, ScopeEnds, Holds, Runs
<1>9. HeardInv'
  BY <1>2, <1>3, <1>5, <1>4, <1>6 DEF IInv, CountsInv, HeardInv, On, Above, Runs
<1>10. DueInv' /\ SectionsInv'
  BY <1>2, <1>3, <1>5, <1>4, <1>6
     DEF IInv, CountsInv, FlagsInv, HeardInv, DueInv, SectionsInv, Requested, Kept, Keeps, On,
         Above, Runs, Spoilt
<1> QED BY <1>6, <1>7, <1>8, <1>9, <1>10 DEF IInv

LEMMA UpdatedStep == ASSUME IInv, Updated PROVE IInv'
<1>1. Doing("update") /\ Continue(<<>>)
  BY DEF Updated, flags, model
<1>2. /\ UNCHANGED <<nesting, onExit, reconstructing, guards, pending, unheard, outdated, sections, due>>
  BY DEF Updated, flags, model
<1>3. PICK t : Runs("update", t)
  BY <1>1, Running
<1>4. calls' = t /\ ops' = ops
  BY <1>1, <1>3, Continuing
<1>5. ops' = ops
  BY <1>4
<1>6. calls' = t /\ Stacked(calls')
  BY <1>2, <1>3, <1>5, <1>4 DEF Runs
<1>7. CountsInv'
  BY <1>2, <1>3, <1>5, <1>4, <1>6 DEF IInv, CountsInv, Above, ScopeEnds, Holds, Runs
<1>8. FlagsInv'
  BY <1>2, <1>3, <1>5, <1>4, <1>6 DEF IInv, CountsInv, FlagsInv, On, Above, ScopeEnds, Holds, Runs
<1>9. HeardInv'
  BY <1>2, <1>3, <1>5, <1>4, <1>6 DEF IInv, CountsInv, HeardInv, On, Above, Runs
<1>10. DueInv' /\ SectionsInv'
  BY <1>2, <1>3, <1>5, <1>4, <1>6
     DEF IInv, CountsInv, FlagsInv, HeardInv, DueInv, SectionsInv, Requested, Kept, Keeps, On,
         Above, Runs, Spoilt
<1> QED BY <1>6, <1>7, <1>8, <1>9, <1>10 DEF IInv

LEMMA FinishStep == ASSUME IInv, Finish PROVE IInv'
<1>1. Doing("finish") /\ Continue(<<>>)
  BY DEF Finish, model
<1>2. /\ reconstructing' = FALSE
      /\ UNCHANGED <<nesting, onExit, guards, pending, unheard, outdated, sections, due>>
  BY DEF Finish, model
<1>3. PICK t : Runs("finish", t)
  BY <1>1, Running
<1>4. calls' = t /\ ops' = ops
  BY <1>1, <1>3, Continuing
<1>5. ops' = ops
  BY <1>4
<1>6. calls' = t /\ Stacked(calls')
  BY <1>2, <1>3, <1>5, <1>4 DEF Runs
<1>7. CountsInv'
  BY <1>2, <1>3, <1>5, <1>4, <1>6 DEF IInv, CountsInv, Above, ScopeEnds, Holds, Runs
<1>8. FlagsInv'
  BY <1>2, <1>3, <1>5, <1>4, <1>6 DEF IInv, CountsInv, FlagsInv, On, Above, ScopeEnds, Holds, Runs
<1>9. HeardInv'
  BY <1>2, <1>3, <1>5, <1>4, <1>6 DEF IInv, CountsInv, HeardInv, On, Above, Runs
<1>10. DueInv' /\ SectionsInv'
  BY <1>2, <1>3, <1>5, <1>4, <1>6
     DEF IInv, CountsInv, FlagsInv, HeardInv, DueInv, SectionsInv, Requested, Kept, Keeps, On,
         Above, Runs, Spoilt
<1> QED BY <1>6, <1>7, <1>8, <1>9, <1>10 DEF IInv

LEMMA SettleStep == ASSUME IInv, Settle PROVE IInv'
<1>1. Doing("settle") /\ Continue(<<>>)
  BY DEF Settle, flags, model
<1>2. /\ pending' = FALSE /\ guards' = guards - 1
      /\ UNCHANGED <<nesting, onExit, reconstructing, unheard, outdated, sections, due>>
  BY DEF Settle, flags, model
<1>3. PICK t : Runs("settle", t)
  BY <1>1, Running
<1>4. calls' = t /\ ops' = ops
  BY <1>1, <1>3, Continuing
<1>5. ops' = ops
  BY <1>4
<1>6. calls' = t /\ Stacked(calls')
  BY <1>2, <1>3, <1>5, <1>4 DEF Runs
<1>7. CountsInv'
  BY <1>2, <1>3, <1>5, <1>4, <1>6 DEF IInv, CountsInv, Above, ScopeEnds, Holds, Runs
<1>8. FlagsInv'
  BY <1>2, <1>3, <1>5, <1>4, <1>6 DEF IInv, CountsInv, FlagsInv, On, Above, ScopeEnds, Holds, Runs
<1>9. HeardInv'
  BY <1>2, <1>3, <1>5, <1>4, <1>6 DEF IInv, CountsInv, HeardInv, On, Above, Runs
<1>10. DueInv' /\ SectionsInv'
  BY <1>2, <1>3, <1>5, <1>4, <1>6
     DEF IInv, CountsInv, FlagsInv, HeardInv, DueInv, SectionsInv, Requested, Kept, Keeps, On,
         Above, Runs, Spoilt
<1> QED BY <1>6, <1>7, <1>8, <1>9, <1>10 DEF IInv

LEMMA ListedStep == ASSUME IInv, Listed PROVE IInv'
<1>1. Doing("listed") /\ Continue(<<>>)
  BY DEF Listed, flags, model
<1>2. /\ sections' = Spoilt
      /\ UNCHANGED <<nesting, onExit, reconstructing, guards, pending, unheard, outdated, due>>
  BY DEF Listed, flags, model
<1>3. PICK t : Runs("listed", t)
  BY <1>1, Running
<1>4. calls' = t /\ ops' = ops
  BY <1>1, <1>3, Continuing
<1>5. ops' = ops
  BY <1>4
<1>6. calls' = t /\ Stacked(calls')
  BY <1>2, <1>3, <1>5, <1>4 DEF Runs
<1>7. CountsInv'
  BY <1>2, <1>3, <1>5, <1>4, <1>6 DEF IInv, CountsInv, Above, ScopeEnds, Holds, Runs
<1>8. FlagsInv'
  BY <1>2, <1>3, <1>5, <1>4, <1>6 DEF IInv, CountsInv, FlagsInv, On, Above, ScopeEnds, Holds, Runs
<1>9. HeardInv'
  BY <1>2, <1>3, <1>5, <1>4, <1>6 DEF IInv, CountsInv, HeardInv, On, Above, Runs
<1>10. DueInv' /\ SectionsInv'
  BY <1>2, <1>3, <1>5, <1>4, <1>6
     DEF IInv, CountsInv, FlagsInv, HeardInv, DueInv, SectionsInv, Requested, Kept, Keeps, On,
         Above, Runs, Spoilt
<1> QED BY <1>6, <1>7, <1>8, <1>9, <1>10 DEF IInv

LEMMA FilesChangedStep == ASSUME IInv, FilesChanged PROVE IInv'
<1>1. Doing("filesChanged") /\ Continue(<<>>)
  BY DEF FilesChanged, Reset, flags, model
<1>2. /\ sections' = "unknown"
      /\ UNCHANGED <<nesting, onExit, reconstructing, guards, pending, unheard, outdated, due>>
  BY DEF FilesChanged, Reset, flags, model
<1>3. PICK t : Runs("filesChanged", t)
  BY <1>1, Running
<1>4. calls' = t /\ ops' = ops
  BY <1>1, <1>3, Continuing
<1>5. ops' = ops
  BY <1>4
<1>6. calls' = t /\ Stacked(calls')
  BY <1>2, <1>3, <1>5, <1>4 DEF Runs
<1>7. CountsInv'
  BY <1>2, <1>3, <1>5, <1>4, <1>6 DEF IInv, CountsInv, Above, ScopeEnds, Holds, Runs
<1>8. FlagsInv'
  BY <1>2, <1>3, <1>5, <1>4, <1>6 DEF IInv, CountsInv, FlagsInv, On, Above, ScopeEnds, Holds, Runs
<1>9. HeardInv'
  BY <1>2, <1>3, <1>5, <1>4, <1>6 DEF IInv, CountsInv, HeardInv, On, Above, Runs
<1>10. DueInv' /\ SectionsInv'
  BY <1>2, <1>3, <1>5, <1>4, <1>6
     DEF IInv, CountsInv, FlagsInv, HeardInv, DueInv, SectionsInv, Requested, Kept, Keeps, On,
         Above, Runs, Spoilt
<1> QED BY <1>6, <1>7, <1>8, <1>9, <1>10 DEF IInv
-----------------------------------------------------------------------------
(* The calls that have more than one outcome. *)
LEMMA TwoInOne ==
  ASSUME NEW x \in Frames, NEW y \in Frames
  PROVE  <<x>> \o <<y>> = <<x, y>>
<1>1. PICK u : u = <<x>>
  OBVIOUS
<1>2. PICK v : v = <<y>>
  OBVIOUS
<1>3. PICK w : w = <<x, y>>
  OBVIOUS
<1>4. /\ u \in Seq(Frames) /\ Len(u) = 1 /\ u[1] = x
      /\ v \in Seq(Frames) /\ Len(v) = 1 /\ v[1] = y
      /\ w \in Seq(Frames) /\ Len(w) = 2 /\ w[1] = x /\ w[2] = y
  BY <1>1, <1>2, <1>3
<1>5. PICK r : r = u \o v
  OBVIOUS
<1>6. /\ r \in Seq(Frames) /\ Len(r) = Len(u) + Len(v)
      /\ \A i \in 1..(Len(u) + Len(v)) : r[i] = IF i <= Len(u) THEN u[i] ELSE v[i - Len(u)]
  BY <1>4, <1>5, ConcatAt
<1>7. \A i \in 1..2 : r[i] = w[i]
  BY <1>4, <1>6
<1>8. r = [i \in 1..Len(r) |-> r[i]] /\ w = [i \in 1..Len(w) |-> w[i]]
  BY <1>4, <1>6
<1>9. r = w
  BY <1>4, <1>6, <1>7, <1>8
<1> QED BY <1>1, <1>2, <1>3, <1>5, <1>9

LEMMA CloseScopeStep == ASSUME IInv, NEW ask \in BOOLEAN, CloseScope(ask) PROVE IInv'
<1>1. Doing("scope")
  BY DEF CloseScope
<1>2. PICK t : Runs("scope", t)
  BY <1>1, Running
<1>3. CASE ask
  <2>1. Continue(<<"endAsking">>)
    BY <1>1, <1>3 DEF CloseScope, flags, model
  <2>2. /\ UNCHANGED <<nesting, onExit, reconstructing, guards, pending, unheard, outdated, sections, due>>
    BY <1>3 DEF CloseScope, flags, model
  <2>3. "endAsking" \in Frames
    BY DEF Frames, ClientFrames
  <2>4. calls' = <<"endAsking">> \o t /\ ops' = ops
    BY <2>1, <1>2, <2>3, Continuing
  <2>5. ops' = ops
    BY <2>4
  <2>6. "endAsking" \in Frames
    BY <1>2, <1>3, <2>2, <2>5, <2>4 DEF Frames, ClientFrames, Runs
  <2>7. Stacked(calls') /\ Above(calls', "endAsking", t)
    BY <1>2, <1>3, <2>2, <2>5, <2>4, <2>6, Pushed DEF Runs
  <2>8. CountsInv'
    BY <1>2, <1>3, <2>2, <2>5, <2>7 DEF IInv, CountsInv, Above, ScopeEnds, Holds, Runs
  <2>9. FlagsInv'
    BY <1>2, <1>3, <2>2, <2>5, <2>7 DEF IInv, CountsInv, FlagsInv, On, Above, ScopeEnds, Holds, Runs
  <2>10. HeardInv'
    BY <1>2, <1>3, <2>2, <2>5, <2>7 DEF IInv, CountsInv, HeardInv, On, Above, Runs
  <2>11. DueInv' /\ SectionsInv'
    BY <1>2, <1>3, <2>2, <2>5, <2>7
       DEF IInv, CountsInv, FlagsInv, HeardInv, DueInv, SectionsInv, Requested, Kept, Keeps, On,
           Above, Runs, Spoilt
  <2> QED BY <2>7, <2>8, <2>9, <2>10, <2>11 DEF IInv
<1>4. CASE ~ask
  <2>1. Continue(<<"end">>)
    BY <1>1, <1>4 DEF CloseScope, flags, model
  <2>2. /\ UNCHANGED <<nesting, onExit, reconstructing, guards, pending, unheard, outdated, sections, due>>
    BY <1>4 DEF CloseScope, flags, model
  <2>3. "end" \in Frames
    BY DEF Frames, ClientFrames
  <2>4. calls' = <<"end">> \o t /\ ops' = ops
    BY <2>1, <1>2, <2>3, Continuing
  <2>5. ops' = ops
    BY <2>4
  <2>6. "end" \in Frames
    BY <1>2, <1>4, <2>2, <2>5, <2>4 DEF Frames, ClientFrames, Runs
  <2>7. Stacked(calls') /\ Above(calls', "end", t)
    BY <1>2, <1>4, <2>2, <2>5, <2>4, <2>6, Pushed DEF Runs
  <2>8. CountsInv'
    BY <1>2, <1>4, <2>2, <2>5, <2>7 DEF IInv, CountsInv, Above, ScopeEnds, Holds, Runs
  <2>9. FlagsInv'
    BY <1>2, <1>4, <2>2, <2>5, <2>7 DEF IInv, CountsInv, FlagsInv, On, Above, ScopeEnds, Holds, Runs
  <2>10. HeardInv'
    BY <1>2, <1>4, <2>2, <2>5, <2>7 DEF IInv, CountsInv, HeardInv, On, Above, Runs
  <2>11. DueInv' /\ SectionsInv'
    BY <1>2, <1>4, <2>2, <2>5, <2>7
       DEF IInv, CountsInv, FlagsInv, HeardInv, DueInv, SectionsInv, Requested, Kept, Keeps, On,
           Above, Runs, Spoilt
  <2> QED BY <2>7, <2>8, <2>9, <2>10, <2>11 DEF IInv
<1> QED BY <1>3, <1>4

LEMMA HearStep == ASSUME IInv, Hear PROVE IInv'
<1>1. Doing("hear")
  BY DEF Hear
<1>2. PICK t : Runs("hear", t)
  BY <1>1, Running
<1>3. CASE Continue(<<>>)
  <2>1. Continue(<<>>)
    BY <1>1, <1>3 DEF Hear, flags, model
  <2>2. /\ unheard' = FALSE /\ outdated' = TRUE
        /\ UNCHANGED <<nesting, onExit, reconstructing, guards, pending, sections, due>>
    BY <1>3 DEF Hear, flags, model
  <2>3. calls' = t /\ ops' = ops
    BY <2>1, <1>2, Continuing
  <2>4. ops' = ops
    BY <2>3
  <2>5. unheard => ~On(t, "finish")
    BY <1>3, <2>2, <1>2 DEF Runs, Above, On, IInv, HeardInv
  <2>6. calls' = t /\ Stacked(calls')
    BY <1>2, <1>3, <2>2, <2>5, <2>4, <2>3 DEF Runs
  <2>7. CountsInv'
    BY <1>2, <1>3, <2>2, <2>4, <2>3, <2>6 DEF IInv, CountsInv, Above, ScopeEnds, Holds, Runs
  <2>8. FlagsInv'
    BY <1>2, <1>3, <2>2, <2>5, <2>4, <2>3, <2>6
       DEF IInv, CountsInv, FlagsInv, On, Above, ScopeEnds, Holds, Runs
  <2>9. HeardInv'
    BY <1>2, <1>3, <2>2, <2>5, <2>4, <2>3, <2>6 DEF IInv, CountsInv, HeardInv, On, Above, Runs
  <2>10. DueInv' /\ SectionsInv'
    BY <1>2, <1>3, <2>2, <2>5, <2>4, <2>3, <2>6
       DEF IInv, CountsInv, FlagsInv, HeardInv, DueInv, SectionsInv, Requested, Kept, Keeps, On,
           Above, Runs, Spoilt
  <2> QED BY <2>6, <2>7, <2>8, <2>9, <2>10 DEF IInv
<1>4. CASE Continue(<<"connect">>)
  <2>1. Continue(<<"connect">>)
    BY <1>1, <1>4 DEF Hear, flags, model
  <2>2. /\ unheard' = FALSE /\ outdated' = TRUE
        /\ UNCHANGED <<nesting, onExit, reconstructing, guards, pending, sections, due>>
    BY <1>4 DEF Hear, flags, model
  <2>3. "connect" \in Frames
    BY DEF Frames, ClientFrames
  <2>4. calls' = <<"connect">> \o t /\ ops' = ops
    BY <2>1, <1>2, <2>3, Continuing
  <2>5. ops' = ops
    BY <2>4
  <2>6. unheard => ~On(t, "finish")
    BY <1>4, <2>2, <1>2 DEF Runs, Above, On, IInv, HeardInv
  <2>7. "connect" \in Frames
    BY <1>2, <1>4, <2>2, <2>6, <2>5, <2>4 DEF Frames, ClientFrames, Runs
  <2>8. Stacked(calls') /\ Above(calls', "connect", t)
    BY <1>2, <1>4, <2>2, <2>6, <2>5, <2>4, <2>7, Pushed DEF Runs
  <2>9. CountsInv'
    BY <1>2, <1>4, <2>2, <2>5, <2>8 DEF IInv, CountsInv, Above, ScopeEnds, Holds, Runs
  <2>10. FlagsInv'
    BY <1>2, <1>4, <2>2, <2>6, <2>5, <2>8 DEF IInv, CountsInv, FlagsInv, On, Above, ScopeEnds, Holds, Runs
  <2>11. HeardInv'
    BY <1>2, <1>4, <2>2, <2>6, <2>5, <2>8 DEF IInv, CountsInv, HeardInv, On, Above, Runs
  <2>12. DueInv' /\ SectionsInv'
    BY <1>2, <1>4, <2>2, <2>6, <2>5, <2>8
       DEF IInv, CountsInv, FlagsInv, HeardInv, DueInv, SectionsInv, Requested, Kept, Keeps, On,
           Above, Runs, Spoilt
  <2> QED BY <2>8, <2>9, <2>10, <2>11, <2>12 DEF IInv
<1> QED BY <1>3, <1>4 DEF Hear

LEMMA AnnounceStep == ASSUME IInv, Announce PROVE IInv'
<1>1. Doing("announce")
  BY DEF Announce
<1>2. PICK t : Runs("announce", t)
  BY <1>1, Running
<1>3. CASE pending
  <2>1. Continue(<<"storeModified", "settle">>)
    BY <1>1, <1>3 DEF Announce, flags, model
  <2>2. /\ UNCHANGED <<nesting, onExit, reconstructing, guards, pending, unheard, outdated, sections, due>>
    BY <1>3 DEF Announce, flags, model
  <2>3. "storeModified" \in Frames /\ "settle" \in Frames
    BY DEF Frames, ClientFrames
  <2>4. calls' = <<"storeModified", "settle">> \o t /\ ops' = ops
    BY <2>1, <1>2, <2>3, Continuing
  <2>5. ops' = ops
    BY <2>4
  <2>6. "storeModified" \in Frames /\ "settle" \in Frames
    BY <1>2, <1>3, <2>2, <2>5, <2>4 DEF Frames, ClientFrames, Runs
  <2>7. Stacked(t) /\ ~On(t, "hear")
    BY <1>2, <1>3, <2>2, <2>5, <2>4 DEF Runs
  <2>8. Stacked(calls') /\ \E a : Above(calls', "storeModified", a) /\ Above(a, "settle", t)
    BY <2>4, <2>6, <2>7, PushedTwo
  <2>9. PICK a : Above(calls', "storeModified", a) /\ Above(a, "settle", t)
    BY <2>8
  <2>10. /\ Elements(calls') = {"storeModified", "settle"} \cup Elements(t)
         /\ Tally(calls', {"begin"}) = Tally(t, {"begin"})
         /\ Tally(calls', ScopeEnds) = Tally(t, ScopeEnds)
         /\ Tally(calls', Holds) = Tally(t, Holds) + 1
         /\ Guarded(t) => Guarded(calls')
    BY <1>2, <1>3, <2>2, <2>5, <2>4, <2>9 DEF Above, ScopeEnds, Holds, Runs
  <2>11. CountsInv'
    BY <1>2, <1>3, <2>2, <2>5, <2>10 DEF IInv, CountsInv, Above, ScopeEnds, Holds, Runs
  <2>12. FlagsInv'
    BY <1>2, <1>3, <2>2, <2>5, <2>10 DEF IInv, CountsInv, FlagsInv, On, Above, ScopeEnds, Holds, Runs
  <2>13. HeardInv'
    BY <1>2, <1>3, <2>2, <2>5, <2>10 DEF IInv, CountsInv, HeardInv, On, Above, Runs
  <2>14. DueInv' /\ SectionsInv'
    BY <1>2, <1>3, <2>2, <2>5, <2>10
       DEF IInv, CountsInv, FlagsInv, HeardInv, DueInv, SectionsInv, Requested, Kept, Keeps, On,
           Above, Runs, Spoilt
  <2> QED BY <2>8, <2>11, <2>12, <2>13, <2>14 DEF IInv
<1>4. CASE ~pending
  <2>1. Continue(<<"settle">>)
    BY <1>1, <1>4 DEF Announce, flags, model
  <2>2. /\ UNCHANGED <<nesting, onExit, reconstructing, guards, pending, unheard, outdated, sections, due>>
    BY <1>4 DEF Announce, flags, model
  <2>3. "settle" \in Frames
    BY DEF Frames, ClientFrames
  <2>4. calls' = <<"settle">> \o t /\ ops' = ops
    BY <2>1, <1>2, <2>3, Continuing
  <2>5. ops' = ops
    BY <2>4
  <2>6. "settle" \in Frames
    BY <1>2, <1>4, <2>2, <2>5, <2>4 DEF Frames, ClientFrames, Runs
  <2>7. Stacked(calls') /\ Above(calls', "settle", t)
    BY <1>2, <1>4, <2>2, <2>5, <2>4, <2>6, Pushed DEF Runs
  <2>8. CountsInv'
    BY <1>2, <1>4, <2>2, <2>5, <2>7 DEF IInv, CountsInv, Above, ScopeEnds, Holds, Runs
  <2>9. FlagsInv'
    BY <1>2, <1>4, <2>2, <2>5, <2>7 DEF IInv, CountsInv, FlagsInv, On, Above, ScopeEnds, Holds, Runs
  <2>10. HeardInv'
    BY <1>2, <1>4, <2>2, <2>5, <2>7 DEF IInv, CountsInv, HeardInv, On, Above, Runs
  <2>11. DueInv' /\ SectionsInv'
    BY <1>2, <1>4, <2>2, <2>5, <2>7
       DEF IInv, CountsInv, FlagsInv, HeardInv, DueInv, SectionsInv, Requested, Kept, Keeps, On,
           Above, Runs, Spoilt
  <2> QED BY <2>7, <2>8, <2>9, <2>10, <2>11 DEF IInv
<1> QED BY <1>3, <1>4

LEMMA IntoModelStep == ASSUME IInv, IntoModel PROVE IInv'
<1>1. Doing("intoModel")
  BY DEF IntoModel
<1>2. PICK t : Runs("intoModel", t)
  BY <1>1, Running
<1>3. CASE guards = 0
  <2>1. Continue(<<"storeModified">>)
    BY <1>1, <1>3 DEF IntoModel, flags, model
  <2>2. /\ UNCHANGED <<nesting, onExit, reconstructing, guards, pending, unheard, outdated, sections, due>>
    BY <1>3 DEF IntoModel, flags, model
  <2>3. "storeModified" \in Frames
    BY DEF Frames, ClientFrames
  <2>4. calls' = <<"storeModified">> \o t /\ ops' = ops
    BY <2>1, <1>2, <2>3, Continuing
  <2>5. ops' = ops
    BY <2>4
  <2>6. "storeModified" \in Frames
    BY <1>2, <1>3, <2>2, <2>5, <2>4 DEF Frames, ClientFrames, Runs
  <2>7. Stacked(calls') /\ Above(calls', "storeModified", t)
    BY <1>2, <1>3, <2>2, <2>5, <2>4, <2>6, Pushed DEF Runs
  <2>8. CountsInv'
    BY <1>2, <1>3, <2>2, <2>5, <2>7 DEF IInv, CountsInv, Above, ScopeEnds, Holds, Runs
  <2>9. FlagsInv'
    BY <1>2, <1>3, <2>2, <2>5, <2>7 DEF IInv, CountsInv, FlagsInv, On, Above, ScopeEnds, Holds, Runs
  <2>10. HeardInv'
    BY <1>2, <1>3, <2>2, <2>5, <2>7 DEF IInv, CountsInv, HeardInv, On, Above, Runs
  <2>11. DueInv' /\ SectionsInv'
    BY <1>2, <1>3, <2>2, <2>5, <2>7
       DEF IInv, CountsInv, FlagsInv, HeardInv, DueInv, SectionsInv, Requested, Kept, Keeps, On,
           Above, Runs, Spoilt
  <2> QED BY <2>7, <2>8, <2>9, <2>10, <2>11 DEF IInv
<1>4. CASE guards # 0
  <2>1. Continue(<<>>)
    BY <1>1, <1>4 DEF IntoModel, flags, model
  <2>2. /\ pending' = TRUE
        /\ UNCHANGED <<nesting, onExit, reconstructing, guards, unheard, outdated, sections, due>>
    BY <1>4 DEF IntoModel, flags, model
  <2>3. calls' = t /\ ops' = ops
    BY <2>1, <1>2, Continuing
  <2>4. ops' = ops
    BY <2>3
  <2>5. calls' = t /\ Stacked(calls')
    BY <1>2, <1>4, <2>2, <2>4, <2>3 DEF Runs
  <2>6. CountsInv'
    BY <1>2, <1>4, <2>2, <2>4, <2>3, <2>5 DEF IInv, CountsInv, Above, ScopeEnds, Holds, Runs
  <2>7. FlagsInv'
    BY <1>2, <1>4, <2>2, <2>4, <2>3, <2>5 DEF IInv, CountsInv, FlagsInv, On, Above, ScopeEnds, Holds, Runs
  <2>8. HeardInv'
    BY <1>2, <1>4, <2>2, <2>4, <2>3, <2>5 DEF IInv, CountsInv, HeardInv, On, Above, Runs
  <2>9. DueInv' /\ SectionsInv'
    BY <1>2, <1>4, <2>2, <2>4, <2>3, <2>5
       DEF IInv, CountsInv, FlagsInv, HeardInv, DueInv, SectionsInv, Requested, Kept, Keeps, On,
           Above, Runs, Spoilt
  <2> QED BY <2>5, <2>6, <2>7, <2>8, <2>9 DEF IInv
<1> QED BY <1>3, <1>4

LEMMA StoreModifiedStep == ASSUME IInv, StoreModified PROVE IInv'
<1>1. Doing("storeModified")
  BY DEF StoreModified
<1>2. PICK t : Runs("storeModified", t)
  BY <1>1, Running
<1>3. CASE ~reconstructing
  <2>1. Continue(<<"reconstruct">>)
    BY <1>1, <1>3 DEF StoreModified, Reset, Answered, flags, model
  <2>2. /\ sections' = "unknown"
        /\ UNCHANGED <<nesting, onExit, reconstructing, guards, pending, unheard, outdated, due>>
    BY <1>3 DEF StoreModified, Reset, Answered, flags, model
  <2>3. "reconstruct" \in Frames
    BY DEF Frames, ClientFrames
  <2>4. calls' = <<"reconstruct">> \o t /\ ops' = ops
    BY <2>1, <1>2, <2>3, Continuing
  <2>5. ops' = ops
    BY <2>4
  <2>6. "reconstruct" \in Frames
    BY <1>2, <1>3, <2>2, <2>5, <2>4 DEF Frames, ClientFrames, Runs
  <2>7. Stacked(calls') /\ Above(calls', "reconstruct", t)
    BY <1>2, <1>3, <2>2, <2>5, <2>4, <2>6, Pushed DEF Runs
  <2>8. CountsInv'
    BY <1>2, <1>3, <2>2, <2>5, <2>7 DEF IInv, CountsInv, Above, ScopeEnds, Holds, Runs
  <2>9. FlagsInv'
    BY <1>2, <1>3, <2>2, <2>5, <2>7 DEF IInv, CountsInv, FlagsInv, On, Above, ScopeEnds, Holds, Runs
  <2>10. HeardInv'
    BY <1>2, <1>3, <2>2, <2>5, <2>7 DEF IInv, CountsInv, HeardInv, On, Above, Runs
  <2>11. DueInv' /\ SectionsInv'
    BY <1>2, <1>3, <2>2, <2>5, <2>7
       DEF IInv, CountsInv, FlagsInv, HeardInv, DueInv, SectionsInv, Requested, Kept, Keeps, On,
           Above, Runs, Spoilt
  <2> QED BY <2>7, <2>8, <2>9, <2>10, <2>11 DEF IInv
<1>4. CASE reconstructing
  <2>1. Continue(<<>>)
    BY <1>1, <1>4 DEF StoreModified, Reset, Answered, flags, model
  <2>2. /\ sections' = "unknown"
        /\ UNCHANGED <<nesting, onExit, reconstructing, guards, pending, unheard, outdated, due>>
    BY <1>4 DEF StoreModified, Reset, Answered, flags, model
  <2>3. calls' = t /\ ops' = ops
    BY <2>1, <1>2, Continuing
  <2>4. ops' = ops
    BY <2>3
  <2>5. unheard => \E y \in {"guard", "release"} : On(t, y)
    BY <1>4, <2>2, <1>2, GuardedHolds DEF IInv, HeardInv, Runs, Above, On
  <2>6. calls' = t /\ Stacked(calls')
    BY <1>2, <1>4, <2>2, <2>5, <2>4, <2>3 DEF Runs
  <2>7. CountsInv'
    BY <1>2, <1>4, <2>2, <2>4, <2>3, <2>6 DEF IInv, CountsInv, Above, ScopeEnds, Holds, Runs
  <2>8. FlagsInv'
    BY <1>2, <1>4, <2>2, <2>5, <2>4, <2>3, <2>6
       DEF IInv, CountsInv, FlagsInv, On, Above, ScopeEnds, Holds, Runs
  <2>9. HeardInv'
    BY <1>2, <1>4, <2>2, <2>5, <2>4, <2>3, <2>6 DEF IInv, CountsInv, HeardInv, On, Above, Runs
  <2>10. DueInv' /\ SectionsInv'
    BY <1>2, <1>4, <2>2, <2>5, <2>4, <2>3, <2>6
       DEF IInv, CountsInv, FlagsInv, HeardInv, DueInv, SectionsInv, Requested, Kept, Keeps, On,
           Above, Runs, Spoilt
  <2> QED BY <2>6, <2>7, <2>8, <2>9, <2>10 DEF IInv
<1> QED BY <1>3, <1>4

LEMMA EndAskingStep == ASSUME IInv, End(TRUE) PROVE IInv'
<1>1. Doing("endAsking")
  BY DEF End
<1>2. PICK t : Runs("endAsking", t)
  BY <1>1, Running
<1>3. CASE nesting = 1 /\ AnyAsked(TRUE)
  <2>1. Continue(<<"reconstruct">>)
    BY <1>1, <1>3 DEF End, flags, model
  <2>2. /\ nesting' = nesting - 1 /\ onExit' = FALSE
        /\ UNCHANGED <<reconstructing, guards, pending, unheard, outdated, sections, due>>
    BY <1>3 DEF End, flags, model
  <2>3. "reconstruct" \in Frames
    BY DEF Frames, ClientFrames
  <2>4. calls' = <<"reconstruct">> \o t /\ ops' = ops
    BY <2>1, <1>2, <2>3, Continuing
  <2>5. ops' = ops
    BY <2>4
  <2>6. "reconstruct" \in Frames
    BY <1>2, <1>3, <2>2, <2>5, <2>4 DEF Frames, ClientFrames, Runs
  <2>7. Stacked(calls') /\ Above(calls', "reconstruct", t)
    BY <1>2, <1>3, <2>2, <2>5, <2>4, <2>6, Pushed DEF Runs
  <2>8. CountsInv'
    BY <1>2, <1>3, <2>2, <2>5, <2>7 DEF IInv, CountsInv, Above, ScopeEnds, Holds, Runs
  <2>9. FlagsInv'
    BY <1>2, <1>3, <2>2, <2>5, <2>7 DEF IInv, CountsInv, FlagsInv, On, Above, ScopeEnds, Holds, Runs
  <2>10. HeardInv'
    BY <1>2, <1>3, <2>2, <2>5, <2>7 DEF IInv, CountsInv, HeardInv, On, Above, Runs
  <2>11. DueInv' /\ SectionsInv'
    BY <1>2, <1>3, <2>2, <2>5, <2>7
       DEF IInv, CountsInv, FlagsInv, HeardInv, DueInv, SectionsInv, Requested, Kept, Keeps, On,
           Above, Runs, Spoilt
  <2> QED BY <2>7, <2>8, <2>9, <2>10, <2>11 DEF IInv
<1>4. CASE ~(nesting = 1 /\ AnyAsked(TRUE))
  <2>1. Continue(<<>>)
    BY <1>1, <1>4 DEF End, flags, model
  <2>2. /\ nesting' = nesting - 1 /\ onExit' = AnyAsked(TRUE)
        /\ UNCHANGED <<reconstructing, guards, pending, unheard, outdated, sections, due>>
    BY <1>4 DEF End, flags, model
  <2>3. calls' = t /\ ops' = ops
    BY <2>1, <1>2, Continuing
  <2>4. ops' = ops
    BY <2>3
  <2>5. nesting' = nesting - 1 /\ guards' = guards
    BY <1>4, <2>2, SMT
  <2>6. nesting = 1 => ~onExit'
    BY <1>4, <2>2, Zenon
  <2>7. onExit' \in BOOLEAN /\ (onExit => onExit')
    BY <1>4, <2>2, IInv DEF AnyAsked, IInv, FlagsInv
  <2>8. nesting \in Nat /\ nesting >= 1
    BY <1>4, <2>2, <1>2 DEF IInv, CountsInv, Runs, Above, ScopeEnds
  <2>9. nesting # 1 => nesting' > 0
    BY <1>4, <2>2, <2>8, SMT
  <2>10. onExit' => nesting' > 0
    BY <1>4, <2>2, <2>6, <2>9, Zenon
  <2>11. nesting + Tally(t, {"begin"}) = Tally(t, ScopeEnds) + 1 /\ guards = Tally(t, Holds)
    BY <1>4, <2>2, <1>2 DEF IInv, CountsInv, Runs, Above, ScopeEnds, Holds
  <2>12. calls' = t /\ Stacked(calls')
    BY <1>2, <1>4, <2>2, <2>5, <2>6, <2>7, <2>8, <2>9, <2>10, <2>11, <2>4, <2>3 DEF Runs
  <2>13. CountsInv'
    BY <1>2, <2>5, <2>8, <2>11, <2>12 DEF CountsInv, Runs, IInv
  <2>14. FlagsInv'
    BY <1>2, <1>4, <2>2, <2>5, <2>6, <2>7, <2>8, <2>9, <2>10, <2>11, <2>4, <2>3, <2>12
       DEF IInv, CountsInv, FlagsInv, On, Above, ScopeEnds, Holds, Runs
  <2>15. HeardInv'
    BY <1>2, <1>4, <2>2, <2>5, <2>6, <2>7, <2>8, <2>9, <2>10, <2>11, <2>4, <2>3, <2>12
       DEF IInv, CountsInv, HeardInv, On, Above, Runs
  <2>16. DueInv' /\ SectionsInv'
    BY <1>2, <1>4, <2>2, <2>5, <2>6, <2>7, <2>8, <2>9, <2>10, <2>11, <2>4, <2>3, <2>12
       DEF IInv, CountsInv, FlagsInv, HeardInv, DueInv, SectionsInv, Requested, Kept, Keeps, On,
           Above, Runs, Spoilt
  <2> QED BY <2>12, <2>13, <2>14, <2>15, <2>16 DEF IInv
<1> QED BY <1>3, <1>4

LEMMA EndSilentlyStep == ASSUME IInv, End(FALSE) PROVE IInv'
<1>1. Doing("end")
  BY DEF End
<1>2. PICK t : Runs("end", t)
  BY <1>1, Running
<1>3. CASE nesting = 1 /\ AnyAsked(FALSE)
  <2>1. Continue(<<"reconstruct">>)
    BY <1>1, <1>3 DEF End, flags, model
  <2>2. /\ nesting' = nesting - 1 /\ onExit' = FALSE
        /\ UNCHANGED <<reconstructing, guards, pending, unheard, outdated, sections, due>>
    BY <1>3 DEF End, flags, model
  <2>3. "reconstruct" \in Frames
    BY DEF Frames, ClientFrames
  <2>4. calls' = <<"reconstruct">> \o t /\ ops' = ops
    BY <2>1, <1>2, <2>3, Continuing
  <2>5. ops' = ops
    BY <2>4
  <2>6. "reconstruct" \in Frames
    BY <1>2, <1>3, <2>2, <2>5, <2>4 DEF Frames, ClientFrames, Runs
  <2>7. Stacked(calls') /\ Above(calls', "reconstruct", t)
    BY <1>2, <1>3, <2>2, <2>5, <2>4, <2>6, Pushed DEF Runs
  <2>8. CountsInv'
    BY <1>2, <1>3, <2>2, <2>5, <2>7 DEF IInv, CountsInv, Above, ScopeEnds, Holds, Runs
  <2>9. FlagsInv'
    BY <1>2, <1>3, <2>2, <2>5, <2>7 DEF IInv, CountsInv, FlagsInv, On, Above, ScopeEnds, Holds, Runs
  <2>10. HeardInv'
    BY <1>2, <1>3, <2>2, <2>5, <2>7 DEF IInv, CountsInv, HeardInv, On, Above, Runs
  <2>11. DueInv' /\ SectionsInv'
    BY <1>2, <1>3, <2>2, <2>5, <2>7
       DEF IInv, CountsInv, FlagsInv, HeardInv, DueInv, SectionsInv, Requested, Kept, Keeps, On,
           Above, Runs, Spoilt
  <2> QED BY <2>7, <2>8, <2>9, <2>10, <2>11 DEF IInv
<1>4. CASE ~(nesting = 1 /\ AnyAsked(FALSE))
  <2>1. Continue(<<>>)
    BY <1>1, <1>4 DEF End, flags, model
  <2>2. /\ nesting' = nesting - 1 /\ onExit' = AnyAsked(FALSE)
        /\ UNCHANGED <<reconstructing, guards, pending, unheard, outdated, sections, due>>
    BY <1>4 DEF End, flags, model
  <2>3. calls' = t /\ ops' = ops
    BY <2>1, <1>2, Continuing
  <2>4. ops' = ops
    BY <2>3
  <2>5. nesting' = nesting - 1 /\ guards' = guards
    BY <1>4, <2>2, SMT
  <2>6. nesting = 1 => ~onExit'
    BY <1>4, <2>2, Zenon
  <2>7. onExit' \in BOOLEAN /\ (onExit => onExit')
    BY <1>4, <2>2, IInv DEF AnyAsked, IInv, FlagsInv
  <2>8. nesting \in Nat /\ nesting >= 1
    BY <1>4, <2>2, <1>2 DEF IInv, CountsInv, Runs, Above, ScopeEnds
  <2>9. nesting # 1 => nesting' > 0
    BY <1>4, <2>2, <2>8, SMT
  <2>10. onExit' => nesting' > 0
    BY <1>4, <2>2, <2>6, <2>9, Zenon
  <2>11. nesting + Tally(t, {"begin"}) = Tally(t, ScopeEnds) + 1 /\ guards = Tally(t, Holds)
    BY <1>4, <2>2, <1>2 DEF IInv, CountsInv, Runs, Above, ScopeEnds, Holds
  <2>12. calls' = t /\ Stacked(calls')
    BY <1>2, <1>4, <2>2, <2>5, <2>6, <2>7, <2>8, <2>9, <2>10, <2>11, <2>4, <2>3 DEF Runs
  <2>13. CountsInv'
    BY <1>2, <2>5, <2>8, <2>11, <2>12 DEF CountsInv, Runs, IInv
  <2>14. FlagsInv'
    BY <1>2, <1>4, <2>2, <2>5, <2>6, <2>7, <2>8, <2>9, <2>10, <2>11, <2>4, <2>3, <2>12
       DEF IInv, CountsInv, FlagsInv, On, Above, ScopeEnds, Holds, Runs
  <2>15. HeardInv'
    BY <1>2, <1>4, <2>2, <2>5, <2>6, <2>7, <2>8, <2>9, <2>10, <2>11, <2>4, <2>3, <2>12
       DEF IInv, CountsInv, HeardInv, On, Above, Runs
  <2>16. DueInv' /\ SectionsInv'
    BY <1>2, <1>4, <2>2, <2>5, <2>6, <2>7, <2>8, <2>9, <2>10, <2>11, <2>4, <2>3, <2>12
       DEF IInv, CountsInv, FlagsInv, HeardInv, DueInv, SectionsInv, Requested, Kept, Keeps, On,
           Above, Runs, Spoilt
  <2> QED BY <2>12, <2>13, <2>14, <2>15, <2>16 DEF IInv
<1> QED BY <1>3, <1>4

LEMMA ReleaseStep == ASSUME IInv, Release PROVE IInv'
<1>1. Doing("release")
  BY DEF Release
<1>2. PICK t : Runs("release", t)
  BY <1>1, Running
<1>3. CASE guards > 1
  <2>1. Continue(<<>>)
    BY <1>1, <1>3 DEF Release, flags, model
  <2>2. /\ guards' = guards - 1
        /\ UNCHANGED <<nesting, onExit, reconstructing, pending, unheard, outdated, sections, due>>
    BY <1>3 DEF Release, flags, model
  <2>3. calls' = t /\ ops' = ops
    BY <2>1, <1>2, Continuing
  <2>4. ops' = ops
    BY <2>3
  <2>5. \E y \in Elements(t) : y \in Holds
    BY <1>3, <2>2, <1>2 DEF IInv, CountsInv, Runs, Above, Holds
  <2>6. unheard => On(t, "guard") \/ On(t, "release")
    BY <1>3, <2>2, <1>2, <2>5 DEF IInv, HeardInv, Runs, Above, On, Holds
  <2>7. unheard => Guarded(t)
    BY <1>3, <2>2, <1>2, <2>6, GuardedWithout DEF IInv, HeardInv, Runs, Above, On
  <2>8. Kept(calls) => Kept(t)
    BY <1>3, <2>2, <1>2, <2>5 DEF Runs, Above, On, Holds, Kept, Keeps
  <2>9. calls' = t /\ Stacked(calls')
    BY <1>2, <1>3, <2>2, <2>5, <2>6, <2>7, <2>8, <2>4, <2>3 DEF Runs
  <2>10. CountsInv'
    BY <1>2, <1>3, <2>2, <2>4, <2>3, <2>9 DEF IInv, CountsInv, Above, ScopeEnds, Holds, Runs
  <2>11. FlagsInv'
    BY <1>2, <1>3, <2>2, <2>5, <2>6, <2>7, <2>8, <2>4, <2>3, <2>9
       DEF IInv, CountsInv, FlagsInv, On, Above, ScopeEnds, Holds, Runs
  <2>12. HeardInv'
    BY <1>2, <1>3, <2>2, <2>5, <2>6, <2>7, <2>8, <2>4, <2>3, <2>9
       DEF IInv, CountsInv, HeardInv, On, Above, Runs
  <2>13. DueInv' /\ SectionsInv'
    BY <1>2, <1>3, <2>2, <2>5, <2>6, <2>7, <2>8, <2>4, <2>3, <2>9
       DEF IInv, CountsInv, FlagsInv, HeardInv, DueInv, SectionsInv, Requested, Kept, Keeps, On,
           Above, Runs, Spoilt
  <2> QED BY <2>9, <2>10, <2>11, <2>12, <2>13 DEF IInv
<1>4. CASE ~(guards > 1) /\ ~unheard /\ Continue(<<"announce">>)
  <2>1. Continue(<<"announce">>)
    BY <1>4
  <2>2. /\ UNCHANGED <<nesting, onExit, reconstructing, guards, pending, unheard, outdated, sections, due>>
    BY <1>4 DEF Release, flags, model
  <2>3. "announce" \in Frames
    BY DEF Frames, ClientFrames
  <2>4. calls' = <<"announce">> \o t /\ ops' = ops
    BY <2>1, <1>2, <2>3, Continuing
  <2>5. ops' = ops
    BY <2>4
  <2>6. "announce" \in Frames
    BY <1>2, <1>4, <2>2, <2>5, <2>4 DEF Frames, ClientFrames, Runs
  <2>7. Stacked(calls') /\ Above(calls', "announce", t)
    BY <1>2, <1>4, <2>2, <2>5, <2>4, <2>6, Pushed DEF Runs
  <2>8. CountsInv'
    BY <1>2, <1>4, <2>2, <2>5, <2>7 DEF IInv, CountsInv, Above, ScopeEnds, Holds, Runs
  <2>9. FlagsInv'
    BY <1>2, <1>4, <2>2, <2>5, <2>7 DEF IInv, CountsInv, FlagsInv, On, Above, ScopeEnds, Holds, Runs
  <2>10. HeardInv'
    BY <1>2, <1>4, <2>2, <2>5, <2>7 DEF IInv, CountsInv, HeardInv, On, Above, Runs
  <2>11. DueInv' /\ SectionsInv'
    BY <1>2, <1>4, <2>2, <2>5, <2>7
       DEF IInv, CountsInv, FlagsInv, HeardInv, DueInv, SectionsInv, Requested, Kept, Keeps, On,
           Above, Runs, Spoilt
  <2> QED BY <2>7, <2>8, <2>9, <2>10, <2>11 DEF IInv
<1>5. CASE ~(guards > 1) /\ Continue(<<"hear">> \o <<"announce">>)
  <2>1. Continue(<<"hear", "announce">>)
    <3>0. "hear" \in Frames /\ "announce" \in Frames
      BY DEF Frames, ClientFrames
    <3>1. <<"hear">> \o <<"announce">> = <<"hear", "announce">>
      BY <3>0, TwoInOne
    <3>2. Continue(<<"hear">> \o <<"announce">>)
      BY <1>5
    <3> QED BY <3>1, <3>2
  <2>2. /\ UNCHANGED <<nesting, onExit, reconstructing, guards, pending, unheard, outdated, sections, due>>
    BY <1>5 DEF Release, flags, model
  <2>3. "hear" \in Frames /\ "announce" \in Frames
    BY DEF Frames, ClientFrames
  <2>4. calls' = <<"hear", "announce">> \o t /\ ops' = ops
    BY <2>1, <1>2, <2>3, Continuing
  <2>5. ops' = ops
    BY <2>4
  <2>6. \A y \in Elements(t) : y \notin Holds
    BY <1>5, <2>2, <1>2 DEF IInv, CountsInv, Runs, Above, Holds
  <2>7. ~Guarded(t)
    BY <1>5, <2>2, <2>6, GuardedHolds DEF On, Holds
  <2>8. unheard => ~On(t, "finish")
    BY <1>5, <2>2, <1>2, <2>7 DEF IInv, HeardInv, Runs, Above, On
  <2>9. "hear" \in Frames /\ "announce" \in Frames
    BY <1>2, <1>5, <2>2, <2>6, <2>7, <2>8, <2>5, <2>4 DEF Frames, ClientFrames, Runs
  <2>10. Stacked(t) /\ ~On(t, "hear")
    BY <1>2, <1>5, <2>2, <2>6, <2>7, <2>8, <2>5, <2>4 DEF Runs
  <2>11. Stacked(calls') /\ \E a : Above(calls', "hear", a) /\ Above(a, "announce", t)
    BY <2>4, <2>9, <2>10, PushedTwo
  <2>12. PICK a : Above(calls', "hear", a) /\ Above(a, "announce", t)
    BY <2>11
  <2>13. /\ Elements(calls') = {"hear", "announce"} \cup Elements(t)
         /\ Tally(calls', {"begin"}) = Tally(t, {"begin"})
         /\ Tally(calls', ScopeEnds) = Tally(t, ScopeEnds)
         /\ Tally(calls', Holds) = Tally(t, Holds) + 1
         /\ Guarded(t) => Guarded(calls')
    BY <1>2, <1>5, <2>2, <2>6, <2>7, <2>8, <2>5, <2>4, <2>12 DEF Above, ScopeEnds, Holds, Runs
  <2>14. CountsInv'
    BY <1>2, <1>5, <2>2, <2>5, <2>13 DEF IInv, CountsInv, Above, ScopeEnds, Holds, Runs
  <2>15. FlagsInv'
    BY <1>2, <1>5, <2>2, <2>6, <2>7, <2>8, <2>5, <2>13
       DEF IInv, CountsInv, FlagsInv, On, Above, ScopeEnds, Holds, Runs
  <2>16. HeardInv'
    BY <1>2, <1>5, <2>2, <2>6, <2>7, <2>8, <2>5, <2>13 DEF IInv, CountsInv, HeardInv, On, Above, Runs
  <2>17. DueInv' /\ SectionsInv'
    BY <1>2, <1>5, <2>2, <2>6, <2>7, <2>8, <2>5, <2>13
       DEF IInv, CountsInv, FlagsInv, HeardInv, DueInv, SectionsInv, Requested, Kept, Keeps, On,
           Above, Runs, Spoilt
  <2> QED BY <2>11, <2>14, <2>15, <2>16, <2>17 DEF IInv
<1>6. ~(guards > 1) => \/ Continue(<<"hear">> \o <<"announce">>)
                       \/ ~unheard /\ Continue(<<>> \o <<"announce">>)
  BY DEF Release, IInv, FlagsInv
<1>7. <<>> \o <<"announce">> = <<"announce">>
  BY FramesTyped
<1> QED BY <1>3, <1>4, <1>5, <1>6, <1>7
-----------------------------------------------------------------------------
(* Reconstructing, and what happens meanwhile. *)
LEMMA ReconstructStep == ASSUME IInv, Reconstruct PROVE IInv'
<1>1. Doing("reconstruct")
  BY DEF Reconstruct
<1>2. PICK t : Runs("reconstruct", t)
  BY <1>1, Running
<1>3. CASE nesting > 0
  <2>1. Continue(<<>>)
    BY <1>1, <1>3 DEF Reconstruct, Deferred, Acquired, model, flags
  <2>2. /\ onExit' = TRUE
        /\ UNCHANGED <<nesting, reconstructing, guards, pending, unheard, outdated, sections, due>>
    BY <1>3 DEF Reconstruct, Deferred, Acquired, model, flags
  <2>3. calls' = t /\ ops' = ops
    BY <2>1, <1>2, Continuing
  <2>4. ops' = ops
    BY <2>3
  <2>5. calls' = t /\ Stacked(calls')
    BY <1>2, <1>3, <2>2, <2>4, <2>3 DEF Runs
  <2>6. CountsInv'
    BY <1>2, <1>3, <2>2, <2>4, <2>3, <2>5 DEF IInv, CountsInv, Above, ScopeEnds, Holds, Runs
  <2>7. FlagsInv'
    BY <1>2, <1>3, <2>2, <2>4, <2>3, <2>5 DEF IInv, CountsInv, FlagsInv, On, Above, ScopeEnds, Holds, Runs
  <2>8. HeardInv'
    BY <1>2, <1>3, <2>2, <2>4, <2>3, <2>5 DEF IInv, CountsInv, HeardInv, On, Above, Runs
  <2>9. DueInv' /\ SectionsInv'
    BY <1>2, <1>3, <2>2, <2>4, <2>3, <2>5
       DEF IInv, CountsInv, FlagsInv, HeardInv, DueInv, SectionsInv, Requested, Kept, Keeps, On,
           Above, Runs, Spoilt
  <2> QED BY <2>5, <2>6, <2>7, <2>8, <2>9 DEF IInv
<1>4. CASE ~(nesting > 0)
  <2>1. Continue(<<"update", "reconstructed", "release", "finish">>)
    BY <1>4 DEF Reconstruct
  <2>2. /\ reconstructing' = TRUE /\ guards' = guards + 1
        /\ due' = IF unheard THEN due \ {"settings"} ELSE {}
        /\ UNCHANGED <<nesting, onExit, pending, unheard, outdated, sections>>
    BY <1>4 DEF Reconstruct, Acquired
  <2>3. calls' = <<"update", "reconstructed", "release", "finish">> \o t /\ ops' = ops
    BY <1>2, <2>1 DEF Continue, Runs
  <2>4. ops' = ops
    BY <2>3
  <2>5. Stacked(t) /\ ~On(t, "hear")
    BY <1>2 DEF Runs
  <2>6. Grows(calls', t, 0, 0, 1) /\ On(calls', "finish")
    BY <2>3, <2>5, Reconstructed
  <2>7. CountsInv'
    BY <1>2, <2>2, <2>6 DEF IInv, CountsInv, Above, ScopeEnds, Holds, Runs, Grows
  <2>8. FlagsInv'
    BY <1>2, <2>2, <2>4, <2>6 DEF IInv, CountsInv, FlagsInv
  <2>9. unheard => pending /\ ~On(t, "announce") /\ ~On(t, "settle") /\ Guarded(t)
    BY <1>2 DEF IInv, HeardInv, Runs, Above, On
  <2>10. HeardInv'
    BY <2>2, <2>6, <2>9 DEF HeardInv, Grows
  <2>11. unheard => Kept(calls')
    BY <2>6, <2>9, GuardedHolds DEF Grows, Kept, Keeps, On
  <2>12. DueInv'
    BY <2>2, <2>9, <2>11 DEF IInv, FlagsInv, DueInv, Requested
  <2>13. SectionsInv'
    BY <1>2, <2>2, <2>6 DEF IInv, SectionsInv, Kept, Keeps, On, Above, Runs, Grows
  <2> QED BY <2>6, <2>7, <2>8, <2>10, <2>12, <2>13 DEF IInv, Grows
<1>5. nesting > 0 \/ ~(nesting > 0)
  OBVIOUS
<1> QED BY <1>3, <1>4, <1>5

LEMMA ReturnStep == ASSUME IInv, Return PROVE IInv'
<1>1. /\ Continue(<<>>)
      /\ UNCHANGED <<nesting, onExit, reconstructing, guards, pending, unheard, outdated, sections, due>>
  BY DEF Return, flags, model
<1>2. PICK x \in {"told", "reconstructed"} : Doing(x)
  BY DEF Return
<1>3. PICK t : Runs(x, t)
  BY <1>2, Running
<1>4. calls' = t /\ ops' = ops
  BY <1>1, <1>3, Continuing
<1>5. Stacked(calls') /\ CountsInv'
  BY <1>1, <1>2, <1>3, <1>4 DEF IInv, CountsInv, Above, ScopeEnds, Holds, Runs
<1>6. FlagsInv' /\ HeardInv'
  BY <1>1, <1>2, <1>3, <1>4 DEF IInv, CountsInv, FlagsInv, HeardInv, On, Above, Runs
<1>7. DueInv' /\ SectionsInv'
  BY <1>1, <1>2, <1>3, <1>4 DEF IInv, DueInv, SectionsInv, Requested, Kept, Keeps, On, Above, Runs
<1> QED BY <1>5, <1>6, <1>7 DEF IInv

LEMMA TouchStep == ASSUME IInv, Touch PROVE IInv'
<1>1. /\ pending' = TRUE
      /\ UNCHANGED <<nesting, onExit, reconstructing, guards, unheard, outdated, sections, due, calls, ops>>
  BY DEF Touch, flags
<1>2. PICK x \in {"update", "reconstructed"} : Doing(x)
  BY DEF Touch
<1>3. PICK t : Runs(x, t)
  BY <1>2, Running
<1>4. guards \in Nat /\ guards > 0
  <2>1. On(t, "release")
    BY <1>2, <1>3 DEF Runs
  <2>2. Tally(t, Holds) # 0 /\ Tally(t, Holds) \in Nat
    BY <1>3, <2>1 DEF Runs, On, Holds
  <2> QED BY <1>3, <2>2 DEF IInv, CountsInv, Runs, Above
<1>5. FlagsInv'
  BY <1>1, <1>4 DEF IInv, FlagsInv
<1>6. Stacked(calls') /\ CountsInv' /\ HeardInv'
  BY <1>1 DEF IInv, CountsInv, HeardInv
<1>7. DueInv' /\ SectionsInv'
  BY <1>1 DEF IInv, DueInv, SectionsInv, Requested
<1> QED BY <1>5, <1>6, <1>7 DEF IInv

LEMMA PollStep == ASSUME IInv, Poll PROVE IInv'
<1>1. /\ outdated' = FALSE /\ calls' = <<"reconstruct">> \o calls
      /\ UNCHANGED <<nesting, onExit, reconstructing, guards, pending, unheard, sections, due, ops>>
  BY DEF Poll, Refreshed, flags, model
<1>2. PICK x \in {"update", "reconstructed"} : Doing(x)
  BY DEF Poll
<1>3. PICK t : Runs(x, t)
  BY <1>2, Running
<1>4. Stacked(calls) /\ ~On(calls, "hear")
  BY <1>2, <1>3 DEF IInv, Runs, Above, On
<1>5. Stacked(calls') /\ Above(calls', "reconstruct", calls)
  <2>1. "reconstruct" \in Frames
    BY DEF Frames
  <2> QED BY <1>1, <1>4, <2>1, Pushed
<1>6. /\ Tally(calls, {"begin"}) \in Nat /\ Tally(calls, ScopeEnds) \in Nat /\ Tally(calls, Holds) \in Nat
  BY <1>4, Counted
<1>7. CountsInv'
  BY <1>1, <1>5, <1>6 DEF IInv, CountsInv, Above, ScopeEnds, Holds
<1>8. FlagsInv' /\ HeardInv'
  BY <1>1, <1>5 DEF IInv, FlagsInv, HeardInv, On, Above
<1>9. DueInv' /\ SectionsInv'
  BY <1>1, <1>5 DEF IInv, DueInv, SectionsInv, Requested, Kept, Keeps, On, Above
<1> QED BY <1>5, <1>7, <1>8, <1>9 DEF IInv

LEMMA GetSectionsStep == ASSUME IInv, GetSections PROVE IInv'
<1>1. /\ sections' = IF sections = "unknown" THEN "right" ELSE sections
      /\ UNCHANGED <<nesting, onExit, reconstructing, guards, pending, unheard, outdated, due, calls, ops>>
  BY DEF GetSections, flags, model
<1>2. Stacked(calls') /\ CountsInv' /\ FlagsInv' /\ HeardInv'
  BY <1>1 DEF IInv, CountsInv, FlagsInv, HeardInv
<1>3. DueInv' /\ SectionsInv'
  BY <1>1 DEF IInv, DueInv, SectionsInv, Requested
<1> QED BY <1>2, <1>3 DEF IInv
-----------------------------------------------------------------------------
LEMMA Initially == Init => IInv
<1> SUFFICES ASSUME Init PROVE IInv
  OBVIOUS
<1>1. calls = <<>> /\ Stacked(calls) /\ Elements(calls) = {}
  BY NoFrames DEF Init
<1>2. /\ nesting = 0 /\ onExit = FALSE /\ reconstructing = FALSE /\ guards = 0 /\ pending = FALSE
      /\ unheard = FALSE /\ outdated = FALSE /\ sections = "unknown" /\ due = {} /\ ops = 0
  BY DEF Init
<1>3. Tally(calls, {"begin"}) = 0 /\ Tally(calls, ScopeEnds) = 0 /\ Tally(calls, Holds) = 0
  BY <1>1, Counted
<1>4. CountsInv /\ FlagsInv
  <2>1. CountsInv
    BY <1>2, <1>3 DEF CountsInv
  <2> QED BY <1>2, <2>1 DEF FlagsInv
<1>5. HeardInv /\ DueInv /\ SectionsInv
  BY <1>2 DEF HeardInv, DueInv, SectionsInv
<1> QED BY <1>1, <1>4, <1>5 DEF IInv

LEMMA Stuttering == ASSUME IInv, UNCHANGED vars PROVE IInv'
BY DEF IInv, CountsInv, FlagsInv, HeardInv, DueInv, SectionsInv, Requested, vars, flags, model

LEMMA Preserved == IInv /\ [Next]_vars => IInv'
<1> SUFFICES ASSUME IInv, [Next]_vars PROVE IInv'
  OBVIOUS
<1>1. CASE Client
  BY <1>1, SetTimeStep, ChangeLayersStep, RequestStep, ModifyFeaturesStep, AddFilesStep, RemoveFileStep,
     OpenScopeStep, OpenGuardStep DEF Client
<1>2. ASSUME NEW ask \in BOOLEAN, CloseScope(ask) \/ End(ask) PROVE IInv'
  BY <1>2, CloseScopeStep, EndAskingStep, EndSilentlyStep
<1>3. CASE Machine
  BY <1>2, <1>3, ReturnStep, CloseGuardStep, ConnectStep, BeginStep, ReconstructStep, UpdatedStep, FinishStep,
     ReleaseStep, HearStep, AnnounceStep, SettleStep, IntoModelStep, StoreModifiedStep, ListedStep,
     FilesChangedStep DEF Machine
<1>4. CASE Touch \/ Poll \/ GetSections
  BY <1>4, TouchStep, PollStep, GetSectionsStep
<1>5. CASE UNCHANGED vars
  BY <1>5, Stuttering
<1> QED BY <1>1, <1>3, <1>4, <1>5 DEF Next

LEMMA Invariant == Spec => []IInv
BY Initially, Preserved, PTL DEF Spec
-----------------------------------------------------------------------------
(* Counts, flags and the call stack keep their types: the count of open    *)
(* scopes and the notification guard of the model never go below zero.     *)
THEOREM TypesKept == Spec => []TypeOK
<1>1. IInv => TypeOK
  BY DEF IInv, Stacked, CountsInv, FlagsInv, DueInv, SectionsInv, TypeOK
<1> QED BY <1>1, Invariant, PTL

(* A change that has not been reconstructed is remembered at every moment, *)
(* whatever reconstructs inside what: in a call to be made, a scope that   *)
(* will ask, or a modification that a guard will announce.                 *)
THEOREM ChangesCorrect == Spec => []ChangesRemembered
<1>1. IInv => ChangesRemembered
  BY DEF IInv, DueInv, Requested, Kept, Keeps, On, Stack, Elements, ChangesRemembered
<1> QED BY <1>1, Invariant, PTL

LEMMA WhenIdle ==
  ASSUME IInv, Idle
  PROVE  nesting = 0 /\ guards = 0 /\ \A x : ~On(calls, x)
<1>1. calls = <<>> /\ Stacked(calls) /\ Elements(calls) = {}
  BY NoFrames DEF Idle
<1>2. Tally(calls, {"begin"}) = 0 /\ Tally(calls, ScopeEnds) = 0 /\ Tally(calls, Holds) = 0
  BY <1>1, Counted
<1>3. nesting = 0 /\ guards = 0
  BY <1>2 DEF IInv, CountsInv
<1> QED BY <1>1, <1>3 DEF On

(* When all calls have returned, everything has been reconstructed and     *)
(* heard, and neither scope, guard nor flag is left behind.                *)
THEOREM ShownCorrect == Spec => []ShownWhenIdle
<1>1. ASSUME IInv, Idle PROVE ~pending /\ ~onExit /\ ~reconstructing /\ nesting = 0 /\ guards = 0
  BY <1>1, WhenIdle DEF IInv, FlagsInv
<1>2. ASSUME IInv, Idle PROVE ~unheard
  BY <1>1, <1>2, WhenIdle DEF IInv, HeardInv
<1>3. ASSUME IInv, Idle PROVE due = {}
  BY <1>1, <1>3, WhenIdle DEF IInv, DueInv, Requested
<1>4. IInv => ShownWhenIdle
  BY <1>1, <1>2, <1>3 DEF ShownWhenIdle
<1> QED BY <1>4, Invariant, PTL

(* Topological sections that are known are right when all calls have       *)
(* returned, although drawing asks for them while files come and go.       *)
THEOREM SectionsCorrect == Spec => []SectionsRightWhenIdle
<1>1. ASSUME IInv, Idle PROVE ~pending
  BY <1>1, WhenIdle DEF IInv, FlagsInv
<1>2. ASSUME IInv, Idle PROVE sections # "wrong"
  BY <1>1, <1>2, WhenIdle DEF IInv, SectionsInv
<1>3. IInv => SectionsRightWhenIdle
  BY <1>2 DEF SectionsRightWhenIdle
<1> QED BY <1>3, Invariant, PTL
=============================================================================
