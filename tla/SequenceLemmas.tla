--------------------------- MODULE SequenceLemmas ---------------------------
(***************************************************************************)
(* Facts about numbers and sequences that several proofs rest on.          *)
(*                                                                         *)
(* The induction theorems of the library take an operator as a parameter,  *)
(* which the provers at hand cannot instantiate.  Induction is had from    *)
(* sets instead: finite sets are well-founded under inclusion, so a set of *)
(* natural numbers that is not empty has a least element.                  *)
(***************************************************************************)
EXTENDS Subsequences, FiniteSets, FiniteSetTheorems, WellFoundedInduction, TLAPS

(* Every set of natural numbers but the empty one has a least element. *)
LEMMA Least ==
  ASSUME NEW T, T \subseteq Nat, T # {}
  PROVE  \E x \in T : \A y \in T : x <= y
<1> DEFINE I == {1..n : n \in T}
<1>1. IsWellFoundedOn(StrictSubsetOrdering(Nat), FiniteSubsetsOf(Nat))
  BY FS_StrictSubsetOrderingWellFounded
<1>2. I # {}
  OBVIOUS
<1>3. I \subseteq FiniteSubsetsOf(Nat)
  <2>1. ASSUME NEW n \in T PROVE 1..n \in SUBSET Nat /\ IsFiniteSet(1..n)
    BY FS_Interval
  <2> QED BY <2>1 DEF FiniteSubsetsOf
<1> HIDE DEF I
<1>4. \E x \in I : \A y \in I : ~ (<<y, x>> \in StrictSubsetOrdering(Nat))
  BY <1>1, <1>2, <1>3, WFMin
<1>5. PICK n \in T : \A m \in T : <<1..m, 1..n>> \notin StrictSubsetOrdering(Nat)
  BY <1>4 DEF I
<1>6. ASSUME NEW m \in T, m < n PROVE FALSE
  <2>1. 1..m \subseteq 1..n /\ 1..m # 1..n
     BY <1>6
  <2>2. <<1..m, 1..n>> \in StrictSubsetOrdering(Nat)
     BY <2>1 DEF StrictSubsetOrdering
  <2> QED BY <2>2, <1>5
<1> QED BY <1>6, <1>5

(* Induction: a set with 0 and the successors of its numbers has them all. *)
LEMMA Induction ==
  ASSUME NEW T, 0 \in T, \A n \in Nat : n \in T => n + 1 \in T
  PROVE  Nat \subseteq T
<1> SUFFICES ASSUME Nat \ T # {} PROVE FALSE
  OBVIOUS
<1>1. PICK x \in Nat \ T : \A y \in Nat \ T : x <= y
  BY Least
<1>2. x # 0 /\ x - 1 \in Nat
  OBVIOUS
<1>3. x - 1 \in T
  BY <1>1, <1>2
<1> QED BY <1>2, <1>3

(* Induction on sequences: a set with the empty sequence and with what is  *)
(* appended to its sequences has all sequences.                            *)
LEMMA SequenceInduction ==
  ASSUME NEW A, NEW T, <<>> \in T,
         \A s \in Seq(A) : s \in T => \A x \in A : Append(s, x) \in T
  PROVE  Seq(A) \subseteq T
<1> DEFINE N == {n \in Nat : \A s \in Seq(A) : Len(s) = n => s \in T}
<1>1. 0 \in N
  OBVIOUS
<1>2. ASSUME NEW n \in Nat, n \in N PROVE n + 1 \in N
  <2> SUFFICES ASSUME NEW s \in Seq(A), Len(s) = n + 1 PROVE s \in T
    OBVIOUS
  <2> DEFINE r == SubSeq(s, 1, n)
  <2>1. r \in Seq(A) /\ Len(r) = n /\ s[n + 1] \in A
    OBVIOUS
  <2>2. s = Append(r, s[n + 1])
    OBVIOUS
  <2>3. r \in T
    BY <1>2, <2>1
  <2> QED BY <2>1, <2>2, <2>3
<1> HIDE DEF N
<1>3. Nat \subseteq N
  BY <1>1, <1>2, Induction
<1> QED BY <1>3 DEF N
-----------------------------------------------------------------------------
(* Only: the recursive function that defines it exists and is unique.      *)
Filters(f, s, S) ==
  f = [n \in 0..Len(s) |->
         IF n = 0 THEN <<>>
         ELSE IF s[n] \in S THEN Append(f[n - 1], s[n]) ELSE f[n - 1]]

LEMMA FilterExists ==
  ASSUME NEW A, NEW s \in Seq(A), NEW S
  PROVE  \E f : Filters(f, s, S)
<1> DEFINE Upto(f, m) ==
             f = [n \in 0..m |->
                    IF n = 0 THEN <<>>
                    ELSE IF s[n] \in S THEN Append(f[n - 1], s[n]) ELSE f[n - 1]]
           N == {m \in Nat : \E f : Upto(f, m)}
<1>1. 0 \in N
  <2>1. Upto([n \in 0..0 |-> <<>>], 0)
    OBVIOUS
  <2> QED BY <2>1
<1>2. ASSUME NEW m \in Nat, m \in N PROVE m + 1 \in N
  <2>1. PICK f : Upto(f, m)
    BY <1>2
  <2> DEFINE g == [n \in 0..(m + 1) |->
                     IF n <= m THEN f[n]
                     ELSE IF s[n] \in S THEN Append(f[m], s[n]) ELSE f[m]]
             G(n) == IF n = 0 THEN <<>>
                     ELSE IF s[n] \in S THEN Append(g[n - 1], s[n]) ELSE g[n - 1]
  <2>2. ASSUME NEW n \in 0..(m + 1) PROVE g[n] = G(n)
    <3>1. CASE n <= m
      <4>1. g[n] = f[n]
        BY <3>1
      <4>2. f[n] = IF n = 0 THEN <<>>
                   ELSE IF s[n] \in S THEN Append(f[n - 1], s[n]) ELSE f[n - 1]
        <5> DEFINE F(k) == IF k = 0 THEN <<>>
                           ELSE IF s[k] \in S THEN Append(f[k - 1], s[k]) ELSE f[k - 1]
        <5>1. f = [k \in 0..m |-> F(k)]
          BY <2>1
        <5> HIDE DEF F
        <5>2. n \in 0..m
          BY <3>1
        <5>3. f[n] = F(n)
          BY <5>1, <5>2
        <5> QED BY <5>3 DEF F
      <4>3. n # 0 => g[n - 1] = f[n - 1]
        BY <3>1
      <4>4. CASE n = 0
        BY <4>1, <4>2, <4>4
      <4>5. CASE n # 0
        <5> HIDE DEF g
        <5> QED BY <4>1, <4>2, <4>3, <4>5
      <4> QED BY <4>4, <4>5
    <3>2. CASE n = m + 1
      <4>1. g[m] = f[m]
        OBVIOUS
      <4> QED BY <3>2, <4>1
    <3> QED BY <3>1, <3>2
  <2> HIDE DEF G
  <2>4. g = [n \in 0..(m + 1) |-> G(n)]
    <3>1. g = [n \in 0..(m + 1) |-> g[n]]
      OBVIOUS
    <3> HIDE DEF g
    <3> QED BY <3>1, <2>2
  <2>3. Upto(g, m + 1)
    <3> HIDE DEF g
    <3> QED BY <2>4 DEF G
  <2> HIDE DEF g, Upto
  <2> QED BY <2>3
<1>3. Len(s) \in N
  <2> HIDE DEF N
  <2>1. Nat \subseteq N
    BY <1>1, <1>2, Induction
  <2> QED BY <2>1
<1> QED BY <1>3 DEF Filters

LEMMA FilterOnly ==
  ASSUME NEW A, NEW s \in Seq(A), NEW S
  PROVE  \E f : Filters(f, s, S) /\ Only(s, S) = f[Len(s)]
<1>1. \E f : f = [n \in 0..Len(s) |->
                   IF n = 0 THEN <<>>
                   ELSE IF s[n] \in S THEN Append(f[n - 1], s[n]) ELSE f[n - 1]]
  BY FilterExists DEF Filters
<1>2. \E f : /\ f = [n \in 0..Len(s) |->
                       IF n = 0 THEN <<>>
                       ELSE IF s[n] \in S THEN Append(f[n - 1], s[n]) ELSE f[n - 1]]
             /\ Only(s, S) = f[Len(s)]
  BY <1>1 DEF Only
<1> QED BY <1>2 DEF Filters

LEMMA FilterStep ==
  ASSUME NEW A, NEW s \in Seq(A), NEW S, NEW f, Filters(f, s, S)
  PROVE  /\ f[0] = <<>>
         /\ \A n \in Nat : n < Len(s) =>
              f[n + 1] = IF s[n + 1] \in S THEN Append(f[n], s[n + 1]) ELSE f[n]
<1> DEFINE G(n) == IF n = 0 THEN <<>>
                   ELSE IF s[n] \in S THEN Append(f[n - 1], s[n]) ELSE f[n - 1]
<1>1. f = [n \in 0..Len(s) |-> G(n)]
  BY DEF Filters
<1> HIDE DEF G
<1>2. \A n \in 0..Len(s) : f[n] = G(n)
  BY <1>1
<1>3. f[0] = <<>>
  BY <1>2 DEF G
<1>4. ASSUME NEW n \in Nat, n < Len(s)
      PROVE  f[n + 1] = IF s[n + 1] \in S THEN Append(f[n], s[n + 1]) ELSE f[n]
  <2>1. f[n + 1] = G(n + 1)
    BY <1>2, <1>4
  <2>2. n + 1 # 0 /\ n + 1 - 1 = n
    OBVIOUS
  <2> QED BY <2>1, <2>2 DEF G
<1> QED BY <1>3, <1>4

(* What a filter has for the first elements of a sequence depends on them. *)
LEMMA FiltersAgree ==
  ASSUME NEW A, NEW s \in Seq(A), NEW t \in Seq(A), NEW S, NEW f, NEW g,
         Filters(f, s, S), Filters(g, t, S), Len(s) <= Len(t),
         \A i \in 1..Len(s) : s[i] = t[i]
  PROVE  \A n \in 0..Len(s) : f[n] = g[n]
<1> DEFINE N == {n \in Nat : n <= Len(s) => f[n] = g[n]}
<1>1. 0 \in N
  <2>1. f[0] = <<>> /\ g[0] = <<>>
    BY FilterStep
  <2> QED BY <2>1
<1>2. ASSUME NEW n \in Nat, n \in N PROVE n + 1 \in N
  <2> SUFFICES ASSUME n + 1 <= Len(s) PROVE f[n + 1] = g[n + 1]
    OBVIOUS
  <2>1. f[n] = g[n]
    BY <1>2
  <2>2. f[n + 1] = IF s[n + 1] \in S THEN Append(f[n], s[n + 1]) ELSE f[n]
    BY FilterStep
  <2>3. g[n + 1] = IF t[n + 1] \in S THEN Append(g[n], t[n + 1]) ELSE g[n]
    BY FilterStep
  <2>4. s[n + 1] = t[n + 1]
    OBVIOUS
  <2> QED BY <2>1, <2>2, <2>3, <2>4
<1> HIDE DEF N
<1>3. Nat \subseteq N
  BY <1>1, <1>2, Induction
<1> QED BY <1>3 DEF N

(* Only of a sequence with one more element at its end. *)
LEMMA OnlyAppend ==
  ASSUME NEW A, NEW s \in Seq(A), NEW x \in A, NEW S
  PROVE  Only(Append(s, x), S) = IF x \in S THEN Append(Only(s, S), x) ELSE Only(s, S)
<1> DEFINE t == Append(s, x)
<1>1. PICK f : Filters(f, s, S) /\ Only(s, S) = f[Len(s)]
  BY FilterOnly
<1>2. t \in Seq(A) /\ Len(t) = Len(s) + 1 /\ Len(s) \in Nat
      /\ t[Len(s) + 1] = x /\ \A i \in 1..Len(s) : s[i] = t[i]
  OBVIOUS
<1> HIDE DEF t
<1>3. PICK g : Filters(g, t, S) /\ Only(t, S) = g[Len(t)]
  BY <1>2, FilterOnly
<1>4. f[Len(s)] = g[Len(s)]
  BY <1>1, <1>2, <1>3, FiltersAgree
<1>5. g[Len(s) + 1] = IF x \in S THEN Append(g[Len(s)], x) ELSE g[Len(s)]
  BY <1>2, <1>3, FilterStep
<1> QED BY <1>1, <1>2, <1>3, <1>4, <1>5 DEF t

LEMMA OnlyEmpty == \A S : Only(<<>>, S) = <<>>
<1> TAKE S
<1>1. PICK f : Filters(f, <<>>, S) /\ Only(<<>>, S) = f[Len(<<>>)]
  <2>1. <<>> \in Seq({})
    OBVIOUS
  <2> QED BY <2>1, FilterOnly
<1> QED BY <1>1 DEF Filters
-----------------------------------------------------------------------------
(* The elements of a sequence, and sequences that repeat none.             *)
Elements(s) == {s[i] : i \in DOMAIN s}
Distinct(s) == \A i, j \in DOMAIN s : s[i] = s[j] => i = j

LEMMA ElementsConcat ==
  ASSUME NEW A, NEW s \in Seq(A), NEW t \in Seq(A)
  PROVE  s \o t \in Seq(A) /\ Elements(s \o t) = Elements(s) \cup Elements(t)
<1> DEFINE r == s \o t
<1>1. r \in Seq(A) /\ Len(r) = Len(s) + Len(t)
  OBVIOUS
<1>2. \A i \in DOMAIN r : r[i] = IF i <= Len(s) THEN s[i] ELSE t[i - Len(s)]
  OBVIOUS
<1>3. DOMAIN s = 1..Len(s) /\ DOMAIN t = 1..Len(t) /\ DOMAIN r = 1..(Len(s) + Len(t))
      /\ Len(s) \in Nat /\ Len(t) \in Nat
  BY <1>1
<1> HIDE DEF r
<1>4. ASSUME NEW i \in DOMAIN r PROVE r[i] \in Elements(s) \cup Elements(t)
  <2>1. CASE i <= Len(s)
    BY <1>2, <1>3, <2>1 DEF Elements
  <2>2. CASE ~(i <= Len(s))
    <3>1. i - Len(s) \in DOMAIN t /\ r[i] = t[i - Len(s)]
      BY <1>2, <1>3, <2>2
    <3> QED BY <3>1 DEF Elements
  <2> QED BY <2>1, <2>2
<1>5. ASSUME NEW i \in DOMAIN s PROVE s[i] \in Elements(r)
  <2>1. i \in DOMAIN r /\ r[i] = s[i]
    BY <1>2, <1>3
  <2> QED BY <2>1 DEF Elements
<1>6. ASSUME NEW i \in DOMAIN t PROVE t[i] \in Elements(r)
  <2>1. i + Len(s) \in DOMAIN r /\ r[i + Len(s)] = t[i]
    BY <1>2, <1>3
  <2> QED BY <2>1 DEF Elements
<1>7. Elements(r) = Elements(s) \cup Elements(t)
  BY <1>4, <1>5, <1>6 DEF Elements
<1> QED BY <1>1, <1>7 DEF r

LEMMA ElementsTail ==
  ASSUME NEW A, NEW s \in Seq(A), s # <<>>
  PROVE  /\ Head(s) \in A /\ Tail(s) \in Seq(A) /\ Head(s) \in Elements(s)
         /\ Elements(s) = {Head(s)} \cup Elements(Tail(s))
<1> DEFINE t == Tail(s)
<1>1. /\ Head(s) = s[1] /\ Head(s) \in A /\ t \in Seq(A) /\ Len(t) = Len(s) - 1
      /\ DOMAIN s = 1..Len(s) /\ DOMAIN t = 1..(Len(s) - 1)
      /\ \A i \in DOMAIN t : t[i] = s[i + 1]
      /\ Len(s) \in Nat /\ 1 \in DOMAIN s
  OBVIOUS
<1> HIDE DEF t
<1>2. ASSUME NEW i \in DOMAIN s PROVE s[i] \in {Head(s)} \cup Elements(t)
  <2>1. CASE i = 1
    BY <1>1, <2>1
  <2>2. CASE i # 1
    <3>1. i - 1 \in DOMAIN t /\ t[i - 1] = s[i]
      BY <1>1, <2>2
    <3> QED BY <3>1 DEF Elements
  <2> QED BY <2>1, <2>2
<1>3. ASSUME NEW i \in DOMAIN t PROVE t[i] \in Elements(s)
  <2>1. i + 1 \in DOMAIN s
    BY <1>1
  <2> QED BY <1>1, <2>1 DEF Elements
<1>4. Head(s) \in Elements(s)
  BY <1>1 DEF Elements
<1>5. Elements(s) = {Head(s)} \cup Elements(t)
  BY <1>2, <1>3, <1>4 DEF Elements
<1> QED BY <1>1, <1>4, <1>5 DEF t

LEMMA ElementsAppend ==
  ASSUME NEW A, NEW s \in Seq(A), NEW x \in A
  PROVE  /\ Append(s, x) \in Seq(A)
         /\ Elements(Append(s, x)) = Elements(s) \cup {x}
         /\ Distinct(s) /\ x \notin Elements(s) => Distinct(Append(s, x))
<1> DEFINE t == Append(s, x)
<1>1. /\ t \in Seq(A) /\ DOMAIN s = 1..Len(s) /\ DOMAIN t = 1..(Len(s) + 1)
      /\ Len(s) \in Nat /\ t[Len(s) + 1] = x /\ \A i \in DOMAIN s : t[i] = s[i]
  OBVIOUS
<1> HIDE DEF t
<1>2. DOMAIN t = DOMAIN s \cup {Len(s) + 1} /\ Len(s) + 1 \notin DOMAIN s
  BY <1>1
<1>3. Elements(t) = Elements(s) \cup {x}
  <2>1. \A i \in DOMAIN t : t[i] \in Elements(s) \cup {x}
    BY <1>1, <1>2 DEF Elements
  <2>2. \A i \in DOMAIN s : s[i] \in Elements(t)
    BY <1>1, <1>2 DEF Elements
  <2>3. x \in Elements(t)
    BY <1>1, <1>2 DEF Elements
  <2> QED BY <2>1, <2>2, <2>3 DEF Elements
<1>4. ASSUME Distinct(s), x \notin Elements(s) PROVE Distinct(t)
  <2>1. \A i \in DOMAIN s : t[i] # x
    BY <1>1, <1>4 DEF Elements
  <2> QED BY <1>1, <1>2, <1>4, <2>1 DEF Distinct
<1> QED BY <1>1, <1>3, <1>4 DEF t

LEMMA ElementsEmpty == Elements(<<>>) = {} /\ Distinct(<<>>)
BY DEF Elements, Distinct

LEMMA ElementsTyped ==
  ASSUME NEW A, NEW s \in Seq(A)
  PROVE  Elements(s) \subseteq A
BY DEF Elements

LEMMA ElementsGrow ==
  ASSUME NEW A, NEW B, NEW s \in Seq(A), Elements(s) \subseteq B
  PROVE  s \in Seq(B)
BY DEF Elements

(* What Only keeps: the elements in the set, none of them twice if none    *)
(* was there twice.                                                        *)
LEMMA OnlyElements ==
  ASSUME NEW A, NEW S, NEW s \in Seq(A)
  PROVE  /\ Only(s, S) \in Seq(A \cap S)
         /\ Elements(Only(s, S)) = Elements(s) \cap S
         /\ Distinct(s) => Distinct(Only(s, S))
         /\ Elements(s) \subseteq S => Only(s, S) = s
<1> DEFINE OK(r) == /\ Only(r, S) \in Seq(A)
                    /\ Elements(Only(r, S)) = Elements(r) \cap S
                    /\ Distinct(r) => Distinct(Only(r, S))
                    /\ Elements(r) \subseteq S => Only(r, S) = r
           T == {r \in Seq(A) : OK(r)}
<1>1. <<>> \in T
  <2>1. Only(<<>>, S) = <<>> /\ Elements(<<>>) = {} /\ Distinct(<<>>) /\ <<>> \in Seq(A)
    BY OnlyEmpty, ElementsEmpty
  <2>2. OK(<<>>)
    BY <2>1
  <2> HIDE DEF OK
  <2> QED BY <2>1, <2>2
<1>2. ASSUME NEW r \in Seq(A), r \in T, NEW x \in A
      PROVE  Append(r, x) \in T
  <2> DEFINE q == Append(r, x)
  <2>1. OK(r)
    BY <1>2
  <2>2. /\ q \in Seq(A) /\ Elements(q) = Elements(r) \cup {x}
        /\ Distinct(r) /\ x \notin Elements(r) => Distinct(q)
    BY ElementsAppend
  <2>3. Distinct(q) => Distinct(r) /\ x \notin Elements(r)
    <3>1. /\ DOMAIN r = 1..Len(r) /\ DOMAIN q = 1..(Len(r) + 1)
          /\ Len(r) \in Nat /\ q[Len(r) + 1] = x /\ \A i \in DOMAIN r : q[i] = r[i]
      OBVIOUS
    <3> HIDE DEF q
    <3>2. DOMAIN r \subseteq DOMAIN q /\ Len(r) + 1 \in DOMAIN q /\ Len(r) + 1 \notin DOMAIN r
      BY <3>1
    <3> QED BY <3>1, <3>2 DEF Distinct, Elements
  <2>4. Only(q, S) = IF x \in S THEN Append(Only(r, S), x) ELSE Only(r, S)
    BY OnlyAppend
  <2> HIDE DEF q
  <2>5. CASE x \in S
    <3> DEFINE o == Only(r, S)
    <3>1. /\ Append(o, x) \in Seq(A) /\ Elements(Append(o, x)) = Elements(o) \cup {x}
          /\ Distinct(o) /\ x \notin Elements(o) => Distinct(Append(o, x))
      BY <2>1, ElementsAppend
    <3>2. Only(q, S) = Append(o, x)
      BY <2>4, <2>5
    <3>3. Elements(Only(q, S)) = Elements(q) \cap S
      BY <2>1, <2>2, <2>5, <3>1, <3>2
    <3>4. Distinct(q) => Distinct(Only(q, S))
      BY <2>1, <2>3, <3>1, <3>2
    <3>5. Elements(q) \subseteq S => Only(q, S) = q
      BY <2>1, <2>2, <3>2 DEF q
    <3>6. OK(q)
      BY <3>1, <3>2, <3>3, <3>4, <3>5
    <3> HIDE DEF OK
    <3> QED BY <2>2, <3>6 DEF q
  <2>6. CASE x \notin S
    <3>1. Only(q, S) = Only(r, S)
      BY <2>4, <2>6
    <3>2. OK(q)
      BY <2>1, <2>2, <2>3, <2>6, <3>1
    <3> HIDE DEF OK
    <3> QED BY <2>2, <3>2 DEF q
  <2> QED BY <2>5, <2>6
<1> HIDE DEF T
<1>3. Seq(A) \subseteq T
  BY <1>1, <1>2, SequenceInduction
<1>4. OK(s)
  BY <1>3 DEF T
<1>5. Elements(Only(s, S)) \subseteq A \cap S
  BY <1>4, ElementsTyped
<1> QED BY <1>4, <1>5, ElementsGrow

(* A sequence has a finite number of elements: its length, if it repeats   *)
(* none.                                                                   *)
LEMMA ElementsCounted ==
  ASSUME NEW A, NEW s \in Seq(A)
  PROVE  /\ IsFiniteSet(Elements(s))
         /\ Distinct(s) => Len(s) = Cardinality(Elements(s))
<1> DEFINE OK(r) == /\ IsFiniteSet(Elements(r))
                    /\ Distinct(r) => Len(r) = Cardinality(Elements(r))
           T == {r \in Seq(A) : OK(r)}
<1>1. <<>> \in T
  <2>1. Len(<<>>) = 0 /\ Elements(<<>>) = {} /\ <<>> \in Seq(A)
    BY ElementsEmpty
  <2>2. IsFiniteSet({}) /\ Cardinality({}) = 0
    BY FS_EmptySet
  <2>3. OK(<<>>)
    BY <2>1, <2>2
  <2> HIDE DEF OK
  <2> QED BY <2>1, <2>3
<1>2. ASSUME NEW r \in Seq(A), r \in T, NEW x \in A
      PROVE  Append(r, x) \in T
  <2> DEFINE q == Append(r, x)
  <2>1. OK(r)
    BY <1>2
  <2>2. q \in Seq(A) /\ Elements(q) = Elements(r) \cup {x} /\ Len(q) = Len(r) + 1
    BY ElementsAppend
  <2>3. Distinct(q) => Distinct(r) /\ x \notin Elements(r)
    <3>1. /\ DOMAIN r = 1..Len(r) /\ DOMAIN q = 1..(Len(r) + 1)
          /\ Len(r) \in Nat /\ q[Len(r) + 1] = x /\ \A i \in DOMAIN r : q[i] = r[i]
      OBVIOUS
    <3> HIDE DEF q
    <3>2. DOMAIN r \subseteq DOMAIN q /\ Len(r) + 1 \in DOMAIN q /\ Len(r) + 1 \notin DOMAIN r
      BY <3>1
    <3> QED BY <3>1, <3>2 DEF Distinct, Elements
  <2> HIDE DEF q
  <2>4. /\ IsFiniteSet(Elements(r) \cup {x})
        /\ x \notin Elements(r) => Cardinality(Elements(r) \cup {x}) = Cardinality(Elements(r)) + 1
    BY <2>1, FS_AddElement
  <2>5. OK(q)
    BY <2>1, <2>2, <2>3, <2>4
  <2> QED BY <2>2, <2>5 DEF q
<1> HIDE DEF T
<1>3. Seq(A) \subseteq T
  BY <1>1, <1>2, SequenceInduction
<1> QED BY <1>3 DEF T
-----------------------------------------------------------------------------
(* Call stacks.  Ordered: which entry may be above which; Followed: what   *)
(* is in K has something of L below it.                                    *)
Ordered(s, R) == \A i, j \in DOMAIN s : i < j => <<s[i], s[j]>> \in R
Followed(s, K, L) == \A i \in DOMAIN s : s[i] \in K => \E j \in DOMAIN s : i < j /\ s[j] \in L

LEMMA TailShifts ==
  ASSUME NEW A, NEW s \in Seq(A), s # <<>>
  PROVE  /\ 1 \in DOMAIN s /\ Head(s) = s[1] /\ DOMAIN s \subseteq Nat
         /\ \A i \in DOMAIN Tail(s) : /\ i \in Nat /\ 0 < i
                                      /\ i + 1 \in DOMAIN s /\ Tail(s)[i] = s[i + 1]
         /\ \A i \in DOMAIN s : 1 < i => i - 1 \in DOMAIN Tail(s) /\ s[i] = Tail(s)[i - 1]
OBVIOUS

LEMMA StackTail ==
  ASSUME NEW A, NEW s \in Seq(A), s # <<>>, NEW R, NEW K, NEW L
  PROVE  /\ Ordered(s, R) => /\ Ordered(Tail(s), R)
                             /\ \A y \in Elements(Tail(s)) : <<Head(s), y>> \in R
         /\ Followed(s, K, L) => /\ Followed(Tail(s), K, L)
                                 /\ Head(s) \in K => \E y \in Elements(Tail(s)) : y \in L
<1> DEFINE t == Tail(s)
<1>1. /\ 1 \in DOMAIN s /\ Head(s) = s[1] /\ DOMAIN s \subseteq Nat
      /\ \A i \in DOMAIN t : i \in Nat /\ 0 < i /\ i + 1 \in DOMAIN s /\ t[i] = s[i + 1]
      /\ \A i \in DOMAIN s : 1 < i => i - 1 \in DOMAIN t /\ s[i] = t[i - 1]
  BY TailShifts
<1> HIDE DEF t
<1>2. ASSUME Ordered(s, R)
      PROVE  Ordered(t, R) /\ \A y \in Elements(t) : <<Head(s), y>> \in R
  <2>1. ASSUME NEW i \in DOMAIN t, NEW j \in DOMAIN t, i < j PROVE <<t[i], t[j]>> \in R
    <3>1. i + 1 \in DOMAIN s /\ j + 1 \in DOMAIN s /\ i + 1 < j + 1
      BY <1>1, <2>1
    <3> QED BY <1>1, <1>2, <3>1 DEF Ordered
  <2>2. ASSUME NEW i \in DOMAIN t PROVE <<Head(s), t[i]>> \in R
    <3>1. i + 1 \in DOMAIN s /\ 1 < i + 1
      BY <1>1
    <3> QED BY <1>1, <1>2, <3>1 DEF Ordered
  <2> QED BY <2>1, <2>2 DEF Ordered, Elements
<1>3. ASSUME Followed(s, K, L)
      PROVE  Followed(t, K, L) /\ (Head(s) \in K => \E y \in Elements(t) : y \in L)
  <2>1. ASSUME NEW i \in DOMAIN t, t[i] \in K PROVE \E j \in DOMAIN t : i < j /\ t[j] \in L
    <3>1. PICK j \in DOMAIN s : i + 1 < j /\ s[j] \in L
      BY <1>1, <1>3, <2>1 DEF Followed
    <3>2. j - 1 \in DOMAIN t /\ t[j - 1] = s[j] /\ i < j - 1
      BY <1>1, <3>1
    <3> QED BY <3>1, <3>2
  <2>2. ASSUME Head(s) \in K PROVE \E j \in DOMAIN t : t[j] \in L
    <3>1. PICK j \in DOMAIN s : 1 < j /\ s[j] \in L
      BY <1>1, <1>3, <2>2 DEF Followed
    <3>2. j - 1 \in DOMAIN t /\ t[j - 1] = s[j]
      BY <1>1, <3>1
    <3> QED BY <3>1, <3>2
  <2> QED BY <2>1, <2>2 DEF Followed, Elements
<1> QED BY <1>2, <1>3 DEF t

LEMMA ConcatShifts ==
  ASSUME NEW A, NEW e \in Seq(A), NEW t \in Seq(A)
  PROVE  /\ Len(e) \in Nat
         /\ \A i \in DOMAIN e : i \in Nat /\ i <= Len(e) /\ i \in DOMAIN (e \o t) /\ (e \o t)[i] = e[i]
         /\ \A i \in DOMAIN t : /\ i \in Nat /\ 0 < i
                                /\ i + Len(e) \in DOMAIN (e \o t) /\ (e \o t)[i + Len(e)] = t[i]
         /\ \A i \in DOMAIN (e \o t) :
              \/ i \in DOMAIN e
              \/ i - Len(e) \in DOMAIN t /\ (e \o t)[i] = t[i - Len(e)] /\ Len(e) < i
         /\ DOMAIN (e \o t) \subseteq Nat
<1> DEFINE r == e \o t
<1>1. /\ r \in Seq(A) /\ Len(r) = Len(e) + Len(t)
      /\ \A i \in DOMAIN r : r[i] = IF i <= Len(e) THEN e[i] ELSE t[i - Len(e)]
      /\ DOMAIN e = 1..Len(e) /\ DOMAIN t = 1..Len(t) /\ DOMAIN r = 1..(Len(e) + Len(t))
      /\ Len(e) \in Nat /\ Len(t) \in Nat
  OBVIOUS
<1> HIDE DEF r
<1>2. \A i \in DOMAIN e : i \in Nat /\ i <= Len(e) /\ i \in DOMAIN r /\ r[i] = e[i]
  BY <1>1
<1>3. ASSUME NEW i \in DOMAIN t
      PROVE  i \in Nat /\ 0 < i /\ i + Len(e) \in DOMAIN r /\ r[i + Len(e)] = t[i]
  <2>1. i \in Nat /\ 0 < i /\ i + Len(e) \in DOMAIN r /\ ~(i + Len(e) <= Len(e)) /\ i + Len(e) - Len(e) = i
    BY <1>1
  <2> QED BY <1>1, <2>1
<1>4. ASSUME NEW i \in DOMAIN r
      PROVE  \/ i \in DOMAIN e
             \/ i - Len(e) \in DOMAIN t /\ r[i] = t[i - Len(e)] /\ Len(e) < i
  BY <1>1
<1>5. DOMAIN r \subseteq Nat
  BY <1>1
<1> QED BY <1>1, <1>2, <1>3, <1>4, <1>5 DEF r

LEMMA StackConcat ==
  ASSUME NEW A, NEW e \in Seq(A), NEW t \in Seq(A), NEW R, NEW K, NEW L
  PROVE  /\ /\ Ordered(e, R) /\ Ordered(t, R)
            /\ \A x \in Elements(e), y \in Elements(t) : <<x, y>> \in R
            => Ordered(e \o t, R)
         /\ Followed(e, K, L) /\ Followed(t, K, L) => Followed(e \o t, K, L)
<1> DEFINE r == e \o t
           n == Len(e)
<1>1. /\ n \in Nat
      /\ \A i \in DOMAIN e : i \in Nat /\ i <= n /\ i \in DOMAIN r /\ r[i] = e[i]
      /\ \A i \in DOMAIN t : i \in Nat /\ 0 < i /\ i + n \in DOMAIN r /\ r[i + n] = t[i]
      /\ \A i \in DOMAIN r : \/ i \in DOMAIN e
                             \/ i - n \in DOMAIN t /\ r[i] = t[i - n] /\ n < i
      /\ DOMAIN r \subseteq Nat
  BY ConcatShifts
<1> HIDE DEF r, n
<1>2. ASSUME Ordered(e, R), Ordered(t, R),
             \A x \in Elements(e), y \in Elements(t) : <<x, y>> \in R
      PROVE  Ordered(r, R)
  <2> SUFFICES ASSUME NEW i \in DOMAIN r, NEW j \in DOMAIN r, i < j PROVE <<r[i], r[j]>> \in R
    BY DEF Ordered
  <2>1. CASE i \in DOMAIN e /\ j \in DOMAIN e
    BY <1>1, <1>2, <2>1 DEF Ordered
  <2>2. CASE i \in DOMAIN e /\ j - n \in DOMAIN t /\ r[j] = t[j - n]
    <3>1. r[i] \in Elements(e) /\ r[j] \in Elements(t)
      BY <1>1, <2>2 DEF Elements
    <3> QED BY <1>2, <3>1
  <2>3. CASE i - n \in DOMAIN t /\ r[i] = t[i - n] /\ j - n \in DOMAIN t /\ r[j] = t[j - n]
    <3>1. i - n < j - n
      BY <1>1
    <3> QED BY <1>2, <2>3, <3>1 DEF Ordered
  <2>4. ~(i - n \in DOMAIN t /\ n < i /\ j \in DOMAIN e)
    BY <1>1
  <2> QED BY <1>1, <2>1, <2>2, <2>3, <2>4
<1>3. ASSUME Followed(e, K, L), Followed(t, K, L) PROVE Followed(r, K, L)
  <2> SUFFICES ASSUME NEW i \in DOMAIN r, r[i] \in K PROVE \E j \in DOMAIN r : i < j /\ r[j] \in L
    BY DEF Followed
  <2>1. CASE i \in DOMAIN e
    BY <1>1, <1>3, <2>1 DEF Followed
  <2>2. CASE i - n \in DOMAIN t /\ r[i] = t[i - n]
    <3>1. PICK j \in DOMAIN t : i - n < j /\ t[j] \in L
      BY <1>3, <2>2 DEF Followed
    <3>2. j + n \in DOMAIN r /\ i < j + n /\ r[j + n] = t[j]
      BY <1>1, <3>1
    <3> QED BY <3>1, <3>2
  <2> QED BY <1>1, <2>1, <2>2
<1> QED BY <1>2, <1>3 DEF r

-----------------------------------------------------------------------------
(* How many entries of a sequence are in K. *)
Tally(s, K) == Cardinality({i \in DOMAIN s : s[i] \in K})

LEMMA TallyEmpty == \A K : Tally(<<>>, K) = 0
<1> TAKE K
<1>1. {i \in DOMAIN <<>> : <<>>[i] \in K} = {}
  OBVIOUS
<1> QED BY <1>1, FS_EmptySet DEF Tally

LEMMA TallyAppend ==
  ASSUME NEW A, NEW s \in Seq(A), NEW x \in A, NEW K
  PROVE  /\ Tally(s, K) \in Nat
         /\ Tally(Append(s, x), K) = Tally(s, K) + IF x \in K THEN 1 ELSE 0
<1> DEFINE t == Append(s, x)
           I == {i \in DOMAIN s : s[i] \in K}
           J == {i \in DOMAIN t : t[i] \in K}
<1>1. /\ t \in Seq(A) /\ DOMAIN s = 1..Len(s) /\ DOMAIN t = 1..(Len(s) + 1)
      /\ Len(s) \in Nat /\ t[Len(s) + 1] = x /\ \A i \in DOMAIN s : t[i] = s[i]
  OBVIOUS
<1> HIDE DEF t
<1>2. DOMAIN t = DOMAIN s \cup {Len(s) + 1} /\ Len(s) + 1 \notin DOMAIN s
  BY <1>1
<1>3. J = IF x \in K THEN I \cup {Len(s) + 1} ELSE I
  BY <1>1, <1>2
<1>4. IsFiniteSet(I) /\ Len(s) + 1 \notin I
  <2>1. IsFiniteSet(1..Len(s))
    BY <1>1, FS_Interval
  <2> QED BY <1>1, <1>2, <2>1, FS_Subset
<1>5. Cardinality(I) \in Nat /\ Cardinality(I \cup {Len(s) + 1}) = Cardinality(I) + 1
  BY <1>4, FS_AddElement, FS_CardinalityType
<1> HIDE DEF I, J
<1>6. Cardinality(J) = Cardinality(I) + IF x \in K THEN 1 ELSE 0
  BY <1>3, <1>5
<1> QED BY <1>5, <1>6 DEF Tally, t, I, J

LEMMA TallyConcat ==
  ASSUME NEW A, NEW e \in Seq(A), NEW s \in Seq(A), NEW K
  PROVE  /\ Tally(s, K) \in Nat
         /\ Tally(e \o s, K) = Tally(e, K) + Tally(s, K)
<1> DEFINE OK(r) == Tally(r, K) \in Nat /\ Tally(e \o r, K) = Tally(e, K) + Tally(r, K)
           T == {r \in Seq(A) : OK(r)}
<1>0. Tally(e, K) \in Nat
  <2>1. CASE e = <<>>
    BY <2>1, TallyEmpty
  <2>2. CASE e # <<>>
    <3>1. e[1] \in A
      BY <2>2
    <3> QED BY <3>1, TallyAppend
  <2> QED BY <2>1, <2>2
<1>1. <<>> \in T
  <2>1. <<>> \in Seq(A) /\ e \o <<>> = e
    OBVIOUS
  <2>2. Tally(<<>>, K) = 0
    BY TallyEmpty
  <2>3. OK(<<>>)
    BY <1>0, <2>1, <2>2
  <2> HIDE DEF OK
  <2> QED BY <2>1, <2>3
<1>2. ASSUME NEW r \in Seq(A), r \in T, NEW x \in A
      PROVE  Append(r, x) \in T
  <2>1. OK(r)
    BY <1>2
  <2>2. e \o r \in Seq(A) /\ Append(r, x) \in Seq(A) /\ e \o Append(r, x) = Append(e \o r, x)
    OBVIOUS
  <2>3. Tally(Append(r, x), K) = Tally(r, K) + IF x \in K THEN 1 ELSE 0
    BY TallyAppend
  <2>4. Tally(Append(e \o r, x), K) = Tally(e \o r, K) + IF x \in K THEN 1 ELSE 0
    BY <2>2, TallyAppend
  <2>5. OK(Append(r, x))
    BY <1>0, <2>1, <2>2, <2>3, <2>4
  <2> HIDE DEF OK
  <2> QED BY <2>2, <2>5
<1> HIDE DEF T
<1>3. Seq(A) \subseteq T
  BY <1>1, <1>2, SequenceInduction
<1> QED BY <1>3 DEF T

LEMMA TallySingle ==
  ASSUME NEW x, NEW K
  PROVE  Tally(<<x>>, K) = IF x \in K THEN 1 ELSE 0
<1>1. {i \in DOMAIN <<x>> : <<x>>[i] \in K} = IF x \in K THEN {1} ELSE {}
  OBVIOUS
<1>2. Cardinality({1}) = 1 /\ Cardinality({}) = 0
  BY FS_Singleton, FS_EmptySet
<1> QED BY <1>1, <1>2 DEF Tally

LEMMA TallyTail ==
  ASSUME NEW A, NEW s \in Seq(A), s # <<>>, NEW K
  PROVE  /\ Tally(Tail(s), K) \in Nat
         /\ Tally(s, K) = Tally(Tail(s), K) + IF Head(s) \in K THEN 1 ELSE 0
<1>1. /\ Head(s) \in A /\ Tail(s) \in Seq(A) /\ <<Head(s)>> \in Seq(A)
      /\ s = <<Head(s)>> \o Tail(s) /\ <<Head(s)>> = Append(<<>>, Head(s)) /\ <<>> \in Seq(A)
  OBVIOUS
<1>2. /\ Tally(Tail(s), K) \in Nat
      /\ Tally(<<Head(s)>> \o Tail(s), K) = Tally(<<Head(s)>>, K) + Tally(Tail(s), K)
  BY <1>1, TallyConcat
<1>3. Tally(<<Head(s)>>, K) = IF Head(s) \in K THEN 1 ELSE 0
  BY TallySingle
<1> DEFINE a == Tally(Tail(s), K)
           b == Tally(<<Head(s)>>, K)
           c == Tally(s, K)
<1>4. a \in Nat /\ c = b + a
  <2>1. c = Tally(<<Head(s)>> \o Tail(s), K)
    BY <1>1
  <2> QED BY <2>1, <1>2
<1>5. b = IF Head(s) \in K THEN 1 ELSE 0
  BY <1>3
<1> HIDE DEF a, b, c
<1>6. c = a + IF Head(s) \in K THEN 1 ELSE 0
  BY <1>4, <1>5
<1> QED BY <1>4, <1>6 DEF a, c

(* Nothing is counted exactly if nothing is there. *)
LEMMA TallyZero ==
  ASSUME NEW A, NEW s \in Seq(A), NEW K
  PROVE  Tally(s, K) = 0 <=> \A x \in Elements(s) : x \notin K
<1> DEFINE I == {i \in DOMAIN s : s[i] \in K}
<1>1. IsFiniteSet(I)
  <2>1. Len(s) \in Int /\ 1 \in Int /\ I \subseteq 1..Len(s)
    OBVIOUS
  <2>2. IsFiniteSet(1..Len(s))
    BY <2>1, FS_Interval
  <2> QED BY <2>1, <2>2, FS_Subset
<1>2. Cardinality(I) = 0 <=> I = {}
  BY <1>1, FS_EmptySet
<1>3. I = {} <=> \A x \in Elements(s) : x \notin K
  BY DEF Elements
<1> QED BY <1>2, <1>3 DEF Tally

-----------------------------------------------------------------------------
(* A sequence before another, taken apart and counted together. *)
LEMMA ConcatAt ==
  ASSUME NEW A, NEW e \in Seq(A), NEW t \in Seq(A)
  PROVE  /\ e \o t \in Seq(A) /\ Len(e \o t) = Len(e) + Len(t)
         /\ \A i \in 1..(Len(e) + Len(t)) : (e \o t)[i] = IF i <= Len(e) THEN e[i] ELSE t[i - Len(e)]
OBVIOUS

LEMMA ConcatAssociates ==
  ASSUME NEW A, NEW e \in Seq(A), NEW t \in Seq(A), NEW u \in Seq(A)
  PROVE  (e \o t) \o u = e \o (t \o u)
<1>1. PICK p : p = e \o t
  OBVIOUS
<1>2. PICK q : q = t \o u
  OBVIOUS
<1>3. Len(e) \in Nat /\ Len(t) \in Nat /\ Len(u) \in Nat
  OBVIOUS
<1>4. /\ p \in Seq(A) /\ Len(p) = Len(e) + Len(t)
      /\ \A i \in 1..(Len(e) + Len(t)) : p[i] = IF i <= Len(e) THEN e[i] ELSE t[i - Len(e)]
  BY <1>1, ConcatAt
<1>5. /\ q \in Seq(A) /\ Len(q) = Len(t) + Len(u)
      /\ \A i \in 1..(Len(t) + Len(u)) : q[i] = IF i <= Len(t) THEN t[i] ELSE u[i - Len(t)]
  BY <1>2, ConcatAt
<1>6. PICK r : r = p \o u
  OBVIOUS
<1>7. PICK s : s = e \o q
  OBVIOUS
<1>8. /\ r \in Seq(A) /\ Len(r) = Len(p) + Len(u)
      /\ \A i \in 1..(Len(p) + Len(u)) : r[i] = IF i <= Len(p) THEN p[i] ELSE u[i - Len(p)]
  <2>1. p \in Seq(A)
    BY <1>4
  <2> QED BY <1>6, <2>1, ConcatAt
<1>9. /\ s \in Seq(A) /\ Len(s) = Len(e) + Len(q)
      /\ \A i \in 1..(Len(e) + Len(q)) : s[i] = IF i <= Len(e) THEN e[i] ELSE q[i - Len(e)]
  <2>1. q \in Seq(A)
    BY <1>5
  <2> QED BY <1>7, <2>1, ConcatAt
<1>10. ASSUME NEW i \in 1..Len(r) PROVE r[i] = s[i]
  <2>1. i \in 1..(Len(p) + Len(u)) /\ i \in 1..(Len(e) + Len(q))
    BY <1>3, <1>4, <1>5, <1>8
  <2>2. CASE i <= Len(e)
    <3>1. i \in 1..(Len(e) + Len(t)) /\ i <= Len(p)
      BY <1>3, <1>4, <2>2
    <3> QED BY <1>4, <1>8, <1>9, <2>1, <2>2, <3>1
  <2>3. CASE ~(i <= Len(e)) /\ i <= Len(p)
    <3>1. i \in 1..(Len(e) + Len(t)) /\ i - Len(e) \in 1..(Len(t) + Len(u)) /\ i - Len(e) <= Len(t)
      BY <1>3, <1>4, <2>3
    <3> QED BY <1>4, <1>5, <1>8, <1>9, <2>1, <2>3, <3>1
  <2>4. CASE ~(i <= Len(p))
    <3>1. /\ ~(i <= Len(e)) /\ i - Len(e) \in 1..(Len(t) + Len(u)) /\ ~(i - Len(e) <= Len(t))
          /\ i - Len(p) = (i - Len(e)) - Len(t)
      BY <1>3, <1>4, <1>5, <2>1, <2>4
    <3> QED BY <1>5, <1>8, <1>9, <2>1, <2>4, <3>1
  <2> QED BY <2>2, <2>3, <2>4
<1>11. Len(r) = Len(s)
  BY <1>3, <1>4, <1>5, <1>8, <1>9
<1>12. r = s
  <2>1. r \in Seq(A) /\ s \in Seq(A)
    BY <1>8, <1>9
  <2>2. r = [i \in 1..Len(r) |-> r[i]] /\ s = [i \in 1..Len(s) |-> s[i]]
    BY <2>1
  <2>3. [i \in 1..Len(r) |-> r[i]] = [i \in 1..Len(r) |-> s[i]]
    BY <1>10
  <2> QED BY <1>11, <2>2, <2>3
<1> QED BY <1>1, <1>2, <1>6, <1>7, <1>12

(* A sequence with a first element x and r after it, put before t.         *)
LEMMA ConcatHead ==
  ASSUME NEW A, NEW e \in Seq(A), e # <<>>, NEW t \in Seq(A), NEW x, x = Head(e), NEW r, r = Tail(e)
  PROVE  r \in Seq(A) /\ e \o t = <<x>> \o (r \o t)
<1>1. e = <<x>> \o r /\ <<x>> \in Seq(A) /\ r \in Seq(A)
  OBVIOUS
<1>2. PICK h : h = <<x>>
  OBVIOUS
<1> QED BY <1>1, <1>2, ConcatAssociates

-----------------------------------------------------------------------------
(* What is left of s when n elements are taken off, and stacks on which    *)
(* every element of B has one of E below it, another for every one.        *)
Rest(s, n) == [i \in 1..(Len(s) - n) |-> s[i + n]]
Backed(s, B, E) == \A n \in 0..Len(s) : Tally(Rest(s, n), B) <= Tally(Rest(s, n), E)

LEMMA RestTyped ==
  ASSUME NEW A, NEW s \in Seq(A), NEW n \in 0..Len(s)
  PROVE  Rest(s, n) \in Seq(A) /\ Elements(Rest(s, n)) \subseteq Elements(s)
<1>1. Len(s) - n \in Nat /\ \A i \in 1..(Len(s) - n) : i + n \in DOMAIN s
  OBVIOUS
<1> QED BY <1>1 DEF Rest, Elements

LEMMA BackedTally ==
  ASSUME NEW A, NEW s \in Seq(A), NEW B, NEW E, Backed(s, B, E)
  PROVE  Tally(s, B) <= Tally(s, E)
<1>1. Rest(s, 0) = s /\ 0 \in 0..Len(s)
  BY DEF Rest
<1> QED BY <1>1 DEF Backed

LEMMA BackedTail ==
  ASSUME NEW A, NEW s \in Seq(A), s # <<>>, NEW B, NEW E, Backed(s, B, E)
  PROVE  Backed(Tail(s), B, E)
<1> SUFFICES ASSUME NEW n \in 0..Len(Tail(s))
             PROVE  Tally(Rest(Tail(s), n), B) <= Tally(Rest(Tail(s), n), E)
  BY DEF Backed
<1>1. /\ Len(Tail(s)) = Len(s) - 1 /\ Len(s) \in Nat /\ Len(s) > 0
      /\ \A i \in 1..(Len(s) - 1) : Tail(s)[i] = s[i + 1]
  OBVIOUS
<1>2. n + 1 \in 0..Len(s) /\ n \in Nat
  BY <1>1
<1>3. Rest(Tail(s), n) = Rest(s, n + 1)
  <2>1. Len(Tail(s)) - n = Len(s) - (n + 1)
    BY <1>1, <1>2
  <2>2. \A i \in 1..(Len(s) - (n + 1)) : Tail(s)[i + n] = s[i + (n + 1)]
    BY <1>1, <1>2
  <2> QED BY <2>1, <2>2 DEF Rest
<1> QED BY <1>2, <1>3 DEF Backed

LEMMA BackedPush ==
  ASSUME NEW A, NEW x \in A, NEW t \in Seq(A), NEW B, NEW E, Backed(t, B, E),
         x \in B => Tally(t, B) < Tally(t, E)
  PROVE  Backed(<<x>> \o t, B, E)
<1>1. PICK s : s = <<x>> \o t
  OBVIOUS
<1>2. /\ s \in Seq(A) /\ s # <<>> /\ Head(s) = x /\ Tail(s) = t /\ Len(s) = Len(t) + 1 /\ Len(t) \in Nat
      /\ \A i \in 1..Len(t) : s[i + 1] = t[i]
  BY <1>1
<1> SUFFICES ASSUME NEW n \in 0..Len(s)
             PROVE  Tally(Rest(s, n), B) <= Tally(Rest(s, n), E)
  BY <1>1 DEF Backed
<1>3. CASE n = 0
  <2>1. Rest(s, n) = s
    BY <1>2, <1>3 DEF Rest
  <2>2. /\ Tally(t, B) \in Nat /\ Tally(s, B) = Tally(t, B) + (IF x \in B THEN 1 ELSE 0)
        /\ Tally(t, E) \in Nat /\ Tally(s, E) = Tally(t, E) + (IF x \in E THEN 1 ELSE 0)
    BY <1>2, TallyTail
  <2>3. Tally(t, B) <= Tally(t, E)
    BY BackedTally
  <2> QED BY <2>1, <2>2, <2>3
<1>4. CASE n # 0
  <2>1. n - 1 \in 0..Len(t) /\ Len(s) - n = Len(t) - (n - 1)
    BY <1>2, <1>4
  <2>2. \A i \in 1..(Len(s) - n) : s[i + n] = t[i + (n - 1)]
    <3> SUFFICES ASSUME NEW i \in 1..(Len(s) - n) PROVE s[i + n] = t[i + (n - 1)]
      OBVIOUS
    <3>1. i + (n - 1) \in 1..Len(t) /\ (i + (n - 1)) + 1 = i + n
      BY <1>2, <1>4
    <3> QED BY <1>2, <3>1
  <2>3. Rest(s, n) = Rest(t, n - 1)
    BY <2>1, <2>2 DEF Rest
  <2> QED BY <2>1, <2>3 DEF Backed
<1> QED BY <1>3, <1>4

LEMMA BackedNone ==
  ASSUME NEW A, NEW s \in Seq(A), NEW B, NEW E, \A x \in Elements(s) : x \notin B
  PROVE  Backed(s, B, E)
<1> SUFFICES ASSUME NEW n \in 0..Len(s)
             PROVE  Tally(Rest(s, n), B) <= Tally(Rest(s, n), E)
  BY DEF Backed
<1>1. PICK q : q = Rest(s, n)
  OBVIOUS
<1>2. q \in Seq(A) /\ Elements(q) \subseteq Elements(s)
  BY <1>1, RestTyped
<1>3. Tally(q, B) = 0 /\ Tally(q, E) \in Nat
  BY <1>2, TallyZero, TallyConcat
<1> QED BY <1>1, <1>3
-----------------------------------------------------------------------------
(* One element before a sequence, and literal sequences before one. *)
LEMMA Pushing ==
  ASSUME NEW A, NEW x \in A, NEW t \in Seq(A), NEW s, s = <<x>> \o t
  PROVE  /\ s \in Seq(A) /\ s # <<>> /\ Head(s) = x /\ Tail(s) = t
         /\ Elements(s) = {x} \cup Elements(t)
         /\ \A K : Tally(s, K) = Tally(t, K) + IF x \in K THEN 1 ELSE 0
<1>1. s \in Seq(A) /\ s # <<>> /\ Head(s) = x /\ Tail(s) = t
  OBVIOUS
<1>2. Elements(s) = {x} \cup Elements(t)
  BY <1>1, ElementsTail
<1>3. \A K : Tally(s, K) = Tally(t, K) + IF x \in K THEN 1 ELSE 0
  <2>1. TAKE K
  <2>2. Tally(s, K) = Tally(Tail(s), K) + IF Head(s) \in K THEN 1 ELSE 0
    BY <1>1, TallyTail
  <2> QED BY <1>1, <2>2
<1> QED BY <1>1, <1>2, <1>3

LEMMA PushingKeeps ==
  ASSUME NEW A, NEW x \in A, NEW t \in Seq(A), NEW s, s = <<x>> \o t, NEW R, NEW K, NEW L
  PROVE  /\ Ordered(t, R) /\ (\A y \in Elements(t) : <<x, y>> \in R) => Ordered(s, R)
         /\ Followed(t, K, L) /\ (x \in K => \E y \in Elements(t) : y \in L) => Followed(s, K, L)
<1>1. s \in Seq(A) /\ s # <<>> /\ Tail(s) = t /\ s[1] = x
  OBVIOUS
<1>2. /\ DOMAIN s \subseteq Nat
      /\ \A i \in DOMAIN t : i \in Nat /\ 0 < i /\ i + 1 \in DOMAIN s /\ t[i] = s[i + 1]
      /\ \A i \in DOMAIN s : 1 < i => i - 1 \in DOMAIN t /\ s[i] = t[i - 1]
  BY <1>1, TailShifts
<1>3. \A i \in DOMAIN s : i = 1 \/ 1 < i
  <2>1. DOMAIN s = 1..Len(s) /\ Len(s) \in Nat
    BY <1>1
  <2> QED BY <2>1
<1>4. ASSUME Ordered(t, R), \A y \in Elements(t) : <<x, y>> \in R PROVE Ordered(s, R)
  <2>1. SUFFICES ASSUME NEW i \in DOMAIN s, NEW j \in DOMAIN s, i < j PROVE <<s[i], s[j]>> \in R
    BY DEF Ordered
  <2>2. j - 1 \in DOMAIN t /\ s[j] = t[j - 1]
    BY <1>2, <1>3, <2>1
  <2>3. CASE i = 1
    <3>1. t[j - 1] \in Elements(t)
      BY <2>2 DEF Elements
    <3> QED BY <1>1, <1>4, <2>2, <2>3, <3>1
  <2>4. CASE 1 < i
    <3>1. i - 1 \in DOMAIN t /\ s[i] = t[i - 1] /\ i - 1 < j - 1
      BY <1>2, <2>1, <2>4
    <3> QED BY <1>4, <2>2, <3>1 DEF Ordered
  <2> QED BY <1>3, <2>3, <2>4
<1>5. ASSUME Followed(t, K, L), x \in K => \E y \in Elements(t) : y \in L PROVE Followed(s, K, L)
  <2>1. SUFFICES ASSUME NEW i \in DOMAIN s, s[i] \in K PROVE \E j \in DOMAIN s : i < j /\ s[j] \in L
    BY DEF Followed
  <2>2. CASE 1 < i
    <3>1. i - 1 \in DOMAIN t /\ t[i - 1] \in K
      BY <1>2, <2>1, <2>2
    <3>2. PICK j \in DOMAIN t : i - 1 < j /\ t[j] \in L
      BY <1>5, <3>1 DEF Followed
    <3>3. j + 1 \in DOMAIN s /\ i < j + 1 /\ s[j + 1] \in L
      BY <1>2, <3>2
    <3> QED BY <3>3
  <2>3. CASE i = 1
    <3>1. PICK j \in DOMAIN t : t[j] \in L
      BY <1>1, <1>5, <2>1, <2>3 DEF Elements
    <3>2. j + 1 \in DOMAIN s /\ i < j + 1 /\ s[j + 1] \in L
      BY <1>2, <2>3, <3>1
    <3> QED BY <3>2
  <2> QED BY <1>3, <2>2, <2>3
<1> QED BY <1>4, <1>5

LEMMA ConcatTwo ==
  ASSUME NEW A, NEW x \in A, NEW y \in A, NEW t \in Seq(A)
  PROVE  <<x, y>> \o t = <<x>> \o (<<y>> \o t)
<1>1. PICK e : e = <<x, y>>
  OBVIOUS
<1>2. PICK r : r = <<y>>
  OBVIOUS
<1>3. e \in Seq(A) /\ e # <<>> /\ x = Head(e) /\ r = Tail(e)
  BY <1>1, <1>2
<1>4. e \o t = <<x>> \o (r \o t)
  BY <1>3, ConcatHead
<1> QED BY <1>1, <1>2, <1>4

LEMMA ConcatThree ==
  ASSUME NEW A, NEW x \in A, NEW y \in A, NEW z \in A, NEW t \in Seq(A)
  PROVE  <<x, y, z>> \o t = <<x>> \o (<<y>> \o (<<z>> \o t))
<1>1. PICK e : e = <<x, y, z>>
  OBVIOUS
<1>2. PICK r : r = <<y, z>>
  OBVIOUS
<1>3. e \in Seq(A) /\ e # <<>> /\ x = Head(e) /\ r = Tail(e)
  BY <1>1, <1>2
<1>4. e \o t = <<x>> \o (r \o t)
  BY <1>3, ConcatHead
<1>5. r \o t = <<y>> \o (<<z>> \o t)
  BY <1>2, ConcatTwo
<1> QED BY <1>1, <1>4, <1>5
-----------------------------------------------------------------------------
(* Families of sequences. *)

(* Sets that correspond one to one have the same size. *)
LEMMA SameSize ==
  ASSUME NEW S, IsFiniteSet(S), NEW T, NEW f \in [S -> T],
         \A x, y \in S : f[x] = f[y] => x = y,
         \A y \in T : \E x \in S : f[x] = y
  PROVE  IsFiniteSet(T) /\ Cardinality(T) = Cardinality(S)
<1>1. f \in Injection(S, T)
  BY DEF Injection, IsInjective
<1>2. f \in Surjection(S, T)
  BY DEF Surjection
<1>3. ExistsBijection(S, T)
  BY <1>1, <1>2 DEF ExistsBijection, Bijection
<1> QED BY <1>3, FS_Bijection

(* What is counted depends only on the elements. *)
LEMMA TallySame ==
  ASSUME NEW s, NEW K, NEW L, \A x \in Elements(s) : x \in K <=> x \in L
  PROVE  Tally(s, K) = Tally(s, L)
<1>1. {i \in DOMAIN s : s[i] \in K} = {i \in DOMAIN s : s[i] \in L}
  BY DEF Elements
<1> QED BY <1>1 DEF Tally

(* Something is counted exactly if it is there. *)
LEMMA TallySome ==
  ASSUME NEW A, NEW s \in Seq(A), NEW K
  PROVE  /\ Tally(s, K) \in Nat
         /\ (\E x \in Elements(s) : x \in K) <=> Tally(s, K) > 0
<1>1. Tally(s, K) \in Nat
  BY TallyConcat
<1> QED BY <1>1, TallyZero

(* The places of x in one sequence, and in the sequences of F.             *)
Row(k, s, x) == {<<k, j>> : j \in {i \in DOMAIN s : s[i] = x}}
Places(F, x) == UNION {Row(k, F[k], x) : k \in DOMAIN F}

LEMMA RowCounted ==
  ASSUME NEW A, NEW s \in Seq(A), NEW k, NEW x
  PROVE  /\ IsFiniteSet(Row(k, s, x))
         /\ Cardinality(Row(k, s, x)) = Tally(s, {x})
         /\ Tally(s, {x}) \in Nat
<1> DEFINE I == {i \in DOMAIN s : s[i] \in {x}}
           f == [i \in I |-> <<k, i>>]
<1>1. IsFiniteSet(I)
  <2>1. Len(s) \in Int /\ 1 \in Int /\ I \subseteq 1..Len(s)
    OBVIOUS
  <2>2. IsFiniteSet(1..Len(s))
    BY <2>1, FS_Interval
  <2> QED BY <2>1, <2>2, FS_Subset
<1>2. f \in [I -> Row(k, s, x)]
  BY DEF Row
<1>3. \A i, j \in I : f[i] = f[j] => i = j
  OBVIOUS
<1>4. \A p \in Row(k, s, x) : \E i \in I : f[i] = p
  BY DEF Row
<1> HIDE DEF I, f
<1>5. IsFiniteSet(Row(k, s, x)) /\ Cardinality(Row(k, s, x)) = Cardinality(I)
  BY <1>1, <1>2, <1>3, <1>4, SameSize
<1>6. Cardinality(I) = Tally(s, {x})
  BY DEF I, Tally
<1>7. Tally(s, {x}) \in Nat
  BY TallySome
<1> QED BY <1>5, <1>6, <1>7

(* A family with one sequence more. *)
LEMMA PlacesSplit ==
  ASSUME NEW F, NEW G, NEW k \in DOMAIN F, NEW A, F[k] \in Seq(A), NEW x,
         DOMAIN F = DOMAIN G \cup {k}, k \notin DOMAIN G, \A j \in DOMAIN G : G[j] = F[j]
  PROVE  /\ IsFiniteSet(Places(F, x)) <=> IsFiniteSet(Places(G, x))
         /\ IsFiniteSet(Places(G, x)) =>
              /\ Cardinality(Places(F, x)) = Cardinality(Places(G, x)) + Tally(F[k], {x})
              /\ Cardinality(Places(G, x)) \in Nat /\ Tally(F[k], {x}) \in Nat
<1> DEFINE P == Places(F, x)
           Q == Places(G, x)
           R == Row(k, F[k], x)
<1>1. P = Q \cup R
  BY DEF Places
<1>2. Q \cap R = {}
  BY DEF Places, Row
<1>3. IsFiniteSet(R) /\ Cardinality(R) = Tally(F[k], {x}) /\ Tally(F[k], {x}) \in Nat
  BY RowCounted
<1> HIDE DEF P, Q, R
<1>4. IsFiniteSet(P) => IsFiniteSet(Q)
  BY <1>1, FS_Subset
<1>5. ASSUME IsFiniteSet(Q)
      PROVE  /\ IsFiniteSet(P) /\ Cardinality(P) = Cardinality(Q) + Cardinality(R)
             /\ Cardinality(Q) \in Nat
  <2>1. Cardinality({}) = 0 /\ Cardinality(Q) \in Nat
    BY <1>5, FS_EmptySet, FS_CardinalityType
  <2>2. IsFiniteSet(P) /\ Cardinality(P) = Cardinality(Q) + Cardinality(R) - Cardinality(Q \cap R)
    BY <1>1, <1>3, <1>5, FS_Union
  <2>3. Cardinality(Q \cap R) = 0 /\ Cardinality(R) \in Nat
    BY <1>2, <1>3, <2>1
  <2>4. \A a, b \in Nat : a + b - 0 = a + b
    OBVIOUS
  <2> QED BY <2>1, <2>2, <2>3, <2>4
<1>6. /\ IsFiniteSet(P) <=> IsFiniteSet(Q)
      /\ IsFiniteSet(Q) => /\ Cardinality(P) = Cardinality(Q) + Tally(F[k], {x})
                           /\ Cardinality(Q) \in Nat /\ Tally(F[k], {x}) \in Nat
  BY <1>3, <1>4, <1>5
<1> QED BY <1>6 DEF P, Q

(* A family with one sequence replaced: H has s for the one of F at k.     *)
Replaces(H, F, k, s) ==
  /\ k \in DOMAIN F /\ DOMAIN H = DOMAIN F /\ H[k] = s
  /\ \A j \in DOMAIN F : j # k => H[j] = F[j]

LEMMA PlacesUpdate ==
  ASSUME NEW A, NEW F, NEW H, NEW k, NEW s \in Seq(A), NEW x, Replaces(H, F, k, s),
         F[k] \in Seq(A), IsFiniteSet(Places(F, x))
  PROVE  /\ IsFiniteSet(Places(H, x)) /\ Cardinality(Places(H, x)) \in Nat
         /\ Tally(F[k], {x}) \in Nat /\ Tally(s, {x}) \in Nat
         /\ Cardinality(Places(H, x)) + Tally(F[k], {x}) = Cardinality(Places(F, x)) + Tally(s, {x})
<1>1. PICK G : G = [j \in DOMAIN F \ {k} |-> F[j]]
  OBVIOUS
<1>2. /\ DOMAIN F = DOMAIN G \cup {k} /\ k \in DOMAIN F /\ k \notin DOMAIN G
      /\ DOMAIN H = DOMAIN F /\ H[k] = s
      /\ \A j \in DOMAIN G : G[j] = F[j] /\ G[j] = H[j]
  BY <1>1 DEF Replaces
<1>3. /\ IsFiniteSet(Places(F, x)) <=> IsFiniteSet(Places(G, x))
      /\ IsFiniteSet(Places(G, x)) =>
           /\ Cardinality(Places(F, x)) = Cardinality(Places(G, x)) + Tally(F[k], {x})
           /\ Cardinality(Places(G, x)) \in Nat /\ Tally(F[k], {x}) \in Nat
  <2>1. \A j \in DOMAIN G : G[j] = F[j]
    BY <1>2
  <2> QED BY <1>2, <2>1, PlacesSplit
<1>4. /\ IsFiniteSet(Places(H, x)) <=> IsFiniteSet(Places(G, x))
      /\ IsFiniteSet(Places(G, x)) =>
           /\ Cardinality(Places(H, x)) = Cardinality(Places(G, x)) + Tally(H[k], {x})
           /\ Cardinality(Places(G, x)) \in Nat /\ Tally(H[k], {x}) \in Nat
  <2>1. /\ DOMAIN H = DOMAIN G \cup {k} /\ k \in DOMAIN H
        /\ H[k] \in Seq(A) /\ \A j \in DOMAIN G : G[j] = H[j]
    BY <1>2
  <2> QED BY <1>2, <2>1, PlacesSplit
<1>5. Cardinality(Places(H, x)) \in Nat
  BY <1>3, <1>4, FS_CardinalityType
<1> QED BY <1>2, <1>3, <1>4, <1>5

(* A family by other numbers. *)
LEMMA PlacesReindexed ==
  ASSUME NEW F, NEW H, NEW x, IsFiniteSet(Places(F, x)),
         NEW f \in [DOMAIN H -> DOMAIN F],
         \A j, k \in DOMAIN H : f[j] = f[k] => j = k,
         \A k \in DOMAIN F : \E j \in DOMAIN H : f[j] = k,
         \A j \in DOMAIN H : H[j] = F[f[j]]
  PROVE  IsFiniteSet(Places(H, x)) /\ Cardinality(Places(H, x)) = Cardinality(Places(F, x))
<1>1. \A p \in Places(H, x) : \E j \in DOMAIN H : \E i \in DOMAIN H[j] : p = <<j, i>> /\ H[j][i] = x
  BY DEF Places, Row
<1>2. \A j \in DOMAIN F : \A i \in DOMAIN F[j] : F[j][i] = x => <<j, i>> \in Places(F, x)
  BY DEF Places, Row
<1>3. \A p \in Places(F, x) : \E j \in DOMAIN F : \E i \in DOMAIN F[j] : p = <<j, i>> /\ F[j][i] = x
  BY DEF Places, Row
<1>4. \A j \in DOMAIN H : \A i \in DOMAIN H[j] : H[j][i] = x => <<j, i>> \in Places(H, x)
  BY DEF Places, Row
<1> DEFINE g == [k \in DOMAIN F |-> CHOOSE j \in DOMAIN H : f[j] = k]
<1>5. \A k \in DOMAIN F : g[k] \in DOMAIN H /\ f[g[k]] = k
  OBVIOUS
<1> HIDE DEF g
<1> DEFINE h == [p \in Places(F, x) |-> <<g[p[1]], p[2]>>]
<1>6. h \in [Places(F, x) -> Places(H, x)]
  <2>1. ASSUME NEW p \in Places(F, x) PROVE <<g[p[1]], p[2]>> \in Places(H, x)
    <3>1. PICK j \in DOMAIN F : \E i \in DOMAIN F[j] : p = <<j, i>> /\ F[j][i] = x
      BY <1>3
    <3>2. PICK i \in DOMAIN F[j] : p = <<j, i>> /\ F[j][i] = x
      BY <3>1
    <3>3. g[j] \in DOMAIN H /\ H[g[j]] = F[j] /\ p[1] = j /\ p[2] = i
      BY <1>5, <3>2
    <3> QED BY <1>4, <3>2, <3>3
  <2> QED BY <2>1
<1>7. ASSUME NEW p \in Places(F, x), NEW q \in Places(F, x), h[p] = h[q] PROVE p = q
  <2>1. PICK j \in DOMAIN F : \E i \in DOMAIN F[j] : p = <<j, i>>
    BY <1>3
  <2>2. PICK i \in DOMAIN F[j] : p = <<j, i>>
    BY <2>1
  <2>3. PICK k \in DOMAIN F : \E l \in DOMAIN F[k] : q = <<k, l>>
    BY <1>3
  <2>4. PICK l \in DOMAIN F[k] : q = <<k, l>>
    BY <2>3
  <2>5. g[j] = g[k] /\ i = l
    BY <1>7, <2>2, <2>4
  <2> QED BY <1>5, <2>2, <2>4, <2>5
<1>8. ASSUME NEW p \in Places(H, x) PROVE \E q \in Places(F, x) : h[q] = p
  <2>1. PICK j \in DOMAIN H : \E i \in DOMAIN H[j] : p = <<j, i>> /\ H[j][i] = x
    BY <1>1
  <2>2. PICK i \in DOMAIN H[j] : p = <<j, i>> /\ H[j][i] = x
    BY <2>1
  <2>3. f[j] \in DOMAIN F /\ H[j] = F[f[j]] /\ g[f[j]] = j
    BY <1>5
  <2>4. <<f[j], i>> \in Places(F, x)
    BY <1>2, <2>2, <2>3
  <2> QED BY <2>2, <2>3, <2>4
<1> HIDE DEF h
<1> QED BY <1>6, <1>7, <1>8, SameSize

(* A family without one of its sequences, numbered anew.                   *)
Gap(k) == [j \in Nat |-> IF j < k THEN j ELSE j + 1]

LEMMA GapFacts ==
  ASSUME NEW n \in Nat, NEW k \in 1..n
  PROVE  /\ \A j \in 1..(n - 1) : Gap(k)[j] \in (1..n) \ {k}
         /\ \A i, j \in 1..(n - 1) : Gap(k)[i] = Gap(k)[j] => i = j
         /\ \A j \in (1..n) \ {k} : \E i \in 1..(n - 1) : Gap(k)[i] = j
<1>1. \A j \in 1..(n - 1) : Gap(k)[j] = IF j < k THEN j ELSE j + 1
  BY DEF Gap
<1>2. \A j \in 1..(n - 1) : Gap(k)[j] \in (1..n) \ {k}
  BY <1>1
<1>3. \A i, j \in 1..(n - 1) : Gap(k)[i] = Gap(k)[j] => i = j
  BY <1>1
<1>4. ASSUME NEW j \in (1..n) \ {k} PROVE \E i \in 1..(n - 1) : Gap(k)[i] = j
  <2>1. CASE j < k
    <3>1. j \in 1..(n - 1) /\ Gap(k)[j] = j
      BY <1>1, <2>1
    <3> QED BY <3>1
  <2>2. CASE j > k
    <3>1. j - 1 \in 1..(n - 1) /\ Gap(k)[j - 1] = j
      BY <1>1, <2>2
    <3> QED BY <3>1
  <2> QED BY <2>1, <2>2
<1> QED BY <1>2, <1>3, <1>4

(* H has the sequences of F but that of k, at the places f tells.          *)
Renumbers(f, H, F, k) ==
  /\ f \in [DOMAIN H -> DOMAIN F \ {k}]
  /\ \A i, j \in DOMAIN H : f[i] = f[j] => i = j
  /\ \A j \in DOMAIN F \ {k} : \E i \in DOMAIN H : f[i] = j
  /\ \A j \in DOMAIN H : H[j] = F[f[j]]

LEMMA PlacesDropped ==
  ASSUME NEW F, NEW k \in DOMAIN F, NEW A, F[k] \in Seq(A), NEW x, IsFiniteSet(Places(F, x)),
         NEW H, NEW f, Renumbers(f, H, F, k)
  PROVE  /\ IsFiniteSet(Places(H, x)) /\ Cardinality(Places(H, x)) \in Nat
         /\ Cardinality(Places(F, x)) = Cardinality(Places(H, x)) + Tally(F[k], {x})
<1>1. PICK G : G = [j \in DOMAIN F \ {k} |-> F[j]]
  OBVIOUS
<1>2. /\ DOMAIN F = DOMAIN G \cup {k} /\ k \notin DOMAIN G /\ DOMAIN G = DOMAIN F \ {k}
      /\ \A j \in DOMAIN G : G[j] = F[j]
  BY <1>1
<1>3. /\ IsFiniteSet(Places(F, x)) <=> IsFiniteSet(Places(G, x))
      /\ IsFiniteSet(Places(G, x)) =>
           /\ Cardinality(Places(F, x)) = Cardinality(Places(G, x)) + Tally(F[k], {x})
           /\ Cardinality(Places(G, x)) \in Nat /\ Tally(F[k], {x}) \in Nat
  BY <1>2, PlacesSplit
<1>4. f \in [DOMAIN H -> DOMAIN G] /\ \A j \in DOMAIN H : H[j] = G[f[j]]
  BY <1>2 DEF Renumbers
<1>5. /\ \A i, j \in DOMAIN H : f[i] = f[j] => i = j
      /\ \A j \in DOMAIN G : \E i \in DOMAIN H : f[i] = j
  BY <1>2 DEF Renumbers
<1>6. IsFiniteSet(Places(G, x))
  BY <1>3
<1>7. IsFiniteSet(Places(H, x)) /\ Cardinality(Places(H, x)) = Cardinality(Places(G, x))
  BY <1>4, <1>5, <1>6, PlacesReindexed
<1> QED BY <1>3, <1>6, <1>7

LEMMA GapRenumbers ==
  ASSUME NEW n \in Nat, NEW F, DOMAIN F = 1..n, NEW k \in 1..n,
         NEW H, DOMAIN H = 1..(n - 1), \A j \in 1..(n - 1) : H[j] = F[Gap(k)[j]]
  PROVE  \E f : Renumbers(f, H, F, k)
<1>1. PICK D : D = 1..(n - 1)
  OBVIOUS
<1>2. PICK E : E = (1..n) \ {k}
  OBVIOUS
<1>3. PICK f : f = [j \in D |-> Gap(k)[j]]
  OBVIOUS
<1>4. k \in DOMAIN F /\ DOMAIN F \ {k} = E /\ DOMAIN H = D
  BY <1>1, <1>2
<1>5. \A j \in D : f[j] = Gap(k)[j]
  BY <1>3
<1>6. \A j \in D : f[j] \in E
  <2>1. \A j \in 1..(n - 1) : Gap(k)[j] \in (1..n) \ {k}
    BY GapFacts
  <2> QED BY <1>1, <1>2, <1>5, <2>1
<1>7. f \in [D -> E]
  BY <1>3, <1>5, <1>6
<1>8. ASSUME NEW i \in D, NEW j \in D, f[i] = f[j] PROVE i = j
  <2>1. Gap(k)[i] = Gap(k)[j]
    BY <1>5, <1>8
  <2>2. \A a, b \in 1..(n - 1) : Gap(k)[a] = Gap(k)[b] => a = b
    BY GapFacts
  <2> QED BY <1>1, <2>1, <2>2
<1>9. ASSUME NEW j \in E PROVE \E i \in D : f[i] = j
  <2>1. \A b \in (1..n) \ {k} : \E a \in 1..(n - 1) : Gap(k)[a] = b
    BY GapFacts
  <2> QED BY <1>1, <1>2, <1>5, <2>1
<1>10. \A j \in D : H[j] = F[f[j]]
  BY <1>1, <1>5
<1>11. Renumbers(f, H, F, k)
  BY <1>4, <1>7, <1>8, <1>9, <1>10 DEF Renumbers
<1> QED BY <1>11
-----------------------------------------------------------------------------
(* Sequences in an order are determined by their elements.                 *)

LEMMA AppendOrdered ==
  ASSUME NEW A, NEW s \in Seq(A), NEW x \in A, NEW R
  PROVE  Ordered(Append(s, x), R) <=> Ordered(s, R) /\ \A y \in Elements(s) : <<y, x>> \in R
<1>1. PICK t : t = Append(s, x)
  OBVIOUS
<1>2. /\ DOMAIN s = 1..Len(s) /\ DOMAIN t = 1..(Len(s) + 1)
      /\ Len(s) \in Nat /\ t[Len(s) + 1] = x /\ \A i \in DOMAIN s : t[i] = s[i]
  BY <1>1
<1>3. /\ \A i \in DOMAIN s : i \in DOMAIN t /\ i < Len(s) + 1 /\ i # Len(s) + 1
      /\ Len(s) + 1 \in DOMAIN t
      /\ \A i \in DOMAIN t : i \in DOMAIN s \/ i = Len(s) + 1
      /\ \A i \in DOMAIN t : ~(Len(s) + 1 < i)
  BY <1>2
<1>4. ASSUME Ordered(t, R) PROVE Ordered(s, R) /\ \A y \in Elements(s) : <<y, x>> \in R
  <2>1. Ordered(s, R)
    BY <1>2, <1>3, <1>4 DEF Ordered
  <2>2. ASSUME NEW i \in DOMAIN s PROVE <<s[i], x>> \in R
    BY <1>2, <1>3, <1>4 DEF Ordered
  <2> QED BY <2>1, <2>2 DEF Elements
<1>5. ASSUME Ordered(s, R), \A y \in Elements(s) : <<y, x>> \in R PROVE Ordered(t, R)
  <2> SUFFICES ASSUME NEW i \in DOMAIN t, NEW j \in DOMAIN t, i < j PROVE <<t[i], t[j]>> \in R
    BY DEF Ordered
  <2>1. i \in DOMAIN s
    BY <1>3
  <2>2. CASE j \in DOMAIN s
    BY <1>2, <1>5, <2>1, <2>2 DEF Ordered
  <2>3. CASE j = Len(s) + 1
    BY <1>2, <1>5, <2>1, <2>3 DEF Elements
  <2> QED BY <1>3, <2>2, <2>3
<1> QED BY <1>1, <1>4, <1>5

LEMMA OnlyOrdered ==
  ASSUME NEW A, NEW S, NEW R, NEW s \in Seq(A), Ordered(s, R)
  PROVE  Ordered(Only(s, S), R)
<1> DEFINE T == {r \in Seq(A) : Ordered(r, R) => Ordered(Only(r, S), R)}
<1>1. <<>> \in T
  <2>1. Only(<<>>, S) = <<>>
    BY OnlyEmpty
  <2> QED BY <2>1
<1>2. ASSUME NEW r \in Seq(A), r \in T, NEW x \in A PROVE Append(r, x) \in T
  <2> SUFFICES ASSUME Ordered(Append(r, x), R) PROVE Ordered(Only(Append(r, x), S), R)
    OBVIOUS
  <2>1. Ordered(r, R) /\ \A y \in Elements(r) : <<y, x>> \in R
    BY AppendOrdered
  <2>2. Ordered(Only(r, S), R)
    BY <1>2, <2>1
  <2>3. PICK o : o = Only(r, S)
    OBVIOUS
  <2>4. o \in Seq(A \cap S) /\ Elements(o) = Elements(r) \cap S
    BY <2>3, OnlyElements
  <2>5. o \in Seq(A)
    BY <2>4
  <2>6. Ordered(Append(o, x), R)
    BY <2>1, <2>2, <2>3, <2>4, <2>5, AppendOrdered
  <2> QED BY <2>2, <2>3, <2>6, OnlyAppend
<1> HIDE DEF T
<1>3. Seq(A) \subseteq T
  BY <1>1, <1>2, SequenceInduction
<1> QED BY <1>3 DEF T

LEMMA OrderDetermines ==
  ASSUME NEW A, NEW s \in Seq(A), NEW t \in Seq(A), Elements(s) = Elements(t),
         NEW R, \A x, y \in A : ~(<<x, y>> \in R /\ <<y, x>> \in R),
         Ordered(s, R), Ordered(t, R)
  PROVE  s = t
<1>1. /\ DOMAIN s = 1..Len(s) /\ Len(s) \in Nat /\ \A i \in DOMAIN s : s[i] \in A
      /\ DOMAIN t = 1..Len(t) /\ Len(t) \in Nat /\ \A i \in DOMAIN t : t[i] \in A
  OBVIOUS
<1>2. Distinct(s) /\ Distinct(t)
  <2>1. ASSUME NEW r \in Seq(A), Ordered(r, R), NEW i \in DOMAIN r, NEW j \in DOMAIN r, i < j
        PROVE  r[i] # r[j]
    <3>1. <<r[i], r[j]>> \in R /\ r[i] \in A
      BY <2>1 DEF Ordered
    <3> QED BY <3>1
  <2>2. ASSUME NEW r \in Seq(A), Ordered(r, R) PROVE Distinct(r)
    <3> SUFFICES ASSUME NEW i \in DOMAIN r, NEW j \in DOMAIN r, r[i] = r[j] PROVE i = j
      BY DEF Distinct
    <3>1. ~(i < j) /\ ~(j < i)
      BY <2>1, <2>2
    <3>2. i \in Nat /\ j \in Nat
      OBVIOUS
    <3> QED BY <3>1, <3>2
  <2> QED BY <2>2
<1>3. Len(s) = Len(t)
  BY <1>2, ElementsCounted
<1>4. ASSUME NEW k \in DOMAIN s, s[k] # t[k] PROVE FALSE
  <2> DEFINE D == {i \in DOMAIN s : s[i] # t[i]}
  <2>1. D \subseteq Nat /\ D # {}
    BY <1>1, <1>4
  <2>2. PICK n \in D : \A i \in D : n <= i
    BY <2>1, Least
  <2>3. n \in DOMAIN s /\ n \in DOMAIN t /\ s[n] # t[n] /\ n \in Nat
    BY <1>1, <1>3
  <2>4. PICK j \in DOMAIN t : t[j] = s[n]
    BY <2>3 DEF Elements
  <2>5. PICK i \in DOMAIN s : s[i] = t[n]
    BY <2>3 DEF Elements
  <2>6. ASSUME NEW m \in DOMAIN s, m < n PROVE s[m] = t[m]
    BY <1>1, <2>2, <2>3, <2>6
  <2>7. n < j
    <3>1. j \in DOMAIN s /\ j \in Nat /\ j # n
      BY <1>1, <1>3, <2>3, <2>4
    <3>2. ~(j < n)
      BY <1>2, <2>3, <2>4, <2>6, <3>1 DEF Distinct
    <3> QED BY <2>3, <3>1, <3>2
  <2>8. n < i
    <3>1. i \in DOMAIN t /\ i \in Nat /\ i # n
      BY <1>1, <1>3, <2>3, <2>5
    <3>2. ~(i < n)
      BY <1>2, <2>3, <2>5, <2>6, <3>1 DEF Distinct
    <3> QED BY <2>3, <3>1, <3>2
  <2>9. <<t[n], s[n]>> \in R /\ <<s[n], t[n]>> \in R
    BY <2>3, <2>4, <2>5, <2>7, <2>8 DEF Ordered
  <2> QED BY <1>1, <2>3, <2>9
<1> QED BY <1>1, <1>3, <1>4
=============================================================================
