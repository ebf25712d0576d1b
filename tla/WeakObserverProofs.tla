------------------------- MODULE WeakObserverProofs -------------------------
(***************************************************************************)
(* Proofs about the list of weak observers, for any number of observers,   *)
(* publishers, subscriptions and nested traversals.                        *)
(***************************************************************************)
EXTENDS WeakObserver, SequenceLemmas


-----------------------------------------------------------------------------
(* The list operations.                                                    *)

(* The pointers stay typed when an observer is unlinked ... *)
LEMMA UnlinkedType ==
  ASSUME NEW l \in Links, NEW o \in Observer, l.publisher[o] # NULL
  PROVE  Unlinked(l, o) \in Links
<1> DEFINE p == l.publisher[o]
<1>1. /\ l.publisher \in [Observer -> Publisher \cup {NULL}]
      /\ l.prev \in [Observer -> Observer \cup {NULL}]
      /\ l.next \in [Observer -> Observer \cup {NULL}]
      /\ l.first \in [Publisher -> Observer \cup {NULL}]
      /\ l.last \in [Publisher -> Observer \cup {NULL}]
      /\ NULL \notin Observer /\ NULL \notin Publisher
  BY NullAssumption DEF Links
<1>2. p \in Publisher
  BY <1>1
<1> QED
  BY <1>1, <1>2 DEF Unlinked, PrevWithout, NextWithout, Links

(* ... or appended. *)
LEMMA AppendedType ==
  ASSUME NEW l \in Links, NEW o \in Observer, NEW p \in Publisher
  PROVE  Appended(l, o, p) \in Links
<1>1. /\ l.publisher \in [Observer -> Publisher \cup {NULL}]
      /\ l.prev \in [Observer -> Observer \cup {NULL}]
      /\ l.next \in [Observer -> Observer \cup {NULL}]
      /\ l.first \in [Publisher -> Observer \cup {NULL}]
      /\ l.last \in [Publisher -> Observer \cup {NULL}]
      /\ NULL \notin Observer /\ NULL \notin Publisher
  BY NullAssumption DEF Links
<1> QED
  BY <1>1 DEF Appended, Links

(* The clauses of Chained one by one, for the steps below. *)
Unfolded(l, s) ==
  /\ \A x, y \in Observer :
       l.publisher[x] # NULL /\ l.publisher[x] = l.publisher[y] /\ s[x] = s[y]
         => x = y
  /\ \A x \in Observer :
       /\ s[x] \in Nat
       /\ l.publisher[x] = NULL => l.prev[x] = NULL /\ l.next[x] = NULL /\ s[x] = 0
       /\ l.publisher[x] # NULL => s[x] > 0
  /\ \A x \in Observer : l.next[x] # NULL =>
       /\ l.next[x] \in Observer
       /\ l.publisher[x] # NULL
       /\ l.publisher[l.next[x]] = l.publisher[x]
       /\ s[x] < s[l.next[x]]
       /\ \A y \in Observer : l.publisher[y] = l.publisher[x] =>
            s[y] <= s[x] \/ s[l.next[x]] <= s[y]
  /\ \A x \in Observer : l.prev[x] # NULL =>
       /\ l.prev[x] \in Observer
       /\ l.publisher[x] # NULL
       /\ l.publisher[l.prev[x]] = l.publisher[x]
       /\ s[l.prev[x]] < s[x]
       /\ \A y \in Observer : l.publisher[y] = l.publisher[x] =>
            s[y] <= s[l.prev[x]] \/ s[x] <= s[y]
  /\ \A x, y \in Observer :
       l.publisher[x] # NULL /\ l.publisher[y] = l.publisher[x] =>
         /\ l.next[x] = NULL => s[y] <= s[x]
         /\ l.prev[x] = NULL => s[x] <= s[y]
  /\ \A x \in Observer : l.next[x] # NULL => l.prev[l.next[x]] = x
  /\ \A x \in Observer : l.prev[x] # NULL => l.next[l.prev[x]] = x

LEMMA ChainFacts ==
  ASSUME NEW l \in Links, NEW s \in [Observer -> Nat], Chained(l, s)
  PROVE  Unfolded(l, s)
<1>1. /\ l.publisher \in [Observer -> Publisher \cup {NULL}]
      /\ l.prev \in [Observer -> Observer \cup {NULL}]
      /\ l.next \in [Observer -> Observer \cup {NULL}]
      /\ NULL \notin Observer /\ NULL \notin Publisher
  BY NullAssumption DEF Links
<1>2. \A x, y \in Observer :
         l.publisher[x] # NULL /\ l.publisher[x] = l.publisher[y] /\ s[x] = s[y] => x = y
  BY DEF Chained
<1>3. \A x \in Observer :
         /\ s[x] \in Nat
         /\ l.publisher[x] = NULL => l.prev[x] = NULL /\ l.next[x] = NULL /\ s[x] = 0
         /\ l.publisher[x] # NULL => s[x] > 0
  BY DEF Chained
<1>4. \A x \in Observer : l.next[x] # NULL =>
         /\ l.next[x] \in Observer
         /\ l.publisher[x] # NULL
         /\ l.publisher[l.next[x]] = l.publisher[x]
         /\ s[x] < s[l.next[x]]
         /\ \A y \in Observer : l.publisher[y] = l.publisher[x] =>
              s[y] <= s[x] \/ s[l.next[x]] <= s[y]
  BY <1>1 DEF Chained, Follows
<1>5. \A x \in Observer : l.prev[x] # NULL =>
         /\ l.prev[x] \in Observer
         /\ l.publisher[x] # NULL
         /\ l.publisher[l.prev[x]] = l.publisher[x]
         /\ s[l.prev[x]] < s[x]
         /\ \A y \in Observer : l.publisher[y] = l.publisher[x] =>
              s[y] <= s[l.prev[x]] \/ s[x] <= s[y]
  BY <1>1 DEF Chained, Follows
<1>6. \A x, y \in Observer :
         l.publisher[x] # NULL /\ l.publisher[y] = l.publisher[x] =>
           /\ l.next[x] = NULL => s[y] <= s[x]
           /\ l.prev[x] = NULL => s[x] <= s[y]
  BY DEF Chained
<1>7. ASSUME NEW x \in Observer, l.next[x] # NULL
      PROVE  l.prev[l.next[x]] = x
  BY <1>2, <1>3, <1>4, <1>5, <1>6, <1>7
<1>8. ASSUME NEW x \in Observer, l.prev[x] # NULL
      PROVE  l.next[l.prev[x]] = x
  BY <1>2, <1>3, <1>4, <1>5, <1>6, <1>8
<1> QED
  BY <1>2, <1>3, <1>4, <1>5, <1>6, <1>7, <1>8 DEF Unfolded

(* Unlinking an observer leaves the list of the others in order: this is   *)
(* what the four assignments of remove_from_subscriber_list_of_publisher   *)
(* do together.                                                            *)
LEMMA UnlinkedChained ==
  ASSUME NEW l \in Links, NEW s \in [Observer -> Nat], NEW o \in Observer,
         l.publisher[o] # NULL, Chained(l, s)
  PROVE  Chained(Unlinked(l, o), [s EXCEPT ![o] = 0])
<1> DEFINE p == l.publisher[o]
           m == Unlinked(l, o)
           t == [s EXCEPT ![o] = 0]
<1>1. /\ l.publisher \in [Observer -> Publisher \cup {NULL}]
      /\ l.prev \in [Observer -> Observer \cup {NULL}]
      /\ l.next \in [Observer -> Observer \cup {NULL}]
      /\ l.first \in [Publisher -> Observer \cup {NULL}]
      /\ l.last \in [Publisher -> Observer \cup {NULL}]
      /\ NULL \notin Observer /\ NULL \notin Publisher
  BY NullAssumption DEF Links
<1>2. p \in Publisher
  BY <1>1
<1>3. /\ \A x \in Observer : m.publisher[x] = IF x = o THEN NULL ELSE l.publisher[x]
      /\ \A x \in Observer : t[x] = IF x = o THEN 0 ELSE s[x]
      /\ \A x \in Observer :
           m.prev[x] = IF x = o THEN NULL
                       ELSE IF x = l.next[o] THEN l.prev[o] ELSE l.prev[x]
      /\ \A x \in Observer :
           m.next[x] = IF x = o THEN NULL
                       ELSE IF x = l.prev[o] THEN l.next[o] ELSE l.next[x]
      /\ \A q \in Publisher :
           m.first[q] = IF q = p /\ l.prev[o] = NULL THEN l.next[o] ELSE l.first[q]
      /\ \A q \in Publisher :
           m.last[q] = IF q = p /\ l.next[o] = NULL THEN l.prev[o] ELSE l.last[q]
  BY <1>1, <1>2 DEF Unlinked, PrevWithout, NextWithout
<1>4. Unfolded(l, s)
  BY ChainFacts
<1> HIDE DEF m, t
<1>5. ASSUME NEW x \in Observer, m.publisher[x] = NULL
      PROVE  m.prev[x] = NULL /\ m.next[x] = NULL /\ t[x] = 0
  <2>1. CASE x = o
    BY <1>3, <2>1
  <2>2. CASE x # o
    <3>1. l.publisher[x] = NULL /\ t[x] = s[x]
      BY <1>3, <1>5, <2>2
    <3>2. x # l.next[o] /\ x # l.prev[o]
      BY <1>1, <1>2, <1>4, <3>1 DEF Unfolded
    <3> QED BY <1>3, <1>4, <2>2, <3>1, <3>2 DEF Unfolded
  <2> QED BY <2>1, <2>2
<1>6. ASSUME NEW x \in Observer, NEW y \in Observer, m.publisher[x] # NULL,
             m.publisher[x] = m.publisher[y], x # y
      PROVE  t[x] # t[y]
  BY <1>3, <1>6, <1>4 DEF Unfolded
<1>7. ASSUME NEW x \in Observer, m.publisher[x] # NULL
      PROVE  /\ t[x] > 0
             /\ m.next[x] = NULL =>
                  \A y \in Observer :
                    m.publisher[y] = m.publisher[x] => t[y] <= t[x]
             /\ m.next[x] # NULL => Follows(m.next[x], x, m, t)
  <2>1. x # o /\ t[x] = s[x] /\ m.publisher[x] = l.publisher[x]
    BY <1>3, <1>7
  <2>2. CASE x = l.prev[o]
    <3>1. m.next[x] = l.next[o] /\ l.next[x] = o
      BY <1>3, <2>1, <2>2, <1>1, <1>4 DEF Unfolded
    <3>2. CASE l.next[o] = NULL
      <4>1. ASSUME NEW y \in Observer, m.publisher[y] = m.publisher[x]
            PROVE  t[y] <= t[x]
        <5>1. y # o /\ l.publisher[y] = l.publisher[o] /\ t[y] = s[y]
          BY <1>2, <1>1, <1>3, <1>7, <2>1, <3>1, <4>1, <1>4 DEF Unfolded
        <5>2. s[y] <= s[o] /\ (s[y] <= s[x] \/ s[o] <= s[y]) /\ s[y] # s[o]
          BY <1>1, <1>2, <3>1, <3>2, <5>1, <1>4 DEF Unfolded
        <5> QED BY <1>4, <2>1, <5>1, <5>2 DEF Unfolded
      <4> QED BY <1>1, <2>1, <3>1, <3>2, <4>1, <1>4 DEF Unfolded
    <3>3. CASE l.next[o] # NULL
      <4>1. /\ m.publisher[l.next[o]] = l.publisher[l.next[o]]
            /\ t[l.next[o]] = s[l.next[o]]
            /\ l.publisher[x] = p /\ s[x] < s[o]
        BY <1>1, <1>2, <1>3, <2>1, <3>1, <3>3, <1>4 DEF Unfolded
      <4>2. ASSUME NEW y \in Observer, m.publisher[y] = m.publisher[x]
            PROVE  t[y] <= t[x] \/ t[l.next[o]] <= t[y]
        <5>1. y # o /\ l.publisher[y] = l.publisher[o] /\ t[y] = s[y]
          BY <1>2, <1>1, <1>3, <1>7, <2>1, <3>1, <4>2, <1>4 DEF Unfolded
        <5>2. /\ s[y] <= s[x] \/ s[o] <= s[y]
              /\ s[y] <= s[o] \/ s[l.next[o]] <= s[y]
              /\ s[y] # s[o]
          BY <1>1, <1>2, <3>1, <3>3, <5>1, <4>1, <1>4 DEF Unfolded
        <5>3. /\ s[x] \in Nat /\ s[y] \in Nat /\ s[o] \in Nat
              /\ s[l.next[o]] \in Nat
          BY <1>1, <3>3
        <5> QED BY <2>1, <4>1, <5>1, <5>2, <5>3
      <4>3. /\ m.publisher[l.next[o]] = m.publisher[x]
            /\ t[x] < t[l.next[o]]
        BY <1>1, <1>2, <2>1, <3>3, <4>1, <1>4 DEF Unfolded
      <4> QED BY <1>1, <2>1, <3>1, <3>3, <4>2, <4>3, <1>4 DEF Unfolded, Follows
    <3> QED BY <3>2, <3>3
  <2>3. CASE x # l.prev[o]
    <3>1. m.next[x] = l.next[x] /\ l.next[x] # o
      BY <1>1, <1>3, <2>1, <2>3, <1>4 DEF Unfolded
    <3> QED BY <1>1, <1>3, <1>7, <2>1, <3>1, <1>4 DEF Unfolded, Follows
  <2> QED BY <2>2, <2>3
<1>8. ASSUME NEW x \in Observer, m.publisher[x] # NULL
      PROVE  /\ m.prev[x] = NULL =>
                  \A y \in Observer :
                    m.publisher[y] = m.publisher[x] => t[x] <= t[y]
             /\ m.prev[x] # NULL => Follows(x, m.prev[x], m, t)
  <2>1. x # o /\ t[x] = s[x] /\ m.publisher[x] = l.publisher[x]
    BY <1>3, <1>8
  <2>2. CASE x = l.next[o]
    <3>1. m.prev[x] = l.prev[o] /\ l.prev[x] = o
      BY <1>3, <2>1, <2>2, <1>1, <1>4 DEF Unfolded
    <3>2. CASE l.prev[o] = NULL
      <4>1. ASSUME NEW y \in Observer, m.publisher[y] = m.publisher[x]
            PROVE  t[x] <= t[y]
        <5>1. y # o /\ l.publisher[y] = l.publisher[o] /\ t[y] = s[y]
          BY <1>2, <1>1, <1>3, <1>8, <2>1, <3>1, <4>1, <1>4 DEF Unfolded
        <5>2. s[o] <= s[y] /\ (s[y] <= s[o] \/ s[x] <= s[y]) /\ s[y] # s[o]
          BY <1>1, <1>2, <3>1, <3>2, <5>1, <1>4 DEF Unfolded
        <5> QED BY <1>4, <2>1, <5>1, <5>2 DEF Unfolded
      <4> QED BY <1>1, <2>1, <3>1, <3>2, <4>1, <1>4 DEF Unfolded
    <3>3. CASE l.prev[o] # NULL
      <4>1. /\ m.publisher[l.prev[o]] = l.publisher[l.prev[o]]
            /\ t[l.prev[o]] = s[l.prev[o]]
            /\ l.publisher[x] = p /\ s[o] < s[x]
        BY <1>1, <1>2, <1>3, <2>1, <3>1, <3>3, <1>4 DEF Unfolded
      <4>2. ASSUME NEW y \in Observer, m.publisher[y] = m.publisher[x]
            PROVE  t[y] <= t[l.prev[o]] \/ t[x] <= t[y]
        <5>1. y # o /\ l.publisher[y] = l.publisher[o] /\ t[y] = s[y]
          BY <1>2, <1>1, <1>3, <1>8, <2>1, <3>1, <4>2, <1>4 DEF Unfolded
        <5>2. /\ s[y] <= s[o] \/ s[x] <= s[y]
              /\ s[y] <= s[l.prev[o]] \/ s[o] <= s[y]
              /\ s[y] # s[o]
          BY <1>1, <1>2, <3>1, <3>3, <5>1, <4>1, <1>4 DEF Unfolded
        <5>3. /\ s[x] \in Nat /\ s[y] \in Nat /\ s[o] \in Nat
              /\ s[l.prev[o]] \in Nat
          BY <1>1, <3>3
        <5> QED BY <2>1, <4>1, <5>1, <5>2, <5>3
      <4>3. /\ m.publisher[l.prev[o]] = m.publisher[x]
            /\ t[l.prev[o]] < t[x]
        BY <1>1, <1>2, <2>1, <3>3, <4>1, <1>4 DEF Unfolded
      <4> QED BY <1>1, <2>1, <3>1, <3>3, <4>2, <4>3, <1>4 DEF Unfolded, Follows
    <3> QED BY <3>2, <3>3
  <2>3. CASE x # l.next[o]
    <3>1. m.prev[x] = l.prev[x] /\ l.prev[x] # o
      BY <1>1, <1>3, <2>1, <2>3, <1>4 DEF Unfolded
    <3> QED BY <1>1, <1>3, <1>8, <2>1, <3>1, <1>4 DEF Unfolded, Follows
  <2> QED BY <2>2, <2>3
<1>9. ASSUME NEW q \in Publisher
      PROVE  IF m.first[q] = NULL
             THEN \A y \in Observer : m.publisher[y] # q
             ELSE /\ m.publisher[m.first[q]] = q
                  /\ \A y \in Observer :
                       m.publisher[y] = q => t[m.first[q]] <= t[y]
  <2>1. IF l.first[q] = NULL
        THEN \A y \in Observer : l.publisher[y] # q
        ELSE /\ l.publisher[l.first[q]] = q
             /\ \A y \in Observer : l.publisher[y] = q => s[l.first[q]] <= s[y]
    BY DEF Chained
  <2>2. CASE q = p /\ l.prev[o] = NULL
    <3>1. CASE l.next[o] = NULL
      <4>1. ASSUME NEW y \in Observer, l.publisher[y] = p
            PROVE  y = o
        <5>1. s[y] <= s[o] /\ s[o] <= s[y]
          BY <1>1, <1>2, <2>2, <3>1, <4>1, <1>4 DEF Unfolded
        <5>2. s[y] = s[o]
          BY <5>1, <1>4 DEF Unfolded
        <5> QED BY <1>1, <1>2, <4>1, <5>2, <1>4 DEF Unfolded
      <4> QED BY <1>1, <1>2, <1>3, <2>2, <3>1, <4>1
    <3>2. CASE l.next[o] # NULL
      <4>1. ASSUME NEW y \in Observer, l.publisher[y] = p, y # o
            PROVE  s[l.next[o]] <= s[y]
        <5>1. s[o] <= s[y] /\ (s[y] <= s[o] \/ s[l.next[o]] <= s[y])
          BY <1>1, <1>2, <2>2, <3>2, <4>1, <1>4 DEF Unfolded
        <5>2. s[y] # s[o]
          BY <1>1, <1>2, <4>1, <1>4 DEF Unfolded
        <5> QED BY <5>1, <5>2, <1>4 DEF Unfolded
      <4>2. /\ l.next[o] # o /\ l.publisher[l.next[o]] = p
            /\ m.first[q] = l.next[o]
        BY <1>1, <1>2, <1>3, <2>2, <3>2, <1>4 DEF Unfolded
      <4> QED BY <1>1, <1>2, <1>3, <2>2, <3>2, <4>1, <4>2
    <3> QED BY <3>1, <3>2
  <2>3. CASE ~(q = p /\ l.prev[o] = NULL)
    <3>1. m.first[q] = l.first[q] /\ l.first[q] # o
      BY <1>1, <1>2, <1>3, <2>1, <2>3, <1>4 DEF Unfolded
    <3> QED BY <1>1, <1>2, <1>3, <2>1, <3>1, <1>4 DEF Unfolded
  <2> QED BY <2>2, <2>3
<1>10. ASSUME NEW q \in Publisher
       PROVE  IF m.last[q] = NULL
              THEN \A y \in Observer : m.publisher[y] # q
              ELSE /\ m.publisher[m.last[q]] = q
                   /\ \A y \in Observer :
                        m.publisher[y] = q => t[y] <= t[m.last[q]]
  <2>1. IF l.last[q] = NULL
        THEN \A y \in Observer : l.publisher[y] # q
        ELSE /\ l.publisher[l.last[q]] = q
             /\ \A y \in Observer : l.publisher[y] = q => s[y] <= s[l.last[q]]
    BY DEF Chained
  <2>2. CASE q = p /\ l.next[o] = NULL
    <3>1. CASE l.prev[o] = NULL
      <4>1. ASSUME NEW y \in Observer, l.publisher[y] = p
            PROVE  y = o
        <5>1. s[y] <= s[o] /\ s[o] <= s[y]
          BY <1>1, <1>2, <2>2, <3>1, <4>1, <1>4 DEF Unfolded
        <5>2. s[y] = s[o]
          BY <5>1, <1>4 DEF Unfolded
        <5> QED BY <1>1, <1>2, <4>1, <5>2, <1>4 DEF Unfolded
      <4> QED BY <1>1, <1>2, <1>3, <2>2, <3>1, <4>1
    <3>2. CASE l.prev[o] # NULL
      <4>1. ASSUME NEW y \in Observer, l.publisher[y] = p, y # o
            PROVE  s[y] <= s[l.prev[o]]
        <5>1. s[y] <= s[o] /\ (s[y] <= s[l.prev[o]] \/ s[o] <= s[y])
          BY <1>1, <1>2, <2>2, <3>2, <4>1, <1>4 DEF Unfolded
        <5>2. s[y] # s[o]
          BY <1>1, <1>2, <4>1, <1>4 DEF Unfolded
        <5> QED BY <5>1, <5>2, <1>4 DEF Unfolded
      <4>2. /\ l.prev[o] # o /\ l.publisher[l.prev[o]] = p
            /\ m.last[q] = l.prev[o]
        BY <1>1, <1>2, <1>3, <2>2, <3>2, <1>4 DEF Unfolded
      <4> QED BY <1>1, <1>2, <1>3, <2>2, <3>2, <4>1, <4>2
    <3> QED BY <3>1, <3>2
  <2>3. CASE ~(q = p /\ l.next[o] = NULL)
    <3>1. m.last[q] = l.last[q] /\ l.last[q] # o
      BY <1>1, <1>2, <1>3, <2>1, <2>3, <1>4 DEF Unfolded
    <3> QED BY <1>1, <1>2, <1>3, <2>1, <3>1, <1>4 DEF Unfolded
  <2> QED BY <2>2, <2>3
<1>11. Chained(m, t)
  BY <1>5, <1>6, <1>7, <1>8, <1>9, <1>10 DEF Chained
<1> QED
  BY <1>11 DEF m, t

(* An unsubscribed observer appended later than everybody else stands last. *)
LEMMA AppendedChained ==
  ASSUME NEW l \in Links, NEW s \in [Observer -> Nat], NEW o \in Observer,
         NEW p \in Publisher, NEW now \in Nat,
         l.publisher[o] = NULL, Chained(l, s), \A x \in Observer : s[x] < now
  PROVE  Chained(Appended(l, o, p), [s EXCEPT ![o] = now])
<1> DEFINE m == Appended(l, o, p)
           t == [s EXCEPT ![o] = now]
<1>1. /\ l.publisher \in [Observer -> Publisher \cup {NULL}]
      /\ l.prev \in [Observer -> Observer \cup {NULL}]
      /\ l.next \in [Observer -> Observer \cup {NULL}]
      /\ l.first \in [Publisher -> Observer \cup {NULL}]
      /\ l.last \in [Publisher -> Observer \cup {NULL}]
      /\ NULL \notin Observer /\ NULL \notin Publisher
  BY NullAssumption DEF Links
<1>3. /\ \A x \in Observer : m.publisher[x] = IF x = o THEN p ELSE l.publisher[x]
      /\ \A x \in Observer : t[x] = IF x = o THEN now ELSE s[x]
      /\ \A x \in Observer : m.prev[x] = IF x = o THEN l.last[p] ELSE l.prev[x]
      /\ \A x \in Observer : m.next[x] = IF x = l.last[p] THEN o ELSE l.next[x]
      /\ \A q \in Publisher :
           m.first[q] = IF q = p /\ l.last[p] = NULL THEN o ELSE l.first[q]
      /\ \A q \in Publisher : m.last[q] = IF q = p THEN o ELSE l.last[q]
  BY <1>1 DEF Appended
<1>2. /\ Unfolded(l, s)
      /\ IF l.last[p] = NULL
         THEN \A y \in Observer : l.publisher[y] # p
         ELSE /\ l.publisher[l.last[p]] = p
              /\ \A y \in Observer : l.publisher[y] = p => s[y] <= s[l.last[p]]
  BY ChainFacts DEF Chained
<1> HIDE DEF m, t
<1>4. ASSUME NEW x \in Observer, m.publisher[x] = NULL
      PROVE  m.prev[x] = NULL /\ m.next[x] = NULL /\ t[x] = 0
  BY <1>1, <1>3, <1>4 DEF Chained, Follows
<1>5. ASSUME NEW x \in Observer, NEW y \in Observer, m.publisher[x] # NULL,
             m.publisher[x] = m.publisher[y], x # y
      PROVE  t[x] # t[y]
  BY <1>1, <1>3, <1>5 DEF Chained
<1>6. ASSUME NEW x \in Observer, m.publisher[x] # NULL
      PROVE  /\ t[x] > 0
             /\ IF m.next[x] = NULL
                THEN \A y \in Observer :
                       m.publisher[y] = m.publisher[x] => t[y] <= t[x]
                ELSE Follows(m.next[x], x, m, t)
  <2>1. t[x] > 0
    BY <1>2, <1>3, <1>6 DEF Unfolded
  <2>2. CASE x = o
    <3>1. m.next[x] = NULL
      BY <1>1, <1>2, <1>3, <2>2 DEF Unfolded
    <3> QED BY <1>2, <1>3, <2>1, <2>2, <3>1 DEF Unfolded
  <2>3. CASE x # o /\ x = l.last[p]
    <3>1. m.next[x] = o /\ l.publisher[x] = p
      BY <1>1, <1>2, <1>3, <1>6, <2>3
    <3> QED BY <1>1, <1>2, <1>3, <2>1, <2>3, <3>1 DEF Unfolded, Follows
  <2>4. CASE x # o /\ x # l.last[p]
    <3>1. m.next[x] = l.next[x] /\ l.publisher[x] # NULL
      BY <1>3, <1>6, <2>4
    <3>2. CASE l.publisher[x] = p
      <4>1. /\ l.last[p] \in Observer /\ l.publisher[l.last[p]] = p
            /\ s[x] <= s[l.last[p]] /\ p # NULL
        BY <1>1, <1>2, <3>2
      <4>2. s[x] # s[l.last[p]]
        BY <1>2, <2>4, <3>2, <4>1 DEF Unfolded
      <4>3. l.next[x] = NULL => s[l.last[p]] <= s[x]
        BY <1>2, <3>1, <3>2, <4>1 DEF Unfolded
      <4>4. l.next[x] # NULL
        BY <4>1, <4>2, <4>3, <1>2 DEF Unfolded
      <4> QED BY <1>1, <1>2, <1>3, <2>1, <2>4, <3>1, <3>2, <4>4 DEF Unfolded, Follows
    <3>3. CASE l.publisher[x] # p
      BY <1>1, <1>2, <1>3, <2>1, <2>4, <3>1, <3>3 DEF Unfolded, Follows
    <3> QED BY <3>2, <3>3
  <2> QED BY <2>2, <2>3, <2>4
<1>7. ASSUME NEW x \in Observer, m.publisher[x] # NULL
      PROVE  IF m.prev[x] = NULL
             THEN \A y \in Observer :
                    m.publisher[y] = m.publisher[x] => t[x] <= t[y]
             ELSE Follows(x, m.prev[x], m, t)
  BY <1>1, <1>3, <1>7 DEF Chained, Follows
<1>8. ASSUME NEW q \in Publisher
      PROVE  IF m.first[q] = NULL
             THEN \A y \in Observer : m.publisher[y] # q
             ELSE /\ m.publisher[m.first[q]] = q
                  /\ \A y \in Observer :
                       m.publisher[y] = q => t[m.first[q]] <= t[y]
  BY <1>1, <1>3 DEF Chained, Follows
<1>9. ASSUME NEW q \in Publisher
      PROVE  IF m.last[q] = NULL
             THEN \A y \in Observer : m.publisher[y] # q
             ELSE /\ m.publisher[m.last[q]] = q
                  /\ \A y \in Observer :
                       m.publisher[y] = q => t[y] <= t[m.last[q]]
  BY <1>1, <1>3 DEF Chained, Follows
<1>10. Chained(m, t)
  BY <1>4, <1>5, <1>6, <1>7, <1>8, <1>9 DEF Chained
<1> QED
  BY <1>10 DEF m, t

(* Appending beside a subscribed observer is appending: the tail it takes  *)
(* to exist does exist.                                                    *)
LEMMA BesideIsAppended ==
  ASSUME NEW l \in Links, NEW s \in [Observer -> Nat],
         NEW o \in Observer, NEW other \in Observer,
         l.publisher[other] # NULL, Chained(l, s)
  PROVE  AppendedBeside(l, o, other) = Appended(l, o, l.publisher[other])
<1> DEFINE p == l.publisher[other]
           tail == l.last[p]
<1>1. /\ l.publisher \in [Observer -> Publisher \cup {NULL}]
      /\ l.prev \in [Observer -> Observer \cup {NULL}]
      /\ l.next \in [Observer -> Observer \cup {NULL}]
      /\ l.first \in [Publisher -> Observer \cup {NULL}]
      /\ l.last \in [Publisher -> Observer \cup {NULL}]
      /\ NULL \notin Observer /\ NULL \notin Publisher
      /\ l = [publisher |-> l.publisher, prev |-> l.prev, next |-> l.next,
              first |-> l.first, last |-> l.last]
  BY NullAssumption DEF Links
<1>2. p \in Publisher
  BY <1>1
<1>3. tail \in Observer
  BY <1>1, <1>2 DEF Chained
<1>4. [l.next EXCEPT ![tail] = o]
        = [x \in Observer |-> IF x = tail THEN o ELSE l.next[x]]
  BY <1>1, <1>3
<1>5. [l.first EXCEPT ![p] = IF tail = NULL THEN o ELSE l.first[p]] = l.first
  BY <1>1, <1>2, <1>3
<1>6. AppendedBeside(l, o, other)
        = [publisher |-> [l.publisher EXCEPT ![o] = p],
           prev |-> [l.prev EXCEPT ![o] = tail],
           next |-> [l.next EXCEPT ![tail] = o],
           first |-> l.first,
           last |-> [l.last EXCEPT ![p] = o]]
  BY <1>1, <1>2 DEF AppendedBeside
<1> QED
  BY <1>4, <1>5, <1>6 DEF Appended

(* Detaching an observer, subscribed or not. *)
LEMMA DetachedChained ==
  ASSUME NEW l \in Links, NEW s \in [Observer -> Nat], NEW o \in Observer,
         Chained(l, s)
  PROVE  /\ Detached(l, o) \in Links
         /\ Chained(Detached(l, o), [s EXCEPT ![o] = 0])
         /\ Detached(l, o).publisher = [l.publisher EXCEPT ![o] = NULL]
<1>1. CASE l.publisher[o] = NULL
  <2>1. l.publisher \in [Observer -> Publisher \cup {NULL}]
    BY DEF Links
  <2>2. Detached(l, o) = l
    BY <1>1 DEF Detached
  <2>3. s[o] = 0
    BY <1>1 DEF Chained
  <2>4. [s EXCEPT ![o] = 0] = s /\ [l.publisher EXCEPT ![o] = NULL] = l.publisher
    BY <1>1, <2>1, <2>3
  <2> QED BY <2>2, <2>4
<1>2. CASE l.publisher[o] # NULL
  <2>1. Detached(l, o) = Unlinked(l, o)
    BY <1>2 DEF Detached
  <2>2. Unlinked(l, o).publisher = [l.publisher EXCEPT ![o] = NULL]
    BY DEF Unlinked
  <2>3. Unlinked(l, o) \in Links
    BY <1>2, UnlinkedType
  <2>4. Chained(Unlinked(l, o), [s EXCEPT ![o] = 0])
    BY <1>2, UnlinkedChained
  <2> QED BY <2>1, <2>2, <2>3, <2>4
<1> QED BY <1>1, <1>2

(* Every subscription was made before now. *)
Before(s, now) == now \in Nat /\ \A x \in Observer : s[x] < now

(* Moving an observer to the end of the list of p. *)
LEMMA MovedChained ==
  ASSUME NEW l \in Links, NEW s \in [Observer -> Nat], NEW o \in Observer,
         NEW p \in Publisher, NEW now,
         Chained(l, s), Before(s, now)
  PROVE  /\ Appended(Detached(l, o), o, p) \in Links
         /\ Chained(Appended(Detached(l, o), o, p), [s EXCEPT ![o] = now])
<1> DEFINE m == Detached(l, o)
           t == [s EXCEPT ![o] = 0]
<1>1. m \in Links /\ Chained(m, t) /\ m.publisher = [l.publisher EXCEPT ![o] = NULL]
  BY DetachedChained
<1>2. l.publisher \in [Observer -> Publisher \cup {NULL}]
  BY DEF Links
<1>3. t \in [Observer -> Nat] /\ m.publisher[o] = NULL
  BY <1>1, <1>2
<1>4. now \in Nat /\ \A x \in Observer : t[x] < now
  BY DEF Before
<1>5. [t EXCEPT ![o] = now] = [s EXCEPT ![o] = now]
  OBVIOUS
<1> HIDE DEF m, t
<1>6. Appended(m, o, p) \in Links /\ Chained(Appended(m, o, p), [t EXCEPT ![o] = now])
  BY <1>1, <1>3, <1>4, AppendedType, AppendedChained
<1> QED
  BY <1>5, <1>6 DEF m

-----------------------------------------------------------------------------
(* The traversals.                                                         *)

(* Where a traversal that no observer has cut stands: it has called exactly *)
(* the observers up to curr, and the others that stayed are still ahead.   *)
Standing(f, pub, s) ==
  ~f.cut =>
    /\ f.curr = NULL => f.must \subseteq f.done
    /\ f.curr # NULL =>
         /\ pub[f.curr] = f.pub
         /\ \A x \in f.must :
              pub[x] = f.pub /\ (x \in f.done \/ s[f.curr] < s[x])
         /\ \A x \in f.done : pub[x] = f.pub /\ s[x] <= s[f.curr]

VisitsStand(fs, pub, s) == \A i \in DOMAIN fs : Standing(fs[i], pub, s)

(* The frames stay frames ... *)
LEMMA AfterLeavingType ==
  ASSUME frames \in Seq(FrameType), NEW o \in Observer
  PROVE  /\ AfterLeaving(o) \in Seq(FrameType)
         /\ DOMAIN AfterLeaving(o) = DOMAIN frames
         /\ \A i \in DOMAIN frames :
              /\ AfterLeaving(o)[i].pub = frames[i].pub
              /\ AfterLeaving(o)[i].curr = frames[i].curr
              /\ AfterLeaving(o)[i].must = frames[i].must \ {o}
              /\ AfterLeaving(o)[i].done = frames[i].done \ {o}
              /\ AfterLeaving(o)[i].cut = (frames[i].cut \/ frames[i].curr = o)
<1> DEFINE g(i) == [frames[i] EXCEPT !.must = @ \ {o}, !.done = @ \ {o},
                                     !.cut = @ \/ frames[i].curr = o]
<1>1. \A i \in DOMAIN frames : frames[i] \in FrameType
  OBVIOUS
<1>2. \A i \in DOMAIN frames :
        /\ g(i) \in FrameType
        /\ g(i).pub = frames[i].pub /\ g(i).curr = frames[i].curr
        /\ g(i).must = frames[i].must \ {o} /\ g(i).done = frames[i].done \ {o}
        /\ g(i).cut = (frames[i].cut \/ frames[i].curr = o)
  BY <1>1 DEF FrameType
<1> HIDE DEF g
<1>3. AfterLeaving(o) = [i \in DOMAIN frames |-> g(i)]
  BY DEF AfterLeaving, g
<1>4. DOMAIN frames = 1 .. Len(frames) /\ Len(frames) \in Nat
  OBVIOUS
<1> QED
  BY <1>2, <1>3, <1>4

(* ... and stand where they should when an observer leaves its list, even  *)
(* if it joins the end of a list in the same step.                         *)
LEMMA LeavingKeepsStanding ==
  ASSUME frames \in Seq(FrameType), NEW o \in Observer,
         NEW pub1, NEW pub2, NEW s1, NEW s2,
         \A x \in Observer \ {o} : pub2[x] = pub1[x] /\ s2[x] = s1[x],
         VisitsStand(frames, pub1, s1)
  PROVE  VisitsStand(AfterLeaving(o), pub2, s2)
<1> SUFFICES ASSUME NEW i \in DOMAIN frames
             PROVE  Standing(AfterLeaving(o)[i], pub2, s2)
  BY AfterLeavingType DEF VisitsStand
<1> DEFINE f == frames[i]
           g == AfterLeaving(o)[i]
<1>1. f \in FrameType /\ Standing(f, pub1, s1)
  BY DEF VisitsStand
<1>2. /\ g.pub = f.pub /\ g.curr = f.curr
      /\ g.must = f.must \ {o} /\ g.done = f.done \ {o}
      /\ g.cut = (f.cut \/ f.curr = o)
  BY AfterLeavingType
<1> HIDE DEF f, g
<1>3. /\ f.must \subseteq Observer /\ f.done \subseteq Observer
      /\ f.curr \in Observer \cup {NULL}
  BY <1>1 DEF FrameType
<1>4. Standing(g, pub2, s2)
  BY <1>1, <1>2, <1>3 DEF Standing
<1> QED
  BY <1>4 DEF g

-----------------------------------------------------------------------------
(* The inductive invariant.                                                *)

DestructorAtHead ==
  /\ dtor.pub = NULL => dtor.curr = NULL
  /\ dtor.pub # NULL => dtor.pub \in alive /\ dtor.curr = links.first[dtor.pub]

IInv ==
  /\ TypeOK
  /\ LinksFollowSubscription
  /\ NoDanglingObserver
  /\ \A o \in Observer : since[o] <= clock
  /\ DestructorAtHead
  /\ VisitsStand(frames, links.publisher, since)

(* Nothing is subscribed, nothing runs. *)
LEMMA InitIInv == Init => IInv
<1> SUFFICES ASSUME Init PROVE IInv
  OBVIOUS
<1>1. TypeOK
  BY DEF Init, TypeOK, Links, Idle
<1>2. LinksFollowSubscription
  BY NullAssumption DEF Init, LinksFollowSubscription, Chained
<1>3. VisitsStand(frames, links.publisher, since)
  BY DEF Init, VisitsStand
<1> QED
  BY <1>1, <1>2, <1>3 DEF Init, IInv, NoDanglingObserver, DestructorAtHead, Idle

(* An observer that moves to the end of p's list: subscribe, and           *)
(* assignment from a subscribed observer.                                  *)
LEMMA MoveKeepsIInv ==
  ASSUME IInv, NEW o \in Observer, NEW p \in Publisher,
         p \in alive, dtor = Idle,
         links' = Appended(Detached(links, o), o, p),
         since' = [since EXCEPT ![o] = clock + 1],
         clock' = clock + 1,
         frames' = AfterLeaving(o),
         UNCHANGED <<alive, dtor>>
  PROVE  IInv'
<1>1. /\ links \in Links /\ since \in [Observer -> Nat] /\ clock \in Nat
      /\ frames \in Seq(FrameType) /\ Chained(links, since)
      /\ links.publisher \in [Observer -> Publisher \cup {NULL}]
  BY DEF IInv, TypeOK, LinksFollowSubscription, Links
<1>2. clock + 1 \in Nat /\ \A x \in Observer : since[x] < clock + 1
  BY <1>1 DEF IInv
<1>3. /\ links' \in Links /\ Chained(links', since')
      /\ \A x \in Observer :
           links'.publisher[x] = IF x = o THEN p ELSE links.publisher[x]
  <2> DEFINE m == Appended(Detached(links, o), o, p)
             now == clock + 1
  <2>1. Before(since, now)
    BY <1>2 DEF Before
  <2> HIDE DEF now, m
  <2>2. m \in Links
    BY <1>1, <2>1, MovedChained DEF m
  <2>3. Chained(m, [since EXCEPT ![o] = now])
    BY <1>1, <2>1, MovedChained DEF m
  <2>4. \A x \in Observer : m.publisher[x] = IF x = o THEN p ELSE links.publisher[x]
    <3>1. Detached(links, o).publisher = [links.publisher EXCEPT ![o] = NULL]
      BY <1>1, DetachedChained
    <3> QED BY <1>1, <3>1 DEF m, Appended
  <2> QED BY <2>2, <2>3, <2>4 DEF now, m
<1>4. frames' \in Seq(FrameType)
  BY <1>1, AfterLeavingType
<1>5. TypeOK'
  BY <1>1, <1>2, <1>3, <1>4 DEF IInv, TypeOK
<1>6. NoDanglingObserver'
  BY <1>1, <1>3 DEF IInv, NoDanglingObserver
<1>7. \A x \in Observer : since'[x] <= clock'
  BY <1>1, <1>2
<1>8. VisitsStand(frames', links'.publisher, since')
  <2>1. \A x \in Observer \ {o} :
          links'.publisher[x] = links.publisher[x] /\ since'[x] = since[x]
    BY <1>1, <1>3
  <2>2. VisitsStand(frames, links.publisher, since)
    BY DEF IInv
  <2> QED BY <1>1, <2>1, <2>2, LeavingKeepsStanding
<1>9. DestructorAtHead'
  BY DEF DestructorAtHead, Idle
<1> QED
  BY <1>3, <1>5, <1>6, <1>7, <1>8, <1>9 DEF IInv, LinksFollowSubscription

(* An observer that leaves its list: unsubscribe, assignment from an       *)
(* unsubscribed observer, a step of the publisher's destructor.            *)
LEMMA LeaveKeepsParts ==
  ASSUME IInv, NEW o \in Observer,
         links' = Detached(links, o),
         since' = [since EXCEPT ![o] = 0],
         frames' = AfterLeaving(o),
         UNCHANGED <<alive, clock>>
  PROVE  /\ links' \in Links /\ since' \in [Observer -> Nat]
         /\ frames' \in Seq(FrameType) /\ clock' \in Nat /\ alive' \in SUBSET Publisher
         /\ LinksFollowSubscription'
         /\ NoDanglingObserver'
         /\ (\A x \in Observer : since[x] <= clock)'
         /\ VisitsStand(frames, links.publisher, since)'
<1>1. /\ links \in Links /\ since \in [Observer -> Nat] /\ clock \in Nat
      /\ frames \in Seq(FrameType) /\ Chained(links, since)
      /\ alive \in SUBSET Publisher
      /\ links.publisher \in [Observer -> Publisher \cup {NULL}]
  BY DEF IInv, TypeOK, LinksFollowSubscription, Links
<1>2. /\ links' \in Links /\ Chained(links', since')
      /\ links'.publisher = [links.publisher EXCEPT ![o] = NULL]
  BY <1>1, DetachedChained
<1>3. frames' \in Seq(FrameType)
  BY <1>1, AfterLeavingType
<1>4. NoDanglingObserver'
  BY <1>1, <1>2 DEF IInv, NoDanglingObserver
<1>5. since' \in [Observer -> Nat] /\ \A x \in Observer : since'[x] <= clock'
  BY <1>1 DEF IInv
<1>6. VisitsStand(frames', links'.publisher, since')
  <2>1. \A x \in Observer \ {o} :
          links'.publisher[x] = links.publisher[x] /\ since'[x] = since[x]
    BY <1>1, <1>2
  <2>2. VisitsStand(frames, links.publisher, since)
    BY DEF IInv
  <2> QED BY <1>1, <2>1, <2>2, LeavingKeepsStanding
<1> QED
  BY <1>1, <1>2, <1>3, <1>4, <1>5, <1>6 DEF LinksFollowSubscription

(* Every step of the code keeps the invariant. *)
LEMMA NextIInv == IInv /\ [Next]_vars => IInv'
<1> SUFFICES ASSUME IInv, [Next]_vars PROVE IInv'
  OBVIOUS
<1> USE DEF IInv
<1>t. /\ links \in Links /\ since \in [Observer -> Nat] /\ clock \in Nat
      /\ frames \in Seq(FrameType) /\ Chained(links, since)
      /\ alive \in SUBSET Publisher
      /\ links.publisher \in [Observer -> Publisher \cup {NULL}]
      /\ links.first \in [Publisher -> Observer \cup {NULL}]
      /\ links.next \in [Observer -> Observer \cup {NULL}]
      /\ NULL \notin Observer /\ NULL \notin Publisher
  BY NullAssumption DEF TypeOK, LinksFollowSubscription, Links
<1>1. CASE \E o \in Observer, p \in Publisher : Subscribe(o, p)
  <2> PICK o \in Observer, p \in Publisher : Subscribe(o, p)
    BY <1>1
  <2> QED BY MoveKeepsIInv DEF Subscribe
<1>2. CASE \E o, other \in Observer : Assign(o, other)
  <2> PICK o \in Observer, other \in Observer : Assign(o, other)
    BY <1>2
  <2>1. /\ Detached(links, o) \in Links
        /\ Chained(Detached(links, o), [since EXCEPT ![o] = 0])
        /\ Detached(links, o).publisher = [links.publisher EXCEPT ![o] = NULL]
    BY <1>t, DetachedChained
  <2>2. o # other /\ Detached(links, o).publisher[other] = links.publisher[other]
    BY <1>t, <2>1 DEF Assign
  <2>3. CASE links.publisher[other] = NULL
    <3>1. links' = Detached(links, o)
      <4>1. links' = [Detached(links, o) EXCEPT !.publisher[o] = NULL]
        BY <2>2, <2>3 DEF Assign, AppendedBeside
      <4>2. [Detached(links, o).publisher EXCEPT ![o] = NULL]
              = Detached(links, o).publisher
        BY <1>t, <2>1
      <4> QED BY <2>1, <4>1, <4>2 DEF Links
    <3>2. /\ since' = [since EXCEPT ![o] = 0] /\ frames' = AfterLeaving(o)
          /\ UNCHANGED <<alive, clock>> /\ UNCHANGED dtor /\ dtor = Idle
      BY <2>3 DEF Assign
    <3>3. /\ links' \in Links /\ since' \in [Observer -> Nat]
          /\ frames' \in Seq(FrameType) /\ clock' \in Nat /\ alive' \in SUBSET Publisher
          /\ LinksFollowSubscription'
          /\ NoDanglingObserver'
          /\ (\A x \in Observer : since[x] <= clock)'
          /\ VisitsStand(frames, links.publisher, since)'
      BY <3>1, <3>2, LeaveKeepsParts
    <3>4. TypeOK'
      BY <3>2, <3>3 DEF TypeOK
    <3>5. DestructorAtHead'
      BY <3>2 DEF DestructorAtHead, Idle
    <3> QED BY <3>3, <3>4, <3>5
  <2>4. CASE links.publisher[other] # NULL
    <3> DEFINE p == links.publisher[other]
    <3>1. p \in Publisher /\ p \in alive
      BY <1>t, <2>4 DEF NoDanglingObserver
    <3>2. [since EXCEPT ![o] = 0] \in [Observer -> Nat]
      BY <1>t
    <3>3. links' = Appended(Detached(links, o), o, p)
      <4> DEFINE m == Detached(links, o)
                 t == [since EXCEPT ![o] = 0]
      <4>1. m \in Links /\ Chained(m, t) /\ t \in [Observer -> Nat]
        BY <2>1, <3>2
      <4>2. m.publisher[other] # NULL /\ m.publisher[other] = p
        BY <2>2, <2>4
      <4> HIDE DEF m, t
      <4>3. AppendedBeside(m, o, other) = Appended(m, o, m.publisher[other])
        BY <4>1, <4>2, BesideIsAppended
      <4> QED BY <4>2, <4>3 DEF Assign, m
    <3>4. /\ since' = [since EXCEPT ![o] = clock + 1] /\ clock' = clock + 1
          /\ frames' = AfterLeaving(o) /\ UNCHANGED <<alive, dtor>> /\ dtor = Idle
      BY <2>4 DEF Assign
    <3> QED BY <3>1, <3>3, <3>4, MoveKeepsIInv
  <2> QED BY <2>3, <2>4
<1>3. CASE \E o \in Observer : Unsubscribe(o)
  <2> PICK o \in Observer : Unsubscribe(o)
    BY <1>3
  <2>1. /\ links' = Detached(links, o)
        /\ since' = [since EXCEPT ![o] = 0] /\ frames' = AfterLeaving(o)
        /\ UNCHANGED <<alive, clock>> /\ UNCHANGED dtor /\ dtor = Idle
    BY DEF Unsubscribe, Detached
  <2>2. /\ links' \in Links /\ since' \in [Observer -> Nat]
        /\ frames' \in Seq(FrameType) /\ clock' \in Nat /\ alive' \in SUBSET Publisher
        /\ LinksFollowSubscription'
        /\ NoDanglingObserver'
        /\ (\A x \in Observer : since[x] <= clock)'
        /\ VisitsStand(frames, links.publisher, since)'
    BY <2>1, LeaveKeepsParts
  <2>3. TypeOK'
    BY <2>1, <2>2 DEF TypeOK
  <2>4. DestructorAtHead'
    BY <2>1 DEF DestructorAtHead, Idle
  <2> QED BY <2>2, <2>3, <2>4
<1>4. CASE \E p \in Publisher : BeginVisit(p)
  <2> PICK p \in Publisher : BeginVisit(p)
    BY <1>4
  <2>1. Frame(p) \in FrameType
    BY <1>t DEF Frame, FrameType, Subscribers
  <2>2. Standing(Frame(p), links.publisher, since)
    <3> DEFINE f == Frame(p)
    <3>1. /\ f.pub = p /\ f.curr = links.first[p] /\ f.must = Subscribers(p)
          /\ f.done = {links.first[p]} \ {NULL}
      BY DEF Frame
    <3>2. IF links.first[p] = NULL
          THEN \A y \in Observer : links.publisher[y] # p
          ELSE /\ links.publisher[links.first[p]] = p
               /\ \A y \in Observer :
                    links.publisher[y] = p => since[links.first[p]] <= since[y]
      BY <1>t DEF Chained
    <3>3. Unfolded(links, since)
      BY <1>t, ChainFacts
    <3> HIDE DEF f
    <3>4. CASE f.curr = NULL
      BY <3>1, <3>2, <3>4 DEF Standing, Subscribers, f
    <3>5. CASE f.curr # NULL
      <4>1. f.curr \in Observer /\ links.publisher[f.curr] = p
        BY <1>t, <3>1, <3>2, <3>5
      <4>2. ASSUME NEW x \in f.must
            PROVE  /\ links.publisher[x] = p
                   /\ x \in f.done \/ since[f.curr] < since[x]
        BY <1>t, <3>1, <3>2, <3>3, <3>5, <4>1, <4>2 DEF Subscribers, Unfolded
      <4>3. ASSUME NEW x \in f.done
            PROVE  links.publisher[x] = p /\ since[x] <= since[f.curr]
        BY <1>t, <3>1, <4>1, <4>3
      <4> QED BY <3>1, <3>5, <4>1, <4>2, <4>3 DEF Standing, f
    <3> QED BY <3>4, <3>5
  <2>3. /\ frames' = Append(frames, Frame(p))
        /\ UNCHANGED <<links, alive, dtor, since, clock>>
    BY DEF BeginVisit
  <2>4. frames' \in Seq(FrameType)
    BY <1>t, <2>1, <2>3
  <2>5. VisitsStand(frames', links.publisher, since)
    <3> SUFFICES ASSUME NEW i \in DOMAIN frames'
                 PROVE  Standing(frames'[i], links.publisher, since)
      BY DEF VisitsStand
    <3>1. i \in DOMAIN frames \/ frames'[i] = Frame(p)
      BY <1>t, <2>1, <2>3
    <3>2. i \in DOMAIN frames => frames'[i] = frames[i]
      BY <1>t, <2>1, <2>3
    <3> QED BY <2>2, <3>1, <3>2 DEF VisitsStand
  <2> QED BY <2>3, <2>4, <2>5
          DEF TypeOK, LinksFollowSubscription, NoDanglingObserver, DestructorAtHead
<1>5. CASE AdvanceVisit
  <2> DEFINE n == links.next[Top.curr]
             f == Top
             g == [f EXCEPT !.curr = n, !.done = @ \cup ({n} \ {NULL})]
  <2>1. /\ Depth \in DOMAIN frames /\ f \in FrameType /\ f.curr \in Observer
        /\ Standing(f, links.publisher, since)
    <3>1. Depth \in DOMAIN frames /\ f = frames[Depth]
      BY <1>t, <1>5 DEF AdvanceVisit, Depth, Top
    <3>2. f \in FrameType /\ f.curr # NULL
      BY <1>t, <1>5, <3>1 DEF AdvanceVisit
    <3>3. f.curr \in Observer
      BY <3>2 DEF FrameType
    <3>4. Standing(f, links.publisher, since)
      BY <3>1 DEF VisitsStand
    <3> QED BY <3>1, <3>2, <3>3, <3>4
  <2>2. /\ frames' = [frames EXCEPT ![Depth] = g]
        /\ UNCHANGED <<links, alive, dtor, since, clock>>
    BY <1>5 DEF AdvanceVisit, Top
  <2>3. n \in Observer \cup {NULL}
    BY <1>t, <2>1
  <2>4. g \in FrameType
    BY <2>1, <2>3 DEF FrameType
  <2>5. frames' \in Seq(FrameType)
    BY <1>t, <2>1, <2>2, <2>4
  <2>6. Standing(g, links.publisher, since)
    <3>1. /\ g.pub = f.pub /\ g.curr = n /\ g.cut = f.cut /\ g.must = f.must
          /\ g.done = f.done \cup ({n} \ {NULL})
          /\ f.must \subseteq Observer /\ f.done \subseteq Observer
          /\ f.pub \in Publisher
      BY <2>1 DEF FrameType
    <3> HIDE DEF g, f
    <3>2. Unfolded(links, since)
      BY <1>t, ChainFacts
    <3>3. f.curr # NULL
      BY <1>t, <2>1
    <3>4. CASE n = NULL
      BY <1>t, <2>1, <3>1, <3>2, <3>3, <3>4 DEF Standing, Unfolded, f
    <3>5. CASE n # NULL
      <4> SUFFICES ASSUME ~f.cut
                   PROVE  /\ links.publisher[n] = f.pub
                          /\ \A x \in g.must :
                               /\ links.publisher[x] = f.pub
                               /\ x \in g.done \/ since[n] < since[x]
                          /\ \A x \in g.done :
                               links.publisher[x] = f.pub /\ since[x] <= since[n]
        BY <3>1, <3>5 DEF Standing
      <4>1. /\ links.publisher[f.curr] = f.pub
            /\ \A x \in f.must : /\ links.publisher[x] = f.pub
                                 /\ x \in f.done \/ since[f.curr] < since[x]
            /\ \A x \in f.done :
                 links.publisher[x] = f.pub /\ since[x] <= since[f.curr]
        BY <2>1, <3>3 DEF Standing, f
      <4>2. /\ n \in Observer /\ links.publisher[n] = f.pub /\ since[f.curr] < since[n]
            /\ \A y \in Observer : links.publisher[y] = f.pub =>
                 since[y] <= since[f.curr] \/ since[n] <= since[y]
        BY <2>1, <3>2, <3>5, <4>1 DEF Unfolded, f
      <4>3. /\ f.curr \in Observer /\ since \in [Observer -> Nat]
            /\ f.pub \in Publisher
        BY <1>t, <2>1, <3>1 DEF f
      <4>4. ASSUME NEW x \in f.must
            PROVE  /\ links.publisher[x] = f.pub
                   /\ x \in f.done \/ x = n \/ since[n] < since[x]
        <5>1. links.publisher[x] = f.pub /\ x \in Observer
          BY <3>1, <4>1
        <5>2. since[x] = since[n] => x = n
          BY <1>t, <3>2, <4>2, <4>3, <5>1 DEF Unfolded
        <5> QED BY <4>1, <4>2, <4>3, <5>1, <5>2
      <4>5. ASSUME NEW x \in f.done
            PROVE  links.publisher[x] = f.pub /\ since[x] <= since[n]
        BY <3>1, <4>1, <4>2, <4>3
      <4> QED BY <3>1, <3>5, <4>2, <4>3, <4>4, <4>5
    <3> QED BY <3>4, <3>5
  <2>7. VisitsStand(frames', links.publisher, since)
    BY <1>t, <2>1, <2>2, <2>6 DEF VisitsStand
  <2> QED BY <2>2, <2>5, <2>7
          DEF TypeOK, LinksFollowSubscription, NoDanglingObserver, DestructorAtHead
<1>6. CASE EndVisit
  <2>1. /\ frames' = SubSeq(frames, 1, Len(frames) - 1)
        /\ Len(frames) - 1 \in Nat
        /\ UNCHANGED <<links, alive, dtor, since, clock>>
    BY <1>t, <1>6 DEF EndVisit, Depth
  <2>2. /\ frames' \in Seq(FrameType)
        /\ \A i \in DOMAIN frames' : i \in DOMAIN frames /\ frames'[i] = frames[i]
    BY <1>t, <2>1
  <2>3. VisitsStand(frames', links.publisher, since)
    BY <2>2 DEF VisitsStand
  <2> QED BY <2>1, <2>2, <2>3
          DEF TypeOK, LinksFollowSubscription, NoDanglingObserver, DestructorAtHead
<1>7. CASE \E p \in Publisher : BeginDestroy(p)
  <2> PICK p \in Publisher : BeginDestroy(p)
    BY <1>7
  <2>1. /\ p \in alive /\ dtor' = [pub |-> p, curr |-> links.first[p]]
        /\ UNCHANGED <<links, alive, frames, since, clock>>
    BY DEF BeginDestroy
  <2> QED BY <1>t, <2>1
          DEF TypeOK, LinksFollowSubscription, NoDanglingObserver, DestructorAtHead
<1>8. CASE DestroyStep
  <2> DEFINE o == dtor.curr
             p == dtor.pub
  <2>1. /\ p \in Publisher /\ p \in alive /\ o \in Observer /\ o = links.first[p]
        /\ dtor \in [pub : Publisher \cup {NULL}, curr : Observer \cup {NULL}]
    BY <1>t, <1>8 DEF DestroyStep, DestructorAtHead, TypeOK
  <2>2. /\ links' = Detached(links, o)
        /\ since' = [since EXCEPT ![o] = 0] /\ frames' = AfterLeaving(o)
        /\ UNCHANGED <<alive, clock>> /\ dtor' = [dtor EXCEPT !.curr = links.next[o]]
    BY <1>8 DEF DestroyStep
  <2>3. /\ links' \in Links /\ since' \in [Observer -> Nat]
        /\ frames' \in Seq(FrameType) /\ clock' \in Nat /\ alive' \in SUBSET Publisher
        /\ LinksFollowSubscription'
        /\ NoDanglingObserver'
        /\ (\A x \in Observer : since[x] <= clock)'
        /\ VisitsStand(frames, links.publisher, since)'
    BY <2>1, <2>2, LeaveKeepsParts
  <2>4. dtor'.pub = p /\ dtor'.curr = links.next[o]
    BY <2>1, <2>2
  <2>5. links.publisher[o] = p /\ links.prev[o] = NULL
    <3>1. Unfolded(links, since)
      BY <1>t, ChainFacts
    <3>2. /\ links.publisher[o] = p
          /\ \A y \in Observer : links.publisher[y] = p => since[o] <= since[y]
      BY <1>t, <2>1 DEF Chained
    <3> QED BY <1>t, <2>1, <3>1, <3>2 DEF Unfolded
  <2>6. links'.first[p] = links.next[o]
    BY <1>t, <2>1, <2>2, <2>5 DEF Detached, Unlinked
  <2>7. DestructorAtHead'
    BY <1>t, <2>1, <2>2, <2>4, <2>6 DEF DestructorAtHead
  <2>8. TypeOK'
    BY <1>t, <2>1, <2>2, <2>3 DEF TypeOK
  <2> QED BY <2>3, <2>7, <2>8
<1>9. CASE EndDestroy
  <2> DEFINE p == dtor.pub
  <2>1. /\ p \in Publisher /\ links.first[p] = NULL
        /\ alive' = alive \ {p} /\ dtor' = Idle
        /\ UNCHANGED <<links, frames, since, clock>>
    BY <1>9 DEF EndDestroy, DestructorAtHead, TypeOK
  <2>2. \A y \in Observer : links.publisher[y] # p
    BY <1>t, <2>1 DEF Chained
  <2> QED BY <1>t, <2>1, <2>2
          DEF TypeOK, LinksFollowSubscription, NoDanglingObserver, DestructorAtHead, Idle
<1>10. CASE \E p \in Publisher : Create(p)
  <2> PICK p \in Publisher : Create(p)
    BY <1>10
  <2>1. /\ p \notin alive /\ alive' = alive \cup {p}
        /\ links' = [links EXCEPT !.first[p] = NULL, !.last[p] = NULL]
        /\ UNCHANGED <<dtor, frames, since, clock>> /\ dtor = Idle
    BY DEF Create
  <2>2. \A y \in Observer : links.publisher[y] # p
    BY <1>t, <2>1 DEF NoDanglingObserver
  <2>3. links.first[p] = NULL /\ links.last[p] = NULL
    <3>1. links.last \in [Publisher -> Observer \cup {NULL}]
      BY <1>t DEF Links
    <3> QED BY <1>t, <2>2, <3>1 DEF Chained
  <2>4. links' = links
    <3>1. /\ [links.first EXCEPT ![p] = NULL] = links.first
          /\ [links.last EXCEPT ![p] = NULL] = links.last
      <4>1. links.last \in [Publisher -> Observer \cup {NULL}]
        BY <1>t DEF Links
      <4> QED BY <1>t, <2>3, <4>1
    <3>2. links' = [links EXCEPT !.first = links.first, !.last = links.last]
      BY <2>1, <3>1
    <3> QED BY <1>t, <3>2 DEF Links
  <2> QED BY <1>t, <2>1, <2>4
          DEF TypeOK, LinksFollowSubscription, NoDanglingObserver, DestructorAtHead, Idle
<1>11. CASE UNCHANGED vars
  BY <1>11 DEF vars, TypeOK, LinksFollowSubscription, NoDanglingObserver, DestructorAtHead
<1> QED
  BY <1>1, <1>2, <1>3, <1>4, <1>5, <1>6, <1>7, <1>8, <1>9, <1>10, <1>11 DEF Next

(* The invariant holds in every reachable state. *)
LEMMA Invariance == Spec => []IInv
<1> QED
  BY InitIInv, NextIInv, PTL DEF Spec

-----------------------------------------------------------------------------

(* The state stays typed: the pointers point at observers and publishers,  *)
(* a frame of a traversal stays a frame.                                   *)
THEOREM TypeCorrect == Spec => []TypeOK
<1>1. IInv => TypeOK
  BY DEF IInv
<1> QED
  BY <1>1, Invariance, PTL

(* The links of every list join exactly its subscribers, both ways, in the *)
(* order of subscription, after any sequence of WeakObserver operations.   *)
THEOREM ListCorrect == Spec => []LinksFollowSubscription
<1>1. IInv => LinksFollowSubscription
  BY DEF IInv
<1> QED
  BY <1>1, Invariance, PTL

(* The destructor of a publisher leaves no observer pointing at it.        *)
THEOREM DestructorComplete == Spec => []NoDanglingObserver
<1>1. IInv => NoDanglingObserver
  BY DEF IInv
<1> QED
  BY <1>1, Invariance, PTL

(* A traversal that no observer has cut calls every observer that stayed   *)
(* subscribed, whatever the callbacks do to the list meanwhile.            *)
THEOREM TraversalComplete == Spec => []CompleteVisit
<1>1. IInv => CompleteVisit
  BY DEF IInv, VisitsStand, Standing, CompleteVisit
<1> QED
  BY <1>1, Invariance, PTL

(* A traversal that no observer has cut calls each observer once: what     *)
(* follows subscribed later than all that it has called.                   *)
THEOREM VisitsOnce == Spec => VisitedOnce
<1> DEFINE n == links.next[Top.curr]
           Once == AdvanceVisit /\ ~Top.cut /\ n # NULL =>
                     n \notin Top.done /\ links.publisher[n] = Top.pub
<1>1. IInv => Once
  <2> SUFFICES ASSUME IInv, AdvanceVisit, ~Top.cut, n # NULL
               PROVE  n \notin Top.done /\ links.publisher[n] = Top.pub
    OBVIOUS
  <2>1. /\ links \in Links /\ since \in [Observer -> Nat] /\ Chained(links, since)
        /\ frames \in Seq(FrameType) /\ VisitsStand(frames, links.publisher, since)
    BY DEF IInv, TypeOK, LinksFollowSubscription
  <2>2. Depth \in DOMAIN frames /\ Top = frames[Depth] /\ Top.curr # NULL
    BY <2>1 DEF AdvanceVisit, Depth, Top
  <2>3. Top \in FrameType
    BY <2>1, <2>2
  <2>4. Top.curr \in Observer /\ Top.done \subseteq Observer
    BY <2>2, <2>3 DEF FrameType
  <2>5. Unfolded(links, since)
    BY <2>1, ChainFacts
  <2>6. /\ links.publisher[Top.curr] = Top.pub
        /\ \A x \in Top.done : since[x] <= since[Top.curr]
    BY <2>1, <2>2 DEF VisitsStand, Standing
  <2>7. /\ n \in Observer /\ links.publisher[n] = links.publisher[Top.curr]
        /\ since[Top.curr] < since[n]
    BY <2>4, <2>5 DEF Unfolded
  <2>8. n \notin Top.done
    <3>1. since[n] \in Nat /\ since[Top.curr] \in Nat
      BY <2>1, <2>4, <2>7
    <3> QED BY <2>6, <2>7, <3>1
  <2> QED BY <2>6, <2>7, <2>8
<1>2. IInv => [Once]_vars
  BY <1>1
<1> QED
  BY <1>2, Invariance, PTL DEF VisitedOnce
-----------------------------------------------------------------------------
(* The list is the queue: what is read off the links.                      *)

Walks(f, l, p, m) == f = [n \in 0..m |-> IF n = 0 THEN <<>> ELSE Further(f[n - 1], l, p)]

LEMMA WalksExist ==
  ASSUME NEW l, NEW p, NEW m \in Nat
  PROVE  \E f : Walks(f, l, p, m)
<1> DEFINE N == {k \in Nat : \E f : Walks(f, l, p, k)}
<1>1. 0 \in N
  <2>1. Walks([n \in 0..0 |-> <<>>], l, p, 0)
    BY DEF Walks
  <2> QED BY <2>1
<1>2. ASSUME NEW k \in Nat, k \in N PROVE k + 1 \in N
  <2>1. PICK f : Walks(f, l, p, k)
    BY <1>2
  <2> DEFINE F(n) == IF n = 0 THEN <<>> ELSE Further(f[n - 1], l, p)
             g == [n \in 0..(k + 1) |-> IF n <= k THEN f[n] ELSE Further(f[k], l, p)]
             G(n) == IF n = 0 THEN <<>> ELSE Further(g[n - 1], l, p)
  <2>2. \A n \in 0..k : f[n] = F(n)
    <3>1. f = [n \in 0..k |-> F(n)]
      BY <2>1 DEF Walks
    <3> HIDE DEF F
    <3> QED BY <3>1
  <2>3. ASSUME NEW n \in 0..(k + 1) PROVE g[n] = G(n)
    <3>1. /\ n <= k => g[n] = f[n] /\ n \in 0..k
          /\ n # 0 => g[n - 1] = f[n - 1]
          /\ ~(n <= k) => n = k + 1 /\ g[n] = Further(f[k], l, p)
      OBVIOUS
    <3> HIDE DEF g
    <3>2. CASE n <= k
      BY <2>2, <3>1, <3>2
    <3>3. CASE ~(n <= k)
      <4>1. n # 0 /\ n - 1 = k
        BY <3>1, <3>3
      <4> QED BY <3>1, <3>3, <4>1
    <3> QED BY <3>2, <3>3
  <2>4. Walks(g, l, p, k + 1)
    <3> HIDE DEF G
    <3>1. g = [n \in 0..(k + 1) |-> g[n]]
      OBVIOUS
    <3> HIDE DEF g
    <3>2. g = [n \in 0..(k + 1) |-> G(n)]
      BY <2>3, <3>1
    <3> QED BY <3>2 DEF Walks, G
  <2> HIDE DEF g
  <2> QED BY <2>4
<1> HIDE DEF N
<1>3. Nat \subseteq N
  BY <1>1, <1>2, Induction
<1> QED BY <1>3 DEF N

LEMMA WalkIs ==
  ASSUME NEW l, NEW p
  PROVE  /\ Cardinality(Observer) \in Nat
         /\ \E f : Walks(f, l, p, Cardinality(Observer)) /\ Walk(l, p) = f[Cardinality(Observer)]
<1>1. Cardinality(Observer) \in Nat
  BY ObserverAssumption, FS_CardinalityType
<1>2. \E f : f = [n \in 0..Cardinality(Observer) |->
                   IF n = 0 THEN <<>> ELSE Further(f[n - 1], l, p)]
  <2>1. PICK m \in Nat : m = Cardinality(Observer)
    BY <1>1
  <2>2. \E f : Walks(f, l, p, m)
    BY WalksExist
  <2>3. \E f : f = [n \in 0..m |-> IF n = 0 THEN <<>> ELSE Further(f[n - 1], l, p)]
    BY <2>2 DEF Walks
  <2> QED BY <2>1, <2>3
<1>3. \E f : /\ f = [n \in 0..Cardinality(Observer) |->
                       IF n = 0 THEN <<>> ELSE Further(f[n - 1], l, p)]
             /\ Walk(l, p) = f[Cardinality(Observer)]
  BY <1>2 DEF Walk
<1> QED BY <1>1, <1>3 DEF Walks

(* In the order of subscription. *)
Earlier(s) == {e \in Observer \X Observer : s[e[1]] < s[e[2]]}

(* w has the first observers of p. *)
Begins(w, l, s, p) ==
  /\ w \in Seq(Observer) /\ Ordered(w, Earlier(s))
  /\ \A x \in Elements(w) : l.publisher[x] = p
  /\ \A y \in Observer : l.publisher[y] = p =>
       y \in Elements(w) \/ \A x \in Elements(w) : s[x] < s[y]

LEMMA WalkContinues ==
  ASSUME NEW l \in Links, NEW s \in [Observer -> Nat], Chained(l, s), NEW p \in Publisher,
         NEW w, Begins(w, l, s, p)
  PROVE  /\ Begins(Further(w, l, p), l, s, p)
         /\ \/ Len(Further(w, l, p)) = Len(w) + 1
            \/ /\ Further(w, l, p) = w
               /\ \A y \in Observer : l.publisher[y] = p => y \in Elements(w)
<1>1. PICK o : o = IF w = <<>> THEN l.first[p] ELSE l.next[w[Len(w)]]
  OBVIOUS
<1>2. Unfolded(l, s)
  BY ChainFacts
<1>3. Further(w, l, p) = IF o = NULL THEN w ELSE Append(w, o)
  BY <1>1 DEF Further
<1>4. /\ l.publisher \in [Observer -> Publisher \cup {NULL}]
      /\ l.next \in [Observer -> Observer \cup {NULL}]
      /\ l.first \in [Publisher -> Observer \cup {NULL}]
      /\ NULL \notin Observer /\ NULL \notin Publisher
  BY NullAssumption DEF Links
<1>5. w \in Seq(Observer) /\ Ordered(w, Earlier(s)) /\ Len(w) \in Nat
  BY DEF Begins
<1>6. \A x \in Elements(w) : x \in Observer /\ l.publisher[x] = p
  BY <1>5, ElementsTyped DEF Begins
<1>7. CASE w = <<>>
  <2>1. Elements(w) = {} /\ o = l.first[p]
    BY <1>1, <1>7, ElementsEmpty
  <2>2. IF o = NULL THEN \A y \in Observer : l.publisher[y] # p
        ELSE l.publisher[o] = p /\ \A y \in Observer : l.publisher[y] = p => s[o] <= s[y]
    BY <2>1 DEF Chained
  <2>3. CASE o = NULL
    BY <1>3, <2>2, <2>3
  <2>4. CASE o # NULL
    <3>1. o \in Observer
      BY <1>4, <2>1, <2>4
    <3>2. /\ Append(w, o) \in Seq(Observer) /\ Elements(Append(w, o)) = {o}
          /\ Ordered(Append(w, o), Earlier(s)) /\ Len(Append(w, o)) = Len(w) + 1
      BY <1>5, <2>1, <3>1, ElementsAppend, AppendOrdered
    <3>3. ASSUME NEW y \in Observer, l.publisher[y] = p, y # o PROVE s[o] < s[y]
      BY <1>2, <1>4, <2>2, <2>4, <3>1, <3>3 DEF Unfolded
    <3>4. Begins(Append(w, o), l, s, p)
      BY <2>2, <2>4, <3>2, <3>3 DEF Begins
    <3> QED BY <1>3, <2>4, <3>2, <3>4
  <2> QED BY <2>3, <2>4
<1>8. CASE w # <<>>
  <2>1. PICK z : z = w[Len(w)]
    OBVIOUS
  <2>2. Len(w) \in DOMAIN w /\ \A i \in DOMAIN w : i \in Nat /\ (i < Len(w) \/ i = Len(w))
    BY <1>5, <1>8
  <2>3. z \in Elements(w) /\ z \in Observer /\ l.publisher[z] = p /\ o = l.next[z]
    BY <1>1, <1>6, <1>8, <2>1, <2>2 DEF Elements
  <2>4. ASSUME NEW x \in Elements(w) PROVE x = z \/ s[x] < s[z]
    <3>1. PICK i \in DOMAIN w : x = w[i]
      BY DEF Elements
    <3>2. CASE i = Len(w)
      BY <2>1, <3>1, <3>2
    <3>3. CASE i < Len(w)
      <4>1. <<x, z>> \in Earlier(s)
        BY <1>5, <2>1, <2>2, <3>1, <3>3 DEF Ordered
      <4> QED BY <4>1 DEF Earlier
    <3> QED BY <2>2, <3>2, <3>3
  <2>5. CASE o = NULL
    <3>1. ASSUME NEW y \in Observer, l.publisher[y] = p PROVE y \in Elements(w)
      <4>1. s[y] <= s[z]
        BY <1>2, <1>4, <2>3, <2>5, <3>1 DEF Unfolded
      <4>2. ~(s[z] < s[y])
        BY <4>1, <2>3
      <4> QED BY <2>3, <3>1, <4>2 DEF Begins
    <3> QED BY <1>3, <2>5, <3>1
  <2>6. CASE o # NULL
    <3>1. /\ o \in Observer /\ l.publisher[o] = p /\ s[z] < s[o]
          /\ \A y \in Observer : l.publisher[y] = p => s[y] <= s[z] \/ s[o] <= s[y]
      BY <1>2, <1>4, <2>3, <2>6 DEF Unfolded
    <3>2. ASSUME NEW x \in Elements(w) PROVE s[x] < s[o]
      BY <1>6, <2>3, <2>4, <3>1
    <3>3. \A x \in Elements(w) : <<x, o>> \in Earlier(s)
      BY <1>6, <3>1, <3>2 DEF Earlier
    <3>4. /\ Append(w, o) \in Seq(Observer) /\ Elements(Append(w, o)) = Elements(w) \cup {o}
          /\ Ordered(Append(w, o), Earlier(s)) /\ Len(Append(w, o)) = Len(w) + 1
      BY <1>5, <3>1, <3>3, ElementsAppend, AppendOrdered
    <3>5. ASSUME NEW y \in Observer, l.publisher[y] = p, y \notin Elements(w), y # o
          PROVE  s[o] < s[y]
      <4>1. s[z] < s[y]
        BY <2>3, <3>5 DEF Begins
      <4>2. s[o] <= s[y]
        BY <2>3, <3>1, <3>5, <4>1
      <4>3. s[o] # s[y]
        BY <1>2, <1>4, <3>1, <3>5 DEF Unfolded
      <4> QED BY <3>1, <4>2, <4>3
    <3>6. ASSUME NEW y \in Observer, l.publisher[y] = p, y \notin Elements(w), y # o,
                 NEW x \in Elements(w)
          PROVE  s[x] < s[y]
      BY <3>6 DEF Begins
    <3>7. Begins(Append(w, o), l, s, p)
      BY <1>6, <3>1, <3>4, <3>5, <3>6 DEF Begins
    <3> QED BY <1>3, <2>6, <3>4, <3>7
  <2> QED BY <2>5, <2>6
<1> QED BY <1>7, <1>8

(* Following the links from the first observer reads off the subscribers   *)
(* in the order in which they subscribed.                                  *)
LEMMA WalkReads ==
  ASSUME NEW l \in Links, NEW s \in [Observer -> Nat], Chained(l, s), NEW p \in Publisher
  PROVE  /\ Walk(l, p) \in Seq(Observer)
         /\ Elements(Walk(l, p)) = {x \in Observer : l.publisher[x] = p}
         /\ Ordered(Walk(l, p), Earlier(s))
<1>1. PICK m : m = Cardinality(Observer)
  OBVIOUS
<1>2. m \in Nat /\ \E f : Walks(f, l, p, m) /\ Walk(l, p) = f[m]
  BY <1>1, WalkIs
<1>3. PICK f : Walks(f, l, p, m) /\ Walk(l, p) = f[m]
  BY <1>2
<1> DEFINE F(n) == IF n = 0 THEN <<>> ELSE Further(f[n - 1], l, p)
<1>4. \A n \in 0..m : f[n] = F(n)
  <2>1. f = [n \in 0..m |-> F(n)]
    BY <1>3 DEF Walks
  <2> HIDE DEF F
  <2> QED BY <2>1
<1> DEFINE All(w) == \A y \in Observer : l.publisher[y] = p => y \in Elements(w)
           OK(n) == Begins(f[n], l, s, p) /\ (Len(f[n]) = n \/ All(f[n]))
           N == {n \in Nat : n <= m => OK(n)}
<1>5. 0 \in N
  <2>1. f[0] = <<>>
    BY <1>2, <1>4
  <2>2. Begins(<<>>, l, s, p)
    <3>1. Elements(<<>>) = {} /\ Ordered(<<>>, Earlier(s)) /\ <<>> \in Seq(Observer)
      BY ElementsEmpty DEF Ordered
    <3> QED BY <3>1 DEF Begins
  <2>3. OK(0)
    BY <2>1, <2>2
  <2> HIDE DEF OK
  <2> QED BY <2>3
<1>6. ASSUME NEW n \in Nat, n \in N PROVE n + 1 \in N
  <2> SUFFICES ASSUME n + 1 <= m PROVE OK(n + 1)
    BY DEF N
  <2>1. OK(n)
    BY <1>2, <1>6
  <2>2. f[n + 1] = Further(f[n], l, p)
    <3>1. n + 1 \in 0..m /\ n + 1 # 0 /\ (n + 1) - 1 = n
      BY <1>2
    <3> QED BY <1>4, <3>1
  <2>3. PICK w : w = f[n]
    OBVIOUS
  <2>4. /\ Begins(Further(w, l, p), l, s, p)
        /\ Len(Further(w, l, p)) = Len(w) + 1 \/ (Further(w, l, p) = w /\ All(w))
    BY <2>1, <2>3, WalkContinues
  <2>5. CASE All(w)
    <3>1. Further(w, l, p) = w \/ \A x \in Elements(w) : x \in Elements(Further(w, l, p))
      <4>1. w \in Seq(Observer) /\ Further(w, l, p) \in Seq(Observer)
        BY <2>1, <2>3, <2>4 DEF Begins
      <4>2. Further(w, l, p) = w \/ \E o : Further(w, l, p) = Append(w, o)
        BY DEF Further
      <4>3. \A o : Append(w, o) \in Seq(Observer) => Elements(w) \subseteq Elements(Append(w, o))
        <5> TAKE o
        <5>1. /\ DOMAIN w \subseteq DOMAIN Append(w, o)
              /\ \A i \in DOMAIN w : Append(w, o)[i] = w[i]
          BY <4>1
        <5> QED BY <5>1 DEF Elements
      <4> QED BY <4>1, <4>2, <4>3
    <3> QED BY <2>2, <2>3, <2>4, <2>5, <3>1
  <2>6. CASE Len(w) = n
    BY <2>2, <2>3, <2>4, <2>6
  <2> QED BY <2>1, <2>3, <2>5, <2>6
<1> HIDE DEF N
<1>7. Nat \subseteq N
  BY <1>5, <1>6, Induction
<1>8. OK(m)
  BY <1>2, <1>7 DEF N
<1>9. PICK w : w = Walk(l, p)
  OBVIOUS
<1>10. /\ w \in Seq(Observer) /\ Ordered(w, Earlier(s))
       /\ \A x \in Elements(w) : x \in Observer /\ l.publisher[x] = p
       /\ Len(w) = m \/ All(w)
  <2>1. Begins(w, l, s, p) /\ (Len(w) = m \/ All(w))
    BY <1>3, <1>8, <1>9
  <2>2. w \in Seq(Observer)
    BY <2>1 DEF Begins
  <2> QED BY <2>1, <2>2, ElementsTyped DEF Begins
<1>11. ASSUME Len(w) = m PROVE All(w)
  <2>1. Distinct(w)
    <3> SUFFICES ASSUME NEW i \in DOMAIN w, NEW j \in DOMAIN w, w[i] = w[j] PROVE i = j
      BY DEF Distinct
    <3>1. i \in Nat /\ j \in Nat /\ w[i] \in Observer
      BY <1>10
    <3>2. <<w[i], w[i]>> \notin Earlier(s)
      BY <3>1 DEF Earlier
    <3>3. ~(i < j) /\ ~(j < i)
      BY <1>10, <3>2 DEF Ordered
    <3> QED BY <3>1, <3>3
  <2>2. Elements(w) \subseteq Observer /\ Cardinality(Elements(w)) = Cardinality(Observer)
    BY <1>1, <1>10, <1>11, <2>1, ElementsCounted
  <2>3. Elements(w) = Observer
    BY <2>2, ObserverAssumption, FS_Subset
  <2> QED BY <2>3
<1>12. Elements(w) = {x \in Observer : l.publisher[x] = p}
  BY <1>10, <1>11
<1> QED BY <1>9, <1>10, <1>12

(* The steps of the code, by what they do to subscriptions.                *)
Left(o) == /\ links'.publisher = [links.publisher EXCEPT ![o] = NULL]
           /\ since' = [since EXCEPT ![o] = 0]
Joined(o, p) == /\ links'.publisher = [links.publisher EXCEPT ![o] = p]
                /\ since' = [since EXCEPT ![o] = clock + 1]
Stayed == links'.publisher = links.publisher /\ since' = since

LEMMA StepsMove ==
  ASSUME IInv, [Next]_vars
  PROVE  \/ Stayed
         \/ \E o \in Observer : Left(o)
         \/ \E o \in Observer, p \in Publisher : Joined(o, p)
<1>t. /\ links \in Links /\ since \in [Observer -> Nat] /\ Chained(links, since)
      /\ links.publisher \in [Observer -> Publisher \cup {NULL}]
      /\ dtor \in [pub : Publisher \cup {NULL}, curr : Observer \cup {NULL}]
  BY DEF IInv, TypeOK, LinksFollowSubscription, Links
<1>d. \A o \in Observer : Detached(links, o).publisher = [links.publisher EXCEPT ![o] = NULL]
  BY <1>t, DetachedChained
<1>1. ASSUME NEW o \in Observer, NEW p \in Publisher, Subscribe(o, p) PROVE Joined(o, p)
  <2>1. links'.publisher = [Detached(links, o).publisher EXCEPT ![o] = p]
    BY <1>1 DEF Subscribe, Appended
  <2>2. links'.publisher = [links.publisher EXCEPT ![o] = p]
    BY <1>t, <1>d, <2>1
  <2> QED BY <1>1, <2>2 DEF Subscribe, Joined
<1>2. ASSUME NEW o \in Observer, NEW other \in Observer, Assign(o, other)
      PROVE  Left(o) \/ \E p \in Publisher : Joined(o, p)
  <2>1. o # other /\ Detached(links, o).publisher[other] = links.publisher[other]
    BY <1>t, <1>d, <1>2 DEF Assign
  <2>2. Detached(links, o) \in Links
    BY <1>t, DetachedChained
  <2>3. links'.publisher = [Detached(links, o).publisher EXCEPT ![o] = links.publisher[other]]
    BY <1>2, <2>1, <2>2 DEF Assign, AppendedBeside, Links
  <2>4. links'.publisher = [links.publisher EXCEPT ![o] = links.publisher[other]]
    BY <1>t, <1>d, <2>3
  <2>5. CASE links.publisher[other] = NULL
    BY <1>2, <2>4, <2>5 DEF Assign, Left
  <2>6. CASE links.publisher[other] # NULL
    BY <1>t, <1>2, <2>4, <2>6 DEF Assign, Joined
  <2> QED BY <2>5, <2>6
<1>3. ASSUME NEW o \in Observer, Unsubscribe(o) PROVE Left(o)
  <2>1. links' = Detached(links, o) /\ since' = [since EXCEPT ![o] = 0]
    BY <1>3 DEF Unsubscribe, Detached
  <2> QED BY <1>d, <2>1 DEF Left
<1>4. CASE DestroyStep
  <2>1. /\ dtor.curr \in Observer /\ links' = Detached(links, dtor.curr)
        /\ since' = [since EXCEPT ![dtor.curr] = 0]
    BY <1>t, <1>4 DEF DestroyStep
  <2>2. Left(dtor.curr)
    BY <1>d, <2>1 DEF Left
  <2> QED BY <2>1, <2>2
<1>5. ASSUME NEW p \in Publisher, Create(p) PROVE Stayed
  BY <1>t, <1>5 DEF Create, Stayed, Links
<1>6. CASE \/ \E p \in Publisher : BeginVisit(p) \/ BeginDestroy(p)
           \/ AdvanceVisit \/ EndVisit \/ EndDestroy \/ UNCHANGED vars
  BY <1>6 DEF BeginVisit, BeginDestroy, AdvanceVisit, EndVisit, EndDestroy, vars, Stayed
<1> QED BY <1>1, <1>2, <1>3, <1>4, <1>5, <1>6 DEF Next

(* An order of subscription is one. *)
LEMMA EarlierOrders ==
  ASSUME NEW s \in [Observer -> Nat]
  PROVE  \A x, y \in Observer : ~(<<x, y>> \in Earlier(s) /\ <<y, x>> \in Earlier(s))
BY DEF Earlier

(* The others keep their order when o leaves. *)
LEMMA OthersStay ==
  ASSUME NEW w \in Seq(Observer), NEW o \in Observer, NEW s, NEW r, Ordered(w, Earlier(s)),
         \A x \in Observer \ {o} : r[x] = s[x]
  PROVE  /\ Only(w, Observer \ {o}) \in Seq(Observer)
         /\ Elements(Only(w, Observer \ {o})) = Elements(w) \ {o}
         /\ Ordered(Only(w, Observer \ {o}), Earlier(r))
<1>1. PICK v : v = Only(w, Observer \ {o})
  OBVIOUS
<1>2. v \in Seq(Observer \cap (Observer \ {o})) /\ Elements(v) = Elements(w) \cap (Observer \ {o})
  BY <1>1, OnlyElements
<1>3. Elements(w) \subseteq Observer
  BY ElementsTyped
<1>4. v \in Seq(Observer) /\ v \in Seq(Observer \ {o})
  BY <1>2
<1>5. Ordered(v, Earlier(s))
  BY <1>1, OnlyOrdered
<1>6. Ordered(v, Earlier(r))
  <2> SUFFICES ASSUME NEW i \in DOMAIN v, NEW j \in DOMAIN v, i < j PROVE <<v[i], v[j]>> \in Earlier(r)
    BY DEF Ordered
  <2>1. v[i] \in Observer \ {o} /\ v[j] \in Observer \ {o}
    BY <1>4
  <2>2. <<v[i], v[j]>> \in Earlier(s)
    BY <1>5 DEF Ordered
  <2> QED BY <2>1, <2>2 DEF Earlier
<1> QED BY <1>1, <1>2, <1>3, <1>4, <1>6

LEMMA QueueStep ==
  ASSUME IInv, IInv', [Next]_vars
  PROVE  [Queue!Next]_[p \in Publisher |-> Walk(links, p)]
<1> DEFINE subs == [p \in Publisher |-> Walk(links, p)]
<1>1. /\ links \in Links /\ since \in [Observer -> Nat] /\ Chained(links, since)
      /\ links' \in Links /\ since' \in [Observer -> Nat] /\ Chained(links', since')
      /\ links.publisher \in [Observer -> Publisher \cup {NULL}]
      /\ clock \in Nat /\ \A x \in Observer : since[x] < clock + 1
  BY DEF IInv, TypeOK, LinksFollowSubscription, Links
<1>n. NULL \notin Publisher
  BY NullAssumption
<1>2. ASSUME NEW q \in Publisher
      PROVE  /\ Walk(links, q) \in Seq(Observer)
             /\ Elements(Walk(links, q)) = {x \in Observer : links.publisher[x] = q}
             /\ Ordered(Walk(links, q), Earlier(since))
  BY <1>1, WalkReads
<1>3. ASSUME NEW q \in Publisher
      PROVE  /\ Walk(links', q) \in Seq(Observer)
             /\ Elements(Walk(links', q)) = {x \in Observer : links'.publisher[x] = q}
             /\ Ordered(Walk(links', q), Earlier(since'))
  BY <1>1, WalkReads
<1>4. ASSUME NEW q \in Publisher, NEW w \in Seq(Observer),
             Elements(w) = {x \in Observer : links'.publisher[x] = q}, Ordered(w, Earlier(since'))
      PROVE  Walk(links', q) = w
  <2>1. \A x, y \in Observer : ~(<<x, y>> \in Earlier(since') /\ <<y, x>> \in Earlier(since'))
    BY <1>1, EarlierOrders
  <2> QED BY <1>3, <1>4, <2>1, OrderDetermines
<1>5. CASE Stayed
  <2>1. \A q \in Publisher : Walk(links', q) = Walk(links, q)
    BY <1>2, <1>4, <1>5 DEF Stayed
  <2> QED BY <2>1
<1>6. ASSUME NEW o \in Observer, Left(o) PROVE Queue!Leave(o)
  <2>1. ASSUME NEW q \in Publisher PROVE Walk(links', q) = Only(Walk(links, q), Observer \ {o})
    <3>1. PICK w : w = Walk(links, q)
      OBVIOUS
    <3>2. PICK v : v = Only(w, Observer \ {o})
      OBVIOUS
    <3>3. \A x \in Observer \ {o} : since'[x] = since[x]
      BY <1>1, <1>6 DEF Left
    <3>4. v \in Seq(Observer) /\ Elements(v) = Elements(w) \ {o} /\ Ordered(v, Earlier(since'))
      BY <1>2, <3>1, <3>2, <3>3, OthersStay
    <3>5. Elements(v) = {x \in Observer : links'.publisher[x] = q}
      BY <1>1, <1>2, <1>6, <1>n, <3>1, <3>4 DEF Left
    <3> QED BY <1>4, <3>1, <3>2, <3>4, <3>5
  <2>2. subs' = [q \in Publisher |-> Only(subs[q], Observer \ {o})]
    BY <2>1
  <2> QED BY <2>2 DEF Queue!Leave, Queue!Without, Queue!Only, Only
<1>7. ASSUME NEW o \in Observer, NEW p \in Publisher, Joined(o, p) PROVE Queue!Join(o, p)
  <2>1. ASSUME NEW q \in Publisher
        PROVE  Walk(links', q) = IF q = p THEN Append(Only(Walk(links, q), Observer \ {o}), o)
                                 ELSE Only(Walk(links, q), Observer \ {o})
    <3>1. PICK w : w = Walk(links, q)
      OBVIOUS
    <3>2. PICK v : v = Only(w, Observer \ {o})
      OBVIOUS
    <3>3. /\ \A x \in Observer \ {o} : since'[x] = since[x] /\ since'[x] < since'[o]
          /\ \A x \in Observer : links'.publisher[x] = IF x = o THEN p ELSE links.publisher[x]
      BY <1>1, <1>7 DEF Joined
    <3>4. v \in Seq(Observer) /\ Elements(v) = Elements(w) \ {o} /\ Ordered(v, Earlier(since'))
      BY <1>2, <3>1, <3>2, <3>3, OthersStay
    <3>5. CASE q = p
      <4>1. \A x \in Elements(v) : x \in Observer \ {o}
        BY <1>2, <3>1, <3>4
      <4>2. \A x \in Elements(v) : <<x, o>> \in Earlier(since')
        BY <3>3, <4>1 DEF Earlier
      <4>3. /\ Append(v, o) \in Seq(Observer) /\ Elements(Append(v, o)) = Elements(v) \cup {o}
            /\ Ordered(Append(v, o), Earlier(since'))
        BY <3>4, <4>2, ElementsAppend, AppendOrdered
      <4>4. Elements(Append(v, o)) = {x \in Observer : links'.publisher[x] = q}
        BY <1>2, <3>1, <3>3, <3>4, <3>5, <4>3
      <4> QED BY <1>4, <3>1, <3>2, <3>5, <4>3, <4>4
    <3>6. CASE q # p
      <4>1. Elements(v) = {x \in Observer : links'.publisher[x] = q}
        BY <1>2, <3>1, <3>3, <3>4, <3>6
      <4> QED BY <1>4, <3>1, <3>2, <3>4, <3>6, <4>1
    <3> QED BY <3>5, <3>6
  <2>2. subs' = [[q \in Publisher |-> Only(subs[q], Observer \ {o})] EXCEPT ![p] = Append(@, o)]
    <3>1. subs' = [q \in Publisher |-> Walk(links', q)]
      OBVIOUS
    <3>2. \A q \in Publisher : subs[q] = Walk(links, q)
      OBVIOUS
    <3> HIDE DEF subs
    <3> QED BY <2>1, <3>1, <3>2
  <2> QED BY <2>2 DEF Queue!Join, Queue!Without, Queue!Only, Only
<1> QED BY <1>5, <1>6, <1>7, StepsMove DEF Queue!Next

(* Every operation of the list is one of the queue.                        *)
THEOREM QueueImplemented == Spec => ImplementsQueue
<1>1. Init => Queue!Init
  <2> SUFFICES ASSUME Init PROVE Queue!Init
    OBVIOUS
  <2>1. /\ links \in Links /\ since \in [Observer -> Nat] /\ Chained(links, since)
        /\ \A x \in Observer : links.publisher[x] = NULL
    BY InitIInv DEF IInv, TypeOK, LinksFollowSubscription, Init
  <2>2. ASSUME NEW p \in Publisher PROVE Walk(links, p) = <<>>
    <3>1. PICK w : w = Walk(links, p)
      OBVIOUS
    <3>2. w \in Seq(Observer) /\ Elements(w) = {}
      BY <2>1, <3>1, WalkReads, NullAssumption
    <3>3. w = <<>>
      BY <3>2, ElementsTail
    <3> QED BY <3>1, <3>3
  <2> QED BY <2>2 DEF Queue!Init
<1>2. IInv /\ IInv' /\ [Next]_vars => [Queue!Next]_[p \in Publisher |-> Walk(links, p)]
  BY QueueStep
<1> QED BY <1>1, <1>2, Invariance, PTL DEF Spec, ImplementsQueue, Queue!Spec
=============================================================================
