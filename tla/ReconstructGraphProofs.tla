------------------------ MODULE ReconstructGraphProofs ------------------------
(***************************************************************************)
(* Proofs about ReconstructGraph, for any number of files and layers of    *)
(* each type, calls and signals.                                           *)
(*                                                                         *)
(* The inductive invariant has four parts.  The call stack is ordered:     *)
(* what is loaded is not removed by the same call, a connection is made as *)
(* soon as it is asked for, and so on.  What the entries of the stack name *)
(* exists, or will when it is their turn.  The graph is consistent: both   *)
(* ends know every connection and its flag is that of the layer it comes   *)
(* from.  Tasks know their inputs.  The groups that are open are counted   *)
(* by the entries that end them.                                           *)
(***************************************************************************)
EXTENDS ReconstructGraph, SequenceLemmas

(* Which entry may be above which on the call stack. *)
Additive == {"enter", "create", "createQuietly", "connectAll", "make", "adopt", "autoLink"}
Subtractive == {"remove", "forget", "destroy", "drop"}
Removal == {"remove", "forget", "destroy"}
Before(x, y) ==
  /\ x.do \in Additive => y.do \notin Subtractive
  /\ x.do \in Subtractive => y.do \notin Additive \cup {"default"}
  /\ x.do # "drop" /\ y.do # "link"
  /\ y.do = "enter" => x.do = "enter" /\ x.on # y.on
  /\ y.do = "begin" => x.do = "enter"
  /\ y.do = "count" => x.do \in {"signal", "activate", "default", "link", "cut"}
  /\ y.do = "make" => x.do \notin Additive /\ (x.do = "default" => x.on # y.on)
  /\ y.do \in {"activate", "cut"} => x.do \notin Additive \cup {"remove", "destroy"}
  /\ y.do = "cut" => x.do # "forget" /\ (x.do = "cut" => x.on # y.on)
  /\ x.do \in Removal /\ y.do \in Removal /\ x.on = y.on => x.do = "forget" /\ y.do = "destroy"
  /\ x.do = "default" /\ y.do = "destroy" => x.on # y.on
  /\ x.do = "link" /\ y.do = "drop" => x.with # y.on
Order == {p \in Entries \X Entries : Before(p[1], p[2])}

Grouped == {x \in Entries : x.do \in {"make", "destroy"}}
Ends == {x \in Entries : x.do = "end"}

Stacked(s) == s \in Seq(Entries) /\ Ordered(s, Order) /\ Followed(s, Grouped, Ends)

Has(s, what, x) == \E y \in Elements(s) : y.do = what /\ y.on = x
Leaves(s, l) == \E y \in Elements(s) : y.do \in {"remove", "destroy"} /\ y.on = l
Drops(s) == \E y \in Elements(s) : y.do = "drop"

(* What an entry x of the call stack s needs of the graph. *)
Fits(x, s) ==
  /\ x.do \in Removal => x.on \in Live
  /\ x.do = "drop" => x.on \in files
  /\ x.do = "enter" => x.on \in Files \ files
  /\ x.do \in {"create", "createQuietly"} =>
       x.with \in files \cup {NoFile} \/ Has(s, "enter", x.with)
  /\ x.do = "make" => x.on \in Layers \ made
  /\ x.do = "adopt" => x.with \in files /\ (x.on \in Live \/ Has(s, "make", x.on))
  /\ x.do = "autoLink" => x.on \in Live /\ x.with \in Live
  /\ x.do = "link" => /\ x.on \in Live /\ x.with \in files \cup Live
                      /\ ~Duplicates /\ x.with \in Layers => ~Connected(x.with, x.on)
  /\ x.do = "activate" => x.on \in Live /\ x.with \in BOOLEAN
  /\ x.do = "default" => x.on \in Rotations /\ (x.on \in Live \/ Has(s, "make", x.on))
  /\ x.do = "cut" => x.on \in DOMAIN conn /\ (Drops(s) => conn[x.on].from \notin Files)

StackInv == Stacked(calls) /\ \A x \in Elements(calls) : Fits(x, calls)

(* Files, layers and connections. *)
GraphInv ==
  /\ files \subseteq Files /\ made \subseteq Layers
  /\ layers \in Seq(Layers) /\ Distinct(layers) /\ Live \subseteq made
  /\ active \in [Layers -> BOOLEAN] /\ auto \in [Layers -> BOOLEAN]
  /\ \A l \in Layers : active[l] => l \in Live
  /\ DOMAIN conn \subseteq Nat /\ IsFiniteSet(DOMAIN conn)
  /\ \A c \in DOMAIN conn : conn[c] \in [from : files \cup Live, to : Live, on : BOOLEAN]
  /\ \A c \in DOMAIN conn : conn[c].on = SourceActive(conn[c].from)
  /\ outputs \in [Data -> Seq(DOMAIN conn)]
  /\ \A d \in Data : /\ Distinct(outputs[d])
                     /\ Elements(outputs[d]) = {c \in DOMAIN conn : conn[c].from = d}

(* The tasks of layers; of other layers only if none is connected twice. *)
ActiveInputs(l) == {g \in Live : active[g] /\ Connected(g, l)}
TasksInv ==
  /\ fileTask \in [Layers -> [Files -> Nat]] /\ layerTask \in [Layers -> SUBSET Layers]
  /\ \A l \in Layers, f \in Files :
       fileTask[l][f] = Cardinality({c \in Inputs(l) : conn[c].from = f})
  /\ \A l \in Layers : layerTask[l] \subseteq ActiveInputs(l)
  /\ ~Duplicates =>
       /\ \A l \in Layers : ActiveInputs(l) \subseteq layerTask[l]
       /\ \A c, d \in DOMAIN conn :
            conn[c].from \in Layers /\ conn[c].from = conn[d].from /\ conn[c].to = conn[d].to => c = d

(* A layer that is destroyed is no default, or will be forgotten before. *)
DefaultsInv ==
  /\ defaults \in Seq(Rotations)
  /\ Elements(defaults) \subseteq Live
  /\ shown = Top(defaults)
  /\ \A x \in Elements(calls) :
       x.do = "destroy" /\ x.on \in Elements(defaults) => Has(calls, "forget", x.on)

(* Groups are counted by their ends, but for one that is about to begin. *)
GroupsInv ==
  /\ nested \in Nat
  /\ nested + (IF \E x \in Elements(calls) : x.do \in {"begin", "count"} THEN 1 ELSE 0)
       = Tally(calls, Ends)
  /\ open = IF nested > 0 THEN 1 ELSE 0

(* A layer that is to go with a file is on the stack until it is gone. *)
DropInv ==
  \A x \in Elements(calls) : x.do = "drop" =>
    \A l \in Live : auto[l] /\ FedOnlyBy(l, x.on) => Leaves(calls, l)

IInv == StackInv /\ GraphInv /\ TasksInv /\ DefaultsInv /\ GroupsInv /\ DropInv
-----------------------------------------------------------------------------
(* Pieces of the call stack. *)
LEMMA Joined ==
  ASSUME NEW e, NEW t, Stacked(e), Stacked(t),
         \A x \in Elements(e), y \in Elements(t) : Before(x, y)
  PROVE  /\ Stacked(e \o t)
         /\ Elements(e \o t) = Elements(e) \cup Elements(t)
         /\ Tally(t, Ends) \in Nat /\ Tally(e \o t, Ends) = Tally(e, Ends) + Tally(t, Ends)
<1>1. /\ e \in Seq(Entries) /\ Ordered(e, Order) /\ Followed(e, Grouped, Ends)
      /\ t \in Seq(Entries) /\ Ordered(t, Order) /\ Followed(t, Grouped, Ends)
  BY DEF Stacked
<1>2. Elements(e) \subseteq Entries /\ Elements(t) \subseteq Entries
  BY <1>1, ElementsTyped
<1>3. \A x \in Elements(e), y \in Elements(t) : <<x, y>> \in Order
  BY <1>2 DEF Order
<1>4. e \o t \in Seq(Entries) /\ Elements(e \o t) = Elements(e) \cup Elements(t)
  BY <1>1, ElementsConcat
<1>5. Ordered(e \o t, Order) /\ Followed(e \o t, Grouped, Ends)
  BY <1>1, <1>3, StackConcat
<1>6. Tally(t, Ends) \in Nat /\ Tally(e \o t, Ends) = Tally(e, Ends) + Tally(t, Ends)
  BY <1>1, TallyConcat
<1> QED BY <1>4, <1>5, <1>6 DEF Stacked

LEMMA NoEntries ==
  Stacked(<<>>) /\ Elements(<<>>) = {} /\ Tally(<<>>, Ends) = 0
<1>1. <<>> \in Seq(Entries) /\ Ordered(<<>>, Order) /\ Followed(<<>>, Grouped, Ends)
  BY DEF Ordered, Followed
<1> QED BY <1>1, ElementsEmpty, TallyEmpty DEF Stacked

LEMMA OneEntry ==
  ASSUME NEW x \in Entries, x.do \notin {"make", "destroy"}
  PROVE  /\ Stacked(<<x>>) /\ Elements(<<x>>) = {x}
         /\ Tally(<<x>>, Ends) = IF x.do = "end" THEN 1 ELSE 0
<1>1. <<x>> \in Seq(Entries) /\ Ordered(<<x>>, Order)
  BY DEF Ordered
<1>2. Followed(<<x>>, Grouped, Ends)
  BY DEF Followed, Grouped
<1>3. Elements(<<x>>) = {x}
  BY DEF Elements
<1>4. Tally(<<x>>, Ends) = IF x \in Ends THEN 1 ELSE 0
  BY TallySingle
<1> QED BY <1>1, <1>2, <1>3, <1>4 DEF Stacked, Ends

LEMMA AllOrdered ==
  ASSUME NEW s \in Seq(Entries), \A x, y \in Elements(s) : Before(x, y)
  PROVE  Ordered(s, Order)
<1> SUFFICES ASSUME NEW i \in DOMAIN s, NEW j \in DOMAIN s PROVE <<s[i], s[j]>> \in Order
  BY DEF Ordered
<1>1. s[i] \in Elements(s) /\ s[j] \in Elements(s) /\ Elements(s) \subseteq Entries
  BY ElementsTyped DEF Elements
<1> QED BY <1>1 DEF Order

LEMMA InGroup ==
  ASSUME NEW s \in Seq(Entries), Ordered(s, Order),
         \A x \in Elements(s) : x.do \notin {"drop", "link", "enter", "begin", "count"}
  PROVE  /\ Stacked(Group(s))
         /\ Elements(Group(s)) = {Do("begin", NoFile, NoFile), Do("end", NoFile, NoFile)} \cup Elements(s)
         /\ Tally(Group(s), Ends) = 1 + Tally(s, Ends) /\ Tally(s, Ends) \in Nat
<1> DEFINE b == Do("begin", NoFile, NoFile)
           e == Do("end", NoFile, NoFile)
           B == <<b>>
           E == <<e>>
           r == B \o s
<1>1. b \in Entries /\ e \in Entries /\ b.do = "begin" /\ e.do = "end"
  BY DEF Do, Entries
<1> HIDE DEF b, e
<1>2. B \in Seq(Entries) /\ E \in Seq(Entries) /\ Elements(B) = {b} /\ Elements(E) = {e}
      /\ Ordered(B, Order) /\ Ordered(E, Order)
  BY <1>1, OneEntry DEF Stacked
<1>20. Tally(B, Ends) = 0 /\ Tally(E, Ends) = 1
  BY <1>1, OneEntry
<1>21. \A q \in Seq(Entries) : /\ Len(q) + 1 \in DOMAIN (q \o E) /\ (q \o E)[Len(q) + 1] = e /\ Len(q) \in Nat
                             /\ \A i \in DOMAIN (q \o E) : i < Len(q) + 1 \/ i = Len(q) + 1
  BY <1>1
<1> HIDE DEF B, E
<1>3. Elements(s) \subseteq Entries
  BY ElementsTyped
<1>4. \A x \in Elements(s) : <<b, x>> \in Order /\ <<x, e>> \in Order
  BY <1>1, <1>3 DEF Order, Before, Additive, Subtractive, Removal
<1>5. <<b, e>> \in Order
  BY <1>1 DEF Order, Before, Additive, Subtractive, Removal
<1>6. r \in Seq(Entries) /\ Elements(r) = {b} \cup Elements(s) /\ Ordered(r, Order)
  <2>1. r \in Seq(Entries) /\ Elements(r) = {b} \cup Elements(s)
    BY <1>2, ElementsConcat
  <2>2. Ordered(r, Order)
    BY <1>2, <1>4, StackConcat
  <2> QED BY <2>1, <2>2
<1> HIDE DEF r
<1>7. r \o E \in Seq(Entries) /\ Elements(r \o E) = {b, e} \cup Elements(s)
      /\ Ordered(r \o E, Order)
  <2>1. r \o E \in Seq(Entries) /\ Elements(r \o E) = {b, e} \cup Elements(s)
    BY <1>2, <1>6, ElementsConcat
  <2>2. Ordered(r \o E, Order)
    BY <1>2, <1>4, <1>5, <1>6, StackConcat
  <2> QED BY <2>1, <2>2
<1>8. Followed(r \o E, Grouped, Ends)
  <2> DEFINE q == r \o E
  <2>1. /\ Len(r) + 1 \in DOMAIN q /\ q[Len(r) + 1] = e /\ Len(r) \in Nat
        /\ \A i \in DOMAIN q : i < Len(r) + 1 \/ i = Len(r) + 1
    BY <1>6, <1>21
  <2>2. e \in Ends /\ e \notin Grouped
    BY <1>1 DEF Ends, Grouped
  <2> HIDE DEF q
  <2> QED BY <2>1, <2>2 DEF Followed, q
<1>9. Tally(r \o E, Ends) = 1 + Tally(s, Ends) /\ Tally(s, Ends) \in Nat
  <2>1. Tally(B, Ends) = 0 /\ Tally(E, Ends) = 1
    BY <1>20
  <2>2. Tally(r, Ends) = Tally(B, Ends) + Tally(s, Ends) /\ Tally(s, Ends) \in Nat
    BY <1>2, TallyConcat DEF r
  <2>3. Tally(r \o E, Ends) = Tally(r, Ends) + Tally(E, Ends)
    BY <1>2, <1>6, TallyConcat
  <2> QED BY <2>1, <2>2, <2>3
<1> QED BY <1>7, <1>8, <1>9 DEF Stacked, Group, b, e, B, E, r

(* The call that runs, and what it leaves. *)
LEMMA TheCall ==
  ASSUME NEW s, Stacked(s), s # <<>>
  PROVE  /\ Head(s) \in Entries /\ Head(s) \in Elements(s) /\ Stacked(Tail(s))
         /\ Elements(s) = {Head(s)} \cup Elements(Tail(s)) /\ Elements(s) \subseteq Entries
         /\ \A y \in Elements(Tail(s)) : Before(Head(s), y)
         /\ Head(s).do \in {"make", "destroy"} => \E y \in Elements(Tail(s)) : y.do = "end"
         /\ Tally(Tail(s), Ends) \in Nat
         /\ Tally(s, Ends) = Tally(Tail(s), Ends) + IF Head(s).do = "end" THEN 1 ELSE 0
<1>1. s \in Seq(Entries) /\ Ordered(s, Order) /\ Followed(s, Grouped, Ends)
  BY DEF Stacked
<1>2. /\ Head(s) \in Entries /\ Tail(s) \in Seq(Entries) /\ Head(s) \in Elements(s)
      /\ Elements(s) = {Head(s)} \cup Elements(Tail(s))
  BY <1>1, ElementsTail
<1>3. /\ Ordered(Tail(s), Order) /\ \A y \in Elements(Tail(s)) : <<Head(s), y>> \in Order
      /\ Followed(Tail(s), Grouped, Ends)
      /\ Head(s) \in Grouped => \E y \in Elements(Tail(s)) : y \in Ends
  BY <1>1, StackTail
<1>4. \A y \in Elements(Tail(s)) : Before(Head(s), y)
  BY <1>3 DEF Order
<1>5. /\ Tally(Tail(s), Ends) \in Nat
      /\ Tally(s, Ends) = Tally(Tail(s), Ends) + IF Head(s) \in Ends THEN 1 ELSE 0
  BY <1>1, TallyTail
<1>6. Elements(s) \subseteq Entries
  BY <1>1, ElementsTyped
<1>7. /\ Head(s) \in Ends <=> Head(s).do = "end"
      /\ Head(s).do \in {"make", "destroy"} => \E y \in Elements(Tail(s)) : y.do = "end"
  BY <1>2, <1>3 DEF Ends, Grouped
<1> QED BY <1>1, <1>2, <1>3, <1>4, <1>5, <1>6, <1>7 DEF Stacked
-----------------------------------------------------------------------------
(* Entries fit as long as what they need of the graph is there. *)
LEMMA SameGraph ==
  ASSUME UNCHANGED <<files, layers, made, conn, defaults>>, NEW x, Fits(x, calls')
  PROVE  Fits(x, calls)'
<1>1. Live' = Live
  BY DEF Live
<1> QED BY <1>1 DEF Fits, Connected, Inputs

LEMMA StillFits ==
  ASSUME NEW x, NEW s, NEW t, Fits(x, s),
         Drops(t) /\ x.do = "cut" => Drops(s),
         x.do \in {"create", "createQuietly"} /\ Has(s, "enter", x.with) => Has(t, "enter", x.with),
         x.do \in {"adopt", "default"} /\ Has(s, "make", x.on) => Has(t, "make", x.on)
  PROVE  Fits(x, t)
BY DEF Fits

LEMMA SignalEntry ==
  /\ Signal \in Entries /\ Signal.do = "signal"
  /\ Stacked(<<Signal>>) /\ Elements(<<Signal>>) = {Signal} /\ Tally(<<Signal>>, Ends) = 0
  /\ \A s : Fits(Signal, s)
<1>1. Signal \in Entries /\ Signal.do = "signal"
  BY DEF Signal, Do, Entries
<1>2. \A s : Fits(Signal, s)
  BY <1>1 DEF Fits, Removal
<1> HIDE DEF Signal
<1> QED BY <1>1, <1>2, OneEntry

LEMMA SignalBefore ==
  ASSUME NEW h, NEW y, Before(h, y), h.do # "enter"
  PROVE  Before(Signal, y)
BY SignalEntry DEF Before, Additive, Subtractive, Removal

Beginning(s) == IF \E x \in Elements(s) : x.do \in {"begin", "count"} THEN 1 ELSE 0

LEMMA TasksStay ==
  ASSUME TasksInv, UNCHANGED <<graph, tasks>>
  PROVE  TasksInv'
<1>1. /\ fileTask' = fileTask /\ layerTask' = layerTask /\ conn' = conn
      /\ active' = active /\ Live' = Live
  BY DEF graph, tasks, Live
<1>2. \A l : Inputs(l)' = Inputs(l) /\ ActiveInputs(l)' = ActiveInputs(l)
  BY <1>1 DEF Inputs, ActiveInputs, Connected
<1> QED BY <1>1, <1>2 DEF TasksInv

(* Calls that clients and listeners start. *)
LEMMA Started ==
  ASSUME IInv, NEW e, Start(e), Stacked(e), calls = <<>> \/ Head(calls).do = "signal",
         \A x \in Elements(e) : Fits(x, e \o calls),
         \A x \in Elements(e), y \in Elements(calls) : Before(x, y),
         calls = <<>> \/ \A x \in Elements(e) : x.do \notin {"drop", "begin", "count"},
         Tally(e, Ends) = Beginning(e), \A x \in Elements(e) : x.do # "destroy",
         \A x \in Elements(e) : x.do = "drop" =>
           \A l \in Live : auto[l] /\ FedOnlyBy(l, x.on) => Leaves(e, l)
  PROVE  IInv'
<1>1. calls' = e \o calls /\ UNCHANGED <<graph, tasks, defaults, nested, open, shown>>
  BY DEF Start
<1>2. Stacked(calls) /\ \A x \in Elements(calls) : Fits(x, calls)
  BY DEF IInv, StackInv
<1>3. /\ Stacked(calls') /\ Elements(calls') = Elements(e) \cup Elements(calls)
      /\ Tally(calls, Ends) \in Nat
      /\ Tally(calls', Ends) = Tally(e, Ends) + Tally(calls, Ends)
  BY <1>1, <1>2, Joined
<1>4. calls = <<>> => Elements(calls) = {} /\ Tally(calls, Ends) = 0
  BY NoEntries
<1>5. \A x \in Elements(calls') : Fits(x, calls')
  <2>1. ASSUME NEW x \in Elements(calls) PROVE Fits(x, calls')
    <3>1. Drops(calls') => Drops(calls)
      BY <1>3, <1>4, <2>1 DEF Drops
    <3>2. \A what, d : Has(calls, what, d) => Has(calls', what, d)
      BY <1>3 DEF Has
    <3> QED BY <1>2, <2>1, <3>1, <3>2, StillFits
  <2> QED BY <1>1, <1>3, <2>1
<1>6. StackInv'
  <2>1. \A x \in Elements(calls') : Fits(x, calls)'
    BY <1>1, <1>5, SameGraph DEF graph
  <2> QED BY <1>3, <2>1 DEF StackInv
<1>7. GraphInv' /\ TasksInv' /\ DefaultsInv'
  <2>1. GraphInv'
    BY <1>1 DEF IInv, GraphInv, graph, Live, SourceActive
  <2>2. TasksInv'
    BY <1>1, TasksStay DEF IInv
  <2>3. DefaultsInv'
    <3>1. defaults' = defaults /\ shown' = shown /\ Live' = Live
      BY <1>1 DEF graph, Live
    <3>2. \A x \in Elements(calls') : x.do = "destroy" /\ x.on \in Elements(defaults) =>
             Has(calls', "forget", x.on)
      BY <1>3 DEF IInv, DefaultsInv, Has
    <3> QED BY <3>1, <3>2 DEF IInv, DefaultsInv, Top
  <2> QED BY <2>1, <2>2, <2>3
<1>8. GroupsInv'
  <2>1. Beginning(calls') = Beginning(e) + Beginning(calls)
    BY <1>3, <1>4 DEF Beginning
  <2>2. nested \in Nat /\ nested + Beginning(calls) = Tally(calls, Ends)
        /\ open = IF nested > 0 THEN 1 ELSE 0
    BY DEF IInv, GroupsInv, Beginning
  <2>3. Beginning(e) \in Nat /\ Beginning(calls) \in Nat
    BY DEF Beginning
  <2>4. nested' + Beginning(calls') = Tally(calls', Ends)
    BY <1>1, <1>3, <2>1, <2>2, <2>3
  <2> QED BY <1>1, <2>2, <2>4 DEF GroupsInv, Beginning
<1>9. DropInv'
  <2> SUFFICES ASSUME NEW x \in Elements(calls'), x.do = "drop", NEW l \in Live',
                      auto'[l], FedOnlyBy(l, x.on)'
               PROVE  Leaves(calls', l)
    BY DEF DropInv
  <2>1. l \in Live /\ auto[l] /\ FedOnlyBy(l, x.on)
    BY <1>1 DEF graph, Live, FedOnlyBy, MainInputs, MainFiles, Inputs
  <2>2. CASE x \in Elements(e)
    BY <1>3, <2>1, <2>2 DEF Leaves
  <2>3. CASE x \in Elements(calls)
    BY <1>3, <2>1, <2>3 DEF Leaves, IInv, DropInv
  <2> QED BY <1>3, <2>2, <2>3
<1> QED BY <1>6, <1>7, <1>8, <1>9 DEF IInv
-----------------------------------------------------------------------------
(* What listeners start. *)
LEMMA UnderSignal ==
  ASSUME Stacked(calls), calls # <<>> => Head(calls).do = "signal"
  PROVE  \A y \in Elements(calls) : y \in Entries /\ y.do \notin {"enter", "begin", "link"}
<1>1. CASE calls = <<>>
  BY <1>1, NoEntries
<1>2. CASE calls # <<>>
  <2>1. /\ Elements(calls) = {Head(calls)} \cup Elements(Tail(calls))
        /\ Elements(calls) \subseteq Entries
        /\ \A y \in Elements(Tail(calls)) : Before(Head(calls), y)
    BY <1>2, TheCall
  <2>2. \A y \in Elements(Tail(calls)) : y.do \notin {"enter", "begin", "link"}
    BY <1>2, <2>1 DEF Before
  <2> QED BY <1>2, <2>1, <2>2
<1> QED BY <1>1, <1>2

LEMMA ListenerStarts ==
  ASSUME IInv, NEW x \in Entries, x.do \in {"activate", "default", "link"}, Start(<<x>>),
         Fits(x, <<x>> \o calls),
         \A y \in Elements(calls) : /\ x.do = "default" /\ y.do \in {"make", "destroy"} => x.on # y.on
                                    /\ x.do = "link" /\ y.do = "drop" => x.with # y.on
  PROVE  IInv'
<1> DEFINE e == <<x>>
<1>1. Stacked(e) /\ Elements(e) = {x} /\ Tally(e, Ends) = 0
  BY OneEntry
<1>2. \A y \in Elements(calls) : y.do \notin {"enter", "begin", "link"}
  BY UnderSignal DEF IInv, StackInv, Start
<1>3. \A y \in Elements(calls) : Before(x, y)
  BY <1>2 DEF Before, Additive, Subtractive, Removal
<1>4. Start(e) /\ Fits(x, e \o calls) /\ (calls = <<>> \/ Head(calls).do = "signal")
  BY DEF Start
<1> HIDE DEF e
<1>5. Beginning(e) = 0
  BY <1>1 DEF Beginning
<1> QED BY <1>1, <1>3, <1>4, <1>5, Started

LEMMA ActivateStep ==
  ASSUME IInv, NEW l \in Live, NEW on \in BOOLEAN, Activate(l, on)
  PROVE  IInv'
<1> DEFINE x == Do("activate", l, on)
<1>1. Live \subseteq Layers
  BY DEF IInv, GraphInv
<1>2. x \in Entries /\ x.do = "activate" /\ x.on = l /\ x.with = on
  BY <1>1 DEF Do, Entries
<1>3. Start(<<x>>)
  BY DEF Activate
<1> HIDE DEF x
<1>4. \A s : Fits(x, s)
  BY <1>2 DEF Fits, Removal
<1> QED BY <1>2, <1>3, <1>4, ListenerStarts

LEMMA SetDefaultStep ==
  ASSUME IInv, NEW l \in Live, SetDefault(l)
  PROVE  IInv'
<1> DEFINE x == Do("default", l, NoFile)
<1>1. Live \subseteq made /\ l \in Rotations /\ l \notin Leaving
  BY DEF IInv, GraphInv, SetDefault
<1>2. x \in Entries /\ x.do = "default" /\ x.on = l
  BY <1>1 DEF Do, Entries, Data, Layers
<1>3. Start(<<x>>)
  BY DEF SetDefault
<1> HIDE DEF x
<1>4. \A s : Fits(x, s)
  BY <1>1, <1>2 DEF Fits, Removal
<1>5. \A y \in Elements(calls) : y.do \in {"make", "destroy"} => x.on # y.on
  <2> SUFFICES ASSUME NEW y \in Elements(calls), y.do \in {"make", "destroy"} PROVE x.on # y.on
    OBVIOUS
  <2>1. CASE y.do = "make"
    <3>1. Fits(y, calls)
      BY DEF IInv, StackInv
    <3>2. y.on \in Layers \ made
      BY <2>1, <3>1 DEF Fits
    <3> QED BY <1>1, <1>2, <3>2
  <2>2. CASE y.do = "destroy"
    <3>1. y.on \in Leaving
      BY <2>2 DEF Leaving, Elements
    <3> QED BY <1>1, <1>2, <3>1
  <2> QED BY <2>1, <2>2
<1> QED BY <1>2, <1>3, <1>4, <1>5, ListenerStarts

LEMMA ConnectFileStep ==
  ASSUME IInv, NEW f \in Files, NEW l \in Live, ConnectFile(f, l)
  PROVE  IInv'
<1> DEFINE x == Do("link", l, f)
<1>1. Live \subseteq Layers /\ f \in files /\ f \notin Dropping
  BY DEF IInv, GraphInv, ConnectFile
<1>2. x \in Entries /\ x.do = "link" /\ x.on = l /\ x.with = f
  BY <1>1 DEF Do, Entries, Data
<1>3. Start(<<x>>)
  BY DEF ConnectFile
<1> HIDE DEF x
<1>4. \A s : Fits(x, s)
  BY <1>1, <1>2, DataAssumption DEF Fits, Removal
<1>5. \A y \in Elements(calls) : y.do = "drop" => x.with # y.on
  BY <1>1, <1>2 DEF Dropping, Elements
<1> QED BY <1>2, <1>3, <1>4, <1>5, ListenerStarts

LEMMA ConnectLayerStep ==
  ASSUME IInv, NEW g \in Live, NEW l \in Live, ConnectLayer(g, l)
  PROVE  IInv'
<1> DEFINE x == Do("link", l, g)
<1>1. Live \subseteq Layers /\ files \subseteq Files /\ Files \cap Layers = {}
      /\ (~Duplicates => ~Connected(g, l))
  BY DataAssumption DEF IInv, GraphInv, ConnectLayer
<1>2. x \in Entries /\ x.do = "link" /\ x.on = l /\ x.with = g
  BY <1>1 DEF Do, Entries, Data
<1>3. Start(<<x>>)
  BY DEF ConnectLayer
<1> HIDE DEF x
<1>4. \A s : Fits(x, s)
  BY <1>1, <1>2 DEF Fits, Removal
<1>5. \A y \in Elements(calls) : y.do = "drop" => x.with # y.on
  <2> SUFFICES ASSUME NEW y \in Elements(calls), y.do = "drop" PROVE x.with # y.on
    OBVIOUS
  <2>1. Fits(y, calls)
    BY DEF IInv, StackInv
  <2>2. y.on \in files
    BY <2>1 DEF Fits
  <2> QED BY <1>1, <1>2, <2>2
<1> QED BY <1>2, <1>3, <1>4, <1>5, ListenerStarts

LEMMA DisconnectStep ==
  ASSUME IInv, NEW c \in DOMAIN conn, Disconnect(c)
  PROVE  IInv'
<1> DEFINE x == Do("cut", c, NoFile)
           e == <<Signal, x>>
<1>1. DOMAIN conn \subseteq Nat /\ c \notin Cutting /\ (conn[c].from \in Files => Dropping = {})
  BY DEF IInv, GraphInv, Disconnect
<1>2. x \in Entries /\ x.do = "cut" /\ x.on = c
  BY <1>1 DEF Do, Entries
<1>3. Start(e)
  BY DEF Disconnect
<1>4. e = <<Signal>> \o <<x>>
  OBVIOUS
<1> HIDE DEF x, e
<1>5. \A y \in Elements(calls) : y \in Entries /\ y.do \notin {"enter", "begin", "link"}
  BY <1>3, UnderSignal DEF IInv, StackInv, Start
<1>6. Stacked(<<x>>) /\ Elements(<<x>>) = {x} /\ Tally(<<x>>, Ends) = 0
  BY <1>2, OneEntry
<1>7. Before(Signal, x)
  BY <1>2, SignalEntry DEF Before, Additive, Subtractive, Removal
<1>8. Stacked(e) /\ Elements(e) = {Signal, x} /\ Tally(e, Ends) = 0
  BY <1>4, <1>6, <1>7, SignalEntry, Joined
<1>9. \A y \in Elements(calls) : Before(Signal, y) /\ Before(x, y)
  <2>1. \A y \in Elements(calls) : y.do = "cut" => x.on # y.on
    BY <1>1, <1>2 DEF Cutting, Elements
  <2> QED BY <1>2, <1>5, <2>1, SignalEntry DEF Before, Additive, Subtractive, Removal
<1>10. Fits(x, e \o calls)
  <2>1. Stacked(e \o calls) /\ Elements(e \o calls) = {Signal, x} \cup Elements(calls)
    BY <1>8, <1>9, Joined DEF IInv, StackInv
  <2>2. Drops(e \o calls) => Dropping # {}
    <3> SUFFICES ASSUME NEW y \in Elements(calls), y.do = "drop" PROVE Dropping # {}
      BY <1>2, <2>1, SignalEntry DEF Drops
    <3> QED BY DEF Dropping, Elements
  <2> QED BY <1>1, <1>2, <2>2 DEF Fits, Removal
<1>11. Beginning(e) = 0
  BY <1>2, <1>8, SignalEntry DEF Beginning
<1> QED BY <1>2, <1>3, <1>8, <1>9, <1>10, <1>11, SignalEntry, Started DEF Start
-----------------------------------------------------------------------------
(* What clients start. *)
LEMMA ClientStarts ==
  ASSUME IInv, Outside, NEW e, Start(e), Stacked(e), \A x \in Elements(e) : Fits(x, e),
         Tally(e, Ends) = Beginning(e), \A x \in Elements(e) : x.do # "destroy",
         \A x \in Elements(e) : x.do = "drop" =>
           \A l \in Live : auto[l] /\ FedOnlyBy(l, x.on) => Leaves(e, l)
  PROVE  IInv'
<1>1. calls = <<>> /\ Elements(calls) = {}
  BY NoEntries DEF Outside
<1>2. e \o calls = e
  <2>1. e \in Seq(Entries)
    BY DEF Stacked
  <2> QED BY <1>1, <2>1
<1> QED BY <1>1, <1>2, Started

LEMMA PlainPiece ==
  ASSUME NEW s \in Seq(Entries), NEW D, \A x \in Elements(s) : x.do \in D,
         \/ D = {"create"} \/ D = {"createQuietly"} \/ D = {"autoLink"}
         \/ D = {"create", "connectAll"} \/ D = {"createQuietly", "connectAll"}
  PROVE  Stacked(s) /\ Tally(s, Ends) = 0
<1>1. \A x \in Elements(s) : x.do \in {"create", "createQuietly", "autoLink", "connectAll"}
  OBVIOUS
<1>2. ASSUME NEW x \in Elements(s), NEW y \in Elements(s) PROVE Before(x, y)
  <2>1. /\ x.do \in {"create", "createQuietly", "autoLink", "connectAll"}
        /\ y.do \in {"create", "createQuietly", "autoLink", "connectAll"}
    BY <1>1
  <2> QED BY <2>1 DEF Before, Additive, Subtractive, Removal
<1>3. Ordered(s, Order)
  BY <1>2, AllOrdered
<1>4. \A i \in DOMAIN s : s[i] \notin Grouped
  BY <1>1 DEF Grouped, Elements
<1>5. Followed(s, Grouped, Ends)
  BY <1>4 DEF Followed
<1>6. Tally(s, Ends) = 0
  BY <1>1, TallyZero DEF Ends
<1> QED BY <1>3, <1>5, <1>6 DEF Stacked

LEMMA TypeOrderTyped == TypeOrder \in Seq(Types)
BY DEF TypeOrder, Types

LEMMA Mapped ==
  ASSUME NEW A, NEW B, NEW k \in Seq(A), NEW s, s = [i \in DOMAIN k |-> s[i]],
         \A i \in DOMAIN k : s[i] \in B
  PROVE  s \in Seq(B) /\ DOMAIN s = DOMAIN k
OBVIOUS

LEMMA Calls ==
  ASSUME NEW A, NEW k \in Seq(A), NEW what, NEW f, NEW s,
         DOMAIN s = DOMAIN k, s = [i \in DOMAIN s |-> s[i]],
         \A i \in DOMAIN k : s[i] = Do(what, k[i], f),
         \A x \in A : Do(what, x, f) \in Entries
  PROVE  /\ s \in Seq(Entries) /\ DOMAIN s = DOMAIN k
         /\ \A i \in DOMAIN k : s[i].do = what /\ s[i].on = k[i] /\ s[i].with = f
         /\ \A x \in Elements(s) : x.do = what /\ x.with = f /\ x.on \in Elements(k)
<1>1. DOMAIN s = DOMAIN k /\ s = [i \in DOMAIN k |-> s[i]]
  OBVIOUS
<1>2. \A i \in DOMAIN k : k[i] \in A /\ s[i] = Do(what, k[i], f)
  OBVIOUS
<1>3. \A i \in DOMAIN k : s[i] \in Entries
  BY <1>2
<1>4. \A i \in DOMAIN k : s[i].do = what /\ s[i].on = k[i] /\ s[i].with = f
  BY <1>2 DEF Do
<1>5. s \in Seq(Entries)
  BY <1>1, <1>3, Mapped
<1> QED BY <1>1, <1>4, <1>5 DEF Elements

LEMMA CreationsPiece ==
  ASSUME NEW how, how = "create" \/ how = "createQuietly", NEW content, NEW f \in Files
  PROVE  /\ Creations(how, content, f) \in Seq(Entries) /\ Stacked(Creations(how, content, f))
         /\ \A x \in Elements(Creations(how, content, f)) : x.do = how /\ x.with = f
         /\ Tally(Creations(how, content, f), Ends) = 0
<1>1. PICK kept : kept = Only(TypeOrder, content)
  OBVIOUS
<1>2. PICK s : s = [i \in DOMAIN kept |-> Do(how, kept[i], f)]
  OBVIOUS
<1>3. kept \in Seq(Types \cap content)
  BY <1>1, TypeOrderTyped, OnlyElements
<1>4. \A x \in Types \cap content : Do(how, x, f) \in Entries
  BY DEF Do, Entries
<1>5. s \in Seq(Entries) /\ \A x \in Elements(s) : x.do = how /\ x.with = f
  <2>0. DOMAIN s = DOMAIN kept /\ s = [i \in DOMAIN s |-> s[i]] /\ \A i \in DOMAIN kept : s[i] = Do(how, kept[i], f)
    BY <1>2
  <2>1. PICK A : A = Types \cap content
    OBVIOUS
  <2>2. kept \in Seq(A) /\ \A x \in A : Do(how, x, f) \in Entries
    BY <1>3, <1>4, <2>1
  <2>3. s \in Seq(Entries)
    BY <2>0, <2>2, Calls
  <2>4. \A x \in Elements(s) : x.do = how /\ x.with = f
    <3>1. \A x \in Elements(s) : x.do = how /\ x.with = f /\ x.on \in Elements(kept)
      BY <2>0, <2>2, Calls
    <3> QED BY <3>1
  <2> QED BY <2>3, <2>4
<1>6. s = Creations(how, content, f)
  BY <1>1, <1>2 DEF Creations
<1>7. Stacked(s) /\ Tally(s, Ends) = 0
  <2>1. PICK D : D = {how}
    OBVIOUS
  <2> QED BY <1>5, <2>1, PlainPiece
<1> QED BY <1>5, <1>6, <1>7

LEMMA AutoConnectPiece ==
  /\ Stacked(AutoConnect) /\ Tally(AutoConnect, Ends) = 0
  /\ \A x \in Elements(AutoConnect) : x.do = "connectAll"
<1> DEFINE x == Do("connectAll", NoFile, NoFile)
<1>1. x \in Entries /\ x.do = "connectAll"
  BY DEF Do, Entries
<1>2. AutoConnect = <<x>>
  BY DEF AutoConnect
<1> HIDE DEF x
<1> QED BY <1>1, <1>2, OneEntry

(* Layers for the types of a file, and their connections. *)
LEMMA CreationsThenConnect ==
  ASSUME NEW e, Stacked(e), NEW how, how = "create" \/ how = "createQuietly", Tally(e, Ends) = 0,
         \A x \in Elements(e) : x.do = how
  PROVE  /\ Stacked(e \o AutoConnect) /\ Tally(e \o AutoConnect, Ends) = 0
         /\ \A x \in Elements(e \o AutoConnect) : x \in Elements(e) \/ x.do = "connectAll"
<1>1. \A x \in Elements(e), y \in Elements(AutoConnect) : Before(x, y)
  BY AutoConnectPiece DEF Before, Additive, Subtractive, Removal
<1>2. Stacked(e \o AutoConnect) /\ Elements(e \o AutoConnect) = Elements(e) \cup Elements(AutoConnect)
  BY <1>1, Joined, AutoConnectPiece
<1>3. Tally(e \o AutoConnect, Ends) = Tally(e, Ends) + Tally(AutoConnect, Ends)
  BY <1>1, Joined, AutoConnectPiece
<1> QED BY <1>2, <1>3, AutoConnectPiece

LEMMA AddFileStep ==
  ASSUME IInv, NEW f \in Files, NEW content, AddFile(f, content)
  PROVE  IInv'
<1> DEFINE x == Do("enter", f, NoFile)
           c == Creations("create", content, f)
           d == c \o AutoConnect
           e == <<x>> \o d
<1>1. Outside /\ f \notin files /\ Start((<<x>> \o c) \o AutoConnect)
  BY DEF AddFile
<1>2. x \in Entries /\ x.do = "enter" /\ x.on = f
  BY DEF Do, Entries, Data
<1>3. Stacked(c) /\ Tally(c, Ends) = 0 /\ \A y \in Elements(c) : y.do = "create" /\ y.with = f
  BY CreationsPiece
<1> HIDE DEF x, c
<1>4. (<<x>> \o c) \o AutoConnect = e
  <2>1. <<x>> \in Seq(Entries) /\ c \in Seq(Entries) /\ AutoConnect \in Seq(Entries)
    BY <1>2, <1>3, AutoConnectPiece DEF Stacked
  <2>2. \A a, b, z \in Seq(Entries) : (a \o b) \o z = a \o (b \o z)
    OBVIOUS
  <2> QED BY <2>1, <2>2
<1>5. /\ Stacked(d) /\ Tally(d, Ends) = 0
      /\ \A y \in Elements(d) : y.do = "connectAll" \/ (y.do = "create" /\ y.with = f)
  BY <1>3, CreationsThenConnect
<1>6. Stacked(<<x>>) /\ Elements(<<x>>) = {x} /\ Tally(<<x>>, Ends) = 0
  BY <1>2, OneEntry
<1> HIDE DEF d
<1>7. \A y \in Elements(d) : Before(x, y)
  BY <1>2, <1>5 DEF Before, Additive, Subtractive, Removal
<1>8. Stacked(e) /\ Elements(e) = {x} \cup Elements(d) /\ Tally(e, Ends) = 0
  BY <1>5, <1>6, <1>7, Joined
<1> HIDE DEF e
<1>9. Has(e, "enter", f)
  BY <1>2, <1>8 DEF Has
<1>10. \A y \in Elements(e) : Fits(y, e)
  BY <1>1, <1>2, <1>5, <1>8, <1>9 DEF Fits, Removal
<1>11. Beginning(e) = 0 /\ \A y \in Elements(e) : y.do \notin {"drop", "destroy"}
  BY <1>2, <1>5, <1>8 DEF Beginning
<1> QED BY <1>1, <1>4, <1>8, <1>10, <1>11, ClientStarts

LEMMA ModifyFileStep ==
  ASSUME IInv, NEW f \in Files, NEW content, ModifyFile(f, content)
  PROVE  IInv'
<1> DEFINE present == {t \in content : \E l \in OfType(t) : f \in MainFiles(l)}
           c == Creations("createQuietly", content \ present, f)
           e == c \o AutoConnect
<1>1. Outside /\ f \in files /\ Start(e)
  BY DEF ModifyFile
<1>2. Stacked(c) /\ Tally(c, Ends) = 0 /\ \A y \in Elements(c) : y.do = "createQuietly" /\ y.with = f
  BY CreationsPiece
<1> HIDE DEF c
<1>3. /\ Stacked(e) /\ Tally(e, Ends) = 0
      /\ \A y \in Elements(e) : y.do = "connectAll" \/ (y.do = "createQuietly" /\ y.with = f)
  BY <1>2, CreationsThenConnect
<1> HIDE DEF e
<1>4. \A y \in Elements(e) : Fits(y, e)
  BY <1>1, <1>3 DEF Fits, Removal
<1>5. Beginning(e) = 0 /\ \A y \in Elements(e) : y.do \notin {"drop", "destroy"}
  BY <1>3 DEF Beginning
<1> QED BY <1>1, <1>3, <1>4, <1>5, ClientStarts

LEMMA AddFilesStep ==
  ASSUME IInv, NEW f \in Files, NEW g \in Files, NEW content, NEW other,
         AddFiles(f, g, content, other)
  PROVE  IInv'
<1> DEFINE x == Do("enter", f, NoFile)
           z == Do("enter", g, NoFile)
           c == Creations("create", content, f)
           d == Creations("create", other, g)
           cd == c \o d
           s == cd \o AutoConnect
           xz == <<x, z>>
           e == xz \o Group(s)
<1>1. Outside /\ f # g /\ f \notin files /\ g \notin files /\ Start(e)
  BY DEF AddFiles
<1>2. /\ x \in Entries /\ x.do = "enter" /\ x.on = f
      /\ z \in Entries /\ z.do = "enter" /\ z.on = g
  BY DEF Do, Entries, Data
<1>3. /\ Stacked(c) /\ Tally(c, Ends) = 0 /\ \A y \in Elements(c) : y.do = "create" /\ y.with = f
      /\ Stacked(d) /\ Tally(d, Ends) = 0 /\ \A y \in Elements(d) : y.do = "create" /\ y.with = g
  BY CreationsPiece
<1>4. xz = <<x>> \o <<z>>
  OBVIOUS
<1> HIDE DEF x, z, c, d, xz
<1>5. /\ Stacked(cd) /\ Tally(cd, Ends) = 0
      /\ \A y \in Elements(cd) : y.do = "create" /\ y.with \in {f, g}
  <2>1. \A p \in Elements(c), q \in Elements(d) : Before(p, q)
    BY <1>3 DEF Before, Additive, Subtractive, Removal
  <2> QED BY <1>3, <2>1, Joined
<1> HIDE DEF cd
<1>6. /\ Stacked(s) /\ Tally(s, Ends) = 0
      /\ \A y \in Elements(s) : y.do = "connectAll" \/ (y.do = "create" /\ y.with \in {f, g})
  BY <1>5, CreationsThenConnect
<1> HIDE DEF s
<1>7. Stacked(xz) /\ Elements(xz) = {x, z} /\ Tally(xz, Ends) = 0
  <2> DEFINE p == <<x>>
             q == <<z>>
  <2>1. Stacked(p) /\ Elements(p) = {x} /\ Tally(p, Ends) = 0
    BY <1>2, OneEntry
  <2>2. Stacked(q) /\ Elements(q) = {z} /\ Tally(q, Ends) = 0
    BY <1>2, OneEntry
  <2>3. Before(x, z)
    BY <1>1, <1>2 DEF Before, Additive, Subtractive, Removal
  <2>4. xz = p \o q
    BY <1>4
  <2> HIDE DEF p, q
  <2>5. Stacked(p \o q) /\ Elements(p \o q) = Elements(p) \cup Elements(q)
    BY <2>1, <2>2, <2>3, Joined
  <2>6. Tally(p \o q, Ends) = Tally(p, Ends) + Tally(q, Ends)
    BY <2>1, <2>2, <2>3, Joined
  <2> QED BY <2>1, <2>2, <2>4, <2>5, <2>6
<1> DEFINE b == Do("begin", NoFile, NoFile)
           n == Do("end", NoFile, NoFile)
<1>8. /\ Stacked(Group(s)) /\ Elements(Group(s)) = {b, n} \cup Elements(s)
      /\ Tally(Group(s), Ends) = 1
  BY <1>6, InGroup DEF Stacked
<1>9. b.do = "begin" /\ n.do = "end"
  BY DEF Do
<1> HIDE DEF b, n
<1>10. \A y \in Elements(Group(s)) : Before(x, y) /\ Before(z, y)
  BY <1>2, <1>6, <1>8, <1>9 DEF Before, Additive, Subtractive, Removal
<1>11. /\ Stacked(e) /\ Elements(e) = {x, z} \cup ({b, n} \cup Elements(s))
       /\ Tally(e, Ends) = 1
  BY <1>7, <1>8, <1>10, Joined
<1> HIDE DEF e
<1>12. Has(e, "enter", f) /\ Has(e, "enter", g)
  BY <1>2, <1>11 DEF Has
<1>13. \A y \in Elements(e) : Fits(y, e)
  <2>1. Fits(x, e) /\ Fits(z, e)
    BY <1>1, <1>2 DEF Fits, Removal
  <2>2. Fits(b, e) /\ Fits(n, e)
    BY <1>9 DEF Fits, Removal
  <2>3. \A y \in Elements(s) : Fits(y, e)
    BY <1>6, <1>12 DEF Fits, Removal
  <2> QED BY <1>11, <2>1, <2>2, <2>3
<1>14. Beginning(e) = 1 /\ \A y \in Elements(e) : y.do \notin {"drop", "destroy"}
  <2>1. b \in Elements(e)
    BY <1>11
  <2> QED BY <1>2, <1>6, <1>9, <1>11, <2>1 DEF Beginning
<1> QED BY <1>1, <1>11, <1>13, <1>14, ClientStarts

LEMMA AddLayerStep ==
  ASSUME IInv, NEW t \in UNION Contents, AddLayer(t)
  PROVE  IInv'
<1> DEFINE x == Do("create", t, NoFile)
           e == <<x>>
<1>1. Outside /\ Start(e)
  BY DEF AddLayer
<1>2. x \in Entries /\ x.do = "create" /\ x.with = NoFile
  BY DataAssumption DEF Do, Entries
<1> HIDE DEF x
<1>3. Stacked(e) /\ Elements(e) = {x} /\ Tally(e, Ends) = 0
  BY <1>2, OneEntry
<1> HIDE DEF e
<1>4. Fits(x, e)
  BY <1>2 DEF Fits, Removal
<1>5. Beginning(e) = 0
  BY <1>2, <1>3 DEF Beginning
<1> QED BY <1>1, <1>2, <1>3, <1>4, <1>5, ClientStarts

(* Layers that are removed one after the other. *)
LEMMA Removals ==
  ASSUME NEW s \in Seq(Entries), \A x \in Elements(s) : x.do = "remove",
         \A i, j \in DOMAIN s : s[i].on = s[j].on => i = j
  PROVE  Stacked(s) /\ Ordered(s, Order) /\ Tally(s, Ends) = 0
<1>1. \A i \in DOMAIN s : s[i] \in Entries /\ s[i].do = "remove" /\ i \in Nat
  BY DEF Elements
<1>2. Ordered(s, Order)
  <2> SUFFICES ASSUME NEW i \in DOMAIN s, NEW j \in DOMAIN s, i < j PROVE <<s[i], s[j]>> \in Order
    BY DEF Ordered
  <2>1. i # j
    BY <1>1
  <2>2. s[i].on # s[j].on
    BY <2>1
  <2>3. Before(s[i], s[j])
    BY <1>1, <2>2 DEF Before, Additive, Subtractive, Removal
  <2> QED BY <1>1, <2>3 DEF Order
<1>3. Followed(s, Grouped, Ends)
  BY <1>1 DEF Followed, Grouped
<1>4. Tally(s, Ends) = 0
  BY TallyZero DEF Ends
<1> QED BY <1>2, <1>3, <1>4 DEF Stacked

LEMMA FedOnce ==
  ASSUME GraphInv, NEW l, NEW f \in Files, FedOnlyBy(l, f)
  PROVE  /\ \E c \in DOMAIN conn : conn[c].to = l /\ conn[c].from = f
         /\ \A c, d \in DOMAIN conn : conn[c].to = l /\ conn[c].from = f /\ conn[d].to = l /\ conn[d].from = f => c = d
<1>1. IsFiniteSet(MainInputs(l)) /\ MainInputs(l) \subseteq DOMAIN conn
  BY FS_Subset DEF GraphInv, MainInputs, Inputs
<1>2. PICK x : MainInputs(l) = {x}
  BY <1>1, FS_Singleton DEF FedOnlyBy
<1>3. conn[x].from = f /\ conn[x].to = l /\ x \in DOMAIN conn
  <2>1. x \in MainInputs(l) /\ conn[x].from \in MainFiles(l) /\ MainFiles(l) = {f}
    BY <1>2 DEF MainFiles, FedOnlyBy
  <2> QED BY <2>1 DEF MainInputs, Inputs
<1>4. \A c \in DOMAIN conn : conn[c].to = l /\ conn[c].from = f => c = x
  BY <1>2 DEF MainInputs, Inputs
<1> QED BY <1>3, <1>4

LEMMA RemoveFileStep ==
  ASSUME IInv, NEW f \in Files, RemoveFile(f)
  PROVE  IInv'
<1> DEFINE alone == {c \in DOMAIN conn : auto[conn[c].to] /\ FedOnlyBy(conn[c].to, f)}
           x == Do("drop", f, NoFile)
<1>1. PICK doomed : doomed = Only(outputs[f], alone)
  OBVIOUS
<1>2. PICK k : k = [i \in DOMAIN doomed |-> conn[doomed[i]].to]
  OBVIOUS
<1>3. PICK r : r = [i \in DOMAIN doomed |-> Do("remove", conn[doomed[i]].to, NoFile)]
  OBVIOUS
<1>4. Outside /\ f \in files /\ Start(r \o <<x>>)
  BY <1>1, <1>3 DEF RemoveFile
<1>5. GraphInv /\ Live \subseteq Layers
  BY DEF IInv, GraphInv
<1>6. /\ doomed \in Seq(DOMAIN conn) /\ Distinct(doomed)
      /\ Elements(doomed) = {c \in DOMAIN conn : conn[c].from = f} \cap alone
  <2>1. outputs[f] \in Seq(DOMAIN conn) /\ Distinct(outputs[f])
        /\ Elements(outputs[f]) = {c \in DOMAIN conn : conn[c].from = f}
    BY <1>5 DEF GraphInv, Data
  <2> HIDE DEF alone
  <2>2. doomed \in Seq(DOMAIN conn \cap alone) /\ Distinct(doomed)
        /\ Elements(doomed) = Elements(outputs[f]) \cap alone
    BY <1>1, <2>1, OnlyElements
  <2>3. Elements(doomed) \subseteq DOMAIN conn
    BY <2>1, <2>2
  <2>4. doomed \in Seq(DOMAIN conn)
    BY <2>2, <2>3, ElementsGrow
  <2> QED BY <2>1, <2>2, <2>4
<1>7. \A i \in DOMAIN doomed : /\ doomed[i] \in DOMAIN conn /\ conn[doomed[i]].to \in Live
                               /\ conn[doomed[i]].from = f /\ FedOnlyBy(conn[doomed[i]].to, f)
  <2>1. \A i \in DOMAIN doomed : doomed[i] \in Elements(doomed)
    BY DEF Elements
  <2> QED BY <1>5, <1>6, <2>1 DEF GraphInv
<1>8. k \in Seq(Live) /\ DOMAIN k = DOMAIN doomed
  <2>1. k = [i \in DOMAIN doomed |-> k[i]] /\ \A i \in DOMAIN doomed : k[i] \in Live
    BY <1>2, <1>7
  <2> QED BY <1>6, <2>1, Mapped
<1>9. /\ r \in Seq(Entries) /\ DOMAIN r = DOMAIN k
      /\ \A i \in DOMAIN k : r[i].on = k[i]
      /\ \A y \in Elements(r) : y.do = "remove" /\ y.on \in Live
      /\ \A d \in Elements(k) : \E y \in Elements(r) : y.on = d
  <2>1. /\ DOMAIN r = DOMAIN k /\ r = [i \in DOMAIN r |-> r[i]]
        /\ \A i \in DOMAIN k : r[i] = Do("remove", k[i], NoFile)
    BY <1>2, <1>3, <1>8
  <2>2. \A d \in Live : Do("remove", d, NoFile) \in Entries
    BY <1>5 DEF Do, Entries, Data
  <2>3. Elements(k) \subseteq Live
    BY <1>8, ElementsTyped
  <2>4. r \in Seq(Entries)
    BY <1>8, <2>1, <2>2, Calls
  <2>7. \A i \in DOMAIN k : r[i].on = k[i]
    BY <2>1 DEF Do
  <2>5. \A y \in Elements(r) : y.do = "remove" /\ y.with = NoFile /\ y.on \in Elements(k)
    BY <1>8, <2>1, <2>2, Calls
  <2>6. \A d \in Elements(k) : \E y \in Elements(r) : y.on = d
    BY <2>1, <2>7 DEF Elements
  <2> QED BY <2>1, <2>3, <2>4, <2>5, <2>6, <2>7
<1>10. \A i, j \in DOMAIN r : r[i].on = r[j].on => i = j
  <2> SUFFICES ASSUME NEW i \in DOMAIN r, NEW j \in DOMAIN r, r[i].on = r[j].on PROVE i = j
    OBVIOUS
  <2>1. k[i] = k[j] /\ k[i] = conn[doomed[i]].to /\ k[j] = conn[doomed[j]].to
    BY <1>2, <1>8, <1>9
  <2>2. doomed[i] = doomed[j]
    BY <1>5, <1>7, <1>8, <1>9, <2>1, FedOnce
  <2> QED BY <1>6, <1>8, <1>9, <2>2 DEF Distinct
<1>11. x \in Entries /\ x.do = "drop" /\ x.on = f
  BY DEF Do, Entries, Data
<1> DEFINE X == <<x>>
           e == r \o X
<1>12. Stacked(X) /\ Elements(X) = {x} /\ Tally(X, Ends) = 0
  BY <1>11, OneEntry
<1>13. Start(e)
  BY <1>4
<1> HIDE DEF x, X
<1>14. Stacked(r) /\ Tally(r, Ends) = 0
  BY <1>9, <1>10, Removals
<1>15. \A y \in Elements(r) : Before(y, x)
  BY <1>9, <1>11 DEF Before, Additive, Subtractive, Removal
<1>16. Stacked(e) /\ Elements(e) = Elements(r) \cup Elements(X) /\ Tally(e, Ends) = 0
  <2>1. Stacked(r \o X) /\ Elements(r \o X) = Elements(r) \cup Elements(X)
    BY <1>12, <1>14, <1>15, Joined
  <2>2. Tally(r \o X, Ends) = Tally(r, Ends) + Tally(X, Ends)
    BY <1>12, <1>14, <1>15, Joined
  <2> QED BY <1>12, <1>14, <2>1, <2>2
<1> HIDE DEF e
<1>17. \A y \in Elements(e) : Fits(y, e)
  <2>1. \A y \in Elements(r) : Fits(y, e)
    BY <1>9 DEF Fits, Removal
  <2>2. Fits(x, e)
    BY <1>4, <1>11 DEF Fits, Removal
  <2> QED BY <1>12, <1>16, <2>1, <2>2
<1>18. \A y \in Elements(e) : y.do = "remove" \/ y = x
  BY <1>9, <1>12, <1>16
<1>19. Beginning(e) = 0 /\ \A y \in Elements(e) : y.do # "destroy"
  BY <1>11, <1>18 DEF Beginning
<1>20. ASSUME NEW y \in Elements(e), y.do = "drop", NEW l \in Live, auto[l], FedOnlyBy(l, y.on)
       PROVE  Leaves(e, l)
  <2>1. FedOnlyBy(l, f)
    BY <1>11, <1>18, <1>20
  <2>2. PICK c \in DOMAIN conn : conn[c].to = l /\ conn[c].from = f
    BY <1>5, <2>1, FedOnce
  <2>3. c \in Elements(doomed)
    BY <1>6, <1>20, <2>1, <2>2
  <2>4. PICK i \in DOMAIN doomed : doomed[i] = c
    BY <2>3 DEF Elements
  <2>5. k[i] = l /\ i \in DOMAIN k
    BY <1>2, <1>8, <2>2, <2>4
  <2>6. r[i].on = l /\ r[i] \in Elements(r)
    BY <1>9, <2>5 DEF Elements
  <2> QED BY <1>9, <1>16, <2>6 DEF Leaves, Removal
<1> QED BY <1>4, <1>13, <1>16, <1>17, <1>19, <1>20, ClientStarts

LEMMA RemoveLayersStep ==
  ASSUME IInv, NEW k \in Live, NEW l \in Live, RemoveLayers(IF k = l THEN <<k>> ELSE <<k, l>>)
  PROVE  IInv'
<1>1. Outside /\ Live \subseteq Layers
  BY DEF IInv, GraphInv, RemoveLayers
<1>2. \A d \in Live : Do("remove", d, NoFile) \in Entries
  BY <1>1 DEF Do, Entries, Data
<1>3. CASE k = l
  <2> DEFINE x == Do("remove", k, NoFile)
             e == <<x>>
  <2>1. Start(e)
    <3>1. RemoveLayers(<<k>>)
      BY <1>3
    <3> QED BY <3>1 DEF RemoveLayers
  <2>2. x \in Entries /\ x.do = "remove" /\ x.on = k
    BY <1>2 DEF Do
  <2> HIDE DEF x
  <2>3. Stacked(e) /\ Elements(e) = {x} /\ Tally(e, Ends) = 0
    BY <2>2, OneEntry
  <2> HIDE DEF e
  <2>4. Fits(x, e) /\ Beginning(e) = 0
    BY <2>2, <2>3 DEF Fits, Removal, Beginning
  <2> QED BY <1>1, <2>1, <2>2, <2>3, <2>4, ClientStarts
<1>4. CASE k # l
  <2> DEFINE s == [i \in DOMAIN <<k, l>> |-> Do("remove", <<k, l>>[i], NoFile)]
             x == Do("remove", k, NoFile)
             y == Do("remove", l, NoFile)
             e == Group(s)
  <2>1. Start(e)
    <3>1. RemoveLayers(<<k, l>>) /\ Len(<<k, l>>) = 2
      BY <1>4
    <3> QED BY <3>1 DEF RemoveLayers
  <2>2. /\ x \in Entries /\ x.do = "remove" /\ x.on = k
        /\ y \in Entries /\ y.do = "remove" /\ y.on = l
    BY <1>2 DEF Do
  <2>3. s = <<x, y>>
    OBVIOUS
  <2>4. s \in Seq(Entries) /\ DOMAIN s = {1, 2} /\ s[1] = x /\ s[2] = y
    <3> HIDE DEF x, y, s
    <3> QED BY <2>2, <2>3
  <2> HIDE DEF x, y, s
  <2>5. Elements(s) = {x, y}
    BY <2>4 DEF Elements
  <2>6. Stacked(s) /\ Ordered(s, Order) /\ Tally(s, Ends) = 0
    <3>1. \A i, j \in DOMAIN s : s[i].on = s[j].on => i = j
      BY <1>4, <2>2, <2>4
    <3> QED BY <2>2, <2>4, <2>5, <3>1, Removals
  <2> DEFINE b == Do("begin", NoFile, NoFile)
             n == Do("end", NoFile, NoFile)
  <2>7. Stacked(Group(s)) /\ Elements(Group(s)) = {b, n} \cup Elements(s) /\ Tally(Group(s), Ends) = 1
    BY <2>2, <2>4, <2>5, <2>6, InGroup
  <2>8. b.do = "begin" /\ n.do = "end"
    BY DEF Do
  <2> HIDE DEF b, n, e
  <2>9. Stacked(e) /\ Elements(e) = {b, n, x, y} /\ Tally(e, Ends) = 1
    BY <2>5, <2>7 DEF e
  <2>10. \A z \in Elements(e) : Fits(z, e)
    BY <2>2, <2>8, <2>9 DEF Fits, Removal
  <2>11. Beginning(e) = 1 /\ \A z \in Elements(e) : z.do \notin {"drop", "destroy"}
    BY <2>2, <2>8, <2>9 DEF Beginning
  <2> QED BY <1>1, <2>1, <2>9, <2>10, <2>11, ClientStarts
<1> QED BY <1>3, <1>4
-----------------------------------------------------------------------------
(* The call that runs goes on with e. *)
LEMMA Continued ==
  ASSUME IInv, calls # <<>>, NEW e, Continue(e), Stacked(e),
         \A x \in Elements(e), y \in Elements(Tail(calls)) : Before(x, y)
  PROVE  /\ Stacked(calls') /\ Elements(calls') = Elements(e) \cup Elements(Tail(calls))
         /\ Tally(Tail(calls), Ends) \in Nat
         /\ Tally(calls', Ends) = Tally(e, Ends) + Tally(Tail(calls), Ends)
<1>1. calls' = e \o Tail(calls) /\ Stacked(calls)
  BY DEF Continue, IInv, StackInv
<1>2. Stacked(Tail(calls))
  BY <1>1, TheCall
<1> QED BY <1>1, <1>2, Joined

LEMMA Running ==
  ASSUME IInv, calls # <<>>
  PROVE  /\ Head(calls) \in Entries /\ Fits(Head(calls), calls)
         /\ Elements(calls) = {Head(calls)} \cup Elements(Tail(calls))
         /\ \A y \in Elements(Tail(calls)) : y \in Entries /\ Before(Head(calls), y) /\ Fits(y, calls)
<1>1. Stacked(calls) /\ \A x \in Elements(calls) : Fits(x, calls)
  BY DEF IInv, StackInv
<1> QED BY <1>1, TheCall

(* What is left fits as before. *)
LEMMA RestFits ==
  ASSUME IInv, calls # <<>>, Head(calls).do \notin {"enter", "make"}, NEW s,
         NEW E, Elements(s) = E \cup Elements(Tail(calls)), \A x \in E : x.do # "drop"
  PROVE  \A y \in Elements(Tail(calls)) : Fits(y, s)
<1> SUFFICES ASSUME NEW y \in Elements(Tail(calls)) PROVE Fits(y, s)
  OBVIOUS
<1>1. Fits(y, calls) /\ Elements(calls) = {Head(calls)} \cup Elements(Tail(calls))
  BY Running
<1>2. Drops(s) => Drops(calls)
  BY <1>1 DEF Drops
<1>3. \A d : /\ Has(calls, "enter", d) => Has(s, "enter", d)
             /\ Has(calls, "make", d) => Has(s, "make", d)
  BY <1>1 DEF Has
<1> QED BY <1>1, <1>2, <1>3, StillFits

(* Steps that leave files, layers and the ends of connections alone. *)
LEMMA StackSettled ==
  ASSUME IInv, calls # <<>>, NEW e, Continue(e), Stacked(e),
         \A x \in Elements(e), y \in Elements(Tail(calls)) : Before(x, y),
         UNCHANGED <<files, layers, made>>, DOMAIN conn' = DOMAIN conn,
         \A c \in DOMAIN conn : conn'[c].from = conn[c].from /\ conn'[c].to = conn[c].to,
         Head(calls).do \notin {"enter", "make"},
         \A x \in Elements(e) : x.do # "drop" /\ Fits(x, calls')
  PROVE  StackInv'
<1>1. Stacked(calls') /\ Elements(calls') = Elements(e) \cup Elements(Tail(calls))
  BY Continued
<1>2. Live' = Live
  BY DEF Live
<1>3. \A x \in Elements(calls') : Fits(x, calls')
  BY <1>1, RestFits
<1>4. \A x \in Elements(calls') : Fits(x, calls)'
  BY <1>2, <1>3 DEF Fits, Connected, Inputs
<1> QED BY <1>1, <1>4 DEF StackInv

(* What is left of a removal, and what it must still remove. *)
LEMMA DropsSettled ==
  ASSUME IInv, calls # <<>>, NEW e, Continue(e), Stacked(e),
         \A x \in Elements(e), y \in Elements(Tail(calls)) : Before(x, y),
         Live' \subseteq Live, \A l \in Live' : auto'[l] = auto[l], \A x \in Elements(e) : x.do # "drop",
         ASSUME NEW x \in Elements(calls), x.do = "drop", NEW l \in Live', FedOnlyBy(l, x.on)'
         PROVE  FedOnlyBy(l, x.on),
         Head(calls).do = "remove" => Has(e, "destroy", Head(calls).on),
         Head(calls).do = "destroy" => Head(calls).on \notin Live'
  PROVE  DropInv'
<1> SUFFICES ASSUME NEW x \in Elements(calls'), x.do = "drop", NEW l \in Live',
                    auto'[l], FedOnlyBy(l, x.on)'
             PROVE  Leaves(calls', l)
  BY DEF DropInv
<1>1. Elements(calls') = Elements(e) \cup Elements(Tail(calls))
  BY Continued
<1>2. Elements(calls) = {Head(calls)} \cup Elements(Tail(calls))
  BY Running
<1>3. l \in Live /\ auto[l] /\ FedOnlyBy(l, x.on)
  BY <1>1, <1>2
<1>4. Leaves(calls, l)
  BY <1>1, <1>2, <1>3 DEF IInv, DropInv
<1> QED BY <1>1, <1>2, <1>4 DEF Leaves, Has

LEMMA Settled ==
  ASSUME IInv, calls # <<>>, NEW e, Continue(e), Stacked(e),
         \A x \in Elements(e), y \in Elements(Tail(calls)) : Before(x, y),
         UNCHANGED <<graph, tasks>>, Head(calls).do \notin {"enter", "make", "destroy"},
         \A x \in Elements(e) : x.do # "drop" /\ Fits(x, calls'),
         Head(calls).do = "remove" => Has(e, "destroy", Head(calls).on)
  PROVE  StackInv' /\ GraphInv' /\ TasksInv' /\ DropInv'
<1>1. /\ UNCHANGED <<files, layers, made, active, auto, conn, outputs, fileTask, layerTask>>
      /\ Live' = Live
  BY DEF graph, tasks, Live
<1>2. StackInv'
  BY <1>1, StackSettled
<1>3. GraphInv'
  BY <1>1 DEF IInv, GraphInv, SourceActive
<1>4. TasksInv'
  BY TasksStay DEF IInv
<1>5. DropInv'
  <2>1. \A l, f : FedOnlyBy(l, f)' => FedOnlyBy(l, f)
    BY <1>1 DEF FedOnlyBy, MainInputs, MainFiles, Inputs
  <2> QED BY <1>1, <2>1, DropsSettled
<1> QED BY <1>2, <1>3, <1>4, <1>5

LEMMA GroupsKept ==
  ASSUME IInv, calls # <<>>, NEW e, Continue(e), Stacked(e),
         \A x \in Elements(e), y \in Elements(Tail(calls)) : Before(x, y),
         UNCHANGED <<nested, open>>, Head(calls).do \notin {"begin", "count", "end"},
         Tally(e, Ends) = Beginning(e)
  PROVE  GroupsInv'
<1>1. /\ Elements(calls') = Elements(e) \cup Elements(Tail(calls))
      /\ Tally(Tail(calls), Ends) \in Nat
      /\ Tally(calls', Ends) = Tally(e, Ends) + Tally(Tail(calls), Ends)
  BY Continued
<1>2. Tally(calls, Ends) = Tally(Tail(calls), Ends)
  <2>1. Stacked(calls) /\ (Head(calls).do = "end" <=> FALSE)
    BY DEF IInv, StackInv
  <2>2. Tally(calls, Ends) = Tally(Tail(calls), Ends) + 0
    BY <2>1, TheCall
  <2> QED BY <1>1, <2>2
<1>3. Beginning(calls') = Beginning(e) + Beginning(calls)
  <2>1. Beginning(calls) = Beginning(Tail(calls))
    <3>1. Elements(calls) = {Head(calls)} \cup Elements(Tail(calls))
      BY Running
    <3> QED BY <3>1 DEF Beginning
  <2>2. Beginning(e) = 0 \/ Beginning(Tail(calls)) = 0
    <3>1. ASSUME NEW x \in Elements(e), x.do \in {"begin", "count"}, NEW y \in Elements(Tail(calls))
          PROVE  y.do \notin {"begin", "count"}
      <4>1. Before(x, y)
        BY <3>1
      <4> QED BY <3>1, <4>1 DEF Before
    <3> QED BY <3>1 DEF Beginning
  <2> QED BY <1>1, <2>1, <2>2 DEF Beginning
<1>4. nested \in Nat /\ nested + Beginning(calls) = Tally(calls, Ends)
      /\ open = IF nested > 0 THEN 1 ELSE 0
  BY DEF IInv, GroupsInv, Beginning
<1>5. Beginning(e) \in Nat /\ Beginning(calls) \in Nat
  BY DEF Beginning
<1>6. nested' + Beginning(calls') = Tally(calls', Ends)
  BY <1>1, <1>2, <1>3, <1>4, <1>5
<1> QED BY <1>4, <1>6 DEF GroupsInv, Beginning

LEMMA DefaultsKept ==
  ASSUME IInv, calls # <<>>, NEW e, Continue(e), Stacked(e),
         \A x \in Elements(e), y \in Elements(Tail(calls)) : Before(x, y),
         UNCHANGED <<defaults, shown>>, Live \subseteq Live', Head(calls).do # "forget",
         \A x \in Elements(e) : x.do = "destroy" => Has(e, "forget", x.on)
  PROVE  DefaultsInv'
<1>1. Elements(calls') = Elements(e) \cup Elements(Tail(calls))
  BY Continued
<1>2. Elements(calls) = {Head(calls)} \cup Elements(Tail(calls))
  BY Running
<1>3. \A x \in Elements(calls') :
        x.do = "destroy" /\ x.on \in Elements(defaults) => Has(calls', "forget", x.on)
  BY <1>1, <1>2 DEF IInv, DefaultsInv, Has
<1>4. Elements(defaults') \subseteq Live' /\ defaults' \in Seq(Rotations) /\ shown' = Top(defaults')
  BY DEF IInv, DefaultsInv
<1> QED BY <1>3, <1>4 DEF DefaultsInv, Top

(* The common case: a step that only goes on. *)
LEMMA OnlyGoesOn ==
  ASSUME IInv, calls # <<>>, NEW e, Continue(e), Stacked(e),
         \A x \in Elements(e), y \in Elements(Tail(calls)) : Before(x, y),
         UNCHANGED <<graph, tasks, defaults, nested, open, shown>>,
         Head(calls).do \notin {"enter", "begin", "count", "end", "make", "destroy", "forget"},
         \A x \in Elements(e) : x.do # "drop" /\ Fits(x, calls'),
         \A x \in Elements(e) : x.do = "destroy" => Has(e, "forget", x.on),
         Head(calls).do = "remove" => Has(e, "destroy", Head(calls).on),
         Tally(e, Ends) = Beginning(e)
  PROVE  IInv'
<1>1. StackInv' /\ GraphInv' /\ TasksInv' /\ DropInv'
  BY Settled
<1>2. GroupsInv'
  BY GroupsKept
<1>3. DefaultsInv'
  <2>1. Live' = Live
    BY DEF graph, Live
  <2> QED BY <2>1, DefaultsKept
<1> QED BY <1>1, <1>2, <1>3 DEF IInv

LEMMA ReturnStep == ASSUME IInv, Return PROVE IInv'
<1>1. calls # <<>> /\ Head(calls).do = "signal" /\ Continue(<<>>)
      /\ UNCHANGED <<graph, tasks, defaults, nested, open, shown>>
  BY DEF Return, Doing
<1>2. PICK e : e = <<>>
  OBVIOUS
<1>3. Continue(e) /\ Stacked(e) /\ Elements(e) = {} /\ Tally(e, Ends) = 0
  BY <1>1, <1>2, NoEntries
<1>4. Beginning(e) = 0
  BY <1>3 DEF Beginning
<1> QED BY <1>1, <1>3, <1>4, OnlyGoesOn

LEMMA SignalOrNone ==
  ASSUME NEW e, e = <<>> \/ e = <<Signal>>
  PROVE  /\ Stacked(e) /\ Tally(e, Ends) = 0 /\ Beginning(e) = 0 /\ Elements(e) \subseteq {Signal}
         /\ \A x \in Elements(e) : \A s : x.do = "signal" /\ Fits(x, s)
<1>1. /\ Stacked(e) /\ Tally(e, Ends) = 0 /\ Elements(e) \subseteq {Signal}
  BY NoEntries, SignalEntry
<1>2. \A x \in Elements(e) : \A s : x.do = "signal" /\ Fits(x, s)
  BY <1>1, SignalEntry
<1> QED BY <1>1, <1>2 DEF Beginning

LEMMA SignalFirst ==
  ASSUME IInv, calls # <<>>, Head(calls).do # "enter", NEW e, e = <<>> \/ e = <<Signal>>
  PROVE  \A x \in Elements(e), y \in Elements(Tail(calls)) : Before(x, y)
BY Running, SignalOrNone, SignalBefore

LEMMA EnterStep == ASSUME IInv, Enter PROVE IInv'
<1> DEFINE h == Head(calls)
           t == Tail(calls)
<1>1. /\ calls # <<>> /\ h.do = "enter" /\ Continue(<<>>) /\ files' = files \cup {h.on}
      /\ UNCHANGED <<layers, made, active, auto, conn, outputs, fileTask, layerTask, defaults, nested, open, shown>>
  BY DEF Enter, Doing, On, tasks
<1>2. PICK e : e = <<>>
  OBVIOUS
<1>3. Continue(e) /\ Stacked(e) /\ Elements(e) = {} /\ Tally(e, Ends) = 0 /\ Beginning(e) = 0
  <2>1. Stacked(e) /\ Elements(e) = {} /\ Tally(e, Ends) = 0
    BY <1>2, NoEntries
  <2> QED BY <1>1, <1>2, <2>1 DEF Beginning
<1>4. /\ h \in Entries /\ h.on \in Files /\ h.on \notin files
      /\ Elements(calls) = {h} \cup Elements(t)
      /\ \A y \in Elements(t) : y \in Entries /\ Before(h, y) /\ Fits(y, calls)
  BY <1>1, Running DEF Fits
<1>5. Stacked(calls') /\ Elements(calls') = Elements(t)
  BY <1>1, <1>3, Continued
<1>6. Live' = Live
  BY <1>1 DEF Live
<1> HIDE DEF h, t
<1>7. StackInv'
  <2> SUFFICES ASSUME NEW y \in Elements(calls') PROVE Fits(y, calls)'
    BY <1>5 DEF StackInv
  <2>1. Fits(y, calls) /\ Before(h, y)
    BY <1>4, <1>5
  <2>2. \A d : Has(calls, "enter", d) => d = h.on \/ Has(calls', "enter", d)
    BY <1>4, <1>5 DEF Has
  <2>3. \A d : Has(calls, "make", d) => Has(calls', "make", d)
    BY <1>1, <1>4, <1>5 DEF Has
  <2>4. \A d : Has(calls', "make", d) <=> Has(calls, "make", d)'
    BY Zenon
  <2>5. \A d : Has(calls', "enter", d) <=> Has(calls, "enter", d)'
    BY Zenon
  <2>6. y.do # "drop" /\ (y.do = "enter" => y.on # h.on)
    BY <1>1, <2>1 DEF Before, Additive, Subtractive
  <2>7. Drops(calls') => Drops(calls)
    BY <1>4, <1>5 DEF Drops
  <2>8. Drops(calls)' => Drops(calls')
    BY DEF Drops
  <2> HIDE DEF Has
  <2>9. Fits(y, calls)'
    BY <1>1, <1>6, <2>1, <2>2, <2>3, <2>4, <2>5, <2>6, <2>7, <2>8 DEF Fits, Connected, Inputs
  <2> QED BY <2>9
<1>8. GraphInv'
  BY <1>1, <1>4, <1>6 DEF IInv, GraphInv, SourceActive
<1>9. TasksInv'
  <2>1. \A l : Inputs(l)' = Inputs(l) /\ ActiveInputs(l)' = ActiveInputs(l)
    BY <1>1, <1>6 DEF Inputs, ActiveInputs, Connected
  <2> QED BY <1>1, <1>6, <2>1 DEF IInv, TasksInv
<1>10. DropInv'
  <2>1. \A y \in Elements(calls') : y.do # "drop"
    BY <1>1, <1>4, <1>5 DEF Before, Additive, Subtractive
  <2> QED BY <2>1 DEF DropInv
<1>11. GroupsInv' /\ DefaultsInv'
  BY <1>1, <1>3, <1>6, GroupsKept, DefaultsKept DEF h
<1> QED BY <1>7, <1>8, <1>9, <1>10, <1>11 DEF IInv

LEMMA BeginStep == ASSUME IInv, Begin PROVE IInv'
<1> DEFINE c == Do("count", NoFile, NoFile)
<1>1. PICK s : s = IF nested = 0 THEN <<Signal>> ELSE <<>>
  OBVIOUS
<1>2. PICK e : e = s \o <<c>>
  OBVIOUS
<1>3. /\ calls # <<>> /\ Head(calls).do = "begin" /\ Continue(e) /\ (s = <<>> \/ s = <<Signal>>)
      /\ UNCHANGED <<graph, tasks, defaults, nested, open, shown>>
  BY <1>1, <1>2 DEF Begin, Doing
<1>4. c \in Entries /\ c.do = "count"
  BY DEF Do, Entries
<1> HIDE DEF c
<1>5. /\ Stacked(s) /\ Tally(s, Ends) = 0 /\ \A x \in Elements(s) : \A q : x.do = "signal" /\ Fits(x, q)
      /\ \A x \in Elements(s), y \in Elements(Tail(calls)) : Before(x, y)
  BY <1>3, SignalOrNone, SignalFirst
<1>6. Stacked(<<c>>) /\ Elements(<<c>>) = {c} /\ Tally(<<c>>, Ends) = 0
  BY <1>4, OneEntry
<1>7. \A x \in Elements(s) : Before(x, c)
  BY <1>4, <1>5 DEF Before, Additive, Subtractive, Removal
<1>8. Stacked(e) /\ Elements(e) = Elements(s) \cup {c} /\ Tally(e, Ends) = 0
  <2>1. \A x \in Elements(s), y \in Elements(<<c>>) : Before(x, y)
    BY <1>6, <1>7
  <2>2. /\ Stacked(s \o <<c>>) /\ Elements(s \o <<c>>) = Elements(s) \cup Elements(<<c>>)
        /\ Tally(s \o <<c>>, Ends) = Tally(s, Ends) + Tally(<<c>>, Ends)
    BY <1>5, <1>6, <2>1, Joined
  <2> QED BY <1>2, <1>5, <1>6, <2>2
<1>9. \A x \in Elements(e), y \in Elements(Tail(calls)) : Before(x, y)
  <2>1. \A y \in Elements(Tail(calls)) : Before(Head(calls), y)
    BY <1>3, Running
  <2>2. \A y \in Elements(Tail(calls)) : Before(c, y)
    BY <1>3, <1>4, <2>1 DEF Before, Additive, Subtractive, Removal
  <2> QED BY <1>5, <1>8, <2>2
<1>10. \A x \in Elements(e) : x.do \notin {"drop", "destroy"} /\ Fits(x, calls')
  <2>1. Fits(c, calls')
    BY <1>4 DEF Fits, Removal
  <2> QED BY <1>4, <1>5, <1>8, <2>1
<1>11. StackInv' /\ GraphInv' /\ TasksInv' /\ DropInv'
  BY <1>3, <1>8, <1>9, <1>10, Settled
<1>12. DefaultsInv'
  <2>1. Live' = Live
    BY <1>3 DEF graph, Live
  <2> QED BY <1>3, <1>8, <1>9, <1>10, <2>1, DefaultsKept
<1>13. GroupsInv'
  <2>1. /\ Elements(calls') = Elements(e) \cup Elements(Tail(calls))
        /\ Tally(Tail(calls), Ends) \in Nat
        /\ Tally(calls', Ends) = Tally(e, Ends) + Tally(Tail(calls), Ends)
    BY <1>3, <1>8, <1>9, Continued
  <2>2. Tally(calls, Ends) = Tally(Tail(calls), Ends) + 0
    BY <1>3, TheCall DEF IInv, StackInv
  <2>3. Beginning(calls) = 1 /\ Beginning(calls') = 1
    <3>1. Elements(calls) = {Head(calls)} \cup Elements(Tail(calls))
      BY <1>3, Running
    <3> QED BY <1>3, <1>4, <1>8, <2>1, <3>1 DEF Beginning
  <2>4. nested \in Nat /\ nested + Beginning(calls) = Tally(calls, Ends)
        /\ open = IF nested > 0 THEN 1 ELSE 0
    BY DEF IInv, GroupsInv, Beginning
  <2>5. nested' + Beginning(calls') = Tally(calls', Ends)
    BY <1>3, <1>8, <2>1, <2>2, <2>3, <2>4
  <2> QED BY <1>3, <2>4, <2>5 DEF GroupsInv, Beginning
<1> QED BY <1>11, <1>12, <1>13 DEF IInv

LEMMA CountStep == ASSUME IInv, Count PROVE IInv'
<1>1. PICK e : e = <<>>
  OBVIOUS
<1>2. /\ calls # <<>> /\ Head(calls).do = "count" /\ Continue(e) /\ (e = <<>> \/ e = <<Signal>>)
      /\ nested' = nested + 1 /\ open' = (IF nested = 0 THEN open + 1 ELSE open)
      /\ UNCHANGED <<graph, tasks, defaults, shown>>
  BY <1>1 DEF Count, Doing
<1>3. /\ Stacked(e) /\ Tally(e, Ends) = 0 /\ \A x \in Elements(e) : \A s : x.do = "signal" /\ Fits(x, s)
      /\ \A x \in Elements(e), y \in Elements(Tail(calls)) : Before(x, y)
  BY <1>2, SignalOrNone, SignalFirst
<1>4. StackInv' /\ GraphInv' /\ TasksInv' /\ DropInv'
  BY <1>2, <1>3, Settled
<1>5. DefaultsInv'
  <2>1. Live' = Live
    BY <1>2 DEF graph, Live
  <2> QED BY <1>2, <1>3, <2>1, DefaultsKept
<1>6. GroupsInv'
  <2>1. /\ Elements(calls') = Elements(e) \cup Elements(Tail(calls))
        /\ Tally(Tail(calls), Ends) \in Nat
        /\ Tally(calls', Ends) = Tally(e, Ends) + Tally(Tail(calls), Ends)
    BY <1>2, <1>3, Continued
  <2>2. Tally(calls, Ends) = Tally(Tail(calls), Ends)
    <3>1. Tally(calls, Ends) = Tally(Tail(calls), Ends) + 0
      BY <1>2, TheCall DEF IInv, StackInv
    <3> QED BY <2>1, <3>1
  <2>3. Beginning(calls) = 1 /\ Beginning(calls') = 0
    <3>1. /\ Elements(calls) = {Head(calls)} \cup Elements(Tail(calls))
          /\ \A y \in Elements(Tail(calls)) : y.do \notin {"begin", "count"}
      BY <1>2, Running DEF Before
    <3> QED BY <1>2, <1>3, <2>1, <3>1 DEF Beginning
  <2>4. nested \in Nat /\ nested + Beginning(calls) = Tally(calls, Ends)
        /\ open = IF nested > 0 THEN 1 ELSE 0
    BY DEF IInv, GroupsInv, Beginning
  <2>5. nested' \in Nat /\ nested' + Beginning(calls') = Tally(calls', Ends)
    BY <1>2, <1>3, <2>1, <2>2, <2>3, <2>4
  <2>6. open' = IF nested' > 0 THEN 1 ELSE 0
    BY <1>2, <2>4
  <2> QED BY <2>5, <2>6 DEF GroupsInv, Beginning
<1> QED BY <1>4, <1>5, <1>6 DEF IInv

LEMMA EndStep == ASSUME IInv, End PROVE IInv'
<1>1. PICK e : e = IF nested = 1 THEN <<Signal>> ELSE <<>>
  OBVIOUS
<1>2. /\ calls # <<>> /\ Head(calls).do = "end" /\ Continue(e) /\ (e = <<>> \/ e = <<Signal>>)
      /\ nested' = nested - 1 /\ open' = (IF nested = 1 THEN open - 1 ELSE open)
      /\ UNCHANGED <<graph, tasks, defaults, shown>>
  BY <1>1 DEF End, Ended, Doing
<1>3. /\ Stacked(e) /\ Tally(e, Ends) = 0 /\ \A x \in Elements(e) : \A s : x.do = "signal" /\ Fits(x, s)
      /\ \A x \in Elements(e), y \in Elements(Tail(calls)) : Before(x, y)
  BY <1>2, SignalOrNone, SignalFirst
<1>4. StackInv' /\ GraphInv' /\ TasksInv' /\ DropInv'
  BY <1>2, <1>3, Settled
<1>5. DefaultsInv'
  <2>1. Live' = Live
    BY <1>2 DEF graph, Live
  <2> QED BY <1>2, <1>3, <2>1, DefaultsKept
<1>6. GroupsInv'
  <2>1. /\ Elements(calls') = Elements(e) \cup Elements(Tail(calls))
        /\ Tally(Tail(calls), Ends) \in Nat
        /\ Tally(calls', Ends) = Tally(e, Ends) + Tally(Tail(calls), Ends)
    BY <1>2, <1>3, Continued
  <2>2. Tally(calls, Ends) = Tally(Tail(calls), Ends) + 1
    BY <1>2, TheCall DEF IInv, StackInv
  <2>3. Beginning(calls) = 0 /\ Beginning(calls') = 0
    <3>1. /\ Elements(calls) = {Head(calls)} \cup Elements(Tail(calls))
          /\ \A y \in Elements(Tail(calls)) : y.do \notin {"begin", "count"}
      BY <1>2, Running DEF Before
    <3> QED BY <1>2, <1>3, <2>1, <3>1 DEF Beginning
  <2>4. nested \in Nat /\ nested + Beginning(calls) = Tally(calls, Ends)
        /\ open = IF nested > 0 THEN 1 ELSE 0
    BY DEF IInv, GroupsInv, Beginning
  <2>5. nested > 0 /\ nested' \in Nat /\ nested' + Beginning(calls') = Tally(calls', Ends)
    BY <1>2, <1>3, <2>1, <2>2, <2>3, <2>4
  <2>6. open' = IF nested' > 0 THEN 1 ELSE 0
    BY <1>2, <2>4, <2>5
  <2> QED BY <2>5, <2>6 DEF GroupsInv, Beginning
<1> QED BY <1>4, <1>5, <1>6 DEF IInv

(* A call that files are loaded with has only such calls below it. *)
LEMMA UnderAdditive ==
  ASSUME IInv, calls # <<>>, Head(calls).do \in Additive \ {"enter"}
  PROVE  /\ \A y \in Elements(Tail(calls)) :
              y.do \in {"signal", "end", "connectAll", "create", "createQuietly", "adopt", "autoLink", "default"}
         /\ \A f : ~Has(calls, "enter", f)
         /\ Head(calls).do # "make" => \A l : ~Has(calls, "make", l)
<1>1. Elements(calls) = {Head(calls)} \cup Elements(Tail(calls))
  BY Running
<1>2. ASSUME NEW y \in Elements(Tail(calls))
      PROVE  y.do \in {"signal", "end", "connectAll", "create", "createQuietly", "adopt", "autoLink", "default"}
  <2>1. y \in Entries /\ Before(Head(calls), y)
    BY Running
  <2>2. y.do \notin {"enter", "begin", "count", "make", "link", "activate", "cut", "remove", "forget",
                     "destroy", "drop"}
    BY <2>1 DEF Before, Additive, Subtractive
  <2>3. y.do \in {"create", "createQuietly", "signal", "begin", "count", "end", "connectAll", "remove", "make",
                  "adopt", "link", "autoLink", "default", "forget", "destroy", "drop", "enter", "activate", "cut"}
    BY <2>1 DEF Entries
  <2> QED BY <2>2, <2>3
<1> QED BY <1>1, <1>2 DEF Has

LEMMA AtMostOne ==
  ASSUME NEW x \in Entries, x.do \notin {"make", "destroy", "end", "begin", "count"}, NEW e, e = <<>> \/ e = <<x>>
  PROVE  /\ Stacked(e) /\ Tally(e, Ends) = 0 /\ Beginning(e) = 0 /\ Elements(e) \subseteq {x}
<1>1. Stacked(e) /\ Tally(e, Ends) = 0 /\ Elements(e) \subseteq {x}
  BY NoEntries, OneEntry
<1> QED BY <1>1 DEF Beginning

LEMMA TypesOfLayers == \A t \in Types : OfType(t) \subseteq Layers
BY DEF Types, OfType, Layers

LEMMA CreateStep == ASSUME IInv, Create PROVE IInv'
<1> DEFINE h == Head(calls)
           t == Tail(calls)
<1>1. PICK l \in Fresh(h.on) :
        Continue(Group(<<Do("make", l, NoFile)>>)
                 \o (IF h.with = NoFile THEN <<>> ELSE <<Do("adopt", l, h.with)>>)
                 \o (IF l \in Rotations /\ h.with # NoFile /\ Doing("create")
                     THEN <<Do("default", l, NoFile)>> ELSE <<>>))
  BY DEF Create, On, With
<1>2. /\ calls # <<>> /\ h.do \in {"create", "createQuietly"}
      /\ UNCHANGED <<graph, tasks, defaults, nested, open, shown>>
  BY DEF Create, Doing
<1>3. h \in Entries /\ Fits(h, calls)
  BY <1>2, Running
<1>4. \A y \in Elements(t) :
        y.do \in {"signal", "end", "connectAll", "create", "createQuietly", "adopt", "autoLink", "default"}
  BY <1>2, UnderAdditive DEF Additive
<1>5. h.with \in files \cup {NoFile} /\ h.on \in Types
  <2>1. ~Has(calls, "enter", h.with)
    BY <1>2, UnderAdditive DEF Additive
  <2>2. h.with \in files \cup {NoFile}
    BY <1>2, <1>3, <2>1 DEF Fits
  <2>3. h.on \in Types
    BY <1>2, <1>3 DEF Entries
  <2> QED BY <2>2, <2>3
<1>6. l \in Layers \ made /\ files \subseteq Files
  BY <1>5, TypesOfLayers DEF Fresh, IInv, GraphInv
<1> DEFINE b == Do("begin", NoFile, NoFile)
           m == Do("make", l, NoFile)
           n == Do("end", NoFile, NoFile)
           a == Do("adopt", l, h.with)
           d == Do("default", l, NoFile)
           M == <<m>>
           G == Group(M)
<1>7. PICK A : A = IF h.with = NoFile THEN <<>> ELSE <<a>>
  OBVIOUS
<1>8. PICK D : D = IF l \in Rotations /\ h.with # NoFile /\ Doing("create") THEN <<d>> ELSE <<>>
  OBVIOUS
<1>9. Continue((G \o A) \o D)
  BY <1>1, <1>7, <1>8
<1>10. /\ b.do = "begin" /\ n.do = "end"
       /\ m \in Entries /\ m.do = "make" /\ m.on = l
       /\ a \in Entries /\ a.do = "adopt" /\ a.on = l /\ a.with = h.with
       /\ d \in Entries /\ d.do = "default" /\ d.on = l
  BY <1>5, <1>6 DEF Do, Entries, Data
<1> HIDE DEF h, t, b, m, n, a, d
<1>11. /\ A = <<>> \/ (h.with # NoFile /\ A = <<a>>)
       /\ D = <<>> \/ (l \in Rotations /\ D = <<d>>)
  BY <1>7, <1>8
<1>12. /\ Stacked(A) /\ Tally(A, Ends) = 0 /\ \A x \in Elements(A) : x = a /\ h.with # NoFile
  <2>1. Stacked(A) /\ Tally(A, Ends) = 0 /\ Elements(A) \subseteq {a}
    BY <1>10, <1>11, AtMostOne
  <2>2. A = <<>> => Elements(A) = {}
    BY NoEntries
  <2> QED BY <1>11, <2>1, <2>2
<1>13. /\ Stacked(D) /\ Tally(D, Ends) = 0 /\ \A x \in Elements(D) : x = d /\ l \in Rotations
  <2>1. Stacked(D) /\ Tally(D, Ends) = 0 /\ Elements(D) \subseteq {d}
    BY <1>10, <1>11, AtMostOne
  <2>2. D = <<>> => Elements(D) = {}
    BY NoEntries
  <2> QED BY <1>11, <2>1, <2>2
<1>14. Stacked(G) /\ Elements(G) = {b, n} \cup {m} /\ Tally(G, Ends) = 1
  <2>1. M \in Seq(Entries) /\ Elements(M) = {m} /\ Ordered(M, Order)
    BY <1>10 DEF Ordered, Elements
  <2>2. Tally(M, Ends) = 0
    BY <1>10, TallySingle DEF Ends
  <2> HIDE DEF M
  <2> QED BY <1>10, <2>1, <2>2, InGroup DEF b, n
<1> HIDE DEF G
<1> DEFINE GA == G \o A
<1>15. Stacked(GA) /\ Elements(GA) = {b, n, m} \cup Elements(A) /\ Tally(GA, Ends) = 1
  <2>1. \A x \in Elements(G), y \in Elements(A) : Before(x, y)
    BY <1>10, <1>12, <1>14 DEF Before, Additive, Subtractive, Removal
  <2>2. Stacked(GA) /\ Elements(GA) = Elements(G) \cup Elements(A)
    BY <1>12, <1>14, <2>1, Joined
  <2>3. Tally(GA, Ends) = Tally(G, Ends) + Tally(A, Ends)
    BY <1>12, <1>14, <2>1, Joined
  <2> QED BY <1>12, <1>14, <2>2, <2>3
<1> HIDE DEF GA
<1> DEFINE e == GA \o D
<1>16. Stacked(e) /\ Elements(e) = {b, n, m} \cup Elements(A) \cup Elements(D) /\ Tally(e, Ends) = 1
  <2>1. \A x \in Elements(GA), y \in Elements(D) : Before(x, y)
    BY <1>10, <1>12, <1>13, <1>15 DEF Before, Additive, Subtractive, Removal
  <2>2. Stacked(e) /\ Elements(e) = Elements(GA) \cup Elements(D)
    BY <1>13, <1>15, <2>1, Joined
  <2>3. Tally(e, Ends) = Tally(GA, Ends) + Tally(D, Ends)
    BY <1>13, <1>15, <2>1, Joined
  <2> QED BY <1>13, <1>15, <2>2, <2>3
<1>17. Continue(e)
  BY <1>9 DEF GA
<1> HIDE DEF e
<1>18. \A x \in Elements(e), y \in Elements(t) : Before(x, y)
  <2>1. \A x \in Elements(e) : x.do \in {"begin", "end", "make", "adopt", "default"}
    BY <1>10, <1>12, <1>13, <1>16
  <2> QED BY <1>4, <2>1 DEF Before, Additive, Subtractive, Removal
<1>19. \A x \in Elements(e) : x.do \notin {"drop", "destroy"} /\ Fits(x, calls')
  <2>1. Elements(calls') = Elements(e) \cup Elements(t)
    BY <1>2, <1>16, <1>17, <1>18, Continued DEF t
  <2>2. Has(calls', "make", l)
    BY <1>10, <1>16, <2>1 DEF Has
  <2>3. Fits(b, calls') /\ Fits(n, calls') /\ Fits(m, calls')
    BY <1>6, <1>10 DEF Fits, Removal
  <2>4. h.with # NoFile => Fits(a, calls')
    BY <1>5, <1>10, <2>2 DEF Fits, Removal
  <2>5. l \in Rotations => Fits(d, calls')
    BY <1>10, <2>2 DEF Fits, Removal
  <2> QED BY <1>10, <1>12, <1>13, <1>16, <2>3, <2>4, <2>5
<1>20. Beginning(e) = 1
  <2>1. b \in Elements(e)
    BY <1>16
  <2> QED BY <1>10, <2>1 DEF Beginning
<1> QED BY <1>2, <1>16, <1>17, <1>18, <1>19, <1>20, OnlyGoesOn DEF h, t

LEMMA ConnectAllStep == ASSUME IInv, ConnectAll PROVE IInv'
<1> DEFINE nn == Len(layers)
           wanted == {p \in {Do("autoLink", l, g) : l, g \in Live} :
                        AutoGlobal(p.on, p.with) \/ AutoLocal(p.on, p.with)}
<1>1. PICK pairs : pairs = [i \in 1..(nn * nn) |->
                              Do("autoLink", layers[((i - 1) \div nn) + 1], layers[((i - 1) % nn) + 1])]
  OBVIOUS
<1>2. PICK e : e = Only(pairs, wanted)
  OBVIOUS
<1>3. /\ calls # <<>> /\ Head(calls).do = "connectAll" /\ Continue(e)
      /\ UNCHANGED <<graph, tasks, defaults, nested, open, shown>>
  BY <1>1, <1>2 DEF ConnectAll, Doing
<1>4. \E A : pairs \in Seq(A)
  <2>1. nn * nn \in Nat
    <3>1. nn \in Nat
      BY DEF IInv, GraphInv
    <3> QED BY <3>1
  <2>2. DOMAIN pairs = 1..(nn * nn) /\ pairs = [i \in 1..(nn * nn) |-> pairs[i]]
    BY <1>1
  <2> DEFINE A == {pairs[i] : i \in DOMAIN pairs}
  <2>3. \A i \in DOMAIN pairs : pairs[i] \in A
    OBVIOUS
  <2>4. PICK m \in Nat : m = nn * nn
    BY <2>1
  <2> HIDE DEF A
  <2>5. pairs \in Seq(A)
    BY <2>2, <2>3, <2>4
  <2> QED BY <2>5
<1>5. \A p \in wanted : p \in Entries /\ p.do = "autoLink" /\ p.on \in Live /\ p.with \in Live
  <2> SUFFICES ASSUME NEW l \in Live, NEW g \in Live
               PROVE  /\ Do("autoLink", l, g) \in Entries /\ Do("autoLink", l, g).do = "autoLink"
                      /\ Do("autoLink", l, g).on = l /\ Do("autoLink", l, g).with = g
    OBVIOUS
  <2>1. l \in Data /\ g \in Data
    BY DEF IInv, GraphInv, Data
  <2> QED BY <2>1 DEF Do, Entries
<1> HIDE DEF wanted
<1>6. Elements(e) \subseteq wanted /\ e \in Seq(Entries)
  <2>1. PICK A : pairs \in Seq(A)
    BY <1>4
  <2>2. e \in Seq(A \cap wanted) /\ Elements(e) = Elements(pairs) \cap wanted
    BY <1>2, <2>1, OnlyElements
  <2>3. Elements(e) \subseteq Entries
    BY <1>5, <2>2
  <2> QED BY <2>2, <2>3, ElementsGrow
<1>7. \A x \in Elements(e) : x.do = "autoLink" /\ x.on \in Live /\ x.with \in Live
  BY <1>5, <1>6
<1>8. Stacked(e) /\ Tally(e, Ends) = 0
  <2>1. PICK D : D = {"autoLink"}
    OBVIOUS
  <2>2. e \in Seq(Entries) /\ \A x \in Elements(e) : x.do \in D
    BY <1>6, <1>7, <2>1
  <2> QED BY <2>1, <2>2, PlainPiece
<1>9. \A x \in Elements(e), y \in Elements(Tail(calls)) : Before(x, y)
  <2>1. \A y \in Elements(Tail(calls)) :
          y.do \in {"signal", "end", "connectAll", "create", "createQuietly", "adopt", "autoLink", "default"}
    BY <1>3, UnderAdditive DEF Additive
  <2> QED BY <1>7, <2>1 DEF Before, Additive, Subtractive, Removal
<1>10. \A x \in Elements(e) : x.do \notin {"drop", "destroy"} /\ Fits(x, calls')
  BY <1>7 DEF Fits, Removal
<1>11. Beginning(e) = 0
  BY <1>7 DEF Beginning
<1> QED BY <1>3, <1>8, <1>9, <1>10, <1>11, OnlyGoesOn

LEMMA AutoLinkStep == ASSUME IInv, AutoLink PROVE IInv'
<1> DEFINE h == Head(calls)
           x == Do("link", h.on, h.with)
<1>1. PICK e : e = IF (AutoLocal(h.on, h.with) => ShareFile(h.on, h.with)) /\ ~Connected(h.with, h.on)
                   THEN <<x>> ELSE <<>>
  OBVIOUS
<1>2. /\ calls # <<>> /\ h.do = "autoLink" /\ Continue(e)
      /\ UNCHANGED <<graph, tasks, defaults, nested, open, shown>>
  BY <1>1 DEF AutoLink, Doing, On, With
<1>3. e = <<>> \/ (e = <<x>> /\ ~Connected(h.with, h.on))
  BY <1>1
<1>4. h.on \in Live /\ h.with \in Live /\ Live \subseteq Layers
  BY <1>2, Running DEF Fits, IInv, GraphInv
<1>5. x \in Entries /\ x.do = "link" /\ x.on = h.on /\ x.with = h.with
  BY <1>4 DEF Do, Entries, Data
<1>6. \A y \in Elements(Tail(calls)) :
        y.do \in {"signal", "end", "connectAll", "create", "createQuietly", "adopt", "autoLink", "default"}
  BY <1>2, UnderAdditive DEF Additive
<1> HIDE DEF h, x
<1>7. Stacked(e) /\ Tally(e, Ends) = 0 /\ Beginning(e) = 0 /\ Elements(e) \subseteq {x}
  BY <1>3, <1>5, AtMostOne
<1>8. \A z \in Elements(e), y \in Elements(Tail(calls)) : Before(z, y)
  BY <1>5, <1>6, <1>7 DEF Before, Additive, Subtractive, Removal
<1>9. \A z \in Elements(e) : z.do \notin {"drop", "destroy"} /\ Fits(z, calls')
  <2>1. e = <<>> => Elements(e) = {}
    BY NoEntries
  <2>2. ~Connected(h.with, h.on) => Fits(x, calls')
    BY <1>4, <1>5 DEF Fits, Removal
  <2> QED BY <1>3, <1>5, <1>7, <2>1, <2>2
<1> QED BY <1>2, <1>7, <1>8, <1>9, OnlyGoesOn DEF h

LEMMA RemoveStep == ASSUME IInv, Remove PROVE IInv'
<1> DEFINE l == Head(calls).on
           x == Do("forget", l, NoFile)
           y == Do("activate", l, FALSE)
           g == Signal
           z == Do("destroy", l, NoFile)
           s == <<x, y, g, z>>
           e == Group(s)
           b == Do("begin", NoFile, NoFile)
           n == Do("end", NoFile, NoFile)
<1>1. /\ calls # <<>> /\ Head(calls).do = "remove" /\ Continue(e)
      /\ UNCHANGED <<graph, tasks, defaults, nested, open, shown>>
  BY DEF Remove, Doing, On
<1>2. l \in Live /\ Live \subseteq Layers
  BY <1>1, Running DEF Fits, Removal, IInv, GraphInv
<1>3. /\ x \in Entries /\ x.do = "forget" /\ x.on = l
      /\ y \in Entries /\ y.do = "activate" /\ y.on = l /\ y.with = FALSE
      /\ z \in Entries /\ z.do = "destroy" /\ z.on = l
      /\ b.do = "begin" /\ n.do = "end"
  BY <1>2 DEF Do, Entries, Data
<1>4. g \in Entries /\ g.do = "signal"
  BY SignalEntry
<1> HIDE DEF x, y, z, g, b, n
<1>5. s \in Seq(Entries) /\ DOMAIN s = 1..4 /\ s[1] = x /\ s[2] = y /\ s[3] = g /\ s[4] = z
  BY <1>3, <1>4
<1> HIDE DEF s
<1>6. Elements(s) = {x, y, g, z}
  BY <1>5 DEF Elements
<1>7. Ordered(s, Order)
  <2>1. Before(x, y) /\ Before(x, g) /\ Before(x, z) /\ Before(y, g) /\ Before(y, z) /\ Before(g, z)
    BY <1>3, <1>4 DEF Before, Additive, Subtractive, Removal
  <2>2. ASSUME NEW i \in DOMAIN s, NEW j \in DOMAIN s, i < j PROVE Before(s[i], s[j])
    <3>1. i \in {1, 2, 3} /\ j \in {2, 3, 4}
      BY <1>5, <2>2
    <3>2. CASE i = 1
      BY <1>5, <2>1, <2>2, <3>1, <3>2
    <3>3. CASE i = 2
      BY <1>5, <2>1, <2>2, <3>1, <3>3
    <3>4. CASE i = 3
      BY <1>5, <2>1, <2>2, <3>1, <3>4
    <3> QED BY <3>1, <3>2, <3>3, <3>4
  <2>3. \A i \in DOMAIN s : s[i] \in Entries
    BY <1>5, ElementsTyped DEF Elements
  <2> QED BY <2>2, <2>3 DEF Ordered, Order
<1>8. Tally(s, Ends) = 0
  BY <1>3, <1>4, <1>5, <1>6, TallyZero DEF Ends
<1>9. Stacked(e) /\ Elements(e) = {b, n} \cup {x, y, g, z} /\ Tally(e, Ends) = 1
  BY <1>3, <1>4, <1>5, <1>6, <1>7, <1>8, InGroup DEF b, n
<1> HIDE DEF e
<1>10. \A w \in Elements(e) : w = b \/ w = n \/ w = x \/ w = y \/ w = g \/ w = z
  BY <1>9
<1>11. \A w \in Elements(e), v \in Elements(Tail(calls)) : Before(w, v)
  <2>1. \A v \in Elements(Tail(calls)) : v \in Entries /\ Before(Head(calls), v)
    BY <1>1, Running
  <2>2. \A v \in Elements(Tail(calls)) :
          /\ v.do \notin Additive \cup {"default", "begin", "count", "link", "activate", "cut"}
          /\ v.do \in Removal => v.on # l
    BY <1>1, <2>1 DEF Before, Additive, Subtractive, Removal
  <2> HIDE DEF l
  <2>3. \A w \in Elements(e) :
          /\ w.do \in {"begin", "end", "forget", "activate", "signal", "destroy"}
          /\ w.do \in Removal => w.on = l
    BY <1>3, <1>4, <1>10 DEF Removal
  <2> QED BY <2>2, <2>3 DEF Before, Additive, Subtractive, Removal
<1>12. \A w \in Elements(e) : w.do # "drop" /\ Fits(w, calls')
  <2> HIDE DEF l
  <2> QED BY <1>2, <1>3, <1>4, <1>10 DEF Fits, Removal
<1>13. Has(e, "forget", l) /\ Has(e, "destroy", l)
  BY <1>3, <1>9 DEF Has
<1>14. \A w \in Elements(e) : w.do = "destroy" => Has(e, "forget", w.on)
  BY <1>3, <1>4, <1>10, <1>13
<1>15. Beginning(e) = 1
  <2>1. b \in Elements(e)
    BY <1>9
  <2> QED BY <1>3, <2>1 DEF Beginning
<1> QED BY <1>1, <1>9, <1>11, <1>12, <1>13, <1>14, <1>15, OnlyGoesOn

LEMMA AdoptStep == ASSUME IInv, Adopt PROVE IInv'
<1> DEFINE h == Head(calls)
           x == Do("link", h.on, h.with)
           e == <<x>>
<1>1. /\ calls # <<>> /\ h.do = "adopt" /\ Continue(e) /\ auto' = [auto EXCEPT ![h.on] = TRUE]
      /\ UNCHANGED <<files, layers, made, active, conn, outputs, fileTask, layerTask, defaults, nested, open, shown>>
  BY DEF Adopt, Doing, On, With, tasks
<1>2. \A y \in Elements(Tail(calls)) :
        y.do \in {"signal", "end", "connectAll", "create", "createQuietly", "adopt", "autoLink", "default"}
  BY <1>1, UnderAdditive DEF Additive
<1>3. h.on \in Live /\ h.with \in files /\ Live \subseteq Layers /\ files \subseteq Files
  <2>1. ~Has(calls, "make", h.on)
    BY <1>1, UnderAdditive DEF Additive
  <2> QED BY <1>1, <2>1, Running DEF Fits, IInv, GraphInv
<1>4. x \in Entries /\ x.do = "link" /\ x.on = h.on /\ x.with = h.with
  BY <1>3 DEF Do, Entries, Data
<1>5. \A s : Fits(x, s)
  BY <1>3, <1>4, DataAssumption DEF Fits, Removal
<1> HIDE DEF x, h
<1>6. Stacked(e) /\ Elements(e) = {x} /\ Tally(e, Ends) = 0
  BY <1>4, OneEntry
<1> HIDE DEF e
<1>7. \A z \in Elements(e), y \in Elements(Tail(calls)) : Before(z, y)
  BY <1>2, <1>4, <1>6 DEF Before, Additive, Subtractive, Removal
<1>8. StackInv'
  BY <1>1, <1>4, <1>5, <1>6, <1>7, StackSettled DEF h
<1>9. Live' = Live
  BY <1>1 DEF Live
<1>10. GraphInv'
  BY <1>1, <1>9 DEF IInv, GraphInv, SourceActive
<1>11. TasksInv'
  <2>1. \A l : Inputs(l)' = Inputs(l) /\ ActiveInputs(l)' = ActiveInputs(l)
    BY <1>1, <1>9 DEF Inputs, ActiveInputs, Connected
  <2> QED BY <1>1, <1>9, <2>1 DEF IInv, TasksInv
<1>12. DropInv'
  <2>1. Elements(calls') = Elements(e) \cup Elements(Tail(calls))
    BY <1>1, <1>6, <1>7, Continued
  <2>2. \A y \in Elements(calls') : y.do # "drop"
    BY <1>2, <1>4, <1>6, <2>1
  <2> QED BY <2>2 DEF DropInv
<1>13. GroupsInv'
  <2>1. Beginning(e) = 0
    BY <1>4, <1>6 DEF Beginning
  <2> QED BY <1>1, <1>6, <1>7, <2>1, GroupsKept DEF h
<1>14. DefaultsInv'
  BY <1>1, <1>4, <1>6, <1>7, <1>9, DefaultsKept DEF h
<1> QED BY <1>8, <1>10, <1>11, <1>12, <1>13, <1>14 DEF IInv

LEMMA DefaultStep == ASSUME IInv, Default PROVE IInv'
<1> DEFINE l == Head(calls).on
<1>1. /\ calls # <<>> /\ Head(calls).do = "default"
      /\ UNCHANGED <<graph, tasks, nested, open>>
      /\ \/ Continue(<<>>) /\ UNCHANGED <<defaults, shown>>
         \/ defaults' = Append(defaults, l) /\ shown' = {l} /\ Continue(<<Signal>>)
  BY DEF Default, Doing, On
<1>2. PICK e : (e = <<>> \/ e = <<Signal>>) /\ Continue(e)
  BY <1>1
<1>3. /\ Stacked(e) /\ Tally(e, Ends) = 0 /\ Beginning(e) = 0
      /\ \A x \in Elements(e) : \A s : x.do = "signal" /\ Fits(x, s)
      /\ \A x \in Elements(e), y \in Elements(Tail(calls)) : Before(x, y)
  BY <1>1, <1>2, SignalOrNone, SignalFirst
<1>4. StackInv' /\ GraphInv' /\ TasksInv' /\ DropInv'
  BY <1>1, <1>2, <1>3, Settled
<1>5. GroupsInv'
  BY <1>1, <1>2, <1>3, GroupsKept
<1>6. Live' = Live
  BY <1>1 DEF graph, Live
<1>7. CASE UNCHANGED <<defaults, shown>>
  <2>1. DefaultsInv'
    BY <1>1, <1>2, <1>3, <1>6, <1>7, DefaultsKept
  <2> QED BY <1>4, <1>5, <2>1 DEF IInv
<1>8. CASE defaults' = Append(defaults, l) /\ shown' = {l}
  <2>1. /\ l \in Rotations /\ l \in Live
        /\ \A y \in Elements(Tail(calls)) : y.do = "destroy" => y.on # l
    <3>1. /\ Fits(Head(calls), calls) /\ Elements(calls) = {Head(calls)} \cup Elements(Tail(calls))
          /\ \A y \in Elements(Tail(calls)) : Before(Head(calls), y)
      BY <1>1, Running
    <3>2. \A y \in Elements(Tail(calls)) : y.do \in {"make", "destroy"} => y.on # l
      BY <1>1, <3>1 DEF Before
    <3>3. ~Has(calls, "make", l)
      BY <1>1, <3>1, <3>2 DEF Has
    <3> QED BY <1>1, <3>1, <3>2, <3>3 DEF Fits
  <2> HIDE DEF l
  <2>2. /\ defaults \in Seq(Rotations) /\ Elements(defaults) \subseteq Live
        /\ \A x \in Elements(calls) :
             x.do = "destroy" /\ x.on \in Elements(defaults) => Has(calls, "forget", x.on)
    BY DEF IInv, DefaultsInv
  <2>3. defaults' \in Seq(Rotations) /\ Elements(defaults') = Elements(defaults) \cup {l}
    BY <1>8, <2>1, <2>2, ElementsAppend
  <2>4. Top(defaults') = {l}
    <3>1. defaults' # <<>> /\ defaults'[Len(defaults')] = l
      BY <1>8, <2>1, <2>2
    <3> QED BY <3>1 DEF Top
  <2>5. /\ Elements(calls') = Elements(e) \cup Elements(Tail(calls))
        /\ Elements(calls) = {Head(calls)} \cup Elements(Tail(calls))
    BY <1>1, <1>2, <1>3, Continued, Running
  <2>6. ASSUME NEW x \in Elements(calls'), x.do = "destroy", x.on \in Elements(defaults')
        PROVE  Has(calls', "forget", x.on)
    <3>1. x \in Elements(Tail(calls)) /\ x.on \in Elements(defaults)
      BY <1>3, <2>1, <2>3, <2>5, <2>6
    <3>2. Has(calls, "forget", x.on)
      BY <2>2, <2>5, <2>6, <3>1
    <3> QED BY <1>1, <2>5, <3>2 DEF Has
  <2>7. DefaultsInv'
    BY <1>6, <1>8, <2>1, <2>2, <2>3, <2>4, <2>6 DEF DefaultsInv, Top
  <2> QED BY <1>4, <1>5, <2>7 DEF IInv
<1> QED BY <1>1, <1>7, <1>8

(* What is on top of a stack stays there when others are taken out. *)
LEMMA TopStays ==
  ASSUME NEW A, NEW s \in Seq(A), NEW S, Top(s) \subseteq S
  PROVE  Top(Only(s, S)) = Top(s)
<1>1. CASE s = <<>>
  BY <1>1, OnlyEmpty
<1>2. CASE s # <<>>
  <2>1. PICK r \in Seq(A), x \in A : s = Append(r, x)
    <3> DEFINE r == [i \in 1..(Len(s) - 1) |-> s[i]]
    <3>1. r \in Seq(A) /\ s[Len(s)] \in A /\ s = Append(r, s[Len(s)])
      BY <1>2
    <3> QED BY <3>1
  <2>2. s[Len(s)] = x /\ x \in S
    <3>1. s[Len(s)] = x
      BY <2>1
    <3> QED BY <1>2, <3>1 DEF Top
  <2>3. Only(s, S) = Append(Only(r, S), x)
    BY <2>1, <2>2, OnlyAppend
  <2>4. Only(r, S) \in Seq(A \cap S)
    BY OnlyElements
  <2>5. Only(s, S) # <<>> /\ Only(s, S)[Len(Only(s, S))] = x
    BY <2>3, <2>4
  <2> QED BY <1>2, <2>2, <2>5 DEF Top
<1> QED BY <1>1, <1>2

LEMMA ForgetStep == ASSUME IInv, Forget PROVE IInv'
<1> DEFINE l == Head(calls).on
<1>1. /\ calls # <<>> /\ Head(calls).do = "forget" /\ defaults' = Only(defaults, Layers \ {l})
      /\ UNCHANGED <<graph, tasks, nested, open>>
      /\ \/ Top(defaults) # {l} /\ Continue(<<>>) /\ UNCHANGED shown
         \/ shown' = Top(defaults') /\ Continue(<<Signal>>)
  BY DEF Forget, Forgotten, Doing, On
<1>2. PICK e : (e = <<>> \/ e = <<Signal>>) /\ Continue(e)
  BY <1>1
<1>3. /\ Stacked(e) /\ Tally(e, Ends) = 0 /\ Beginning(e) = 0
      /\ \A x \in Elements(e) : \A s : x.do = "signal" /\ Fits(x, s)
      /\ \A x \in Elements(e), y \in Elements(Tail(calls)) : Before(x, y)
  BY <1>1, <1>2, SignalOrNone, SignalFirst
<1>4. StackInv' /\ GraphInv' /\ TasksInv' /\ DropInv'
  BY <1>1, <1>2, <1>3, Settled
<1>5. GroupsInv'
  BY <1>1, <1>2, <1>3, GroupsKept
<1>6. Live' = Live /\ Live \subseteq Layers
  BY <1>1 DEF graph, Live, IInv, GraphInv
<1> HIDE DEF l
<1>7. /\ defaults \in Seq(Rotations) /\ Elements(defaults) \subseteq Live /\ shown = Top(defaults)
      /\ \A x \in Elements(calls) :
           x.do = "destroy" /\ x.on \in Elements(defaults) => Has(calls, "forget", x.on)
  BY DEF IInv, DefaultsInv
<1>8. /\ defaults' \in Seq(Rotations)
      /\ Elements(defaults') = Elements(defaults) \cap (Layers \ {l})
  <2>1. /\ defaults' \in Seq(Rotations \cap (Layers \ {l}))
        /\ Elements(defaults') = Elements(defaults) \cap (Layers \ {l})
    BY <1>1, <1>7, OnlyElements
  <2>2. Elements(defaults') \subseteq Rotations
    BY <1>7, <2>1, ElementsTyped
  <2> QED BY <2>1, <2>2, ElementsGrow
<1>9. shown' = Top(defaults')
  <2>1. CASE Top(defaults) # {l} /\ UNCHANGED shown
    <3>1. Top(defaults) \subseteq Layers \ {l}
      <4>1. Top(defaults) \subseteq Elements(defaults)
        BY <1>7 DEF Top, Elements
      <4>2. Top(defaults) = {} \/ \E x : Top(defaults) = {x}
        BY DEF Top
      <4> QED BY <1>6, <1>7, <2>1, <4>1, <4>2
    <3>2. Top(defaults') = Top(defaults)
      BY <1>1, <1>7, <3>1, TopStays
    <3> QED BY <1>7, <2>1, <3>2
  <2> QED BY <1>1, <2>1
<1>10. /\ Elements(calls') = Elements(e) \cup Elements(Tail(calls))
       /\ Elements(calls) = {Head(calls)} \cup Elements(Tail(calls))
  BY <1>1, <1>2, <1>3, Continued, Running
<1>11. ASSUME NEW x \in Elements(calls'), x.do = "destroy", x.on \in Elements(defaults')
       PROVE  Has(calls', "forget", x.on)
  <2>1. x \in Elements(Tail(calls)) /\ x.on \in Elements(defaults) /\ x.on # l
    BY <1>3, <1>8, <1>10, <1>11
  <2>2. Has(calls, "forget", x.on)
    BY <1>7, <1>10, <1>11, <2>1
  <2> QED BY <1>10, <2>1, <2>2 DEF Has, l
<1>12. DefaultsInv'
  BY <1>6, <1>7, <1>8, <1>9, <1>11 DEF DefaultsInv, Top
<1> QED BY <1>4, <1>5, <1>12 DEF IInv
-----------------------------------------------------------------------------
(* Steps that change layers, connections and what tasks know. *)
LEMMA MakeStep == ASSUME IInv, Make PROVE IInv'
<1> DEFINE l == Head(calls).on
           t == Tail(calls)
<1>1. PICK e : e = <<Signal>>
  OBVIOUS
<1>2. /\ calls # <<>> /\ Head(calls).do = "make" /\ Continue(e)
      /\ layers' = Append(layers, l) /\ made' = made \cup {l} /\ active' = [active EXCEPT ![l] = TRUE]
      /\ UNCHANGED <<files, auto, conn, outputs, fileTask, layerTask, defaults, nested, open, shown>>
  BY <1>1 DEF Make, Doing, On, tasks
<1>3. /\ Stacked(e) /\ Tally(e, Ends) = 0 /\ Beginning(e) = 0
      /\ \A x \in Elements(e) : \A s : x.do = "signal" /\ Fits(x, s)
      /\ \A x \in Elements(e), y \in Elements(Tail(calls)) : Before(x, y)
  BY <1>1, <1>2, SignalOrNone, SignalFirst
<1>4. l \in Layers \ made /\ l \notin Live /\ GraphInv
  BY <1>2, Running DEF Fits, IInv, GraphInv
<1>5. /\ layers' \in Seq(Layers) /\ Live' = Live \cup {l} /\ Distinct(layers')
  <2>1. Live = Elements(layers) /\ Live' = Elements(layers') /\ layers \in Seq(Layers) /\ Distinct(layers)
    BY <1>4 DEF Live, Elements, GraphInv
  <2> QED BY <1>2, <1>4, <2>1, ElementsAppend
<1>6. /\ Elements(calls') = Elements(e) \cup Elements(t) /\ Stacked(calls')
      /\ Elements(calls) = {Head(calls)} \cup Elements(t)
  BY <1>2, <1>3, Continued, Running
<1>7. \A y \in Elements(t) :
        y.do \in {"signal", "end", "connectAll", "create", "createQuietly", "adopt", "autoLink", "default"}
  BY <1>2, UnderAdditive DEF Additive
<1>8. \A y \in Elements(t) : Fits(y, calls)
  BY <1>2, Running
<1>9. /\ \A f : ~Has(calls, "enter", f)
      /\ \A d : Has(calls, "make", d) => d = l
  BY <1>2, <1>6, <1>7, UnderAdditive DEF Additive, Has
<1> HIDE DEF l, t
<1>10. StackInv'
  <2>1. \A y \in Elements(t) : Fits(y, calls)'
    <3> SUFFICES ASSUME NEW y \in Elements(t) PROVE Fits(y, calls)'
      OBVIOUS
    <3> QED BY <1>2, <1>5, <1>7, <1>8, <1>9 DEF Fits, Removal
  <2>2. \A y \in Elements(e) : Fits(y, calls)'
    <3> SUFFICES ASSUME NEW y \in Elements(e) PROVE Fits(y, calls)'
      OBVIOUS
    <3> QED BY <1>3 DEF Fits, Removal
  <2> QED BY <1>6, <2>1, <2>2 DEF StackInv
<1>11. GraphInv'
  <2>1. \A c \in DOMAIN conn : SourceActive(conn[c].from)' = SourceActive(conn[c].from)
    <3> SUFFICES ASSUME NEW c \in DOMAIN conn PROVE SourceActive(conn[c].from)' = SourceActive(conn[c].from)
      OBVIOUS
    <3>1. conn[c].from \in files \cup Live /\ files \subseteq Files /\ Live \subseteq Layers
      BY <1>4 DEF GraphInv
    <3> QED BY <1>2, <1>4, <3>1 DEF SourceActive, GraphInv
  <2>2. active' \in [Layers -> BOOLEAN] /\ \A k \in Layers : active'[k] => k \in Live'
    BY <1>2, <1>4, <1>5 DEF GraphInv
  <2> QED BY <1>2, <1>4, <1>5, <2>1, <2>2 DEF GraphInv
<1>12. TasksInv'
  <2>1. \A k : Inputs(k)' = Inputs(k)
    BY <1>2 DEF Inputs
  <2>2. \A k, g : Connected(g, k)' <=> Connected(g, k)
    BY <1>2, <2>1 DEF Connected
  <2>3. \A g, k : Connected(g, k) => g # l
    BY <1>4, DataAssumption DEF Connected, Inputs, GraphInv
  <2>4. \A k : ActiveInputs(k)' = ActiveInputs(k)
    <3> SUFFICES ASSUME NEW k PROVE ActiveInputs(k)' = ActiveInputs(k)
      OBVIOUS
    <3>1. \A g \in Live : active'[g] = active[g]
      BY <1>2, <1>4 DEF GraphInv
    <3> QED BY <1>5, <2>2, <2>3, <3>1 DEF ActiveInputs
  <2> QED BY <1>2, <2>1, <2>4 DEF IInv, TasksInv
<1>13. DropInv'
  <2>1. \A y \in Elements(calls') : y.do # "drop"
    BY <1>3, <1>6, <1>7
  <2> QED BY <2>1 DEF DropInv
<1>14. GroupsInv' /\ DefaultsInv'
  <2>1. GroupsInv'
    BY <1>2, <1>3, GroupsKept
  <2>2. DefaultsInv'
    BY <1>2, <1>3, <1>5, DefaultsKept
  <2> QED BY <2>1, <2>2
<1> QED BY <1>10, <1>11, <1>12, <1>13, <1>14 DEF IInv

LEMMA NewConnection ==
  ASSUME GraphInv
  PROVE  /\ NewConn \in Nat /\ NewConn \notin DOMAIN conn
         /\ NewConn \in 1..(Cardinality(DOMAIN conn) + 1)
<1> DEFINE D == DOMAIN conn
           n == Cardinality(D) + 1
<1>1. IsFiniteSet(D) /\ Cardinality(D) \in Nat
  BY FS_CardinalityType DEF GraphInv
<1>2. n \in Nat /\ n > Cardinality(D) /\ 1 \in Int /\ n \in Int /\ n >= 1
  BY <1>1
<1> HIDE DEF n
<1>3. \E c \in 1..n : c \notin D
  <2> SUFFICES ASSUME 1..n \subseteq D PROVE FALSE
    OBVIOUS
  <2>1. Cardinality(1..n) <= Cardinality(D)
    BY <1>1, FS_Subset
  <2>2. Cardinality(1..n) = n
    <3>1. Cardinality(1..n) = IF 1 > n THEN 0 ELSE n - 1 + 1
      BY <1>2, FS_Interval
    <3> QED BY <1>2, <3>1
  <2> QED BY <1>1, <1>2, <2>1, <2>2
<1>4. NewConn \in 1..n /\ NewConn \notin D
  BY <1>3 DEF NewConn, n
<1> QED BY <1>2, <1>4 DEF n

LEMMA ActivatedStep == ASSUME IInv, Activated PROVE IInv'
<1> DEFINE l == Head(calls).on
           w == Head(calls).with
<1>1. /\ calls # <<>> /\ Head(calls).do = "activate"
      /\ UNCHANGED <<files, layers, made, auto, outputs, fileTask, defaults, nested, open, shown>>
      /\ \/ Continue(<<>>) /\ UNCHANGED <<active, conn, layerTask>>
         \/ /\ active' = [active EXCEPT ![l] = w] /\ conn' = FlagsFollow(l, w)
            /\ layerTask' = [k \in Layers |-> TaskFollows(k, l, w)] /\ Continue(<<Signal>>)
  BY DEF Activated, Doing, On, With
<1>2. PICK e : (e = <<>> \/ e = <<Signal>>) /\ Continue(e)
  BY <1>1
<1>3. /\ Stacked(e) /\ Tally(e, Ends) = 0 /\ Beginning(e) = 0
      /\ \A x \in Elements(e) : \A s : x.do = "signal" /\ Fits(x, s)
      /\ \A x \in Elements(e), y \in Elements(Tail(calls)) : Before(x, y)
  BY <1>1, <1>2, SignalOrNone, SignalFirst
<1>4. l \in Live /\ w \in BOOLEAN /\ GraphInv /\ Live \subseteq Layers
  BY <1>1, Running DEF Fits, IInv, GraphInv
<1>5. Live' = Live
  BY <1>1 DEF Live
<1>6. GroupsInv' /\ DefaultsInv'
  <2>1. GroupsInv'
    BY <1>1, <1>2, <1>3, GroupsKept
  <2>2. DefaultsInv'
    BY <1>1, <1>2, <1>3, <1>5, DefaultsKept
  <2> QED BY <2>1, <2>2
<1>7. CASE UNCHANGED <<active, conn, layerTask>>
  <2>1. UNCHANGED <<graph, tasks>>
    BY <1>1, <1>7 DEF graph, tasks
  <2>2. StackInv' /\ GraphInv' /\ TasksInv' /\ DropInv'
    BY <1>1, <1>2, <1>3, <2>1, Settled
  <2> QED BY <1>6, <2>2 DEF IInv
<1>8. CASE /\ active' = [active EXCEPT ![l] = w] /\ conn' = FlagsFollow(l, w)
           /\ layerTask' = [k \in Layers |-> TaskFollows(k, l, w)]
  <2> HIDE DEF l, w
  <2>1. /\ active' \in [Layers -> BOOLEAN] /\ active'[l] = w
        /\ \A k \in Layers : k # l => active'[k] = active[k]
    BY <1>4, <1>8 DEF GraphInv
  <2>2. /\ DOMAIN conn' = DOMAIN conn
        /\ \A c \in DOMAIN conn : /\ conn'[c].from = conn[c].from /\ conn'[c].to = conn[c].to
                                  /\ conn'[c].on = IF conn[c].from = l THEN w ELSE conn[c].on
                                  /\ conn'[c] \in [from : files \cup Live, to : Live, on : BOOLEAN]
    <3>1. DOMAIN conn' = DOMAIN conn
      BY <1>8 DEF FlagsFollow
    <3>2. \A c \in DOMAIN conn : conn[c] \in [from : files \cup Live, to : Live, on : BOOLEAN]
      BY <1>4 DEF GraphInv
    <3>3. \A c \in DOMAIN conn : conn'[c] = IF conn[c].from = l THEN [conn[c] EXCEPT !.on = w] ELSE conn[c]
      BY <1>8 DEF FlagsFollow
    <3> QED BY <1>4, <3>1, <3>2, <3>3
  <2>3. StackInv'
    BY <1>1, <1>2, <1>3, <2>2, StackSettled
  <2>4. GraphInv'
    <3>1. \A c \in DOMAIN conn : conn'[c].on = (conn[c].from \in Files \/ active'[conn[c].from])
      <4> SUFFICES ASSUME NEW c \in DOMAIN conn
                   PROVE  conn'[c].on = (conn[c].from \in Files \/ active'[conn[c].from])
        OBVIOUS
      <4>1. conn[c].from \in files \cup Live /\ conn[c].on = SourceActive(conn[c].from) /\ files \subseteq Files
        BY <1>4 DEF GraphInv
      <4>2. l \notin Files
        BY <1>4, DataAssumption
      <4> QED BY <1>4, <2>1, <2>2, <4>1, <4>2 DEF SourceActive
    <3>3. \A d \in Data : {c \in DOMAIN conn' : conn'[c].from = d} = {c \in DOMAIN conn : conn[c].from = d}
      BY <2>2
    <3>4. \A k \in Layers : active'[k] => k \in Live
      BY <1>4, <2>1 DEF GraphInv
    <3>5. /\ DOMAIN conn' \subseteq Nat /\ IsFiniteSet(DOMAIN conn') /\ outputs \in [Data -> Seq(DOMAIN conn')]
      BY <1>4, <2>2 DEF GraphInv
    <3>6. \A d \in Data : Distinct(outputs[d]) /\ Elements(outputs[d]) = {c \in DOMAIN conn' : conn'[c].from = d}
      BY <1>4, <3>3 DEF GraphInv
    <3>7. \A c \in DOMAIN conn' : conn'[c] \in [from : files \cup Live, to : Live, on : BOOLEAN]
      BY <2>2
    <3>8. \A c \in DOMAIN conn' : conn'[c].on = (conn'[c].from \in Files \/ active'[conn'[c].from])
      BY <2>2, <3>1
    <3> QED BY <1>1, <1>4, <1>5, <2>1, <3>4, <3>5, <3>6, <3>7, <3>8 DEF GraphInv, SourceActive
  <2>5. TasksInv'
    <3>1. \A k : Inputs(k)' = Inputs(k)
      BY <2>2 DEF Inputs
    <3>2. \A k : Inputs(k) \subseteq DOMAIN conn
      BY DEF Inputs
    <3>3. \A k, g : Connected(g, k)' <=> Connected(g, k)
      BY <2>2, <3>1, <3>2 DEF Connected
    <3>4. \A k \in Layers, f \in Files :
            {c \in Inputs(k)' : conn'[c].from = f} = {c \in Inputs(k) : conn[c].from = f}
      BY <2>2, <3>1, <3>2
    <3>5. \A k \in Layers : layerTask'[k] = TaskFollows(k, l, w)
      BY <1>8
    <3>6. TasksInv
      BY DEF IInv
    <3>7. \A k \in Layers : layerTask'[k] \subseteq Layers /\ layerTask'[k] \subseteq ActiveInputs(k)'
      <4> SUFFICES ASSUME NEW k \in Layers
                   PROVE  layerTask'[k] \subseteq Layers /\ layerTask'[k] \subseteq ActiveInputs(k)'
        OBVIOUS
      <4>1. layerTask[k] \subseteq ActiveInputs(k) /\ ActiveInputs(k) \subseteq Layers
        BY <1>4, <3>6 DEF TasksInv, ActiveInputs
      <4>2. \A g \in layerTask'[k] : g \in Live /\ active'[g] /\ Connected(g, k)
        <5> SUFFICES ASSUME NEW g \in layerTask'[k] PROVE g \in Live /\ active'[g] /\ Connected(g, k)
          OBVIOUS
        <5>1. CASE g = l
          BY <1>4, <2>1, <3>5, <4>1, <5>1 DEF TaskFollows, ActiveInputs
        <5>2. CASE g # l
          BY <1>4, <2>1, <3>5, <4>1, <5>2 DEF TaskFollows, ActiveInputs
        <5> QED BY <5>1, <5>2
      <4> QED BY <1>4, <1>5, <3>3, <4>2 DEF ActiveInputs
    <3>8. ~Duplicates => \A k \in Layers : ActiveInputs(k)' \subseteq layerTask'[k]
      <4> SUFFICES ASSUME ~Duplicates, NEW k \in Layers, NEW g \in ActiveInputs(k)' PROVE g \in layerTask'[k]
        OBVIOUS
      <4>1. g \in Live /\ active'[g] /\ Connected(g, k)
        BY <1>5, <3>3 DEF ActiveInputs
      <4>2. ActiveInputs(k) \subseteq layerTask[k]
        BY <3>6 DEF TasksInv
      <4>3. CASE g = l
        BY <2>1, <3>5, <4>1, <4>3 DEF TaskFollows
      <4>4. CASE g # l
        BY <1>4, <2>1, <3>5, <4>1, <4>2, <4>4 DEF TaskFollows, ActiveInputs
      <4> QED BY <4>3, <4>4
    <3>9. ~Duplicates => \A c, d \in DOMAIN conn' :
            conn'[c].from \in Layers /\ conn'[c].from = conn'[d].from /\ conn'[c].to = conn'[d].to => c = d
      BY <2>2, <3>6 DEF TasksInv
    <3>10. layerTask' \in [Layers -> SUBSET Layers]
      BY <1>8, <3>7
    <3>11. \A k \in Layers, f \in Files : fileTask'[k][f] = Cardinality({c \in Inputs(k)' : conn'[c].from = f})
      BY <1>1, <3>4, <3>6 DEF TasksInv
    <3>12. fileTask' \in [Layers -> [Files -> Nat]]
      BY <1>1, <3>6 DEF TasksInv
    <3> QED BY <3>7, <3>8, <3>9, <3>10, <3>11, <3>12 DEF TasksInv
  <2>6. DropInv'
    <3>1. \A k, f : FedOnlyBy(k, f)' => FedOnlyBy(k, f)
      <4> SUFFICES ASSUME NEW k, NEW f, FedOnlyBy(k, f)' PROVE FedOnlyBy(k, f)
        OBVIOUS
      <4>1. MainInputs(k)' = MainInputs(k) /\ MainInputs(k) \subseteq DOMAIN conn
        BY <2>2 DEF MainInputs, Inputs
      <4>2. MainFiles(k)' = MainFiles(k)
        BY <2>2, <4>1 DEF MainFiles
      <4> QED BY <4>1, <4>2 DEF FedOnlyBy
    <3> QED BY <1>1, <1>2, <1>3, <1>5, <3>1, DropsSettled
  <2> QED BY <1>6, <2>3, <2>4, <2>5, <2>6 DEF IInv
<1> QED BY <1>1, <1>7, <1>8

LEMMA LinkStep == ASSUME IInv, Link PROVE IInv'
<1> DEFINE l == Head(calls).on
           w == Head(calls).with
           t == Tail(calls)
<1>1. PICK e : e = <<Signal>>
  OBVIOUS
<1>2. PICK n : n = NewConn
  OBVIOUS
<1>3. /\ calls # <<>> /\ Head(calls).do = "link" /\ Continue(e)
      /\ conn' = [c \in DOMAIN conn \cup {n} |->
                    IF c = n THEN [from |-> w, to |-> l, on |-> SourceActive(w)] ELSE conn[c]]
      /\ outputs' = [outputs EXCEPT ![w] = Append(@, n)]
      /\ fileTask' = (IF w \in Files THEN [fileTask EXCEPT ![l][w] = @ + 1] ELSE fileTask)
      /\ layerTask' = [layerTask EXCEPT ![l] = WithSource(l, w)]
      /\ UNCHANGED <<files, layers, made, active, auto, defaults, nested, open, shown>>
  BY <1>1, <1>2 DEF Link, Doing, On, With
<1>4. /\ Stacked(e) /\ Tally(e, Ends) = 0 /\ Beginning(e) = 0
      /\ \A x \in Elements(e) : \A s : x.do = "signal" /\ Fits(x, s)
      /\ \A x \in Elements(e), y \in Elements(Tail(calls)) : Before(x, y)
  BY <1>1, <1>3, SignalOrNone, SignalFirst
<1>5. GraphInv /\ TasksInv /\ Live \subseteq Layers /\ files \subseteq Files /\ Files \cap Layers = {}
  BY DataAssumption DEF IInv, GraphInv
<1>6. l \in Live /\ w \in files \cup Live /\ (~Duplicates /\ w \in Layers => ~Connected(w, l))
  BY <1>3, Running DEF Fits
<1>7. n \in Nat /\ n \notin DOMAIN conn
  BY <1>2, <1>5, NewConnection
<1>8. Live' = Live
  BY <1>3 DEF Live
<1>9. /\ Elements(calls') = Elements(e) \cup Elements(t) /\ Stacked(calls')
      /\ Elements(calls) = {Head(calls)} \cup Elements(t)
  BY <1>3, <1>4, Continued, Running
<1>10. \A y \in Elements(t) : Fits(y, calls) /\ y.do \notin {"link", "enter", "begin"}
  BY <1>3, Running DEF Before
<1>11. \A y \in Elements(t) : y.do = "drop" => y.on # w
  BY <1>3, Running DEF Before
<1> HIDE DEF l, w, t
<1>12. /\ DOMAIN conn' = DOMAIN conn \cup {n}
       /\ \A c \in DOMAIN conn : conn'[c] = conn[c] /\ c # n
       /\ conn'[n].from = w /\ conn'[n].to = l /\ conn'[n].on = SourceActive(w)
       /\ conn'[n] = [from |-> w, to |-> l, on |-> SourceActive(w)]
  BY <1>3, <1>7
<1>13. StackInv'
  <2>1. \A y \in Elements(t) : Fits(y, calls')
    BY <1>3, <1>9, <1>4, RestFits DEF t
  <2>2. \A y \in Elements(t) : Fits(y, calls)'
    <3> SUFFICES ASSUME NEW y \in Elements(t) PROVE Fits(y, calls)'
      OBVIOUS
    <3> QED BY <1>3, <1>8, <1>10, <1>12, <2>1 DEF Fits
  <2>3. \A y \in Elements(e) : Fits(y, calls)'
    <3> SUFFICES ASSUME NEW y \in Elements(e) PROVE Fits(y, calls)'
      OBVIOUS
    <3> QED BY <1>4 DEF Fits, Removal
  <2> QED BY <1>9, <2>2, <2>3 DEF StackInv
<1>14. GraphInv'
  <2>1. w \in Data /\ SourceActive(w) \in BOOLEAN
    BY <1>5, <1>6 DEF Data, SourceActive, GraphInv
  <2>2. DOMAIN conn' \subseteq Nat /\ IsFiniteSet(DOMAIN conn')
    BY <1>5, <1>7, <1>12, FS_AddElement DEF GraphInv
  <2>3. \A c \in DOMAIN conn' : conn'[c] \in [from : files \cup Live, to : Live, on : BOOLEAN]
    BY <1>5, <1>6, <1>12, <2>1 DEF GraphInv
  <2>4. \A c \in DOMAIN conn' : conn'[c].on = (conn'[c].from \in Files \/ active[conn'[c].from])
    BY <1>5, <1>12 DEF GraphInv, SourceActive
  <2>5. ASSUME NEW d \in Data
        PROVE  /\ outputs'[d] \in Seq(DOMAIN conn') /\ Distinct(outputs'[d])
               /\ Elements(outputs'[d]) = {c \in DOMAIN conn' : conn'[c].from = d}
    <3>1. /\ outputs[d] \in Seq(DOMAIN conn) /\ Distinct(outputs[d])
          /\ Elements(outputs[d]) = {c \in DOMAIN conn : conn[c].from = d}
      BY <1>5 DEF GraphInv
    <3>2. Elements(outputs[d]) \subseteq DOMAIN conn'
      BY <1>12, <3>1
    <3>3. outputs[d] \in Seq(DOMAIN conn')
      BY <3>1, <3>2, ElementsGrow
    <3>4. CASE d = w
      <4>1. outputs'[d] = Append(outputs[d], n)
        BY <1>3, <1>5, <3>4 DEF GraphInv
      <4>2. n \in DOMAIN conn' /\ n \notin Elements(outputs[d])
        BY <1>7, <1>12, <3>1
      <4>3. /\ outputs'[d] \in Seq(DOMAIN conn') /\ Distinct(outputs'[d])
            /\ Elements(outputs'[d]) = Elements(outputs[d]) \cup {n}
        BY <3>1, <3>3, <4>1, <4>2, ElementsAppend
      <4> QED BY <1>12, <3>1, <3>4, <4>3
    <3>5. CASE d # w
      <4>1. outputs'[d] = outputs[d]
        BY <1>3, <1>5, <3>5 DEF GraphInv
      <4> QED BY <1>12, <3>1, <3>3, <3>5, <4>1
    <3> QED BY <3>4, <3>5
  <2>6. outputs' \in [Data -> Seq(DOMAIN conn')]
    <3>1. outputs' = [d \in Data |-> outputs'[d]]
      BY <1>3, <1>5 DEF GraphInv
    <3> QED BY <2>5, <3>1
  <2> QED BY <1>3, <1>5, <1>8, <2>2, <2>3, <2>4, <2>5, <2>6 DEF GraphInv, SourceActive
<1>15. TasksInv'
  <2>1. \A k : Inputs(k)' = IF k = l THEN Inputs(k) \cup {n} ELSE Inputs(k)
    BY <1>12 DEF Inputs
  <2>2. \A k : Inputs(k) \subseteq DOMAIN conn
    BY DEF Inputs
  <2>3. \A k, g : Connected(g, k)' <=> (Connected(g, k) \/ (k = l /\ g = w))
    <3>1. \A k, g : Connected(g, k)' <=> \E c \in Inputs(k)' : conn'[c].from = g
      BY DEF Connected
    <3> QED BY <1>12, <2>1, <2>2, <3>1 DEF Connected
  <2>4. ASSUME NEW k \in Layers
        PROVE  layerTask'[k] = IF k = l /\ w \in Layers /\ active[w] THEN layerTask[k] \cup {w} ELSE layerTask[k]
    BY <1>3, <1>5, <1>6 DEF TasksInv, WithSource
  <2>5. \A k : ActiveInputs(k)' = IF k = l /\ w \in Live /\ active[w] THEN ActiveInputs(k) \cup {w} ELSE ActiveInputs(k)
    BY <1>3, <1>8, <2>3 DEF ActiveInputs
  <2>6. w \in Layers => w \in Live
    BY <1>5, <1>6
  <2>7. ASSUME NEW k \in Layers
        PROVE  layerTask'[k] \subseteq Layers /\ layerTask'[k] \subseteq ActiveInputs(k)'
    <3>1. layerTask[k] \subseteq Layers /\ layerTask[k] \subseteq ActiveInputs(k)
      BY <1>5 DEF TasksInv
    <3>2. PICK A : A = ActiveInputs(k)'
      OBVIOUS
    <3>3. A = IF k = l /\ w \in Live /\ active[w] THEN ActiveInputs(k) \cup {w} ELSE ActiveInputs(k)
      BY <2>5, <3>2
    <3>4. layerTask'[k] \subseteq A /\ layerTask'[k] \subseteq Layers
      BY <2>4, <2>6, <3>1, <3>3
    <3> QED BY <3>2, <3>4
  <2>8. ~Duplicates => \A k \in Layers : ActiveInputs(k)' \subseteq layerTask'[k]
    <3> SUFFICES ASSUME ~Duplicates, NEW k \in Layers PROVE ActiveInputs(k)' \subseteq layerTask'[k]
      OBVIOUS
    <3>1. ActiveInputs(k) \subseteq layerTask[k]
      BY <1>5 DEF TasksInv
    <3>2. PICK A : A = ActiveInputs(k)'
      OBVIOUS
    <3>3. A = IF k = l /\ w \in Live /\ active[w] THEN ActiveInputs(k) \cup {w} ELSE ActiveInputs(k)
      BY <2>5, <3>2
    <3>4. A \subseteq layerTask'[k]
      BY <1>5, <2>4, <3>1, <3>3
    <3> QED BY <3>2, <3>4
  <2>9. ~Duplicates => \A c, d \in DOMAIN conn' :
          conn'[c].from \in Layers /\ conn'[c].from = conn'[d].from /\ conn'[c].to = conn'[d].to => c = d
    <3> SUFFICES ASSUME ~Duplicates, NEW c \in DOMAIN conn', NEW d \in DOMAIN conn',
                        conn'[c].from \in Layers, conn'[c].from = conn'[d].from, conn'[c].to = conn'[d].to
                 PROVE  c = d
      OBVIOUS
    <3>1. CASE c = n /\ d # n
      BY <1>6, <1>12, <3>1 DEF Connected, Inputs
    <3>2. CASE c # n /\ d = n
      BY <1>6, <1>12, <3>2 DEF Connected, Inputs
    <3>3. CASE c # n /\ d # n
      <4>1. c \in DOMAIN conn /\ d \in DOMAIN conn /\ conn'[c] = conn[c] /\ conn'[d] = conn[d]
        BY <1>12, <3>3
      <4> QED BY <1>5, <4>1 DEF TasksInv
    <3> QED BY <3>1, <3>2, <3>3
  <2>10. layerTask' \in [Layers -> SUBSET Layers]
    <3>1. layerTask' = [k \in Layers |-> layerTask'[k]]
      BY <1>3, <1>5 DEF TasksInv
    <3> QED BY <2>7, <3>1
  <2>11. ASSUME NEW k \in Layers, NEW f \in Files
         PROVE  /\ fileTask'[k][f] = Cardinality({c \in Inputs(k)' : conn'[c].from = f})
                /\ fileTask'[k][f] \in Nat
    <3>1. fileTask[k][f] = Cardinality({c \in Inputs(k) : conn[c].from = f}) /\ fileTask[k][f] \in Nat
      BY <1>5 DEF TasksInv
    <3>2. IsFiniteSet({c \in Inputs(k) : conn[c].from = f})
      BY <1>5, FS_Subset DEF GraphInv, Inputs
    <3>3. CASE k = l /\ f = w
      <4>1. fileTask'[k][f] = fileTask[k][f] + 1
        BY <1>3, <1>5, <3>3 DEF TasksInv
      <4> DEFINE S == {c \in Inputs(k) : conn[c].from = f}
      <4>2. {c \in Inputs(k)' : conn'[c].from = f} = S \cup {n}
        BY <1>12, <2>1, <2>2, <3>3
      <4>3. n \notin S /\ IsFiniteSet(S) /\ fileTask[k][f] = Cardinality(S)
        BY <1>7, <2>2, <3>1, <3>2
      <4> HIDE DEF S
      <4>4. Cardinality(S \cup {n}) = Cardinality(S) + 1
        BY <4>3, FS_AddElement
      <4>5. fileTask'[k][f] = Cardinality(S \cup {n}) /\ fileTask'[k][f] \in Nat
        BY <3>1, <4>1, <4>3, <4>4
      <4> QED BY <4>2, <4>5
    <3>4. CASE ~(k = l /\ f = w)
      <4>1. fileTask'[k][f] = fileTask[k][f]
        BY <1>3, <1>5, <3>4 DEF TasksInv
      <4>2. {c \in Inputs(k)' : conn'[c].from = f} = {c \in Inputs(k) : conn[c].from = f}
        BY <1>12, <2>1, <2>2, <3>4
      <4> QED BY <3>1, <4>1, <4>2
    <3> QED BY <3>3, <3>4
  <2>12. fileTask' \in [Layers -> [Files -> Nat]]
    <3>1. fileTask \in [Layers -> [Files -> Nat]]
      BY <1>5 DEF TasksInv
    <3>2. CASE w \in Files
      <4>1. fileTask[l][w] + 1 \in Nat /\ l \in Layers
        BY <1>5, <1>6, <3>1, <3>2
      <4>2. fileTask' = [fileTask EXCEPT ![l] = [fileTask[l] EXCEPT ![w] = fileTask[l][w] + 1]]
        BY <1>3, <3>2
      <4>3. [fileTask[l] EXCEPT ![w] = fileTask[l][w] + 1] \in [Files -> Nat]
        BY <3>1, <4>1
      <4> QED BY <3>1, <4>1, <4>2, <4>3
    <3>3. CASE w \notin Files
      BY <1>3, <3>1, <3>3
    <3> QED BY <3>2, <3>3
  <2> QED BY <2>7, <2>8, <2>9, <2>10, <2>11, <2>12 DEF TasksInv
<1>16. DropInv'
  <2> SUFFICES ASSUME NEW x \in Elements(calls'), x.do = "drop", NEW k \in Live',
                      auto'[k], FedOnlyBy(k, x.on)'
               PROVE  Leaves(calls', k)
    BY DEF DropInv
  <2>1. x \in Elements(t) /\ x.on # w
    BY <1>4, <1>9, <1>11
  <2>2. MainInputs(k)' = MainInputs(k)
    <3>1. CASE k = l /\ w \in Files
      <4>1. n \in MainInputs(k)'
        BY <1>12, <3>1 DEF MainInputs, Inputs
      <4>2. w \in MainFiles(k)'
        BY <1>12, <4>1 DEF MainFiles
      <4> QED BY <2>1, <4>2 DEF FedOnlyBy
    <3>2. CASE ~(k = l /\ w \in Files)
      BY <1>12, <3>2 DEF MainInputs, Inputs
    <3> QED BY <3>1, <3>2
  <2>3. MainFiles(k)' = MainFiles(k)
    <3>1. MainInputs(k) \subseteq DOMAIN conn
      BY DEF MainInputs, Inputs
    <3> QED BY <1>12, <2>2, <3>1 DEF MainFiles
  <2>4. FedOnlyBy(k, x.on) /\ k \in Live /\ auto[k]
    BY <1>3, <1>8, <2>2, <2>3 DEF FedOnlyBy
  <2>5. Leaves(calls, k)
    BY <1>9, <2>1, <2>4 DEF IInv, DropInv
  <2> QED BY <1>3, <1>9, <2>5 DEF Leaves
<1>17. GroupsInv' /\ DefaultsInv'
  <2>1. GroupsInv'
    BY <1>3, <1>4, GroupsKept
  <2>2. DefaultsInv'
    BY <1>3, <1>4, <1>8, DefaultsKept
  <2> QED BY <2>1, <2>2
<1> QED BY <1>13, <1>14, <1>15, <1>16, <1>17 DEF IInv

(* What connections leave behind that are cut. *)
LEMMA CutConnections ==
  ASSUME IInv, NEW gone, gone \subseteq DOMAIN conn, Cut(gone), UNCHANGED made,
         files' \subseteq files, layers' \in Seq(Layers), Distinct(layers'), Live' \subseteq Live,
         active' \in [Layers -> BOOLEAN], auto' \in [Layers -> BOOLEAN],
         \A l \in Live' : active'[l] = active[l], \A l \in Layers : active'[l] => l \in Live',
         \A c \in DOMAIN conn \ gone : conn[c].from \in files' \cup Live' /\ conn[c].to \in Live'
  PROVE  /\ GraphInv' /\ TasksInv'
         /\ DOMAIN conn' = DOMAIN conn \ gone /\ \A c \in DOMAIN conn' : conn'[c] = conn[c]
<1>1. GraphInv /\ TasksInv /\ Live \subseteq Layers /\ files \subseteq Files /\ Files \cap Layers = {}
  BY DataAssumption DEF IInv, GraphInv
<1>2. DOMAIN conn' = DOMAIN conn \ gone /\ \A c \in DOMAIN conn' : conn'[c] = conn[c]
  BY DEF Cut
<1>3. GraphInv'
  <2>1. DOMAIN conn' \subseteq Nat /\ IsFiniteSet(DOMAIN conn')
    <3>1. DOMAIN conn \subseteq Nat /\ IsFiniteSet(DOMAIN conn)
      BY <1>1 DEF GraphInv
    <3>2. IsFiniteSet(DOMAIN conn \ gone)
      BY <3>1, FS_Difference
    <3> QED BY <1>2, <3>1, <3>2
  <2>2. \A c \in DOMAIN conn' : conn'[c] \in [from : files' \cup Live', to : Live', on : BOOLEAN]
    <3> SUFFICES ASSUME NEW c \in DOMAIN conn'
                 PROVE  conn'[c] \in [from : files' \cup Live', to : Live', on : BOOLEAN]
      OBVIOUS
    <3>1. conn[c] \in [from : files \cup Live, to : Live, on : BOOLEAN]
      BY <1>1, <1>2 DEF GraphInv
    <3>2. conn[c].from \in files' \cup Live' /\ conn[c].to \in Live' /\ conn'[c] = conn[c]
      BY <1>2
    <3> QED BY <3>1, <3>2
  <2>3. \A c \in DOMAIN conn' : conn'[c].on = (conn'[c].from \in Files \/ active'[conn'[c].from])
    <3> SUFFICES ASSUME NEW c \in DOMAIN conn'
                 PROVE  conn'[c].on = (conn'[c].from \in Files \/ active'[conn'[c].from])
      OBVIOUS
    <3>1. conn'[c] = conn[c] /\ conn[c].from \in files' \cup Live' /\ c \in DOMAIN conn
      BY <1>2
    <3>2. conn[c].on = (conn[c].from \in Files \/ active[conn[c].from])
      BY <1>1, <3>1 DEF GraphInv, SourceActive
    <3> QED BY <1>1, <3>1, <3>2
  <2>4. ASSUME NEW d \in Data
        PROVE  /\ outputs'[d] \in Seq(DOMAIN conn') /\ Distinct(outputs'[d])
               /\ Elements(outputs'[d]) = {c \in DOMAIN conn' : conn'[c].from = d}
    <3>1. /\ outputs[d] \in Seq(DOMAIN conn) /\ Distinct(outputs[d])
          /\ Elements(outputs[d]) = {c \in DOMAIN conn : conn[c].from = d}
      BY <1>1 DEF GraphInv
    <3> DEFINE K == DOMAIN conn \ gone
    <3>2. outputs'[d] = Only(outputs[d], K)
      BY DEF Cut, Unlisted
    <3> HIDE DEF K
    <3>3. /\ outputs'[d] \in Seq(DOMAIN conn \cap K) /\ Distinct(outputs'[d])
          /\ Elements(outputs'[d]) = Elements(outputs[d]) \cap K
      <4>1. PICK s : s = outputs[d]
        OBVIOUS
      <4>2. PICK A : A = DOMAIN conn
        OBVIOUS
      <4>3. s \in Seq(A) /\ Distinct(s)
        BY <3>1, <4>1, <4>2
      <4>4. Only(s, K) \in Seq(A \cap K) /\ Distinct(Only(s, K)) /\ Elements(Only(s, K)) = Elements(s) \cap K
        BY <4>3, OnlyElements
      <4> QED BY <3>2, <4>1, <4>2, <4>4
    <3>4. DOMAIN conn \cap K = DOMAIN conn'
      BY <1>2 DEF K
    <3>5. Elements(outputs'[d]) = {c \in DOMAIN conn' : conn'[c].from = d}
      BY <1>2, <3>1, <3>3 DEF K
    <3> QED BY <3>3, <3>4, <3>5
  <2>5. outputs' \in [Data -> Seq(DOMAIN conn')]
    <3>1. outputs' = [d \in Data |-> outputs'[d]]
      BY DEF Cut
    <3> QED BY <2>4, <3>1
  <2>6. Live' \subseteq made' /\ made' \subseteq Layers /\ files' \subseteq Files
    BY <1>1 DEF GraphInv
  <2> QED BY <2>1, <2>2, <2>3, <2>4, <2>5, <2>6 DEF GraphInv, SourceActive
<1>4. TasksInv'
  <2>1. \A k : Inputs(k)' = Inputs(k) \ gone
    BY <1>2 DEF Inputs
  <2>2. \A k, g : Connected(g, k)' <=> \E c \in Inputs(k) \ gone : conn[c].from = g
    <3>1. \A k, g : Connected(g, k)' <=> \E c \in Inputs(k)' : conn'[c].from = g
      BY DEF Connected
    <3>2. \A k : Inputs(k) \ gone \subseteq DOMAIN conn'
      BY <1>2 DEF Inputs
    <3> QED BY <1>2, <2>1, <3>1, <3>2
  <2>3. ASSUME NEW k \in Layers
        PROVE  layerTask'[k] = layerTask[k] \ {conn[c].from : c \in {j \in gone : conn[j].to = k /\ conn[j].on}}
    <3>1. {j \in {c \in gone : conn[c].to = k} : conn[j].on} = {j \in gone : conn[j].to = k /\ conn[j].on}
      OBVIOUS
    <3> QED BY <3>1 DEF Cut
  <2>4. ASSUME NEW k \in Layers, NEW g \in layerTask'[k] PROVE g \in Live' /\ active'[g] /\ Connected(g, k)'
    <3>1. g \in layerTask[k] /\ \A c \in gone : conn[c].to = k /\ conn[c].from = g => ~conn[c].on
      BY <2>3, <2>4
    <3>2. g \in Live /\ active[g] /\ Connected(g, k)
      BY <1>1, <3>1 DEF TasksInv, ActiveInputs
    <3>3. PICK c \in DOMAIN conn : conn[c].to = k /\ conn[c].from = g
      BY <3>2 DEF Connected, Inputs
    <3>4. conn[c].on
      BY <1>1, <3>2, <3>3 DEF GraphInv, SourceActive
    <3>5. c \in Inputs(k) \ gone
      BY <3>1, <3>3, <3>4 DEF Inputs
    <3>6. g \in Live'
      BY <1>1, <3>2, <3>3, <3>5
    <3> QED BY <2>2, <3>2, <3>3, <3>5, <3>6
  <2>5. \A k \in Layers : layerTask'[k] \subseteq Layers /\ layerTask'[k] \subseteq ActiveInputs(k)'
    BY <1>1, <2>4 DEF ActiveInputs
  <2>6. ~Duplicates => \A k \in Layers : ActiveInputs(k)' \subseteq layerTask'[k]
    <3> SUFFICES ASSUME ~Duplicates, NEW k \in Layers, NEW g \in ActiveInputs(k)' PROVE g \in layerTask'[k]
      OBVIOUS
    <3>1. g \in Live' /\ active'[g] /\ Connected(g, k)'
      BY DEF ActiveInputs
    <3>2. PICK c \in Inputs(k) \ gone : conn[c].from = g
      BY <2>2, <3>1
    <3>3. c \in DOMAIN conn /\ conn[c].to = k /\ g \in Live /\ active[g] /\ g \in Layers
      BY <1>1, <3>1, <3>2 DEF Inputs
    <3>4. g \in layerTask[k]
      <4>1. g \in ActiveInputs(k)
        BY <3>2, <3>3 DEF ActiveInputs, Connected
      <4> QED BY <1>1, <4>1 DEF TasksInv
    <3>5. \A j \in gone : conn[j].to = k => conn[j].from # g
      BY <1>1, <3>2, <3>3 DEF TasksInv
    <3> QED BY <2>3, <3>4, <3>5
  <2>7. ~Duplicates => \A c, d \in DOMAIN conn' :
          conn'[c].from \in Layers /\ conn'[c].from = conn'[d].from /\ conn'[c].to = conn'[d].to => c = d
    <3> SUFFICES ASSUME ~Duplicates, NEW c \in DOMAIN conn', NEW d \in DOMAIN conn',
                        conn'[c].from \in Layers, conn'[c].from = conn'[d].from, conn'[c].to = conn'[d].to
                 PROVE  c = d
      OBVIOUS
    <3>1. c \in DOMAIN conn /\ d \in DOMAIN conn /\ conn'[c] = conn[c] /\ conn'[d] = conn[d]
      BY <1>2
    <3> QED BY <1>1, <3>1 DEF TasksInv
  <2>8. layerTask' \in [Layers -> SUBSET Layers]
    <3>1. layerTask' = [k \in Layers |-> layerTask'[k]]
      BY DEF Cut
    <3> QED BY <2>5, <3>1
  <2>9. ASSUME NEW k \in Layers, NEW f \in Files
        PROVE  /\ fileTask'[k][f] = Cardinality({c \in Inputs(k)' : conn'[c].from = f})
               /\ fileTask'[k][f] \in Nat
    <3> DEFINE S == {c \in Inputs(k) : conn[c].from = f}
               G == {c \in {j \in gone : conn[j].to = k} : conn[c].from = f}
    <3>1. fileTask[k][f] = Cardinality(S)
      BY <1>1 DEF TasksInv
    <3>2. IsFiniteSet(S)
      BY <1>1, FS_Subset DEF GraphInv, Inputs
    <3>3. fileTask'[k][f] = fileTask[k][f] - Cardinality(G)
      BY DEF Cut
    <3>4. {c \in Inputs(k)' : conn'[c].from = f} = S \ G
      <4>1. Inputs(k) \ gone \subseteq DOMAIN conn'
        BY <1>2 DEF Inputs
      <4>2. {c \in Inputs(k)' : conn'[c].from = f} = {c \in Inputs(k) \ gone : conn[c].from = f}
        BY <1>2, <2>1, <4>1
      <4> QED BY <4>2 DEF Inputs
    <3>5. S \cap G = G
      BY DEF Inputs
    <3> HIDE DEF S, G
    <3>6. Cardinality(S \ G) = Cardinality(S) - Cardinality(G) /\ Cardinality(S \ G) \in Nat
      BY <3>2, <3>5, FS_Difference, FS_CardinalityType
    <3>7. fileTask'[k][f] = Cardinality(S \ G) /\ fileTask'[k][f] \in Nat
      BY <3>1, <3>3, <3>6
    <3> QED BY <3>4, <3>7
  <2>10. fileTask' \in [Layers -> [Files -> Nat]]
    <3>1. \A k \in Layers : fileTask'[k] = [f \in Files |-> fileTask'[k][f]]
      BY DEF Cut
    <3>2. \A k \in Layers : fileTask'[k] \in [Files -> Nat]
      BY <2>9, <3>1
    <3>3. fileTask' = [k \in Layers |-> fileTask'[k]]
      BY DEF Cut
    <3> QED BY <3>2, <3>3
  <2> QED BY <2>5, <2>6, <2>7, <2>8, <2>9, <2>10 DEF TasksInv
<1> QED BY <1>2, <1>3, <1>4

LEMMA DisconnectedStep == ASSUME IInv, Disconnected PROVE IInv'
<1> DEFINE k == Head(calls).on
           t == Tail(calls)
<1>1. PICK e : e = <<Signal>>
  OBVIOUS
<1>2. /\ calls # <<>> /\ Head(calls).do = "cut" /\ Continue(e) /\ Cut({k})
      /\ UNCHANGED <<files, layers, made, active, auto, defaults, nested, open, shown>>
  BY <1>1 DEF Disconnected, Doing, On
<1>3. /\ Stacked(e) /\ Tally(e, Ends) = 0 /\ Beginning(e) = 0
      /\ \A x \in Elements(e) : \A s : x.do = "signal" /\ Fits(x, s)
      /\ \A x \in Elements(e), y \in Elements(Tail(calls)) : Before(x, y)
  BY <1>1, <1>2, SignalOrNone, SignalFirst
<1>4. k \in DOMAIN conn /\ (Drops(calls) => conn[k].from \notin Files)
  BY <1>2, Running DEF Fits
<1>5. Live' = Live
  BY <1>2 DEF Live
<1>6. /\ Elements(calls') = Elements(e) \cup Elements(t) /\ Stacked(calls')
      /\ Elements(calls) = {Head(calls)} \cup Elements(t)
  BY <1>2, <1>3, Continued, Running
<1>7. \A y \in Elements(t) :
        Fits(y, calls) /\ y.do \notin {"link", "enter", "begin"} /\ (y.do = "cut" => y.on # k)
  BY <1>2, Running DEF Before
<1>8. /\ GraphInv' /\ TasksInv'
      /\ DOMAIN conn' = DOMAIN conn \ {k} /\ \A c \in DOMAIN conn' : conn'[c] = conn[c]
  <2>1. {k} \subseteq DOMAIN conn
    BY <1>4
  <2>2. GraphInv
    BY DEF IInv
  <2>3. /\ layers' \in Seq(Layers) /\ Distinct(layers') /\ active' \in [Layers -> BOOLEAN]
        /\ auto' \in [Layers -> BOOLEAN] /\ \A l \in Layers : active'[l] => l \in Live'
    BY <1>2, <1>5, <2>2 DEF GraphInv
  <2>4. \A c \in DOMAIN conn \ {k} : conn[c].from \in files' \cup Live' /\ conn[c].to \in Live'
    BY <1>2, <1>5, <2>2 DEF GraphInv
  <2> HIDE DEF k
  <2> QED BY <1>2, <1>5, <2>1, <2>3, <2>4, CutConnections
<1>9. StackInv'
  <2>1. \A y \in Elements(t) : Fits(y, calls')
    BY <1>2, <1>3, <1>6, RestFits
  <2> HIDE DEF k, t
  <2>2. \A y \in Elements(t) : Fits(y, calls)'
    <3> SUFFICES ASSUME NEW y \in Elements(t) PROVE Fits(y, calls)'
      OBVIOUS
    <3> QED BY <1>2, <1>5, <1>7, <1>8, <2>1 DEF Fits
  <2>3. \A y \in Elements(e) : Fits(y, calls)'
    <3> SUFFICES ASSUME NEW y \in Elements(e) PROVE Fits(y, calls)'
      OBVIOUS
    <3> QED BY <1>3 DEF Fits, Removal
  <2> QED BY <1>6, <2>2, <2>3 DEF StackInv
<1>10. DropInv'
  <2>1. ASSUME NEW x \in Elements(calls), x.do = "drop", NEW l \in Live', FedOnlyBy(l, x.on)'
        PROVE  FedOnlyBy(l, x.on)
    <3>1. conn[k].from \notin Files
      BY <1>4, <2>1 DEF Drops
    <3> HIDE DEF k
    <3>2. MainInputs(l)' = MainInputs(l) /\ MainInputs(l) \subseteq DOMAIN conn'
      BY <1>8, <3>1 DEF MainInputs, Inputs
    <3>3. MainFiles(l)' = MainFiles(l)
      BY <1>8, <3>2 DEF MainFiles
    <3> QED BY <2>1, <3>2, <3>3 DEF FedOnlyBy
  <2> QED BY <1>2, <1>3, <1>5, <2>1, DropsSettled
<1>11. GroupsInv' /\ DefaultsInv'
  <2>1. GroupsInv'
    BY <1>2, <1>3, GroupsKept
  <2>2. DefaultsInv'
    BY <1>2, <1>3, <1>5, DefaultsKept
  <2> QED BY <2>1, <2>2
<1> QED BY <1>8, <1>9, <1>10, <1>11 DEF IInv

LEMMA DropStep == ASSUME IInv, Drop PROVE IInv'
<1> DEFINE f == Head(calls).on
           t == Tail(calls)
           gone == CopiedOutputs(f)
<1>1. PICK e : e = <<>>
  OBVIOUS
<1>2. /\ calls # <<>> /\ Head(calls).do = "drop" /\ Continue(e) /\ Cut(gone) /\ files' = files \ {f}
      /\ UNCHANGED <<layers, made, active, auto, defaults, nested, open, shown>>
  BY <1>1 DEF Drop, Doing, On
<1>3. Stacked(e) /\ Tally(e, Ends) = 0 /\ Beginning(e) = 0 /\ Elements(e) = {}
  <2>1. Stacked(e) /\ Tally(e, Ends) = 0 /\ Elements(e) = {}
    BY <1>1, NoEntries
  <2> QED BY <2>1 DEF Beginning
<1>4. f \in files /\ files \subseteq Files /\ GraphInv
  BY <1>2, Running DEF Fits, IInv, GraphInv
<1>5. Live' = Live
  BY <1>2 DEF Live
<1>6. Elements(calls') = {} /\ Stacked(calls')
  <2>1. Elements(calls') = Elements(t) /\ Stacked(calls')
    BY <1>2, <1>3, Continued
  <2>2. \A y \in Elements(t) : FALSE
    BY <1>2, Running DEF Before
  <2> QED BY <2>1, <2>2
<1>7. gone = {c \in DOMAIN conn : conn[c].from = f}
  BY <1>4 DEF CopiedOutputs, GraphInv, Elements, Data
<1> HIDE DEF gone, f
<1>8. GraphInv' /\ TasksInv'
  <2>1. gone \subseteq DOMAIN conn
    BY <1>7
  <2>2. /\ layers' \in Seq(Layers) /\ Distinct(layers') /\ active' \in [Layers -> BOOLEAN]
        /\ auto' \in [Layers -> BOOLEAN] /\ \A l \in Layers : active'[l] => l \in Live'
    BY <1>2, <1>4, <1>5 DEF GraphInv
  <2>3. \A c \in DOMAIN conn \ gone : conn[c].from \in files' \cup Live' /\ conn[c].to \in Live'
    BY <1>2, <1>4, <1>5, <1>7 DEF GraphInv
  <2> QED BY <1>2, <1>5, <2>1, <2>2, <2>3, CutConnections
<1>9. StackInv' /\ DropInv'
  BY <1>6 DEF StackInv, DropInv
<1>10. GroupsInv' /\ DefaultsInv'
  <2>1. GroupsInv'
    BY <1>2, <1>3, GroupsKept
  <2>2. DefaultsInv'
    BY <1>2, <1>3, <1>5, DefaultsKept
  <2> QED BY <2>1, <2>2
<1> QED BY <1>8, <1>9, <1>10 DEF IInv

LEMMA DestroyStep == ASSUME IInv, Destroy PROVE IInv'
<1> DEFINE l == Head(calls).on
           t == Tail(calls)
           gone == Incident(l)
<1>1. PICK e : e = <<Signal>>
  OBVIOUS
<1>2. /\ calls # <<>> /\ Head(calls).do = "destroy" /\ Continue(e) /\ Cut(gone)
      /\ layers' = Only(layers, Live \ {l})
      /\ active' = [active EXCEPT ![l] = FALSE] /\ auto' = [auto EXCEPT ![l] = FALSE]
      /\ UNCHANGED <<files, made, defaults, nested, open, shown>>
  BY <1>1 DEF Destroy, Doing, On
<1>3. /\ Stacked(e) /\ Tally(e, Ends) = 0 /\ Beginning(e) = 0
      /\ \A x \in Elements(e) : \A s : x.do = "signal" /\ Fits(x, s)
      /\ \A x \in Elements(e), y \in Elements(Tail(calls)) : Before(x, y)
  BY <1>1, <1>2, SignalOrNone, SignalFirst
<1>4. l \in Live /\ Live \subseteq Layers /\ GraphInv /\ Head(calls) \in Elements(calls)
  BY <1>2, Running DEF Fits, Removal, IInv, GraphInv
<1>5. gone = {c \in DOMAIN conn : conn[c].to = l \/ conn[c].from = l}
  <2>1. CopiedOutputs(l) = {c \in DOMAIN conn : conn[c].from = l}
    BY <1>4 DEF CopiedOutputs, GraphInv, Elements, Data
  <2> QED BY <2>1 DEF Incident, Inputs
<1> HIDE DEF gone
<1>6. layers' \in Seq(Layers) /\ Distinct(layers') /\ Live' = Live \ {l}
  <2>1. Live = Elements(layers) /\ Live' = Elements(layers') /\ layers \in Seq(Layers) /\ Distinct(layers)
    BY <1>4 DEF Live, Elements, GraphInv
  <2>2. PICK K : K = Live \ {l}
    OBVIOUS
  <2>3. layers' \in Seq(Layers \cap K) /\ Elements(layers') = Elements(layers) \cap K /\ Distinct(layers')
    BY <1>2, <2>1, <2>2, OnlyElements
  <2>4. Elements(layers') \subseteq Layers
    BY <1>4, <2>1, <2>3
  <2>5. layers' \in Seq(Layers)
    BY <2>3, <2>4, ElementsGrow
  <2> QED BY <2>1, <2>2, <2>3, <2>5
<1>7. /\ Elements(calls') = Elements(e) \cup Elements(t) /\ Stacked(calls')
      /\ Elements(calls) = {Head(calls)} \cup Elements(t)
  BY <1>2, <1>3, Continued, Running
<1>8. \A y \in Elements(t) : /\ y \in Entries /\ Fits(y, calls)
                             /\ y.do \notin Additive \cup {"default", "link", "begin", "activate", "cut"}
                             /\ y.do \in Removal => y.on # l
  BY <1>2, Running DEF Before, Additive, Subtractive, Removal
<1>9. /\ active' \in [Layers -> BOOLEAN] /\ auto' \in [Layers -> BOOLEAN]
      /\ \A k \in Live' : active'[k] = active[k] /\ auto'[k] = auto[k]
      /\ \A k \in Layers : active'[k] => k \in Live'
  BY <1>2, <1>4, <1>6 DEF GraphInv
<1> HIDE DEF l, t
<1>10. /\ GraphInv' /\ TasksInv'
       /\ DOMAIN conn' = DOMAIN conn \ gone /\ \A c \in DOMAIN conn' : conn'[c] = conn[c]
  <2>1. gone \subseteq DOMAIN conn
    BY <1>5
  <2>2. \A c \in DOMAIN conn \ gone : conn[c].from \in files' \cup Live' /\ conn[c].to \in Live'
    BY <1>2, <1>4, <1>5, <1>6 DEF GraphInv
  <2>3. Live' \subseteq Live /\ files' \subseteq files
    BY <1>2, <1>6
  <2> QED BY <1>2, <1>6, <1>9, <2>1, <2>2, <2>3, CutConnections
<1>11. StackInv'
  <2>1. \A y \in Elements(t) : Fits(y, calls)'
    <3> SUFFICES ASSUME NEW y \in Elements(t) PROVE Fits(y, calls)'
      OBVIOUS
    <3> QED BY <1>2, <1>6, <1>8 DEF Fits, Removal, Additive
  <2>2. \A y \in Elements(e) : Fits(y, calls)'
    <3> SUFFICES ASSUME NEW y \in Elements(e) PROVE Fits(y, calls)'
      OBVIOUS
    <3> QED BY <1>3 DEF Fits, Removal
  <2> QED BY <1>7, <2>1, <2>2 DEF StackInv
<1>12. DropInv'
  <2>1. ASSUME NEW x \in Elements(calls), x.do = "drop", NEW k \in Live', FedOnlyBy(k, x.on)'
        PROVE  FedOnlyBy(k, x.on)
    <3>1. k # l /\ l \notin Files
      BY <1>4, <1>6, DataAssumption
    <3>2. MainInputs(k)' = MainInputs(k) /\ MainInputs(k) \subseteq DOMAIN conn'
      BY <1>5, <1>10, <3>1 DEF MainInputs, Inputs
    <3>3. MainFiles(k)' = MainFiles(k)
      BY <1>10, <3>2 DEF MainFiles
    <3> QED BY <2>1, <3>2, <3>3 DEF FedOnlyBy
  <2>2. Live' \subseteq Live /\ \A k \in Live' : auto'[k] = auto[k]
    BY <1>6, <1>9
  <2> QED BY <1>2, <1>3, <1>6, <2>1, <2>2, DropsSettled DEF l
<1>13. GroupsInv'
  BY <1>2, <1>3, GroupsKept
<1>14. DefaultsInv'
  <2>1. /\ defaults \in Seq(Rotations) /\ Elements(defaults) \subseteq Live /\ shown = Top(defaults)
        /\ \A x \in Elements(calls) :
             x.do = "destroy" /\ x.on \in Elements(defaults) => Has(calls, "forget", x.on)
    BY DEF IInv, DefaultsInv
  <2>2. ~Has(calls, "forget", l)
    BY <1>2, <1>7, <1>8 DEF Has, Removal
  <2>3. l \notin Elements(defaults)
    BY <1>2, <1>4, <2>1, <2>2 DEF l
  <2>4. \A x \in Elements(calls') :
          x.do = "destroy" /\ x.on \in Elements(defaults) => Has(calls', "forget", x.on)
    <3> SUFFICES ASSUME NEW x \in Elements(calls'), x.do = "destroy", x.on \in Elements(defaults)
                 PROVE  Has(calls', "forget", x.on)
      OBVIOUS
    <3>1. x \in Elements(calls) /\ Has(calls, "forget", x.on)
      BY <1>3, <1>7, <2>1
    <3> QED BY <1>2, <1>7, <3>1 DEF Has
  <2> QED BY <1>2, <1>6, <2>1, <2>3, <2>4 DEF DefaultsInv, Top
<1> QED BY <1>10, <1>11, <1>12, <1>13, <1>14 DEF IInv
-----------------------------------------------------------------------------
LEMMA Initially == Init => IInv
<1> SUFFICES ASSUME Init PROVE IInv
  OBVIOUS
<1>1. /\ files = {} /\ layers = <<>> /\ made = {}
      /\ active = [l \in Layers |-> FALSE] /\ auto = [l \in Layers |-> FALSE]
      /\ conn = <<>> /\ outputs = [d \in Data |-> <<>>]
      /\ fileTask = [l \in Layers |-> [f \in Files |-> 0]]
      /\ layerTask = [l \in Layers |-> {}]
      /\ defaults = <<>> /\ nested = 0 /\ calls = <<>> /\ open = 0 /\ shown = {}
  BY DEF Init
<1>2. Live = {} /\ DOMAIN conn = {} /\ layers \in Seq(Layers) /\ defaults \in Seq(Rotations)
  BY <1>1 DEF Live
<1>3. Elements(calls) = {} /\ Stacked(calls) /\ Tally(calls, Ends) = 0
  BY <1>1, NoEntries
<1>4. StackInv
  BY <1>3 DEF StackInv
<1>5. GraphInv
  <2>1. Distinct(layers)
    BY <1>1, ElementsEmpty
  <2>2. \A d \in Data : Distinct(outputs[d]) /\ Elements(outputs[d]) = {} /\ outputs[d] \in Seq(DOMAIN conn)
    BY <1>1, ElementsEmpty
  <2>3. outputs \in [Data -> Seq(DOMAIN conn)]
    <3>1. outputs = [d \in Data |-> outputs[d]]
      BY <1>1
    <3> QED BY <2>2, <3>1
  <2>4. IsFiniteSet(DOMAIN conn)
    BY <1>2, FS_EmptySet
  <2> QED BY <1>1, <1>2, <2>1, <2>2, <2>3, <2>4 DEF GraphInv
<1>6. TasksInv
  <2>1. \A l : Inputs(l) = {} /\ ActiveInputs(l) = {}
    BY <1>2 DEF Inputs, ActiveInputs
  <2>2. \A f : {c \in {} : conn[c].from = f} = {}
    OBVIOUS
  <2>3. \A l \in Layers, f \in Files : fileTask[l][f] = Cardinality({c \in Inputs(l) : conn[c].from = f})
    BY <1>1, <2>1, <2>2, FS_EmptySet
  <2>4. fileTask \in [Layers -> [Files -> Nat]] /\ layerTask \in [Layers -> SUBSET Layers]
    BY <1>1
  <2> QED BY <1>1, <1>2, <2>1, <2>3, <2>4 DEF TasksInv
<1>7. DefaultsInv
  BY <1>1, <1>2, <1>3, ElementsEmpty DEF DefaultsInv, Top
<1>8. GroupsInv /\ DropInv
  BY <1>1, <1>3 DEF GroupsInv, DropInv
<1> QED BY <1>4, <1>5, <1>6, <1>7, <1>8 DEF IInv

LEMMA Stuttering == ASSUME IInv, UNCHANGED vars PROVE IInv'
<1>1. UNCHANGED <<files, layers, made, active, auto, conn, outputs, fileTask, layerTask, defaults, nested,
                  calls, open, shown>>
  BY DEF vars, graph, tasks
<1>2. Live' = Live
  BY <1>1 DEF Live
<1>3. \A l : Inputs(l)' = Inputs(l) /\ ActiveInputs(l)' = ActiveInputs(l)
  BY <1>1, <1>2 DEF Inputs, ActiveInputs, Connected
<1>4. StackInv'
  <2>1. \A x \in Elements(calls') : Fits(x, calls)'
    BY <1>1, <1>2 DEF IInv, StackInv, Fits, Connected, Inputs
  <2> QED BY <1>1, <2>1 DEF IInv, StackInv
<1>5. GraphInv'
  BY <1>1, <1>2 DEF IInv, GraphInv, SourceActive
<1>6. TasksInv'
  BY <1>1, <1>2, <1>3 DEF IInv, TasksInv
<1>7. DefaultsInv' /\ GroupsInv'
  BY <1>1, <1>2 DEF IInv, DefaultsInv, GroupsInv, Top
<1>8. DropInv'
  BY <1>1, <1>2 DEF IInv, DropInv, FedOnlyBy, MainInputs, MainFiles, Inputs
<1> QED BY <1>4, <1>5, <1>6, <1>7, <1>8 DEF IInv

LEMMA Preserved == IInv /\ [Next]_vars => IInv'
<1> SUFFICES ASSUME IInv, [Next]_vars PROVE IInv'
  OBVIOUS
<1>1. ASSUME NEW f \in Files, NEW content \in Contents, ModifyFile(f, content) \/ AddFile(f, content) PROVE IInv'
  BY <1>1, ModifyFileStep, AddFileStep
<1>2. ASSUME NEW f \in Files, NEW g \in Files, NEW content \in Contents, NEW other \in Contents,
             AddFiles(f, g, content, other)
      PROVE  IInv'
  BY <1>2, AddFilesStep
<1>3. ASSUME NEW f \in Files, RemoveFile(f) \/ \E l \in Live : ConnectFile(f, l) PROVE IInv'
  BY <1>3, RemoveFileStep, ConnectFileStep
<1>4. ASSUME NEW t \in UNION Contents, AddLayer(t) PROVE IInv'
  BY <1>4, AddLayerStep
<1>5. ASSUME NEW k \in Live, NEW l \in Live, RemoveLayers(IF k = l THEN <<k>> ELSE <<k, l>>) PROVE IInv'
  BY <1>5, RemoveLayersStep
<1>6. ASSUME NEW l \in Live, SetDefault(l) \/ \E on \in BOOLEAN : Activate(l, on) PROVE IInv'
  BY <1>6, SetDefaultStep, ActivateStep
<1>7. ASSUME NEW g \in Live, NEW l \in Live, ConnectLayer(g, l) PROVE IInv'
  BY <1>7, ConnectLayerStep
<1>8. ASSUME NEW c \in DOMAIN conn, Disconnect(c) PROVE IInv'
  BY <1>8, DisconnectStep
<1>9. CASE Return \/ Enter \/ Begin \/ Count \/ End \/ Create \/ Make \/ Adopt \/ ConnectAll \/ AutoLink \/ Link
  BY <1>9, ReturnStep, EnterStep, BeginStep, CountStep, EndStep, CreateStep, MakeStep, AdoptStep,
     ConnectAllStep, AutoLinkStep, LinkStep
<1>10. CASE Disconnected \/ Drop \/ Activated \/ Default \/ Remove \/ Forget \/ Destroy
  BY <1>10, DisconnectedStep, DropStep, ActivatedStep, DefaultStep, RemoveStep, ForgetStep, DestroyStep
<1>11. CASE UNCHANGED vars
  BY <1>11, Stuttering
<1> QED BY <1>1, <1>2, <1>3, <1>4, <1>5, <1>6, <1>7, <1>8, <1>9, <1>10, <1>11 DEF Next

LEMMA Invariant == Spec => []IInv
<1>1. Init => IInv
  BY Initially
<1>2. IInv /\ [Next]_vars => IInv'
  BY Preserved
<1> QED BY <1>1, <1>2, PTL DEF Spec
-----------------------------------------------------------------------------
(* The graph, the tasks and the call stack keep their types. *)
THEOREM TypesKept == Spec => []TypeOK
<1>1. IInv => TypeOK
  <2> SUFFICES ASSUME IInv PROVE TypeOK
    OBVIOUS
  <2>1. GraphInv /\ TasksInv /\ Live \subseteq Layers
    BY DEF IInv, GraphInv
  <2>2. layers \in Seq(made) /\ Cardinality(Live) = Len(layers)
    <3>1. Live = Elements(layers)
      BY DEF Live, Elements
    <3> QED BY <2>1, <3>1, ElementsGrow, ElementsCounted DEF GraphInv
  <2>3. layerTask \in [Layers -> SUBSET Live]
    <3>1. \A l \in Layers : layerTask[l] \subseteq Live
      BY <2>1 DEF TasksInv, ActiveInputs
    <3> QED BY <2>1, <3>1 DEF TasksInv
  <2>4. calls \in Seq(Entries) /\ defaults \in Seq(Rotations) /\ nested \in Nat
    BY DEF IInv, StackInv, Stacked, DefaultsInv, GroupsInv
  <2>5. fileTask \in [Layers -> [Files -> Nat]]
    BY <2>1 DEF TasksInv
  <2>6. /\ files \subseteq Files /\ made \subseteq Layers
        /\ active \in [Layers -> BOOLEAN] /\ auto \in [Layers -> BOOLEAN]
        /\ \A c \in DOMAIN conn : conn[c] \in [from : files \cup Live, to : Live, on : BOOLEAN]
        /\ outputs \in [Data -> Seq(DOMAIN conn)]
    BY <2>1 DEF GraphInv
  <2> QED BY <2>2, <2>3, <2>4, <2>5, <2>6 DEF TypeOK
<1> QED BY <1>1, Invariant, PTL

(* Every connection is in the list of outputs of the file or layer that it *)
(* comes from, once, and in no other list.                                 *)
THEOREM OutputsCorrect == Spec => []OutputsMatchConnections
<1>1. IInv => OutputsMatchConnections
  <2> SUFFICES ASSUME IInv, NEW d \in Data
               PROVE  /\ {outputs[d][i] : i \in DOMAIN outputs[d]} = {c \in DOMAIN conn : conn[c].from = d}
                      /\ Len(outputs[d]) = Cardinality({c \in DOMAIN conn : conn[c].from = d})
    BY DEF OutputsMatchConnections
  <2>1. /\ outputs[d] \in Seq(DOMAIN conn) /\ Distinct(outputs[d])
        /\ Elements(outputs[d]) = {c \in DOMAIN conn : conn[c].from = d}
    BY DEF IInv, GraphInv
  <2>2. Len(outputs[d]) = Cardinality(Elements(outputs[d]))
    BY <2>1, ElementsCounted
  <2> QED BY <2>1, <2>2 DEF Elements
<1> QED BY <1>1, Invariant, PTL

(* The assertions of the code hold: a connection does not know yet of the  *)
(* activation it is told, what is to be removed or cut still exists.       *)
THEOREM AssertionsCorrect == Spec => []AssertionsHold
<1>1. IInv => AssertionsHold
  <2> SUFFICES ASSUME IInv PROVE AssertionsHold
    OBVIOUS
  <2>1. calls # <<>> => Fits(Head(calls), calls)
    BY Running
  <2>2. Doing("remove") => On \in Live
    BY <2>1 DEF Doing, On, Fits, Removal
  <2>3. Doing("cut") => On \in DOMAIN conn
    BY <2>1 DEF Doing, On, Fits
  <2>4. ASSUME Doing("activate"), active[On] # With, NEW i \in DOMAIN outputs[On]
        PROVE  conn[outputs[On][i]].on # With
    <3>1. On \in Live /\ Live \subseteq Layers
      BY <2>1, <2>4 DEF Doing, On, Fits, IInv, GraphInv
    <3>2. outputs[On][i] \in {c \in DOMAIN conn : conn[c].from = On}
      BY <3>1 DEF IInv, GraphInv, Elements, Data
    <3>3. conn[outputs[On][i]].on = active[On]
      BY <3>1, <3>2, DataAssumption DEF IInv, GraphInv, SourceActive
    <3> QED BY <2>4, <3>3
  <2> QED BY <2>2, <2>3, <2>4 DEF AssertionsHold
<1> QED BY <1>1, Invariant, PTL

(* The task of a layer has each file as often as it is connected, and the  *)
(* layers connected to it that are active: where no two connections feed   *)
(* the same channel of a layer from the same layer.                        *)
THEOREM TasksCorrect == ASSUME ~Duplicates PROVE Spec => []TasksKnowInputs
<1>1. IInv => TasksKnowInputs
  BY DEF IInv, TasksInv, TasksKnowInputs, ActiveInputs
<1> QED BY <1>1, Invariant, PTL

(* Only layers that exist are on the stack of defaults, and listeners know *)
(* the one on top of it.                                                   *)
THEOREM DefaultsCorrect == Spec => []DefaultsExist
<1>1. IInv => DefaultsExist
  BY DEF IInv, DefaultsInv, DefaultsExist, Elements
<1> QED BY <1>1, Invariant, PTL

(* Layers are added and removed inside one group that listeners know of,   *)
(* and none is left open.                                                  *)
THEOREM GroupsCorrect == Spec => []GroupsNest
<1>1. IInv => GroupsNest
  <2> SUFFICES ASSUME IInv PROVE GroupsNest
    OBVIOUS
  <2>1. /\ nested \in Nat /\ open = IF nested > 0 THEN 1 ELSE 0
        /\ nested + Beginning(calls) = Tally(calls, Ends) /\ Beginning(calls) \in {0, 1}
    BY DEF IInv, GroupsInv, Beginning
  <2>2. Outside => open = 0
    <3>1. Outside => Tally(calls, Ends) = 0
      BY NoEntries DEF Outside
    <3> QED BY <2>1, <3>1
  <2>3. ASSUME Doing("make") \/ Doing("destroy") PROVE open = 1
    <3>1. calls # <<>> /\ Head(calls).do \in {"make", "destroy"} /\ Stacked(calls)
      BY <2>3 DEF Doing, IInv, StackInv
    <3>2. /\ Elements(calls) = {Head(calls)} \cup Elements(Tail(calls)) /\ Elements(calls) \subseteq Entries
          /\ \A y \in Elements(Tail(calls)) : Before(Head(calls), y)
          /\ \E y \in Elements(Tail(calls)) : y.do = "end"
      BY <3>1, TheCall
    <3>3. Beginning(calls) = 0
      BY <3>1, <3>2 DEF Beginning, Before
    <3>4. calls \in Seq(Entries) /\ Tally(calls, Ends) # 0
      <4>1. calls \in Seq(Entries)
        BY <3>1 DEF Stacked
      <4>2. \E y \in Elements(calls) : y \in Ends
        BY <3>2 DEF Ends
      <4> QED BY <4>1, <4>2, TallyZero
    <3> QED BY <2>1, <3>3, <3>4
  <2> QED BY <2>1, <2>2, <2>3 DEF GroupsNest
<1> QED BY <1>1, Invariant, PTL
-----------------------------------------------------------------------------
(* Files are kept until they are dropped. *)
LEMMA FilesStay ==
  ASSUME Next, ~Drop
  PROVE  files \subseteq files'
<1> USE DEF Start, Continue, graph, tasks
<1>1. ASSUME NEW f \in Files, NEW content \in Contents, ModifyFile(f, content) \/ AddFile(f, content)
      PROVE  files' = files
  BY <1>1 DEF ModifyFile, AddFile
<1>2. ASSUME NEW f \in Files, NEW g \in Files, NEW content \in Contents, NEW other \in Contents,
             AddFiles(f, g, content, other)
      PROVE  files' = files
  BY <1>2 DEF AddFiles
<1>3. ASSUME NEW f \in Files, RemoveFile(f) \/ \E l \in Live : ConnectFile(f, l) PROVE files' = files
  BY <1>3 DEF RemoveFile, ConnectFile
<1>4. ASSUME NEW t \in UNION Contents, AddLayer(t) PROVE files' = files
  BY <1>4 DEF AddLayer
<1>5. ASSUME NEW k \in Live, NEW l \in Live, RemoveLayers(IF k = l THEN <<k>> ELSE <<k, l>>) PROVE files' = files
  BY <1>5 DEF RemoveLayers
<1>6. ASSUME NEW l \in Live, SetDefault(l) \/ \E on \in BOOLEAN : Activate(l, on) PROVE files' = files
  BY <1>6 DEF SetDefault, Activate
<1>7. ASSUME NEW g \in Live, NEW l \in Live, ConnectLayer(g, l) PROVE files' = files
  BY <1>7 DEF ConnectLayer
<1>8. ASSUME NEW c \in DOMAIN conn, Disconnect(c) PROVE files' = files
  BY <1>8 DEF Disconnect
<1>9. CASE Enter
  BY <1>9 DEF Enter
<1>10. ASSUME Return \/ Begin \/ Count \/ End \/ Create \/ Make \/ Adopt \/ ConnectAll \/ AutoLink \/ Link
       PROVE  files' = files
  <2>1. CASE Return \/ Begin \/ Count \/ End \/ Make \/ Adopt \/ Link
    BY <2>1 DEF Return, Begin, Count, End, Make, Adopt, Link
  <2>2. CASE Create
    BY <2>2 DEF Create
  <2>3. CASE ConnectAll
    BY <2>3 DEF ConnectAll
  <2>4. CASE AutoLink
    BY <2>4 DEF AutoLink
  <2> QED BY <1>10, <2>1, <2>2, <2>3, <2>4
<1>11. CASE Disconnected \/ Activated \/ Default \/ Remove \/ Forget \/ Destroy
  BY <1>11 DEF Disconnected, Activated, Default, Remove, Forget, Destroy
<1> QED BY <1>1, <1>2, <1>3, <1>4, <1>5, <1>6, <1>7, <1>8, <1>9, <1>10, <1>11 DEF Next

(* A layer created for a file goes with it, unless the file is not the     *)
(* only input of its main channel when the file is disconnected.           *)
THEOREM LayersGoWithFiles == Spec => AutoLayersGoWithFile
<1> DEFINE Going == \A f \in files \ files' : \A l \in Live :
                      auto[l] /\ f \in MainFiles(l) => Cardinality(MainInputs(l)) > 1
<1>1. ASSUME IInv, Next PROVE Going
  <2>1. CASE ~Drop
    BY <1>1, <2>1, FilesStay
  <2>2. ASSUME Drop, NEW f \in files \ files', NEW l \in Live, auto[l], f \in MainFiles(l)
        PROVE  Cardinality(MainInputs(l)) > 1
    <3>1. /\ calls # <<>> /\ Head(calls).do = "drop" /\ f = Head(calls).on
          /\ Head(calls) \in Elements(calls)
          /\ \A y \in Elements(calls) : y = Head(calls) \/ y \in Elements(Tail(calls))
      BY <1>1, <2>2, Running DEF Drop, Doing, On
    <3>2. ~Leaves(calls, l)
      BY <1>1, <3>1, Running DEF Leaves, Before
    <3>3. ~FedOnlyBy(l, f)
      BY <1>1, <2>2, <3>1, <3>2 DEF IInv, DropInv
    <3>4. IsFiniteSet(MainInputs(l))
      BY <1>1, FS_Subset DEF IInv, GraphInv, MainInputs, Inputs
    <3>5. Cardinality(MainInputs(l)) \in Nat /\ Cardinality(MainInputs(l)) # 0
      BY <2>2, <3>4, FS_CardinalityType, FS_EmptySet DEF MainFiles
    <3>6. ASSUME Cardinality(MainInputs(l)) = 1 PROVE FALSE
      <4>1. PICK x : MainInputs(l) = {x}
        BY <3>4, <3>6, FS_Singleton
      <4>2. MainFiles(l) = {f}
        BY <2>2, <4>1 DEF MainFiles
      <4> QED BY <3>3, <3>6, <4>2 DEF FedOnlyBy
    <3> QED BY <3>5, <3>6
  <2> QED BY <2>1, <2>2
<1>2. ASSUME UNCHANGED vars PROVE Going
  BY <1>2 DEF vars, graph
<1>3. IInv /\ [Next]_vars => [Going]_vars
  BY <1>1, <1>2
<1> QED BY <1>3, Invariant, PTL DEF Spec, AutoLayersGoWithFile
-----------------------------------------------------------------------------
(* The graph as LayerGraph sees it. *)
Present == files \cup Live
Switched == {l \in Live : active[l]}
Feeds == {<<c, conn[c].from, conn[c].to>> : c \in DOMAIN conn}
Uses == [l \in Layers |-> {f \in Files : fileTask[l][f] > 0} \cup layerTask[l]]
Used(l) == {e[2] : e \in {x \in Feeds : x[3] = l /\ (x[2] \in Switched \/ x[2] \in Files)}}

UsesInputs == ~Duplicates => Uses = [l \in Layers |-> Used(l)]

LEMMA InputsUsed == IInv => UsesInputs
<1> SUFFICES ASSUME IInv, ~Duplicates, NEW l \in Layers
             PROVE  {f \in Files : fileTask[l][f] > 0} \cup layerTask[l] = Used(l)
  BY DEF Uses, UsesInputs
<1>1. GraphInv /\ TasksInv
  BY DEF IInv
<1>2. \A d : d \in Used(l) <=>
        \E c \in DOMAIN conn : conn[c].to = l /\ conn[c].from = d /\ (d \in Switched \/ d \in Files)
  <2>1. \A d : d \in Used(l) <=>
          \E x \in Feeds : x[3] = l /\ x[2] = d /\ (x[2] \in Switched \/ x[2] \in Files)
    BY DEF Used
  <2>2. \A x \in Feeds : \E c \in DOMAIN conn : x[2] = conn[c].from /\ x[3] = conn[c].to
    BY DEF Feeds
  <2>3. ASSUME NEW c \in DOMAIN conn PROVE \E x \in Feeds : x[2] = conn[c].from /\ x[3] = conn[c].to
    <3>1. <<c, conn[c].from, conn[c].to>> \in Feeds
      BY DEF Feeds
    <3> QED BY <3>1
  <2> QED BY <2>1, <2>2, <2>3
<1>3. ASSUME NEW f \in Files
      PROVE  fileTask[l][f] > 0 <=> \E c \in DOMAIN conn : conn[c].to = l /\ conn[c].from = f
  <2> DEFINE C == {c \in Inputs(l) : conn[c].from = f}
  <2>1. IsFiniteSet(C)
    BY <1>1, FS_Subset DEF GraphInv, Inputs
  <2>2. fileTask[l][f] = Cardinality(C)
    BY <1>1 DEF TasksInv
  <2>3. Cardinality(C) \in Nat /\ (Cardinality(C) = 0 <=> C = {})
    BY <2>1, FS_CardinalityType, FS_EmptySet
  <2>4. C # {} <=> \E c \in DOMAIN conn : conn[c].to = l /\ conn[c].from = f
    BY DEF Inputs
  <2> QED BY <2>2, <2>3, <2>4
<1>4. layerTask[l] = {g \in Live : active[g] /\ Connected(g, l)}
  BY <1>1 DEF TasksInv, ActiveInputs
<1>5. \A g : g \in layerTask[l] <=> g \in Switched /\ \E c \in DOMAIN conn : conn[c].to = l /\ conn[c].from = g
  BY <1>4 DEF Switched, Connected, Inputs
<1> QED BY <1>2, <1>3, <1>5

LEMMA FeedsCounted == ASSUME GraphInv PROVE Cardinality(Feeds) = Cardinality(DOMAIN conn)
<1> DEFINE b == [c \in DOMAIN conn |-> <<c, conn[c].from, conn[c].to>>]
<1>1. b \in [DOMAIN conn -> Feeds] /\ \A x, y \in DOMAIN conn : b[x] = b[y] => x = y
  BY DEF Feeds
<1>2. \A e \in Feeds : \E c \in DOMAIN conn : b[c] = e
  BY DEF Feeds
<1>3. b \in Bijection(DOMAIN conn, Feeds)
  BY <1>1, <1>2 DEF Bijection, Injection, Surjection, IsInjective
<1>4. ExistsBijection(DOMAIN conn, Feeds)
  BY <1>3 DEF ExistsBijection
<1> QED BY <1>4, FS_Bijection DEF GraphInv

(* What a step may do to files, layers and connections. *)
Added(n) == /\ n \in Data \ Present /\ Present' = Present \cup {n}
            /\ Switched' = (IF n \in Layers THEN Switched \cup {n} ELSE Switched)
            /\ Feeds' = Feeds
Removed(n) == /\ n \in Present /\ Present' = Present \ {n} /\ Switched' = Switched \ {n}
              /\ Feeds' = {e \in Feeds : n # e[2] /\ n # e[3]}
Turned(l) == /\ l \in Live /\ Switched' = (IF l \in Switched THEN Switched \ {l} ELSE Switched \cup {l})
             /\ Present' = Present /\ Feeds' = Feeds
Fed(d, l) == /\ d \in Present /\ l \in Live /\ Present' = Present /\ Switched' = Switched
             /\ \E i \in 1..(Cardinality(Feeds) + 1) : Feeds' = Feeds \cup {<<i, d, l>>}
Unfed(e) == /\ e \in Feeds /\ Present' = Present /\ Switched' = Switched /\ Feeds' = Feeds \ {e}
Same == Present' = Present /\ Switched' = Switched /\ Feeds' = Feeds

LEMMA EnterAdds == ASSUME IInv, Enter PROVE Added(Head(calls).on)
<1> DEFINE f == Head(calls).on
<1>1. /\ calls # <<>> /\ Head(calls).do = "enter" /\ files' = files \cup {f}
      /\ UNCHANGED <<layers, active, conn>>
  BY DEF Enter, Doing, On, Continue
<1>2. f \in Files \ files /\ Live \subseteq Layers
  BY <1>1, Running DEF Fits, IInv, GraphInv
<1>3. f \notin Layers
  BY <1>2, DataAssumption
<1>4. Live' = Live
  BY <1>1 DEF Live
<1> HIDE DEF f
<1> QED BY <1>1, <1>2, <1>3, <1>4 DEF Added, Present, Switched, Feeds, Data, f

LEMMA MakeAdds == ASSUME IInv, Make PROVE Added(Head(calls).on)
<1> DEFINE l == Head(calls).on
<1>1. /\ calls # <<>> /\ Head(calls).do = "make" /\ layers' = Append(layers, l)
      /\ active' = [active EXCEPT ![l] = TRUE]
      /\ UNCHANGED <<files, conn>>
  BY DEF Make, Doing, On, Continue
<1>2. /\ l \in Layers \ made /\ Live \subseteq made /\ Live \subseteq Layers /\ files \subseteq Files
      /\ layers \in Seq(Layers) /\ active \in [Layers -> BOOLEAN]
  BY <1>1, Running DEF Fits, IInv, GraphInv
<1>3. l \notin Live /\ l \notin files
  BY <1>2, DataAssumption
<1> HIDE DEF l
<1>4. Live' = Live \cup {l}
  <2>1. Live = Elements(layers) /\ Live' = Elements(layers')
    BY DEF Live, Elements
  <2> QED BY <1>1, <1>2, <2>1, ElementsAppend
<1>5. Switched' = Switched \cup {l}
  BY <1>1, <1>2, <1>3, <1>4 DEF Switched
<1> QED BY <1>1, <1>2, <1>3, <1>4, <1>5 DEF Added, Present, Feeds, Data, l

LEMMA LinkFeeds == ASSUME IInv, Link PROVE Fed(Head(calls).with, Head(calls).on)
<1> DEFINE d == Head(calls).with
           l == Head(calls).on
           n == NewConn
<1>1. /\ calls # <<>> /\ Head(calls).do = "link"
      /\ conn' = [c \in DOMAIN conn \cup {n} |->
                    IF c = n THEN [from |-> d, to |-> l, on |-> SourceActive(d)] ELSE conn[c]]
      /\ UNCHANGED <<files, layers, active>>
  BY DEF Link, Doing, On, With, Continue
<1>2. l \in Live /\ d \in Present
  BY <1>1, Running DEF Fits, Present
<1>3. n \notin DOMAIN conn /\ n \in 1..(Cardinality(DOMAIN conn) + 1)
  BY NewConnection DEF IInv
<1>4. n \in 1..(Cardinality(Feeds) + 1)
  BY <1>3, FeedsCounted DEF IInv
<1>5. Live' = Live
  BY <1>1 DEF Live
<1> HIDE DEF d, l, n
<1>6. /\ DOMAIN conn' = DOMAIN conn \cup {n} /\ conn'[n].from = d /\ conn'[n].to = l
      /\ \A c \in DOMAIN conn : conn'[c] = conn[c]
  BY <1>1, <1>3
<1>7. Feeds' = Feeds \cup {<<n, d, l>>}
  BY <1>6 DEF Feeds
<1> QED BY <1>1, <1>2, <1>4, <1>5, <1>7 DEF Fed, Present, Switched, d, l

LEMMA CutEnds ==
  ASSUME NEW gone, Cut(gone)
  PROVE  /\ DOMAIN conn' = DOMAIN conn \ gone /\ \A c \in DOMAIN conn' : conn'[c] = conn[c]
         /\ Feeds' = {<<c, conn[c].from, conn[c].to>> : c \in DOMAIN conn \ gone}
<1>1. DOMAIN conn' = DOMAIN conn \ gone /\ \A c \in DOMAIN conn' : conn'[c] = conn[c]
  BY DEF Cut
<1> QED BY <1>1 DEF Feeds

LEMMA DisconnectedUnfeeds == ASSUME IInv, Disconnected PROVE \E e : Unfed(e)
<1> DEFINE k == Head(calls).on
           e == <<k, conn[k].from, conn[k].to>>
<1>1. calls # <<>> /\ Head(calls).do = "cut" /\ Cut({k}) /\ UNCHANGED <<files, layers, active>>
  BY DEF Disconnected, Doing, On
<1>2. k \in DOMAIN conn
  BY <1>1, Running DEF Fits
<1>3. Live' = Live
  BY <1>1 DEF Live
<1>4. Feeds' = {<<c, conn[c].from, conn[c].to>> : c \in DOMAIN conn \ {k}}
  BY <1>1, CutEnds
<1> HIDE DEF k
<1>5. Feeds' = Feeds \ {e} /\ e \in Feeds
  BY <1>2, <1>4 DEF Feeds
<1> QED BY <1>1, <1>3, <1>5 DEF Unfed, Present, Switched

LEMMA DropRemoves == ASSUME IInv, Drop PROVE Removed(Head(calls).on)
<1> DEFINE f == Head(calls).on
           gone == CopiedOutputs(f)
<1>1. /\ calls # <<>> /\ Head(calls).do = "drop" /\ Cut(gone) /\ files' = files \ {f}
      /\ UNCHANGED <<layers, active>>
  BY DEF Drop, Doing, On
<1>2. f \in files /\ files \subseteq Files /\ GraphInv /\ Live \subseteq Layers
  BY <1>1, Running DEF Fits, IInv, GraphInv
<1>3. Live' = Live /\ f \notin Live
  BY <1>1, <1>2, DataAssumption DEF Live
<1>4. gone = {c \in DOMAIN conn : conn[c].from = f}
  BY <1>2 DEF CopiedOutputs, GraphInv, Elements, Data
<1> HIDE DEF gone, f
<1>5. \A c \in DOMAIN conn : conn[c].to # f
  BY <1>2, <1>3 DEF GraphInv
<1>6. Feeds' = {<<c, conn[c].from, conn[c].to>> : c \in DOMAIN conn \ gone}
  BY <1>1, CutEnds
<1>7. Feeds' = {e \in Feeds : f # e[2] /\ f # e[3]}
  BY <1>4, <1>5, <1>6 DEF Feeds
<1> QED BY <1>1, <1>2, <1>3, <1>7 DEF Removed, Present, Switched, f

LEMMA DestroyRemoves == ASSUME IInv, Destroy PROVE Removed(Head(calls).on)
<1> DEFINE l == Head(calls).on
           gone == Incident(l)
<1>1. /\ calls # <<>> /\ Head(calls).do = "destroy" /\ Cut(gone)
      /\ layers' = Only(layers, Live \ {l})
      /\ active' = [active EXCEPT ![l] = FALSE] /\ UNCHANGED files
  BY DEF Destroy, Doing, On
<1>2. /\ l \in Live /\ Live \subseteq Layers /\ GraphInv /\ files \subseteq Files
      /\ active \in [Layers -> BOOLEAN]
  BY <1>1, Running DEF Fits, Removal, IInv, GraphInv
<1>3. gone = {c \in DOMAIN conn : conn[c].to = l \/ conn[c].from = l}
  <2>1. CopiedOutputs(l) = {c \in DOMAIN conn : conn[c].from = l}
    BY <1>2 DEF CopiedOutputs, GraphInv, Elements, Data
  <2> QED BY <2>1 DEF Incident, Inputs
<1> HIDE DEF gone
<1>4. Live' = Live \ {l}
  <2>1. Live = Elements(layers) /\ Live' = Elements(layers') /\ layers \in Seq(Layers) /\ Distinct(layers)
    BY <1>2 DEF Live, Elements, GraphInv
  <2>2. PICK K : K = Live \ {l}
    OBVIOUS
  <2>3. Elements(layers') = Elements(layers) \cap K
    BY <1>1, <2>1, <2>2, OnlyElements
  <2> QED BY <2>1, <2>2, <2>3
<1> HIDE DEF l
<1>5. l \notin files /\ Switched' = Switched \ {l}
  BY <1>1, <1>2, <1>4, DataAssumption DEF Switched
<1>6. Feeds' = {<<c, conn[c].from, conn[c].to>> : c \in DOMAIN conn \ gone}
  BY <1>1, CutEnds
<1>7. Feeds' = {e \in Feeds : l # e[2] /\ l # e[3]}
  BY <1>3, <1>6 DEF Feeds
<1> QED BY <1>1, <1>2, <1>4, <1>5, <1>7 DEF Removed, Present, l

LEMMA ActivatedTurns == ASSUME IInv, Activated PROVE Turned(Head(calls).on) \/ UNCHANGED <<graph, tasks>>
<1> DEFINE l == Head(calls).on
           w == Head(calls).with
<1>1. /\ calls # <<>> /\ Head(calls).do = "activate"
      /\ UNCHANGED <<files, layers, made, auto, outputs, fileTask>>
      /\ \/ UNCHANGED <<active, conn, layerTask>>
         \/ active[l] # w /\ active' = [active EXCEPT ![l] = w] /\ conn' = FlagsFollow(l, w)
  BY DEF Activated, Doing, On, With
<1>2. l \in Live /\ w \in BOOLEAN /\ Live \subseteq Layers /\ active \in [Layers -> BOOLEAN]
  BY <1>1, Running DEF Fits, IInv, GraphInv
<1>3. Live' = Live
  BY <1>1 DEF Live
<1>4. CASE UNCHANGED <<active, conn, layerTask>>
  BY <1>1, <1>4 DEF graph, tasks
<1>5. CASE active[l] # w /\ active' = [active EXCEPT ![l] = w] /\ conn' = FlagsFollow(l, w)
  <2> HIDE DEF l, w
  <2>1. Switched' = IF l \in Switched THEN Switched \ {l} ELSE Switched \cup {l}
    BY <1>2, <1>3, <1>5 DEF Switched
  <2>2. /\ DOMAIN conn' = DOMAIN conn
        /\ \A c \in DOMAIN conn : conn'[c].from = conn[c].from /\ conn'[c].to = conn[c].to
    <3>1. \A c \in DOMAIN conn : conn[c] \in [from : files \cup Live, to : Live, on : BOOLEAN]
      BY DEF IInv, GraphInv
    <3> QED BY <1>5, <3>1 DEF FlagsFollow
  <2>3. Feeds' = Feeds
    BY <2>2 DEF Feeds
  <2> QED BY <1>1, <1>2, <1>3, <2>1, <2>3 DEF Turned, Present, l
<1> QED BY <1>1, <1>4, <1>5

(* Everything else leaves the graph as it is, or only marks a layer. *)
LEMMA GraphStays ==
  ASSUME Next,
         ~(Enter \/ Make \/ Link \/ Disconnected \/ Drop \/ Activated \/ Destroy)
  PROVE  Same /\ UNCHANGED tasks
<1> DEFINE Stay == UNCHANGED <<files, layers, active, conn, tasks>>
<1>1. Stay
  <2> USE DEF Start, Continue, graph
  <2>1. ASSUME NEW f \in Files, NEW content \in Contents, ModifyFile(f, content) \/ AddFile(f, content)
        PROVE  Stay
    BY <2>1 DEF ModifyFile, AddFile
  <2>2. ASSUME NEW f \in Files, NEW g \in Files, NEW content \in Contents, NEW other \in Contents,
               AddFiles(f, g, content, other)
        PROVE  Stay
    BY <2>2 DEF AddFiles
  <2>3. ASSUME NEW f \in Files, RemoveFile(f) \/ \E l \in Live : ConnectFile(f, l) PROVE Stay
    BY <2>3 DEF RemoveFile, ConnectFile
  <2>4. ASSUME NEW t \in UNION Contents, AddLayer(t) PROVE Stay
    BY <2>4 DEF AddLayer
  <2>5. ASSUME NEW k \in Live, NEW l \in Live, RemoveLayers(IF k = l THEN <<k>> ELSE <<k, l>>) PROVE Stay
    BY <2>5 DEF RemoveLayers
  <2>6. ASSUME NEW l \in Live, SetDefault(l) \/ \E on \in BOOLEAN : Activate(l, on) PROVE Stay
    BY <2>6 DEF SetDefault, Activate
  <2>7. ASSUME NEW g \in Live, NEW l \in Live, ConnectLayer(g, l) PROVE Stay
    BY <2>7 DEF ConnectLayer
  <2>8. ASSUME NEW c \in DOMAIN conn, Disconnect(c) PROVE Stay
    BY <2>8 DEF Disconnect
  <2>9. CASE Return \/ Begin \/ Count \/ End \/ Adopt
    BY <2>9 DEF Return, Begin, Count, End, Adopt
  <2>10. CASE Create
    BY <2>10 DEF Create
  <2>11. CASE ConnectAll
    BY <2>11 DEF ConnectAll
  <2>12. CASE AutoLink
    BY <2>12 DEF AutoLink
  <2>13. CASE Default \/ Remove \/ Forget
    BY <2>13 DEF Default, Remove, Forget
  <2> QED BY <2>1, <2>2, <2>3, <2>4, <2>5, <2>6, <2>7, <2>8, <2>9, <2>10, <2>11, <2>12, <2>13 DEF Next
<1> QED BY <1>1 DEF Same, Present, Switched, Feeds, Live

LEMMA StepsMap ==
  ASSUME IInv, Next
  PROVE  \/ \E n : Added(n) \/ Removed(n)
         \/ \E l : Turned(l) \/ \E d : Fed(d, l)
         \/ \E e : Unfed(e)
         \/ Same /\ UNCHANGED tasks
<1>1. CASE Enter \/ Make
  BY <1>1, EnterAdds, MakeAdds
<1>2. CASE Link
  BY <1>2, LinkFeeds
<1>3. CASE Disconnected
  BY <1>3, DisconnectedUnfeeds
<1>4. CASE Drop \/ Destroy
  BY <1>4, DropRemoves, DestroyRemoves
<1>5. CASE Activated
  <2>1. UNCHANGED <<graph, tasks>> => Same /\ UNCHANGED tasks
    BY DEF graph, Same, Present, Switched, Feeds, Live
  <2> QED BY <1>5, <2>1, ActivatedTurns
<1>6. CASE ~(Enter \/ Make \/ Link \/ Disconnected \/ Drop \/ Activated \/ Destroy)
  BY <1>6, GraphStays
<1> QED BY <1>1, <1>2, <1>3, <1>4, <1>5, <1>6

LEMMA AbstractInit == Init => Abstract!Init
<1> SUFFICES ASSUME Init PROVE Abstract!Init
  OBVIOUS
<1>1. /\ files = {} /\ layers = <<>> /\ conn = <<>>
      /\ fileTask = [l \in Layers |-> [f \in Files |-> 0]] /\ layerTask = [l \in Layers |-> {}]
  BY DEF Init
<1>2. Live = {} /\ DOMAIN conn = {}
  BY <1>1 DEF Live
<1>3. \A l \in Layers : {f \in Files : fileTask[l][f] > 0} \cup layerTask[l] = {}
  BY <1>1
<1> QED BY <1>1, <1>2, <1>3 DEF Abstract!Init

LEMMA AbstractStep ==
  IInv /\ IInv' /\ [Next]_vars => (~Duplicates => [Abstract!Next]_(Abstract!vars))
<1>1. IInv' => UsesInputs'
  BY InputsUsed, PTL
<1> SUFFICES ASSUME IInv, IInv', [Next]_vars, ~Duplicates PROVE [Abstract!Next]_(Abstract!vars)
  OBVIOUS
<1>2. Uses' = [l \in Layers |-> Used(l)']
  BY <1>1 DEF UsesInputs
<1>3. Live \subseteq Layers /\ Files \cap Layers = {} /\ files \subseteq Files
  BY DataAssumption DEF IInv, GraphInv
<1>4. ASSUME Same, UNCHANGED tasks PROVE UNCHANGED Abstract!vars
  BY <1>4 DEF Abstract!vars, Same, Present, Switched, Feeds, tasks
<1>5. ASSUME NEW n, Added(n) PROVE Abstract!Next
  BY <1>2, <1>5 DEF Abstract!Next, Abstract!Add, Abstract!Sources, Added, Present, Switched, Feeds, Uses, Used, Data
<1>6. ASSUME NEW n, Removed(n) PROVE Abstract!Next
  BY <1>2, <1>6 DEF Abstract!Next, Abstract!Remove, Abstract!Ends, Abstract!Sources, Removed, Present, Switched, Feeds, Uses, Used
<1>7. ASSUME NEW l, Turned(l) PROVE Abstract!Next
  BY <1>2, <1>3, <1>7 DEF Abstract!Next, Abstract!Switch, Abstract!Sources, Turned, Present, Switched, Feeds, Uses, Used
<1>8. ASSUME NEW l, NEW d, Fed(d, l) PROVE Abstract!Next
  <2>1. l \in Present \cap Layers /\ d \in Present
    BY <1>3, <1>8 DEF Fed, Present
  <2>2. PICK i \in 1..(Cardinality(Feeds) + 1) : Feeds' = Feeds \cup {<<i, d, l>>}
    BY <1>8 DEF Fed
  <2>3. Present' = Present /\ Switched' = Switched
    BY <1>8 DEF Fed
  <2>4. Abstract!Feed(d, l)
    <3>1. \A S : Abstract!Cardinality(S) = Cardinality(S)
      BY DEF Cardinality, Abstract!Cardinality
    <3>2. i \in 1..(Abstract!Cardinality(Feeds) + 1)
      BY <2>2, <3>1
    <3> QED BY <2>2, <2>3, <3>2 DEF Abstract!Feed, Present, Switched, Feeds
  <2>5. Uses' = [k \in Layers |-> Abstract!Sources(k)']
    BY <1>2 DEF Abstract!Sources, Switched, Feeds, Uses, Used
  <2> QED BY <2>1, <2>4, <2>5 DEF Abstract!Next, Present, Uses
<1>9. ASSUME NEW e, Unfed(e) PROVE Abstract!Next
  BY <1>2, <1>9 DEF Abstract!Next, Abstract!Unfeed, Abstract!Sources, Unfed, Present, Switched, Feeds, Uses, Used
<1>10. CASE UNCHANGED vars
  BY <1>10 DEF Abstract!vars, vars, graph, tasks, Live
<1> QED BY <1>4, <1>5, <1>6, <1>7, <1>8, <1>9, <1>10, StepsMap

(* Files, layers, connections and tasks implement a graph whose layers use *)
(* the inputs that are active, at every moment: where no two connections   *)
(* feed the same channel of a layer from the same layer.                   *)
THEOREM GraphImplemented == ASSUME ~Duplicates PROVE Spec => ImplementsLayerGraph
<1>1. Init => Abstract!Init
  BY AbstractInit
<1>2. IInv /\ IInv' /\ [Next]_vars => [Abstract!Next]_(Abstract!vars)
  BY AbstractStep
<1> QED BY <1>1, <1>2, Invariant, PTL DEF Spec, ImplementsLayerGraph, Abstract!Spec
=============================================================================
