----------------------- MODULE RenderedGeometryProofs -----------------------
(***************************************************************************)
(* Proofs about RenderedGeometry, for any visual layers, workflows, calls  *)
(* and guards.                                                             *)
(*                                                                         *)
(* Signals are nested in signals, but the call stack is ordered: a         *)
(* reconstruction draws under a guard and nothing is sent meanwhile; what  *)
(* sends is never inside a guard; a workflow that is chosen is connected   *)
(* at the end.  From this it follows who still has to be told of what: the *)
(* canvases of the layers that changed, the focus of geometries that came  *)
(* and went, the active workflow of the focus.                             *)
(***************************************************************************)
EXTENDS RenderedGeometry, SequenceLemmas

(* The entries of the call stack. *)
Plain == {"beginGuard", "endGuard", "emit", "updateFocus", "sent", "focusChanged"}
OfWorkflow == {"pick", "deactivate", "activate", "disconnect", "connect"}
OfLayers == {"updateCanvas", "restore"}
Entries ==
  [do : Plain, on : {None}]
    \cup [do : {"clear"}, on : MainLayers] \cup [do : {"render"}, on : VisualLayers]
    \cup [do : OfLayers, on : SUBSET MainLayers] \cup [do : OfWorkflow, on : Workflows]
    \cup [do : {"add"}, on : [in : Workflows, geometry : Nat \ {0}, asFocus : BOOLEAN]]
Kind(what) == {x \in Entries : x.do = what}
Erasures == {x \in Kind("clear") : x.on # "reconstruction"}

(* What is done in the course of drawing visual layers, and of sending. *)
Drawing(x) ==
  \/ x.do = "beginGuard" \/ x.do = "render" \/ x.do = "endGuard"
  \/ x.do = "clear" /\ x.on = "reconstruction"
Sending(x) == x.do = "emit" \/ x.do = "updateFocus" \/ x.do = "updateCanvas" \/ x.do = "sent"

(* Which entry may be above which on the call stack. *)
Before(x, y) ==
  /\ Drawing(x) <=> Drawing(y)
  /\ y.do # "beginGuard"
  /\ x.do # "endGuard" /\ x.do # "connect" /\ x.do # "restore"
  /\ x.do = "disconnect" => (y.do = "activate" \/ y.do = "connect") /\ y.on = x.on
  /\ x.do = "activate" => y.do = "connect" /\ y.on = x.on
Order == {p \in Entries \X Entries : Before(p[1], p[2])}

Stacked(s) ==
  /\ s \in Seq(Entries) /\ Ordered(s, Order)
  /\ Followed(s, Erasures, Kind("pick"))
  /\ Followed(s, Kind("deactivate"), Kind("disconnect") \cup Kind("restore"))
  /\ Followed(s, Kind("disconnect"), Kind("activate"))
  /\ Followed(s, Kind("activate"), Kind("connect"))

(* What is called, what waits for it, and all of it. *)
Now == IF calls = <<>> THEN Do("idle", None) ELSE Head(calls)
Waiting == IF calls = <<>> THEN <<>> ELSE Tail(calls)
Stack == Elements(calls)
Has(what) == \E x \in Stack : x.do = what

(* A guard is open while a reconstruction draws, and none while a signal   *)
(* is being sent.                                                          *)
GuardInv ==
  /\ depth \in Nat
  /\ Has("endGuard") => Now.do = "beginGuard" \/ depth > 0
  /\ \A x \in Stack : Drawing(x) => Has("endGuard") \/ (Waiting = <<>> /\ x.do = "render")
  /\ \A x \in Stack : Sending(x) => depth = 0

(* The child layers that are listed and those that may be used again have  *)
(* the indices from 1 on, and each visual layer has one of its own.        *)
LayersInv ==
  /\ children \in Seq(Nat) /\ Distinct(children) /\ free \in Seq(Nat) /\ Distinct(free)
  /\ Elements(children) \cap Elements(free) = {}
  /\ Elements(children) \cup Elements(free) = 1..(Len(children) + Len(free))
  /\ Len(children) + Len(free) <= Cardinality(VisualLayers)
  /\ index \in [VisualLayers -> Nat]
  /\ Elements(children) = {index[l] : l \in VisualLayers} \ {0}
  /\ \A k, l \in VisualLayers : index[k] # 0 /\ index[k] = index[l] => k = l

(* A child layer has what its visual layer reconstructs, if that is        *)
(* visible, or is about to be drawn.                                       *)
Drawn(l) == IF visible[l] THEN output[l] ELSE 0
ContentsInv ==
  /\ made \in Nat /\ contents \in [1..Cardinality(VisualLayers) -> 0..made]
  /\ output \in [VisualLayers -> 0..made] /\ visible \in [VisualLayers -> BOOLEAN]
  /\ \A i \in DOMAIN contents : i \notin Elements(children) => contents[i] = 0
  /\ \A l \in VisualLayers : index[l] = 0 => output[l] = 0
  /\ \A l \in VisualLayers : index[l] # 0 =>
       contents[index[l]] = Drawn(l) \/ \E x \in Stack : x.do = "render" /\ x.on = l

(* The canvases will be told of what they missed. *)
Telling(m) == \E x \in Stack : x.do = "updateCanvas" /\ m \in x.on
Held == depth > 0 /\ queued
ToldInv ==
  /\ queued \in BOOLEAN /\ updated \subseteq MainLayers
  /\ missed \in [repaint : BOOLEAN, layers : SUBSET MainLayers]
  /\ \A m \in missed.layers : m \in updated \/ Telling(m)
  /\ Held \/ Now.do = "emit" \/ \A m \in missed.layers : Telling(m)
  /\ missed.repaint => Held \/ Has("emit") \/ Has("updateCanvas")

(* The focus is right or will be looked up. *)
Target == IF focused THEN Found ELSE 0
FocusInv ==
  /\ focused \in BOOLEAN /\ rg \in 0..made /\ (~focused => rg = 0)
  /\ \/ rg = Target
     \/ Held
     \/ depth = 0 /\ (Now.do = "emit" \/ Now.do = "updateFocus")
     \/ Now.do = "clear"
     \/ Now.do = "focusChanged" /\ listener # None

(* A workflow that is chosen is the active one once the other has gone,    *)
(* and listens in the end.                                                 *)
ToolsInv ==
  /\ workflow \in Workflows /\ (listener = workflow \/ listener = None)
  /\ listener = None => Has("connect")
  /\ \A x \in Stack : x.do = "connect" => Has("disconnect") \/ (workflow = x.on /\ listener = None)
  /\ \A x \in Stack : x.do = "pick" \/ x \in Erasures => x.on = workflow
  /\ \A x \in Stack : x.do = "add" => x.on.in = workflow

(* The main layers that are active, now and when an export has ended. *)
Right(a) == a = {"reconstruction", workflow} \/ (aborted = TRUE /\ a = {"reconstruction"})
Leaving == workflow \in active => \E x \in Stack : x.do = "deactivate" /\ x.on = workflow
ActiveInv ==
  /\ "reconstruction" \in active /\ aborted \in BOOLEAN
  /\ Has("disconnect") \/ Has("connect") \/ Has("restore") \/ Right(active)
  /\ Has("disconnect") \/ Has("restore") => active \subseteq {"reconstruction", workflow} /\ Leaving
  /\ \A x \in Stack : x.do = "restore" => Right(x.on) /\ ~Has("connect")
  /\ Has("connect") => \/ Has("disconnect")
                       \/ active = {"reconstruction", workflow}
                       \/ active = {"reconstruction"} /\ Has("activate")

(* The geometry in focus cannot be found any more: the focus will move.    *)
Lost == /\ focused /\ rg # 0
        /\ \A l \in VisualLayers : index[l] # 0 /\ visible[l] => output[l] # rg
(* The active workflow is about to draw its highlight anew. *)
Redrawing ==
  \/ Has("connect")
  \/ Now.do = "focusChanged" /\ listener = workflow
  \/ Now.do = "clear" /\ Now.on = workflow
Marked(r) == <<r, TRUE>> \in highlight[workflow]
Marking == \/ Has("pick")
           \/ \E x \in Stack : x.do = "add" /\ x.on.geometry = rg /\ x.on.asFocus = TRUE
HighlightInv ==
  /\ highlight \in [Workflows -> SUBSET ((1..made) \X BOOLEAN)]
  /\ \A x \in Stack : x.do = "add" =>
       /\ x.on.geometry \in 1..made
       /\ x.on.asFocus = TRUE => x.on.geometry = rg
       /\ depth = 0 => rg = Target
  /\ Redrawing \/ Lost \/ \A r \in 1..made : Marked(r) => r = rg
  /\ Redrawing \/ Lost \/ rg = 0 \/ Marked(rg) \/ Marking

IInv ==
  /\ Stacked(calls) /\ GuardInv /\ LayersInv /\ ContentsInv /\ ToldInv
  /\ FocusInv /\ ToolsInv /\ ActiveInv /\ HighlightInv
-----------------------------------------------------------------------------
(* The stack: taking an entry off and putting entries on. *)

LEMMA OfKind ==
  ASSUME NEW x \in Entries
  PROVE  /\ \A w : x \in Kind(w) <=> x.do = w
         /\ x \in Erasures <=> x.do = "clear" /\ ~Drawing(x)
BY DEF Kind, Erasures, Drawing

(* The types of entries. *)
LEMMA Typed ==
  ASSUME NEW x \in Entries
  PROVE  /\ x.do \in Plain \cup {"clear", "render", "add"} \cup OfLayers \cup OfWorkflow
         /\ x.do = "clear" => x.on \in MainLayers
         /\ x.do = "render" => x.on \in VisualLayers
         /\ x.do \in OfLayers => x.on \subseteq MainLayers
         /\ x.do \in OfWorkflow => x.on \in Workflows
         /\ x.do = "add" => x.on.in \in Workflows /\ x.on.geometry \in Nat \ {0} /\ x.on.asFocus \in BOOLEAN
BY DEF Entries, Plain, OfLayers, OfWorkflow

LEMMA Made ==
  /\ \A w \in Plain : Do(w, None) \in Entries
  /\ \A l \in MainLayers : Do("clear", l) \in Entries
  /\ \A l \in VisualLayers : Do("render", l) \in Entries
  /\ \A w \in OfLayers : \A ls \in SUBSET MainLayers : Do(w, ls) \in Entries
  /\ \A w \in OfWorkflow : \A x \in Workflows : Do(w, x) \in Entries
  /\ \A w \in Workflows : \A r \in Nat \ {0} : \A b \in BOOLEAN :
       Do("add", [in |-> w, geometry |-> r, asFocus |-> b]) \in Entries
  /\ \A w, x : Do(w, x).do = w /\ Do(w, x).on = x
BY DEF Do, Entries

(* What an entry must find below it. *)
Above(x, t) ==
  /\ \A y \in Elements(t) : <<x, y>> \in Order
  /\ x \in Erasures => \E y \in Elements(t) : y \in Kind("pick")
  /\ x \in Kind("deactivate") => \E y \in Elements(t) : y \in Kind("disconnect") \cup Kind("restore")
  /\ x \in Kind("disconnect") => \E y \in Elements(t) : y \in Kind("activate")
  /\ x \in Kind("activate") => \E y \in Elements(t) : y \in Kind("connect")

LEMMA AboveMeans ==
  ASSUME NEW x \in Entries, NEW t \in Seq(Entries)
  PROVE  Above(x, t) <=>
           /\ \A y \in Elements(t) : Before(x, y)
           /\ x.do = "clear" /\ ~Drawing(x) => \E y \in Elements(t) : y.do = "pick"
           /\ x.do = "deactivate" => \E y \in Elements(t) : y.do = "disconnect" \/ y.do = "restore"
           /\ x.do = "disconnect" => \E y \in Elements(t) : y.do = "activate"
           /\ x.do = "activate" => \E y \in Elements(t) : y.do = "connect"
<1>1. Elements(t) \subseteq Entries
  BY ElementsTyped
<1>2. \A y \in Elements(t) : <<x, y>> \in Order <=> Before(x, y)
  BY <1>1 DEF Order
<1>3. \A y \in Elements(t) : \A w : y \in Kind(w) <=> y.do = w
  BY <1>1, OfKind
<1>4. \A w : x \in Kind(w) <=> x.do = w
  BY OfKind
<1>5. x \in Erasures <=> x.do = "clear" /\ ~Drawing(x)
  BY OfKind
<1> QED BY <1>2, <1>3, <1>4, <1>5 DEF Above

LEMMA Taken ==
  ASSUME NEW s, Stacked(s), s # <<>>
  PROVE  /\ Head(s) \in Entries /\ Tail(s) \in Seq(Entries) /\ Stacked(Tail(s))
         /\ Above(Head(s), Tail(s)) /\ Elements(s) = {Head(s)} \cup Elements(Tail(s))
<1>1. s \in Seq(Entries)
  BY DEF Stacked
<1>2. Head(s) \in Entries /\ Tail(s) \in Seq(Entries) /\ Elements(s) = {Head(s)} \cup Elements(Tail(s))
  BY <1>1, ElementsTail
<1>3. Ordered(Tail(s), Order) /\ \A y \in Elements(Tail(s)) : <<Head(s), y>> \in Order
  BY <1>1, StackTail DEF Stacked
<1>4. /\ Followed(Tail(s), Erasures, Kind("pick"))
      /\ Head(s) \in Erasures => \E y \in Elements(Tail(s)) : y \in Kind("pick")
  BY <1>1, StackTail DEF Stacked
<1>5. PICK L : L = Kind("disconnect") \cup Kind("restore")
  OBVIOUS
<1>6. /\ Followed(Tail(s), Kind("deactivate"), L)
      /\ Head(s) \in Kind("deactivate") => \E y \in Elements(Tail(s)) : y \in L
  <2>1. Followed(s, Kind("deactivate"), L)
    BY <1>5 DEF Stacked
  <2> QED BY <1>1, <2>1, StackTail
<1>7. /\ Followed(Tail(s), Kind("disconnect"), Kind("activate"))
      /\ Head(s) \in Kind("disconnect") => \E y \in Elements(Tail(s)) : y \in Kind("activate")
  BY <1>1, StackTail DEF Stacked
<1>8. /\ Followed(Tail(s), Kind("activate"), Kind("connect"))
      /\ Head(s) \in Kind("activate") => \E y \in Elements(Tail(s)) : y \in Kind("connect")
  BY <1>1, StackTail DEF Stacked
<1>9. Stacked(Tail(s))
  BY <1>2, <1>3, <1>4, <1>5, <1>6, <1>7, <1>8 DEF Stacked
<1> QED BY <1>2, <1>3, <1>4, <1>5, <1>6, <1>7, <1>8, <1>9 DEF Above

(* s is t with the entries in N on it. *)
Onto(s, N, t) == s \in Seq(Entries) /\ Stacked(s) /\ Elements(s) = N \cup Elements(t)

LEMMA Pushed ==
  ASSUME NEW x \in Entries, NEW t \in Seq(Entries), Stacked(t), Above(x, t), NEW s, s = <<x>> \o t
  PROVE  Onto(s, {x}, t) /\ s # <<>> /\ Head(s) = x /\ Tail(s) = t
<1>1. /\ s \in Seq(Entries) /\ s # <<>> /\ Head(s) = x /\ Tail(s) = t
      /\ Elements(s) = {x} \cup Elements(t)
  BY Pushing
<1>2. Ordered(s, Order)
  <2>1. Ordered(t, Order) /\ \A y \in Elements(t) : <<x, y>> \in Order
    BY DEF Stacked, Above
  <2> QED BY <2>1, PushingKeeps
<1>3. ASSUME NEW K, NEW L, Followed(t, K, L), x \in K => \E y \in Elements(t) : y \in L
      PROVE  Followed(s, K, L)
  BY <1>3, PushingKeeps
<1>4. Followed(s, Erasures, Kind("pick"))
  BY <1>3 DEF Stacked, Above
<1>5. Followed(s, Kind("deactivate"), Kind("disconnect") \cup Kind("restore"))
  BY <1>3 DEF Stacked, Above
<1>6. Followed(s, Kind("disconnect"), Kind("activate")) /\ Followed(s, Kind("activate"), Kind("connect"))
  BY <1>3 DEF Stacked, Above
<1> QED BY <1>1, <1>2, <1>4, <1>5, <1>6 DEF Stacked, Onto

LEMMA OntoNone ==
  ASSUME NEW t \in Seq(Entries), Stacked(t), NEW s, s = <<>> \o t
  PROVE  s = t /\ Onto(s, {}, t)
<1>1. s = t
  OBVIOUS
<1> QED BY <1>1 DEF Onto

(* Sequences made of finite sets. *)
LEMMA Listed ==
  ASSUME NEW S, IsFiniteSet(S)
  PROVE  SetToSeq(S) \in Seq(S) /\ Elements(SetToSeq(S)) = S
<1> DEFINE n == Cardinality(S)
<1>1. n \in Nat /\ ExistsBijection(1..n, S)
  BY FS_CardinalityType
<1> HIDE DEF n
<1>2. PICK g \in [1..n -> S] : \A a, b \in 1..n : g[a] = g[b] => a = b
  BY <1>1 DEF ExistsBijection, Bijection, Injection, IsInjective
<1>3. \E f \in [1..n -> S] : IsInjective(f)
  BY <1>2 DEF IsInjective
<1>4. PICK f : f = SetToSeq(S)
  OBVIOUS
<1>5. f \in [1..n -> S] /\ IsInjective(f)
  BY <1>3, <1>4 DEF SetToSeq, n
<1>6. f \in Seq(S) /\ Len(f) = n /\ DOMAIN f = 1..n
  BY <1>1, <1>5
<1>7. Distinct(f)
  BY <1>5, <1>6 DEF Distinct, IsInjective
<1>8. Elements(f) \subseteq S
  BY <1>6, ElementsTyped
<1>9. Cardinality(Elements(f)) = Cardinality(S)
  BY <1>6, <1>7, ElementsCounted DEF n
<1>10. Elements(f) = S
  BY <1>8, <1>9, FS_Subset
<1> QED BY <1>4, <1>6, <1>10
-----------------------------------------------------------------------------
(* What a step that leaves a part alone keeps of it. *)

LEMMA TheStack ==
  ASSUME IInv
  PROVE  /\ Waiting \in Seq(Entries) /\ Stacked(Waiting) /\ Elements(Waiting) \subseteq Entries
         /\ Stack \subseteq Entries /\ Elements(Waiting) \subseteq Stack
         /\ \A x \in Stack : x = Now \/ x \in Elements(Waiting)
         /\ calls = <<>> => Stack = {} /\ Waiting = <<>> /\ Elements(Waiting) = {} /\ Now.do = "idle"
         /\ calls # <<>> => /\ Now = Head(calls) /\ Now \in Entries /\ Now \in Stack
                            /\ Waiting = Tail(calls) /\ Above(Now, Waiting)
<1>1. Stacked(calls)
  BY DEF IInv
<1>2. CASE calls = <<>>
  <2>1. Waiting = <<>> /\ Now = Do("idle", None)
    BY <1>2 DEF Waiting, Now
  <2>2. Stack = {} /\ Elements(Waiting) = {}
    BY <1>2, <2>1, ElementsEmpty DEF Stack
  <2>3. Stacked(Waiting) /\ Waiting \in Seq(Entries)
    BY <1>1, <1>2, <2>1 DEF Stacked
  <2> QED BY <1>2, <2>1, <2>2, <2>3 DEF Do
<1>3. CASE calls # <<>>
  <2>1. Waiting = Tail(calls) /\ Now = Head(calls)
    BY <1>3 DEF Waiting, Now
  <2>2. /\ Head(calls) \in Entries /\ Tail(calls) \in Seq(Entries) /\ Stacked(Tail(calls))
        /\ Above(Head(calls), Tail(calls)) /\ Elements(calls) = {Head(calls)} \cup Elements(Tail(calls))
    BY <1>1, <1>3, Taken
  <2>3. Elements(Tail(calls)) \subseteq Entries
    BY <2>2, ElementsTyped
  <2> QED BY <1>3, <2>1, <2>2, <2>3 DEF Stack
<1> QED BY <1>2, <1>3

(* What is called when the step is over. *)
LEMMA NowThen ==
  ASSUME calls' # <<>>, NEW N, NEW t, Onto(calls', N, t)
  PROVE  Now' = Head(calls') /\ Now' \in Stack' /\ Stack' = N \cup Elements(t) /\ Stacked(calls)'
<1>1. Now' = Head(calls')
  BY DEF Now
<1>2. calls' \in Seq(Entries)
  BY DEF Onto
<1>3. Head(calls') \in Elements(calls')
  BY <1>2, ElementsTail
<1> QED BY <1>1, <1>3 DEF Stack, Onto

LEMMA StackThen ==
  ASSUME NEW N, NEW t, Onto(calls', N, t)
  PROVE  Stack' = N \cup Elements(t) /\ Stacked(calls)'
BY DEF Stack, Onto

LEMMA GuardKept ==
  ASSUME IInv, NEW N, Onto(calls', N, Waiting), depth' = depth, Now.do # "beginGuard",
         \A x \in N : ~Drawing(x) /\ (Sending(x) => depth = 0)
  PROVE  GuardInv'
<1>1. Stack' = N \cup Elements(Waiting) /\ Elements(Waiting) \subseteq Stack
  BY TheStack, StackThen
<1>2. GuardInv /\ depth \in Nat
  BY DEF IInv, GuardInv
<1>3. \A x \in N : x.do # "endGuard"
  BY DEF Drawing
<1>4. Has("endGuard")' => depth' > 0
  BY <1>1, <1>2, <1>3 DEF GuardInv, Has
<1>5. ASSUME NEW x \in Stack', Drawing(x) PROVE Has("endGuard")'
  <2>1. x \in Elements(Waiting) /\ x \in Stack
    BY <1>1, <1>5
  <2>2. Waiting # <<>> /\ calls # <<>>
    BY <2>1, ElementsEmpty, TheStack
  <2>3. PICK e \in Stack : e.do = "endGuard"
    BY <1>2, <1>5, <2>1, <2>2 DEF GuardInv, Has
  <2>4. Before(Now, x)
    BY <2>1, <2>2, TheStack, AboveMeans
  <2>5. e \in Elements(Waiting)
    BY <2>3, <2>4, TheStack DEF Before
  <2> QED BY <1>1, <2>3, <2>5 DEF Has
<1>6. \A x \in Stack' : Sending(x) => depth' = 0
  BY <1>1, <1>2 DEF GuardInv
<1> QED BY <1>2, <1>4, <1>5, <1>6 DEF GuardInv

LEMMA LayersKept ==
  ASSUME IInv, UNCHANGED <<children, free, index>>
  PROVE  LayersInv'
BY DEF IInv, LayersInv

LEMMA ContentsKept ==
  ASSUME IInv, NEW N, Onto(calls', N, Waiting), Now.do # "render", UNCHANGED layers
  PROVE  ContentsInv'
<1>1. Stack' = N \cup Elements(Waiting) /\ \A x \in Stack : x.do = "render" => x \in Stack'
  BY TheStack, StackThen
<1>2. ContentsInv /\ UNCHANGED <<children, index, contents, visible, output, made>>
  BY DEF IInv, layers
<1>3. \A l \in VisualLayers : Drawn(l)' = Drawn(l)
  BY <1>2 DEF Drawn
<1>4. ASSUME NEW l \in VisualLayers, index[l] # 0
      PROVE  contents[index[l]] = Drawn(l) \/ \E x \in Stack' : x.do = "render" /\ x.on = l
  BY <1>1, <1>2, <1>4 DEF ContentsInv
<1> QED BY <1>2, <1>3, <1>4 DEF ContentsInv

LEMMA ToldKept ==
  ASSUME IInv, NEW N, Onto(calls', N, Waiting), Now.do # "emit", Now.do # "updateCanvas",
         UNCHANGED <<queued, updated, missed>>, depth > 0 => depth' > 0
  PROVE  ToldInv'
<1>1. Stack' = N \cup Elements(Waiting)
      /\ \A x \in Stack : x.do = "emit" \/ x.do = "updateCanvas" => x \in Stack'
  BY TheStack, StackThen
<1>2. ToldInv
  BY DEF IInv
<1>3. Held => Held'
  BY DEF Held
<1>4. \A m : Telling(m) => Telling(m)'
  BY <1>1 DEF Telling
<1>5. (Has("emit") => Has("emit")') /\ (Has("updateCanvas") => Has("updateCanvas")')
  BY <1>1 DEF Has
<1>6. Held' \/ \A m \in missed'.layers : Telling(m)'
  BY <1>2, <1>3, <1>4 DEF ToldInv
<1>7. \A m \in missed'.layers : m \in updated' \/ Telling(m)'
  BY <1>2, <1>4 DEF ToldInv
<1>8. missed'.repaint => Held' \/ Has("emit")' \/ Has("updateCanvas")'
  BY <1>2, <1>3, <1>5 DEF ToldInv
<1> QED BY <1>2, <1>6, <1>7, <1>8 DEF ToldInv

LEMMA FocusKept ==
  ASSUME IInv, UNCHANGED <<children, contents, focus, queued>>, depth > 0 => depth' > 0,
         made' \in Nat, made <= made',
         Now.do # "emit", Now.do # "updateFocus", Now.do # "clear", Now.do # "focusChanged"
  PROVE  FocusInv' /\ Target' = Target /\ (rg = Target \/ Held)
<1>1. FocusInv /\ made \in Nat /\ focused' = focused /\ rg' = rg
  BY DEF IInv, ContentsInv, focus
<1>2. Target' = Target
  <2>1. Shown' = Shown
    BY DEF Shown
  <2>2. Found' = Found
    BY <2>1 DEF Found
  <2> QED BY <1>1, <2>2 DEF Target
<1>3. rg = Target \/ Held
  BY <1>1 DEF FocusInv
<1>4. rg' = Target' \/ Held'
  BY <1>1, <1>2, <1>3 DEF Held
<1>5. rg' \in 0..made' /\ (~focused' => rg' = 0) /\ focused' \in BOOLEAN
  BY <1>1 DEF FocusInv
<1> QED BY <1>2, <1>3, <1>4, <1>5 DEF FocusInv

LEMMA ToolsKept ==
  ASSUME IInv, NEW N, Onto(calls', N, Waiting), UNCHANGED <<workflow, listener>>,
         Now.do # "connect", Now.do # "disconnect",
         \A x \in N : x.do # "connect" /\ (x.do = "pick" \/ x \in Erasures => x.on = workflow)
                      /\ (x.do = "add" => x.on.in = workflow)
  PROVE  ToolsInv'
<1>1. /\ Stack' = N \cup Elements(Waiting) /\ Elements(Waiting) \subseteq Stack
      /\ \A x \in Stack : x.do = "connect" \/ x.do = "disconnect" => x \in Stack'
  BY TheStack, StackThen
<1>2. ToolsInv
  BY DEF IInv
<1>3. (Has("connect") => Has("connect")') /\ (Has("disconnect") => Has("disconnect")')
  BY <1>1 DEF Has
<1>4. \A x \in Stack' : x.do = "connect" => Has("disconnect")' \/ (workflow' = x.on /\ listener' = None)
  BY <1>1, <1>2, <1>3 DEF ToolsInv
<1>5. \A x \in Stack' : x.do = "pick" \/ x \in Erasures => x.on = workflow'
  BY <1>1, <1>2 DEF ToolsInv
<1>6. \A x \in Stack' : x.do = "add" => x.on.in = workflow'
  BY <1>1, <1>2 DEF ToolsInv
<1> QED BY <1>2, <1>3, <1>4, <1>5, <1>6 DEF ToolsInv

LEMMA ActiveKept ==
  ASSUME IInv, NEW N, Onto(calls', N, Waiting), UNCHANGED <<active, aborted, workflow>>,
         Now.do \notin {"disconnect", "connect", "restore", "deactivate", "activate"},
         \A x \in N : x.do \notin {"disconnect", "connect", "restore"}
  PROVE  ActiveInv'
<1> DEFINE Tools == {"disconnect", "connect", "restore", "deactivate", "activate"}
<1>1. /\ Stack' = N \cup Elements(Waiting) /\ Elements(Waiting) \subseteq Stack
      /\ \A x \in Stack : x.do \in Tools => x \in Stack'
  BY TheStack, StackThen
<1>2. ActiveInv
  BY DEF IInv
<1>3. /\ \A w \in {"disconnect", "connect", "restore"} : Has(w) <=> Has(w)'
      /\ Has("activate") => Has("activate")'
  BY <1>1 DEF Has
<1>4. (Leaving => Leaving') /\ \A a : Right(a)' <=> Right(a)
  BY <1>1 DEF Leaving, Right
<1>5. \A x \in Stack' : x.do = "restore" => Right(x.on)' /\ ~Has("connect")'
  BY <1>1, <1>2, <1>3, <1>4 DEF ActiveInv
<1>6. Has("disconnect")' \/ Has("connect")' \/ Has("restore")' \/ Right(active)'
  BY <1>2, <1>3, <1>4 DEF ActiveInv
<1>7. Has("disconnect")' \/ Has("restore")' => active' \subseteq {"reconstruction", workflow'} /\ Leaving'
  BY <1>2, <1>3, <1>4 DEF ActiveInv
<1>8. Has("connect")' => \/ Has("disconnect")'
                         \/ active' = {"reconstruction", workflow'}
                         \/ active' = {"reconstruction"} /\ Has("activate")'
  BY <1>2, <1>3 DEF ActiveInv
<1> QED BY <1>2, <1>5, <1>6, <1>7, <1>8 DEF ActiveInv

LEMMA HighlightKept ==
  ASSUME IInv, NEW N, Onto(calls', N, Waiting),
         UNCHANGED <<highlight, focus, index, visible, output, made, workflow>>,
         Now.do \notin {"connect", "focusChanged", "add", "pick"},
         ~(Now.do = "clear" /\ Now.on = workflow),
         \A x \in N : x.do # "add",
         \A x \in Elements(Waiting) : x.do = "add" /\ depth' = 0 => rg' = Target'
  PROVE  HighlightInv'
<1>1. /\ Stack' = N \cup Elements(Waiting) /\ Elements(Waiting) \subseteq Stack
      /\ \A x \in Stack : x.do \in {"connect", "add", "pick"} => x \in Stack'
  BY TheStack, StackThen
<1>2. HighlightInv /\ focused' = focused /\ rg' = rg
  BY DEF IInv, focus
<1>3. (Has("connect") => Has("connect")') /\ (Has("pick") => Has("pick")')
  BY <1>1 DEF Has
<1>4. Redrawing => Redrawing'
  BY <1>3 DEF Redrawing
<1>5. Lost => Lost'
  BY <1>2 DEF Lost
<1>6. \A r : Marked(r)' <=> Marked(r)
  BY DEF Marked
<1>7. Marking => Marking'
  BY <1>1, <1>2, <1>3 DEF Marking
<1>8. \A x \in Stack' : x.do = "add" =>
        /\ x.on.geometry \in 1..made'
        /\ x.on.asFocus = TRUE => x.on.geometry = rg'
        /\ depth' = 0 => rg' = Target'
  BY <1>1, <1>2 DEF HighlightInv
<1>9. Redrawing' \/ Lost' \/ \A r \in 1..made' : Marked(r)' => r = rg'
  BY <1>2, <1>4, <1>5, <1>6 DEF HighlightInv
<1>10. Redrawing' \/ Lost' \/ rg' = 0 \/ Marked(rg)' \/ Marking'
  <2>1. Marked(rg)' <=> Marked(rg)
    BY <1>2 DEF Marked
  <2> QED BY <1>2, <1>4, <1>5, <1>7, <2>1 DEF HighlightInv
<1> QED BY <1>2, <1>8, <1>9, <1>10 DEF HighlightInv

(* Signals: without a guard, emission is next. *)
Signals == IF depth > 0 THEN {} ELSE {Do("emit", None)}

(* Nothing is drawn in a reconstruction while no guard is open. *)
LEMMA NotDrawing ==
  ASSUME IInv, Now.do # "beginGuard", depth = 0
  PROVE  \A y \in Elements(Waiting) : ~Drawing(y)
<1>1. SUFFICES ASSUME NEW y \in Elements(Waiting), Drawing(y) PROVE FALSE
  OBVIOUS
<1>2. y \in Stack /\ Waiting # <<>>
  BY TheStack, ElementsEmpty
<1>3. GuardInv
  BY DEF IInv
<1>4. Has("endGuard")
  BY <1>1, <1>2, <1>3 DEF GuardInv
<1> QED BY <1>3, <1>4 DEF GuardInv

LEMMA EmitAbove ==
  ASSUME NEW t \in Seq(Entries), \A y \in Elements(t) : ~Drawing(y), NEW x \in Entries,
         x.do = "emit" \/ x.do = "focusChanged" \/ x.do = "updateFocus" \/ x.do = "updateCanvas"
         \/ x.do = "sent" \/ x.do = "pick" \/ x.do = "add"
  PROVE  Above(x, t)
<1>1. \A y \in Elements(t) : y.do # "beginGuard"
  BY DEF Drawing
<1> QED BY <1>1, AboveMeans DEF Before, Drawing

LEMMA Emitting ==
  ASSUME IInv, calls' = Emission \o Waiting, Now.do # "beginGuard"
  PROVE  /\ Onto(calls', Signals, Waiting)
         /\ \A x \in Signals : x.do = "emit" /\ ~Drawing(x) /\ depth = 0
         /\ depth = 0 => Now'.do = "emit" /\ Has("emit")'
<1>1. depth \in Nat
  BY DEF IInv, GuardInv
<1>2. PICK x : x = Do("emit", None)
  OBVIOUS
<1>3. x \in Entries /\ x.do = "emit"
  BY <1>2, Made DEF Plain
<1>4. Waiting \in Seq(Entries) /\ Stacked(Waiting)
  BY TheStack
<1>5. CASE depth > 0
  <2>1. Emission = <<>> /\ Signals = {}
    BY <1>5 DEF Emission, Signals
  <2>2. Onto(calls', {}, Waiting)
    BY <1>4, <2>1, OntoNone
  <2> QED BY <1>1, <1>5, <2>1, <2>2
<1>6. CASE depth = 0
  <2>1. Emission = <<x>> /\ Signals = {x}
    BY <1>2, <1>6 DEF Emission, Signals
  <2>2. Above(x, Waiting)
    BY <1>3, <1>4, <1>6, NotDrawing, EmitAbove
  <2>3. Onto(calls', {x}, Waiting) /\ calls' # <<>> /\ Head(calls') = x
    BY <1>3, <1>4, <2>1, <2>2, Pushed
  <2>4. Now' = x /\ Now' \in Stack'
    BY <2>3, NowThen
  <2> QED BY <1>3, <1>6, <2>1, <2>3, <2>4 DEF Drawing, Has
<1> QED BY <1>1, <1>5, <1>6

(* The guard, the canvases and the focus, when something was signalled. *)
LEMMA Signaled ==
  ASSUME IInv, calls' = Emission \o Waiting, NEW ls, ls \subseteq MainLayers, Signal(ls),
         UNCHANGED <<focus, made>>,
         Now.do # "beginGuard", Now.do # "emit", Now.do # "updateCanvas"
  PROVE  /\ Onto(calls', Signals, Waiting) /\ \A x \in Signals : x.do = "emit"
         /\ Stacked(calls)' /\ GuardInv' /\ ToldInv' /\ FocusInv'
<1>1. /\ Onto(calls', Signals, Waiting)
      /\ \A x \in Signals : x.do = "emit" /\ ~Drawing(x) /\ depth = 0
      /\ depth = 0 => Now'.do = "emit" /\ Has("emit")'
  BY Emitting
<1>2. depth' = depth /\ updated' = updated \cup ls /\ queued' = (queued \/ depth > 0)
      /\ missed' = [repaint |-> TRUE, layers |-> missed.layers \cup ls]
  BY DEF Signal, SignalOnly, WithFlags
<1>3. depth \in Nat /\ ToldInv /\ FocusInv
  BY DEF IInv, GuardInv
<1>4. Stacked(calls)' /\ Stack' = Signals \cup Elements(Waiting)
  BY <1>1, StackThen
<1>5. GuardInv'
  BY <1>1, <1>2, GuardKept
<1>6. Held' \/ (depth' = 0 /\ Now'.do = "emit" /\ Has("emit")')
  <2>1. ASSUME depth > 0 PROVE queued'
    <3>1. queued \/ depth > 0
      BY <2>1
    <3> QED BY <1>2, <3>1, Zenon
  <2>2. CASE depth > 0
    BY <1>2, <2>1, <2>2 DEF Held
  <2>3. CASE depth = 0
    BY <1>1, <1>2, <2>3
  <2> QED BY <1>3, <2>2, <2>3
<1>7. \A m : Telling(m) => Telling(m)'
  <2>1. \A x \in Stack : x.do = "updateCanvas" => x \in Stack'
    BY <1>4, TheStack
  <2> QED BY <2>1 DEF Telling
<1>8. \A m \in missed'.layers : m \in updated' \/ Telling(m)'
  BY <1>2, <1>3, <1>7 DEF ToldInv
<1>9. queued' \in BOOLEAN /\ updated' \subseteq MainLayers
      /\ missed' \in [repaint : BOOLEAN, layers : SUBSET MainLayers]
  BY <1>2, <1>3 DEF ToldInv
<1>10. ToldInv'
  BY <1>6, <1>8, <1>9 DEF ToldInv
<1>11. FocusInv'
  BY <1>3, <1>6 DEF FocusInv, focus
<1> QED BY <1>1, <1>4, <1>5, <1>10, <1>11
-----------------------------------------------------------------------------
(* Calls of clients. *)

LEMMA FromIdle ==
  ASSUME IInv, Idle
  PROVE  /\ Stack = {} /\ Waiting = <<>> /\ Elements(Waiting) = {} /\ Now.do = "idle"
         /\ listener = workflow /\ listener # None /\ Right(active) /\ (rg = Target \/ Held)
         /\ ~Redrawing /\ \A w : ~Has(w)
<1>1. Stack = {} /\ Waiting = <<>> /\ Elements(Waiting) = {} /\ Now.do = "idle"
  BY TheStack DEF Idle
<1>2. \A w : ~Has(w)
  BY <1>1 DEF Has
<1>3. listener = workflow /\ listener # None
  BY <1>2 DEF IInv, ToolsInv
<1>4. Right(active)
  BY <1>2 DEF IInv, ActiveInv
<1>5. rg = Target \/ Held
  BY <1>1 DEF IInv, FocusInv
<1>6. ~Redrawing
  BY <1>1, <1>2 DEF Redrawing
<1> QED BY <1>1, <1>2, <1>3, <1>4, <1>5, <1>6

LEMMA Single ==
  ASSUME IInv, Idle, NEW x \in Entries, calls' = <<x>>,
         x.do \notin {"clear", "deactivate", "disconnect", "activate"}
  PROVE  /\ Onto(calls', {x}, Waiting) /\ Now' = x /\ Stack' = {x} /\ Waiting' = <<>>
         /\ Stacked(calls)'
<1>1. Waiting = <<>> /\ Waiting \in Seq(Entries) /\ Stacked(Waiting) /\ Elements(Waiting) = {}
  BY FromIdle, TheStack
<1>2. calls' = <<x>> \o Waiting
  <2>1. <<x>> = <<x>> \o <<>>
    OBVIOUS
  <2> QED BY <1>1, <2>1
<1>3. Above(x, Waiting)
  BY <1>1, AboveMeans
<1>4. Onto(calls', {x}, Waiting) /\ calls' # <<>> /\ Head(calls') = x /\ Tail(calls') = Waiting
  BY <1>1, <1>2, <1>3, Pushed
<1>5. Now' = x /\ Stack' = {x} \cup Elements(Waiting) /\ Stacked(calls)'
  BY <1>4, NowThen
<1>6. Waiting' = Tail(calls')
  BY <1>4 DEF Waiting
<1> QED BY <1>1, <1>4, <1>5, <1>6

LEMMA OpenGuardStep == ASSUME IInv, OpenGuard PROVE IInv'
<1>1. Idle /\ calls' = <<>> /\ depth' = depth + 1
      /\ UNCHANGED <<queued, updated, active, layers, focus, tools, missed, aborted>>
  BY DEF OpenGuard, Start
<1>2. Waiting = <<>> /\ Elements(Waiting) = {} /\ Now.do = "idle" /\ Stack = {}
  BY <1>1, FromIdle
<1>3. depth \in Nat /\ made \in Nat
  BY DEF IInv, GuardInv, ContentsInv
<1>4. Onto(calls', {}, Waiting) /\ Stack' = {} /\ Stacked(calls)'
  <2>1. Waiting \in Seq(Entries) /\ Stacked(Waiting)
    BY TheStack
  <2>2. Onto(calls', {}, Waiting)
    BY <1>1, <1>2, <2>1 DEF Onto
  <2> QED BY <1>2, <2>2, StackThen
<1>5. GuardInv'
  BY <1>1, <1>3, <1>4 DEF GuardInv, Has
<1>6. LayersInv' /\ ContentsInv'
  BY <1>1, <1>2, <1>4, LayersKept, ContentsKept DEF layers
<1>7. ToldInv'
  BY <1>1, <1>2, <1>3, <1>4, ToldKept
<1>8. FocusInv'
  BY <1>1, <1>2, <1>3, FocusKept DEF layers
<1>9. ToolsInv'
  BY <1>1, <1>2, <1>4, ToolsKept DEF tools
<1>10. ActiveInv'
  BY <1>1, <1>2, <1>4, ActiveKept DEF tools
<1>11. HighlightInv'
  BY <1>1, <1>2, <1>4, HighlightKept DEF tools, layers
<1> QED BY <1>4, <1>5, <1>6, <1>7, <1>8, <1>9, <1>10, <1>11 DEF IInv

LEMMA CloseGuardStep == ASSUME IInv, CloseGuard PROVE IInv'
<1>1. PICK x : x = Do("endGuard", None)
  OBVIOUS
<1>2. Idle /\ calls' = <<x>> /\ depth > 0
      /\ UNCHANGED <<collection, active, layers, focus, tools, missed, aborted>>
  BY <1>1 DEF CloseGuard, Start
<1>3. x \in Entries /\ x.do = "endGuard"
  BY <1>1, Made DEF Plain
<1>4. Waiting = <<>> /\ Elements(Waiting) = {} /\ Now.do = "idle" /\ Stack = {}
  BY <1>2, FromIdle
<1>5. depth \in Nat /\ made \in Nat
  BY DEF IInv, GuardInv, ContentsInv
<1>6. Onto(calls', {x}, Waiting) /\ Stack' = {x} /\ Stacked(calls)'
  BY <1>2, <1>3, Single
<1>7. GuardInv'
  BY <1>2, <1>3, <1>5, <1>6 DEF GuardInv, Has, Sending, collection
<1>8. LayersInv' /\ ContentsInv'
  BY <1>2, <1>4, <1>6, LayersKept, ContentsKept DEF layers
<1>9. ToldInv'
  BY <1>2, <1>4, <1>6, ToldKept DEF collection
<1>10. FocusInv'
  BY <1>2, <1>4, <1>5, FocusKept DEF layers, collection
<1>11. ToolsInv'
  <2>1. x \notin Erasures
    BY <1>3, OfKind
  <2> QED BY <1>2, <1>3, <1>4, <1>6, <2>1, ToolsKept DEF tools
<1>12. ActiveInv'
  BY <1>2, <1>3, <1>4, <1>6, ActiveKept DEF tools
<1>13. HighlightInv'
  BY <1>2, <1>3, <1>4, <1>6, HighlightKept DEF tools, layers
<1> QED BY <1>6, <1>7, <1>8, <1>9, <1>10, <1>11, <1>12, <1>13 DEF IInv

(* The focus is set, and the active workflow hears of it. *)
LEMMA FocusSet ==
  ASSUME IInv, Start(<<Do("focusChanged", None)>>), focused' \in BOOLEAN, rg' \in 0..made,
         ~focused' => rg' = 0,
         UNCHANGED <<collection, active, layers, tools, missed, aborted>>
  PROVE  IInv'
<1>1. PICK x : x = Do("focusChanged", None)
  OBVIOUS
<1>2. Idle /\ calls' = <<x>>
  BY <1>1 DEF Start
<1>3. x \in Entries /\ x.do = "focusChanged"
  BY <1>1, Made DEF Plain
<1>4. Waiting = <<>> /\ Elements(Waiting) = {} /\ Now.do = "idle" /\ Stack = {}
      /\ listener = workflow /\ listener # None
  BY <1>2, FromIdle
<1>5. depth \in Nat /\ made \in Nat
  BY DEF IInv, GuardInv, ContentsInv
<1>6. Onto(calls', {x}, Waiting) /\ Now' = x /\ Stack' = {x} /\ Stacked(calls)'
  BY <1>2, <1>3, Single
<1>7. GuardInv'
  BY <1>3, <1>5, <1>6 DEF GuardInv, Has, Sending, Drawing, collection
<1>8. LayersInv' /\ ContentsInv'
  BY <1>4, <1>6, LayersKept, ContentsKept DEF layers
<1>9. ToldInv'
  BY <1>4, <1>6, ToldKept DEF collection
<1>10. FocusInv'
  BY <1>3, <1>4, <1>6 DEF FocusInv, tools, layers
<1>11. ToolsInv'
  <2>1. x \notin Erasures
    BY <1>3, OfKind
  <2> QED BY <1>3, <1>4, <1>6, <2>1, ToolsKept DEF tools
<1>12. ActiveInv'
  BY <1>3, <1>4, <1>6, ActiveKept DEF tools
<1>13. HighlightInv'
  <2>1. Redrawing'
    BY <1>3, <1>4, <1>6 DEF Redrawing, tools
  <2>2. \A y \in Stack' : y.do # "add"
    BY <1>3, <1>6
  <2> QED BY <2>1, <2>2 DEF IInv, HighlightInv, tools, layers
<1> QED BY <1>6, <1>7, <1>8, <1>9, <1>10, <1>11, <1>12, <1>13 DEF IInv

(* What can be found. *)
LEMMA Finding ==
  ASSUME IInv
  PROVE  /\ Shown \subseteq 1..made /\ IsFiniteSet(Shown)
         /\ Found \in 0..made /\ (Found = 0 <=> Shown = {}) /\ (Found # 0 => Found \in Shown)
         /\ Target \in 0..made
<1>1. made \in Nat /\ contents \in [1..Cardinality(VisualLayers) -> 0..made] /\ children \in Seq(Nat)
      /\ focused \in BOOLEAN
  BY DEF IInv, ContentsInv, LayersInv, FocusInv
<1>2. ASSUME NEW i \in DOMAIN children PROVE contents[children[i]] \in 0..made
  <2>1. children[i] \in Elements(children) /\ children[i] \in Nat
    BY <1>1 DEF Elements
  <2>2. Elements(children) \subseteq 1..(Len(children) + Len(free))
        /\ Len(children) + Len(free) <= Cardinality(VisualLayers)
    BY DEF IInv, LayersInv
  <2>3. Cardinality(VisualLayers) \in Nat
    BY FS_CardinalityType, RenderedAssumption
  <2>4. Len(children) \in Nat /\ Len(free) \in Nat
    BY DEF IInv, LayersInv
  <2>5. children[i] \in 1..Cardinality(VisualLayers)
    BY <2>1, <2>2, <2>3, <2>4
  <2> QED BY <1>1, <2>5
<1>3. Shown \subseteq 1..made
  BY <1>1, <1>2 DEF Shown
<1>4. IsFiniteSet(Shown)
  <2>1. IsFiniteSet(1..made)
    BY <1>1, FS_Interval
  <2> QED BY <1>3, <2>1, FS_Subset
<1>5. CASE Shown = {}
  <2>1. Found = 0 /\ Target = 0
    BY <1>5 DEF Found, Target
  <2> QED BY <1>1, <1>3, <1>4, <1>5, <2>1
<1>6. CASE Shown # {}
  <2>1. PICK r \in Shown : \A s \in Shown : r <= s
    <3>1. Shown \subseteq Nat
      BY <1>1, <1>3
    <3> QED BY <1>6, <3>1, Least
  <2>2. Found \in Shown
    BY <1>6, <2>1 DEF Found
  <2>3. Found \in 1..made
    BY <1>3, <2>2
  <2>4. Target = 0 \/ Target = Found
    BY DEF Target
  <2> QED BY <1>1, <1>3, <1>4, <1>6, <2>2, <2>3, <2>4
<1> QED BY <1>5, <1>6

LEMMA SetFocusStep == ASSUME IInv, NEW r \in Shown, SetFocus(r) PROVE IInv'
<1>1. r \in 0..made
  BY Finding
<1> QED BY <1>1, FocusSet DEF SetFocus

LEMMA SetFocusOnPropertyStep == ASSUME IInv, SetFocusOnProperty PROVE IInv'
<1>1. Found \in 0..made
  BY Finding
<1> QED BY <1>1, FocusSet DEF SetFocusOnProperty

LEMMA UnsetFocusStep == ASSUME IInv, UnsetFocus PROVE IInv'
<1>1. 0 \in 0..made
  BY DEF IInv, ContentsInv
<1>2. focused' \in BOOLEAN /\ rg' = 0
  BY DEF UnsetFocus
<1>3. /\ Start(<<Do("focusChanged", None)>>)
      /\ UNCHANGED <<collection, active, layers, tools, missed, aborted>>
  BY DEF UnsetFocus
<1> QED BY <1>1, <1>2, <1>3, FocusSet

(* Without a geometry waiting to be drawn, the focus is not lost if it is  *)
(* on what can be found.                                                   *)
LEMMA NotLost ==
  ASSUME IInv, \A x \in Stack : x.do # "render", rg = Target
  PROVE  ~Lost
<1>1. SUFFICES ASSUME Lost PROVE FALSE
  OBVIOUS
<1>2. rg = Found /\ rg # 0
  BY <1>1 DEF Lost, Target
<1>3. rg \in Shown
  BY <1>2, Finding
<1>4. PICK i \in DOMAIN children : rg = contents[children[i]]
  BY <1>3 DEF Shown
<1>5. children[i] \in Elements(children)
  BY DEF Elements
<1>6. PICK k \in VisualLayers : children[i] = index[k] /\ index[k] # 0
  BY <1>5 DEF IInv, LayersInv
<1>7. contents[index[k]] = Drawn(k)
  BY <1>6 DEF IInv, ContentsInv
<1>8. visible[k] /\ output[k] = rg
  BY <1>2, <1>4, <1>6, <1>7 DEF Drawn
<1> QED BY <1>1, <1>6, <1>8 DEF Lost

(* The highlight, when a client has called. *)
LEMMA HighlightIdle ==
  ASSUME IInv, Idle, Lost => Lost', \A y \in Stack' : y.do # "add",
         UNCHANGED <<rg, highlight, workflow>>, made' \in Nat, made <= made'
  PROVE  HighlightInv'
<1>1. Stack = {} /\ ~Redrawing
  BY FromIdle
<1>2. ~Marking
  BY <1>1 DEF Marking, Has
<1>3. HighlightInv /\ made \in Nat
  BY DEF IInv, ContentsInv
<1>4. highlight' \in [Workflows -> SUBSET ((1..made') \X BOOLEAN)]
  <2>1. 1..made \subseteq 1..made'
    BY <1>3
  <2> QED BY <1>3, <2>1 DEF HighlightInv
<1>5. ASSUME NEW r \in 1..made', Marked(r)' PROVE Lost \/ r = rg'
  <2>1. Marked(r)
    BY <1>5 DEF Marked
  <2>2. r \in 1..made
    BY <1>3, <2>1 DEF HighlightInv, Marked, IInv, ToolsInv
  <2> QED BY <1>1, <1>3, <2>1, <2>2 DEF HighlightInv
<1>6. Lost \/ rg' = 0 \/ Marked(rg)'
  BY <1>1, <1>2, <1>3 DEF HighlightInv, Marked
<1> QED BY <1>4, <1>5, <1>6 DEF HighlightInv

LEMMA SetVisibleStep == ASSUME IInv, NEW l \in VisualLayers, SetVisible(l) PROVE IInv'
<1>1. PICK x : x = Do("render", l)
  OBVIOUS
<1>2. Idle /\ calls' = <<x>> /\ index[l] # 0 /\ ~HiddenUnderGuard(l)
      /\ visible' = [visible EXCEPT ![l] = ~@]
      /\ UNCHANGED <<collection, active, children, free, index, contents, output, made, focus, tools, missed, aborted>>
  BY <1>1 DEF SetVisible, Start
<1>3. x \in Entries /\ x.do = "render" /\ x.on = l
  BY <1>1, Made
<1>4. /\ Waiting = <<>> /\ Elements(Waiting) = {} /\ Now.do = "idle" /\ Stack = {}
      /\ listener = workflow /\ ~Redrawing /\ (rg = Target \/ Held)
  BY <1>2, FromIdle
<1>5. depth \in Nat /\ made \in Nat
  BY DEF IInv, GuardInv, ContentsInv
<1>6. Onto(calls', {x}, Waiting) /\ Now' = x /\ Stack' = {x} /\ Waiting' = <<>> /\ Stacked(calls)'
  BY <1>2, <1>3, Single
<1>7. GuardInv'
  BY <1>2, <1>3, <1>5, <1>6 DEF GuardInv, Has, Sending, collection
<1>8. LayersInv'
  BY <1>2, LayersKept
<1>9. ContentsInv'
  <2>1. ContentsInv /\ LayersInv
    BY DEF IInv
  <2>2. visible' \in [VisualLayers -> BOOLEAN] /\ \A k \in VisualLayers : k # l => visible'[k] = visible[k]
    BY <1>2, <2>1 DEF ContentsInv
  <2>3. ASSUME NEW k \in VisualLayers, index[k] # 0
        PROVE  contents[index[k]] = Drawn(k)' \/ \E y \in Stack' : y.do = "render" /\ y.on = k
    <3>1. CASE k = l
      BY <1>3, <1>6, <3>1
    <3>2. CASE k # l
      <4>1. contents[index[k]] = Drawn(k)
        BY <1>4, <2>1, <2>3 DEF ContentsInv
      <4>2. Drawn(k)' = Drawn(k)
        BY <1>2, <2>2, <3>2 DEF Drawn
      <4> QED BY <4>1, <4>2
    <3> QED BY <3>1, <3>2
  <2> QED BY <1>2, <2>1, <2>2, <2>3 DEF ContentsInv
<1>10. ToldInv'
  BY <1>2, <1>4, <1>6, ToldKept DEF collection
<1>11. FocusInv'
  BY <1>2, <1>4, <1>5, FocusKept DEF collection
<1>12. ToolsInv'
  <2>1. x \notin Erasures
    BY <1>3, OfKind
  <2> QED BY <1>2, <1>3, <1>4, <1>6, <2>1, ToolsKept DEF tools
<1>13. ActiveInv'
  BY <1>2, <1>3, <1>4, <1>6, ActiveKept DEF tools
<1>14. HighlightInv'
  <2>1. Lost => Lost'
    <3>1. SUFFICES ASSUME Lost PROVE Lost'
      OBVIOUS
    <3>2. depth > 0 /\ rg # 0
      <4>1. rg # Target
        BY <1>4, <3>1, NotLost
      <4> QED BY <1>4, <3>1, <4>1 DEF Lost, Held
    <3>3. visible[l] \/ output[l] # rg
      BY <1>2, <3>2 DEF HiddenUnderGuard
    <3>4. ASSUME NEW k \in VisualLayers, index[k] # 0, visible'[k] PROVE output[k] # rg
      <4>1. CASE k = l
        <5>1. ~visible[l]
          BY <1>2, <3>4, <4>1 DEF IInv, ContentsInv
        <5> QED BY <3>3, <4>1, <5>1
      <4>2. CASE k # l
        <5>1. visible[k]
          BY <1>2, <3>4, <4>2 DEF IInv, ContentsInv
        <5> QED BY <3>1, <3>4, <5>1 DEF Lost
      <4> QED BY <4>1, <4>2
    <3> QED BY <1>2, <3>1, <3>4 DEF Lost, focus
  <2>2. \A y \in Stack' : y.do # "add"
    BY <1>3, <1>6
  <2> QED BY <1>2, <1>5, <2>1, <2>2, HighlightIdle DEF tools, focus
<1> QED BY <1>6, <1>7, <1>8, <1>9, <1>10, <1>11, <1>12, <1>13, <1>14 DEF IInv

(* Sequences that repeat no element, when one is put on or taken off. *)
LEMMA DistinctTail ==
  ASSUME NEW A, NEW s \in Seq(A), s # <<>>, Distinct(s)
  PROVE  Distinct(Tail(s)) /\ Head(s) \notin Elements(Tail(s))
<1>1. /\ 1 \in DOMAIN s /\ Head(s) = s[1]
      /\ \A i \in DOMAIN Tail(s) : i \in Nat /\ 0 < i /\ i + 1 \in DOMAIN s /\ Tail(s)[i] = s[i + 1]
  BY TailShifts
<1>2. ASSUME NEW i \in DOMAIN Tail(s), NEW j \in DOMAIN Tail(s), Tail(s)[i] = Tail(s)[j]
      PROVE  i = j
  <2>1. i + 1 = j + 1
    BY <1>1, <1>2 DEF Distinct
  <2> QED BY <1>1, <2>1
<1>3. ASSUME NEW i \in DOMAIN Tail(s) PROVE Tail(s)[i] # Head(s)
  BY <1>1 DEF Distinct
<1> QED BY <1>2, <1>3 DEF Distinct, Elements

LEMMA DistinctPush ==
  ASSUME NEW A, NEW x \in A, NEW t \in Seq(A), Distinct(t), x \notin Elements(t)
  PROVE  /\ Distinct(<<x>> \o t) /\ <<x>> \o t \in Seq(A) /\ Len(<<x>> \o t) = Len(t) + 1
         /\ Elements(<<x>> \o t) = {x} \cup Elements(t)
<1>1. PICK s : s = <<x>> \o t
  OBVIOUS
<1>2. /\ s \in Seq(A) /\ Len(s) = Len(t) + 1 /\ s[1] = x
      /\ \A i \in DOMAIN s : i \in Nat /\ 1 <= i /\ (1 < i => i - 1 \in DOMAIN t /\ s[i] = t[i - 1])
  BY <1>1
<1>3. Elements(s) = {x} \cup Elements(t)
  BY <1>1, Pushing
<1>4. ASSUME NEW i \in DOMAIN s, NEW j \in DOMAIN s, s[i] = s[j], 1 < i, 1 < j PROVE i = j
  <2>1. i - 1 = j - 1
    BY <1>2, <1>4 DEF Distinct
  <2> QED BY <1>2, <2>1
<1>5. ASSUME NEW i \in DOMAIN s, 1 < i PROVE s[i] # x
  BY <1>2, <1>5 DEF Elements
<1>6. Distinct(s)
  <2>1. \A i \in DOMAIN s : i = 1 \/ 1 < i
    BY <1>2
  <2> QED BY <1>2, <1>4, <1>5, <2>1 DEF Distinct
<1> QED BY <1>1, <1>2, <1>3, <1>6

(* There are no more child layers than visual layers. *)
LEMMA RoomForLayer ==
  ASSUME IInv, NEW l \in VisualLayers, index[l] = 0
  PROVE  Len(children) + 1 <= Cardinality(VisualLayers)
<1> DEFINE E == Elements(children)
           others == VisualLayers \ {l}
           f == [e \in E |-> CHOOSE k \in VisualLayers : index[k] = e]
<1>1. /\ children \in Seq(Nat) /\ Distinct(children)
      /\ E = {index[k] : k \in VisualLayers} \ {0}
  BY DEF IInv, LayersInv
<1>2. IsFiniteSet(others) /\ Cardinality(others) = Cardinality(VisualLayers) - 1
      /\ Cardinality(VisualLayers) \in Nat
  BY RenderedAssumption, FS_RemoveElement, FS_CardinalityType
<1>3. Len(children) = Cardinality(E)
  BY <1>1, ElementsCounted
<1>4. ASSUME NEW e \in E PROVE f[e] \in others /\ index[f[e]] = e
  <2>1. \E k \in VisualLayers : index[k] = e
    BY <1>1
  <2>2. f[e] \in VisualLayers /\ index[f[e]] = e
    BY <2>1
  <2> QED BY <1>1, <2>2
<1> HIDE DEF f, others
<1>5. f \in [E -> others]
  <2>1. f = [e \in E |-> f[e]]
    BY DEF f
  <2> QED BY <1>4, <2>1
<1>6. f \in Injection(E, others)
  BY <1>4, <1>5 DEF Injection, IsInjective
<1>7. Cardinality(E) <= Cardinality(others)
  BY <1>2, <1>6, FS_Injection
<1> QED BY <1>2, <1>3, <1>7 DEF others

LEMMA AddLayerStep == ASSUME IInv, NEW l \in VisualLayers, AddLayer(l) PROVE IInv'
<1>1. PICK i : i = IF free # <<>> THEN Head(free) ELSE Len(children) + 1
  OBVIOUS
<1>2. /\ Idle /\ calls' = Emission /\ index[l] = 0
      /\ children' = Append(children, i)
      /\ free' = IF free # <<>> THEN Tail(free) ELSE free
      /\ index' = [index EXCEPT ![l] = i]
      /\ visible' = [visible EXCEPT ![l] = TRUE]
      /\ Signal({"reconstruction"})
      /\ UNCHANGED <<active, contents, output, made, focus, tools, aborted>>
  BY <1>1 DEF AddLayer, Start
<1>3. Waiting = <<>> /\ Elements(Waiting) = {} /\ Now.do = "idle" /\ Stack = {}
  BY <1>2, FromIdle
<1>4. calls' = Emission \o Waiting
  <2>1. Emission \o <<>> = Emission
    BY DEF Emission
  <2> QED BY <1>2, <1>3, <2>1
<1>5. /\ Onto(calls', Signals, Waiting) /\ \A x \in Signals : x.do = "emit"
      /\ Stacked(calls)' /\ GuardInv' /\ ToldInv' /\ FocusInv'
  <2>1. {"reconstruction"} \subseteq MainLayers
    BY DEF MainLayers
  <2> QED BY <1>2, <1>3, <1>4, <2>1, Signaled
<1>6. \A x \in Signals : x \notin Erasures
  BY <1>5 DEF Erasures, Kind
<1>7. Stack' = Signals
  BY <1>3, <1>5, StackThen
<1>8. LayersInv /\ ContentsInv
  BY DEF IInv
<1>9. Cardinality(VisualLayers) \in Nat
  BY FS_CardinalityType, RenderedAssumption
<1>10. /\ i \in Nat /\ i # 0 /\ i \notin Elements(children)
       /\ free' \in Seq(Nat) /\ Distinct(free') /\ Elements(free') = Elements(free) \ {i}
       /\ Elements(free) \subseteq {i} \/ free # <<>>
       /\ Elements(children) \cup Elements(free) \cup {i} = 1..(Len(children) + 1 + Len(free'))
       /\ Len(children) + 1 + Len(free') <= Cardinality(VisualLayers)
  <2>1. /\ Len(children) \in Nat /\ Len(free) \in Nat /\ free \in Seq(Nat) /\ Distinct(free)
        /\ Elements(children) \cup Elements(free) = 1..(Len(children) + Len(free))
        /\ Elements(children) \cap Elements(free) = {}
        /\ Len(children) + Len(free) <= Cardinality(VisualLayers)
    BY <1>8 DEF LayersInv
  <2>2. CASE free # <<>>
    <3>1. i = Head(free) /\ free' = Tail(free)
      BY <1>1, <1>2, <2>2
    <3>2. /\ i \in Nat /\ free' \in Seq(Nat) /\ i \in Elements(free)
          /\ Elements(free) = {i} \cup Elements(free')
      BY <2>1, <2>2, <3>1, ElementsTail
    <3>3. Distinct(free') /\ i \notin Elements(free')
      BY <2>1, <2>2, <3>1, DistinctTail
    <3>4. Len(free') = Len(free) - 1
      BY <2>1, <2>2, <3>1
    <3>5. Len(children) + 1 + Len(free') = Len(children) + Len(free)
      BY <2>1, <3>4
    <3>6. i # 0 /\ i \notin Elements(children)
      BY <2>1, <3>2
    <3> QED BY <2>1, <2>2, <3>2, <3>3, <3>5, <3>6
  <2>3. CASE free = <<>>
    <3>1. i = Len(children) + 1 /\ free' = <<>>
      BY <1>1, <1>2, <2>3
    <3>2. Elements(free) = {} /\ Elements(free') = {} /\ Distinct(free') /\ Len(free) = 0 /\ Len(free') = 0
      BY <2>3, <3>1, ElementsEmpty
    <3>3. Elements(children) = 1..Len(children)
      BY <2>1, <3>2
    <3>4. Len(children) + 1 <= Cardinality(VisualLayers)
      BY <1>2, RoomForLayer
    <3>5. i \in Nat /\ i # 0 /\ i \notin Elements(children) /\ Len(children) + 1 + Len(free') = i
      BY <2>1, <3>1, <3>2, <3>3
    <3>6. Elements(children) \cup {i} = 1..i
      BY <2>1, <3>1, <3>3
    <3>7. free' \in Seq(Nat)
      BY <3>1
    <3>8. Elements(children) \cup Elements(free) \cup {i} = 1..(Len(children) + 1 + Len(free'))
      BY <3>2, <3>5, <3>6
    <3>9. Len(children) + 1 + Len(free') <= Cardinality(VisualLayers)
      BY <3>1, <3>4, <3>5
    <3> QED BY <3>2, <3>5, <3>7, <3>8, <3>9
  <2> QED BY <2>2, <2>3
<1>11. /\ children' \in Seq(Nat) /\ Distinct(children') /\ Elements(children') = Elements(children) \cup {i}
       /\ Len(children') = Len(children) + 1
  <2>1. children \in Seq(Nat) /\ Distinct(children)
    BY <1>8 DEF LayersInv
  <2> QED BY <1>2, <1>10, <2>1, ElementsAppend
<1>12. /\ index \in [VisualLayers -> Nat] /\ index' \in [VisualLayers -> Nat] /\ index'[l] = i
       /\ \A k \in VisualLayers : k # l => index'[k] = index[k]
  BY <1>2, <1>8, <1>10 DEF LayersInv
<1>13. \A k \in VisualLayers : index[k] # i
  BY <1>8, <1>10 DEF LayersInv
<1>14. Elements(children') = {index'[k] : k \in VisualLayers} \ {0}
  <2>1. Elements(children) = {index[k] : k \in VisualLayers} \ {0}
    BY <1>8 DEF LayersInv
  <2>2. ASSUME NEW e \in Elements(children) PROVE e \in {index'[k] : k \in VisualLayers} \ {0}
    <3>1. PICK k \in VisualLayers : e = index[k] /\ e # 0
      BY <2>1
    <3>2. k # l
      BY <1>2, <3>1
    <3> QED BY <1>12, <3>1, <3>2
  <2>3. ASSUME NEW k \in VisualLayers, index'[k] # 0 PROVE index'[k] \in Elements(children) \cup {i}
    BY <1>12, <2>1, <2>3
  <2> QED BY <1>10, <1>11, <1>12, <2>2, <2>3
<1>15. LayersInv'
  <2>1. \A j, k \in VisualLayers : index'[j] # 0 /\ index'[j] = index'[k] => j = k
    <3>1. \A j, k \in VisualLayers : index[j] # 0 /\ index[j] = index[k] => j = k
      BY <1>8 DEF LayersInv
    <3> QED BY <1>12, <1>13, <3>1
  <2>2. Elements(children') \cap Elements(free') = {}
    <3>1. Elements(children) \cap Elements(free) = {}
      BY <1>8 DEF LayersInv
    <3> QED BY <1>10, <1>11, <3>1
  <2>3. Elements(children') \cup Elements(free') = 1..(Len(children') + Len(free'))
    BY <1>10, <1>11
  <2>4. Len(children') + Len(free') <= Cardinality(VisualLayers)
    BY <1>10, <1>11
  <2> QED BY <1>10, <1>11, <1>12, <1>14, <2>1, <2>2, <2>3, <2>4 DEF LayersInv
<1>16. /\ visible' \in [VisualLayers -> BOOLEAN] /\ visible'[l] = TRUE
       /\ \A k \in VisualLayers : k # l => visible'[k] = visible[k]
  BY <1>2, <1>8 DEF ContentsInv
<1>17. output[l] = 0
  BY <1>2, <1>8 DEF ContentsInv
<1>18. ContentsInv'
  <2>1. i \in DOMAIN contents /\ contents[i] = 0
    <3>1. Len(children) \in Nat /\ Len(free') \in Nat
      BY <1>8, <1>10 DEF LayersInv
    <3>2. i \in 1..Cardinality(VisualLayers)
      BY <1>9, <1>10, <3>1
    <3> QED BY <1>8, <1>10, <3>2 DEF ContentsInv
  <2>2. ASSUME NEW k \in VisualLayers, index'[k] # 0 PROVE contents[index'[k]] = Drawn(k)'
    <3>1. CASE k = l
      BY <1>2, <1>12, <1>17, <2>1, <3>1 DEF Drawn
    <3>2. CASE k # l
      <4>1. Drawn(k)' = Drawn(k)
        BY <1>2, <1>16, <3>2 DEF Drawn
      <4> QED BY <1>3, <1>8, <1>12, <2>2, <3>2, <4>1 DEF ContentsInv
    <3> QED BY <3>1, <3>2
  <2>3. \A j \in DOMAIN contents' : j \notin Elements(children') => contents'[j] = 0
    BY <1>2, <1>8, <1>11 DEF ContentsInv
  <2>4. \A k \in VisualLayers : index'[k] = 0 => output'[k] = 0
    BY <1>2, <1>8, <1>12, <1>17 DEF ContentsInv
  <2> QED BY <1>2, <1>8, <1>16, <2>2, <2>3, <2>4 DEF ContentsInv
<1>19. ToolsInv'
  BY <1>2, <1>3, <1>5, <1>6, ToolsKept DEF tools
<1>20. ActiveInv'
  BY <1>2, <1>3, <1>5, ActiveKept DEF tools
<1>21. HighlightInv'
  <2>1. Lost => Lost'
    BY <1>2, <1>12, <1>16, <1>17 DEF Lost, focus
  <2>2. \A y \in Stack' : y.do # "add"
    BY <1>5, <1>7
  <2>3. made' \in Nat /\ made <= made'
    BY <1>2, <1>8 DEF ContentsInv
  <2> QED BY <1>2, <2>1, <2>2, <2>3, HighlightIdle DEF tools, focus
<1> QED BY <1>5, <1>15, <1>18, <1>19, <1>20, <1>21 DEF IInv

LEMMA RemoveLayerStep == ASSUME IInv, NEW l \in VisualLayers, RemoveLayer(l) PROVE IInv'
<1>1. PICK i : i = index[l]
  OBVIOUS
<1>2. /\ Idle /\ calls' = Emission /\ i # 0
      /\ children' = Only(children, DOMAIN contents \ {i})
      /\ free' = <<i>> \o free
      /\ contents' = [contents EXCEPT ![i] = 0]
      /\ index' = [index EXCEPT ![l] = 0]
      /\ output' = [output EXCEPT ![l] = 0]
      /\ Signal({"reconstruction"})
      /\ UNCHANGED <<active, visible, made, focus, tools, aborted>>
  BY <1>1 DEF RemoveLayer, Start, Unlisted
<1>3. Waiting = <<>> /\ Elements(Waiting) = {} /\ Now.do = "idle" /\ Stack = {}
  BY <1>2, FromIdle
<1>4. calls' = Emission \o Waiting
  <2>1. Emission \o <<>> = Emission
    BY DEF Emission
  <2> QED BY <1>2, <1>3, <2>1
<1>5. /\ Onto(calls', Signals, Waiting) /\ \A x \in Signals : x.do = "emit"
      /\ Stacked(calls)' /\ GuardInv' /\ ToldInv' /\ FocusInv'
  <2>1. {"reconstruction"} \subseteq MainLayers
    BY DEF MainLayers
  <2> QED BY <1>2, <1>3, <1>4, <2>1, Signaled
<1>6. \A x \in Signals : x \notin Erasures
  BY <1>5 DEF Erasures, Kind
<1>7. Stack' = Signals
  BY <1>3, <1>5, StackThen
<1>8. LayersInv /\ ContentsInv
  BY DEF IInv
<1>9. /\ children \in Seq(Nat) /\ Distinct(children) /\ free \in Seq(Nat) /\ Distinct(free)
      /\ Elements(children) \cap Elements(free) = {}
      /\ Elements(children) \cup Elements(free) = 1..(Len(children) + Len(free))
      /\ Len(children) + Len(free) <= Cardinality(VisualLayers)
      /\ index \in [VisualLayers -> Nat]
      /\ Elements(children) = {index[k] : k \in VisualLayers} \ {0}
      /\ \A j, k \in VisualLayers : index[j] # 0 /\ index[j] = index[k] => j = k
  BY <1>8 DEF LayersInv
<1>10. Cardinality(VisualLayers) \in Nat /\ Len(children) \in Nat /\ Len(free) \in Nat
  BY <1>9, FS_CardinalityType, RenderedAssumption
<1>11. DOMAIN contents = 1..Cardinality(VisualLayers)
  BY <1>8 DEF ContentsInv
<1>12. i \in Nat /\ i \in Elements(children) /\ i \in DOMAIN contents
       /\ Elements(children) \subseteq DOMAIN contents
  <2>1. i \in Elements(children)
    BY <1>1, <1>2, <1>9
  <2>2. Elements(children) \subseteq DOMAIN contents
    BY <1>9, <1>10, <1>11
  <2> QED BY <1>11, <2>1, <2>2
<1>13. /\ children' \in Seq(Nat) /\ Distinct(children') /\ Elements(children') = Elements(children) \ {i}
       /\ Len(children') = Len(children) - 1
  <2>1. PICK S : S = DOMAIN contents \ {i}
    OBVIOUS
  <2>2. children' = Only(children, S)
    BY <1>2, <2>1
  <2>3. /\ children' \in Seq(Nat \cap S) /\ Elements(children') = Elements(children) \cap S
        /\ Distinct(children')
    BY <1>9, <2>2, OnlyElements
  <2>4. children' \in Seq(Nat)
    BY <2>3
  <2>5. Elements(children') = Elements(children) \ {i}
    BY <1>12, <2>1, <2>3
  <2>6. IsFiniteSet(Elements(children)) /\ Len(children) = Cardinality(Elements(children))
    BY <1>9, ElementsCounted
  <2>7. Len(children') = Cardinality(Elements(children'))
    BY <2>3, <2>4, ElementsCounted
  <2>8. Cardinality(Elements(children) \ {i}) = Cardinality(Elements(children)) - 1
    BY <1>12, <2>6, FS_RemoveElement
  <2> QED BY <2>3, <2>4, <2>5, <2>6, <2>7, <2>8
<1>14. /\ free' \in Seq(Nat) /\ Distinct(free') /\ Elements(free') = {i} \cup Elements(free)
       /\ Len(free') = Len(free) + 1
  <2>1. i \notin Elements(free)
    BY <1>9, <1>12
  <2> QED BY <1>2, <1>9, <1>12, <2>1, DistinctPush
<1>15. /\ index' \in [VisualLayers -> Nat] /\ index'[l] = 0
       /\ \A k \in VisualLayers : k # l => index'[k] = index[k] /\ index[k] # i
  BY <1>1, <1>2, <1>9
<1>16. LayersInv'
  <2>1. \A j, k \in VisualLayers : index'[j] # 0 /\ index'[j] = index'[k] => j = k
    BY <1>9, <1>15
  <2>2. Elements(children') \cap Elements(free') = {}
    BY <1>9, <1>13, <1>14
  <2>3. Elements(children') \cup Elements(free') = Elements(children) \cup Elements(free)
    BY <1>12, <1>13, <1>14
  <2>4. Len(children') + Len(free') = Len(children) + Len(free)
    BY <1>10, <1>13, <1>14
  <2>5. Elements(children') = {index'[k] : k \in VisualLayers} \ {0}
    <3>1. ASSUME NEW e \in Elements(children') PROVE e \in {index'[k] : k \in VisualLayers} \ {0}
      <4>1. PICK k \in VisualLayers : e = index[k] /\ e # 0 /\ e # i
        BY <1>9, <1>13
      <4> QED BY <1>1, <1>15, <4>1
    <3>2. ASSUME NEW k \in VisualLayers, index'[k] # 0 PROVE index'[k] \in Elements(children')
      <4>1. index'[k] = index[k] /\ index[k] # i /\ index[k] # 0
        BY <1>15, <3>2
      <4>2. index[k] \in Elements(children)
        BY <1>9, <4>1
      <4> QED BY <1>13, <4>1, <4>2
    <3> QED BY <3>1, <3>2
  <2>6. Elements(children') \cup Elements(free') = 1..(Len(children') + Len(free'))
        /\ Len(children') + Len(free') <= Cardinality(VisualLayers)
    BY <1>9, <2>3, <2>4
  <2> QED BY <1>13, <1>14, <1>15, <2>1, <2>2, <2>5, <2>6 DEF LayersInv
<1>17. /\ output' \in [VisualLayers -> 0..made] /\ output'[l] = 0
       /\ \A k \in VisualLayers : k # l => output'[k] = output[k]
       /\ contents' \in [1..Cardinality(VisualLayers) -> 0..made] /\ contents'[i] = 0
       /\ \A j \in DOMAIN contents : j # i => contents'[j] = contents[j]
  BY <1>2, <1>8, <1>12 DEF ContentsInv
<1>18. ContentsInv'
  <2>1. ASSUME NEW k \in VisualLayers, index'[k] # 0 PROVE contents'[index'[k]] = Drawn(k)'
    <3>1. k # l /\ index'[k] = index[k] /\ index[k] # i
      BY <1>15, <2>1
    <3>2. index[k] \in DOMAIN contents
      BY <1>9, <1>12, <2>1, <3>1
    <3>3. contents[index[k]] = Drawn(k)
      BY <1>3, <1>8, <2>1, <3>1 DEF ContentsInv
    <3>4. Drawn(k)' = Drawn(k)
      BY <1>2, <1>17, <3>1 DEF Drawn
    <3> QED BY <1>17, <3>1, <3>2, <3>3, <3>4
  <2>2. \A j \in DOMAIN contents' : j \notin Elements(children') => contents'[j] = 0
    BY <1>8, <1>11, <1>13, <1>17 DEF ContentsInv
  <2>3. \A k \in VisualLayers : index'[k] = 0 => output'[k] = 0
    BY <1>8, <1>15, <1>17 DEF ContentsInv
  <2>4. made' \in Nat /\ made' = made /\ visible' \in [VisualLayers -> BOOLEAN]
    BY <1>2, <1>8 DEF ContentsInv
  <2> QED BY <1>17, <2>1, <2>2, <2>3, <2>4 DEF ContentsInv
<1>19. ToolsInv'
  BY <1>2, <1>3, <1>5, <1>6, ToolsKept DEF tools
<1>20. ActiveInv'
  BY <1>2, <1>3, <1>5, ActiveKept DEF tools
<1>21. HighlightInv'
  <2>1. Lost => Lost'
    BY <1>2, <1>15, <1>17 DEF Lost, focus
  <2>2. \A y \in Stack' : y.do # "add"
    BY <1>5, <1>7
  <2>3. made' \in Nat /\ made <= made'
    BY <1>2, <1>8 DEF ContentsInv
  <2> QED BY <1>2, <2>1, <2>2, <2>3, HighlightIdle DEF tools, focus
<1> QED BY <1>5, <1>16, <1>18, <1>19, <1>20, <1>21 DEF IInv

(* A sequence on a stack, when each entry may be above every other and     *)
(* finds what it needs below the sequence.                                 *)
LEMMA OntoMany ==
  ASSUME NEW e \in Seq(Entries), NEW t \in Seq(Entries), Stacked(t),
         \A x \in Elements(e) : Above(x, t),
         \A x \in Elements(e), y \in Elements(e) : Before(x, y)
  PROVE  Onto(e \o t, Elements(e), t)
<1>1. Elements(e) \subseteq Entries /\ Elements(t) \subseteq Entries
  BY ElementsTyped
<1>2. e \o t \in Seq(Entries) /\ Elements(e \o t) = Elements(e) \cup Elements(t)
  BY ElementsConcat
<1>3. \A i, j \in DOMAIN e : <<e[i], e[j]>> \in Order
  <2>1. \A x \in Elements(e), y \in Elements(e) : <<x, y>> \in Order
    BY <1>1 DEF Order
  <2> QED BY <2>1 DEF Elements
<1>4. Ordered(e, Order)
  BY <1>3 DEF Ordered
<1>5. \A x \in Elements(e), y \in Elements(t) : <<x, y>> \in Order
  BY DEF Above
<1>6. Ordered(e \o t, Order)
  <2>1. Ordered(t, Order)
    BY DEF Stacked
  <2> QED BY <1>4, <1>5, <2>1, StackConcat
<1>7. ASSUME NEW K, NEW L, Followed(t, K, L),
             \A x \in Elements(e) : x \in K => \E y \in Elements(t) : y \in L
      PROVE  Followed(e \o t, K, L)
  <2>1. /\ Len(e) \in Nat
        /\ \A i \in DOMAIN e : i \in Nat /\ i <= Len(e) /\ i \in DOMAIN (e \o t) /\ (e \o t)[i] = e[i]
        /\ \A i \in DOMAIN t : /\ i \in Nat /\ 0 < i
                               /\ i + Len(e) \in DOMAIN (e \o t) /\ (e \o t)[i + Len(e)] = t[i]
        /\ \A i \in DOMAIN (e \o t) :
             \/ i \in DOMAIN e
             \/ i - Len(e) \in DOMAIN t /\ (e \o t)[i] = t[i - Len(e)] /\ Len(e) < i
        /\ DOMAIN (e \o t) \subseteq Nat
    BY ConcatShifts
  <2>2. PICK r : r = e \o t
    OBVIOUS
  <2>3. ASSUME NEW i \in DOMAIN r, r[i] \in K PROVE \E j \in DOMAIN r : i < j /\ r[j] \in L
    <3>1. CASE i \in DOMAIN e
      <4>1. e[i] \in Elements(e) /\ e[i] \in K
        BY <2>1, <2>2, <2>3, <3>1 DEF Elements
      <4>2. PICK k \in DOMAIN t : t[k] \in L
        BY <1>7, <4>1 DEF Elements
      <4>3. k + Len(e) \in DOMAIN r /\ r[k + Len(e)] = t[k] /\ i < k + Len(e)
        BY <2>1, <2>2, <3>1, <4>2
      <4> QED BY <4>2, <4>3
    <3>2. CASE i \notin DOMAIN e
      <4>1. i - Len(e) \in DOMAIN t /\ r[i] = t[i - Len(e)]
        BY <2>1, <2>2, <3>2
      <4>2. PICK k \in DOMAIN t : i - Len(e) < k /\ t[k] \in L
        BY <1>7, <2>3, <4>1 DEF Followed
      <4>3. k + Len(e) \in DOMAIN r /\ r[k + Len(e)] = t[k] /\ i < k + Len(e)
        BY <2>1, <2>2, <4>2
      <4> QED BY <4>2, <4>3
    <3> QED BY <3>1, <3>2
  <2> QED BY <2>2, <2>3 DEF Followed
<1>8. Followed(e \o t, Erasures, Kind("pick"))
  BY <1>7 DEF Stacked, Above
<1>9. Followed(e \o t, Kind("deactivate"), Kind("disconnect") \cup Kind("restore"))
  BY <1>7 DEF Stacked, Above
<1>10. Followed(e \o t, Kind("disconnect"), Kind("activate")) /\ Followed(e \o t, Kind("activate"), Kind("connect"))
  BY <1>7 DEF Stacked, Above
<1> QED BY <1>2, <1>6, <1>8, <1>9, <1>10 DEF Stacked, Onto

(* One entry for each element of a finite set. *)
LEMMA Each ==
  ASSUME NEW S, IsFiniteSet(S), NEW f, \A x \in S : f[x] \in Entries,
         NEW e, e = [i \in DOMAIN SetToSeq(S) |-> f[SetToSeq(S)[i]]]
  PROVE  e \in Seq(Entries) /\ Elements(e) = {f[x] : x \in S}
<1>1. PICK s : s = SetToSeq(S)
  OBVIOUS
<1>2. s \in Seq(S) /\ Elements(s) = S
  BY <1>1, Listed
<1>3. e = [i \in 1..Len(s) |-> f[s[i]]] /\ Len(s) \in Nat /\ DOMAIN s = 1..Len(s)
  BY <1>1, <1>2
<1>4. \A i \in 1..Len(s) : s[i] \in S
  BY <1>2
<1>5. e \in Seq(Entries)
  BY <1>3, <1>4
<1>6. Elements(e) = {f[x] : x \in S}
  <2>1. Elements(e) = {e[i] : i \in 1..Len(s)} /\ S = {s[i] : i \in 1..Len(s)}
    BY <1>2, <1>3 DEF Elements
  <2>2. ASSUME NEW i \in 1..Len(s) PROVE e[i] = f[s[i]] /\ s[i] \in S
    BY <1>3, <1>4
  <2>3. ASSUME NEW y \in Elements(e) PROVE y \in {f[x] : x \in S}
    <3>1. PICK i \in 1..Len(s) : y = e[i]
      BY <2>1
    <3> QED BY <2>2, <3>1
  <2>4. ASSUME NEW x \in S PROVE f[x] \in Elements(e)
    <3>1. PICK i \in 1..Len(s) : x = s[i]
      BY <2>1
    <3> QED BY <2>1, <2>2, <3>1
  <2> QED BY <2>3, <2>4
<1> QED BY <1>5, <1>6

LEMMA FourEntries ==
  ASSUME NEW A, NEW x \in A, NEW y \in A, NEW z \in A, NEW u \in A, NEW e, e = <<x, y, z, u>>
  PROVE  e = <<x>> \o (<<y>> \o (<<z>> \o (<<u>> \o <<>>)))
<1>1. PICK r : r = <<y, z, u>>
  OBVIOUS
<1>2. PICK t : t = <<>>
  OBVIOUS
<1>3. e \in Seq(A) /\ e # <<>> /\ x = Head(e) /\ r = Tail(e)
  BY <1>1
<1>4. t \in Seq(A) /\ e \o t = e
  BY <1>2, <1>3
<1>5. e \o t = <<x>> \o (r \o t)
  BY <1>3, <1>4, ConcatHead
<1>6. r \o t = <<y>> \o (<<z>> \o (<<u>> \o t))
  <2>1. PICK q : q = <<z, u>>
    OBVIOUS
  <2>2. r \in Seq(A) /\ r # <<>> /\ y = Head(r) /\ q = Tail(r)
    BY <1>1, <2>1
  <2>3. r \o t = <<y>> \o (q \o t)
    BY <1>4, <2>2, ConcatHead
  <2>4. q \o t = <<z>> \o (<<u>> \o t)
    BY <1>4, <2>1, ConcatTwo
  <2> QED BY <2>3, <2>4
<1> QED BY <1>2, <1>4, <1>5, <1>6

(* The order in which a workflow is chosen. *)
LEMMA ChooseToolStep == ASSUME IInv, NEW w \in Workflows, ChooseTool(w) PROVE IInv'
<1>1. PICK a : a = Do("deactivate", workflow)
  OBVIOUS
<1>2. PICK b : b = Do("disconnect", w)
  OBVIOUS
<1>3. PICK c : c = Do("activate", w)
  OBVIOUS
<1>4. PICK d : d = Do("connect", w)
  OBVIOUS
<1>5. Idle /\ calls' = <<a, b, c, d>>
      /\ UNCHANGED <<collection, active, layers, focus, tools, missed, aborted>>
  BY <1>1, <1>2, <1>3, <1>4 DEF ChooseTool, Start
<1>6. /\ Waiting = <<>> /\ Elements(Waiting) = {} /\ Now.do = "idle" /\ Stack = {}
      /\ listener = workflow /\ Right(active) /\ (rg = Target \/ Held)
  BY <1>5, FromIdle
<1>7. workflow \in Workflows
  BY DEF IInv, ToolsInv
<1>8. /\ a \in Entries /\ a.do = "deactivate" /\ a.on = workflow
      /\ b \in Entries /\ b.do = "disconnect" /\ b.on = w
      /\ c \in Entries /\ c.do = "activate" /\ c.on = w
      /\ d \in Entries /\ d.do = "connect" /\ d.on = w
  BY <1>1, <1>2, <1>3, <1>4, <1>7, Made DEF OfWorkflow
<1>9. ~Drawing(a) /\ ~Drawing(b) /\ ~Drawing(c) /\ ~Drawing(d)
  BY <1>8 DEF Drawing
<1>10. Onto(calls', {a, b, c, d}, Waiting)
  <2>1. Waiting \in Seq(Entries) /\ Stacked(Waiting)
    BY TheStack
  <2>2. PICK r : r = <<d>> \o Waiting
    OBVIOUS
  <2>3. Above(d, Waiting)
    BY <1>6, <1>8, <2>1, AboveMeans
  <2>4. Onto(r, {d}, Waiting)
    BY <1>8, <2>1, <2>2, <2>3, Pushed
  <2>5. Elements(r) = {d} /\ r \in Seq(Entries) /\ Stacked(r)
    BY <1>6, <2>4 DEF Onto
  <2>6. PICK q : q = <<c>> \o r
    OBVIOUS
  <2>7. Above(c, r)
    BY <1>8, <1>9, <2>5, AboveMeans DEF Before
  <2>8. Onto(q, {c}, r)
    BY <1>8, <2>5, <2>6, <2>7, Pushed
  <2>9. Elements(q) = {c, d} /\ q \in Seq(Entries) /\ Stacked(q)
    BY <2>5, <2>8 DEF Onto
  <2>10. PICK p : p = <<b>> \o q
    OBVIOUS
  <2>11. Above(b, q)
    BY <1>8, <1>9, <2>9, AboveMeans DEF Before
  <2>12. Onto(p, {b}, q)
    BY <1>8, <2>9, <2>10, <2>11, Pushed
  <2>13. Elements(p) = {b, c, d} /\ p \in Seq(Entries) /\ Stacked(p)
    BY <2>9, <2>12 DEF Onto
  <2>14. PICK o : o = <<a>> \o p
    OBVIOUS
  <2>15. Above(a, p)
    BY <1>8, <1>9, <2>13, AboveMeans DEF Before
  <2>16. Onto(o, {a}, p)
    BY <1>8, <2>13, <2>14, <2>15, Pushed
  <2>17. Elements(o) = {a, b, c, d} /\ o \in Seq(Entries) /\ Stacked(o)
    BY <2>13, <2>16 DEF Onto
  <2>18. o = calls'
    <3>1. calls' = <<a>> \o (<<b>> \o (<<c>> \o (<<d>> \o <<>>)))
      BY <1>5, <1>8, FourEntries
    <3> QED BY <1>6, <2>2, <2>6, <2>10, <2>14, <3>1
  <2> QED BY <1>5, <1>6, <2>17, <2>18 DEF Onto
<1>11. Stack' = {a, b, c, d} /\ Stacked(calls)'
  BY <1>6, <1>10, StackThen
<1>12. depth \in Nat /\ made \in Nat
  BY DEF IInv, GuardInv, ContentsInv
<1>13. GuardInv'
  <2>1. \A x \in {a, b, c, d} : ~Drawing(x) /\ ~Sending(x)
    BY <1>8, <1>9 DEF Sending
  <2> QED BY <1>5, <1>6, <1>10, <2>1, GuardKept DEF collection
<1>14. LayersInv' /\ ContentsInv'
  BY <1>5, <1>6, <1>10, LayersKept, ContentsKept DEF layers
<1>15. ToldInv'
  BY <1>5, <1>6, <1>10, ToldKept DEF collection
<1>16. FocusInv'
  BY <1>5, <1>6, <1>12, FocusKept DEF layers, collection
<1>17. UNCHANGED <<workflow, listener, highlight, active, aborted>>
  BY <1>5 DEF tools
<1>18. ToolsInv'
  <2>1. a \notin Erasures /\ b \notin Erasures /\ c \notin Erasures /\ d \notin Erasures
    BY <1>8, OfKind
  <2>2. Has("disconnect")' /\ Has("connect")'
    BY <1>8, <1>11 DEF Has
  <2>3. ToolsInv
    BY DEF IInv
  <2> QED BY <1>8, <1>11, <1>17, <2>1, <2>2, <2>3 DEF ToolsInv
<1>19. ActiveInv'
  <2>1. Has("disconnect")' /\ ~Has("restore")'
    BY <1>8, <1>11 DEF Has
  <2>2. Leaving' /\ active' \subseteq {"reconstruction", workflow'}
    BY <1>6, <1>8, <1>11, <1>17 DEF Leaving, Right
  <2>3. \A x \in Stack' : x.do # "restore"
    BY <2>1 DEF Has
  <2> QED BY <1>17, <2>1, <2>2, <2>3 DEF IInv, ActiveInv
<1>20. HighlightInv'
  <2>1. {a, b, c, d} \subseteq Entries /\ \A x \in {a, b, c, d} : x.do # "add"
    BY <1>8
  <2> QED BY <1>5, <1>6, <1>10, <1>17, <2>1, HighlightKept DEF layers
<1> QED BY <1>11, <1>13, <1>14, <1>15, <1>16, <1>18, <1>19, <1>20 DEF IInv

LEMMA ExportStep == ASSUME IInv, Export PROVE IInv'
<1>1. PICK x : x = Do("restore", active)
  OBVIOUS
<1>2. PICK order : order = SetToSeq(Workflows)
  OBVIOUS
<1>3. PICK e : e = [i \in DOMAIN order |-> Do("deactivate", order[i])]
  OBVIOUS
<1>4. Idle /\ calls' = e \o <<x>>
      /\ UNCHANGED <<collection, active, layers, focus, tools, missed, aborted>>
  BY <1>1, <1>2, <1>3 DEF Export, Start
<1>5. /\ Waiting = <<>> /\ Elements(Waiting) = {} /\ Now.do = "idle" /\ Stack = {}
      /\ listener = workflow /\ Right(active) /\ (rg = Target \/ Held)
  BY <1>4, FromIdle
<1>6. workflow \in Workflows /\ active \subseteq MainLayers
  BY <1>5 DEF IInv, ToolsInv, Right, MainLayers
<1>7. x \in Entries /\ x.do = "restore" /\ x.on = active
  BY <1>1, <1>6, Made DEF OfLayers
<1>8. PICK f : f = [w \in Workflows |-> Do("deactivate", w)]
  OBVIOUS
<1>9. \A w \in Workflows : f[w] \in Entries /\ f[w].do = "deactivate" /\ f[w].on = w
  BY <1>8, Made DEF OfWorkflow
<1>10. e \in Seq(Entries) /\ Elements(e) = {f[w] : w \in Workflows}
  <2>1. order \in Seq(Workflows)
    BY <1>2, Listed, RenderedAssumption
  <2>2. \A i \in DOMAIN order : order[i] \in Workflows
    BY <2>1
  <2>3. e = [i \in DOMAIN order |-> f[order[i]]]
    BY <1>3, <1>8, <2>2
  <2> QED BY <1>2, <1>9, <2>3, Each, RenderedAssumption
<1>11. PICK t : t = <<x>>
  OBVIOUS
<1>12. t \in Seq(Entries) /\ Stacked(t) /\ Elements(t) = {x}
  <2>1. <<>> \in Seq(Entries) /\ Stacked(<<>>) /\ Elements(<<>>) = {}
    BY <1>5, TheStack
  <2>2. t = <<x>> \o <<>>
    BY <1>11
  <2>3. Above(x, <<>>)
    BY <1>7, <2>1, AboveMeans
  <2>4. Onto(t, {x}, <<>>)
    BY <1>7, <2>1, <2>2, <2>3, Pushed
  <2> QED BY <2>1, <2>4 DEF Onto
<1>13. \A a \in Elements(e) : /\ a \in Entries /\ a.do = "deactivate" /\ a.on \in Workflows
                              /\ ~Drawing(a) /\ ~Sending(a)
  BY <1>9, <1>10 DEF Drawing, Sending
<1>14. ~Drawing(x) /\ ~Sending(x)
  BY <1>7 DEF Drawing, Sending
<1>15. Onto(e \o t, Elements(e), t)
  <2>1. ASSUME NEW a \in Elements(e) PROVE Above(a, t)
    BY <1>7, <1>12, <1>13, <1>14, AboveMeans DEF Before
  <2>2. \A a \in Elements(e), b \in Elements(e) : Before(a, b)
    BY <1>13 DEF Before
  <2> QED BY <1>10, <1>12, <2>1, <2>2, OntoMany
<1>16. PICK N : N = Elements(e) \cup {x}
  OBVIOUS
<1>17. Onto(calls', N, Waiting)
  BY <1>4, <1>5, <1>11, <1>12, <1>15, <1>16 DEF Onto
<1>18. Stack' = N /\ Stacked(calls)'
  BY <1>5, <1>17, StackThen
<1>19. \A a \in N : a = x \/ (a \in Entries /\ a.do = "deactivate" /\ a.on \in Workflows)
  BY <1>13, <1>16
<1>20. depth \in Nat /\ made \in Nat
  BY DEF IInv, GuardInv, ContentsInv
<1>21. GuardInv'
  <2>1. \A a \in N : ~Drawing(a) /\ ~Sending(a)
    BY <1>13, <1>14, <1>16
  <2> QED BY <1>4, <1>5, <1>17, <2>1, GuardKept DEF collection
<1>22. LayersInv' /\ ContentsInv'
  BY <1>4, <1>5, <1>17, LayersKept, ContentsKept DEF layers
<1>23. ToldInv'
  BY <1>4, <1>5, <1>17, ToldKept DEF collection
<1>24. FocusInv'
  BY <1>4, <1>5, <1>20, FocusKept DEF layers, collection
<1>25. UNCHANGED <<workflow, listener, highlight, active, aborted>>
  BY <1>4 DEF tools
<1>26. ToolsInv'
  <2>1. \A a \in N : a \notin Erasures /\ a.do # "connect" /\ a.do # "pick" /\ a.do # "add"
    BY <1>7, <1>19, OfKind
  <2> QED BY <1>5, <1>17, <1>25, <2>1, ToolsKept
<1>27. ActiveInv'
  <2>1. Has("restore")' /\ ~Has("disconnect")' /\ ~Has("connect")'
    BY <1>7, <1>16, <1>18, <1>19 DEF Has
  <2>2. \E a \in Stack' : a.do = "deactivate" /\ a.on = workflow'
    BY <1>6, <1>9, <1>10, <1>16, <1>18, <1>25
  <2>3. Leaving' /\ active' \subseteq {"reconstruction", workflow'}
    BY <1>5, <1>25, <2>2 DEF Leaving, Right
  <2>4. \A a \in Stack' : a.do = "restore" => Right(a.on)'
    <3>1. Right(active)'
      BY <1>5, <1>25 DEF Right
    <3> QED BY <1>7, <1>18, <1>19, <1>25, <3>1 DEF Right
  <2> QED BY <1>25, <2>1, <2>3, <2>4 DEF IInv, ActiveInv
<1>28. HighlightInv'
  <2>1. \A a \in N : a.do # "add"
    BY <1>7, <1>19
  <2> QED BY <1>4, <1>5, <1>17, <1>25, <2>1, HighlightKept DEF layers
<1> QED BY <1>18, <1>21, <1>22, <1>23, <1>24, <1>26, <1>27, <1>28 DEF IInv

LEMMA ReconstructStep ==
  ASSUME IInv, NEW new \in SUBSET {l \in VisualLayers : index[l] # 0},
         NEW gone \in SUBSET {l \in VisualLayers \ new : output[l] # 0}, Reconstruct(new, gone)
  PROVE  IInv'
<1>1. PICK S : S = {l \in VisualLayers : index[l] # 0}
  OBVIOUS
<1>2. PICK order : order = SetToSeq(S)
  OBVIOUS
<1>3. PICK number : number = [l \in new |-> made + CHOOSE i \in 1..Cardinality(new) : SetToSeq(new)[i] = l]
  OBVIOUS
<1>4. PICK b : b = Do("beginGuard", None)
  OBVIOUS
<1>5. PICK c : c = Do("clear", "reconstruction")
  OBVIOUS
<1>6. PICK x : x = Do("endGuard", None)
  OBVIOUS
<1>7. PICK e : e = [i \in DOMAIN order |-> Do("render", order[i])]
  OBVIOUS
<1>8. /\ Idle /\ calls' = <<b, c>> \o e \o <<x>>
      /\ output' = [l \in VisualLayers |-> IF l \in new THEN number[l] ELSE IF l \in gone THEN 0 ELSE output[l]]
      /\ made' = made + Cardinality(new)
      /\ UNCHANGED <<collection, active, children, free, index, contents, visible, focus, tools, missed, aborted>>
  BY <1>1, <1>2, <1>3, <1>4, <1>5, <1>6, <1>7 DEF Reconstruct, Start
<1>9. /\ Waiting = <<>> /\ Elements(Waiting) = {} /\ Now.do = "idle" /\ Stack = {}
  BY <1>8, FromIdle
<1>10. /\ b \in Entries /\ b.do = "beginGuard"
       /\ c \in Entries /\ c.do = "clear" /\ c.on = "reconstruction"
       /\ x \in Entries /\ x.do = "endGuard"
  BY <1>4, <1>5, <1>6, Made DEF Plain, MainLayers
<1>11. IsFiniteSet(S) /\ IsFiniteSet(new) /\ S \subseteq VisualLayers /\ new \subseteq S
  <2>1. S \subseteq VisualLayers /\ new \subseteq S
    BY <1>1
  <2> QED BY <2>1, FS_Subset, RenderedAssumption
<1>12. PICK f : f = [l \in S |-> Do("render", l)]
  OBVIOUS
<1>13. \A l \in S : f[l] \in Entries /\ f[l].do = "render" /\ f[l].on = l
  BY <1>11, <1>12, Made
<1>14. e \in Seq(Entries) /\ Elements(e) = {f[l] : l \in S}
  <2>1. order \in Seq(S)
    BY <1>2, <1>11, Listed
  <2>2. \A i \in DOMAIN order : order[i] \in S
    BY <2>1
  <2>3. e = [i \in DOMAIN order |-> f[order[i]]]
    BY <1>7, <1>12, <2>2
  <2> QED BY <1>2, <1>11, <1>13, <2>3, Each
<1>15. \A a \in Elements(e) : a \in Entries /\ a.do = "render" /\ Drawing(a)
  BY <1>13, <1>14 DEF Drawing
<1>16. Drawing(b) /\ Drawing(c) /\ Drawing(x)
  BY <1>10 DEF Drawing
<1>17. PICK t : t = <<x>>
  OBVIOUS
<1>18. t \in Seq(Entries) /\ Stacked(t) /\ Elements(t) = {x}
  <2>1. <<>> \in Seq(Entries) /\ Stacked(<<>>) /\ Elements(<<>>) = {}
    BY <1>9, TheStack
  <2>2. t = <<x>> \o <<>>
    BY <1>17
  <2>3. Above(x, <<>>)
    BY <1>10, <1>16, <2>1, AboveMeans
  <2>4. Onto(t, {x}, <<>>)
    BY <1>10, <2>1, <2>2, <2>3, Pushed
  <2> QED BY <2>1, <2>4 DEF Onto
<1>19. PICK r : r = e \o t
  OBVIOUS
<1>20. r \in Seq(Entries) /\ Stacked(r) /\ Elements(r) = Elements(e) \cup {x}
  <2>1. ASSUME NEW a \in Elements(e) PROVE Above(a, t)
    BY <1>10, <1>15, <1>16, <1>18, AboveMeans DEF Before
  <2>2. \A a \in Elements(e), d \in Elements(e) : Before(a, d)
    BY <1>15 DEF Before
  <2>3. Onto(r, Elements(e), t)
    BY <1>14, <1>18, <1>19, <2>1, <2>2, OntoMany
  <2> QED BY <1>18, <2>3 DEF Onto
<1>21. PICK q : q = <<c>> \o r
  OBVIOUS
<1>22. q \in Seq(Entries) /\ Stacked(q) /\ Elements(q) = {c, x} \cup Elements(e)
  <2>1. Above(c, r)
    BY <1>10, <1>15, <1>16, <1>20, AboveMeans DEF Before
  <2>2. Onto(q, {c}, r)
    BY <1>10, <1>20, <1>21, <2>1, Pushed
  <2> QED BY <1>20, <2>2 DEF Onto
<1>23. PICK p : p = <<b>> \o q
  OBVIOUS
<1>24. Onto(p, {b}, q) /\ p # <<>> /\ Head(p) = b
  <2>1. Above(b, q)
    BY <1>10, <1>15, <1>16, <1>22, AboveMeans DEF Before
  <2> QED BY <1>10, <1>22, <1>23, <2>1, Pushed
<1>25. calls' = p
  <2>1. PICK h : h = <<b, c>>
    OBVIOUS
  <2>2. h \in Seq(Entries)
    BY <1>10, <2>1
  <2>3. (h \o e) \o t = h \o (e \o t)
    BY <1>14, <1>18, <2>2, ConcatAssociates
  <2>4. h \o r = <<b>> \o (<<c>> \o r)
    <3>1. b \in Entries /\ c \in Entries /\ r \in Seq(Entries)
      BY <1>10, <1>20
    <3> QED BY <2>1, <3>1, ConcatTwo
  <2> QED BY <1>8, <1>17, <1>19, <1>21, <1>23, <2>1, <2>3, <2>4
<1>26. PICK N : N = {b, c, x} \cup Elements(e)
  OBVIOUS
<1>27. Onto(calls', N, Waiting) /\ calls' # <<>> /\ Head(calls') = b
  BY <1>9, <1>22, <1>24, <1>25, <1>26 DEF Onto
<1>28. Now' = b /\ Stack' = N /\ Stacked(calls)'
  <2>1. Now' = Head(calls') /\ Stack' = N \cup Elements(Waiting) /\ Stacked(calls)'
    BY <1>27, NowThen
  <2> QED BY <1>9, <1>27, <2>1
<1>29. depth \in Nat /\ made \in Nat /\ Cardinality(new) \in Nat
  BY <1>11, FS_CardinalityType DEF IInv, GuardInv, ContentsInv
<1>30. made' \in Nat /\ made <= made'
  BY <1>8, <1>29
<1>31. GuardInv'
  <2>1. Has("endGuard")'
    BY <1>10, <1>26, <1>28 DEF Has
  <2>2. \A a \in N : ~Sending(a)
    BY <1>10, <1>15, <1>26 DEF Sending
  <2>3. depth' \in Nat
    BY <1>8, <1>29 DEF collection
  <2> QED BY <1>10, <1>28, <2>1, <2>2, <2>3 DEF GuardInv
<1>32. LayersInv'
  BY <1>8, LayersKept
<1>33. ContentsInv /\ rg \in 0..made
  BY DEF IInv, FocusInv
<1>34. ASSUME NEW l \in new PROVE number[l] \in Nat /\ made < number[l] /\ number[l] <= made'
  <2>1. PICK s : s = SetToSeq(new)
    OBVIOUS
  <2>2. s \in Seq(new) /\ Elements(s) = new
    BY <1>11, <2>1, Listed
  <2>3. PICK i \in DOMAIN s : s[i] = l
    BY <2>2 DEF Elements
  <2>4. DOMAIN s = 1..Cardinality(new)
    <3>1. \E g \in [1..Cardinality(new) -> new] : IsInjective(g)
      BY <1>11, FS_CardinalityType DEF ExistsBijection, Bijection, Injection
    <3>2. s \in [1..Cardinality(new) -> new]
      BY <2>1, <3>1 DEF SetToSeq
    <3> QED BY <3>2
  <2>5. PICK k : k = CHOOSE j \in 1..Cardinality(new) : s[j] = l
    OBVIOUS
  <2>6. k \in 1..Cardinality(new)
    BY <2>3, <2>4, <2>5
  <2>7. number[l] = made + k
    BY <1>3, <2>1, <2>5
  <2> QED BY <1>8, <1>29, <2>6, <2>7
<1>35. \A l \in VisualLayers :
         output'[l] = IF l \in new THEN number[l] ELSE IF l \in gone THEN 0 ELSE output[l]
  BY <1>8
<1>36. output' \in [VisualLayers -> 0..made']
  <2>1. ASSUME NEW l \in VisualLayers PROVE output'[l] \in 0..made'
    <3>1. output[l] \in 0..made
      BY <1>33 DEF ContentsInv
    <3> QED BY <1>29, <1>30, <1>34, <1>35, <3>1
  <2>2. output' = [l \in VisualLayers |-> output'[l]]
    BY <1>8
  <2> QED BY <2>1, <2>2
<1>37. ContentsInv'
  <2>1. contents' \in [1..Cardinality(VisualLayers) -> 0..made'] /\ visible' \in [VisualLayers -> BOOLEAN]
    <3>1. 0..made \subseteq 0..made'
      BY <1>29, <1>30
    <3> QED BY <1>8, <1>33, <3>1 DEF ContentsInv
  <2>2. ASSUME NEW l \in VisualLayers, index[l] # 0
        PROVE  \E a \in Stack' : a.do = "render" /\ a.on = l
    <3>1. f[l] \in N
      BY <1>1, <1>14, <1>26, <2>2
    <3> QED BY <1>1, <1>13, <1>28, <2>2, <3>1
  <2>3. \A l \in VisualLayers : index'[l] = 0 => output'[l] = 0
    BY <1>8, <1>33, <1>35 DEF ContentsInv
  <2>4. \A i \in DOMAIN contents' : i \notin Elements(children') => contents'[i] = 0
    BY <1>8, <1>33 DEF ContentsInv
  <2> QED BY <1>8, <1>30, <1>36, <2>1, <2>2, <2>3, <2>4 DEF ContentsInv
<1>38. ToldInv'
  BY <1>8, <1>9, <1>27, ToldKept DEF collection
<1>39. FocusInv'
  BY <1>8, <1>9, <1>30, FocusKept DEF collection
<1>40. \A a \in N : a \in Entries /\ Drawing(a) /\ a.do \in {"beginGuard", "clear", "endGuard", "render"}
  BY <1>10, <1>15, <1>16, <1>26
<1>41. ToolsInv'
  <2>1. \A a \in N : a \notin Erasures
    BY <1>40, OfKind
  <2> QED BY <1>8, <1>9, <1>27, <1>40, <2>1, ToolsKept DEF tools
<1>42. ActiveInv'
  BY <1>8, <1>9, <1>27, <1>40, ActiveKept DEF tools
<1>43. HighlightInv'
  <2>1. Lost => Lost'
    <3>1. SUFFICES ASSUME Lost PROVE Lost'
      OBVIOUS
    <3>2. ASSUME NEW l \in VisualLayers, index[l] # 0, visible[l] PROVE output'[l] # rg
      BY <1>29, <1>33, <1>34, <1>35, <3>1, <3>2 DEF Lost
    <3> QED BY <1>8, <3>1, <3>2 DEF Lost, focus
  <2>2. \A a \in Stack' : a.do # "add"
    BY <1>28, <1>40
  <2> QED BY <1>8, <1>30, <2>1, <2>2, HighlightIdle DEF tools, focus
<1> QED BY <1>28, <1>31, <1>32, <1>37, <1>38, <1>39, <1>41, <1>42, <1>43 DEF IInv
-----------------------------------------------------------------------------
(* Steps of calls. *)

LEMMA Running ==
  ASSUME IInv, NEW what, Doing(what)
  PROVE  /\ calls # <<>> /\ Now.do = what /\ On = Now.on /\ Now \in Entries /\ Now \in Stack
         /\ \A y \in Elements(Waiting) : Before(Now, y)
         /\ Stack = {Now} \cup Elements(Waiting)
         /\ \A e : Continue(e) => calls' = e \o Waiting
<1>1. calls # <<>> /\ Head(calls).do = what
  BY DEF Doing
<1>2. /\ Now = Head(calls) /\ Now \in Entries /\ Now \in Stack /\ Waiting = Tail(calls)
      /\ Above(Now, Waiting) /\ Waiting \in Seq(Entries) /\ Elements(Waiting) \subseteq Stack
      /\ \A x \in Stack : x = Now \/ x \in Elements(Waiting)
  BY <1>1, TheStack
<1>3. \A y \in Elements(Waiting) : Before(Now, y)
  BY <1>2, AboveMeans
<1>4. Stack = {Now} \cup Elements(Waiting)
  BY <1>2
<1> QED BY <1>1, <1>2, <1>3, <1>4 DEF On, Continue

LEMMA Popped ==
  ASSUME IInv, calls # <<>>, calls' = <<>> \o Waiting
  PROVE  Onto(calls', {}, Waiting) /\ Stack' = Elements(Waiting) /\ Stacked(calls)'
<1>1. Onto(calls', {}, Waiting)
  BY TheStack, OntoNone
<1>2. Stack' = {} \cup Elements(Waiting) /\ Stacked(calls)'
  BY <1>1, StackThen
<1> QED BY <1>1, <1>2

LEMMA TargetKept ==
  ASSUME UNCHANGED <<children, contents, focused>>
  PROVE  Target' = Target
<1>1. Shown' = Shown
  BY DEF Shown
<1> QED BY <1>1 DEF Target, Found

LEMMA BeginGuardStep == ASSUME IInv, BeginGuard PROVE IInv'
<1>1. PICK what : what = "beginGuard"
  OBVIOUS
<1>2. /\ Doing(what) /\ Continue(<<>>) /\ depth' = depth + 1
      /\ UNCHANGED <<queued, updated, active, layers, focus, tools, missed, aborted>>
  BY <1>1 DEF BeginGuard
<1>3. /\ calls # <<>> /\ Now.do = "beginGuard" /\ Now \in Entries
      /\ \A y \in Elements(Waiting) : Before(Now, y)
      /\ Stack = {Now} \cup Elements(Waiting) /\ calls' = <<>> \o Waiting
  BY <1>1, <1>2, Running
<1>4. Onto(calls', {}, Waiting) /\ Stack' = Elements(Waiting) /\ Stacked(calls)'
  BY <1>3, Popped
<1>5. depth \in Nat /\ made \in Nat /\ GuardInv
  BY DEF IInv, GuardInv, ContentsInv
<1>6. depth' \in Nat /\ depth' > 0
  BY <1>2, <1>5
<1>7. GuardInv'
  <2>1. ASSUME NEW x \in Stack' PROVE ~Sending(x) /\ Has("endGuard")'
    <3>1. Before(Now, x) /\ Drawing(Now)
      BY <1>3, <1>4, <2>1 DEF Drawing
    <3>2. Drawing(x) /\ Waiting # <<>> /\ x \in Stack
      BY <1>3, <1>4, <2>1, <3>1, ElementsEmpty DEF Before
    <3>3. Has("endGuard")
      BY <1>5, <3>2 DEF GuardInv
    <3>4. Has("endGuard")'
      BY <1>3, <1>4, <3>3 DEF Has
    <3> QED BY <3>2, <3>4 DEF Drawing, Sending
  <2> QED BY <1>6, <2>1 DEF GuardInv
<1>8. LayersInv' /\ ContentsInv'
  BY <1>2, <1>3, <1>4, LayersKept, ContentsKept DEF layers
<1>9. ToldInv'
  BY <1>2, <1>3, <1>4, <1>6, ToldKept
<1>10. FocusInv'
  BY <1>2, <1>3, <1>5, <1>6, FocusKept DEF layers
<1>11. ToolsInv'
  BY <1>2, <1>3, <1>4, ToolsKept DEF tools
<1>12. ActiveInv'
  BY <1>2, <1>3, <1>4, ActiveKept DEF tools
<1>13. HighlightInv'
  BY <1>2, <1>3, <1>4, <1>6, HighlightKept DEF tools, layers
<1> QED BY <1>4, <1>7, <1>8, <1>9, <1>10, <1>11, <1>12, <1>13 DEF IInv

LEMMA EndGuardStep == ASSUME IInv, EndGuard PROVE IInv'
<1>1. PICK what : what = "endGuard"
  OBVIOUS
<1>2. PICK e : e = IF SendsAtEnd THEN <<Do("emit", None)>> ELSE <<>>
  OBVIOUS
<1>3. /\ Doing(what) /\ Continue(e) /\ depth' = depth - 1
      /\ UNCHANGED <<queued, updated, active, layers, focus, tools, missed, aborted>>
  BY <1>1, <1>2 DEF EndGuard
<1>4. /\ calls # <<>> /\ Now.do = "endGuard" /\ Now \in Entries
      /\ \A y \in Elements(Waiting) : Before(Now, y)
      /\ Stack = {Now} \cup Elements(Waiting) /\ calls' = e \o Waiting
  BY <1>1, <1>3, Running
<1>5. Elements(Waiting) = {} /\ Stack = {Now}
  BY <1>4 DEF Before
<1>6. PICK x : x = Do("emit", None)
  OBVIOUS
<1>7. x \in Entries /\ x.do = "emit"
  BY <1>6, Made DEF Plain
<1>8. PICK N : N = IF SendsAtEnd THEN {x} ELSE {}
  OBVIOUS
<1>9. Onto(calls', N, Waiting) /\ (SendsAtEnd => Now' = x) /\ Stack' = N /\ Stacked(calls)'
  <2>1. Waiting \in Seq(Entries) /\ Stacked(Waiting)
    BY TheStack
  <2>2. CASE SendsAtEnd
    <3>1. calls' = <<x>> \o Waiting
      BY <1>2, <1>4, <1>6, <2>2
    <3>2. Above(x, Waiting)
      BY <1>5, <1>7, <2>1, AboveMeans
    <3>3. Onto(calls', {x}, Waiting) /\ calls' # <<>> /\ Head(calls') = x
      BY <1>7, <2>1, <3>1, <3>2, Pushed
    <3>4. Now' = x /\ Stack' = {x} \cup Elements(Waiting) /\ Stacked(calls)'
      BY <3>3, NowThen
    <3> QED BY <1>5, <1>8, <2>2, <3>3, <3>4
  <2>3. CASE ~SendsAtEnd
    <3>1. calls' = <<>> \o Waiting
      BY <1>2, <1>4, <2>3
    <3> QED BY <1>4, <1>5, <1>8, <2>3, <3>1, Popped
  <2> QED BY <2>2, <2>3
<1>10. \A y \in N : y.do = "emit"
  BY <1>7, <1>8
<1>11. depth \in Nat /\ made \in Nat /\ depth > 0
  BY <1>4 DEF IInv, GuardInv, ContentsInv, Has
<1>12. GuardInv'
  <2>1. \A y \in N : ~Drawing(y) /\ (Sending(y) => depth' = 0)
    BY <1>3, <1>8, <1>10 DEF Drawing, SendsAtEnd
  <2>2. ~Has("endGuard")'
    BY <1>9, <1>10 DEF Has
  <2> QED BY <1>3, <1>9, <1>11, <2>1, <2>2 DEF GuardInv
<1>13. LayersInv' /\ ContentsInv'
  BY <1>3, <1>4, <1>9, LayersKept, ContentsKept DEF layers
<1>14. ToldInv /\ FocusInv /\ queued \in BOOLEAN
  BY DEF IInv, ToldInv
<1>15. \A m : ~Telling(m)
  BY <1>4, <1>5 DEF Telling
<1>16. SendsAtEnd \/ Held' \/ ~Held
  BY <1>3, <1>11 DEF SendsAtEnd, Held
<1>17. SendsAtEnd => Now'.do = "emit" /\ Has("emit")' /\ depth' = 0
  BY <1>3, <1>7, <1>8, <1>9 DEF Has, SendsAtEnd
<1>18. ToldInv'
  <2>1. missed' = missed /\ updated' = updated /\ queued' = queued
    BY <1>3
  <2>2. ~Held => missed.layers = {} /\ ~missed.repaint
    BY <1>4, <1>5, <1>14, <1>15 DEF ToldInv, Has
  <2>3. \A m \in missed.layers : m \in updated
    BY <1>14, <1>15 DEF ToldInv
  <2> QED BY <1>14, <1>16, <1>17, <2>1, <2>2, <2>3 DEF ToldInv
<1>19. FocusInv'
  <2>1. Target' = Target
    BY <1>3, TargetKept DEF layers, focus
  <2>2. rg = Target \/ Held
    BY <1>4, <1>14 DEF FocusInv
  <2> QED BY <1>3, <1>14, <1>16, <1>17, <2>1, <2>2 DEF FocusInv, focus, layers
<1>20. ToolsInv'
  <2>1. \A y \in N : y \notin Erasures
    BY <1>10 DEF Erasures, Kind
  <2> QED BY <1>3, <1>4, <1>9, <1>10, <2>1, ToolsKept DEF tools
<1>21. ActiveInv'
  BY <1>3, <1>4, <1>9, <1>10, ActiveKept DEF tools
<1>22. HighlightInv'
  BY <1>3, <1>4, <1>5, <1>9, <1>10, HighlightKept DEF tools, layers
<1> QED BY <1>9, <1>12, <1>13, <1>18, <1>19, <1>20, <1>21, <1>22 DEF IInv

(* What is drawn while a signal is sent is in the focus. *)
LEMMA AddsRight ==
  ASSUME IInv, Target' = Target, rg' = rg, depth' = depth
  PROVE  \A x \in Elements(Waiting) : x.do = "add" /\ depth' = 0 => rg' = Target'
<1>1. Elements(Waiting) \subseteq Stack
  BY TheStack
<1> QED BY <1>1 DEF IInv, HighlightInv

LEMMA ThreeEntries ==
  \A x, y, z \in Entries : \A t \in Seq(Entries) :
    <<x, y, z>> \o t = <<x>> \o (<<y>> \o (<<z>> \o t))
<1>1. TAKE x, y, z \in Entries
<1>2. TAKE t \in Seq(Entries)
<1>3. PICK A : A = Entries
  OBVIOUS
<1> QED BY <1>3, ConcatThree

LEMMA EmitStep == ASSUME IInv, Emit PROVE IInv'
<1>1. PICK what : what = "emit"
  OBVIOUS
<1>2. PICK a : a = Do("updateFocus", None)
  OBVIOUS
<1>3. PICK b : b = Do("updateCanvas", updated)
  OBVIOUS
<1>4. PICK c : c = Do("sent", None)
  OBVIOUS
<1>5. /\ Doing(what) /\ Continue(<<a, b, c>>)
      /\ UNCHANGED <<collection, active, layers, focus, tools, missed, aborted>>
  BY <1>1, <1>2, <1>3, <1>4 DEF Emit
<1>6. /\ calls # <<>> /\ Now.do = "emit" /\ Now \in Entries /\ Now \in Stack
      /\ \A y \in Elements(Waiting) : Before(Now, y)
      /\ Stack = {Now} \cup Elements(Waiting) /\ calls' = <<a, b, c>> \o Waiting
  BY <1>1, <1>5, Running
<1>7. depth = 0 /\ depth \in Nat /\ made \in Nat /\ ToldInv /\ FocusInv /\ updated \subseteq MainLayers
  BY <1>6 DEF IInv, GuardInv, ContentsInv, Sending, ToldInv
<1>8. /\ a \in Entries /\ a.do = "updateFocus" /\ b \in Entries /\ b.do = "updateCanvas" /\ b.on = updated
      /\ c \in Entries /\ c.do = "sent"
  BY <1>2, <1>3, <1>4, <1>7, Made DEF Plain, OfLayers
<1>9. \A y \in Elements(Waiting) : ~Drawing(y)
  BY <1>6 DEF Before, Drawing
<1>10. Onto(calls', {a, b, c}, Waiting) /\ calls' # <<>> /\ Head(calls') = a
  <2>1. Waiting \in Seq(Entries) /\ Stacked(Waiting)
    BY TheStack
  <2>2. PICK r : r = <<c>> \o Waiting
    OBVIOUS
  <2>3. Above(c, Waiting)
    BY <1>8, <1>9, <2>1, EmitAbove
  <2>4. Onto(r, {c}, Waiting)
    BY <1>8, <2>1, <2>2, <2>3, Pushed
  <2>5. r \in Seq(Entries) /\ Stacked(r) /\ Elements(r) = {c} \cup Elements(Waiting)
    BY <2>4 DEF Onto
  <2>6. \A y \in Elements(r) : ~Drawing(y)
    BY <1>8, <1>9, <2>5 DEF Drawing
  <2>7. PICK q : q = <<b>> \o r
    OBVIOUS
  <2>8. Above(b, r)
    BY <1>8, <2>5, <2>6, EmitAbove
  <2>9. Onto(q, {b}, r)
    BY <1>8, <2>5, <2>7, <2>8, Pushed
  <2>10. q \in Seq(Entries) /\ Stacked(q) /\ Elements(q) = {b, c} \cup Elements(Waiting)
    BY <2>5, <2>9 DEF Onto
  <2>11. \A y \in Elements(q) : ~Drawing(y)
    BY <1>8, <1>9, <2>10 DEF Drawing
  <2>12. Above(a, q)
    BY <1>8, <2>10, <2>11, EmitAbove
  <2>13. calls' = <<a>> \o q
    <3>1. <<a, b, c>> \o Waiting = <<a>> \o (<<b>> \o (<<c>> \o Waiting))
      BY <1>8, <2>1, ThreeEntries
    <3> QED BY <1>6, <2>2, <2>7, <3>1
  <2>14. Onto(calls', {a}, q) /\ calls' # <<>> /\ Head(calls') = a
    BY <1>8, <2>10, <2>12, <2>13, Pushed
  <2> QED BY <2>10, <2>14 DEF Onto
<1>11. Now' = a /\ Stack' = {a, b, c} \cup Elements(Waiting) /\ Stacked(calls)'
  BY <1>10, NowThen
<1>12. PICK N : N = {a, b, c}
  OBVIOUS
<1>13. Onto(calls', N, Waiting)
  BY <1>10, <1>12
<1>14. \A y \in N : ~Drawing(y) /\ y.do \in {"updateFocus", "updateCanvas", "sent"}
  BY <1>8, <1>12 DEF Drawing
<1>15. GuardInv'
  BY <1>5, <1>6, <1>7, <1>13, <1>14, GuardKept DEF collection
<1>16. LayersInv' /\ ContentsInv'
  BY <1>5, <1>6, <1>13, LayersKept, ContentsKept DEF layers
<1>17. ToldInv'
  <2>1. \A m \in updated : Telling(m)'
    BY <1>8, <1>11 DEF Telling
  <2>2. \A m : Telling(m) => Telling(m)'
    BY <1>6, <1>11 DEF Telling
  <2>3. \A m \in missed.layers : Telling(m)'
    BY <1>7, <2>1, <2>2 DEF ToldInv
  <2>4. Has("updateCanvas")'
    BY <1>8, <1>11 DEF Has
  <2> QED BY <1>5, <1>7, <2>3, <2>4 DEF ToldInv, collection
<1>18. FocusInv'
  BY <1>5, <1>7, <1>8, <1>11 DEF FocusInv, focus, layers, collection
<1>19. ToolsInv'
  <2>1. \A y \in N : y \notin Erasures
    BY <1>14 DEF Erasures, Kind
  <2> QED BY <1>5, <1>6, <1>13, <1>14, <2>1, ToolsKept DEF tools
<1>20. ActiveInv'
  BY <1>5, <1>6, <1>13, <1>14, ActiveKept DEF tools
<1>21. HighlightInv'
  <2>1. Target' = Target
    BY <1>5, TargetKept DEF layers, focus
  <2>2. \A x \in Elements(Waiting) : x.do = "add" /\ depth' = 0 => rg' = Target'
    BY <1>5, <2>1, AddsRight DEF focus, collection
  <2> QED BY <1>5, <1>6, <1>13, <1>14, <2>2, HighlightKept DEF tools, layers
<1> QED BY <1>11, <1>15, <1>16, <1>17, <1>18, <1>19, <1>20, <1>21 DEF IInv

LEMMA SentStep == ASSUME IInv, Sent PROVE IInv'
<1>1. PICK what : what = "sent"
  OBVIOUS
<1>2. /\ Doing(what) /\ Continue(<<>>) /\ updated' = {} /\ queued' = FALSE
      /\ UNCHANGED <<depth, active, layers, focus, tools, missed, aborted>>
  BY <1>1 DEF Sent
<1>3. /\ calls # <<>> /\ Now.do = "sent" /\ Now \in Stack
      /\ Stack = {Now} \cup Elements(Waiting) /\ calls' = <<>> \o Waiting
  BY <1>1, <1>2, Running
<1>4. Onto(calls', {}, Waiting) /\ Stack' = Elements(Waiting) /\ Stacked(calls)'
  BY <1>3, Popped
<1>5. depth = 0 /\ made \in Nat /\ ToldInv /\ FocusInv
  BY <1>3 DEF IInv, GuardInv, ContentsInv, Sending
<1>6. ~Held
  BY <1>5 DEF Held
<1>7. rg = Target /\ Target' = Target
  <2>1. Target' = Target
    BY <1>2, TargetKept DEF layers, focus
  <2> QED BY <1>3, <1>5, <1>6, <2>1 DEF FocusInv
<1>8. GuardInv'
  BY <1>2, <1>3, <1>4, GuardKept
<1>9. LayersInv' /\ ContentsInv'
  BY <1>2, <1>3, <1>4, LayersKept, ContentsKept DEF layers
<1>10. ToldInv'
  <2>1. \A m : Telling(m) => Telling(m)'
    BY <1>3, <1>4 DEF Telling
  <2>2. \A m \in missed.layers : Telling(m)'
    BY <1>3, <1>5, <1>6, <2>1 DEF ToldInv
  <2>3. missed.repaint => Has("emit")' \/ Has("updateCanvas")'
    BY <1>3, <1>4, <1>5, <1>6 DEF ToldInv, Has
  <2> QED BY <1>2, <1>5, <2>2, <2>3 DEF ToldInv
<1>11. FocusInv'
  BY <1>2, <1>5, <1>7 DEF FocusInv, focus, layers
<1>12. ToolsInv'
  BY <1>2, <1>3, <1>4, ToolsKept DEF tools
<1>13. ActiveInv'
  BY <1>2, <1>3, <1>4, ActiveKept DEF tools
<1>14. HighlightInv'
  <2>1. rg' = Target'
    BY <1>2, <1>7 DEF focus
  <2> QED BY <1>2, <1>3, <1>4, <2>1, HighlightKept DEF tools, layers
<1> QED BY <1>4, <1>8, <1>9, <1>10, <1>11, <1>12, <1>13, <1>14 DEF IInv

LEMMA UpdateCanvasStep == ASSUME IInv, UpdateCanvas PROVE IInv'
<1>1. PICK what : what = "updateCanvas"
  OBVIOUS
<1>2. /\ Doing(what) /\ Continue(<<>>) /\ missed' = [repaint |-> FALSE, layers |-> missed.layers \ On]
      /\ UNCHANGED <<collection, active, layers, focus, tools, aborted>>
  BY <1>1 DEF UpdateCanvas
<1>3. /\ calls # <<>> /\ Now.do = "updateCanvas" /\ Now \in Stack /\ On = Now.on
      /\ Stack = {Now} \cup Elements(Waiting) /\ calls' = <<>> \o Waiting
  BY <1>1, <1>2, Running
<1>4. Onto(calls', {}, Waiting) /\ Stack' = Elements(Waiting) /\ Stacked(calls)'
  BY <1>3, Popped
<1>5. depth = 0 /\ made \in Nat /\ ToldInv
  BY <1>3 DEF IInv, GuardInv, ContentsInv, Sending
<1>6. GuardInv'
  BY <1>2, <1>3, <1>4, GuardKept DEF collection
<1>7. LayersInv' /\ ContentsInv'
  BY <1>2, <1>3, <1>4, LayersKept, ContentsKept DEF layers
<1>8. ToldInv'
  <2>1. \A m : Telling(m) => Telling(m)' \/ m \in On
    BY <1>3, <1>4 DEF Telling
  <2>2. \A m \in missed'.layers : m \in missed.layers /\ m \notin On
    BY <1>2
  <2>3. \A m \in missed'.layers : Telling(m)'
    BY <1>3, <1>5, <2>1, <2>2 DEF ToldInv, Held
  <2>4. missed' \in [repaint : BOOLEAN, layers : SUBSET MainLayers] /\ ~missed'.repaint
    BY <1>2, <1>5 DEF ToldInv
  <2> QED BY <1>2, <1>5, <2>3, <2>4 DEF ToldInv, collection
<1>9. FocusInv'
  BY <1>2, <1>3, <1>5, FocusKept DEF layers, collection
<1>10. ToolsInv'
  BY <1>2, <1>3, <1>4, ToolsKept DEF tools
<1>11. ActiveInv'
  BY <1>2, <1>3, <1>4, ActiveKept DEF tools
<1>12. HighlightInv'
  <2>1. Target' = Target
    BY <1>2, TargetKept DEF layers, focus
  <2>2. \A x \in Elements(Waiting) : x.do = "add" /\ depth' = 0 => rg' = Target'
    BY <1>2, <2>1, AddsRight DEF focus, collection
  <2> QED BY <1>2, <1>3, <1>4, <2>2, HighlightKept DEF tools, layers
<1> QED BY <1>4, <1>6, <1>7, <1>8, <1>9, <1>10, <1>11, <1>12 DEF IInv

(* What is put on the stack when one entry or none follows. *)
LEMMA OneFollows ==
  ASSUME IInv, calls # <<>>, NEW x \in Entries, Above(x, Waiting), calls' = <<x>> \o Waiting
  PROVE  Onto(calls', {x}, Waiting) /\ Now' = x /\ Stack' = {x} \cup Elements(Waiting) /\ Stacked(calls)'
<1>1. Waiting \in Seq(Entries) /\ Stacked(Waiting)
  BY TheStack
<1>2. Onto(calls', {x}, Waiting) /\ calls' # <<>> /\ Head(calls') = x
  BY <1>1, Pushed
<1> QED BY <1>2, NowThen

LEMMA UpdateFocusStep == ASSUME IInv, UpdateFocus PROVE IInv'
<1>1. PICK what : what = "updateFocus"
  OBVIOUS
<1>2. PICK x : x = Do("focusChanged", None)
  OBVIOUS
<1>3. PICK e : e = IF FocusMoves(Found) THEN <<x>> ELSE <<>>
  OBVIOUS
<1>4. /\ Doing(what) /\ Continue(e) /\ rg' = IF focused THEN Found ELSE rg
      /\ UNCHANGED <<collection, active, layers, focused, tools, missed, aborted>>
  BY <1>1, <1>2, <1>3 DEF UpdateFocus
<1>5. /\ calls # <<>> /\ Now.do = "updateFocus" /\ Now \in Stack
      /\ \A y \in Elements(Waiting) : Before(Now, y)
      /\ Stack = {Now} \cup Elements(Waiting) /\ calls' = e \o Waiting
  BY <1>1, <1>4, Running
<1>6. depth = 0 /\ made \in Nat /\ FocusInv /\ ToolsInv /\ HighlightInv
  BY <1>5 DEF IInv, GuardInv, ContentsInv, Sending
<1>7. x \in Entries /\ x.do = "focusChanged" /\ ~Drawing(x) /\ ~Sending(x)
  BY <1>2, Made DEF Plain, Drawing, Sending
<1>8. \A y \in Elements(Waiting) : ~Drawing(y)
  BY <1>5 DEF Before, Drawing
<1>9. PICK N : N = IF FocusMoves(Found) THEN {x} ELSE {}
  OBVIOUS
<1>10. Onto(calls', N, Waiting) /\ (FocusMoves(Found) => Now' = x) /\ Stack' = N \cup Elements(Waiting)
       /\ Stacked(calls)'
  <2>1. CASE FocusMoves(Found)
    <3>1. calls' = <<x>> \o Waiting
      BY <1>3, <1>5, <2>1
    <3>2. Above(x, Waiting)
      BY <1>7, <1>8, TheStack, EmitAbove
    <3> QED BY <1>5, <1>7, <1>9, <2>1, <3>1, <3>2, OneFollows
  <2>2. CASE ~FocusMoves(Found)
    <3>1. calls' = <<>> \o Waiting
      BY <1>3, <1>5, <2>2
    <3> QED BY <1>5, <1>9, <2>2, <3>1, Popped
  <2> QED BY <2>1, <2>2
<1>11. \A y \in N : y = x
  BY <1>9
<1>12. rg' = Target /\ Target' = Target /\ Target \in 0..made
  <2>1. Target' = Target
    BY <1>4, TargetKept DEF layers
  <2>2. Target \in 0..made
    BY Finding
  <2> QED BY <1>4, <1>6, <2>1, <2>2 DEF Target, FocusInv
<1>13. ~FocusMoves(Found) => rg' = rg
  BY <1>4 DEF FocusMoves
<1>14. GuardInv'
  BY <1>4, <1>5, <1>7, <1>10, <1>11, GuardKept DEF collection
<1>15. LayersInv' /\ ContentsInv'
  BY <1>4, <1>5, <1>10, LayersKept, ContentsKept DEF layers
<1>16. ToldInv'
  BY <1>4, <1>5, <1>10, ToldKept DEF collection
<1>17. FocusInv'
  <2>1. ~focused => rg' = 0
    BY <1>12 DEF Target
  <2> QED BY <1>4, <1>6, <1>12, <2>1 DEF FocusInv, layers
<1>18. ToolsInv'
  <2>1. \A y \in N : y \notin Erasures
    BY <1>7, <1>11, OfKind
  <2> QED BY <1>4, <1>5, <1>7, <1>10, <1>11, <2>1, ToolsKept DEF tools
<1>19. ActiveInv'
  BY <1>4, <1>5, <1>7, <1>10, <1>11, ActiveKept DEF tools
<1>20. HighlightInv'
  <2>1. CASE FocusMoves(Found)
    <3>1. Redrawing'
      <4>1. CASE listener = workflow
        BY <1>4, <1>7, <1>10, <2>1, <4>1 DEF Redrawing, tools
      <4>2. CASE listener = None
        <5>1. Has("connect")
          BY <1>6, <4>2 DEF ToolsInv
        <5>2. Has("connect")'
          BY <1>5, <1>10, <5>1 DEF Has
        <5> QED BY <5>2 DEF Redrawing
      <4> QED BY <1>6, <4>1, <4>2 DEF ToolsInv
    <3>2. rg # Target
      BY <2>1 DEF FocusMoves, Target
    <3>3. \A y \in Stack' : y.do # "add"
      BY <1>5, <1>6, <1>7, <1>10, <1>11, <3>2 DEF HighlightInv
    <3> QED BY <1>4, <1>6, <3>1, <3>3 DEF HighlightInv, layers, tools
  <2>2. CASE ~FocusMoves(Found)
    <3>1. focus' = focus /\ rg' = Target'
      BY <1>4, <1>12, <1>13, <2>2 DEF focus
    <3> QED BY <1>4, <1>5, <1>7, <1>10, <1>11, <3>1, HighlightKept DEF tools, layers
  <2> QED BY <2>1, <2>2
<1> QED BY <1>10, <1>14, <1>15, <1>16, <1>17, <1>18, <1>19, <1>20 DEF IInv

LEMMA TwoEntries ==
  \A x, y \in Entries : \A t \in Seq(Entries) : <<x, y>> \o t = <<x>> \o (<<y>> \o t)
<1>1. TAKE x, y \in Entries
<1>2. TAKE t \in Seq(Entries)
<1>3. PICK A : A = Entries
  OBVIOUS
<1> QED BY <1>3, ConcatTwo

(* A workflow draws its highlight anew: it clears its layer and looks what *)
(* it has to draw.                                                         *)
LEMMA Renewing ==
  ASSUME IInv, calls # <<>>, \A y \in Elements(Waiting) : ~Drawing(y),
         NEW w \in Workflows, calls' = <<Do("clear", w), Do("pick", w)>> \o Waiting
  PROVE  \E c, p \in Entries :
           /\ c.do = "clear" /\ c.on = w /\ p.do = "pick" /\ p.on = w /\ ~Drawing(c) /\ ~Drawing(p)
           /\ Onto(calls', {c, p}, Waiting) /\ Now' = c
           /\ Stack' = {c, p} \cup Elements(Waiting) /\ Stacked(calls)'
<1>1. PICK c : c = Do("clear", w)
  OBVIOUS
<1>2. PICK p : p = Do("pick", w)
  OBVIOUS
<1>3. c \in Entries /\ c.do = "clear" /\ c.on = w /\ p \in Entries /\ p.do = "pick" /\ p.on = w
  BY <1>1, <1>2, Made DEF OfWorkflow, MainLayers
<1>4. ~Drawing(c) /\ ~Drawing(p)
  BY <1>3, RenderedAssumption DEF Drawing
<1>5. Waiting \in Seq(Entries) /\ Stacked(Waiting)
  BY TheStack
<1>6. Above(p, Waiting)
  BY <1>3, <1>5, EmitAbove
<1>7. ASSUME NEW r, Onto(r, {p}, Waiting) PROVE Above(c, r)
  <2>1. r \in Seq(Entries) /\ Elements(r) = {p} \cup Elements(Waiting)
    BY <1>7 DEF Onto
  <2>2. \A y \in Elements(r) : ~Drawing(y)
    BY <1>4, <2>1
  <2>3. \A y \in Elements(r) : y.do # "beginGuard"
    BY <2>2 DEF Drawing
  <2> QED BY <1>3, <1>4, <2>1, <2>2, <2>3, AboveMeans DEF Before
<1>8. calls' = <<c, p>> \o Waiting
  BY <1>1, <1>2
<1>9. Onto(calls', {c, p}, Waiting) /\ calls' # <<>> /\ Head(calls') = c
  <2>1. PICK r : r = <<p>> \o Waiting
    OBVIOUS
  <2>2. Onto(r, {p}, Waiting)
    BY <1>3, <1>5, <1>6, <2>1, Pushed
  <2>3. r \in Seq(Entries) /\ Stacked(r) /\ Above(c, r) /\ Elements(r) = {p} \cup Elements(Waiting)
    BY <1>7, <2>2 DEF Onto
  <2>4. calls' = <<c>> \o r
    <3>1. <<c, p>> \o Waiting = <<c>> \o (<<p>> \o Waiting)
      BY <1>3, <1>5, TwoEntries
    <3> QED BY <1>8, <2>1, <3>1
  <2>5. Onto(calls', {c}, r) /\ calls' # <<>> /\ Head(calls') = c
    BY <1>3, <2>3, <2>4, Pushed
  <2> QED BY <2>3, <2>5 DEF Onto
<1>10. Now' = c /\ Stack' = {c, p} \cup Elements(Waiting) /\ Stacked(calls)'
  BY <1>9, NowThen
<1> QED BY <1>3, <1>4, <1>9, <1>10

LEMMA FocusChangedStep == ASSUME IInv, FocusChanged PROVE IInv'
<1>1. PICK what : what = "focusChanged"
  OBVIOUS
<1>2. PICK e : e = IF listener = None THEN <<>> ELSE <<Do("clear", listener), Do("pick", listener)>>
  OBVIOUS
<1>3. /\ Doing(what) /\ Continue(e)
      /\ UNCHANGED <<collection, active, layers, focus, tools, missed, aborted>>
  BY <1>1, <1>2 DEF FocusChanged
<1>4. /\ calls # <<>> /\ Now.do = "focusChanged" /\ \A y \in Elements(Waiting) : Before(Now, y)
      /\ Stack = {Now} \cup Elements(Waiting) /\ calls' = e \o Waiting
  BY <1>1, <1>3, Running
<1>5. \A y \in Elements(Waiting) : ~Drawing(y)
  BY <1>4 DEF Before, Drawing
<1>6. /\ depth \in Nat /\ made \in Nat /\ FocusInv /\ ToolsInv /\ HighlightInv
      /\ workflow \in Workflows /\ (listener = None \/ listener = workflow)
  BY DEF IInv, GuardInv, ContentsInv, ToolsInv
<1>7. UNCHANGED <<depth, queued, updated, focused, rg, workflow, listener, highlight, active, aborted, missed>>
  BY <1>3 DEF collection, focus, tools
<1>8. Target' = Target
  BY <1>3, TargetKept DEF layers, focus
<1>9. PICK N : Onto(calls', N, Waiting)
               /\ \A x \in N : /\ ~Drawing(x) /\ ~Sending(x) /\ x.do \in {"clear", "pick"}
                               /\ x.on = workflow
  <2>1. CASE listener = None
    <3>1. Onto(calls', {}, Waiting)
      BY <1>2, <1>4, <2>1, Popped
    <3> QED BY <3>1
  <2>2. CASE listener # None
    <3>1. calls' = <<Do("clear", workflow), Do("pick", workflow)>> \o Waiting
      BY <1>2, <1>4, <1>6, <2>2
    <3>2. PICK c, p \in Entries :
           /\ c.do = "clear" /\ c.on = workflow /\ p.do = "pick" /\ p.on = workflow
           /\ ~Drawing(c) /\ ~Drawing(p) /\ Onto(calls', {c, p}, Waiting)
      BY <1>4, <1>5, <1>6, <3>1, Renewing
    <3>3. ~Sending(c) /\ ~Sending(p)
      BY <3>2 DEF Sending
    <3> QED BY <3>2, <3>3
  <2> QED BY <2>1, <2>2
<1>10. /\ Stacked(calls)' /\ Stack' = N \cup Elements(Waiting)
  BY <1>9, StackThen
<1>11. listener # None => Now'.do = "clear" /\ Now'.on = workflow
  <2>1. SUFFICES ASSUME listener # None PROVE Now'.do = "clear" /\ Now'.on = workflow
    OBVIOUS
  <2>2. calls' = <<Do("clear", workflow), Do("pick", workflow)>> \o Waiting
    BY <1>2, <1>4, <1>6, <2>1
  <2> QED BY <1>4, <1>5, <1>6, <2>2, Renewing
<1>12. GuardInv'
  BY <1>4, <1>7, <1>9, GuardKept
<1>13. LayersInv' /\ ContentsInv'
  BY <1>3, <1>4, <1>9, LayersKept, ContentsKept DEF layers
<1>14. ToldInv'
  BY <1>4, <1>7, <1>9, ToldKept
<1>15. FocusInv'
  <2>1. listener = None => rg = Target \/ Held
    BY <1>4, <1>6 DEF FocusInv
  <2>2. rg' = Target' \/ Held' \/ Now'.do = "clear"
    BY <1>7, <1>8, <1>11, <2>1 DEF Held
  <2> QED BY <1>3, <1>6, <1>7, <2>2 DEF FocusInv, layers
<1>16. ToolsInv'
  BY <1>4, <1>7, <1>9, ToolsKept
<1>17. ActiveInv'
  BY <1>4, <1>7, <1>9, ActiveKept
<1>18. HighlightInv'
  <2>1. Redrawing'
    <3>1. CASE listener = None
      <4>1. Has("connect")
        BY <1>6, <3>1 DEF ToolsInv
      <4>2. Has("connect")'
        BY <1>4, <1>10, <4>1 DEF Has
      <4> QED BY <4>2 DEF Redrawing
    <3>2. CASE listener # None
      BY <1>7, <1>11, <3>2 DEF Redrawing
    <3> QED BY <3>1, <3>2
  <2>2. \A x \in Stack' : x.do = "add" => x \in Stack
    BY <1>4, <1>9, <1>10
  <2> QED BY <1>3, <1>6, <1>7, <1>8, <2>1, <2>2 DEF HighlightInv, layers
<1> QED BY <1>10, <1>12, <1>13, <1>14, <1>15, <1>16, <1>17, <1>18 DEF IInv

LEMMA ClearStep == ASSUME IInv, Clear PROVE IInv'
<1>1. PICK what : what = "clear"
  OBVIOUS
<1>2. /\ Doing(what) /\ Continue(Emission) /\ Signal({On})
      /\ highlight' = [w \in Workflows |-> IF w = On THEN {} ELSE highlight[w]]
      /\ UNCHANGED <<active, layers, focus, workflow, listener, aborted>>
  BY <1>1 DEF Clear
<1>3. /\ calls # <<>> /\ Now.do = "clear" /\ On = Now.on /\ Now \in Entries /\ Now \in Stack
      /\ \A y \in Elements(Waiting) : Before(Now, y)
      /\ Stack = {Now} \cup Elements(Waiting) /\ calls' = Emission \o Waiting
  BY <1>1, <1>2, Running
<1>4. On \in MainLayers
  BY <1>3, Typed
<1>5. /\ Onto(calls', Signals, Waiting) /\ \A x \in Signals : x.do = "emit"
      /\ Stacked(calls)' /\ GuardInv' /\ ToldInv' /\ FocusInv'
  BY <1>2, <1>3, <1>4, Signaled DEF layers
<1>6. \A x \in Signals : x \notin Erasures
  BY <1>5 DEF Erasures, Kind
<1>7. Stack' = Signals \cup Elements(Waiting) /\ Elements(Waiting) \subseteq Stack
  BY <1>3, <1>5, StackThen
<1>8. LayersInv' /\ ContentsInv'
  BY <1>2, <1>3, <1>5, LayersKept, ContentsKept DEF layers
<1>9. ToolsInv /\ HighlightInv /\ workflow \in Workflows
  BY DEF IInv, ToolsInv
<1>10. ToolsInv'
  BY <1>2, <1>3, <1>5, <1>6, ToolsKept
<1>11. ActiveInv'
  BY <1>2, <1>3, <1>5, ActiveKept
<1>12. highlight' \in [Workflows -> SUBSET ((1..made) \X BOOLEAN)]
  BY <1>2, <1>9 DEF HighlightInv
<1>13. \A x \in Stack' : x.do = "add" =>
         /\ x.on.geometry \in 1..made'
         /\ x.on.asFocus = TRUE => x.on.geometry = rg'
         /\ depth' = 0 => rg' = Target'
  <2>1. Target' = Target /\ depth' = depth /\ rg' = rg /\ made' = made
    BY <1>2, TargetKept DEF layers, focus, Signal, SignalOnly
  <2> QED BY <1>5, <1>7, <1>9, <2>1 DEF HighlightInv
<1>14. CASE Drawing(Now)
  <2>1. On = "reconstruction"
    BY <1>3, <1>14 DEF Drawing
  <2>2. On \notin Workflows
    BY <2>1, RenderedAssumption
  <2>3. highlight'[workflow] = highlight[workflow]
    BY <1>2, <1>9, <2>2
  <2>4. (Has("connect") => Has("connect")') /\ (Has("pick") => Has("pick")')
    BY <1>3, <1>7 DEF Has
  <2>5. Redrawing => Redrawing'
    BY <1>3, <1>9, <2>2, <2>4 DEF Redrawing
  <2>6. Lost => Lost'
    BY <1>2 DEF Lost, layers, focus
  <2>7. \A r : Marked(r)' <=> Marked(r)
    BY <1>2, <2>3 DEF Marked
  <2>8. rg' = rg /\ made' = made
    BY <1>2 DEF focus, layers
  <2>9. Marking => Marking'
    BY <1>3, <1>7, <2>4, <2>8 DEF Marking
  <2>10. HighlightInv'
    <3>1. Redrawing' \/ Lost' \/ \A r \in 1..made' : Marked(r)' => r = rg'
      BY <1>9, <2>5, <2>6, <2>7, <2>8 DEF HighlightInv
    <3>2. Redrawing' \/ Lost' \/ rg' = 0 \/ Marked(rg)' \/ Marking'
      <4>1. Marked(rg)' <=> Marked(rg)
        BY <1>2, <2>3, <2>8 DEF Marked
      <4> QED BY <1>9, <2>5, <2>6, <2>8, <2>9, <4>1 DEF HighlightInv
    <3> QED BY <1>12, <1>13, <2>8, <3>1, <3>2 DEF HighlightInv
  <2> QED BY <1>5, <1>8, <1>10, <1>11, <2>10 DEF IInv
<1>15. CASE ~Drawing(Now)
  <2>1. On = workflow
    <3>1. Now \in Erasures
      BY <1>3, <1>15, OfKind
    <3> QED BY <1>3, <1>9, <3>1 DEF ToolsInv
  <2>2. highlight'[workflow'] = {}
    BY <1>2, <1>9, <2>1
  <2>3. \A r : ~Marked(r)'
    BY <2>2 DEF Marked
  <2>4. Has("pick")'
    <3>1. Above(Now, Waiting) /\ Waiting \in Seq(Entries)
      BY <1>3, TheStack
    <3>2. \E y \in Elements(Waiting) : y.do = "pick"
      BY <1>3, <1>15, <3>1, AboveMeans
    <3> QED BY <1>7, <3>2 DEF Has
  <2>5. HighlightInv'
    <3>1. made' = made
      BY <1>2 DEF layers
    <3> QED BY <1>12, <1>13, <2>3, <2>4, <3>1 DEF HighlightInv, Marking
  <2> QED BY <1>5, <1>8, <1>10, <1>11, <2>5 DEF IInv
<1> QED BY <1>14, <1>15

LEMMA PickStep == ASSUME IInv, Pick PROVE IInv'
<1>1. PICK what : what = "pick"
  OBVIOUS
<1>2. PICK S : S = Shown \ {rg}
  OBVIOUS
<1>3. PICK others : others = SetToSeq(S)
  OBVIOUS
<1>4. PICK marks :
        marks = [i \in DOMAIN others |-> Do("add", [in |-> On, geometry |-> others[i], asFocus |-> FALSE])]
  OBVIOUS
<1>5. PICK mark :
        mark = IF rg \in Shown THEN <<Do("add", [in |-> On, geometry |-> rg, asFocus |-> TRUE])>> ELSE <<>>
  OBVIOUS
<1>6. PICK e : e = IF focused /\ rg # 0 THEN marks \o mark ELSE <<>>
  OBVIOUS
<1>7. /\ Doing(what) /\ Continue(e)
      /\ UNCHANGED <<collection, active, layers, focus, tools, missed, aborted>>
  BY <1>1, <1>2, <1>3, <1>4, <1>5, <1>6 DEF Pick
<1>8. /\ calls # <<>> /\ Now.do = "pick" /\ On = Now.on /\ Now \in Entries /\ Now \in Stack
      /\ \A y \in Elements(Waiting) : Before(Now, y)
      /\ Stack = {Now} \cup Elements(Waiting) /\ calls' = e \o Waiting
  BY <1>1, <1>7, Running
<1>9. /\ UNCHANGED <<depth, queued, updated, focused, rg, workflow, listener, highlight, active, aborted, missed>>
      /\ UNCHANGED <<made, index, visible, output>>
  BY <1>7 DEF collection, focus, tools, layers
<1>10. /\ depth \in Nat /\ made \in Nat /\ FocusInv /\ ToolsInv /\ HighlightInv /\ ContentsInv /\ LayersInv
       /\ On = workflow /\ workflow \in Workflows
  BY <1>8 DEF IInv, GuardInv, ContentsInv, ToolsInv
<1>11. /\ marks \in Seq(Entries)
       /\ \A x \in Elements(marks) : /\ x \in Entries /\ x.do = "add" /\ x.on.in = workflow
                                     /\ x.on.geometry \in 1..made /\ x.on.asFocus = FALSE
  <2>1. S \subseteq 1..made /\ IsFiniteSet(S)
    <3>1. Shown \subseteq 1..made /\ IsFiniteSet(Shown)
      BY Finding
    <3> QED BY <1>2, <3>1, FS_Subset
  <2>2. PICK f : f = [r \in S |-> Do("add", [in |-> On, geometry |-> r, asFocus |-> FALSE])]
    OBVIOUS
  <2>3. ASSUME NEW r \in S
        PROVE  /\ f[r] \in Entries /\ f[r].do = "add" /\ f[r].on.in = workflow
               /\ f[r].on.geometry = r /\ f[r].on.asFocus = FALSE
    <3>1. PICK x : x = Do("add", [in |-> workflow, geometry |-> r, asFocus |-> FALSE])
      OBVIOUS
    <3>2. f[r] = x
      BY <1>10, <2>2, <3>1
    <3>3. r \in Nat \ {0} /\ FALSE \in BOOLEAN
      BY <1>10, <2>1
    <3>4. x \in Entries
      BY <1>10, <3>1, <3>3, Made
    <3>5. x.do = "add" /\ x.on = [in |-> workflow, geometry |-> r, asFocus |-> FALSE]
      BY <3>1 DEF Do
    <3> QED BY <3>2, <3>4, <3>5
  <2>4. marks \in Seq(Entries) /\ Elements(marks) = {f[r] : r \in S}
    <3>1. others \in Seq(S)
      BY <1>3, <2>1, Listed
    <3>2. \A i \in DOMAIN others : others[i] \in S
      BY <3>1
    <3>3. marks = [i \in DOMAIN others |-> f[others[i]]]
      BY <1>4, <2>2, <3>2
    <3>4. \A r \in S : f[r] \in Entries
      BY <2>3
    <3>5. IsFiniteSet(S)
      BY <2>1
    <3> QED BY <1>3, <3>3, <3>4, <3>5, Each
  <2>5. ASSUME NEW x \in Elements(marks)
        PROVE  /\ x \in Entries /\ x.do = "add" /\ x.on.in = workflow
               /\ x.on.geometry \in 1..made /\ x.on.asFocus = FALSE
    <3>1. PICK r \in S : x = f[r]
      BY <2>4
    <3> QED BY <2>1, <2>3, <3>1
  <2> QED BY <2>4, <2>5
<1>12. /\ mark \in Seq(Entries)
       /\ \A x \in Elements(mark) : /\ x \in Entries /\ x.do = "add" /\ x.on.in = workflow
                                    /\ x.on.geometry \in 1..made /\ x.on.geometry = rg
       /\ rg \in Shown => \E x \in Elements(mark) : x.do = "add" /\ x.on.geometry = rg /\ x.on.asFocus = TRUE
  <2>1. CASE rg \in Shown
    <3>1. PICK x : x = Do("add", [in |-> On, geometry |-> rg, asFocus |-> TRUE])
      OBVIOUS
    <3>2. rg \in 1..made /\ TRUE \in BOOLEAN
      BY <2>1, Finding
    <3>3. x = Do("add", [in |-> workflow, geometry |-> rg, asFocus |-> TRUE])
      BY <1>10, <3>1
    <3>4. x \in Entries /\ x.do = "add" /\ x.on.in = workflow /\ x.on.geometry = rg /\ x.on.asFocus = TRUE
      <4>1. rg \in Nat \ {0}
        BY <1>10, <3>2
      <4>2. x \in Entries
        BY <1>10, <3>2, <3>3, <4>1, Made
      <4>3. x.do = "add" /\ x.on = [in |-> workflow, geometry |-> rg, asFocus |-> TRUE]
        BY <3>3 DEF Do
      <4> QED BY <4>2, <4>3
    <3>5. mark = <<x>>
      BY <1>5, <2>1, <3>1
    <3>6. mark \in Seq(Entries) /\ Elements(mark) = {x}
      <4>1. <<>> \in Seq(Entries) /\ mark = <<x>> \o <<>>
        BY <3>5
      <4>2. Elements(mark) = {x} \cup Elements(<<>>)
        BY <3>4, <4>1, Pushing
      <4> QED BY <3>4, <3>5, <4>2, ElementsEmpty
    <3> QED BY <3>2, <3>4, <3>6
  <2>2. CASE rg \notin Shown
    <3>1. mark = <<>>
      BY <1>5, <2>2
    <3>2. mark \in Seq(Entries) /\ Elements(mark) = {}
      BY <3>1, ElementsEmpty
    <3> QED BY <2>2, <3>2
  <2> QED BY <2>1, <2>2
<1>13. PICK N : N = Elements(e)
  OBVIOUS
<1>14. /\ e \in Seq(Entries)
       /\ \A x \in N : /\ x \in Entries /\ x.do = "add" /\ x.on.in = workflow
                       /\ x.on.geometry \in 1..made /\ (x.on.asFocus = TRUE => x.on.geometry = rg)
                       /\ focused /\ rg # 0
       /\ focused /\ rg \in Shown /\ rg # 0 =>
            \E x \in N : x.do = "add" /\ x.on.geometry = rg /\ x.on.asFocus = TRUE
  <2>1. CASE focused /\ rg # 0
    <3>1. e = marks \o mark
      BY <1>6, <2>1
    <3>2. e \in Seq(Entries) /\ N = Elements(marks) \cup Elements(mark)
      BY <1>11, <1>12, <1>13, <3>1, ElementsConcat
    <3>3. \A x \in N : x \in Elements(marks) \/ x \in Elements(mark)
      BY <3>2
    <3>4. \A x \in N : x \in Entries /\ x.do = "add" /\ x.on.in = workflow /\ x.on.geometry \in 1..made
      BY <1>11, <1>12, <3>3
    <3>5. \A x \in N : x.on.asFocus = TRUE => x.on.geometry = rg
      BY <1>11, <1>12, <3>3
    <3>6. rg \in Shown => \E x \in N : x.do = "add" /\ x.on.geometry = rg /\ x.on.asFocus = TRUE
      BY <1>12, <3>2
    <3> QED BY <2>1, <3>2, <3>4, <3>5, <3>6
  <2>2. CASE ~(focused /\ rg # 0)
    <3>1. e = <<>>
      BY <1>6, <2>2
    <3>2. N = {} /\ e \in Seq(Entries)
      BY <1>13, <3>1, ElementsEmpty
    <3> QED BY <2>2, <3>2
  <2> QED BY <2>1, <2>2
<1>15. \A y \in Elements(Waiting) : ~Drawing(y)
  BY <1>8 DEF Before, Drawing
<1>16. \A x \in N : ~Drawing(x) /\ ~Sending(x)
  BY <1>14 DEF Drawing, Sending
<1>17. Onto(calls', N, Waiting)
  <2>1. Waiting \in Seq(Entries) /\ Stacked(Waiting)
    BY TheStack
  <2>2. \A x \in Elements(e) : Above(x, Waiting)
    BY <1>13, <1>14, <1>15, <2>1, EmitAbove
  <2>3. \A x \in Elements(e), y \in Elements(e) : Before(x, y)
    BY <1>13, <1>14, <1>16 DEF Before
  <2> QED BY <1>8, <1>13, <1>14, <2>1, <2>2, <2>3, OntoMany
<1>18. Stack' = N \cup Elements(Waiting) /\ Stacked(calls)'
  BY <1>17, StackThen
<1>19. Target' = Target
  BY <1>7, TargetKept DEF layers, focus
<1>20. GuardInv'
  BY <1>8, <1>9, <1>16, <1>17, GuardKept
<1>21. LayersInv' /\ ContentsInv'
  BY <1>7, <1>8, <1>17, LayersKept, ContentsKept DEF layers
<1>22. ToldInv'
  BY <1>8, <1>9, <1>17, ToldKept
<1>23. FocusInv' /\ (rg = Target \/ Held)
  BY <1>7, <1>8, <1>9, <1>10, FocusKept DEF layers
<1>24. ToolsInv'
  <2>1. \A x \in N : x \notin Erasures
    BY <1>14 DEF Erasures, Kind
  <2> QED BY <1>8, <1>9, <1>14, <1>17, <2>1, ToolsKept
<1>25. ActiveInv'
  BY <1>8, <1>9, <1>14, <1>17, ActiveKept
<1>26. HighlightInv'
  <2>1. \A x \in Stack' : x.do = "add" =>
          /\ x.on.geometry \in 1..made'
          /\ x.on.asFocus = TRUE => x.on.geometry = rg'
          /\ depth' = 0 => rg' = Target'
    <3>1. ASSUME NEW x \in N
          PROVE  /\ x.on.geometry \in 1..made'
                 /\ x.on.asFocus = TRUE => x.on.geometry = rg'
                 /\ depth' = 0 => rg' = Target'
      <4>1. depth' = 0 => rg' = Target'
        BY <1>9, <1>19, <1>23 DEF Held
      <4>2. x.on.geometry \in 1..made' /\ (x.on.asFocus = TRUE => x.on.geometry = rg')
        BY <1>9, <1>14, <3>1
      <4> QED BY <4>1, <4>2
    <3>2. \A x \in Elements(Waiting) : x \in Stack
      BY <1>8
    <3>3. ASSUME NEW x \in Elements(Waiting), x.do = "add"
          PROVE  /\ x.on.geometry \in 1..made'
                 /\ x.on.asFocus = TRUE => x.on.geometry = rg'
                 /\ depth' = 0 => rg' = Target'
      BY <1>9, <1>10, <1>19, <3>2, <3>3 DEF HighlightInv
    <3> QED BY <1>18, <3>1, <3>3
  <2>2. Redrawing => Redrawing'
    <3>1. Has("connect") => Has("connect")'
      BY <1>8, <1>18 DEF Has
    <3> QED BY <1>8, <3>1 DEF Redrawing
  <2>3. Lost' <=> Lost
    BY <1>9 DEF Lost
  <2>4. \A r : Marked(r)' <=> Marked(r)
    BY <1>9 DEF Marked
  <2>5. Lost \/ rg = 0 \/ Marking'
    <3>1. SUFFICES ASSUME ~Lost, rg # 0 PROVE Marking'
      OBVIOUS
    <3>2. focused
      BY <1>10, <3>1 DEF FocusInv
    <3>3. PICK l \in VisualLayers : index[l] # 0 /\ visible[l] /\ output[l] = rg
      BY <3>1, <3>2 DEF Lost
    <3>4. contents[index[l]] = rg
      <4>1. \A y \in Stack : ~Drawing(y)
        BY <1>8, <1>15 DEF Drawing
      <4>2. \A y \in Stack : y.do # "render"
        BY <4>1 DEF Drawing
      <4> QED BY <1>10, <3>3, <4>2 DEF ContentsInv, Drawn
    <3>5. PICK i \in DOMAIN children : children[i] = index[l]
      <4>1. index[l] \in Elements(children)
        BY <1>10, <3>3 DEF LayersInv
      <4> QED BY <4>1 DEF Elements
    <3>6. rg \in Shown
      BY <3>1, <3>4, <3>5 DEF Shown
    <3>7. PICK x \in N : x.do = "add" /\ x.on.geometry = rg /\ x.on.asFocus = TRUE
      BY <1>14, <3>1, <3>2, <3>6
    <3> QED BY <1>9, <1>18, <3>7 DEF Marking
  <2>6. Redrawing' \/ Lost' \/ \A r \in 1..made' : Marked(r)' => r = rg'
    BY <1>9, <1>10, <2>2, <2>3, <2>4 DEF HighlightInv
  <2>7. Redrawing' \/ Lost' \/ rg' = 0 \/ Marked(rg)' \/ Marking'
    BY <1>9, <2>3, <2>5
  <2> QED BY <1>9, <1>10, <2>1, <2>6, <2>7 DEF HighlightInv
<1> QED BY <1>18, <1>20, <1>21, <1>22, <1>23, <1>24, <1>25, <1>26 DEF IInv

LEMMA AddStep == ASSUME IInv, Add PROVE IInv'
<1>1. PICK what : what = "add"
  OBVIOUS
<1>2. /\ Doing(what) /\ Continue(Emission) /\ Signal({On.in})
      /\ highlight' = [highlight EXCEPT ![On.in] = @ \cup {<<On.geometry, On.asFocus>>}]
      /\ UNCHANGED <<active, layers, focus, workflow, listener, aborted>>
  BY <1>1 DEF Add
<1>3. /\ calls # <<>> /\ Now.do = "add" /\ On = Now.on /\ Now \in Entries /\ Now \in Stack
      /\ Stack = {Now} \cup Elements(Waiting) /\ calls' = Emission \o Waiting
  BY <1>1, <1>2, Running
<1>4. PICK r, b : r = On.geometry /\ b = On.asFocus
  OBVIOUS
<1>5. ToolsInv /\ HighlightInv /\ workflow \in Workflows /\ made \in Nat
  BY DEF IInv, ToolsInv, ContentsInv
<1>6. On.in = workflow /\ r \in 1..made /\ (b = TRUE => r = rg)
  BY <1>3, <1>4, <1>5 DEF ToolsInv, HighlightInv
<1>7. b \in BOOLEAN
  BY <1>3, <1>4, Typed
<1>8. /\ Onto(calls', Signals, Waiting) /\ \A x \in Signals : x.do = "emit"
      /\ Stacked(calls)' /\ GuardInv' /\ ToldInv' /\ FocusInv'
  <2>1. {On.in} \subseteq MainLayers
    BY <1>5, <1>6 DEF MainLayers
  <2> QED BY <1>2, <1>3, <2>1, Signaled DEF layers
<1>9. \A x \in Signals : x \notin Erasures
  BY <1>8 DEF Erasures, Kind
<1>10. Stack' = Signals \cup Elements(Waiting)
  BY <1>8, StackThen
<1>11. LayersInv' /\ ContentsInv'
  BY <1>2, <1>3, <1>8, LayersKept, ContentsKept DEF layers
<1>12. ToolsInv'
  BY <1>2, <1>3, <1>8, <1>9, ToolsKept
<1>13. ActiveInv'
  BY <1>2, <1>3, <1>8, ActiveKept
<1>14. highlight' \in [Workflows -> SUBSET ((1..made) \X BOOLEAN)]
       /\ highlight'[workflow] = highlight[workflow] \cup {<<r, b>>}
  <2>1. highlight \in [Workflows -> SUBSET ((1..made) \X BOOLEAN)]
    BY <1>5 DEF HighlightInv
  <2>2. PICK m : m = <<r, b>>
    OBVIOUS
  <2>3. m \in (1..made) \X BOOLEAN
    BY <1>6, <1>7, <2>2
  <2>4. highlight' = [highlight EXCEPT ![workflow] = @ \cup {m}]
    BY <1>2, <1>4, <1>6, <2>2
  <2>5. PICK T : T = (1..made) \X BOOLEAN
    OBVIOUS
  <2> QED BY <1>5, <2>1, <2>2, <2>3, <2>4, <2>5
<1>15. Target' = Target /\ depth' = depth /\ rg' = rg /\ made' = made
  BY <1>2, TargetKept DEF layers, focus, Signal, SignalOnly
<1>16. \A x \in Stack' : x.do = "add" =>
         /\ x.on.geometry \in 1..made'
         /\ x.on.asFocus = TRUE => x.on.geometry = rg'
         /\ depth' = 0 => rg' = Target'
  BY <1>3, <1>5, <1>8, <1>10, <1>15 DEF HighlightInv
<1>17. Redrawing => Redrawing'
  <2>1. Has("connect") => Has("connect")'
    BY <1>3, <1>10 DEF Has
  <2> QED BY <1>3, <2>1 DEF Redrawing
<1>18. Lost => Lost'
  BY <1>2 DEF Lost, layers, focus
<1>19. \A q : Marked(q)' => Marked(q) \/ q = rg
  <2>1. ASSUME NEW q, Marked(q)', ~Marked(q) PROVE q = rg
    <3>1. <<q, TRUE>> = <<r, b>>
      BY <1>2, <1>14, <2>1 DEF Marked
    <3>2. q = r /\ b = TRUE
      BY <3>1
    <3> QED BY <1>6, <3>2
  <2> QED BY <2>1
<1>20. \A q : Marked(q) => Marked(q)'
  BY <1>2, <1>14 DEF Marked
<1>21. Marking => Marking' \/ Marked(rg)'
  <2>1. SUFFICES ASSUME Marking, ~Marking' PROVE Marked(rg)'
    OBVIOUS
  <2>2. ~Has("pick")
    BY <1>3, <1>10, <2>1 DEF Marking, Has
  <2>3. PICK x \in Stack : x.do = "add" /\ x.on.geometry = rg /\ x.on.asFocus = TRUE
    BY <2>1, <2>2 DEF Marking
  <2>4. x = Now
    BY <1>3, <1>10, <1>15, <2>1, <2>3 DEF Marking
  <2>5. r = rg /\ b = TRUE
    BY <1>3, <1>4, <2>3, <2>4
  <2> QED BY <1>2, <1>14, <1>15, <2>5 DEF Marked
<1>22. HighlightInv'
  <2>1. Redrawing' \/ Lost' \/ \A q \in 1..made' : Marked(q)' => q = rg'
    BY <1>5, <1>15, <1>17, <1>18, <1>19 DEF HighlightInv
  <2>2. Redrawing' \/ Lost' \/ rg' = 0 \/ Marked(rg)' \/ Marking'
    <3>1. Marked(rg) => Marked(rg)'
      BY <1>2, <1>14, <1>15 DEF Marked
    <3> QED BY <1>5, <1>15, <1>17, <1>18, <1>21, <3>1 DEF HighlightInv
  <2> QED BY <1>14, <1>15, <1>16, <2>1, <2>2 DEF HighlightInv
<1> QED BY <1>8, <1>11, <1>12, <1>13, <1>22 DEF IInv

LEMMA RenderStep == ASSUME IInv, Render PROVE IInv'
<1>1. PICK what : what = "render"
  OBVIOUS
<1>2. /\ Doing(what) /\ Continue(Emission) /\ Signal({"reconstruction"})
      /\ contents' = [contents EXCEPT ![index[On]] = IF visible[On] THEN output[On] ELSE 0]
      /\ UNCHANGED <<active, children, free, index, visible, output, made, focus, tools, aborted>>
  BY <1>1 DEF Render
<1>3. /\ calls # <<>> /\ Now.do = "render" /\ On = Now.on /\ Now \in Entries /\ Now \in Stack
      /\ \A y \in Elements(Waiting) : Before(Now, y)
      /\ Stack = {Now} \cup Elements(Waiting) /\ calls' = Emission \o Waiting
  BY <1>1, <1>2, Running
<1>4. On \in VisualLayers
  BY <1>3, Typed
<1>5. \A y \in Elements(Waiting) : Drawing(y)
  BY <1>3 DEF Before, Drawing
<1>6. /\ Onto(calls', Signals, Waiting) /\ \A x \in Signals : x.do = "emit"
      /\ Stacked(calls)' /\ GuardInv' /\ ToldInv' /\ FocusInv'
  <2>1. {"reconstruction"} \subseteq MainLayers
    BY DEF MainLayers
  <2> QED BY <1>2, <1>3, <2>1, Signaled
<1>7. \A x \in Signals : x \notin Erasures
  BY <1>6 DEF Erasures, Kind
<1>8. Stack' = Signals \cup Elements(Waiting)
  BY <1>6, StackThen
<1>9. LayersInv'
  BY <1>2, LayersKept
<1>10. ContentsInv /\ LayersInv
  BY DEF IInv
<1>11. /\ contents' \in [1..Cardinality(VisualLayers) -> 0..made]
       /\ \A i \in DOMAIN contents : contents'[i] = IF i = index[On] THEN Drawn(On) ELSE contents[i]
  <2>1. Drawn(On) \in 0..made
    <3>1. output[On] \in 0..made /\ 0 \in 0..made
      BY <1>4, <1>10 DEF ContentsInv
    <3> QED BY <3>1 DEF Drawn
  <2>2. PICK d : d = Drawn(On)
    OBVIOUS
  <2>3. contents' = [contents EXCEPT ![index[On]] = d]
    BY <1>2, <2>2 DEF Drawn
  <2>4. contents \in [1..Cardinality(VisualLayers) -> 0..made]
    BY <1>10 DEF ContentsInv
  <2> QED BY <2>1, <2>2, <2>3, <2>4
<1>12. \A l \in VisualLayers : index[l] # 0 => index[l] \in Elements(children) /\ index[l] \in DOMAIN contents
  <2>1. SUFFICES ASSUME NEW l \in VisualLayers, index[l] # 0
                 PROVE  index[l] \in Elements(children) /\ index[l] \in DOMAIN contents
    OBVIOUS
  <2>2. index[l] \in Elements(children)
    BY <1>10, <2>1 DEF LayersInv
  <2>3. /\ Elements(children) \subseteq 1..(Len(children) + Len(free))
        /\ Len(children) + Len(free) <= Cardinality(VisualLayers)
        /\ Len(children) \in Nat /\ Len(free) \in Nat
    BY <1>10 DEF LayersInv
  <2>4. Cardinality(VisualLayers) \in Nat
    BY FS_CardinalityType, RenderedAssumption
  <2>5. index[l] \in 1..Cardinality(VisualLayers)
    BY <2>2, <2>3, <2>4
  <2> QED BY <1>10, <2>2, <2>5 DEF ContentsInv
<1>13. ContentsInv'
  <2>1. ASSUME NEW i \in DOMAIN contents, i \notin Elements(children) PROVE contents'[i] = 0
    <3>1. i = index[On] => i = 0
      BY <1>4, <1>12, <2>1
    <3>2. i # 0
      BY <1>10 DEF ContentsInv
    <3> QED BY <1>10, <1>11, <2>1, <3>1, <3>2 DEF ContentsInv
  <2>2. ASSUME NEW l \in VisualLayers, index[l] # 0
        PROVE  contents'[index[l]] = Drawn(l) \/ \E x \in Stack' : x.do = "render" /\ x.on = l
    <3>1. index[l] \in DOMAIN contents
      BY <1>12, <2>2
    <3>2. CASE l = On
      BY <1>11, <3>1, <3>2
    <3>3. CASE l # On
      <4>1. index[l] # index[On]
        BY <1>4, <1>10, <2>2, <3>3 DEF LayersInv
      <4>2. contents'[index[l]] = contents[index[l]]
        BY <1>11, <3>1, <4>1
      <4>3. contents[index[l]] = Drawn(l) \/ \E x \in Stack : x.do = "render" /\ x.on = l
        BY <1>10, <2>2 DEF ContentsInv
      <4>4. \A x \in Stack : x.on = l => x \in Stack'
        BY <1>3, <1>8, <3>3
      <4> QED BY <4>2, <4>3, <4>4
    <3> QED BY <3>2, <3>3
  <2>3. \A l \in VisualLayers : Drawn(l)' = Drawn(l)
    BY <1>2 DEF Drawn
  <2>4. DOMAIN contents' = DOMAIN contents
    BY <1>10, <1>11 DEF ContentsInv
  <2> QED BY <1>2, <1>10, <1>11, <2>1, <2>2, <2>3, <2>4 DEF ContentsInv
<1>14. ToolsInv'
  BY <1>2, <1>3, <1>6, <1>7, ToolsKept DEF tools
<1>15. ActiveInv'
  BY <1>2, <1>3, <1>6, ActiveKept DEF tools
<1>16. HighlightInv'
  <2>1. \A x \in Elements(Waiting) : x.do # "add"
    BY <1>5 DEF Drawing
  <2> QED BY <1>2, <1>3, <1>6, <2>1, HighlightKept DEF tools
<1> QED BY <1>6, <1>9, <1>13, <1>14, <1>15, <1>16 DEF IInv

(* Main layers are switched on and off: what that leaves alone.            *)
LEMMA Switched ==
  ASSUME IInv, calls # <<>>, Now.do \in {"activate", "deactivate", "restore"},
         NEW ls, ls \subseteq MainLayers,
         \/ calls' = <<>> \o Waiting /\ UNCHANGED <<collection, missed>>
         \/ calls' = Emission \o Waiting /\ Signal(ls),
         UNCHANGED <<layers, focus, tools>>
  PROVE  /\ Stacked(calls)' /\ GuardInv' /\ LayersInv' /\ ContentsInv' /\ ToldInv' /\ FocusInv'
         /\ ToolsInv' /\ HighlightInv' /\ Elements(Waiting) \subseteq Stack'
         /\ \A x \in Stack' : x.do = "emit" \/ x \in Elements(Waiting)
<1>1. made \in Nat /\ depth \in Nat
  BY DEF IInv, ContentsInv, GuardInv
<1>2. PICK N : /\ Onto(calls', N, Waiting) /\ \A x \in N : x.do = "emit"
               /\ GuardInv' /\ ToldInv' /\ FocusInv' /\ depth' = depth
  <2>1. CASE calls' = <<>> \o Waiting /\ UNCHANGED <<collection, missed>>
    <3>1. Onto(calls', {}, Waiting)
      BY <2>1, Popped
    <3>2. UNCHANGED <<depth, queued, updated, missed>>
      BY <2>1 DEF collection
    <3>3. GuardInv'
      BY <3>1, <3>2, GuardKept
    <3>4. ToldInv'
      BY <3>1, <3>2, ToldKept
    <3>5. FocusInv'
      BY <1>1, <3>2, FocusKept DEF layers
    <3> QED BY <3>1, <3>2, <3>3, <3>4, <3>5
  <2>2. CASE calls' = Emission \o Waiting /\ Signal(ls)
    <3>1. /\ Onto(calls', Signals, Waiting) /\ \A x \in Signals : x.do = "emit"
          /\ GuardInv' /\ ToldInv' /\ FocusInv'
      BY <2>2, Signaled DEF layers
    <3>2. depth' = depth
      BY <2>2 DEF Signal, SignalOnly
    <3> QED BY <3>1, <3>2
  <2> QED BY <2>1, <2>2
<1>3. Stack' = N \cup Elements(Waiting) /\ Stacked(calls)'
  BY <1>2, StackThen
<1>4. LayersInv' /\ ContentsInv'
  BY <1>2, LayersKept, ContentsKept DEF layers
<1>5. ToolsInv'
  <2>1. \A x \in N : x \notin Erasures
    BY <1>2 DEF Erasures, Kind
  <2> QED BY <1>2, <2>1, ToolsKept DEF tools
<1>6. HighlightInv'
  <2>1. Target' = Target /\ rg' = rg
    BY TargetKept DEF layers, focus
  <2>2. \A x \in Elements(Waiting) : x.do = "add" /\ depth' = 0 => rg' = Target'
    BY <1>2, <2>1, AddsRight
  <2>3. \A x \in N : x.do # "add"
    BY <1>2
  <2> QED BY <1>2, <2>2, <2>3, HighlightKept DEF tools, layers
<1> QED BY <1>2, <1>3, <1>4, <1>5, <1>6

LEMMA SetActiveStep == ASSUME IInv, SetActive PROVE IInv'
<1>1. PICK a, d : a = "activate" /\ d = "deactivate"
  OBVIOUS
<1>2. /\ Doing(a) \/ Doing(d)
      /\ active' = IF Doing(a) THEN active \cup {On} ELSE active \ {On}
      /\ \/ active' = active /\ Continue(<<>>) /\ UNCHANGED <<collection, missed>>
         \/ Continue(Emission) /\ Signal({On})
      /\ UNCHANGED <<layers, focus, tools, aborted>>
  BY <1>1 DEF SetActive
<1>3. /\ calls # <<>> /\ Now.do \in {a, d} /\ On = Now.on /\ Now \in Entries /\ Now \in Stack
      /\ \A y \in Elements(Waiting) : Before(Now, y)
      /\ Stack = {Now} \cup Elements(Waiting) /\ \A e : Continue(e) => calls' = e \o Waiting
      /\ active' = IF Now.do = a THEN active \cup {On} ELSE active \ {On}
  <2>1. CASE Doing(a)
    BY <1>2, <2>1, Running
  <2>2. CASE Doing(d) /\ ~Doing(a)
    <3>1. Now.do # a
      BY <2>2, TheStack DEF Doing
    <3> QED BY <1>2, <2>2, <3>1, Running
  <2> QED BY <1>2, <2>1, <2>2
<1>4. On \in Workflows
  BY <1>1, <1>3, Typed DEF OfWorkflow
<1>5. /\ Stacked(calls)' /\ GuardInv' /\ LayersInv' /\ ContentsInv' /\ ToldInv' /\ FocusInv'
      /\ ToolsInv' /\ HighlightInv' /\ Elements(Waiting) \subseteq Stack'
      /\ \A x \in Stack' : x.do = "emit" \/ x \in Elements(Waiting)
  <2>1. {On} \subseteq MainLayers
    BY <1>4 DEF MainLayers
  <2> QED BY <1>1, <1>2, <1>3, <2>1, Switched
<1>6. UNCHANGED <<workflow, listener, aborted>>
  BY <1>2 DEF tools
<1>7. ActiveInv /\ ToolsInv /\ "reconstruction" \notin Workflows
  BY RenderedAssumption DEF IInv
<1>8. Above(Now, Waiting) /\ Waiting \in Seq(Entries)
  BY <1>3, TheStack
<1>9. ActiveInv'
  <2>1. CASE Now.do = a
    <3>1. \A y \in Elements(Waiting) : y.do = "connect" /\ y.on = On
      BY <1>1, <1>3, <2>1 DEF Before
    <3>2. PICK c \in Elements(Waiting) : c.do = "connect"
      BY <1>1, <1>3, <1>8, <2>1, AboveMeans
    <3>3. ~Has("disconnect") /\ Has("connect")
      BY <1>1, <1>3, <2>1, <3>1, <3>2 DEF Has
    <3>4. workflow = On
      BY <1>3, <1>7, <3>1, <3>2, <3>3 DEF ToolsInv
    <3>5. active' = {"reconstruction", workflow}
      BY <1>3, <1>7, <2>1, <3>3, <3>4 DEF ActiveInv
    <3>6. Has("connect")' /\ ~Has("disconnect")' /\ ~Has("restore")'
      BY <1>5, <3>1, <3>2 DEF Has
    <3>7. \A x \in Stack' : x.do # "restore"
      BY <3>6 DEF Has
    <3> QED BY <1>6, <1>7, <3>5, <3>6, <3>7 DEF ActiveInv
  <2>2. CASE Now.do = d
    <3>1. active' = active \ {On} /\ "reconstruction" \in active'
      BY <1>1, <1>3, <1>4, <1>7, <2>2 DEF ActiveInv
    <3>2. PICK c \in Elements(Waiting) : c.do = "disconnect" \/ c.do = "restore"
      BY <1>1, <1>3, <1>8, <2>2, AboveMeans
    <3>3. /\ Has("disconnect") \/ Has("restore")
          /\ Has("disconnect")' \/ Has("restore")'
      BY <1>3, <1>5, <3>2 DEF Has
    <3>4. active' \subseteq {"reconstruction", workflow'}
      BY <1>6, <1>7, <3>1, <3>3 DEF ActiveInv
    <3>5. Leaving'
      <4>1. SUFFICES ASSUME workflow \in active' PROVE \E x \in Stack' : x.do = "deactivate" /\ x.on = workflow
        BY <1>6 DEF Leaving
      <4>2. workflow \in active /\ workflow # On
        BY <3>1, <4>1
      <4>3. PICK x \in Stack : x.do = "deactivate" /\ x.on = workflow
        BY <1>7, <3>3, <4>2 DEF ActiveInv, Leaving
      <4>4. x \in Elements(Waiting)
        BY <1>3, <4>2, <4>3
      <4> QED BY <1>5, <4>3, <4>4
    <3>6. Has("connect")' => Has("connect")
      BY <1>3, <1>5 DEF Has
    <3>7. ASSUME NEW x \in Stack', x.do = "restore" PROVE Right(x.on)' /\ ~Has("connect")'
      <4>1. x \in Stack
        BY <1>3, <1>5, <3>7
      <4>2. Right(x.on) /\ ~Has("connect")
        BY <1>7, <3>7, <4>1 DEF ActiveInv
      <4> QED BY <1>6, <3>6, <4>2 DEF Right
    <3>8. Has("connect")' => Has("disconnect")'
      <4>1. SUFFICES ASSUME Has("connect"), ~Has("disconnect")' PROVE FALSE
        BY <3>6
      <4>2. c.do = "restore" /\ c \in Stack
        BY <1>3, <1>5, <3>2, <4>1 DEF Has
      <4> QED BY <1>7, <4>1, <4>2 DEF ActiveInv
    <3>9. aborted' \in BOOLEAN
      BY <1>6, <1>7 DEF ActiveInv
    <3> QED BY <3>1, <3>3, <3>4, <3>5, <3>7, <3>8, <3>9 DEF ActiveInv
  <2> QED BY <1>3, <2>1, <2>2
<1> QED BY <1>5, <1>9 DEF IInv

LEMMA RestoreStep == ASSUME IInv, Restore \/ Abort PROVE IInv'
<1>1. PICK what : what = "restore"
  OBVIOUS
<1>2. /\ Doing(what)
      /\ \/ Continue(<<>>) /\ UNCHANGED <<collection, missed>>
         \/ Continue(Emission) /\ SignalOnly({}) /\ missed' = [missed EXCEPT !.repaint = TRUE]
      /\ UNCHANGED <<layers, focus, tools>>
      /\ \/ active' = On /\ aborted' = aborted
         \/ active' = active /\ aborted' = TRUE
  BY <1>1 DEF Restore, Abort
<1>3. /\ calls # <<>> /\ Now.do = "restore" /\ On = Now.on /\ Now \in Entries /\ Now \in Stack
      /\ \A y \in Elements(Waiting) : Before(Now, y)
      /\ Stack = {Now} \cup Elements(Waiting) /\ \A e : Continue(e) => calls' = e \o Waiting
  BY <1>1, <1>2, Running
<1>4. Elements(Waiting) = {} /\ Stack = {Now}
  BY <1>3 DEF Before
<1>5. SignalOnly({}) /\ missed' = [missed EXCEPT !.repaint = TRUE] => Signal({})
  <2>1. missed \in [repaint : BOOLEAN, layers : SUBSET MainLayers]
    BY DEF IInv, ToldInv
  <2>2. PICK d, e : d = [repaint |-> TRUE, layers |-> missed.layers \cup {}] /\ e = [missed EXCEPT !.repaint = TRUE]
    OBVIOUS
  <2>3. d \in [repaint : BOOLEAN, layers : SUBSET MainLayers] /\ d.repaint = TRUE /\ d.layers = missed.layers
    BY <2>1, <2>2
  <2>4. e \in [repaint : BOOLEAN, layers : SUBSET MainLayers] /\ e.repaint = TRUE /\ e.layers = missed.layers
    BY <2>1, <2>2
  <2>5. d = e
    BY <2>3, <2>4
  <2> QED BY <2>2, <2>5 DEF Signal
<1>6. /\ Stacked(calls)' /\ GuardInv' /\ LayersInv' /\ ContentsInv' /\ ToldInv' /\ FocusInv'
      /\ ToolsInv' /\ HighlightInv' /\ \A x \in Stack' : x.do = "emit"
  <2>1. {} \subseteq MainLayers
    OBVIOUS
  <2> QED BY <1>2, <1>3, <1>4, <1>5, <2>1, Switched
<1>7. ActiveInv /\ workflow' = workflow
  BY <1>2 DEF IInv, tools
<1>8. Right(active)' /\ aborted' \in BOOLEAN
  <2>1. CASE active' = On /\ aborted' = aborted
    <3>1. Right(Now.on)
      BY <1>3, <1>7 DEF ActiveInv
    <3> QED BY <1>3, <1>7, <2>1, <3>1 DEF Right, ActiveInv
  <2>2. CASE active' = active /\ aborted' = TRUE
    <3>1. Has("restore")
      BY <1>3 DEF Has
    <3>2. active \subseteq {"reconstruction", workflow} /\ Leaving /\ "reconstruction" \in active
      BY <1>7, <3>1 DEF ActiveInv
    <3>3. active = {"reconstruction"}
      BY <1>3, <1>4, <3>2 DEF Leaving
    <3> QED BY <2>2, <3>3 DEF Right
  <2> QED BY <1>2, <2>1, <2>2
<1>9. ActiveInv'
  <2>1. \A w \in {"disconnect", "connect", "restore"} : ~Has(w)'
    BY <1>6 DEF Has
  <2>2. \A x \in Stack' : x.do # "restore"
    BY <1>6
  <2>3. "reconstruction" \in active'
    BY <1>8 DEF Right
  <2> QED BY <1>8, <2>1, <2>2, <2>3 DEF ActiveInv
<1> QED BY <1>6, <1>9 DEF IInv

LEMMA DisconnectStep == ASSUME IInv, Disconnect PROVE IInv'
<1>1. PICK what : what = "disconnect"
  OBVIOUS
<1>2. /\ Doing(what) /\ Continue(<<>>) /\ listener' = None /\ workflow' = On
      /\ UNCHANGED <<collection, active, layers, focus, highlight, missed, aborted>>
  BY <1>1 DEF Disconnect
<1>3. /\ calls # <<>> /\ Now.do = "disconnect" /\ On = Now.on /\ Now \in Entries /\ Now \in Stack
      /\ \A y \in Elements(Waiting) : Before(Now, y)
      /\ Stack = {Now} \cup Elements(Waiting) /\ calls' = <<>> \o Waiting
  BY <1>1, <1>2, Running
<1>4. Onto(calls', {}, Waiting) /\ Stack' = Elements(Waiting) /\ Stacked(calls)'
  BY <1>3, Popped
<1>5. \A y \in Elements(Waiting) : (y.do = "activate" \/ y.do = "connect") /\ y.on = On
  BY <1>3 DEF Before
<1>6. On \in Workflows
  BY <1>3, Typed DEF OfWorkflow
<1>7. PICK a \in Elements(Waiting) : a.do = "activate"
  <2>1. Above(Now, Waiting) /\ Waiting \in Seq(Entries)
    BY <1>3, TheStack
  <2> QED BY <1>3, <2>1, AboveMeans
<1>8. PICK c \in Elements(Waiting) : c.do = "connect"
  <2>1. Waiting \in Seq(Entries) /\ Elements(Waiting) \subseteq Entries /\ Stacked(Waiting)
    BY TheStack
  <2>2. PICK i \in DOMAIN Waiting : a = Waiting[i]
    BY <1>7 DEF Elements
  <2>3. a \in Kind("activate")
    BY <1>7, <2>1, OfKind
  <2>4. PICK j \in DOMAIN Waiting : Waiting[j] \in Kind("connect")
    BY <2>1, <2>2, <2>3 DEF Stacked, Followed
  <2>5. Waiting[j] \in Elements(Waiting) /\ Waiting[j].do = "connect"
    BY <2>4 DEF Elements, Kind
  <2> QED BY <2>5
<1>9. depth \in Nat /\ made \in Nat /\ ActiveInv /\ HighlightInv
  BY DEF IInv, GuardInv, ContentsInv
<1>10. UNCHANGED <<depth, queued, updated, missed>>
  BY <1>2 DEF collection
<1>11. GuardInv'
  BY <1>3, <1>4, <1>10, GuardKept
<1>12. LayersInv' /\ ContentsInv'
  BY <1>2, <1>3, <1>4, LayersKept, ContentsKept DEF layers
<1>13. ToldInv'
  BY <1>3, <1>4, <1>10, ToldKept
<1>14. FocusInv'
  BY <1>2, <1>3, <1>9, <1>10, FocusKept DEF layers
<1>15. Has("connect")' /\ Has("activate")'
  BY <1>4, <1>7, <1>8 DEF Has
<1>16. \A x \in Stack' : (x.do = "activate" \/ x.do = "connect") /\ x.on = On /\ x \notin Erasures
  BY <1>4, <1>5 DEF Erasures, Kind
<1>17. ToolsInv'
  BY <1>2, <1>6, <1>15, <1>16 DEF ToolsInv
<1>18. ActiveInv'
  <2>1. Has("disconnect")
    BY <1>3 DEF Has
  <2>2. active \subseteq {"reconstruction", workflow} /\ Leaving /\ "reconstruction" \in active
    BY <1>9, <2>1 DEF ActiveInv
  <2>3. workflow \notin active \/ workflow = "reconstruction"
    BY <1>3, <1>5, <2>2 DEF Leaving
  <2>4. active = {"reconstruction"}
    BY <2>2, <2>3
  <2>5. ~Has("disconnect")' /\ ~Has("restore")' /\ \A x \in Stack' : x.do # "restore"
    BY <1>16 DEF Has
  <2> QED BY <1>2, <1>9, <1>15, <2>4, <2>5 DEF ActiveInv
<1>19. HighlightInv'
  <2>1. Redrawing'
    BY <1>15 DEF Redrawing
  <2>2. \A x \in Stack' : x.do # "add"
    BY <1>16
  <2>3. highlight' = highlight /\ made' = made
    BY <1>2 DEF layers
  <2> QED BY <1>9, <2>1, <2>2, <2>3 DEF HighlightInv
<1> QED BY <1>4, <1>11, <1>12, <1>13, <1>14, <1>17, <1>18, <1>19 DEF IInv

LEMMA ConnectStep == ASSUME IInv, Connect PROVE IInv'
<1>1. PICK what : what = "connect"
  OBVIOUS
<1>2. PICK e : e = <<Do("clear", On), Do("pick", On)>>
  OBVIOUS
<1>3. /\ Doing(what) /\ Continue(e) /\ listener' = On /\ aborted' = FALSE
      /\ UNCHANGED <<collection, active, layers, focus, workflow, highlight, missed>>
  BY <1>1, <1>2 DEF Connect
<1>4. /\ calls # <<>> /\ Now.do = "connect" /\ On = Now.on /\ Now \in Stack
      /\ \A y \in Elements(Waiting) : Before(Now, y)
      /\ Stack = {Now} \cup Elements(Waiting) /\ calls' = e \o Waiting
  BY <1>1, <1>3, Running
<1>5. Elements(Waiting) = {} /\ Stack = {Now}
  BY <1>4 DEF Before
<1>6. depth \in Nat /\ made \in Nat /\ ToolsInv /\ ActiveInv /\ HighlightInv /\ workflow \in Workflows
  BY DEF IInv, GuardInv, ContentsInv, ToolsInv
<1>7. ~Has("disconnect") /\ ~Has("activate") /\ Has("connect")
  BY <1>4, <1>5 DEF Has
<1>8. On = workflow
  BY <1>4, <1>6, <1>7 DEF ToolsInv
<1>9. PICK c, p \in Entries :
        /\ c.do = "clear" /\ c.on = workflow /\ p.do = "pick" /\ p.on = workflow
        /\ ~Drawing(c) /\ ~Drawing(p)
        /\ Onto(calls', {c, p}, Waiting) /\ Now' = c
        /\ Stack' = {c, p} \cup Elements(Waiting) /\ Stacked(calls)'
  <2>1. calls' = <<Do("clear", workflow), Do("pick", workflow)>> \o Waiting
    BY <1>2, <1>4, <1>8
  <2> QED BY <1>4, <1>5, <1>6, <2>1, Renewing
<1>10. PICK N : N = {c, p}
  OBVIOUS
<1>11. Onto(calls', N, Waiting) /\ Stack' = N
  BY <1>5, <1>9, <1>10
<1>12. \A x \in N : ~Drawing(x) /\ ~Sending(x) /\ x.do \in {"clear", "pick"} /\ x.on = workflow
  BY <1>9, <1>10 DEF Sending
<1>13. UNCHANGED <<depth, queued, updated, missed>>
  BY <1>3 DEF collection
<1>14. GuardInv'
  BY <1>4, <1>11, <1>12, <1>13, GuardKept
<1>15. LayersInv' /\ ContentsInv'
  BY <1>3, <1>4, <1>11, LayersKept, ContentsKept DEF layers
<1>16. ToldInv'
  BY <1>4, <1>11, <1>13, ToldKept
<1>17. FocusInv'
  BY <1>3, <1>4, <1>6, <1>13, FocusKept DEF layers
<1>18. \A w \in {"disconnect", "connect", "restore"} : ~Has(w)'
  BY <1>11, <1>12 DEF Has
<1>19. ToolsInv'
  <2>1. listener' = workflow' /\ workflow' \in Workflows
    BY <1>3, <1>6, <1>8
  <2>2. listener' # None
    BY <2>1, RenderedAssumption
  <2> QED BY <1>3, <1>11, <1>12, <2>1, <2>2 DEF ToolsInv
<1>20. ActiveInv'
  <2>1. active' = {"reconstruction", workflow'}
    BY <1>3, <1>6, <1>7 DEF ActiveInv
  <2>2. \A x \in Stack' : x.do # "restore"
    BY <1>11, <1>12
  <2>3. aborted' \in BOOLEAN
    BY <1>3
  <2> QED BY <1>18, <2>1, <2>2, <2>3 DEF ActiveInv, Right
<1>21. HighlightInv'
  <2>1. Redrawing'
    BY <1>3, <1>9 DEF Redrawing
  <2>2. \A x \in Stack' : x.do # "add"
    BY <1>11, <1>12
  <2>3. highlight' = highlight /\ made' = made
    BY <1>3 DEF layers
  <2> QED BY <1>6, <2>1, <2>2, <2>3 DEF HighlightInv
<1> QED BY <1>9, <1>14, <1>15, <1>16, <1>17, <1>19, <1>20, <1>21 DEF IInv
-----------------------------------------------------------------------------
LEMMA Initially == Init => IInv
<1> SUFFICES ASSUME Init PROVE IInv
  OBVIOUS
<1>1. PICK none : none = <<>>
  OBVIOUS
<1>2. (\A A : none \in Seq(A)) /\ Len(none) = 0 /\ DOMAIN none = {} /\ Elements(none) = {} /\ Distinct(none)
  BY <1>1, ElementsEmpty
<1>3. /\ depth = 0 /\ queued = FALSE /\ updated = {} /\ children = none /\ free = none
      /\ index = [l \in VisualLayers |-> 0] /\ contents = [i \in 1..Cardinality(VisualLayers) |-> 0]
      /\ visible = [l \in VisualLayers |-> TRUE] /\ output = [l \in VisualLayers |-> 0] /\ made = 0
      /\ focused = FALSE /\ rg = 0 /\ workflow \in Workflows /\ listener = workflow
      /\ active = {"reconstruction", workflow} /\ highlight = [w \in Workflows |-> {}]
      /\ missed = [repaint |-> FALSE, layers |-> {}] /\ aborted = FALSE /\ calls = none
  BY <1>1 DEF Init
<1>4. Stack = {} /\ (\A w : ~Has(w)) /\ Now.do = "idle" /\ Waiting = none
  <2>1. Stack = {}
    BY <1>2, <1>3 DEF Stack
  <2>2. Now = Do("idle", None) /\ Waiting = none
    BY <1>1, <1>3 DEF Now, Waiting
  <2> QED BY <2>1, <2>2 DEF Has, Do
<1>5. Stacked(calls)
  BY <1>2, <1>3 DEF Stacked, Ordered, Followed
<1>6. GuardInv
  BY <1>3, <1>4 DEF GuardInv
<1>7. LayersInv
  <2>1. Cardinality(VisualLayers) \in Nat
    BY FS_CardinalityType, RenderedAssumption
  <2>2. index \in [VisualLayers -> Nat] /\ \A l \in VisualLayers : index[l] = 0
    BY <1>3
  <2>3. {index[l] : l \in VisualLayers} \ {0} = {}
    BY <2>2
  <2>4. children \in Seq(Nat) /\ free \in Seq(Nat) /\ Distinct(children) /\ Distinct(free)
        /\ Elements(children) = {} /\ Elements(free) = {} /\ Len(children) = 0 /\ Len(free) = 0
    BY <1>2, <1>3
  <2>5. Elements(children) \cup Elements(free) = 1..(Len(children) + Len(free))
        /\ Len(children) + Len(free) <= Cardinality(VisualLayers)
    BY <2>1, <2>4
  <2> QED BY <2>2, <2>3, <2>4, <2>5 DEF LayersInv
<1>8. ContentsInv
  <2>1. contents \in [1..Cardinality(VisualLayers) -> 0..made] /\ \A i \in DOMAIN contents : contents[i] = 0
    BY <1>3
  <2>2. output \in [VisualLayers -> 0..made] /\ visible \in [VisualLayers -> BOOLEAN] /\ made \in Nat
    BY <1>3
  <2>3. \A l \in VisualLayers : index[l] = 0 /\ output[l] = 0
    BY <1>3
  <2> QED BY <2>1, <2>2, <2>3 DEF ContentsInv
<1>9. ToldInv
  BY <1>3 DEF ToldInv
<1>10. FocusInv
  <2>1. ~focused /\ focused \in BOOLEAN
    BY <1>3
  <2>2. Target = 0
    BY <2>1 DEF Target
  <2>3. rg \in 0..made /\ rg = 0
    BY <1>3
  <2> QED BY <2>1, <2>2, <2>3 DEF FocusInv
<1>11. ToolsInv
  BY <1>3, <1>4, RenderedAssumption DEF ToolsInv
<1>12. ActiveInv
  BY <1>3, <1>4 DEF ActiveInv, Right
<1>13. HighlightInv
  <2>1. highlight \in [Workflows -> SUBSET ((1..made) \X BOOLEAN)]
    BY <1>3
  <2>2. \A r : ~Marked(r)
    BY <1>3 DEF Marked
  <2> QED BY <1>3, <1>4, <2>1, <2>2 DEF HighlightInv
<1> QED BY <1>5, <1>6, <1>7, <1>8, <1>9, <1>10, <1>11, <1>12, <1>13 DEF IInv

LEMMA Stuttering == ASSUME IInv, UNCHANGED vars PROVE IInv'
<1>1. /\ UNCHANGED <<depth, queued, updated, active, children, free, index, contents, visible, output, made>>
      /\ UNCHANGED <<focused, rg, workflow, listener, highlight, missed, aborted, calls>>
  BY DEF vars, collection, layers, focus, tools
<1>2. Stack' = Stack /\ Now' = Now /\ Waiting' = Waiting /\ Target' = Target
  BY <1>1, TargetKept DEF Stack, Now, Waiting
<1>3. Stacked(calls)' /\ GuardInv'
  BY <1>1, <1>2 DEF IInv, GuardInv, Has
<1>4. LayersInv'
  BY <1>1, LayersKept
<1>5. ContentsInv'
  BY <1>1, <1>2 DEF IInv, ContentsInv, Drawn
<1>6. ToldInv'
  BY <1>1, <1>2 DEF IInv, ToldInv, Held, Telling, Has
<1>7. FocusInv'
  BY <1>1, <1>2 DEF IInv, FocusInv, Held
<1>8. ToolsInv'
  BY <1>1, <1>2 DEF IInv, ToolsInv, Has
<1>9. ActiveInv'
  BY <1>1, <1>2 DEF IInv, ActiveInv, Has, Right, Leaving
<1>10. HighlightInv'
  BY <1>1, <1>2 DEF IInv, HighlightInv, Redrawing, Lost, Marked, Marking, Has
<1> QED BY <1>3, <1>4, <1>5, <1>6, <1>7, <1>8, <1>9, <1>10 DEF IInv

LEMMA Preserved == IInv /\ [Next]_vars => IInv'
<1> SUFFICES ASSUME IInv, [Next]_vars PROVE IInv'
  OBVIOUS
<1>1. CASE Client
  BY <1>1, OpenGuardStep, CloseGuardStep, SetFocusOnPropertyStep, UnsetFocusStep, ExportStep, SetVisibleStep,
     AddLayerStep, RemoveLayerStep, ReconstructStep, SetFocusStep, ChooseToolStep DEF Client
<1>2. CASE Machine
  BY <1>2, BeginGuardStep, EndGuardStep, EmitStep, SentStep, UpdateCanvasStep, UpdateFocusStep,
     FocusChangedStep, ClearStep, PickStep, AddStep, RenderStep, SetActiveStep, DisconnectStep, ConnectStep,
     RestoreStep DEF Machine
<1>3. CASE UNCHANGED vars
  BY <1>3, Stuttering
<1> QED BY <1>1, <1>2, <1>3 DEF Next

LEMMA Invariant == Spec => []IInv
BY Initially, Preserved, PTL DEF Spec
-----------------------------------------------------------------------------
(* Guards, flags and layers keep their types: in particular the count of   *)
(* update guards never goes below zero, and no two visual layers share a   *)
(* child layer or have one that may be given to another.                   *)
THEOREM TypesKept == Spec => []TypeOK
<1>1. ASSUME IInv PROVE TypeOK
  <2>1. /\ GuardInv /\ LayersInv /\ ContentsInv /\ ToldInv /\ FocusInv /\ ToolsInv /\ ActiveInv
    BY <1>1 DEF IInv
  <2>2. ToSet(children) = Elements(children) /\ ToSet(free) = Elements(free)
    BY DEF ToSet, Elements
  <2>3. IsInjective(children) /\ IsInjective(free)
    BY <2>1 DEF LayersInv, Distinct, IsInjective
  <2>4. ASSUME NEW i \in Elements(children) PROVE i \in DOMAIN contents
    <3>1. /\ Elements(children) \subseteq 1..(Len(children) + Len(free))
          /\ Len(children) + Len(free) <= Cardinality(VisualLayers)
          /\ Len(children) \in Nat /\ Len(free) \in Nat
      BY <2>1 DEF LayersInv
    <3>2. Cardinality(VisualLayers) \in Nat
      BY FS_CardinalityType, RenderedAssumption
    <3>3. i \in 1..Cardinality(VisualLayers)
      BY <2>4, <3>1, <3>2
    <3> QED BY <2>1, <3>3 DEF ContentsInv
  <2>5. ToSet(free) \cap ToSet(children) = {} /\ ToSet(children) = {index[l] : l \in VisualLayers} \ {0}
    BY <2>1, <2>2 DEF LayersInv
  <2>6. depth \in Nat /\ queued \in BOOLEAN /\ updated \subseteq MainLayers
        /\ focused \in BOOLEAN /\ rg \in 0..made
    BY <2>1 DEF GuardInv, ToldInv, FocusInv
  <2>7. workflow \in Workflows /\ listener \in Workflows \cup {None}
    BY <2>1 DEF ToolsInv
  <2>8. active \subseteq MainLayers
    BY <2>1, <2>7 DEF ActiveInv, Right, MainLayers
  <2> QED BY <2>2, <2>3, <2>4, <2>5, <2>6, <2>7, <2>8 DEF TypeOK
<1> QED BY <1>1, Invariant, PTL

(* No change is lost in the signals that are nested in one another: a main *)
(* layer that changed and that the canvases were not told of is in the     *)
(* flags that are sent next, or in an emission that is under way; and in   *)
(* the end they have been told to paint after every change.                *)
THEOREM ChangesCorrect == Spec => []ChangesTold
<1>1. ASSUME IInv PROVE ChangesTold
  <2>1. ToldInv /\ GuardInv
    BY <1>1 DEF IInv
  <2>2. ASSUME NEW m \in missed.layers, m \notin updated
        PROVE  m \in UNION {calls[i].on : i \in {j \in DOMAIN calls : calls[j].do = "updateCanvas"}}
    <3>1. PICK x \in Stack : x.do = "updateCanvas" /\ m \in x.on
      BY <2>1, <2>2 DEF ToldInv, Telling
    <3>2. PICK i \in DOMAIN calls : x = calls[i]
      BY DEF Stack, Elements
    <3> QED BY <3>1, <3>2
  <2>3. missed.repaint => ~Idle \/ (depth > 0 /\ queued)
    <3>1. SUFFICES ASSUME missed.repaint, Idle PROVE depth > 0 /\ queued
      OBVIOUS
    <3>2. \A w : ~Has(w)
      BY <1>1, <3>1, FromIdle
    <3>3. Held
      BY <2>1, <3>1, <3>2 DEF ToldInv
    <3> QED BY <3>3 DEF Held
  <2> QED BY <2>2, <2>3 DEF ChangesTold
<1> QED BY <1>1, Invariant, PTL

(* When all calls have returned and no guard is open, the focus is on the  *)
(* geometry that is shown, and the active workflow highlights that one and *)
(* no other as the focus, in a layer that is seen (unless an export        *)
(* failed): whatever was drawn, removed, hidden or chosen in signals that  *)
(* were nested in signals.                                                 *)
THEOREM HighlightCorrect == Spec => []FocusHighlighted
<1>1. ASSUME IInv, Idle, depth = 0
      PROVE  /\ rg = IF focused THEN Found ELSE 0
             /\ {r \in 1..made : <<r, TRUE>> \in highlight[workflow]} = {rg} \ {0}
             /\ aborted \/ active = {"reconstruction", workflow}
  <2>1. Stack = {} /\ Right(active) /\ (rg = Target \/ Held) /\ ~Redrawing /\ \A w : ~Has(w)
    BY <1>1, FromIdle
  <2>2. rg = Target
    BY <1>1, <2>1 DEF Held
  <2>3. ~Lost
    BY <1>1, <2>1, <2>2, NotLost
  <2>4. ~Marking
    BY <2>1 DEF Marking
  <2>5. HighlightInv /\ rg \in 0..made /\ made \in Nat
    BY <1>1 DEF IInv, FocusInv, ContentsInv
  <2>6. (\A r \in 1..made : Marked(r) => r = rg) /\ (rg = 0 \/ Marked(rg))
    BY <2>1, <2>3, <2>4, <2>5 DEF HighlightInv
  <2>7. {r \in 1..made : <<r, TRUE>> \in highlight[workflow]} = {rg} \ {0}
    <3>1. ASSUME NEW r \in 1..made, <<r, TRUE>> \in highlight[workflow] PROVE r \in {rg} \ {0}
      <4>1. r = rg
        BY <2>6, <3>1 DEF Marked
      <4>2. r # 0
        BY <2>5
      <4> QED BY <4>1, <4>2
    <3>2. rg # 0 => rg \in 1..made /\ <<rg, TRUE>> \in highlight[workflow]
      <4>1. rg # 0 => rg \in 1..made
        BY <2>5
      <4>2. rg # 0 => <<rg, TRUE>> \in highlight[workflow]
        BY <2>6 DEF Marked
      <4> QED BY <4>1, <4>2
    <3> QED BY <3>1, <3>2
  <2>8. aborted \/ active = {"reconstruction", workflow}
    BY <2>1 DEF Right
  <2> QED BY <2>2, <2>7, <2>8 DEF Target
<1>2. IInv => FocusHighlighted
  BY <1>1 DEF FocusHighlighted
<1> QED BY <1>2, Invariant, PTL
=============================================================================
