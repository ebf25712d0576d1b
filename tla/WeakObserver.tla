---------------------------- MODULE WeakObserver ----------------------------
(***************************************************************************)
(* The intrusive doubly linked list of weak observers of a publisher       *)
(* (model/WeakObserver.h, model/WeakObserverPublisher.h) and the traversal *)
(* that delivers an event to every observer by calling it back.            *)
(*                                                                         *)
(* A publisher is a model handle: it keeps the first and the last observer *)
(* of its list.  An observer (a weak reference) keeps its publisher and    *)
(* its two links.  A callback made by a traversal may run any operation    *)
(* of this module, nested traversals included, so a traversal is a frame   *)
(* on a stack and everything may happen between two of its steps.          *)
(*                                                                         *)
(* The code has two such lists per publisher, for const and for non-const  *)
(* observers; they are instances of one template and never meet, so a      *)
(* Publisher here is one of the two lists of a handle.                     *)
(***************************************************************************)
EXTENDS Naturals, Sequences, FiniteSets

CONSTANTS Observer,    \* the weak observers
          Publisher,   \* the publishers
          NULL,        \* the null pointer
          MaxClock,    \* bound: the number of subscriptions made
          MaxDepth     \* bound: the depth of nested traversals

ASSUME NullAssumption  == NULL \notin Observer \cup Publisher
ASSUME ObserverAssumption == IsFiniteSet(Observer)
ASSUME BoundAssumption == MaxClock \in Nat /\ MaxDepth \in Nat

VARIABLES
  links,    \* the pointers: publisher, prev and next of every observer,
            \* first and last of every publisher
  alive,    \* the publishers that exist
  dtor,     \* the destructor of a publisher that is running, or Idle
  frames,   \* the stack of running traversals, innermost last
  since,    \* history: when an observer subscribed, 0 if it is unsubscribed
  clock     \* history: the number of subscriptions so far

vars == <<links, alive, dtor, frames, since, clock>>

-----------------------------------------------------------------------------
(* The list operations, as functions of the pointers.                      *)

Links ==
  [publisher : [Observer -> Publisher \cup {NULL}],
   prev      : [Observer -> Observer \cup {NULL}],
   next      : [Observer -> Observer \cup {NULL}],
   first     : [Publisher -> Observer \cup {NULL}],
   last      : [Publisher -> Observer \cup {NULL}]]

(* The links once o is off its list: its neighbours skip it, its own are    *)
(* cleared.                                                                *)
PrevForgotten(l, o) == [l.prev EXCEPT ![o] = NULL]

PrevWithout(l, o) ==
  [x \in Observer |-> IF x = o THEN NULL
                      ELSE IF x = l.next[o] THEN l.prev[o] ELSE l.prev[x]]

NextKept(l, o) ==
  [x \in Observer |-> IF x = l.prev[o] THEN l.next[o] ELSE l.next[x]]

NextForgotten(l, o) ==
  [x \in Observer |-> IF x = o \/ x = l.prev[o] THEN NULL ELSE l.next[x]]

NextWithout(l, o) ==
  [x \in Observer |-> IF x = o THEN NULL
                      ELSE IF x = l.prev[o] THEN l.next[o] ELSE l.next[x]]

(* Remove o from the list it is on and forget its publisher.  (When the    *)
(* code re-subscribes it skips the forgetting, and overwrites the          *)
(* publisher at once.)                                                     *)
Unlinked(l, o) ==
  LET p == l.publisher[o]
  IN [publisher |-> [l.publisher EXCEPT ![o] = NULL],
      prev  |-> PrevWithout(l, o),
      next  |-> NextWithout(l, o),
      first |-> [l.first EXCEPT ![p] = IF l.prev[o] = NULL THEN l.next[o] ELSE @],
      last  |-> [l.last EXCEPT ![p] = IF l.next[o] = NULL THEN l.prev[o] ELSE @]]

Detached(l, o) == IF l.publisher[o] = NULL THEN l ELSE Unlinked(l, o)

AppendedAsSentinel(l, o, p) ==
  [l EXCEPT !.publisher[o] = p, !.prev[o] = p, !.first[p] = o, !.last[p] = o]

(* Append o to the list of p, which may be empty. *)
Appended(l, o, p) ==
  LET tail == l.last[p]
  IN [publisher |-> [l.publisher EXCEPT ![o] = p],
      prev  |-> [l.prev EXCEPT ![o] = tail],
      next  |-> [x \in Observer |-> IF x = tail THEN o ELSE l.next[x]],
      first |-> [l.first EXCEPT ![p] = IF tail = NULL THEN o ELSE @],
      last  |-> [l.last EXCEPT ![p] = o]]

AppendedOffTail(l, o, other) ==
  [l EXCEPT !.publisher[o] = l.publisher[other],
            !.prev[o] = other,
            !.next[other] = o]

(* Append o to the list other is on, if any: the tail is taken to exist. *)
AppendedBeside(l, o, other) ==
  LET p == l.publisher[other]
      tail == l.last[p]
  IN IF p = NULL THEN [l EXCEPT !.publisher[o] = NULL]
     ELSE [l EXCEPT !.publisher[o] = p,
                    !.prev[o] = tail,
                    !.next[tail] = o,
                    !.last[p] = o]

-----------------------------------------------------------------------------
(* The traversals.                                                         *)

Idle == [pub |-> NULL, curr |-> NULL]

Subscribers(p) == {o \in Observer : links.publisher[o] = p}

(* A traversal of p stands at curr (whose callback is running, unless it   *)
(* is NULL).  The history fields: must, the observers that were subscribed *)
(* to p when it began and have been since; done, those it has called under *)
(* their present subscription; cut, that an observer left its list during  *)
(* its own callback.                                                       *)
Frame(p) ==
  [pub |-> p, curr |-> links.first[p], cut |-> FALSE, must |-> Subscribers(p),
   done |-> {links.first[p]} \ {NULL}]

(* The running traversals once o has left its list. *)
AfterLeaving(o) ==
  [i \in DOMAIN frames |->
     [frames[i] EXCEPT !.must = @ \ {o},
                       !.done = @ \ {o},
                       !.cut = @ \/ frames[i].curr = o]]

Depth == Len(frames)
Top   == frames[Depth]

-----------------------------------------------------------------------------

Init ==
  /\ links = [publisher |-> [o \in Observer |-> NULL],
              prev      |-> [o \in Observer |-> NULL],
              next      |-> [o \in Observer |-> NULL],
              first     |-> [p \in Publisher |-> NULL],
              last      |-> [p \in Publisher |-> NULL]]
  /\ alive = Publisher
  /\ dtor = Idle
  /\ frames = <<>>
  /\ since = [o \in Observer |-> 0]
  /\ clock = 0

(* WeakObserver::subscribe, and construction on a publisher. *)
Subscribe(o, p) ==
  /\ dtor = Idle
  /\ p \in alive
  /\ clock < MaxClock
  /\ links' = Appended(Detached(links, o), o, p)
  /\ since' = [since EXCEPT ![o] = clock + 1]
  /\ clock' = clock + 1
  /\ frames' = AfterLeaving(o)
  /\ UNCHANGED <<alive, dtor>>

(* Assignment and copy construction from another observer. *)
Assign(o, other) ==
  /\ dtor = Idle
  /\ other # o
  /\ clock < MaxClock
  /\ links' = AppendedBeside(Detached(links, o), o, other)
  /\ IF links.publisher[other] = NULL
     THEN /\ since' = [since EXCEPT ![o] = 0]
          /\ UNCHANGED clock
     ELSE /\ since' = [since EXCEPT ![o] = clock + 1]
          /\ clock' = clock + 1
  /\ frames' = AfterLeaving(o)
  /\ UNCHANGED <<alive, dtor>>

(* WeakObserver::unsubscribe and ~WeakObserver.  (Clients do not destroy   *)
(* an observer inside its own callback.)                                   *)
Unsubscribe(o) ==
  /\ dtor = Idle
  /\ links.publisher[o] # NULL
  /\ links' = Unlinked(links, o)
  /\ since' = [since EXCEPT ![o] = 0]
  /\ frames' = AfterLeaving(o)
  /\ UNCHANGED <<alive, dtor, clock>>

(* apply_weak_observer_visitor: start at the first observer, and after     *)
(* each callback read the next link of the observer just called.           *)
BeginVisit(p) ==
  /\ dtor = Idle
  /\ p \in alive
  /\ Depth < MaxDepth
  /\ frames' = Append(frames, Frame(p))
  /\ UNCHANGED <<links, alive, dtor, since, clock>>

AdvanceVisit ==
  /\ dtor = Idle
  /\ Depth > 0
  /\ Top.curr # NULL
  /\ LET following == links.next[Top.curr]
     IN frames' = [frames EXCEPT
                     ![Depth].curr = following,
                     ![Depth].done = @ \cup ({following} \ {NULL})]
  /\ UNCHANGED <<links, alive, dtor, since, clock>>

EndVisit ==
  /\ dtor = Idle
  /\ Depth > 0
  /\ Top.curr = NULL
  /\ frames' = SubSeq(frames, 1, Depth - 1)
  /\ UNCHANGED <<links, alive, dtor, since, clock>>

(* ~WeakObserverPublisher: weak_observer_unsubscribe_forward from the      *)
(* first observer on.  (No handle is destroyed while it is being visited.) *)
BeginDestroy(p) ==
  /\ dtor = Idle
  /\ p \in alive
  /\ \A i \in DOMAIN frames : frames[i].pub # p
  /\ dtor' = [pub |-> p, curr |-> links.first[p]]
  /\ UNCHANGED <<links, alive, frames, since, clock>>

DestroyStepLate ==
  /\ dtor.curr # NULL
  /\ links' = Detached(links, dtor.curr)
  /\ dtor' = [dtor EXCEPT !.curr = links'.next[dtor.curr]]
  /\ since' = [since EXCEPT ![dtor.curr] = 0]
  /\ frames' = AfterLeaving(dtor.curr)
  /\ UNCHANGED <<alive, clock>>

DestroyStep ==
  /\ dtor.curr # NULL
  /\ dtor' = [dtor EXCEPT !.curr = links.next[dtor.curr]]
  /\ links' = Detached(links, dtor.curr)
  /\ since' = [since EXCEPT ![dtor.curr] = 0]
  /\ frames' = AfterLeaving(dtor.curr)
  /\ UNCHANGED <<alive, clock>>

EndDestroy ==
  /\ dtor.pub # NULL
  /\ dtor.curr = NULL
  /\ alive' = alive \ {dtor.pub}
  /\ dtor' = Idle
  /\ UNCHANGED <<links, frames, since, clock>>

(* A new publisher, where an earlier one may have been. *)
Create(p) ==
  /\ dtor = Idle
  /\ p \notin alive
  /\ alive' = alive \cup {p}
  /\ links' = [links EXCEPT !.first[p] = NULL, !.last[p] = NULL]
  /\ UNCHANGED <<dtor, frames, since, clock>>

Next ==
  \/ \E o \in Observer, p \in Publisher : Subscribe(o, p)
  \/ \E o, other \in Observer : Assign(o, other)
  \/ \E o \in Observer : Unsubscribe(o)
  \/ \E p \in Publisher : BeginVisit(p)
  \/ AdvanceVisit
  \/ EndVisit
  \/ \E p \in Publisher : BeginDestroy(p)
  \/ DestroyStep
  \/ EndDestroy
  \/ \E p \in Publisher : Create(p)

Spec == Init /\ [][Next]_vars

-----------------------------------------------------------------------------

FrameType ==
  [pub : Publisher, curr : Observer \cup {NULL}, cut : BOOLEAN,
   must : SUBSET Observer, done : SUBSET Observer]

TypeOK ==
  /\ links \in Links
  /\ alive \in SUBSET Publisher
  /\ dtor \in [pub : Publisher \cup {NULL}, curr : Observer \cup {NULL}]
  /\ frames \in Seq(FrameType)
  /\ since \in [Observer -> Nat]
  /\ clock \in Nat

(* The order of the list of l is the order of subscription: x follows o    *)
(* when x subscribed to the same publisher after o and nobody in between.  *)
Follows(x, o, l, s) ==
  /\ l.publisher[x] = l.publisher[o]
  /\ s[o] < s[x]
  /\ \A y \in Observer :
       l.publisher[y] = l.publisher[o] => s[y] <= s[o] \/ s[x] <= s[y]

Chained(l, s) ==
  /\ \A o \in Observer : l.publisher[o] = NULL =>
       l.prev[o] = NULL /\ l.next[o] = NULL /\ s[o] = 0
  /\ \A o, x \in Observer :
       l.publisher[o] # NULL /\ l.publisher[o] = l.publisher[x] /\ o # x =>
         s[o] # s[x]
  /\ \A o \in Observer : l.publisher[o] # NULL =>
       /\ s[o] > 0
       /\ IF l.next[o] = NULL
          THEN \A y \in Observer :
                 l.publisher[y] = l.publisher[o] => s[y] <= s[o]
          ELSE Follows(l.next[o], o, l, s)
       /\ IF l.prev[o] = NULL
          THEN \A y \in Observer :
                 l.publisher[y] = l.publisher[o] => s[o] <= s[y]
          ELSE Follows(o, l.prev[o], l, s)
  /\ \A p \in Publisher :
       /\ IF l.first[p] = NULL
          THEN \A y \in Observer : l.publisher[y] # p
          ELSE /\ l.publisher[l.first[p]] = p
               /\ \A y \in Observer :
                    l.publisher[y] = p => s[l.first[p]] <= s[y]
       /\ IF l.last[p] = NULL
          THEN \A y \in Observer : l.publisher[y] # p
          ELSE /\ l.publisher[l.last[p]] = p
               /\ \A y \in Observer :
                    l.publisher[y] = p => s[y] <= s[l.last[p]]

(* Whatever was subscribed, reassigned, unsubscribed or destroyed, the     *)
(* links of every list join exactly its subscribers, both ways, in the     *)
(* order in which they subscribed, and first and last are its ends: no     *)
(* subscriber is off the list, no list reaches another publisher's         *)
(* observer (the splicing of remove_from_subscriber_list_of_publisher and  *)
(* of the two subscribe functions).                                        *)
LinksFollowSubscription == Chained(links, since)

(* No observer is left pointing at a publisher that has been destroyed:    *)
(* ~WeakObserverPublisher reaches every observer of its list although the  *)
(* loop clears the very link it is about to follow.                        *)
NoDanglingObserver ==
  \A o \in Observer : links.publisher[o] \in alive \cup {NULL}

(* A traversal that has come to its end has called back every observer     *)
(* that was subscribed from its beginning on, whatever the callbacks       *)
(* subscribed or unsubscribed, unless an observer left its list during its *)
(* own callback.                                                           *)
CompleteVisit ==
  \A i \in DOMAIN frames :
    frames[i].curr = NULL /\ ~frames[i].cut => frames[i].must \subseteq frames[i].done

(* A traversal that no observer has cut never calls an observer a second   *)
(* time under the same subscription, nor an observer of another publisher. *)
VisitedOnce ==
  [][AdvanceVisit /\ ~Top.cut /\ links.next[Top.curr] # NULL =>
       /\ links.next[Top.curr] \notin Top.done
       /\ links.publisher[links.next[Top.curr]] = Top.pub]_vars

(* "Apply the supplied WeakObserverVisitor to all (non-const) weak         *)
(* observers of this instance" (WeakObserverPublisher.h): a traversal that *)
(* has ended has called every observer that stayed subscribed.             *)
VisitsAllObservers ==
  \A i \in DOMAIN frames :
    frames[i].curr = NULL => frames[i].must \subseteq frames[i].done

-----------------------------------------------------------------------------
(* The list implements the queue of observers: following the links from    *)
(* the first observer reads the queue off.                                 *)

(* The observers of w, and the next one by the links of l.                 *)
Further(w, l, p) ==
  LET o == IF w = <<>> THEN l.first[p] ELSE l.next[w[Len(w)]]
  IN IF o = NULL THEN w ELSE Append(w, o)

Walk(l, p) ==
  LET W[n \in 0 .. Cardinality(Observer)] ==
        IF n = 0 THEN <<>> ELSE Further(W[n - 1], l, p)
  IN W[Cardinality(Observer)]

Queue == INSTANCE ObserverQueue WITH subs <- [p \in Publisher |-> Walk(links, p)]

(* Every operation of the list is one of the queue: an observer joins the  *)
(* end of one queue, leaving its former one, or it leaves.                 *)
ImplementsQueue == Queue!Spec

=============================================================================
