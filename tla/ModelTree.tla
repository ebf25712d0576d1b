----------------------------- MODULE ModelTree -----------------------------
(***************************************************************************)
(* The tree of model handles (model/BasicHandle.h, BasicRevision.h) and    *)
(* the guard that holds its notifications back (model/NotificationGuard,   *)
(* model/Model.cc).                                                        *)
(*                                                                         *)
(* A feature store root owns feature collections, which own features.      *)
(* Every change tells the listeners of the handle, then those of its       *)
(* parents; while a NotificationGuard exists the news is noted in the      *)
(* handle and a flush of the whole tree tells it when the last guard goes. *)
(* Listeners run arbitrary code: they start operations of their own in the *)
(* middle of the operation that called them.  So an operation is not one   *)
(* step here: the variable agenda is the call stack, a sequence of steps   *)
(* still to do whose head is next.  A "callback" at the head is a listener *)
(* that is running, a "scope" is client code that holds a guard; there,    *)
(* and when the agenda is empty, client code may start an operation.       *)
(*                                                                         *)
(* The top level properties of a feature are plain data (BasicHandle.cc    *)
(* specialises them away): a change to them is Modify.                     *)
(***************************************************************************)
EXTENDS Integers, Sequences, FiniteSets

CONSTANTS Root,          \* the feature store root
          Collections,   \* feature collections
          Features,      \* features
          NULL,          \* the null pointer
          MaxOps         \* bound: operations that client code starts

ASSUME HandlesAssumption ==
  /\ Root \notin Collections \cup Features
  /\ Collections \cap Features = {}
  /\ NULL \notin {Root} \cup Collections \cup Features
  /\ MaxOps \in Nat

VARIABLES
  slots,      \* d_children of the revision of each handle, NULL where vacated
  parent,     \* d_parent_ptr
  index,      \* d_index_in_container
  live,       \* FALSE once the destructor has run
  active,     \* d_is_active
  wasActive,  \* d_was_active_before_pending_notifications
  pendMod,    \* d_has_pending_{publisher,child}_modification_notification
  pendAdd,    \* d_pending_addition_notifications: the slots, in order
  unsaved,    \* the collections whose d_contains_unsaved_changes is set
  guard,      \* d_notification_guard_count
  agenda,     \* the call stack: what is still to do
  ops,        \* operations started so far (bounded by MaxOps)
  owed,       \* history: news held back by a client's guard and not told yet
  dirty       \* history: the collections changed since they were last saved

tree == <<slots, parent, index, live>>
activity == <<active, wasActive>>
pending == <<pendMod, pendAdd, owed>>
saving == <<unsaved, dirty>>
vars == <<tree, activity, pending, saving, guard, agenda, ops>>

Handles == {Root} \cup Collections \cup Features

(* The handles that the slots of p may hold. *)
ChildrenOf(p) == IF p = Root THEN Collections
                 ELSE IF p \in Collections THEN Features ELSE {}

InSlot(p, c) == \E i \in DOMAIN slots[p] : slots[p][i] = c
Held(c) == \E p \in Handles : InSlot(p, c)

(* RevisionAwareIterator: the first occupied slot from i on, or the end. *)
Seek(p, i) ==
  CHOOSE j \in i..(Len(slots[p]) + 1) :
    /\ j <= Len(slots[p]) => slots[p][j] # NULL
    /\ \A k \in i..(j - 1) : slots[p][k] = NULL

(* model_ptr() is not NULL: the parent pointers lead to the root. *)
InModel(h) ==
  \/ h = Root
  \/ parent[h] = Root
  \/ parent[h] # NULL /\ parent[parent[h]] = Root

Guarded(h) == InModel(h) /\ guard > 0

(* A flush is under way: the count is held at one until it ends. *)
Flushing == \E i \in DOMAIN agenda : agenda[i].do = "unguard"

(* What an entry of the agenda does, on which handle, at which slot, and   *)
(* with which news.                                                        *)
DoAt(what, h, i) == [do |-> what, on |-> h, at |-> i, news |-> {}]
Do(what, h) == DoAt(what, h, 0)
Modified(h, bits) == [do |-> "modified", on |-> h, at |-> 0, news |-> bits]
Tell(h, news) == [do |-> "callback", on |-> h, at |-> 0, news |-> news]

News == {<<"publisher", 0>>, <<"child", 0>>, <<"deactivated", 0>>, <<"destroyed", 0>>}
Publisher == {<<"publisher", 0>>}
Child == {<<"child", 0>>}
Added(i) == <<"added", i>>

-----------------------------------------------------------------------------
Init ==
  /\ slots = [h \in Handles |-> <<>>]
  /\ parent = [h \in Handles |-> NULL]
  /\ index = [h \in Handles |-> 0]
  /\ live = [h \in Handles |-> TRUE]
  /\ active = [h \in Handles |-> TRUE]
  /\ wasActive = [h \in Handles |-> TRUE]
  /\ pendMod = [h \in Handles |-> {}]
  /\ pendAdd = [h \in Handles |-> <<>>]
  /\ unsaved = {} /\ dirty = {} /\ owed = {}
  /\ guard = 0
  /\ agenda = <<>>
  /\ ops = 0

-----------------------------------------------------------------------------
(* What client code does: outside every operation, while it holds a guard, *)
(* or in a listener.  It reaches handles through valid weak references:    *)
(* of live handles that are active.  A listener that is told of the        *)
(* destruction of a handle leaves that handle alone.                       *)

ClientTurn == agenda # <<>> => Head(agenda).do \in {"callback", "scope"}

Start(entries) ==
  /\ ClientTurn
  /\ ops < MaxOps
  /\ ops' = ops + 1
  /\ agenda' = entries \o agenda

Dying(h) == \E i \in DOMAIN agenda : agenda[i] = Do("orphan", h)
Usable(h) == live[h] /\ active[h] /\ ~Dying(h)

(* add: the child is appended and learns its parent and its index, then    *)
(* the parent's listeners hear of the modification and of the addition.    *)
(* The caller passes a child that no handle holds.                         *)
AppendPosition(p) == Len(slots[p]) + 1     \* slots count from 1 here
Add(p, c) ==
  /\ c \in ChildrenOf(p)
  /\ Usable(p) /\ Usable(c)
  /\ parent[c] = NULL
  /\ slots' = [slots EXCEPT ![p] = Append(@, c)]
  /\ parent' = [parent EXCEPT ![c] = p]
  /\ index' = [index EXCEPT ![c] = AppendPosition(p)]
  /\ dirty' = dirty \cup ({p} \cap Collections)
  /\ Start(<<Modified(p, Publisher), DoAt("added", p, AppendPosition(p))>>)
  /\ UNCHANGED <<live, activity, pending, unsaved, guard>>

(* remove_from_parent, and remove of the parent: the child at the iterator *)
(* is deactivated while it is still in its slot, then the slot is vacated, *)
(* then the parent's listeners hear of the modification.                   *)
RemoveEntries(p, i) ==
  <<Do("deactivate", slots[p][i]), DoAt("vacate", p, i), Modified(p, Publisher)>>
Remove(c) ==
  /\ Usable(c)
  /\ parent[c] # NULL
  /\ Start(RemoveEntries(parent[c], Seek(parent[c], index[c])))
  /\ UNCHANGED <<tree, activity, pending, saving, guard>>

(* set, set_feature_type and the changes to the property list of a feature *)
Modify(f, bits) ==
  /\ Usable(f)
  /\ dirty' = dirty \cup {c \in Collections : InSlot(c, f)}
  /\ Start(<<Modified(f, bits)>>)
  /\ UNCHANGED <<tree, activity, pending, unsaved, guard>>

(* The client writes the collection to a file: clear_unsaved_changes *)
Save(c) ==
  /\ Usable(c)
  /\ c \in unsaved
  /\ unsaved' = unsaved \ {c}
  /\ dirty' = dirty \ {c}
  /\ Start(<<>>)
  /\ UNCHANGED <<tree, activity, pending, guard>>

(* NotificationGuard, and acquire_guard *)
Acquire ==
  /\ guard' = guard + 1
  /\ Start(<<Do("scope", Root)>>)
  /\ UNCHANGED <<tree, activity, pending, saving>>

(* Mutant: the count stays at zero while the flush is under way. *)
CountLeftAtZero == 0

(* ~NotificationGuard, and release_guard: the last guard flushes the tree  *)
(* with the count back at one, so that guards of listeners do not flush.   *)
CountWhileFlushing == 1
Release ==
  /\ agenda # <<>> /\ Head(agenda).do = "scope"
  /\ IF guard = 1
     THEN /\ guard' = CountWhileFlushing
          /\ agenda' = <<Do("flush", Root), Do("unguard", Root)>> \o Tail(agenda)
     ELSE /\ guard' = guard - 1
          /\ agenda' = Tail(agenda)
  /\ UNCHANGED <<tree, activity, pending, saving, ops>>

(* The last owner of a handle lets go of it: its listeners are always told *)
(* (~BasicHandle).  Listeners do not let go of handles.                    *)
Settled == \A i \in DOMAIN agenda : agenda[i].do = "scope"
Drop(h) ==
  /\ Settled
  /\ live[h]
  /\ ~Held(h)
  /\ Start(<<Tell(h, {<<"destroyed", 0>>}), Do("orphan", h)>>)
  /\ UNCHANGED <<tree, activity, pending, saving, guard>>

(* The listener returns. *)
Return ==
  /\ agenda # <<>> /\ Head(agenda).do = "callback"
  /\ agenda' = Tail(agenda)
  /\ UNCHANGED <<tree, activity, pending, saving, guard, ops>>

-----------------------------------------------------------------------------
(* What the operations do next.  Each step takes the head of the agenda    *)
(* and puts what it calls in its place.                                    *)

Doing(what) == agenda # <<>> /\ Head(agenda).do = what
On == Head(agenda).on
At == Head(agenda).at
Continue(entries) == agenda' = entries \o Tail(agenda)

(* Mutant: the flag waits for the guard to go, like the notification. *)
FlaggedUnlessGuarded(h) == IF Guarded(h) THEN unsaved ELSE unsaved \cup ({h} \cap Collections)

(* Mutant: the later news replaces the earlier. *)
NotedLast(h, bits) == bits

(* notify_listeners_of_modification: the unsaved flag is set at once, the  *)
(* news is noted or told, and the parent is told in either case.           *)
Flagged(h) == unsaved \cup ({h} \cap Collections)
Noted(h, bits) == pendMod[h] \cup bits
NotifyModified ==
  /\ Doing("modified")
  /\ LET bits == Head(agenda).news IN
     /\ unsaved' = Flagged(On)
     /\ IF Guarded(On)
        THEN /\ pendMod' = [pendMod EXCEPT ![On] = Noted(On, bits)]
             /\ owed' = IF Flushing THEN owed ELSE owed \cup ({On} \X bits)
             /\ Continue(<<Do("bubble", On)>>)
        ELSE /\ UNCHANGED <<pendMod, owed>>
             /\ Continue(<<Tell(On, bits), Do("bubble", On)>>)
  /\ UNCHANGED <<tree, activity, pendAdd, dirty, guard, ops>>

(* notify_parent_of_modification, which does nothing in the root *)
Bubble ==
  /\ Doing("bubble")
  /\ Continue(IF On = Root \/ parent[On] = NULL THEN <<>>
              ELSE <<Modified(parent[On], Child)>>)
  /\ UNCHANGED <<tree, activity, pending, saving, guard, ops>>

(* notify_listeners_of_addition *)
NotifyAdded ==
  /\ Doing("added")
  /\ IF Guarded(On)
     THEN /\ pendAdd' = [pendAdd EXCEPT ![On] = Append(@, At)]
          /\ owed' = IF Flushing THEN owed ELSE owed \cup {<<On, Added(At)>>}
          /\ Continue(<<>>)
     ELSE /\ UNCHANGED <<pendAdd, owed>>
          /\ Continue(<<Tell(On, {Added(At)})>>)
  /\ UNCHANGED <<tree, activity, pendMod, saving, guard, ops>>

(* set_active(false): tells the listeners unless guarded, then goes on to  *)
(* the children.                                                           *)
Deactivate ==
  /\ Doing("deactivate")
  /\ IF active[On]
     THEN /\ active' = [active EXCEPT ![On] = FALSE]
          /\ wasActive' = [wasActive EXCEPT ![On] = Guarded(On) /\ @]
          /\ Continue(IF Guarded(On) THEN <<DoAt("cascade", On, 1)>>
                      ELSE <<Tell(On, {<<"deactivated", 0>>}), DoAt("cascade", On, 1)>>)
     ELSE Continue(<<>>) /\ UNCHANGED activity
  /\ UNCHANGED <<tree, pending, saving, guard, ops>>

(* A loop over the children of a handle, from a slot on: the end and the   *)
(* slots are read anew each time round, for the listeners change them.     *)
ForChildren(loop, body) ==
  LET i == Seek(On, At) IN
  Continue(IF i > Len(slots[On]) THEN <<>>
           ELSE <<Do(body, slots[On][i]), DoAt(loop, On, i + 1)>>)

(* set_children_active(false) *)
Cascade ==
  /\ Doing("cascade")
  /\ ForChildren("cascade", "deactivate")
  /\ UNCHANGED <<tree, activity, pending, saving, guard, ops>>

(* BasicRevision::remove; the child keeps its parent pointer and index. *)
Vacate ==
  /\ Doing("vacate")
  /\ slots' = [slots EXCEPT ![On][At] = NULL]
  /\ dirty' = dirty \cup ({On} \cap Collections)
  /\ Continue(<<>>)
  /\ UNCHANGED <<parent, index, live, activity, pending, unsaved, guard, ops>>

(* flush_pending_notifications: the children first, then what this handle  *)
(* held back of modifications, of additions and of deactivations.          *)
Flush ==
  /\ Doing("flush")
  /\ Continue(<<DoAt("flush_children", On, 1), Do("flush_modified", On),
                Do("flush_added", On), Do("flush_active", On)>>)
  /\ UNCHANGED <<tree, activity, pending, saving, guard, ops>>

FlushChildren ==
  /\ Doing("flush_children")
  /\ ForChildren("flush_children", "flush")
  /\ UNCHANGED <<tree, activity, pending, saving, guard, ops>>

(* The flags are cleared only when the listeners have returned. *)
FlushModified ==
  /\ Doing("flush_modified")
  /\ Continue(IF pendMod[On] = {} THEN <<>>
              ELSE <<Tell(On, pendMod[On]), Do("clear_modified", On)>>)
  /\ owed' = owed \ ({On} \X pendMod[On])
  /\ UNCHANGED <<tree, activity, pendMod, pendAdd, saving, guard, ops>>

ClearModified ==
  /\ Doing("clear_modified")
  /\ pendMod' = [pendMod EXCEPT ![On] = {}]
  /\ Continue(<<>>)
  /\ UNCHANGED <<tree, activity, pendAdd, owed, saving, guard, ops>>

FlushAdded ==
  /\ Doing("flush_added")
  /\ LET news == {Added(pendAdd[On][i]) : i \in DOMAIN pendAdd[On]} IN
     /\ Continue(IF news = {} THEN <<>> ELSE <<Tell(On, news), Do("clear_added", On)>>)
     /\ owed' = owed \ ({On} \X news)
  /\ UNCHANGED <<tree, activity, pendMod, pendAdd, saving, guard, ops>>

ClearAdded ==
  /\ Doing("clear_added")
  /\ pendAdd' = [pendAdd EXCEPT ![On] = <<>>]
  /\ Continue(<<>>)
  /\ UNCHANGED <<tree, activity, pendMod, owed, saving, guard, ops>>

(* notify_listeners_of_deactivation respects the guard, and the count is   *)
(* one while flushing: nobody is told, but the two flags agree again.      *)
FlushActive ==
  /\ Doing("flush_active")
  /\ Continue(IF active[On] = wasActive[On] \/ Guarded(On) THEN <<>>
              ELSE <<Tell(On, {<<"deactivated", 0>>})>>)
  /\ wasActive' = [wasActive EXCEPT ![On] = active[On]]
  /\ UNCHANGED <<tree, active, pending, saving, guard, ops>>

Unguard ==
  /\ Doing("unguard")
  /\ guard' = guard - 1
  /\ Continue(<<>>)
  /\ UNCHANGED <<tree, activity, pending, saving, ops>>

(* Mutant: what FeatureHandle does, for every handle. *)
OrphanedNone(h) == {}

(* ~BasicHandle, after its listeners: remove_child_parent_pointers, and    *)
(* then the members go.                                                    *)
Orphaned(h) == {c \in Handles : InSlot(h, c)}
Orphan ==
  /\ Doing("orphan")
  /\ parent' = [c \in Handles |-> IF c \in Orphaned(On) THEN NULL ELSE parent[c]]
  /\ slots' = [slots EXCEPT ![On] = <<>>]
  /\ live' = [live EXCEPT ![On] = FALSE]
  /\ pendMod' = [pendMod EXCEPT ![On] = {}]
  /\ pendAdd' = [pendAdd EXCEPT ![On] = <<>>]
  /\ owed' = {o \in owed : o[1] # On}
  /\ unsaved' = unsaved \ {On} /\ dirty' = dirty \ {On}
  /\ Continue(<<>>)
  /\ UNCHANGED <<index, activity, guard, ops>>

-----------------------------------------------------------------------------
Client ==
  \/ \E p, c \in Handles : Add(p, c)
  \/ \E c \in Handles : Remove(c)
  \/ \E f \in Features, bits \in {Publisher, Child} : Modify(f, bits)
  \/ \E c \in Collections : Save(c)
  \/ Acquire
  \/ \E h \in Handles \ {Root} : Drop(h)

Step ==
  \/ Return \/ Release \/ Unguard
  \/ NotifyModified \/ Bubble \/ NotifyAdded
  \/ Deactivate \/ Cascade \/ Vacate
  \/ Flush \/ FlushChildren \/ FlushModified \/ ClearModified
  \/ FlushAdded \/ ClearAdded \/ FlushActive
  \/ Orphan

Next == Client \/ Step
Spec == Init /\ [][Next]_vars

-----------------------------------------------------------------------------
(* The pointers, flags and lists of the handles keep their types. *)
TypeOK ==
  /\ \A h \in Handles :
       /\ \A i \in DOMAIN slots[h] : slots[h][i] \in ChildrenOf(h) \cup {NULL}
       /\ parent[h] = NULL \/ h \in ChildrenOf(parent[h])
       /\ pendMod[h] \subseteq Publisher \cup Child
       /\ \A i \in DOMAIN pendAdd[h] : pendAdd[h][i] \in DOMAIN slots[h]
  /\ live \in [Handles -> BOOLEAN]
  /\ active \in [Handles -> BOOLEAN] /\ wasActive \in [Handles -> BOOLEAN]
  /\ unsaved \subseteq Collections /\ dirty \subseteq Collections
  /\ guard \in 0..MaxOps /\ ops \in 0..MaxOps
  /\ owed \subseteq Handles \X (News \cup {Added(i) : i \in 1..MaxOps})

(* remove_from_parent takes the child at the remembered index out of the   *)
(* remembered parent: for every handle that clients may reach, that is the *)
(* handle itself, whatever was added, removed and destroyed before, and no *)
(* two slots hold the same handle.                                         *)
RemoveFindsItsOwn ==
  /\ \A h \in Handles : live[h] /\ active[h] /\ parent[h] # NULL =>
       /\ live[parent[h]]
       /\ index[h] \in DOMAIN slots[parent[h]]
       /\ slots[parent[h]][index[h]] = h
  /\ \A p \in Handles : \A i \in DOMAIN slots[p] : slots[p][i] # NULL =>
       /\ live[slots[p][i]]
       /\ parent[slots[p][i]] = p /\ index[slots[p][i]] = i

InTree(h) == \/ h = Root
             \/ InSlot(Root, h)
             \/ \E c \in Collections : InSlot(Root, c) /\ InSlot(c, h)

(* A guard delays news and loses none: when the last guard is gone, every  *)
(* modification and addition made under it has been told to the listeners  *)
(* of its handle, unless the handle has left the tree.                     *)
HeldNewsIsTold == guard = 0 => \A o \in owed : ~InTree(o[1])

(* Whoever asks a collection, between operations, whether it must be saved *)
(* is told yes if it changed since it was saved, also under a guard.       *)
UnsavedCoversChanges == Settled => dirty \subseteq unsaved

(* A guard taken by a listener that the flush calls does not flush again   *)
(* when it goes: no handle tells news that it is already telling.          *)
FlushedOnce ==
  \A i, j \in DOMAIN agenda :
    agenda[i].do \in {"unguard", "clear_modified", "clear_added"} /\ i # j =>
      <<agenda[i].do, agenda[i].on>> # <<agenda[j].do, agenda[j].on>>

(* NotificationGuard.h: deactivations made under a guard "are queued up,   *)
(* and will be sent when the final NotificationGuard is destroyed".  The   *)
(* handle remembers in d_was_active_before_pending_notifications that its  *)
(* listeners still have to be told.                                        *)
DeactivationsAreTold ==
  Settled /\ guard = 0 => \A h \in Handles : live[h] => active[h] = wasActive[h]

(* BasicHandle.h: of a child that was added and removed under one guard    *)
(* the "listeners need not know": the additions waiting for the flush do   *)
(* not name it.                                                            *)
NoFlittingChild ==
  Settled => \A h \in Handles : \A i \in DOMAIN pendAdd[h] :
    slots[h][pendAdd[h][i]] # NULL
=============================================================================
