----------------------------- MODULE FileState -----------------------------
(***************************************************************************)
(* The files that are loaded (app-logic/FeatureCollectionFileState).       *)
(*                                                                         *)
(* Every file has a slot, and its handle is the number of the slot.  A     *)
(* slot refers to an entry of an array of file indices; the entries are in *)
(* load order and each holds the number of loaded files before its own, so *)
(* the indices of the loaded files are 0, 1, 2, ... without gaps.  Files   *)
(* that are removed from the model stay, for they may come back by undo,   *)
(* until their feature collection is destroyed; then the entry goes, and   *)
(* the handle is used again.  The model calls back when a feature          *)
(* collection is deactivated, reactivated or destroyed; the class emits    *)
(* signals, whose listeners may add and remove files in turn.  As in       *)
(* ModelTree the call stack is a variable, and a listener is running when  *)
(* a signal is at its head.                                                *)
(***************************************************************************)
EXTENDS Integers, Sequences, FiniteSets

CONSTANTS Files,      \* file objects, each of which may be loaded once
          MaxBatch,   \* bound: files in one call of add_files
          MaxDepth    \* bound: signals that are out at a time

ASSUME BoundsAssumption == MaxBatch \in Nat \ {0} /\ MaxDepth \in Nat

VARIABLES
  slots,      \* d_file_slots: the file, its entry in the indices, whether loaded
  free,       \* d_free_file_handles, a stack
  indices,    \* d_file_indices
  num,        \* d_num_currently_loaded_files
  where,      \* each file's feature collection: "new", "in" the model, "out", "gone"
  calls,      \* the call stack: what is still to do
  known,      \* history: the files that listeners were told of, by reference
  mirror,     \* history: a listener's sequence, kept by the file indices it is told
  disturbed   \* history: a case that the mirror is not promised to survive

store == <<slots, free, indices, num>>
told == <<known, mirror, disturbed>>
vars == <<store, where, calls, told>>

Handles == DOMAIN slots
Freed == {free[i] : i \in DOMAIN free}
Live == Handles \ Freed
Active == {h \in Handles : slots[h].active}
FileOf(h) == slots[h].file
PosOf(h) == slots[h].pos

(* get_file_index *)
FileIndex(h) == indices[PosOf(h)]

(* An entry of the call stack: what to do for which handle, and the files  *)
(* and handles of a call of add_files.                                     *)
Entry(what, h, fs, hs) == [do |-> what, on |-> h, todo |-> fs, done |-> hs]
Do(what, h) == Entry(what, h, <<>>, <<>>)
Signal(what, hs) == Entry(what, 0, <<>>, hs)
Signals == {"files_added", "about_to_be_removed", "changed"}

Init ==
  /\ slots = <<>> /\ free = <<>> /\ indices = <<>> /\ num = 0
  /\ where = [f \in Files |-> "new"]
  /\ calls = <<>>
  /\ known = {} /\ mirror = <<>> /\ disturbed = FALSE

-----------------------------------------------------------------------------
(* Calls from outside and from listeners.  The place a listener keeps by   *)
(* index is not promised to survive a call made while a removal is being   *)
(* announced, since the indices change only after that signal.             *)

SignalsOut == {i \in DOMAIN calls : calls[i].do \in Signals}
Announcing == \E i \in DOMAIN calls : calls[i].do = "about_to_be_removed"
Busy(h) == \E i \in DOMAIN calls : calls[i].on = h

Start(entries) ==
  /\ calls # <<>> => Head(calls).do \in Signals
  /\ Cardinality(SignalsOut) <= MaxDepth
  /\ calls' = entries \o calls

Batches == {fs \in UNION {[1..n -> Files] : n \in 1..MaxBatch} :
              \A i, j \in DOMAIN fs : i # j => fs[i] # fs[j]}

(* The class keeps references into the vector of slots while it announces  *)
(* a removal or unloads a file that is being destroyed; listeners add no   *)
(* files then, for that may move the vector.                               *)
SlotReferenced == \E i \in DOMAIN calls : calls[i].do \in {"unload", "erase"}

AddFiles(fs) ==
  /\ ~SlotReferenced
  /\ \A i \in DOMAIN fs : where[fs[i]] = "new"
  /\ Start(<<Entry("adding", 0, fs, <<>>)>>)
  /\ UNCHANGED <<store, where, told>>

(* remove_file: the feature collection leaves the model.  Its callback     *)
(* hears of the deactivation unless a NotificationGuard exists (heard);    *)
(* it is destroyed on return from the model unless somebody keeps it.      *)
RemoveFile(h, heard, kept) ==
  /\ h \in Active
  /\ where[FileOf(h)] = "in"
  /\ where' = [where EXCEPT ![FileOf(h)] = "out"]
  /\ Start((IF heard THEN <<Do("deactivated", h)>> ELSE <<>>)
           \o (IF kept THEN <<>> ELSE <<Do("destroying", h)>>))
  /\ disturbed' = (disturbed \/ Announcing)
  /\ UNCHANGED <<store, known, mirror>>

(* The last owner of a feature collection that left the model drops it. *)
Forsake(h) ==
  /\ h \in Live /\ ~Busy(h)
  /\ where[FileOf(h)] = "out"
  /\ Start(<<Do("destroying", h)>>)
  /\ disturbed' = (disturbed \/ Announcing)
  /\ UNCHANGED <<store, where, known, mirror>>

(* Undo puts a feature collection back into the model. *)
Undo(h) ==
  /\ h \in Live \ Active /\ ~Busy(h)
  /\ where[FileOf(h)] = "out"
  /\ where' = [where EXCEPT ![FileOf(h)] = "in"]
  /\ Start(<<Do("reactivated", h)>>)
  /\ disturbed' = (disturbed \/ Announcing)
  /\ UNCHANGED <<store, known, mirror>>

-----------------------------------------------------------------------------
Doing(what) == calls # <<>> /\ Head(calls).do = what
On == Head(calls).on
Continue(entries) == calls' = entries \o Tail(calls)

Return ==
  /\ \E what \in Signals : Doing(what)
  /\ Continue(<<>>)
  /\ UNCHANGED <<store, where, told>>

(* Mutant: the entry holds the number of entries before it. *)
NewEntryByLength == Len(indices)

(* add_file_internal: the entry and the slot at the end, or in the place   *)
(* of the handle released last.                                            *)
NewEntry == num
NewHandle == IF free = <<>> THEN Len(slots) + 1 ELSE free[Len(free)]
AddOne ==
  /\ Doing("adding") /\ Head(calls).todo # <<>>
  /\ LET f == Head(Head(calls).todo)
         slot == [file |-> f, pos |-> Len(indices) + 1, active |-> TRUE]
     IN /\ slots' = [h \in Handles \cup {NewHandle} |->
                       IF h = NewHandle THEN slot ELSE slots[h]]
        /\ where' = [where EXCEPT ![f] = "in"]
  /\ free' = IF free = <<>> THEN free ELSE SubSeq(free, 1, Len(free) - 1)
  /\ indices' = Append(indices, NewEntry)
  /\ num' = num + 1
  /\ Continue(<<Entry("adding", 0, Tail(Head(calls).todo), Append(Head(calls).done, NewHandle))>>)
  /\ UNCHANGED told

(* add_files announces what was added; the listener appends it. *)
AddDone ==
  /\ Doing("adding") /\ Head(calls).todo = <<>>
  /\ LET hs == Head(calls).done
         fs == [i \in DOMAIN hs |-> FileOf(hs[i])]
     IN /\ known' = known \cup {fs[i] : i \in DOMAIN fs}
        /\ mirror' = mirror \o fs
        /\ Continue(<<Signal("files_added", hs), Signal("changed", <<>>)>>)
  /\ UNCHANGED <<store, where, disturbed>>

Dropped(s, k) == [i \in 1..(Len(s) - 1) |-> IF i < k THEN s[i] ELSE s[i + 1]]

(* deactivated_feature_collection, first part: the removal is announced    *)
(* while the file still counts as loaded; the listener erases the element  *)
(* of its sequence that has the index of the file.                         *)
Deactivated ==
  /\ Doing("deactivated")
  /\ known' = known \ {FileOf(On)}
  /\ mirror' = IF FileIndex(On) < Len(mirror) THEN Dropped(mirror, FileIndex(On) + 1) ELSE mirror
  /\ Continue(<<Signal("about_to_be_removed", <<On>>), Do("unload", On)>>)
  /\ UNCHANGED <<store, where, disturbed>>

(* Mutants: the file itself moves down too; only loaded files move down. *)
LoweredOwn(k) == [i \in DOMAIN indices |-> IF i >= k THEN indices[i] - 1 ELSE indices[i]]
LoweredLoaded(k) ==
  [i \in DOMAIN indices |->
     IF i > k /\ \E h \in Active \cap Live : PosOf(h) = i THEN indices[i] - 1 ELSE indices[i]]

(* ... second part: the files loaded later move down, also those that are  *)
(* not loaded at present.                                                  *)
Lowered(k) == [i \in DOMAIN indices |-> IF i > k THEN indices[i] - 1 ELSE indices[i]]
Unload ==
  /\ Doing("unload")
  /\ slots' = [slots EXCEPT ![On].active = FALSE]
  /\ indices' = Lowered(PosOf(On))
  /\ num' = num - 1
  /\ Continue(<<Signal("changed", <<>>)>>)
  /\ UNCHANGED <<free, where, told>>

(* reactivated_feature_collection: announced as an added file, though its  *)
(* index is not the last, so a listener that appends goes wrong.           *)
Raised(k) == [i \in DOMAIN indices |-> IF i > k THEN indices[i] + 1 ELSE indices[i]]
Reactivated ==
  /\ Doing("reactivated")
  /\ slots' = [slots EXCEPT ![On].active = TRUE]
  /\ indices' = Raised(PosOf(On))
  /\ num' = num + 1
  /\ known' = known \cup {FileOf(On)}
  /\ mirror' = Append(mirror, FileOf(On))
  /\ disturbed' = TRUE
  /\ Continue(<<Signal("files_added", <<On>>), Signal("changed", <<>>)>>)
  /\ UNCHANGED <<free, where>>

(* Mutant: the deactivation is taken for heard. *)
UnloadNever(h) == <<>>

(* destroying_feature_collection: a file whose deactivation was not heard  *)
(* is unloaded first; then its entry is erased and its handle released.    *)
UnloadFirst(h) == IF slots[h].active THEN <<Do("deactivated", h)>> ELSE <<>>
Destroying ==
  /\ Doing("destroying")
  /\ where' = [where EXCEPT ![FileOf(On)] = "gone"]
  /\ Continue(UnloadFirst(On) \o <<Do("erase", On)>>)
  /\ UNCHANGED <<store, told>>

(* Mutant: the slots keep their entries. *)
MovedNone(k) == slots

MovedUp(k) == [h \in Handles |-> IF PosOf(h) > k THEN [slots[h] EXCEPT !.pos = @ - 1] ELSE slots[h]]
Erase ==
  /\ Doing("erase")
  /\ indices' = Dropped(indices, PosOf(On))
  /\ slots' = MovedUp(PosOf(On))
  /\ free' = Append(free, On)
  /\ Continue(<<>>)
  /\ UNCHANGED <<num, where, told>>

Next ==
  \/ \E fs \in Batches : AddFiles(fs)
  \/ \E h \in Handles, heard, kept \in BOOLEAN : RemoveFile(h, heard, kept)
  \/ \E h \in Handles : Forsake(h) \/ Undo(h)
  \/ Return
  \/ AddOne \/ AddDone
  \/ Deactivated \/ Unload \/ Reactivated \/ Destroying \/ Erase

Spec == Init /\ [][Next]_vars

-----------------------------------------------------------------------------
(* The slots, indices and handles keep their types. *)
TypeOK ==
  /\ slots \in Seq([file : Files, pos : Nat \ {0}, active : BOOLEAN])
  /\ free \in Seq(Nat \ {0})
  /\ indices \in Seq(Nat)
  /\ num \in Nat
  /\ where \in [Files -> {"new", "in", "out", "gone"}]
  /\ known \subseteq Files /\ mirror \in Seq(Files) /\ disturbed \in BOOLEAN

(* A released handle is released once and its slot is not loaded; the      *)
(* other slots refer to the entries of the indices one to one.             *)
SlotsMatchIndices ==
  /\ Freed \subseteq Handles \ Active
  /\ \A i, j \in DOMAIN free : free[i] = free[j] => i = j
  /\ {PosOf(h) : h \in Live} = DOMAIN indices
  /\ \A g, h \in Live : PosOf(g) = PosOf(h) => g = h

(* get_loaded_files may be called at any moment, also by listeners: the    *)
(* loaded files have the indices 0 to n - 1, each once and in load order,  *)
(* and files not loaded have the index they would come back to.            *)
IndicesOrderFiles ==
  /\ num = Cardinality(Active)
  /\ \A h \in Active : FileIndex(h) < num
  /\ \A g, h \in Live : PosOf(g) < PosOf(h) =>
       /\ FileIndex(g) <= FileIndex(h)
       /\ g \in Active => FileIndex(g) < FileIndex(h)
  /\ \A h \in Live : FileIndex(h) <= num

(* Listeners that keep file references know the loaded files: every        *)
(* removal is announced once, although handles are used again and the      *)
(* callback of a removal may come late or not at all.                      *)
Removing == {FileOf(calls[i].on) : i \in {j \in DOMAIN calls : calls[j].do = "unload"}}
LoadedSlots == {FileOf(h) : h \in Active}
Arriving == UNION {{FileOf(calls[i].done[j]) : j \in DOMAIN calls[i].done} :
                     i \in {k \in DOMAIN calls : calls[k].do = "adding"}}
ListenersKnowFiles == known = LoadedSlots \ (Removing \cup Arriving)

(* The header tells listeners that they can append added files to their    *)
(* own sequence, and erase at the index of a removed file, "without        *)
(* checking the file indices".  Between calls such a sequence is what      *)
(* get_loaded_files returns, if nothing was added or removed while a       *)
(* removal was being announced and nothing was undone.                     *)
MirrorMatches ==
  calls = <<>> /\ ~disturbed =>
    /\ Len(mirror) = num
    /\ \A h \in Active : FileIndex(h) < num /\ mirror[FileIndex(h) + 1] = FileOf(h)

(* The files by entry: what the arrays stand for. *)
FileAt(k) == FileOf(CHOOSE h \in Live : PosOf(h) = k)
Abstract == INSTANCE LoadOrder WITH
  order <- [k \in DOMAIN indices |-> FileAt(k)],
  shown <- LoadedSlots

(* The slots, indices and handles implement a list of files in load order  *)
(* from which files are hidden and forgotten.                              *)
KeepsLoadOrder == Abstract!Spec
=============================================================================
