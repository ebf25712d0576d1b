-------------------------- MODULE ApplicationState --------------------------
(***************************************************************************)
(* When app-logic/ApplicationState reconstructs: requests come from the    *)
(* user, the reconstruct graph, loaded files and the model; they are held  *)
(* back inside the scopes of ScopedReconstructGuard objects, and those     *)
(* that the model causes are ignored while a reconstruction runs, because  *)
(* reconstructing touches the model.                                       *)
(*                                                                         *)
(* A reconstruction updates the layers and emits "reconstructed", whose    *)
(* listeners draw.  Both query layers, and a layer of scalar coverages     *)
(* that finds itself out of date then announces that its parameters have   *)
(* changed, which is a request to reconstruct like any other.              *)
(*                                                                         *)
(* Of the model there is its notification guard, and whether the root has  *)
(* a modification to announce.  Everything runs in one thread: the call    *)
(* stack is a variable, as in ModelTree.  Its entries are calls to be made *)
(* and the places where clients may call: inside the scope of a guard      *)
(* ("scope", "guard") and in listeners ("told", "reconstructed").          *)
(***************************************************************************)
EXTENDS Integers, Sequences, FiniteSets

CONSTANTS MaxOps,   \* bound: calls that clients start
          MaxDepth  \* bound: scopes and listeners of clients that are open at a time

ASSUME BoundAssumption == MaxOps \in Nat /\ MaxDepth \in Nat

VARIABLES
  nesting,         \* d_scoped_reconstruct_nesting_count
  onExit,          \* d_reconstruct_on_scope_exit
  reconstructing,  \* d_currently_reconstructing
  guards,          \* d_notification_guard_count of the model
  pending,         \* the root has a modification to announce
  unheard,         \* layers have not heard yet that their features changed
  outdated,        \* the parameters of a layer of scalar coverages are out of date
  sections,        \* d_current_topological_sections: whether known, and still right
  due,             \* what changed since the last reconstruction began
  calls,           \* the call stack: what is still to do
  ops              \* calls started so far

flags == <<nesting, onExit, reconstructing>>
model == <<guards, pending, unheard>>
vars == <<flags, model, outdated, sections, due, calls, ops>>

Stack == {calls[i] : i \in DOMAIN calls}
ClientFrames == {"scope", "guard", "told"}

Init ==
  /\ nesting = 0 /\ onExit = FALSE /\ reconstructing = FALSE
  /\ guards = 0 /\ pending = FALSE /\ unheard = FALSE
  /\ outdated = FALSE /\ sections = "unknown" /\ due = {}
  /\ calls = <<>> /\ ops = 0

Doing(what) == calls # <<>> /\ Head(calls) = what
Continue(entries) == calls' = entries \o Tail(calls) /\ ops' = ops

(* What a change of the loaded files and features does to the sections.    *)
Spoilt == IF sections = "right" THEN "wrong" ELSE sections

-----------------------------------------------------------------------------
(* Calls of clients.  They modify no features while the model announces    *)
(* what a guard held back, nor in a listener of a reconstruction; and they *)
(* remove no file under a notification guard (the comment on unload_file   *)
(* says why).                                                              *)

Open == {i \in DOMAIN calls : calls[i] \in ClientFrames}
Start(entries) ==
  /\ calls # <<>> => Head(calls) \in ClientFrames
  /\ ops < MaxOps /\ ops' = ops + 1
  /\ Cardinality(Open) < MaxDepth
  /\ calls' = entries \o calls
MayModify == Stack \cap {"update", "finish", "announce", "settle"} = {}

(* set_reconstruction_time and set_anchored_plate_id to another value. *)
SetTime ==
  /\ Start(<<"reconstruct", "told">>)
  /\ due' = due \cup {"settings"} /\ outdated' = TRUE
  /\ UNCHANGED <<flags, model, sections>>

(* Layers are connected, disconnected, activated or given parameters. *)
ChangeLayers ==
  /\ Start(<<"connect">>)
  /\ UNCHANGED <<flags, model, outdated, sections, due>>

(* reconstruct is a public slot. *)
Request ==
  /\ Start(<<"reconstruct">>)
  /\ UNCHANGED <<flags, model, outdated, sections, due>>

(* Features change; the handles above them notify, or keep it to announce. *)
ModifyFeatures ==
  /\ MayModify
  /\ Start(IF guards = 0 THEN <<"hear", "storeModified">> ELSE <<>>)
  /\ pending' = (pending \/ guards > 0) /\ unheard' = TRUE
  /\ due' = due \cup {"features"} /\ sections' = Spoilt
  /\ UNCHANGED <<flags, guards, outdated>>

(* FeatureCollectionFileState::add_files: the feature collections go into  *)
(* the model before the files are listed; the signals come last.           *)
AddFiles ==
  /\ MayModify
  /\ Start(<<"intoModel", "listed", "begin", "connect", "endAsking", "told", "filesChanged">>)
  /\ UNCHANGED <<flags, model, outdated, sections, due>>

(* FeatureCollectionFileState::remove_file, and the callback it causes. *)
RemoveFile ==
  /\ MayModify /\ guards = 0
  /\ Start(<<"begin", "connect", "endAsking", "listed", "filesChanged", "storeModified">>)
  /\ UNCHANGED <<flags, model, outdated, sections, due>>

OpenScope ==
  /\ Start(<<"begin", "scope">>)
  /\ UNCHANGED <<flags, model, outdated, sections, due>>
CloseScope(ask) ==
  /\ Doing("scope")
  /\ Continue(IF ask THEN <<"endAsking">> ELSE <<"end">>)
  /\ UNCHANGED <<flags, model, outdated, sections, due>>

OpenGuard ==
  /\ Start(<<"guard">>)
  /\ guards' = guards + 1
  /\ UNCHANGED <<flags, pending, unheard, outdated, sections, due>>
CloseGuard ==
  /\ Doing("guard")
  /\ Continue(<<"release">>)
  /\ UNCHANGED <<flags, model, outdated, sections, due>>

Return ==
  /\ Doing("told") \/ Doing("reconstructed")
  /\ Continue(<<>>)
  /\ UNCHANGED <<flags, model, outdated, sections, due>>

-----------------------------------------------------------------------------
(* A layer signal that reconstruct() is connected to. *)
Connect ==
  /\ Doing("connect")
  /\ due' = due \cup {"settings"} /\ outdated' = TRUE
  /\ Continue(<<"reconstruct", "told">>)
  /\ UNCHANGED <<flags, model, sections>>

(* begin_reconstruct_on_scope_exit, end_reconstruct_on_scope_exit *)
Begin ==
  /\ Doing("begin")
  /\ nesting' = nesting + 1
  /\ Continue(<<>>)
  /\ UNCHANGED <<onExit, reconstructing, model, outdated, sections, due>>

(* Mutant: only the guard that ends last is asked. *)
OnlyLastAsks(asking) == asking

AnyAsked(asking) == onExit \/ asking
End(asking) ==
  /\ Doing(IF asking THEN "endAsking" ELSE "end")
  /\ nesting' = nesting - 1
  /\ IF nesting = 1 /\ AnyAsked(asking)
     THEN onExit' = FALSE /\ Continue(<<"reconstruct">>)
     ELSE onExit' = AnyAsked(asking) /\ Continue(<<>>)
  /\ UNCHANGED <<reconstructing, model, outdated, sections, due>>

(* Mutants: a request is dropped when it is blocked; a guard releases what *)
(* it did not acquire.                                                     *)
Dropped == onExit
Unacquired == guards

(* reconstruct.  Its guards end in the reverse of their order: the model   *)
(* announces what happened while the flag is still set.                    *)
Deferred == TRUE
Acquired == guards + 1
Reconstruct ==
  /\ Doing("reconstruct")
  /\ IF nesting > 0
     THEN /\ onExit' = Deferred
          /\ Continue(<<>>)
          /\ UNCHANGED <<reconstructing, guards, due>>
     ELSE /\ reconstructing' = TRUE
          /\ guards' = Acquired
          /\ due' = IF unheard THEN due \ {"settings"} ELSE {}
          /\ Continue(<<"update", "reconstructed", "release", "finish">>)
          /\ UNCHANGED onExit
  /\ UNCHANGED <<nesting, pending, unheard, outdated, sections>>

(* Mutant: the parameters change again after they were found to be right.  *)
StillOutdated == outdated

(* update_layer_tasks returns; meanwhile, as while listeners of            *)
(* "reconstructed" draw: layers are visited in a way that the model takes  *)
(* for a modification, a layer of scalar coverages finds itself out of     *)
(* date, and drawing asks for the topological sections.                    *)
Updated ==
  /\ Doing("update")
  /\ Continue(<<>>)
  /\ UNCHANGED <<flags, model, outdated, sections, due>>
Touch ==
  /\ Doing("update") \/ Doing("reconstructed")
  /\ pending' = TRUE
  /\ UNCHANGED <<flags, guards, unheard, outdated, sections, due, calls, ops>>
Refreshed == FALSE
Poll ==
  /\ Doing("update") \/ Doing("reconstructed")
  /\ outdated
  /\ outdated' = Refreshed
  /\ calls' = <<"reconstruct">> \o calls
  /\ UNCHANGED <<flags, model, sections, due, ops>>
GetSections ==
  /\ Doing("reconstructed")
  /\ sections' = IF sections = "unknown" THEN "right" ELSE sections
  /\ UNCHANGED <<flags, model, outdated, due, calls, ops>>

(* ~ScopedBooleanGuard: it does not restore the flag but resets it. *)
Finish ==
  /\ Doing("finish")
  /\ reconstructing' = FALSE
  /\ Continue(<<>>)
  /\ UNCHANGED <<nesting, onExit, model, outdated, sections, due>>

-----------------------------------------------------------------------------
(* The model, as far as ModelTree matters here: releasing the last guard   *)
(* makes feature collections and then the root announce what is pending,   *)
(* with the guard count held at one.  The flag is reset afterwards.  Of a  *)
(* collection that was only touched layers hear too.                       *)
Release ==
  /\ Doing("release")
  /\ IF guards > 1
     THEN guards' = guards - 1 /\ Continue(<<>>)
     ELSE /\ guards' = guards
          /\ \E told \in {unheard, unheard \/ pending} :
               Continue((IF told THEN <<"hear">> ELSE <<>>) \o <<"announce">>)
  /\ UNCHANGED <<flags, pending, unheard, outdated, sections, due>>

(* Layers hear of their features (modified_input_file), and may be created *)
(* for them.                                                               *)
Hear ==
  /\ Doing("hear")
  /\ unheard' = FALSE /\ outdated' = TRUE
  /\ Continue(<<>>) \/ Continue(<<"connect">>)
  /\ UNCHANGED <<flags, guards, pending, sections, due>>
Announce ==
  /\ Doing("announce")
  /\ Continue(IF pending THEN <<"storeModified", "settle">> ELSE <<"settle">>)
  /\ UNCHANGED <<flags, model, outdated, sections, due>>
Settle ==
  /\ Doing("settle")
  /\ pending' = FALSE /\ guards' = guards - 1
  /\ Continue(<<>>)
  /\ UNCHANGED <<flags, unheard, outdated, sections, due>>

IntoModel ==
  /\ Doing("intoModel")
  /\ IF guards = 0 THEN pending' = pending /\ Continue(<<"storeModified">>)
                   ELSE pending' = TRUE /\ Continue(<<>>)
  /\ UNCHANGED <<flags, guards, unheard, outdated, sections, due>>

(* Mutant: the sections are kept. *)
SectionsKept == sections

(* feature_store_modified *)
Answered == ~reconstructing
Reset == "unknown"
StoreModified ==
  /\ Doing("storeModified")
  /\ sections' = Reset
  /\ Continue(IF Answered THEN <<"reconstruct">> ELSE <<>>)
  /\ UNCHANGED <<flags, model, outdated, due>>

Listed ==
  /\ Doing("listed")
  /\ sections' = Spoilt
  /\ Continue(<<>>)
  /\ UNCHANGED <<flags, model, outdated, due>>

(* handle_file_state_changed *)
FilesChanged ==
  /\ Doing("filesChanged")
  /\ sections' = Reset
  /\ Continue(<<>>)
  /\ UNCHANGED <<flags, model, outdated, due>>

Client ==
  SetTime \/ ChangeLayers \/ Request \/ ModifyFeatures \/ AddFiles \/ RemoveFile \/ OpenScope \/ OpenGuard
Machine ==
  \/ Return \/ CloseGuard \/ \E ask \in BOOLEAN : CloseScope(ask) \/ End(ask)
  \/ Connect \/ Begin
  \/ Reconstruct \/ Updated \/ Finish \/ Release \/ Hear \/ Announce \/ Settle
  \/ IntoModel \/ StoreModified \/ Listed \/ FilesChanged
Next == Client \/ Machine \/ Touch \/ Poll \/ GetSections

(* Scopes end and listeners return, since each is code that runs on; what  *)
(* clients start, and what a reconstruction finds, is left open.           *)
Spec == Init /\ [][Next]_vars /\ WF_vars(Machine)
-----------------------------------------------------------------------------
Frames == ClientFrames \cup
  {"reconstruct", "update", "reconstructed", "release", "finish", "hear", "announce", "settle",
   "begin", "end", "endAsking", "connect", "intoModel", "listed", "filesChanged", "storeModified"}

(* Counts, flags and the call stack keep their types. *)
TypeOK ==
  /\ nesting \in Nat /\ onExit \in BOOLEAN /\ reconstructing \in BOOLEAN
  /\ guards \in Nat /\ pending \in BOOLEAN /\ unheard \in BOOLEAN
  /\ outdated \in BOOLEAN /\ sections \in {"unknown", "right", "wrong"}
  /\ due \subseteq {"settings", "features"} /\ calls \in Seq(Frames) /\ ops \in Nat

(* At every moment a change that has not been reconstructed is remembered: *)
(* in a call that will be made, by the guards that are open, or by the     *)
(* model, which will announce it when nothing keeps the announcement from  *)
(* being answered.                                                         *)
ChangesRemembered ==
  LET requested == "reconstruct" \in Stack \/ (nesting > 0 /\ onExit)
  IN /\ "settings" \in due => requested
     /\ "features" \in due => \/ requested
                              \/ Stack \cap {"hear", "storeModified"} # {}
                              \/ pending /\ Stack \cap {"guard", "release", "announce"} # {}

(* When all calls have returned, what listeners were shown last was made   *)
(* from all that had changed, and no guard is left behind.                 *)
Idle == calls = <<>>
ShownWhenIdle ==
  Idle => /\ due = {} /\ ~unheard
          /\ nesting = 0 /\ ~onExit /\ guards = 0 /\ ~pending /\ ~reconstructing

(* Sections that are known are right whenever all calls have returned,     *)
(* although they are asked for while files are being added and removed.    *)
SectionsRightWhenIdle == Idle => sections # "wrong"

(* No chain of calls goes on for ever, although reconstructing modifies    *)
(* the model and modifications of the model make it reconstruct.           *)
CallsReturn == []<>Idle

(* What the comment in reconstruct promises: events of the model do not    *)
(* make it reconstruct again from inside a reconstruction.                 *)
NotReentered == Doing("storeModified") /\ "finish" \in Stack => ~Answered
=============================================================================
