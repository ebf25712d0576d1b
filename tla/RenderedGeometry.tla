-------------------------- MODULE RenderedGeometry --------------------------
(***************************************************************************)
(* The collection of rendered geometries (view-operations/                 *)
(* RenderedGeometryCollection) with those who draw into it and listen to   *)
(* it.  Visual layers draw the reconstruction geometries of a feature; the *)
(* focus (gui/FeatureFocus) looks its geometry up again when the           *)
(* collection was updated; the workflow of canvas tools that is active     *)
(* highlights the focus when it changes, in a main layer of its own, which *)
(* updates the collection again, inside the signal.                        *)
(*                                                                         *)
(* Everything runs in one thread: the call stack is a variable.  Guards    *)
(* that put updates off are opened by clients around several calls, and by *)
(* the calls themselves.  There is one feature, with one geometry; its     *)
(* reconstruction geometries are numbered in the order of their creation.  *)
(***************************************************************************)
EXTENDS Integers, Sequences, FiniteSets, SequencesExt, Subsequences

CONSTANTS
  VisualLayers,
  Workflows,   \* the main layers of the workflows that highlight the focus
  None,
  MaxOps,      \* bound: calls that clients start
  MaxDepth,    \* bound: update guards of clients that are open at a time
  MaxCalls     \* bound: entries of the call stack when a signal is sent

ASSUME RenderedAssumption ==
  /\ IsFiniteSet(VisualLayers) /\ IsFiniteSet(Workflows)
  /\ "reconstruction" \notin Workflows /\ None \notin Workflows /\ Workflows # {}
  /\ MaxOps \in Nat /\ MaxDepth \in Nat /\ MaxCalls \in Nat

VARIABLES
  depth,      \* d_update_collection_depth
  queued,     \* d_update_notify_queued
  updated,    \* d_main_layers_updated
  active,     \* d_main_layer_active_state
  children,   \* d_child_layer_index_seq of the reconstruction layer
  free,       \* d_layers_available_for_reuse, its top first
  index,      \* d_rendered_geometry_layer_index of each visual layer, or 0
  contents,   \* the geometry in the child layer of each index, or 0
  visible,    \* d_visible of each visual layer
  output,     \* the geometry that each layer reconstructs at this time, or 0
  made,       \* geometries created so far
  focused,    \* whether the feature is the focused feature
  rg,         \* d_associated_reconstruction_geometry, or 0
  workflow,   \* d_active_workflow
  listener,   \* the workflow that is connected to focus_changed
  highlight,  \* what is drawn in the layer of each workflow, and whether as the focus
  missed,     \* history: what the canvases have not been told
  aborted,    \* history: an export did not restore the active layers
  calls,      \* the call stack: what is still to do
  ops         \* calls started so far

collection == <<depth, queued, updated>>
layers == <<children, free, index, contents, visible, output, made>>
focus == <<focused, rg>>
tools == <<workflow, listener, highlight>>
vars == <<collection, active, layers, focus, tools, missed, aborted, calls, ops>>

Do(what, x) == [do |-> what, on |-> x]

Init ==
  /\ depth = 0 /\ queued = FALSE /\ updated = {}
  /\ children = <<>> /\ free = <<>>
  /\ index = [l \in VisualLayers |-> 0] /\ contents = [i \in 1..Cardinality(VisualLayers) |-> 0]
  /\ visible = [l \in VisualLayers |-> TRUE] /\ output = [l \in VisualLayers |-> 0] /\ made = 0
  /\ focused = FALSE /\ rg = 0
  /\ workflow \in Workflows /\ listener = workflow /\ active = {"reconstruction", workflow}
  /\ highlight = [w \in Workflows |-> {}]
  /\ missed = [repaint |-> FALSE, layers |-> {}] /\ aborted = FALSE
  /\ calls = <<>> /\ ops = 0

Idle == calls = <<>>
Start(entries) == Idle /\ ops < MaxOps /\ ops' = ops + 1 /\ calls' = entries
Doing(what) == calls # <<>> /\ Head(calls).do = what
On == Head(calls).on
Continue(entries) == calls' = entries \o Tail(calls) /\ ops' = ops

(* Mutant: the flags are assigned, not added. *)
OnlyThese(ls) == ls

(* signal_update, that main layers ls have changed: a guard puts it off,   *)
(* otherwise Emission is what is to be called.                             *)
WithFlags(ls) == updated \cup ls
Emission == IF depth > 0 THEN <<>> ELSE <<Do("emit", None)>>
SignalOnly(ls) ==
  /\ updated' = WithFlags(ls)
  /\ queued' = (queued \/ depth > 0)
  /\ depth' = depth
Signal(ls) ==
  /\ SignalOnly(ls)
  /\ missed' = [repaint |-> TRUE, layers |-> missed.layers \cup ls]

-----------------------------------------------------------------------------
(* The geometries that can be found in the reconstruction layer, and the   *)
(* one that the focus takes: observers of a feature are visited in the     *)
(* order in which they subscribed.                                         *)
Shown == {contents[children[i]] : i \in DOMAIN children} \ {0}
Found == IF Shown = {} THEN 0 ELSE CHOOSE r \in Shown : \A s \in Shown : r <= s

(* An update guard of a client, around several of the calls below. *)
OpenGuard ==
  /\ depth < MaxDepth /\ Start(<<>>)
  /\ depth' = depth + 1
  /\ UNCHANGED <<queued, updated, active, layers, focus, tools, missed, aborted>>
CloseGuard ==
  /\ depth > 0 /\ Start(<<Do("endGuard", None)>>)
  /\ UNCHANGED <<collection, active, layers, focus, tools, missed, aborted>>

(* A reconstruction: the layers in new find the feature in a new geometry, *)
(* those in gone do not find it, the others keep what they had.  Visual    *)
(* layers draw in the scope of a guard.                                    *)
Reconstruct(new, gone) ==
  LET order == SetToSeq({l \in VisualLayers : index[l] # 0})
      number(l) == made + CHOOSE i \in 1..Cardinality(new) : SetToSeq(new)[i] = l
  IN /\ Start(<<Do("beginGuard", None), Do("clear", "reconstruction")>>
              \o [i \in DOMAIN order |-> Do("render", order[i])] \o <<Do("endGuard", None)>>)
     /\ output' = [l \in VisualLayers |-> IF l \in new THEN number(l) ELSE IF l \in gone THEN 0 ELSE output[l]]
     /\ made' = made + Cardinality(new)
     /\ UNCHANGED <<collection, active, children, free, index, contents, visible, focus, tools, missed, aborted>>

(* VisualLayer::set_visible.  Clients do not show a layer again under the  *)
(* guard under which they hid it, if it has the geometry in focus.         *)
HiddenUnderGuard(l) == depth > 0 /\ ~visible[l] /\ output[l] # 0 /\ output[l] = rg
SetVisible(l) ==
  /\ index[l] # 0 /\ ~HiddenUnderGuard(l)
  /\ Start(<<Do("render", l)>>)
  /\ visible' = [visible EXCEPT ![l] = ~@]
  /\ UNCHANGED <<collection, active, children, free, index, contents, output, made, focus, tools, missed, aborted>>

(* create_child_rendered_layer, for a new visual layer: an index that was  *)
(* given back is used first.                                               *)
AddLayer(l) ==
  LET i == IF free # <<>> THEN Head(free) ELSE Len(children) + 1
  IN /\ index[l] = 0
     /\ Start(Emission)
     /\ children' = Append(children, i)
     /\ free' = IF free # <<>> THEN Tail(free) ELSE free
     /\ index' = [index EXCEPT ![l] = i]
     /\ visible' = [visible EXCEPT ![l] = TRUE]
     /\ Signal({"reconstruction"})
     /\ UNCHANGED <<active, contents, output, made, focus, tools, aborted>>

(* Mutant: the index stays in the list of the main layer. *)
StillListed(i) == children

(* destroy_child_rendered_layer, when a visual layer goes *)
Unlisted(i) == Only(children, DOMAIN contents \ {i})
RemoveLayer(l) ==
  /\ index[l] # 0
  /\ Start(Emission)
  /\ children' = Unlisted(index[l])
  /\ free' = <<index[l]>> \o free
  /\ contents' = [contents EXCEPT ![index[l]] = 0]
  /\ index' = [index EXCEPT ![l] = 0]
  /\ output' = [output EXCEPT ![l] = 0]
  /\ Signal({"reconstruction"})
  /\ UNCHANGED <<active, visible, made, focus, tools, aborted>>

(* FeatureFocus::set_focus on a geometry that is shown. *)
SetFocus(r) ==
  /\ ~(focused /\ rg = r)
  /\ Start(<<Do("focusChanged", None)>>)
  /\ focused' = TRUE /\ rg' = r
  /\ UNCHANGED <<collection, active, layers, tools, missed, aborted>>

(* FeatureFocus::set_focus on the property, shown or not. *)
SetFocusOnProperty ==
  /\ ~focused
  /\ Start(<<Do("focusChanged", None)>>)
  /\ focused' = TRUE /\ rg' = Found
  /\ UNCHANGED <<collection, active, layers, tools, missed, aborted>>

(* unset_focus, of a client or because the feature was deactivated. *)
UnsetFocus ==
  /\ Start(<<Do("focusChanged", None)>>)
  /\ focused' = FALSE /\ rg' = 0
  /\ UNCHANGED <<collection, active, layers, tools, missed, aborted>>

(* choose_canvas_tool, of another workflow. *)
ChooseTool(w) ==
  /\ w # workflow
  /\ Start(<<Do("deactivate", workflow), Do("disconnect", w), Do("activate", w), Do("connect", w)>>)
  /\ UNCHANGED <<collection, active, layers, focus, tools, missed, aborted>>

(* An export of what is seen: all main layers but one are made inactive,   *)
(* and what was active before is restored in the end.                      *)
Export ==
  /\ LET order == SetToSeq(Workflows)
     IN Start([i \in DOMAIN order |-> Do("deactivate", order[i])] \o <<Do("restore", active)>>)
  /\ UNCHANGED <<collection, active, layers, focus, tools, missed, aborted>>

-----------------------------------------------------------------------------
BeginGuard ==
  /\ Doing("beginGuard")
  /\ depth' = depth + 1
  /\ Continue(<<>>)
  /\ UNCHANGED <<queued, updated, active, layers, focus, tools, missed, aborted>>

(* end_update_collection *)
SendsAtEnd == depth = 1 /\ queued
EndGuard ==
  /\ Doing("endGuard")
  /\ depth' = depth - 1
  /\ Continue(IF SendsAtEnd THEN <<Do("emit", None)>> ELSE <<>>)
  /\ UNCHANGED <<queued, updated, active, layers, focus, tools, missed, aborted>>

(* send_update_signal: the listeners in the order in which they were       *)
(* connected, and what comes after them.                                   *)
Emit ==
  /\ Doing("emit") /\ Len(calls) <= MaxCalls
  /\ Continue(<<Do("updateFocus", None), Do("updateCanvas", updated), Do("sent", None)>>)
  /\ UNCHANGED <<collection, active, layers, focus, tools, missed, aborted>>

Sent ==
  /\ Doing("sent")
  /\ updated' = {} /\ queued' = FALSE
  /\ Continue(<<>>)
  /\ UNCHANGED <<depth, active, layers, focus, tools, missed, aborted>>

(* The canvases paint later. *)
UpdateCanvas ==
  /\ Doing("updateCanvas")
  /\ missed' = [repaint |-> FALSE, layers |-> missed.layers \ On]
  /\ Continue(<<>>)
  /\ UNCHANGED <<collection, active, layers, focus, tools, aborted>>

(* Mutant: every update is announced as a change of the focus. *)
AnyChange(r) == focused

(* handle_rendered_geometry_collection_update *)
FocusMoves(r) == focused /\ r # rg
UpdateFocus ==
  /\ Doing("updateFocus")
  /\ rg' = IF focused THEN Found ELSE rg
  /\ Continue(IF FocusMoves(Found) THEN <<Do("focusChanged", None)>> ELSE <<>>)
  /\ UNCHANGED <<collection, active, layers, focused, tools, missed, aborted>>

FocusChanged ==
  /\ Doing("focusChanged")
  /\ Continue(IF listener = None THEN <<>> ELSE <<Do("clear", listener), Do("pick", listener)>>)
  /\ UNCHANGED <<collection, active, layers, focus, tools, missed, aborted>>

(* clear_rendered_geometries, of the layer of a workflow or of the         *)
(* reconstruction layer itself, which is always empty.                     *)
Clear ==
  /\ Doing("clear")
  /\ highlight' = [w \in Workflows |-> IF w = On THEN {} ELSE highlight[w]]
  /\ Signal({On})
  /\ Continue(Emission)
  /\ UNCHANGED <<active, layers, focus, workflow, listener, aborted>>

(* draw_focused_geometry, after it has cleared the layer: geometries that  *)
(* are not the focus are drawn first.                                      *)
Pick ==
  LET others == SetToSeq(Shown \ {rg})
      marks == [i \in DOMAIN others |-> Do("add", [in |-> On, geometry |-> others[i], asFocus |-> FALSE])]
      mark == IF rg \in Shown THEN <<Do("add", [in |-> On, geometry |-> rg, asFocus |-> TRUE])>> ELSE <<>>
  IN /\ Doing("pick")
     /\ Continue(IF focused /\ rg # 0 THEN marks \o mark ELSE <<>>)
     /\ UNCHANGED <<collection, active, layers, focus, tools, missed, aborted>>

(* add_rendered_geometry *)
Add ==
  /\ Doing("add")
  /\ highlight' = [highlight EXCEPT ![On.in] = @ \cup {<<On.geometry, On.asFocus>>}]
  /\ Signal({On.in})
  /\ Continue(Emission)
  /\ UNCHANGED <<active, layers, focus, workflow, listener, aborted>>

(* VisualLayer::create_rendered_geometries: what it clears and adds is     *)
(* announced once, by a guard of its own.                                  *)
Render ==
  /\ Doing("render")
  /\ contents' = [contents EXCEPT ![index[On]] = IF visible[On] THEN output[On] ELSE 0]
  /\ Signal({"reconstruction"})
  /\ Continue(Emission)
  /\ UNCHANGED <<active, children, free, index, visible, output, made, focus, tools, aborted>>

(* set_main_layer_active; no layers are orthogonal, nobody says so. *)
SetActive ==
  /\ Doing("activate") \/ Doing("deactivate")
  /\ active' = IF Doing("activate") THEN active \cup {On} ELSE active \ {On}
  /\ IF active' = active
     THEN Continue(<<>>) /\ UNCHANGED <<collection, missed>>
     ELSE Continue(Emission) /\ Signal({On})
  /\ UNCHANGED <<layers, focus, tools, aborted>>

Disconnect ==
  /\ Doing("disconnect")
  /\ listener' = None /\ workflow' = On
  /\ Continue(<<>>)
  /\ UNCHANGED <<collection, active, layers, focus, highlight, missed, aborted>>

(* Mutant: a workflow that becomes active waits for the next change. *)
ConnectOnly ==
  /\ Doing("connect")
  /\ listener' = On /\ aborted' = FALSE
  /\ Continue(<<>>)
  /\ UNCHANGED <<collection, active, layers, focus, workflow, highlight, missed>>

(* The end of activate_workflow. *)
Connect ==
  /\ Doing("connect")
  /\ listener' = On /\ aborted' = FALSE
  /\ Continue(<<Do("clear", On), Do("pick", On)>>)
  /\ UNCHANGED <<collection, active, layers, focus, workflow, highlight, missed>>

(* restore_main_layer_active_state signals that none of the layers changed *)
(* (it compares after it assigned).                                        *)
Restore ==
  /\ Doing("restore")
  /\ active' = On
  /\ IF On = active
     THEN Continue(<<>>) /\ UNCHANGED <<collection, missed>>
     ELSE /\ Continue(Emission) /\ SignalOnly({})
          /\ missed' = [missed EXCEPT !.repaint = TRUE]
  /\ UNCHANGED <<layers, focus, tools, aborted>>

(* The export fails before. *)
Abort ==
  /\ Doing("restore")
  /\ aborted' = TRUE
  /\ Continue(<<>>)
  /\ UNCHANGED <<collection, active, layers, focus, tools, missed>>

Machine ==
  \/ BeginGuard \/ EndGuard \/ Emit \/ Sent \/ UpdateCanvas \/ UpdateFocus \/ FocusChanged
  \/ Clear \/ Pick \/ Add \/ Render \/ SetActive \/ Disconnect \/ Connect \/ Restore \/ Abort
Client ==
  \/ OpenGuard \/ CloseGuard \/ SetFocusOnProperty \/ UnsetFocus \/ Export
  \/ \E l \in VisualLayers : SetVisible(l) \/ AddLayer(l) \/ RemoveLayer(l)
  \/ \E new \in SUBSET {l \in VisualLayers : index[l] # 0} :
        \E gone \in SUBSET {l \in VisualLayers \ new : output[l] # 0} : Reconstruct(new, gone)
  \/ \E r \in Shown : SetFocus(r)
  \/ \E w \in Workflows : ChooseTool(w)
Next == Client \/ Machine

(* Calls run on until they return; clients call when they like. *)
Spec == Init /\ [][Next]_vars /\ WF_vars(Machine)
-----------------------------------------------------------------------------
MainLayers == {"reconstruction"} \cup Workflows

(* Guards, flags and layers keep their types; the main layer lists the     *)
(* indices of the visual layers that exist, each once, and none that can   *)
(* be given to another.                                                    *)
TypeOK ==
  /\ depth \in Nat /\ queued \in BOOLEAN /\ updated \subseteq MainLayers /\ active \subseteq MainLayers
  /\ ToSet(children) = {index[l] : l \in VisualLayers} \ {0} /\ IsInjective(children)
  /\ ToSet(free) \cap ToSet(children) = {} /\ IsInjective(free)
  /\ \A i \in ToSet(children) : i \in DOMAIN contents
  /\ focused \in BOOLEAN /\ rg \in 0..made
  /\ workflow \in Workflows /\ listener \in Workflows \cup {None}

(* No change is lost in the signals that are nested in one another: a main *)
(* layer that changed and that the canvases were not told of is in the     *)
(* flags that are sent next, or in an emission that is under way; and in   *)
(* the end they have been told to paint after every change.                *)
ChangesTold ==
  /\ missed.layers \subseteq updated \cup UNION {calls[i].on : i \in {j \in DOMAIN calls : calls[j].do = "updateCanvas"}}
  /\ missed.repaint => ~Idle \/ (depth > 0 /\ queued)

(* When all calls have returned and no guard is open, the focus is on the  *)
(* geometry that is shown, if one is, and the active workflow highlights   *)
(* that one and no other as the focus, in a layer that is seen (unless an  *)
(* export failed).                                                         *)
FocusHighlighted ==
  Idle /\ depth = 0 =>
    /\ rg = IF focused THEN Found ELSE 0
    /\ {r \in 1..made : <<r, TRUE>> \in highlight[workflow]} = {rg} \ {0}
    /\ aborted \/ active = {"reconstruction", workflow}

(* Signals cause signals, but every chain of calls comes to its end.       *)
CallsReturn == []<>Idle
=============================================================================
