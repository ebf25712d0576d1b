-------------------------- MODULE ReconstructGraph --------------------------
(***************************************************************************)
(* The reconstruct graph (app-logic/ReconstructGraph, ReconstructGraphImpl *)
(* and Layer): loaded files, layers, and the connections that feed files   *)
(* and outputs of layers to layers.                                        *)
(*                                                                         *)
(* A connection is owned by the layer that receives it and is listed by    *)
(* the data it comes from; it tells the task of its layer what to use, and *)
(* follows the activation of the layer it comes from.  Loading a file      *)
(* creates layers that can process it, and removing it destroys them.      *)
(* Signals are emitted all along, and their listeners may connect,         *)
(* disconnect and activate in turn: as in ModelTree the call stack is a    *)
(* variable, and a listener is running when "signal" is at its head.       *)
(*                                                                         *)
(* Layers have types.  Files go to the main channel of a layer; of the     *)
(* other channels there is one for every pair of types that connect.       *)
(***************************************************************************)
EXTENDS Integers, Sequences, FiniteSets, Subsequences

CONSTANTS
  Files,          \* input files
  Rotations,      \* layers that make reconstruction trees
  Reconstructs,   \* layers that reconstruct features
  Velocities,     \* layers that compute velocities on other layers
  Topologies,     \* layers that resolve topologies
  Rasters,        \* layers of rasters, which may feed one another
  Contents,       \* the sets of types that files may have features for
  NoFile,         \* not a file
  Duplicates,     \* whether a layer is connected twice to the same channel
  MaxOps,         \* bound: calls that clients start
  MaxDepth        \* bound: signals that are out at a time

Types == {"rotation", "reconstruct", "topology", "raster", "velocity"}
Layers == Rotations \cup Reconstructs \cup Velocities \cup Topologies \cup Rasters

ASSUME DataAssumption ==
  /\ Files \cap Layers = {} /\ NoFile \notin Files \cup Layers
  /\ UNION Contents \subseteq Types
  /\ Duplicates \in BOOLEAN /\ MaxOps \in Nat /\ MaxDepth \in Nat

VARIABLES
  files,      \* d_input_files
  layers,     \* d_layers, in order
  made,       \* the layers that exist or existed
  active,     \* d_active of each layer
  auto,       \* d_auto_created of each layer
  conn,       \* the connections: from where, to which layer, d_is_input_layer_active
  outputs,    \* d_output_connections of each file and layer, in order
  fileTask,   \* how often the task of a layer has each file
  layerTask,  \* the layers whose outputs the task of a layer uses
  defaults,   \* d_default_reconstruction_tree_layer_stack
  nested,     \* d_add_or_remove_layers_group_nested_count
  calls,      \* the call stack: what is still to do
  ops,        \* calls started so far
  open,       \* history: groups of additions and removals begun and not ended
  shown       \* history: the default layer listeners were told of last, in a set

graph == <<files, layers, made, active, auto, conn, outputs>>
tasks == <<fileTask, layerTask>>
vars == <<graph, tasks, defaults, nested, calls, ops, open, shown>>

Live == {layers[i] : i \in DOMAIN layers}
Data == Files \cup Layers

TypeOrder == <<"rotation", "reconstruct", "topology", "raster", "velocity">>
OfType(t) == CASE t = "rotation" -> Rotations [] t = "reconstruct" -> Reconstructs
               [] t = "topology" -> Topologies [] t = "raster" -> Rasters
               [] t = "velocity" -> Velocities
Fresh(t) == OfType(t) \ made

(* get_input_channel_types: the layers that l accepts, those connected to  *)
(* it automatically, and of these the ones that must share its file.       *)
Accepts(l, g) ==
  \/ l \in Reconstructs /\ g \in Rotations \cup Topologies
  \/ l \in Velocities /\ g \in Reconstructs \cup Topologies
  \/ l \in Rasters /\ g \in Reconstructs \cup Rasters
AutoGlobal(l, g) == l \in Velocities /\ g \in Topologies
AutoLocal(l, g) == l \in Velocities /\ g \in Reconstructs

Inputs(l) == {c \in DOMAIN conn : conn[c].to = l}
MainInputs(l) == {c \in Inputs(l) : conn[c].from \in Files}
MainFiles(l) == {conn[c].from : c \in MainInputs(l)}
Connected(g, l) == \E c \in Inputs(l) : conn[c].from = g

Do(what, x, y) == [do |-> what, on |-> x, with |-> y]
Signal == Do("signal", NoFile, NoFile)

Init ==
  /\ files = {} /\ layers = <<>> /\ made = {}
  /\ active = [l \in Layers |-> FALSE] /\ auto = [l \in Layers |-> FALSE]
  /\ conn = <<>> /\ outputs = [d \in Data |-> <<>>]
  /\ fileTask = [l \in Layers |-> [f \in Files |-> 0]]
  /\ layerTask = [l \in Layers |-> {}]
  /\ defaults = <<>> /\ nested = 0
  /\ calls = <<>> /\ ops = 0 /\ open = 0 /\ shown = {}

-----------------------------------------------------------------------------
(* Calls from outside and from listeners.  Listeners of the program add    *)
(* and remove no files and layers, make no layer the default that is being *)
(* removed, leave a connection alone whose removal is announced, and do    *)
(* not change which files are connected where while a file is removed.     *)

Outside == calls = <<>>
SignalsOut == {i \in DOMAIN calls : calls[i].do = "signal"}
Start(entries) ==
  /\ calls # <<>> => Head(calls).do = "signal"
  /\ Cardinality(SignalsOut) <= MaxDepth
  /\ ops < MaxOps /\ ops' = ops + 1
  /\ calls' = entries \o calls
  /\ UNCHANGED <<graph, tasks, defaults, nested, open, shown>>

Leaving == {calls[i].on : i \in {j \in DOMAIN calls : calls[j].do = "destroy"}}
Dropping == {calls[i].on : i \in {j \in DOMAIN calls : calls[j].do = "drop"}}
Cutting == {calls[i].on : i \in {j \in DOMAIN calls : calls[j].do = "cut"}}

Group(entries) == <<Do("begin", NoFile, NoFile)>> \o entries \o <<Do("end", NoFile, NoFile)>>
Creations(how, content, f) ==
  LET types == Only(TypeOrder, content)
  IN [i \in DOMAIN types |-> Do(how, types[i], f)]
CanCreate(content) == \A t \in content : Fresh(t) # {}
CanCreateBoth(content, other) ==
  /\ CanCreate(content) /\ CanCreate(other)
  /\ \A t \in content \cap other : Cardinality(Fresh(t)) > 1
AutoConnect == <<Do("connectAll", NoFile, NoFile)>>

(* add_file; add_files makes a group of it all, and enters every file      *)
(* before it creates any layers.                                           *)
AddFile(f, content) ==
  /\ Outside /\ f \notin files /\ CanCreate(content)
  /\ Start(<<Do("enter", f, NoFile)>> \o Creations("create", content, f) \o AutoConnect)
AddFiles(f, g, content, other) ==
  /\ Outside /\ f # g /\ {f, g} \cap files = {}
  /\ CanCreateBoth(content, other)
  /\ Start(<<Do("enter", f, NoFile), Do("enter", g, NoFile)>>
          \o Group(Creations("create", content, f) \o Creations("create", other, g) \o AutoConnect))

(* Mutant: the layer must have no other inputs at all. *)
FedAlone(l, f) == {conn[c].from : c \in Inputs(l)} = {f}

(* auto_destroy_layers_for_input_file_about_to_be_removed goes through the *)
(* connections of the file; remove_file then disconnects what is left.     *)
FedOnlyBy(l, f) == Cardinality(MainInputs(l)) = 1 /\ MainFiles(l) = {f}
RemoveFile(f) ==
  LET alone == {c \in DOMAIN conn : auto[conn[c].to] /\ FedOnlyBy(conn[c].to, f)}
      doomed == Only(outputs[f], alone)
  IN /\ Outside /\ f \in files
     /\ Start([i \in DOMAIN doomed |-> Do("remove", conn[doomed[i]].to, NoFile)]
              \o <<Do("drop", f, NoFile)>>)

(* modified_input_file creates layers for types that do not process f yet. *)
ModifyFile(f, content) ==
  LET present == {t \in content : \E l \in OfType(t) : f \in MainFiles(l)}
      missing == content \ present
  IN /\ Outside /\ f \in files /\ missing # {} /\ CanCreate(missing)
     /\ Start(Creations("createQuietly", missing, f) \o AutoConnect)

AddLayer(t) ==
  /\ Outside /\ Fresh(t) # {}
  /\ Start(<<Do("create", t, NoFile)>>)

(* remove_layer; a group of removals is a loop inside a client's group. *)
RemoveLayers(ls) ==
  /\ Outside
  /\ Start(IF Len(ls) = 1 THEN <<Do("remove", ls[1], NoFile)>>
           ELSE Group([i \in DOMAIN ls |-> Do("remove", ls[i], NoFile)]))

Activate(l, on) == Start(<<Do("activate", l, on)>>)

SetDefault(l) ==
  /\ l \in Rotations \ Leaving
  /\ Start(<<Do("default", l, NoFile)>>)

ConnectFile(f, l) ==
  /\ l \notin Velocities /\ f \in files \ Dropping
  /\ Start(<<Do("link", l, f)>>)

ConnectLayer(g, l) ==
  /\ Accepts(l, g)
  /\ Connected(g, l) => Duplicates
  /\ Start(<<Do("link", l, g)>>)

(* InputConnection::disconnect, of one or of all files of a layer          *)
(* (disconnect_channel_inputs).                                            *)
Disconnect(c) ==
  /\ c \notin Cutting
  /\ conn[c].from \in Files => Dropping = {}
  /\ Start(<<Signal, Do("cut", c, NoFile)>>)

-----------------------------------------------------------------------------
Doing(what) == calls # <<>> /\ Head(calls).do = what
On == Head(calls).on
With == Head(calls).with
Continue(entries) == calls' = entries \o Tail(calls) /\ ops' = ops

Return ==
  /\ Doing("signal")
  /\ Continue(<<>>)
  /\ UNCHANGED <<graph, tasks, defaults, nested, open, shown>>

(* add_file_internal *)
Enter ==
  /\ Doing("enter")
  /\ files' = files \cup {On}
  /\ Continue(<<>>)
  /\ UNCHANGED <<layers, made, active, auto, conn, outputs, tasks, defaults, nested, open, shown>>

(* emit_begin_add_or_remove_layers: listeners are told of the outermost    *)
(* group before it counts.                                                 *)
Begin ==
  /\ Doing("begin")
  /\ Continue((IF nested = 0 THEN <<Signal>> ELSE <<>>) \o <<Do("count", NoFile, NoFile)>>)
  /\ UNCHANGED <<graph, tasks, defaults, nested, open, shown>>

Count ==
  /\ Doing("count")
  /\ nested' = nested + 1
  /\ open' = IF nested = 0 THEN open + 1 ELSE open
  /\ Continue(<<>>)
  /\ UNCHANGED <<graph, tasks, defaults, shown>>

(* Mutant: the end is told before the count goes down. *)
EndTold == nested = 0

(* emit_end_add_or_remove_layers *)
Ended == nested = 1
End ==
  /\ Doing("end")
  /\ nested' = nested - 1
  /\ open' = IF Ended THEN open - 1 ELSE open
  /\ Continue(IF Ended THEN <<Signal>> ELSE <<>>)
  /\ UNCHANGED <<graph, tasks, defaults, shown>>

(* add_layer, and what auto_create_layer does after it: the layer becomes *)
(* the default only if it was created because its file was loaded.         *)
Create ==
  /\ Doing("create") \/ Doing("createQuietly")
  /\ \E l \in Fresh(On) :
       Continue(Group(<<Do("make", l, NoFile)>>)
                \o (IF With = NoFile THEN <<>> ELSE <<Do("adopt", l, With)>>)
                \o (IF l \in Rotations /\ With # NoFile /\ Doing("create")
                    THEN <<Do("default", l, NoFile)>> ELSE <<>>))
  /\ UNCHANGED <<graph, tasks, defaults, nested, open, shown>>

Make ==
  /\ Doing("make")
  /\ layers' = Append(layers, On)
  /\ made' = made \cup {On}
  /\ active' = [active EXCEPT ![On] = TRUE]
  /\ Continue(<<Signal>>)
  /\ UNCHANGED <<files, auto, conn, outputs, tasks, defaults, nested, open, shown>>

Adopt ==
  /\ Doing("adopt")
  /\ auto' = [auto EXCEPT ![On] = TRUE]
  /\ Continue(<<Do("link", On, With)>>)
  /\ UNCHANGED <<files, layers, made, active, conn, outputs, tasks, defaults, nested, open, shown>>

(* auto_connect_layers goes through all pairs of layers. *)
ConnectAll ==
  /\ Doing("connectAll")
  /\ LET n == Len(layers)
         pair(i) == Do("autoLink", layers[((i - 1) \div n) + 1], layers[((i - 1) % n) + 1])
         pairs == [i \in 1..(n * n) |-> pair(i)]
         wanted == {p \in {Do("autoLink", l, g) : l, g \in Live} :
                      AutoGlobal(p.on, p.with) \/ AutoLocal(p.on, p.with)}
     IN Continue(Only(pairs, wanted))
  /\ UNCHANGED <<graph, tasks, defaults, nested, open, shown>>

ShareFile(l, g) ==
  /\ Cardinality(MainInputs(l)) = 1 /\ Cardinality(MainInputs(g)) = 1
  /\ MainFiles(l) = MainFiles(g)
AutoLink ==
  /\ Doing("autoLink")
  /\ Continue(IF /\ AutoLocal(On, With) => ShareFile(On, With)
                 /\ ~Connected(With, On)
              THEN <<Do("link", On, With)>> ELSE <<>>)
  /\ UNCHANGED <<graph, tasks, defaults, nested, open, shown>>

NewConn == CHOOSE c \in 1..(Cardinality(DOMAIN conn) + 1) : c \notin DOMAIN conn
SourceActive(d) == d \in Files \/ active[d]

(* Mutant: the task hears of the layer whether it is active or not. *)
WithInput(l, d) == IF d \in Layers THEN layerTask[l] \cup {d} ELSE layerTask[l]

(* connect_input_to_file, connect_input_to_layer_output: the constructor   *)
(* of the connection tells the task, of a layer only if that is active.    *)
WithSource(l, d) == IF d \in Layers /\ active[d] THEN layerTask[l] \cup {d} ELSE layerTask[l]
Link ==
  /\ Doing("link")
  /\ conn' = [c \in DOMAIN conn \cup {NewConn} |->
                IF c = NewConn THEN [from |-> With, to |-> On, on |-> SourceActive(With)] ELSE conn[c]]
  /\ outputs' = [outputs EXCEPT ![With] = Append(@, NewConn)]
  /\ fileTask' = IF With \in Files THEN [fileTask EXCEPT ![On][With] = @ + 1] ELSE fileTask
  /\ layerTask' = [layerTask EXCEPT ![On] = WithSource(On, With)]
  /\ Continue(<<Signal>>)
  /\ UNCHANGED <<files, layers, made, active, auto, defaults, nested, open, shown>>

(* Mutant: only the outputs of files are found. *)
UnlistedByFiles(d, gone) ==
  IF d \in Files THEN Only(outputs[d], DOMAIN conn \ gone) ELSE outputs[d]

(* remove_output_connection *)
Unlisted(d, gone) == Only(outputs[d], DOMAIN conn \ gone)

(* Mutant: the list is walked while the connections erase themselves from  *)
(* it, so that every other one is passed over.                             *)
TraversedInPlace(d) == {outputs[d][i] : i \in {j \in DOMAIN outputs[d] : j % 2 = 1}}

(* The connections that disconnect_output_connections goes through: it     *)
(* copies the list, which each of them leaves when it is destroyed.        *)
CopiedOutputs(d) == {outputs[d][i] : i \in DOMAIN outputs[d]}

(* Connections are destroyed: each tells the task of the layer it goes to, *)
(* unless that is being destroyed itself, and leaves the list of outputs.  *)
(* Tasks keep files in a list but layers in a map, without counting.       *)
Cut(gone) ==
  LET heard(l) == {c \in gone : conn[c].to = l}
  IN /\ conn' = [c \in DOMAIN conn \ gone |-> conn[c]]
     /\ outputs' = [d \in Data |-> Unlisted(d, gone)]
     /\ fileTask' = [l \in Layers |-> [f \in Files |->
          fileTask[l][f] - Cardinality({c \in heard(l) : conn[c].from = f})]]
     /\ layerTask' = [l \in Layers |->
          layerTask[l] \ {conn[c].from : c \in {k \in heard(l) : conn[k].on}}]

Disconnected ==
  /\ Doing("cut")
  /\ Cut({On})
  /\ Continue(<<Signal>>)
  /\ UNCHANGED <<files, layers, made, active, auto, defaults, nested, open, shown>>

(* remove_file: what the file still feeds is disconnected, without signals *)
(* (Data::disconnect_output_connections).                                  *)
Drop ==
  /\ Doing("drop")
  /\ Cut(CopiedOutputs(On))
  /\ files' = files \ {On}
  /\ Continue(<<>>)
  /\ UNCHANGED <<layers, made, active, auto, defaults, nested, open, shown>>

(* Mutants: the connections are not told; the task is not told. *)
FlagsKept(l, on) == conn
TaskKept(k, l, on) == layerTask[k]

(* Layer::activate: the connections from the layer follow, and tell the    *)
(* tasks that they make use of it or no longer do.                         *)
FlagsFollow(l, on) == [c \in DOMAIN conn |-> IF conn[c].from = l THEN [conn[c] EXCEPT !.on = on] ELSE conn[c]]
TaskFollows(k, l, on) ==
  IF ~Connected(l, k) THEN layerTask[k]
  ELSE IF on THEN layerTask[k] \cup {l} ELSE layerTask[k] \ {l}
Activated ==
  /\ Doing("activate")
  /\ IF active[On] = With
     THEN Continue(<<>>) /\ UNCHANGED <<active, conn, layerTask>>
     ELSE /\ active' = [active EXCEPT ![On] = With]
          /\ conn' = FlagsFollow(On, With)
          /\ layerTask' = [k \in Layers |-> TaskFollows(k, On, With)]
          /\ Continue(<<Signal>>)
  /\ UNCHANGED <<files, layers, made, auto, outputs, fileTask, defaults, nested, open, shown>>

Top(stack) == IF stack = <<>> THEN {} ELSE {stack[Len(stack)]}

(* set_default_reconstruction_tree_layer *)
Default ==
  /\ Doing("default")
  /\ IF Top(defaults) = {On}
     THEN Continue(<<>>) /\ UNCHANGED <<defaults, shown>>
     ELSE /\ defaults' = Append(defaults, On)
          /\ shown' = {On}
          /\ Continue(<<Signal>>)
  /\ UNCHANGED <<graph, tasks, nested, open>>

(* remove_layer, in the order of the code. *)
Remove ==
  /\ Doing("remove")
  /\ Continue(Group(<<Do("forget", On, NoFile), Do("activate", On, FALSE),
                      Signal, Do("destroy", On, NoFile)>>))
  /\ UNCHANGED <<graph, tasks, defaults, nested, open, shown>>

(* Mutant: only the top of the stack is removed. *)
Popped(l) == IF Top(defaults) = {l} THEN SubSeq(defaults, 1, Len(defaults) - 1) ELSE defaults

(* handle_default_reconstruction_tree_layer_removal *)
Forgotten(l) == Only(defaults, Layers \ {l})
Forget ==
  /\ Doing("forget")
  /\ defaults' = Forgotten(On)
  /\ IF Top(defaults) = {On}
     THEN shown' = Top(defaults') /\ Continue(<<Signal>>)
     ELSE Continue(<<>>) /\ UNCHANGED shown
  /\ UNCHANGED <<graph, tasks, nested, open>>

(* The last reference to the layer goes: its destructor disconnects its    *)
(* outputs, then its inputs are destroyed, then layer_removed is emitted.  *)
Incident(l) == Inputs(l) \cup CopiedOutputs(l)
Destroy ==
  /\ Doing("destroy")
  /\ Cut(Incident(On))
  /\ layers' = Only(layers, Live \ {On})
  /\ active' = [active EXCEPT ![On] = FALSE]
  /\ auto' = [auto EXCEPT ![On] = FALSE]
  /\ Continue(<<Signal>>)
  /\ UNCHANGED <<files, made, defaults, nested, open, shown>>

Next ==
  \/ \E f \in Files, content \in Contents :
       ModifyFile(f, content) \/ AddFile(f, content)
  \/ \E f, g \in Files, content, other \in Contents : AddFiles(f, g, content, other)
  \/ \E f \in Files : RemoveFile(f) \/ \E l \in Live : ConnectFile(f, l)
  \/ \E t \in UNION Contents : AddLayer(t)
  \/ \E k, l \in Live : RemoveLayers(IF k = l THEN <<k>> ELSE <<k, l>>)
  \/ \E l \in Live : SetDefault(l) \/ \E on \in BOOLEAN : Activate(l, on)
  \/ \E g, l \in Live : ConnectLayer(g, l)
  \/ \E c \in DOMAIN conn : Disconnect(c)
  \/ Return \/ Enter \/ Begin \/ Count \/ End \/ Create \/ Make \/ Adopt
  \/ ConnectAll \/ AutoLink \/ Link \/ Disconnected \/ Drop \/ Activated \/ Default \/ Remove \/ Forget \/ Destroy

Spec == Init /\ [][Next]_vars
-----------------------------------------------------------------------------
Entries ==
  [do : {"create", "createQuietly"}, on : Types,
   with : Files \cup {NoFile}]
  \cup [do : {"signal", "begin", "count", "end", "connectAll", "remove", "make", "adopt",
             "link", "autoLink", "default", "forget", "destroy", "drop", "enter"},
         on : Data \cup {NoFile}, with : Data \cup {NoFile}]
  \cup [do : {"activate"}, on : Layers, with : BOOLEAN]
  \cup [do : {"cut"}, on : Nat, with : {NoFile}]

(* The graph, the tasks and the call stack keep their types. *)
TypeOK ==
  /\ files \subseteq Files
  /\ layers \in Seq(made) /\ Cardinality(Live) = Len(layers) /\ made \subseteq Layers
  /\ active \in [Layers -> BOOLEAN] /\ auto \in [Layers -> BOOLEAN]
  /\ \A c \in DOMAIN conn : conn[c] \in [from : files \cup Live, to : Live, on : BOOLEAN]
  /\ outputs \in [Data -> Seq(DOMAIN conn)]
  /\ fileTask \in [Layers -> [Files -> Nat]] /\ layerTask \in [Layers -> SUBSET Live]
  /\ defaults \in Seq(Rotations) /\ nested \in Nat
  /\ calls \in Seq(Entries)

(* Every connection is listed once by the file or layer that it comes from *)
(* and by no other, although both ends destroy connections, at once where  *)
(* a layer feeds itself.                                                   *)
OutputsMatchConnections ==
  \A d \in Data :
    /\ {outputs[d][i] : i \in DOMAIN outputs[d]} = {c \in DOMAIN conn : conn[c].from = d}
    /\ Len(outputs[d]) = Cardinality({c \in DOMAIN conn : conn[c].from = d})

(* The assertions of the code hold where they are reached: a connection is *)
(* told of an activation that it does not know yet; a layer to be removed, *)
(* with its file or in a group, still exists, as does a connection to be   *)
(* cut.                                                                    *)
AssertionsHold ==
  /\ Doing("activate") /\ active[On] # With =>
       \A i \in DOMAIN outputs[On] : conn[outputs[On][i]].on # With
  /\ Doing("remove") => On \in Live
  /\ Doing("cut") => On \in DOMAIN conn

(* At every moment the task of a layer has each file as often as it is     *)
(* connected, and the layers connected to it that are active, no others.   *)
TasksKnowInputs ==
  \A l \in Layers :
    /\ \A f \in Files : fileTask[l][f] = Cardinality({c \in Inputs(l) : conn[c].from = f})
    /\ layerTask[l] = {g \in Live : active[g] /\ Connected(g, l)}

(* Only layers that exist are on the stack of default layers, whatever     *)
(* listeners do when a layer on it is removed, and listeners know the      *)
(* layer on top of it.                                                     *)
DefaultsExist ==
  /\ \A i \in DOMAIN defaults : defaults[i] \in Live
  /\ shown = Top(defaults)

(* Layers are added and removed inside one group that listeners know of;   *)
(* when all calls have returned no group is left open.                     *)
GroupsNest ==
  /\ open = IF nested > 0 THEN 1 ELSE 0
  /\ Doing("make") \/ Doing("destroy") => open = 1
  /\ Outside => open = 0

(* A layer created for a file goes with it, unless the file is not the     *)
(* only input of its main channel when the file is disconnected.           *)
AutoLayersGoWithFile ==
  [][\A f \in files \ files' : \A l \in Live :
       auto[l] /\ f \in MainFiles(l) => Cardinality(MainInputs(l)) > 1]_vars

Abstract == INSTANCE LayerGraph WITH
  present <- files \cup Live,
  on <- {l \in Live : active[l]},
  feeds <- {<<c, conn[c].from, conn[c].to>> : c \in DOMAIN conn},
  uses <- [l \in Layers |-> {f \in Files : fileTask[l][f] > 0} \cup layerTask[l]]

(* Files, layers, connections and tasks implement a graph whose layers use *)
(* the inputs that are active.                                             *)
ImplementsLayerGraph == Abstract!Spec
=============================================================================
