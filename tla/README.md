# A verification project for GPlates

GPlates is a desktop application for plate tectonics (C++/Qt, here with a WebAssembly
port).  This directory holds TLA+ modules of its stateful core, the TLC configurations
that check them, and TLAPS proofs.  Paths below are relative to the repository's `src/`.

## 1. Inventory

### The program in one paragraph

Data files are feature collections.  Each is loaded into the *model*, a tree of handles
(feature store root, feature collections, features, top-level properties).  Handles tell
*weak references* about what happens to them through callbacks, unless a *notification
guard* holds the events back.  The *file state* listens to the feature collections and
keeps the list of loaded files.  The *reconstruct graph* turns files into the inputs of
*layers* that feed each other, and the *application state* runs the graph again whenever a
file, a layer, a feature or the reconstruction time changes.  The GUI sits on top:
animation moves the time, commands go on undo stacks, caches keep what was computed.

Everything runs in one thread.  (The code with a second thread, embedded Python, and the
exchange of times with another process are commented out of the build by this port, in
`api/CMakeLists.txt` and `gui/CMakeLists.txt`.)  What makes the program hard is
*reentrancy*: nearly every change calls back, through weak references or through Qt signals
delivered directly, and a callback may start another change before the first has finished.
An operation therefore has a beginning, a middle and an end, and other operations run whole
in its middle.  All detailed modules have the call stack, or the part of it that matters, as
a variable.

### Components

| component | state | operations | interacts with | hard part | what makes it correct |
| --- | --- | --- | --- | --- | --- |
| weak observers (`model/WeakObserver.h`, `WeakObserverPublisher.h`) | one intrusive doubly linked list per publisher, for const and for non-const observers | subscribe, assign, unsubscribe, traverse with callbacks, destroy the publisher | every model handle is a publisher, every weak reference an observer | callbacks change the list being walked; the destructor clears the link it follows | a list is a queue; nobody dangles; a traversal reaches everybody once |
| model handles (`model/BasicHandle.h`, `BasicRevision.h`, `FeatureCollectionHandle`) | children in slots, parent pointer and index, activity, unsaved flag, pending news | add, remove, modify, clear the unsaved flag, destroy | tells weak references; a removal deactivates the subtree | events are told in the middle of changes; removed handles keep their place | the remembered slot is right for whoever can be reached; the flag covers every change |
| notification guard (`model/NotificationGuard`, `model/Model.cc`) | a count in the model | acquire, release, flush the tree | the handles ask whether to tell or to note | listeners take guards and change the tree during the flush | nothing held back is lost or told twice |
| file state (`app-logic/FeatureCollectionFileState`) | slots, released handles, file indices in load order, the number of loaded files | add files, unload on deactivation, load on reactivation, forget on destruction | weak-reference callbacks in, four signals out | indices of unloaded files; reused handles; callbacks that come late or not at all | loaded files are numbered without gaps in load order at any moment; listeners know them |
| reconstruct graph and layers (`app-logic/ReconstructGraph*`, `Layer`) | layers, inputs, connections, the default rotation layer stack | create and remove layers, connect, activate, follow the files | file state and application state | connections destroyed while their list is walked; layers made and destroyed automatically | a connection follows the activation of its input; no removed layer is on the stack |
| application state (`app-logic/ApplicationState`) | flags and the count of scoped guards | reconstruct, delay, request | everything that changes asks for a reconstruction | nested guards; changes during a reconstruction | no request lost, none nested |
| object caches (`utils/ObjectCache.h`) | the objects in use and those that may be recycled, the volatile objects that find them | get, recycle, set, return | shared pointers return objects, and call their clients back before | objects are stolen; returning one may return others | a recycled object has one holder, and who lost it knows |
| raster tiles (`opengl/GLMultiResolution*Raster`) | a volatile texture and an observer token for each tile | get a texture with a handle that keeps it | clients of three object caches | textures lost or out of date | a client gets the right texture and keeps it |
| value caches (`utils/KeyValueCache.h`) | a least-recently-used list and a map | get | callers' callbacks create values | a callback that throws | the map and the list agree |
| rendered geometry (`view-operations/RenderedGeometryCollection`) | main layers and what is active, child layers, a depth of guards, a queued update | draw, activate, guard, update | visual layers and tools draw, canvases and the focus listen | the flags are reset after the signal, in which listeners draw | an update is never lost |
| animation (`gui/AnimationController`) | times, increment, playing | play, step, seek, set bounds | application state | loops, bounds within a tolerance | the time stays within its bounds |
| undo stacks (`view-operations/UndoRedo`) | stacks, command identifiers, the active stack | create, activate, push, merge | canvas tools | identifiers are reused | commands merge only with their own |
| changesets (`model/ChangesetHandle`) | which handles were modified | begin, end | model handles | nesting | a revision is copied once |
| focused feature (`gui/FeatureFocus`, `GeometryFocusHighlight`) | one feature and its geometry; what a workflow highlights | set, unset, follow the model, find the geometry again | listener of model and view; the highlight draws into what it listens to | finds itself again inside its own update | the highlight is of the geometry in focus |
| unsaved changes (`gui/UnsavedChangesTracker`) | none of its own | ask before closing | file state, model | flags set late | no change is lost on exit |
| file input and output (`app-logic/FeatureCollectionFileIO`, `file-io/`) | files on disk | load, reload, save | file state, model | one file of several fails | what was loaded before stays |
| sessions (`presentation/*Session*`, `scribe/`) | transcriptions | save, restore | all of the above | cyclic object graphs | what is saved can be loaded |
| visual layers (`presentation/VisualLayers`) | the drawing order of the layers | follow the graph, reorder | reconstruct graph | indices shift | every layer is shown once |
| geometry builder (`view-operations/GeometryBuilder`) | point sequences | insert, move, remove, undo | canvas tools | undo of composite edits | undo restores the points |
| reconstruction and topology (`app-logic/Reconstruct*`, `Topology*`) | trees of rotations | compute | layers | floating point | numerical |
| mathematics (`maths/`) | values | compute | everything | floating point | numerical |
| property values and visitors (`property-values/`, `model/FeatureVisitor`) | data | copy, visit | model handles | none | none of their own |
| OpenGL, widgets, canvas tools | GPU resources, windows | draw, handle input | everything | the Qt event loop | by use |
| data mining, command line | data | batch computations | the application logic | none | numerical |
| tests, deprecated code, vendored libraries | not part of the running program | | | | |
| external synchronisation, embedded Python | pipes, a second thread | not built by this port | | | |

`PROJECT.json` repeats this list with a status and a reason for each part that is not
modelled, and lists the hazards line by line with the properties that cover them.

## 2. Plan

The order follows the data: who is told of a change, what a change is, which files there
are, what is computed from them and when, and who shows it.

| no. | module | abstract specification | proofs | state |
| --- | --- | --- | --- | --- |
| 1 | `WeakObserver` | `ObserverQueue` | `WeakObserverProofs`: types, every invariant, `VisitedOnce`, the refinement of `ObserverQueue` | proved |
| 2 | `ModelTree` | none; histories say what must be told | `ModelTreeProofs`: types and every invariant | proved |
| 3 | `FileState` | `LoadOrder` | `FileStateProofs`: types, every invariant, the refinement of `LoadOrder` | proved |
| 4 | `ReconstructGraph`: files, layers, connections, tasks, automatic layers, default layers | `LayerGraph` | `ReconstructGraphProofs`: types, every invariant, the refinement of `LayerGraph` | proved |
| 5 | `ApplicationState`: when it reconstructs, with the guard of the model | none; `due` says what must be answered | `ApplicationStateProofs`: types and every invariant | proved; liveness checked |
| 6 | `ObjectCache` and its clients `TileTextures` | `VolatileCache` | `TileTexturesProofs`: types, every invariant, the refinement of `VolatileCache` | proved |
| 7 | `RenderedGeometry`: collection, visual layers, focus, workflows | none; `missed` says what must be told | `RenderedGeometryProofs`: types and every invariant | proved; liveness checked |
| 8 | `UndoRedo` | a set of stacks | commands merge only with their own | not begun |

*Composition.*  `FileState` takes from `ModelTree` only what its callbacks are told
(deactivation unless guarded, reactivation, destruction always), so the two are composed by
that interface and not as one state space; `ModelTree` takes from `WeakObserver` that a
notification is one callback.  `ApplicationState` composes the scheduling of
reconstructions with the notification guard of the model, the calls of the file state and
those of the graph, each reduced to the order of its calls and signals.  `TileTextures` is
built on the operations of `ObjectCache`, for three caches at once, and `RenderedGeometry`
composes the collection with those who draw into it and listen to it.

*Runs and bounds.*  One passing run per group of modules with all its properties, and one
run for each statement of the documentation that the code contradicts.  The bounds are the
fewest of each kind with which the case in question happens (section 4).

*Theorems.*  The invariants above for every value of the constants, and the refinements.
What the proofs need of sequences (their elements, what comes before what, how many entries
are of a kind, what `Only` keeps) is in `SequenceLemmas`, shared by all of them;
`Subsequences` defines `Only`, the elements of a sequence that are in a set, in a form the
provers can reason about (`SelectSeq` takes an operator).

Modules that will be proved about use no RECURSIVE operator (recursive functions are fine),
have one action per operation, and split their invariants into named conjuncts.

## 3. The modules and the code

### WeakObserver and ObserverQueue

`links` are the pointers themselves: `d_publisher_ptr`, `d_prev_link_ptr` and
`d_next_link_ptr` of each observer, `d_first` and `d_last` of each publisher.  The
operators `Unlinked`, `Appended` and `AppendedBeside` are the pointer writes of
`remove_from_subscriber_list_of_publisher`, `subscribe_to_publisher` and
`subscribe_to_same_publisher_as_other_observer`.  Subscribing, assigning and unsubscribing
are one action each: nothing is called back in the middle of them.  Publishers and
observers not at stake are not written.

Two operations last longer.  A traversal (`apply_weak_observer_visitor`) is a frame on the
stack `frames`: `BeginVisit` calls the first observer back, `AdvanceVisit` reads the next
link *after* the callback, as line 268 does, and calls the next one.  Between two steps any
operation may happen, further traversals of the same list included.  The destructor of a
publisher is `BeginDestroy`, one `DestroyStep` per observer, and `EndDestroy`; it reads the
next link *before* it unsubscribes.  `since` and `clock` are history: the time of the
present subscription, by which the properties say in which order a list must be.  The
fields `must`, `done` and `cut` of a frame are history as well.

`ObserverQueue` is what the list stands for: a queue per publisher, an observer in at most
one.  The refinement reads the queue off by walking the links (`Walk`).

### ModelTree

`slots`, `parent`, `index`, `live`, `active`, `wasActive`, `pendMod`, `pendAdd`, `unsaved`
and `guard` are the members named in the comments of the declarations.  `agenda` is the call
stack as a sequence of what is still to do; an operation puts its steps on it, and each step
replaces itself by the steps it calls.  A `callback` at the head is a listener that is
running and a `scope` is client code that holds a guard; there, and when the agenda is
empty, the client may start any operation.  So the order of the calls in the code is the
order of the entries: `Remove` is "deactivate, vacate, tell of the modification", and a
listener told of the deactivation still finds the child in its slot.

The flush is written as the code does it: children before the handle, modifications before
additions before deactivations, flags cleared after the listeners return, and the count held
at one throughout (`Model.cc:101`), so that news made by listeners during the flush is noted
again and told by a later flush, or never.  That last case is not hidden: `owed`, the
history of what must be told, contains what client code did under its own guard, not what a
listener did during a flush (the hazard at `BasicHandle.h:1094` records this).

Top-level properties are not handles of the tree here, since `BasicHandle.cc` specialises
away all they would do; changing them is `Modify` of the feature.

### FileState and LoadOrder

`slots`, `free`, `indices` and `num` are `d_file_slots`, `d_free_file_handles`,
`d_file_indices` and `d_num_currently_loaded_files`.  A slot refers to its entry by
position (`pos` is `d_index_into_file_index_array`, counted from one).  `where` is the feature
collection of each file: never loaded, in the model, taken out of it, or destroyed.  `calls` is the
call stack with the same conventions as `agenda`: callbacks of the model
(`deactivated`, `reactivated`, `destroying`), the parts of them that run after a signal
(`unload`, `erase`), a running `add_files`, and signals whose listeners are running.

`RemoveFile` has two choices that are not the class's own: whether the deactivation is
`heard` (it is not, under a notification guard: that is a result of ModelTree), and whether
somebody keeps the feature collection alive (by an intrusive pointer, as an undo command
would).  `Forsake` and `Undo` are the two ends of the second.

`known` is a listener that keeps file references by the signals, `mirror` one that keeps a
sequence by file index as the header tells it to; `disturbed` says that the second met
something the header's advice does not cover.

`LoadOrder` is the promise: an ordered list of files from which files are hidden, shown
again and forgotten, with new files at the end.

### ReconstructGraph and LayerGraph

`files`, `layers`, `active`, `auto`, `defaults` and `nested` are `d_input_files`, `d_layers`,
`d_active` and `d_auto_created` of each layer, the stack of default layers and the count of
groups.  A connection (`conn`) is owned by the layer that it goes to and listed by the file or
layer that it comes from (`outputs`); it knows whether its source is active (`on`).  Destroying
connections is one operator, `Cut`, since a connection tells its task and leaves its list in
its destructor; which connections of a file or layer are cut is `CopiedOutputs`, what the code
finds in the copy that it walks.  `fileTask` and `layerTask` are what the tasks of the layers
were told: files are in a list, layers in a map without counts.

Everything that emits a signal is a sequence of entries on the call stack: `remove_layer` is
a group of "forget the default, deactivate, announce, destroy", and a listener that runs at
"signal" may connect, disconnect, activate and set defaults.  A group is told to listeners
before it is counted (`Begin`, `Count`).  The types of layers and what they accept are those
of the layer tasks, reduced to five: rotations, reconstructions, topologies, rasters (which may
feed each other) and velocities (which are connected automatically).

`LayerGraph` is the promise: files and layers come and go with the connections at both ends,
and a task uses its files and its active input layers, at every moment.

### ApplicationState

`nesting`, `onExit` and `reconstructing` are the count of scoped guards and the two flags;
`guards` and `pending` are what matters of the model.  `unheard`, `outdated` and `sections` are
what layers and the cached topological sections may have missed; `due` is a history of the
changes since the last reconstruction began.  Entries of `calls` are calls to be made, in
order, and four kinds of client code: the scope of a guard, of either sort, and listeners.
What a reconstruction finds on its way is not determined: it may modify the model by
visiting features (`Touch`), find a layer of scalar coverages out of date (`Poll`, which
reconstructs again from inside) and ask for the sections (`GetSections`).  When the last guard
goes, layers hear of the collections that changed under it and may hear of others that were
only touched (`Release`).

### ObjectCache, TileTextures and VolatileCache

`info` is the object that a volatile object remembers (`d_object_info_iter`), `owner` the
volatile object that an object remembers; `unused` is the list of each cache from which the
first is recycled; `refs` counts the shared pointers of clients.  `Acquire` is the three-step
procedure that the class asks of its clients, `Allocate` the other interface.

`TileTextures` has a tile find its texture, render it if the texture was recycled or the
observer token (`seen`) is old, and hand it out with what it was rendered from (`sources`).
A handle that goes drops shared pointers (`Drop`); the last of them tells the client first
(`Tell`, which drops others) and then returns the texture (`Returned`).  Both kinds of tiles
may be cached with or without keeping their texture (`keep`, chosen once).

### RenderedGeometry

`depth`, `queued` and `updated` are the guards, the queued update and its flags; `children`,
`free`, `index` and `contents` the child layers of the reconstruction layer with their
indices, which are used again; `active` the main layers that are seen.  `focused` and `rg`
are the focus; `workflow`, `listener` and `highlight` the active tools, who is connected to
the focus, and what they drew.  `Emit` calls the listeners in the order in which they are
connected: the focus looks its geometry up again (`UpdateFocus`) and may change, the workflow
then clears and draws its highlight, each of which signals again unless a guard is open, and
only then are the canvases told and the flags reset (`Sent`).

## 4. What the runs check, and what they show

| run | distinct states | properties |
| --- | --- | --- |
| `weak_observer` | 74,209 | `TypeOK`, `LinksFollowSubscription`, `NoDanglingObserver`, `CompleteVisit`, `VisitedOnce`, `ImplementsQueue` |
| `model_tree` | 540,188 | `TypeOK`, `RemoveFindsItsOwn`, `HeldNewsIsTold`, `UnsavedCoversChanges`, `FlushedOnce` |
| `file_state` | 748,324 | `TypeOK`, `SlotsMatchIndices`, `IndicesOrderFiles`, `ListenersKnowFiles`, `MirrorMatches`, `KeepsLoadOrder` |
| `reconstruct_graph` | 349,362 | `TypeOK`, `OutputsMatchConnections`, `AssertionsHold`, `TasksKnowInputs`, `DefaultsExist`, `GroupsNest`, `AutoLayersGoWithFile`, `ImplementsLayerGraph` |
| `application_state` | 237,572 | `TypeOK`, `ChangesRemembered`, `ShownWhenIdle`, `SectionsRightWhenIdle`, `CallsReturn` |
| `tile_textures` | 78,739 | `TypeOK`, `VolatilesMatch`, `UsedWhileHeld`, `TilesAreRight`, `GrowsToPeak`, `ImplementsVolatileCache` |
| `rendered_geometry` | 204,717 | `TypeOK`, `ChangesTold`, `FocusHighlighted`, `CallsReturn` |
| `weak_observer_visits_all` | violation | `VisitsAllObservers` |
| `model_tree_deactivations` | violation | `DeactivationsAreTold` |
| `model_tree_flitting_child` | violation | `NoFlittingChild` |
| `reconstruct_graph_duplicates` | violation | `TasksKnowInputs` |
| `application_state_reentry` | violation | `NotReentered` |

**weak_observer.**  The links of a list join exactly its subscribers, both ways, in the
order of subscription (`LinksFollowSubscription`), whatever subset of observers is being
called back at the time.  No observer points at a destroyed publisher
(`NoDanglingObserver`).  A traversal calls every observer that stays subscribed
(`CompleteVisit`) and none twice (`VisitedOnce`), *provided no observer leaves the list in
its own callback*.  Without the proviso it is wrong, which is the next run.

**weak_observer_visits_all.**  `WeakObserverPublisher.h:72` says that the visitor is applied
to all weak observers.  An observer that unsubscribes in its own callback has no next link
any more and ends the walk for those after it; `gui/FeatureFocus.cc:86` does so.

**model_tree.**  A handle that can be reached is in the slot it remembers
(`RemoveFindsItsOwn`), so that `remove_from_parent` never removes a sibling.  No change made
under a guard is forgotten (`HeldNewsIsTold`).  The unsaved flag covers every change since
the last save, although the notification may be delayed and although listeners may save in
the middle of it (`UnsavedCoversChanges`).  No handle tells news that it is already telling
(`FlushedOnce`).

**model_tree_deactivations.**  `NotificationGuard.h:43-47` says that deactivations are queued
and sent when the last guard goes.  A removed handle has left its slot and the flush does
not reach it; and `notify_listeners_of_deactivation`, which the flush calls for the handles it
does reach, is silent because the count is one.

**model_tree_flitting_child.**  `BasicHandle.h:387-390` says that a child added and removed
under one guard need not be announced.  `remove` never takes it out of the pending
additions, so the flush announces an empty slot.

**file_state.**  Slots and entries match one to one (`SlotsMatchIndices`), and at any moment,
including in the middle of a removal, the loaded files are numbered 0 to n-1 in load order
(`IndicesOrderFiles`).  Listeners that follow the signals know the loaded files whatever
they themselves add and remove (`ListenersKnowFiles`).  A listener that takes the header's
advice and mirrors the indices is right when nothing is removed during the announcement of
a removal and nothing is undone (`MirrorMatches`); both exceptions
are recorded as hazards.  The arrays implement a list in load order (`KeepsLoadOrder`).

**reconstruct_graph.**  Both ends of every connection agree on it
(`OutputsMatchConnections`), although either may destroy it and a layer may feed itself, and
none is left whose source has gone, although the list of outputs shrinks while it is gone
through (`TypeOK`).  The
assertions of the code hold where they are reached (`AssertionsHold`): a connection is never
told an activation that it knows, and the layers to be removed with a file, collected before
the listeners of the first removal ran, are still there.  At every moment a task uses the
inputs that it should (`TasksKnowInputs`).  The stack of default layers holds no removed
layer, and listeners know its top (`DefaultsExist`).  Groups are told once, at their
outermost ends (`GroupsNest`).  A layer made for a file goes with it unless it has other
files (`AutoLayersGoWithFile`).  Together they are a `LayerGraph`.

**reconstruct_graph_duplicates.**  The same model when a layer may be connected twice to one
channel, which nothing prevents: cutting one of the two connections takes the input away
from the task, though the other remains.

**application_state.**  A change that has not been reconstructed is never forgotten: a call
will answer it, or a guard remembers it, or the model will announce it (`ChangesRemembered`).
When all calls have returned what is shown was made from everything that changed
(`ShownWhenIdle`) and known sections are right (`SectionsRightWhenIdle`).  The calls end
(`CallsReturn`), although reconstructing modifies the model and modifying the model
reconstructs.

**application_state_reentry.**  A comment in `reconstruct` says that events of the model do
not reconstruct from inside a reconstruction.  The flag that should keep them from it is not
restored but reset by a nested reconstruction, which a layer of scalar coverages starts.

**tile_textures.**  A volatile object and what it finds know each other (`VolatilesMatch`);
textures are in use exactly as long as a client can reach them (`UsedWhileHeld`), so that none
is lost to the cache and none taken from its user; a client gets the right texture, and what
its handles keep stays so, whatever other tiles steal (`TilesAreRight`); caches grow no
further than they must (`GrowsToPeak`).

**rendered_geometry.**  In signals nested in signals, no change is reset before the canvases
were told of it (`ChangesTold`).  When all calls have returned, the active workflow highlights
the geometry in focus, and no other as the focus (`FocusHighlighted`).  The signals end
(`CallsReturn`), although the highlight updates what tells the focus to look again.

Every property of a passing run has a mutant, in `PROJECT.json`: a change of one definition
the way a bug in that code would look, under which TLC finds the property violated.  Some
mutants stand as `Mutant:` definitions next to what they change.

### Bounds

*WeakObserver*: 3 observers, 2 publishers, 5 subscriptions, 2 nested traversals.  Three
observers are the fewest with one that is neither first nor last; five subscriptions let
every observer subscribe and two of them move; a traversal inside a traversal is the first
case in which one changes the list under the other.  A deeper nest adds frames whose
conditions are the same; for the invariants that are proved the bound does not matter.

*ModelTree*: 2 collections, 2 features, 4 operations of client code.  Half of the initial
states have a saved collection of two features in the tree, so that the four operations are
spent on, for instance, a guard, a removal, an addition by a listener and a save.  The
steps of an operation are not bounded.

*FileState*: 3 files, at most 2 in one call, at most 2 signals out when a listener starts a
call of its own (so up to three deep).  Three files are the fewest in which a file between
two others is removed; handles are used again because a file may be added after another was
destroyed.

*ReconstructGraph*: 2 files, 6 layers of 5 types, 3 calls of clients, one signal out when a
listener starts a call of its own.  A single call makes up to two layers with their inputs,
so that three calls load a file with layers that feed each other, connect or activate
something by hand, and take away a file or a layer, the third possibly from inside.

*ApplicationState*: 5 calls, 4 scopes or listeners open at a time: two guards inside each
other, a change inside them, and one in a listener.

*TileTextures*: 2 tiles of the cube that share one of 2 source tiles, 3 textures for each
cache, 7 calls, 3 handles.  Caches have a minimum of one or two, so textures are recycled
as soon as they are free; two tiles with a shared source are the fewest in which a texture
is kept by one and returned by the other.  The third texture of a cache is never needed:
an object in use keeps its volatile object, of which there are two.

*RenderedGeometry*: 2 visual layers, 2 workflows, 6 calls, 2 guards of clients.  The bound on
the stack (`MaxCalls`) stops a recursion that does not end, so that TLC shows it as a
violation of `CallsReturn`; without such an error no stack gets that high.

Deadlock is checked for `WeakObserver` only; the other configurations say `CHECK_DEADLOCK
FALSE`, since when the bounded operations are used up nothing is left to do.  Symmetry is that
of the model values; it is sound because no definition chooses among them except through an order that the state
gives.

*Fairness.*  `ApplicationState` and `RenderedGeometry` assume weak fairness of `Machine`, the
steps of calls that have been made: everything runs in one thread, so a function that was
called runs on until it returns, a scope that was entered ends, and a listener returns.  What
clients start, and what a reconstruction happens to find, is under no fairness.  `CallsReturn`
then says that no chain of calls goes on for ever, which in these two components is not
evident: each calls itself through its listeners.  The other modules state no liveness:
their calls run to the end of a loop over something that no step makes longer.

### Rules for clients that the modules assume

- Clients reach a handle through a valid weak reference, so only while it exists and is
  active; they add only children that no handle holds.
- A listener does not let go of the last owner of a handle, and leaves alone a handle of
  whose destruction it is being told.
- An observer object is not destroyed in its own callback, and no publisher is destroyed
  while it is being visited.
- A listener of the file state adds no files while the class holds a reference into
  `d_file_slots` (during `file_state_file_about_to_be_removed`, and during any signal of a
  file that is being destroyed).
- Lists of const and of non-const observers never meet.
- A listener of the reconstruct graph adds and removes no files or layers, does not make a
  layer that is going the default, leaves a connection alone whose removal is being
  announced, and does not change file connections while a file is removed.
- No features are modified in a listener of a reconstruction, or while the model announces
  what a guard held back, and no file is removed under a notification guard (the comment on
  `unload_file` asks for it).
- Handles of raster tiles come and go between renderings, not in the middle of one.
- A visual layer that has the geometry in focus is not hidden and shown again under one
  guard of rendered geometries.  The program has such guards around one event
  (`GPlatesQApplication.cc:226`) or inside one function, and none of these does both.

The code does not enforce these; the hazards in `PROJECT.json` name the lines where breaking
them would bite.

### Observations

What the modelling showed besides, where no statement of the code is contradicted or nothing
goes wrong that can be seen:

- `ReconstructGraph.cc:744` counts connections, not files: a file connected twice to the main
  channel of the layer made for it leaves that layer behind when it is removed.
- `Layer.h:428` announces an exception for cycles; the detection is compiled out
  (`ReconstructGraphImpl.cc:548`).
- `ApplicationState.h:320` says that blocked calls are not made up for at the end of a guard;
  they are, and `SetVGPVisibilityDialog.cc:220` relies on it.
- A file created without a notification guard (`FeatureCollectionFileIO.cc`, `create_file`) is
  listed after the model has told of it: topological sections asked for in between lack it,
  and nothing draws again when they are reset.
- `RenderedGeometryCollection.cc:420` assigns the restored state before it compares, so the
  update says that no layer changed.  Canvases ignore the flags.
- `ExportImageAnimationStrategy.cc:116` returns without restoring the active layers when a
  frame fails: what tools draw stays invisible until another workflow is chosen.  The model
  has this as `Abort`, and `FocusHighlighted` excepts it.
- Geometries highlighted as *not* the focus stay when their visual layer is hidden or
  removed, unless the focus changes (`GeometryFocusHighlight.cc:78` takes them for visible).
- The focus compares the geometry it finds with the one it had (`FeatureFocus.cc:398`) and
  not with what it was told last.  If under one guard the layer of the geometry in focus were
  hidden, another tool chosen (which finds nothing to highlight) and the layer shown again,
  the focus would see no change and the geometry would stay without its highlight.  This
  takes more calls than the run has; it came out of the inductive invariant, which therefore
  needs the last of the rules above.
- Clicking a geometry of a second visual layer moves the focus at once to the one of the
  first (`FeatureFocus.cc:337` says so in a FIXME).
- Other hazards that are not in the list of `PROJECT.json` because no code of the program
  meets them, or their component is not modelled: a listener that adds a child to the handle
  it is told of during a flush (`BasicHandle.h:1106`) or destroys a child then (`:1138`); a
  reactivated file announced as added though it is not the last
  (`FeatureCollectionFileState.cc:448`); a value cache whose callback throws
  (`KeyValueCache.h:360`); bounds of the time within a tolerance (`AnimationController.cc:283`);
  command identifiers used again (`UndoRedo.cc:57`).

## 5. What is proved

TLAPS checks the proofs for any set of observers, publishers, handles, files, layers,
workflows, tiles and textures and any bounds.

| theorem | module | states |
| --- | --- | --- |
| `TypeCorrect` | `WeakObserverProofs` | pointers and frames keep their types |
| `ListCorrect` | `WeakObserverProofs` | `LinksFollowSubscription` always holds |
| `DestructorComplete` | `WeakObserverProofs` | `NoDanglingObserver` always holds |
| `TraversalComplete` | `WeakObserverProofs` | `CompleteVisit` always holds |
| `VisitsOnce` | `WeakObserverProofs` | every step satisfies `VisitedOnce` |
| `QueueImplemented` | `WeakObserverProofs` | the list implements `ObserverQueue` (`ImplementsQueue`) |
| `TypesKept` | `ModelTreeProofs` | pointers, flags and lists keep their types; the guard's count stays a number |
| `RemoveCorrect` | `ModelTreeProofs` | `RemoveFindsItsOwn` always holds |
| `HeldNewsCorrect` | `ModelTreeProofs` | `HeldNewsIsTold` always holds |
| `UnsavedCorrect` | `ModelTreeProofs` | `UnsavedCoversChanges` always holds |
| `FlushedOnceCorrect` | `ModelTreeProofs` | `FlushedOnce` always holds |
| `TypeCorrect` | `FileStateProofs` | the arrays keep their types; no index falls below zero |
| `SlotsCorrect` | `FileStateProofs` | `SlotsMatchIndices` always holds |
| `IndicesCorrect` | `FileStateProofs` | `IndicesOrderFiles` always holds |
| `ListenersCorrect` | `FileStateProofs` | `ListenersKnowFiles` always holds |
| `MirrorCorrect` | `FileStateProofs` | `MirrorMatches` always holds |
| `LoadOrderImplemented` | `FileStateProofs` | the file state implements `LoadOrder` (`KeepsLoadOrder`) |
| `TypesKept` | `ReconstructGraphProofs` | files, layers, connections and tasks keep their types |
| `OutputsCorrect` | `ReconstructGraphProofs` | `OutputsMatchConnections` always holds |
| `AssertionsCorrect` | `ReconstructGraphProofs` | `AssertionsHold` always holds |
| `TasksCorrect` | `ReconstructGraphProofs` | `TasksKnowInputs` always holds unless layers are connected twice |
| `DefaultsCorrect` | `ReconstructGraphProofs` | `DefaultsExist` always holds |
| `GroupsCorrect` | `ReconstructGraphProofs` | `GroupsNest` always holds |
| `LayersGoWithFiles` | `ReconstructGraphProofs` | every step satisfies `AutoLayersGoWithFile` |
| `GraphImplemented` | `ReconstructGraphProofs` | `LayerGraph` is implemented unless layers are connected twice |
| `TypesKept` | `ApplicationStateProofs` | flags and counts keep their types; no count falls below zero |
| `ChangesCorrect` | `ApplicationStateProofs` | `ChangesRemembered` always holds |
| `ShownCorrect` | `ApplicationStateProofs` | `ShownWhenIdle` always holds |
| `SectionsCorrect` | `ApplicationStateProofs` | `SectionsRightWhenIdle` always holds |
| `VolatileObjectsCorrect` | `TileTexturesProofs` | `VolatilesMatch` always holds |
| `GrowthBounded` | `TileTexturesProofs` | `GrowsToPeak` always holds |
| `TypesCorrect` | `TileTexturesProofs` | counts, lists and handles keep their types; no count falls below zero |
| `UsedCorrect` | `TileTexturesProofs` | `UsedWhileHeld` always holds |
| `TilesCorrect` | `TileTexturesProofs` | `TilesAreRight` always holds |
| `VolatileCacheImplemented` | `TileTexturesProofs` | the caches of textures implement `VolatileCache` (`ImplementsVolatileCache`) |
| `TypesKept` | `RenderedGeometryProofs` | guards, flags and layers keep their types; no child layer belongs to two visual layers |
| `ChangesCorrect` | `RenderedGeometryProofs` | `ChangesTold` always holds |
| `HighlightCorrect` | `RenderedGeometryProofs` | `FocusHighlighted` always holds |

The assumptions are those of the modules: `ObserverAssumption` (there are finitely many observers), `NullAssumption` and `HandlesAssumption` (the null
pointer is no object; root, collections and features are different things),
`DataAssumption` (no file is a layer; files have features for the types there are), `BoundAssumption` and
`BoundsAssumption` (the bounds are numbers), `CacheAssumption` and `TileAssumption` (each kind
of tile has a cache of its own), `RenderedAssumption` (there are finitely many visual layers and
workflows, and at least one workflow; the reconstruction layer and "no workflow" are none of
them).  TLC evaluates them in the passing runs.

**WeakObserver.**  `LinksFollowSubscription` is inductive by itself with the types, and that is
why it is stated by neighbours and times and not by walking: an operation touches the
neighbours of one observer, and the proof is one case per pointer written.  The destructor
needs more: its cursor is always the *first* observer of the list, so that when the cursor
is null the list is empty, which is what makes `NoDanglingObserver` inductive.  Traversals
need to know where they stand: those of the observers in `must` that are not yet `done` come
after the cursor in time, and an observer that unsubscribes elsewhere moves nothing across
the cursor.  What follows the cursor subscribed later than all that was called: `VisitsOnce`.

`QueueImplemented` first shows what the walk along the links reads (`WalkReads`): by induction
on its length it has the first observers of the list (`Begins`), and it cannot end early, for
there are only so many observers.  A sequence in the order of subscription is determined by
its elements (`OrderDetermines`), so a step has only to be looked at for whom it subscribes and
when (`StepsMove`), not for how it splices.

**ModelTree.**  None of the five properties is inductive, for an operation is a row of entries
on the call stack between which listeners do what they like.  The invariant `IInv` says of
every kind of entry what the tree must be like while it is there.
*The stack* (`Stacked`): below a handle that is being destroyed there are only scopes; below
the end of a flush is no second one, and below an entry that clears flags is nothing of the
flush that it could disturb (`Order`); everything of a flush has the end of that flush below
it, and a slot to be vacated is followed by the news of it (`Followed`).  `guard` is the
number of scopes and flush ends on the stack.
*The tree*: `RemoveFindsItsOwn` needs that removed handles are not active once their slot is
vacated, which needs that what a slot to be vacated holds is inactive or is the very next to
be deactivated (`VacatedLeave`), and that the children of an inactive handle are inactive or
a cascade on the stack has still to reach them (`ChildrenFollow`).
*Saving*: a changed collection is flagged or a notification on the stack, its own or that of
one of its features, will flag it (`OnItsWay`).
*News*: what is owed is noted in its handle, no entry is about to clear it, and the handle
leads to the root or has been cut off for good (`NewsNoted`); and from the moment the last
guard of a client goes, the flush on the stack will visit the handle (`Told`, `Visited`):
its own part, or that of its parent or grandparent with a slot not yet passed.  That is why
new slots, which are appended, and vacated ones do not hurt a flush under way.  Since the
end of a flush counts as a guard, a count of zero means that no flush is left, so nothing is
owed.

**FileState.**  Types and `SlotsMatchIndices` are not inductive: decrementing the indices of later files
is only right if the file being unloaded still counts as loaded, and erasing an entry only if
it does not.  Both hold because of what can be on the call stack.  The invariant `IInv` adds
`StackOK`: entries refer to handles in use (`StackTyped`), the files being added are new
(`FilesApart`), and callbacks come in an order that fits (`CallbacksFit`): a file has at most
an unloading and an ending on the stack, in that order, an unloading is of a loaded file, and
an erasing is either of an unloaded file or has the unloading right above it.  The proof
treats the stack and the arrays apart: `StackStep` says when a stack stays well-formed, and
each action has one lemma about the arrays and one about what it pushes.

`IndicesOrderFiles` follows from the same invariant with the loaded entries counted.

What listeners know needs a second one, `ListenInv`.  It parts the loaded files into those
whose removal was announced but has not taken effect (`Announced`), those just added that
nobody has heard of (`Batch`) and the others (`Settled`); listeners know the settled ones
(`KnownInv`).  While files are being added nothing is unloaded or erased further down the
stack (`CallsApart`; this is where the model's rule `SlotReferenced` is used).  For the
sequence kept by index, `MirrorInv` says that, as long as it is not disturbed, at most one
removal is announced, and that it is at the top of the stack; that the sequence is one
removal ahead and the added files behind; and that each settled file is at its `Place`, the
index it will have once the announced removal is done.

The refinement rests on every entry having exactly one handle in use (`OrderHolds`), so that
the sequence the arrays stand for is determined, although it is defined with a CHOOSE.  Then
`AddOne` is `Load`, `Unload` is `Hide`, `Reactivated` is `Show`, `Erase` is `Forget`, and
every other step stutters.  `Forget` leaves `Only` the other files, `Erase` closes the gap of
one position; that these agree on a sequence without repetitions is the lemma `OnlyDrops`.

**ReconstructGraph.**  The invariant has six parts.  `StackInv` orders the stack (`Before`):
an entry that adds is never above one that removes or the other way round, a connection is
made before anything else is done once it was asked for, and what is made or destroyed has
the end of its group below it; and it says what an entry names (`Fits`): layers to be removed
exist, layers to be fed exist or will have been made.  This is where the listeners' rules
are used, and what the assertions of the code rest on.  `GraphInv` has the two ends of each
connection and the flags that follow the activation of the source.  `TasksInv` counts the
connections of a file for a file task, while for layers, which are in a map, a task may know
fewer than are connected if a layer is connected twice: hence the hypothesis `~Duplicates` of
`TasksCorrect`, without which the run `reconstruct_graph_duplicates` shows it false.
`DefaultsInv` allows a default that is to be destroyed as long as the entry that forgets it is
still to come; `GroupsInv` counts the ends of groups, one of which may not have been counted
yet, since the stack has at most one group that is about to begin; `DropInv` keeps every layer
that is to go with a file on the stack until it is gone.

`GraphImplemented` proves the refinement: the initial states map to initial states and each
action maps to one of `LayerGraph` or to a stutter, under the invariant.  Most entries of the
stack are stutters; making, destroying, connecting, cutting and (de)activating are the steps.

**ApplicationState.**  `IInv` again speaks of the stack.  A layer that has to hear of a change
is told before anything else (`Order`); the calls after an update are followed by the release
of its guard (`Followed`); and a scope that begins is covered by the scopes that end below it
(`Backed`), so that the counts never fall below zero.  `nesting` and `guards` are the numbers of such entries
(`CountsInv`).  `DueInv` says where a change is kept: in a call to reconstruct, a scope that
will ask, an announcement under way, or a pending announcement of a guard that will make it.
The delicate case is a change announced at the end of a reconstruction, which is not
answered because the flag is still set: `HeardInv` says that layers that have not heard are
waiting for a guard that no reconstruction on the stack ends (`Guarded`), and that those which
hear inside a reconstruction hear of nothing new; so what is announced there was seen by the
reconstruction.

**TileTextures.**  `VolatilesMatch` is inductive for what a single cache does only if the lists of
unused textures hold textures that exist, each in the list of its cache; and textures get
there because they are returned, from the call stack.  So `IInv` says which calls may be on
the stack (`Stacked`): those that drop name textures that exist, and nothing is below a call
that starts.  The point of the argument is `Needs`: a tile that is on the stack to be rendered
or handed out still has its texture, because the calls above it obtain textures from other
caches only.  `GrowsToPeak` is inductive with the finiteness of the caches: a new texture is made
below the minimum, or when the list of unused ones is empty, and then all are in use.

The other properties rest on who refers to each texture.  `RefsInv`: what the shared pointers
count is the number of places that hold the texture: handles, the textures made from it,
what is being rendered, and the calls that will drop it.  `UseInv`: a texture without
references is in the list of its cache, or there is exactly one call that will return it;
one with references is not in the list, or it could be stolen.  When no call is out, only
handles and textures are left, and by `KindsInv` a texture that keeps others is a tile of the
cube that a handle holds: that is `UsedWhileHeld`.
`TilesAreRight` needs the order of the stack.  `ShapeInv`: on top are the calls that drop
textures, below them what is left to do for one tile, which says what has been drawn already
(`Base`).  `ContentInv`: a texture that a tile finds shows that tile in the version that the
tile has seen, unless a call on the stack is about to draw it, and so does one that a handle
holds.  A texture is drawn over only for the tile that finds it, in the version of now, or after
it was recycled for another tile, and `UseInv` says that no handle holds such a texture.
`VolatileCacheImplemented` maps `held` to the textures in use; obtaining one is `Find`, `Fill` or
`Take`, returning it is `Release`, and every other step is a stutter.  The case with content is
that of a texture recycled for a tile, which by `UseInv` nobody uses.

**RenderedGeometry.**  `ChangesTold` and `FocusHighlighted` speak of the moments between calls, so
the invariant `IInv` says what each entry on the stack has still to do.
*The stack* (`Stacked`, `Order`): a guard begins only on top, connecting and restoring a workflow are
at the bottom, a workflow is disconnected only on the way to the next one, and above a drawing
are only entries that draw.
*Telling*: `GuardInv` says that a guard is open while a reconstruction draws and none while
something is sent; `ToldInv` that a change is told already, held by an open guard, or about to be
sent.  `ChangesTold` is what is left when the stack is empty.
*Layers* (`LayersInv`): the indices in use and those that are free are together 1 to n and have none
in common, so that a new child layer always gets one that nobody else has.  That there is one
(`RoomForLayer`) is a matter of counting.  `ContentsInv`: a child layer shows what its visual
layer reconstructs, or is about to be drawn.
*The highlight*: the focus is right, or news that will correct it is held or under way
(`FocusInv`); the tool of the active workflow is connected and those of others are not, or a
change of workflow is under way (`ToolsInv`, `ActiveInv`); and the highlight marks what is in
focus, or is about to be drawn (`HighlightInv`, by the three ways in which it can differ: `Lost`,
`Redrawing`, `Marking`).  `Lost` is where the rule `HiddenUnderGuard` is used: geometry that left
the focus is not shown again under the guard under which it was hidden.  Without it the proof of
that step fails for a reason, the observation about `FeatureFocus.cc:398` in section 4.

**Induction.**  The induction theorems of the library take an operator as a parameter, which
the provers used cannot instantiate.  `SequenceLemmas` has induction from sets instead: finite
sets are well-founded under inclusion, so a set of numbers that is not empty has a least
element (`Least`), so a set with 0 and all successors has every number (`Induction`), and
likewise for sequences (`SequenceInduction`).  With these it proves that what `Only` computes
by a recursive function exists, what it keeps, and how many entries of a kind a sequence has
(`Tally`) when entries are pushed and popped.  The later proofs cite these facts and need no
induction of their own.

**Only model-checked**: `CallsReturn` of `ApplicationState` and of `RenderedGeometry`, since
liveness stays with TLC (as would ENABLED).

## 6. What is not modelled

Within the modelled components:

- `WeakObserver::swap`, the `std::swap` specialisation, and the const traversal, which is
  the same template.
- Reactivation in `ModelTree`: `set_active` has no caller that passes true (adding a handle
  does not reactivate it), so it cannot happen in the tree.  `FileState` does model the
  callback `reactivated_feature_collection`, as its own comments describe it (undo puts the
  feature collection back), because the arrays keep entries of unloaded files for no other
  reason; `Undo` is thus an input that the program is prepared for and does not make yet.
- Revisions: one per handle, since a changeset only avoids copying one twice.
- In `FileState`, changing the file information of a slot and the signals about it, reloading
  (the file contents change inside one slot), and the destructor, which only disconnects.
- Who listens: listeners are arbitrary client code within the rules above, which is more than
  the listeners in the program do.

- In `ReconstructGraph`, changing the task of a layer by hand, the parameters of layers, the
  mark `d_auto_created` when sessions set it, and the main channel of velocity layers, which
  the task ignores.  In the checked instance the only cycle is a raster layer that feeds
  itself.  Making a connection and cutting one is a single step (`Link`, `Cut`), although the
  task of a raster layer announces changed parameters when it gets a file or loses one
  (`RasterLayerTask.cc:119` and `:152`): those who listen to that reconstruct
  (`ApplicationState.cc:504`) or refresh what they show of the layer (`VisualLayers.cc:675`), and
  none of them edits the graph.
- In `ApplicationState`, the update of reconstruct layer outputs itself; saving and restoring.
- In `TileTextures`, the chain of subject tokens through which a source tells that it changed
  (`GLMultiResolutionCubeRaster.cc:515-533`), for which there is one version; the cache of vertices, normal maps made by the CPU, the minimum that grows
  with the number of tiles in view (`GLVisualRasterSource`), `VolatileObject::invalidate` and the
  destruction of volatile objects, and exceptions while a texture is made.  A client that
  keeps a plain texture without a handle is not protected, as the header warns
  (`GLMultiResolutionCubeRaster.h:221`); `TilesAreRight` speaks of what handles keep.
- In `RenderedGeometry`, more than one feature or geometry, the zoom, orthogonal layers
  (`set_orthogonal_main_layers` is never called), single active child layers, listeners that
  throw, edited and deleted features, and the tables of features.  Canvases paint later and
  draw everything, so they are only told.

Whole components: section 1 and the notes in `PROJECT.json` say for each why it is left out.
Geometry, rotations and drawing are numerical; parsers and writers have no control worth a
model.  Sessions transform data without steps that interleave.  The animation controller,
value caches, changesets and the geometry builder are sequential and small, and what they do to
the rest is in the models: a new time is `SetTime` of `ApplicationState`, a command that puts a
collection back is `Undo` of `FileState`.  The undo stacks are what the plan has left.  The
modelled components are a small part of the repository by lines, and most of its state: what
remains is numerical code, formats and widgets.
