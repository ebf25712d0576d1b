---------------------------- MODULE TileTextures ----------------------------
(***************************************************************************)
(* The tiles of a raster on a cube map (opengl/GLMultiResolutionCubeRaster *)
(* on top of GLMultiResolutionRaster and GLNormalMapSource), as clients of *)
(* three object caches: a cube tile is rendered from source tiles, which   *)
(* are loaded by way of a texture for heights.  Clients get the textures   *)
(* of tiles together with handles that keep them, and what they were       *)
(* rendered from, until the handles are dropped.                           *)
(*                                                                         *)
(* A tile has its texture by a volatile object, and the version of the     *)
(* source that it was rendered from by an observer token: it is rendered   *)
(* again when the texture is lost or the source has changed.  Rendering    *)
(* is drawn at once, with nothing between but the steps below; the call    *)
(* stack is a variable, and clients call when it is empty.                 *)
(***************************************************************************)
EXTENDS ObjectCache

CONSTANTS
  CubeTiles, SourceTiles,
  Covers,      \* the source tiles in the view of each cube tile, in order
  MaxOps,      \* bound: calls that clients start
  MaxHandles   \* bound: handles that clients have at a time

Tiles == CubeTiles \cup SourceTiles

ASSUME TileAssumption ==
  /\ Volatiles = Tiles /\ CubeTiles \cap SourceTiles = {} /\ "height" \in Caches
  /\ \A t \in CubeTiles, s \in SourceTiles : CacheOf[t] # CacheOf[s]
  /\ \A t \in Tiles : CacheOf[t] # "height"
  /\ Covers \in [CubeTiles -> Seq(SourceTiles)]
  /\ MaxOps \in Nat /\ MaxHandles \in Nat

VARIABLES
  keep,       \* whether the handles of each kind of tile keep its texture
  version,    \* the subject token of the source
  seen,       \* the observer token of each tile
  content,    \* what is in each texture: the tile and what it was made from
  sources,    \* source_cache_handle of each cube texture: the textures in it
  rendering,  \* tile_cache_handle of a rendering that is under way, and what it drew
  handles,    \* the handles that clients have
  calls,      \* the call stack: what is still to do
  ops         \* calls started so far

tileVars == <<keep, version, seen, content, sources, rendering, handles>>
vars == <<cacheVars, tileVars, calls, ops>>

Do(what, x) == [do |-> what, on |-> x]
Drops(seq) == [i \in DOMAIN seq |-> Do("drop", seq[i])]
NotRendering == [kept |-> <<>>, drawn |-> <<>>]

Init ==
  /\ CacheInit
  /\ keep \in [{"cube", "source"} -> BOOLEAN]
  /\ version = 1 /\ seen = [t \in Tiles |-> 0]
  /\ content = [o \in Objects |-> <<>>] /\ sources = [o \in Objects |-> <<>>]
  /\ rendering = NotRendering /\ handles = <<>>
  /\ calls = <<>> /\ ops = 0

Idle == calls = <<>>
Start(entries) == Idle /\ ops < MaxOps /\ ops' = ops + 1 /\ calls' = entries
Doing(what) == calls # <<>> /\ Head(calls).do = what
On == Head(calls).on
Continue(entries) == calls' = entries \o Tail(calls) /\ ops' = ops

-----------------------------------------------------------------------------
(* get_tile_texture *)
GetTileTexture(t) ==
  /\ Len(handles) < MaxHandles
  /\ Start(<<Do("find", t)>>)
  /\ UNCHANGED <<cacheVars, tileVars>>

(* A client drops a handle; the members go in the reverse of their order.  *)
DropHandle(i) ==
  LET h == handles[i]
  IN /\ Start(Drops(h.sources) \o (IF h.object = None THEN <<>> ELSE <<Do("drop", h.object)>>))
     /\ handles' = RemoveAt(handles, i)
     /\ UNCHANGED <<cacheVars, keep, version, seen, content, sources, rendering>>

(* The raster or its settings change (SubjectToken::invalidate). *)
ChangeSource ==
  /\ Start(<<>>)
  /\ version' = version + 1
  /\ UNCHANGED <<cacheVars, keep, seen, content, sources, rendering, handles>>

-----------------------------------------------------------------------------
(* Mutant: a texture that was not lost is taken to be up to date. *)
LostOnly(t) == info[t] = None

(* Whether tile t has to be rendered: its texture was recycled, or         *)
(* is_observer_up_to_date says no.  One version stands for the tokens of   *)
(* the sources under the tile, which are asked one after the other.        *)
OutOfDate(t) == info[t] = None \/ seen[t] # version

Find ==
  /\ Doing("find")
  /\ Acquire(On)
  /\ Continue((IF OutOfDate(On)
               THEN [i \in DOMAIN Covers[On] |-> Do("draw", Covers[On][i])] \o <<Do("rendered", On)>>
               ELSE <<>>) \o <<Do("handOut", On)>>)
  /\ UNCHANGED tileVars

(* GLMultiResolutionRaster::get_tile_texture, for a tile that is drawn *)
Draw ==
  /\ Doing("draw")
  /\ Acquire(On)
  /\ Continue((IF OutOfDate(On) THEN <<Do("load", On)>> ELSE <<>>) \o <<Do("drawn", On)>>)
  /\ UNCHANGED tileVars

(* load_raster_data_into_tile_texture, from a normal map: the heights go   *)
(* to a texture that is needed no longer afterwards.                       *)
Load ==
  /\ Doing("load")
  /\ \E h \in Objects : Allocate("height", h) /\ Continue(<<Do("drop", h)>>)
  /\ content' = [content EXCEPT ![info[On]] = <<On, version>>]
  /\ seen' = [seen EXCEPT ![On] = version]
  /\ UNCHANGED <<keep, version, sources, rendering, handles>>

(* The rest of the loop in GLMultiResolutionRaster::render. *)
Drawn ==
  /\ Doing("drawn")
  /\ rendering' = [kept |-> IF keep["source"] THEN Append(rendering.kept, info[On]) ELSE rendering.kept,
                   drawn |-> Append(rendering.drawn, content[info[On]])]
  /\ Continue(IF keep["source"] THEN <<>> ELSE <<Do("drop", info[On])>>)
  /\ UNCHANGED <<cacheVars, keep, version, seen, content, sources, handles>>

(* The end of render_raster_data_into_tile_texture: what the texture kept  *)
(* before is let go.                                                       *)
Rendered ==
  LET o == info[On]
  IN /\ Doing("rendered")
     /\ content' = [content EXCEPT ![o] = <<On, rendering.drawn>>]
     /\ sources' = [sources EXCEPT ![o] = rendering.kept]
     /\ rendering' = NotRendering
     /\ seen' = [seen EXCEPT ![On] = version]
     /\ Continue(Drops(sources[o]))
     /\ UNCHANGED <<cacheVars, keep, version, handles>>

Times(x, seq) == Cardinality({i \in DOMAIN seq : seq[i] = x})

(* ClientCacheTile: the handle shares what the texture keeps. *)
HandOut ==
  LET o == info[On]
  IN /\ Doing("handOut")
     /\ handles' = Append(handles, [tile |-> On, object |-> IF keep["cube"] THEN o ELSE None,
                                    sources |-> sources[o], since |-> version])
     /\ refs' = [x \in Objects |-> refs[x] + Times(x, sources[o])]
     /\ Continue(IF keep["cube"] THEN <<>> ELSE <<Do("drop", o)>>)
     /\ UNCHANGED <<created, unused, references, peak, keep, version, seen, content, sources, rendering>>

(* A shared pointer to an object goes.  The deleter that the last of them  *)
(* calls tells the texture (returned_to_cache), and returns it then.       *)
Drop ==
  /\ Doing("drop")
  /\ refs' = [refs EXCEPT ![On] = @ - 1]
  /\ Continue(IF refs[On] > 1 THEN <<>> ELSE <<Do("tell", On), Do("giveBack", On)>>)
  /\ UNCHANGED <<created, unused, references, peak, tileVars>>

(* Mutant: the texture is returned without being told. *)
ToldNothing == Doing("tell") /\ Continue(<<>>) /\ UNCHANGED <<cacheVars, tileVars>>

Tell ==
  /\ Doing("tell")
  /\ sources' = [sources EXCEPT ![On] = <<>>]
  /\ Continue(Drops(sources[On]))
  /\ UNCHANGED <<cacheVars, keep, version, seen, content, rendering, handles>>

Returned ==
  /\ Doing("giveBack")
  /\ GiveBack(On)
  /\ Continue(<<>>)
  /\ UNCHANGED tileVars

Next ==
  \/ \E t \in CubeTiles : GetTileTexture(t)
  \/ \E i \in DOMAIN handles : DropHandle(i)
  \/ ChangeSource
  \/ Find \/ Draw \/ Load \/ Drawn \/ Rendered \/ HandOut \/ Drop \/ Tell \/ Returned

Spec == Init /\ [][Next]_vars
-----------------------------------------------------------------------------
(* Caches, counts and handles keep their types; an object is in the list   *)
(* of unused objects of its own cache, once.                               *)
TypeOK ==
  /\ created \subseteq Objects
  /\ \A c \in Caches : Idling(c) \subseteq Allocated(c) /\ Len(unused[c]) = Cardinality(Idling(c))
  /\ info \in [Volatiles -> created \cup {None}] /\ owner \in [Objects -> Volatiles \cup {None}]
  /\ refs \in [Objects -> Nat] /\ peak \in [Caches -> Nat]
  /\ keep \in [{"cube", "source"} -> BOOLEAN]
  /\ version \in Nat /\ seen \in [Tiles -> Nat]
  /\ \A i \in DOMAIN handles :
       /\ handles[i].tile \in CubeTiles /\ handles[i].object \in created \cup {None}
       /\ ToSet(handles[i].sources) \subseteq created
  /\ \A o \in Objects : ToSet(sources[o]) \subseteq created

(* A volatile object and the object that it finds know each other, and     *)
(* belong to the same cache: one that was stolen is not found any more.    *)
VolatilesMatch ==
  \A v \in Volatiles, o \in created :
    /\ info[v] = o <=> owner[o] = v
    /\ info[v] = o => CacheOf[v] = CacheOf[o]

(* When all calls have returned, the textures in use are those that        *)
(* clients can still reach by their handles: no more, or they would never  *)
(* be recycled, and no less.                                               *)
Reachable ==
  LET byHandle == {handles[i].object : i \in DOMAIN handles} \ {None}
  IN byHandle \cup (UNION {ToSet(handles[i].sources) : i \in DOMAIN handles})
              \cup (UNION {ToSet(sources[o]) : o \in byHandle})
UsedWhileHeld == Idle => UNION {InUse(c) : c \in Caches} = Reachable

(* A client gets a texture of the tile that it asked for, made from the    *)
(* source as it is; and what its handles keep stays a texture of that      *)
(* tile, of a source no older, whatever other tiles are rendered.          *)
Made(t, k) == <<t, [i \in DOMAIN Covers[t] |-> <<Covers[t][i], k>>]>>
TilesAreRight ==
  /\ Doing("handOut") => content[info[On]] = Made(On, version)
  /\ \A i \in DOMAIN handles : handles[i].object # None =>
       \E k \in handles[i].since..version : content[handles[i].object] = Made(handles[i].tile, k)

(* A cache does not grow beyond the objects that were in use at one time,  *)
(* or the number that it may have in any case.                             *)
GrowsToPeak ==
  \A c \in Caches : Cardinality(Allocated(c)) <= IF MinNum[c] > peak[c] THEN MinNum[c] ELSE peak[c]

Abstract == INSTANCE VolatileCache WITH
  kept <- info,
  held <- UNION {InUse(c) : c \in Caches}

(* To their clients the caches are an abstract VolatileCache. *)
ImplementsVolatileCache == Abstract!Spec
=============================================================================
