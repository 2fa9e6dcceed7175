----------------------------- MODULE GlRenderer -----------------------------
(***************************************************************************)
(* The OpenGL renderer (src/src/render_gl/renderer.cpp, upload.cpp).       *)
(*                                                                         *)
(* The renderer keeps two curve buffers: the active one is drawn, the      *)
(* other takes the next scene chunk by chunk, one chunk a frame, and the   *)
(* two change places when the last chunk is in.  Everything that is not a  *)
(* curve goes to one primitive buffer that is replaced in a single call;   *)
(* patterns and glyphs live in two atlas textures that are kept while      *)
(* their fingerprint stays the same; image tiles have textures of their    *)
(* own, cached under a budget and evicted least recently used first.       *)
(*                                                                         *)
(* The renderer is a record and its operations are functions of it: the    *)
(* widget calls three of them in one paint (WellLogView.tla).  A scene is  *)
(* a model value; what the renderer reads of it is its number of curve     *)
(* edges, the fingerprint of its patterns and glyphs and its image tiles.  *)
(* A GL call may raise an error, and the loop over the tiles may meet them *)
(* in any order: an operation yields the set of renderers it may leave     *)
(* behind.  All calls come from the GUI thread that owns the context.      *)
(***************************************************************************)
EXTENDS Integers, FiniteSets, SequencesExt

CONSTANTS
    PreparedScenes,
    Edges,               \* of a scene: how many curve edges it has
    Fingerprint,         \* of a scene: its patterns and glyph outlines, a value
    SceneTiles,          \* of a scene: its image tiles, in order
    TileBytes,           \* of a tile: the size of its pixels
    MaximumCacheBytes,   \* budget of the curve buffers, in edges
    MaximumBytesPerFrame,\* budget of one chunk, in edges
    MaximumImageTextureBytes,
    Failing,             \* the GL calls that may raise an error
    Nothing

Tiles == DOMAIN TileBytes

(* The calls of upload_next after which the code looks for an error.       *)
GlCalls == {"drop", "allocate", "chunk", "retire", "primitives", "pattern", "glyph"}

ASSUME RendererAssumption ==
    /\ Edges \in [PreparedScenes -> Nat]
    /\ TileBytes \in [Tiles -> Nat] /\ IsFiniteSet(Tiles)
    /\ \A s \in PreparedScenes : SceneTiles[s] \in Seq(Tiles)
    /\ {MaximumCacheBytes, MaximumBytesPerFrame, MaximumImageTextureBytes} \subseteq Nat
    /\ Failing \subseteq GlCalls
    /\ Nothing \notin PreparedScenes /\ \A s \in PreparedScenes : Fingerprint[s] # Nothing

----------------------------------------------------------------------------
(* State.  `data` is what each curve buffer holds, a scene for each edge.  *)
(* Of the tiles, `textures` is the tile behind every live texture name,    *)
(* `images` the cache, a tile's texture and when it was last asked for,    *)
(* and `bytes` what the renderer counts as cached (image_texture_bytes).   *)
(* `torn` is history: the glyph atlas failed after the pattern atlas had   *)
(* been replaced, and the two have not been uploaded together since.       *)

Idle == [scene |-> Nothing, images |-> <<>>, next |-> 0, allocated |-> FALSE,
         drop |-> FALSE, fingerprint |-> Nothing, atlases |-> TRUE]

NoTiles == [textures |-> <<>>, images |-> <<>>, bytes |-> 0, stamp |-> 0]

Abandoned ==
    [initialized |-> FALSE,
     data |-> [b \in {0, 1} |-> <<>>], active |-> 0, active_bytes |-> 0,
     batches |-> Nothing, primitive_data |-> Nothing, primitive_batches |-> Nothing,
     image_batches |-> <<>>,
     cached |-> Nothing, uploaded |-> Nothing, pattern |-> Nothing, glyph |-> Nothing,
     torn |-> FALSE,
     upload_pending |-> FALSE, pending |-> Idle,
     tiles |-> NoTiles]

(* A context that is lost takes its textures along; release deletes them.  *)
initialize == [Abandoned EXCEPT !.initialized = TRUE]

(* GpuUploadSchedule::plan: whole edges only, never more than the cache.   *)
Planned(s) == /\ MaximumCacheBytes > 0
              /\ MaximumBytesPerFrame >= 1
              /\ Edges[s] <= MaximumCacheBytes

(* Chunk k begins behind as many full chunks, and there is one for every k *)
(* for which that is still short of the end.                               *)
Offset(k) == k * MaximumBytesPerFrame

InChunk(s, k) == {e \in 1..Edges[s] : Offset(k) < e /\ e <= Offset(k + 1)}

----------------------------------------------------------------------------
(* Image tiles.  A texture name is free again once its texture is deleted, *)
(* and glGenTextures hands out the smallest free one.                      *)

Without(f, S) == [y \in DOMAIN f \ S |-> f[y]]
With(f, x, v) == [y \in DOMAIN f \cup {x} |-> IF y = x THEN v ELSE f[y]]

FreeName(c) == CHOOSE n \in 1..(Cardinality(Tiles) + 1) :
                  /\ n \notin DOMAIN c.textures
                  /\ 1..(n - 1) \subseteq DOMAIN c.textures

(* The tiles asked for longest ago: any of them may be the one that the    *)
(* walk over the hash table meets first.                                   *)
Oldest(c) == {t \in DOMAIN c.images :
                \A u \in DOMAIN c.images : c.images[t].used <= c.images[u].used}

\* A plausible slip.
EvictWithoutDelete(c, t) == [c EXCEPT !.images = Without(@, {t}), !.bytes = @ - TileBytes[t]]

Evict(c, t) == [c EXCEPT !.textures = Without(@, {c.images[t].texture}),
                         !.images = Without(@, {t}),
                         !.bytes = @ - TileBytes[t]]

(* One turn of the loop that makes room for a tile, and the loop: the      *)
(* caches that may be left after n turns.                                  *)
EvictFor(c, t) ==
    IF DOMAIN c.images # {} /\ c.bytes + TileBytes[t] > MaximumImageTextureBytes
    THEN {Evict(c, v) : v \in Oldest(c)} ELSE {c}

Evictions(c, t) ==
    LET left[n \in 0..Cardinality(Tiles)] ==
          IF n = 0 THEN {c} ELSE UNION {EvictFor(q, t) : q \in left[n - 1]}
    IN  left

MakeRoom(c, t) == Evictions(c, t)[Cardinality(Tiles)]

AddTexture(c, t) ==
    LET name == FreeName(c)
    IN  [c EXCEPT !.textures = With(@, name, t),
                  !.images = With(@, t, [texture |-> name, used |-> c.stamp]),
                  !.bytes = @ + TileBytes[t]]

(* upload_image_tile: the cached texture, a new one, or none when the host *)
(* has no pixels for the tile or the tile alone exceeds the budget.        *)
upload_image_tile(c, t, resolved) ==
    IF t \in DOMAIN c.images THEN {[c EXCEPT !.images[t].used = c.stamp]}
    ELSE IF t \notin resolved \/ TileBytes[t] > MaximumImageTextureBytes THEN {c}
    ELSE {AddTexture(q, t) : q \in MakeRoom(c, t)}

(* The tiles of a scene are loaded one after the other, and each batch     *)
(* keeps the name its texture had at that moment.                          *)
Emitted(emission, c, t) ==
    [cache |-> c,
     batches |-> IF t \in DOMAIN c.images
                 THEN Append(emission.batches, [tile |-> t, texture |-> c.images[t].texture])
                 ELSE emission.batches]

EmitTile(emission, t, resolved) ==
    {Emitted(emission, c, t) : c \in upload_image_tile(emission.cache, t, resolved)}

Emissions(c, s, resolved) ==
    LET emitted[n \in 0..Len(SceneTiles[s])] ==
          IF n = 0 THEN {[cache |-> c, batches |-> <<>>]}
          ELSE UNION {EmitTile(e, SceneTiles[s][n], resolved) : e \in emitted[n - 1]}
    IN  emitted

EmitImages(c, s, resolved) == Emissions(c, s, resolved)[Len(SceneTiles[s])]

----------------------------------------------------------------------------
(* queue_upload replaces whatever upload was pending.  Bitmaps are drawn   *)
(* only for a new fingerprint; the textures are filled when the upload     *)
(* completes, and only if they hold another one.                           *)

QueueAccepts(r, s) == r.initialized /\ Planned(s)

\* A plausible slip.
QueuedWhileAllocated(r, s) ==
    [r EXCEPT !.cached = Fingerprint[s], !.upload_pending = TRUE,
              !.pending = [scene |-> s, images |-> <<>>, next |-> 0,
                           allocated |-> r.pending.allocated,
                           drop |-> r.active_bytes > MaximumCacheBytes - Edges[s],
                           fingerprint |-> Fingerprint[s],
                           atlases |-> r.uploaded # Fingerprint[s]]]

\* A plausible slip.
QueuedBesideActive(r, s) ==
    [r EXCEPT !.cached = Fingerprint[s], !.upload_pending = TRUE,
              !.pending = [scene |-> s, images |-> <<>>, next |-> 0, allocated |-> FALSE,
                           drop |-> r.active_bytes > MaximumCacheBytes,
                           fingerprint |-> Fingerprint[s],
                           atlases |-> r.uploaded # Fingerprint[s]]]

Queued(r, s) ==
    [r EXCEPT !.cached = Fingerprint[s], !.upload_pending = TRUE,
              !.pending = [scene |-> s, images |-> <<>>, next |-> 0, allocated |-> FALSE,
                           drop |-> r.active_bytes > MaximumCacheBytes - Edges[s],
                           fingerprint |-> Fingerprint[s],
                           atlases |-> r.uploaded # Fingerprint[s]]]

(* The renderers that queue_upload may leave behind.                       *)
queue_upload(r, s, resolved) ==
    {[Queued(r, s) EXCEPT !.tiles = e.cache, !.pending.images = e.batches] :
        e \in EmitImages(r.tiles, s, resolved)}

Staging(r) == 1 - r.active

(* The GL calls of upload_next, in order.  A call is due when its          *)
(* condition holds at its turn; the first error ends the upload.           *)
LastChunkIn(r) == Offset(r.pending.next) >= Edges[r.pending.scene]

Due(r, call) ==
    CASE call = "drop" -> r.pending.drop /\ ~r.pending.allocated
      [] call = "allocate" -> ~r.pending.allocated
      [] call = "chunk" -> ~LastChunkIn(r)
      [] call \in {"pattern", "glyph"} -> LastChunkIn(r) /\ r.pending.atlases
      [] OTHER -> LastChunkIn(r)

DropActive(r) ==
    [r EXCEPT !.data[r.active] = <<>>, !.batches = Nothing, !.active_bytes = 0]

AllocateStaging(r) ==
    [r EXCEPT !.data[Staging(r)] = [e \in 1..Edges[r.pending.scene] |-> Nothing],
              !.pending.allocated = TRUE]

UploadChunk(r) ==
    LET s == r.pending.scene
        chunk == InChunk(s, r.pending.next)
    IN  [r EXCEPT !.data[Staging(r)] = [e \in DOMAIN @ |-> IF e \in chunk THEN s ELSE @[e]],
                  !.pending.next = @ + 1]

(* The old buffer is emptied and the buffers change places: from here on   *)
(* the curves drawn are the new scene's.                                   *)
SwapBuffers(r) ==
    [r EXCEPT !.data[r.active] = <<>>, !.active = 1 - @,
              !.batches = r.pending.scene, !.active_bytes = Edges[r.pending.scene]]

UploadGlyph(r) ==
    [r EXCEPT !.glyph = r.pending.fingerprint, !.uploaded = r.pending.fingerprint,
              !.torn = FALSE]

Publish(r) ==
    [r EXCEPT !.primitive_batches = r.pending.scene, !.image_batches = r.pending.images,
              !.pending = Idle, !.upload_pending = FALSE]

Effect(r, call) ==
    CASE call = "drop" -> DropActive(r)
      [] call = "allocate" -> AllocateStaging(r)
      [] call = "chunk" -> UploadChunk(r)
      [] call = "retire" -> SwapBuffers(r)
      [] call = "primitives" -> [r EXCEPT !.primitive_data = r.pending.scene]
      [] call = "pattern" -> [r EXCEPT !.pattern = r.pending.fingerprint]
      [] call = "glyph" -> UploadGlyph(r)
      [] call = "publish" -> Publish(r)

(* An error ends the upload; what the calls before it did stays done.      *)
BrokenOff(r, call) ==
    [r EXCEPT !.upload_pending = FALSE, !.torn = @ \/ call = "glyph"]

(* What a call may leave behind: its effect, or the end of the upload.     *)
Issue(r, call) ==
    IF ~r.upload_pending \/ ~Due(r, call) THEN {r}
    ELSE {Effect(r, call)} \cup
         (IF call \in Failing THEN {BrokenOff(r, call)} ELSE {})

(* upload_next: one chunk a call, and everything else with the last one.   *)
Then(R, call) == UNION {Issue(q, call) : q \in R}

Staged(r) == Then(Then(Then({r}, "drop"), "allocate"), "chunk")

upload_next(r) ==
    Then(Then(Then(Then(Then(Staged(r), "retire"), "primitives"), "pattern"), "glyph"), "publish")

(* What upload_next reports of the call that led from r to q.              *)
Completed(r, q) == r.upload_pending /\ ~q.upload_pending /\ q.pending = Idle

(* render: a new recency for the image tiles, and the picture.  A texture  *)
(* name that was deleted draws nothing.                                    *)
Advance(r) == IF \E t \in DOMAIN r.tiles.images : r.tiles.images[t].used = r.tiles.stamp
              THEN [r EXCEPT !.tiles.stamp = @ + 1] ELSE r

ShownTiles(r) == [i \in DOMAIN r.image_batches |->
                    LET quad == r.image_batches[i]
                    IN  [tile |-> quad.tile,
                         shows |-> IF quad.texture \in DOMAIN r.tiles.textures
                                   THEN r.tiles.textures[quad.texture] ELSE Nothing]]

Picture(r) == [curves |-> r.batches, data |-> r.data[r.active],
               primitives |-> r.primitive_batches, vertices |-> r.primitive_data,
               pattern |-> r.pattern, glyph |-> r.glyph, tiles |-> ShownTiles(r)]

Blank == [curves |-> Nothing, data |-> <<>>, primitives |-> Nothing, vertices |-> Nothing,
          pattern |-> Nothing, glyph |-> Nothing, tiles |-> <<>>]
=============================================================================
