---------------------------- MODULE WellLogView ----------------------------
(***************************************************************************)
(* The Qt widget (src/src/qtwidgets/well_log_view.cpp) and the renderer it *)
(* drives.  A paint pushes the session's surface scene to the renderer if  *)
(* it is neither the uploaded nor the queued one, moves the upload on by a *)
(* chunk and draws what the renderer holds.  Qt paints when something has  *)
(* called update(): a session event, the pointer, or the timer that the    *)
(* widget arms while an upload goes on.                                    *)
(*                                                                         *)
(* Which scene the session has is its own affair (WellSurface.tla): here   *)
(* it changes with an event.  Two focused wells in turn bring the same     *)
(* scene back.                                                             *)
(***************************************************************************)
EXTENDS GlRenderer

CONSTANTS Resolvers,   \* sets of tiles a host resolver has pixels for
          MaxEvents    \* bound: events from outside the widget

VARIABLES
    scene,          \* WellLogSession::prepared_surface_scene, or Nothing
    uploaded_scene, queued_scene,
    image_resolver, image_resolver_dirty,
    resolver,       \* the resolver the renderer has
    gl,             \* the renderer
    context,        \* "none", "new" or "verified": the OpenGL context
    graphics,       \* capability_report.graphics_available
    repaint,        \* an update() is due
    timer,          \* the single-shot timer runs
    picture,        \* what the last paint drew
    fatal,          \* the last paint ended in publish_fatal_error
    events

view == <<scene, uploaded_scene, queued_scene>>
host == <<image_resolver, image_resolver_dirty>>
view_vars == <<scene, uploaded_scene, queued_scene, image_resolver, image_resolver_dirty,
          resolver, gl, context, graphics, repaint, timer, picture, fatal, events>>

ViewInit ==
    /\ scene = Nothing /\ uploaded_scene = Nothing /\ queued_scene = Nothing
    /\ image_resolver = {} /\ image_resolver_dirty = FALSE /\ resolver = {}
    /\ gl = Abandoned /\ context = "none" /\ graphics = FALSE
    /\ repaint = FALSE /\ timer = FALSE
    /\ picture = Blank /\ fatal = FALSE
    /\ events = 0

Event == events < MaxEvents /\ events' = events + 1

----------------------------------------------------------------------------
(* Events.                                                                 *)

(* initializeGL, at the start and after a context was lost: the context    *)
(* lacks a capability, a shader or a buffer fails, or the renderer is set. *)
InitializeGL ==
    /\ Event /\ context = "none"
    /\ context' = "new" /\ repaint' = TRUE
    /\ \/ /\ gl' = initialize /\ graphics' = TRUE /\ image_resolver_dirty' = TRUE
       \/ /\ graphics' = FALSE /\ UNCHANGED <<gl, image_resolver_dirty>>
    /\ UNCHANGED <<view, image_resolver, resolver, timer, picture, fatal>>

\* A plausible slip.
cleanup_contextForgetsGraphics ==
    /\ Event /\ context # "none"
    /\ context' = "none" /\ gl' = Abandoned
    /\ uploaded_scene' = Nothing /\ queued_scene' = Nothing
    /\ UNCHANGED <<scene, host, resolver, graphics, repaint, timer, picture, fatal>>

(* cleanup_context, when the context is about to be destroyed.             *)
cleanup_context ==
    /\ Event /\ context # "none"
    /\ context' = "none" /\ gl' = Abandoned /\ graphics' = FALSE
    /\ uploaded_scene' = Nothing /\ queued_scene' = Nothing
    /\ UNCHANGED <<scene, host, resolver, repaint, timer, picture, fatal>>

(* handle_session_event: the surface has another scene, and Qt repaints.   *)
handle_session_event ==
    /\ Event
    /\ \E s \in PreparedScenes \cup {Nothing} : s # scene /\ scene' = s
    /\ repaint' = TRUE
    /\ UNCHANGED <<uploaded_scene, queued_scene, host, resolver, gl, context, graphics,
                   timer, picture, fatal>>

set_document_id ==
    /\ Event
    /\ \E s \in PreparedScenes \cup {Nothing} : scene' = s
    /\ uploaded_scene' = Nothing /\ queued_scene' = Nothing
    /\ repaint' = TRUE
    /\ UNCHANGED <<host, resolver, gl, context, graphics, timer, picture, fatal>>

(* set_image_tile_resolver does not ask for a repaint.                     *)
set_image_tile_resolver ==
    /\ Event
    /\ \E R \in Resolvers : R # image_resolver /\ image_resolver' = R
    /\ image_resolver_dirty' = TRUE
    /\ UNCHANGED <<view, resolver, gl, context, graphics, repaint, timer, picture, fatal>>

(* The pointer moves, the viewport changes: update() and the same scene.   *)
update_pointer ==
    /\ Event /\ ~repaint
    /\ repaint' = TRUE
    /\ UNCHANGED <<view, host, resolver, gl, context, graphics, timer, picture, fatal>>

Timeout ==
    /\ timer
    /\ timer' = FALSE /\ repaint' = TRUE
    /\ UNCHANGED <<view, host, resolver, gl, context, graphics, picture, fatal, events>>

----------------------------------------------------------------------------
(* paintGL.  The first paint of a context also looks at its framebuffer    *)
(* and may find that it has no stencil.                                    *)

NeedsUpload == scene \notin {Nothing, uploaded_scene, queued_scene}

(* A paint that ends in publish_fatal_error draws nothing, and the widget  *)
(* keeps no part of an earlier picture (NoPartialUpdate).                  *)
Gives_up ==
    /\ fatal' = TRUE /\ picture' = Blank
    /\ UNCHANGED <<uploaded_scene, timer>>

\* A plausible slip.
DrawsWithoutTimer(r, q) ==
    /\ gl' = Advance(q)
    /\ picture' = IF uploaded_scene' = Nothing THEN Blank ELSE Picture(q)
    /\ fatal' = FALSE
    /\ UNCHANGED timer

Draws(r, q) ==
    /\ gl' = Advance(q)
    /\ picture' = IF uploaded_scene' = Nothing THEN Blank ELSE Picture(q)
    /\ fatal' = FALSE
    /\ timer' = (timer \/ q.upload_pending)

(* The upload queued, moved on and drawn; r is the renderer with q queued. *)
Advances(r, queued) ==
    IF queued = Nothing
    THEN UNCHANGED <<uploaded_scene, queued_scene, timer>> /\ fatal' = FALSE
         /\ gl' = Advance(r)
         /\ picture' = IF uploaded_scene = Nothing THEN Blank ELSE Picture(r)
    ELSE \E q \in upload_next(r) :
               \/ /\ Completed(r, q)
                  /\ uploaded_scene' = queued /\ queued_scene' = Nothing
                  /\ Draws(r, q)
               \/ /\ q.upload_pending
                  /\ queued_scene' = queued /\ UNCHANGED uploaded_scene
                  /\ Draws(r, q)
               \/ /\ ~q.upload_pending /\ ~Completed(r, q)
                  /\ gl' = q /\ queued_scene' = queued
                  /\ Gives_up

paintGL ==
    /\ repaint /\ repaint' = FALSE
    /\ UNCHANGED <<scene, image_resolver, events>>
    /\ context' = IF graphics /\ context = "new" THEN "verified" ELSE context
    /\ graphics' \in {graphics} \cup (IF context = "new" THEN {FALSE} ELSE {})
    /\ \/ /\ ~graphics'
          /\ UNCHANGED <<uploaded_scene, queued_scene, image_resolver_dirty, resolver,
                         gl, timer, picture, fatal>>
       \/ /\ graphics' /\ NeedsUpload
          /\ resolver' = IF image_resolver_dirty THEN image_resolver ELSE resolver
          /\ image_resolver_dirty' = FALSE
          /\ \/ /\ ~QueueAccepts(gl, scene)
                /\ UNCHANGED <<gl, queued_scene>>
                /\ Gives_up
             \/ /\ QueueAccepts(gl, scene)
                /\ \E r \in queue_upload(gl, scene, resolver') : Advances(r, scene)
       \/ /\ graphics' /\ ~NeedsUpload
          /\ UNCHANGED <<image_resolver_dirty, resolver>>
          /\ Advances(gl, queued_scene)

ViewNext ==
    \/ InitializeGL \/ cleanup_context \/ handle_session_event \/ set_document_id
    \/ set_image_tile_resolver \/ update_pointer \/ Timeout \/ paintGL

(* Qt delivers a paint that is due and a timer that has run out.           *)
ViewSpec ==
    ViewInit /\ [][ViewNext]_view_vars /\ WF_view_vars(paintGL) /\ WF_view_vars(Timeout)

----------------------------------------------------------------------------
(* Properties.                                                             *)

(* Every variable has its type, and the renderer's tables agree.           *)
ViewTypeOK ==
    /\ {scene, uploaded_scene, queued_scene} \subseteq PreparedScenes \cup {Nothing}
    /\ {image_resolver_dirty, graphics, repaint, timer, fatal} \subseteq BOOLEAN
    /\ context \in {"none", "new", "verified"} /\ gl.active \in {0, 1}
    /\ (graphics => context # "none" /\ gl.initialized)
    /\ DOMAIN gl.tiles.images \subseteq Tiles /\ Range(gl.tiles.textures) \subseteq Tiles

(* A scene that the widget takes for uploaded is on the GPU: every edge of *)
(* the active buffer, the batches that draw it, the primitives and the     *)
(* glyph atlas are that scene's, whatever uploads were superseded, refused *)
(* or broken off before (queue_upload, upload_next).  So is the pattern    *)
(* atlas, unless the last two atlases came apart: an upload that fails at  *)
(* its last texture has replaced the patterns and keeps the old            *)
(* fingerprint, by which a later scene takes them for its own.             *)
UploadedIsWhole ==
    uploaded_scene # Nothing /\ queued_scene = Nothing =>
        /\ gl.batches = uploaded_scene
        /\ gl.data[gl.active] = [e \in 1..Edges[uploaded_scene] |-> uploaded_scene]
        /\ gl.primitive_data = uploaded_scene /\ gl.primitive_batches = uploaded_scene
        /\ gl.glyph = Fingerprint[uploaded_scene]
        /\ gl.torn \/ gl.pattern = Fingerprint[uploaded_scene]

(* The two curve buffers together never exceed the cache budget, also      *)
(* while one scene is drawn and the next is uploaded (ADR 0034).           *)
CurveMemoryWithinBudget == Len(gl.data[0]) + Len(gl.data[1]) <= MaximumCacheBytes

(* What the widget draws was uploaded whole, within the budget of buffers. *)
ViewDrawsOneScene == UploadedIsWhole /\ CurveMemoryWithinBudget

(* The size of a set of tiles, added up in some order of all of them.      *)
SizeUpTo(S) ==
    LET order == SetToSeq(Tiles)
        size[n \in 0..Cardinality(Tiles)] ==
          IF n = 0 THEN 0
          ELSE size[n - 1] + IF order[n] \in S THEN TileBytes[order[n]] ELSE 0
    IN  size

Bytes(S) == SizeUpTo(S)[Cardinality(Tiles)]

(* The textures alive on the GPU are those of the tile cache, one for each *)
(* tile, the bytes counted are theirs and fit the budget: eviction leaks   *)
(* no texture and the count does not drift (upload_image_tile).            *)
TileMemoryWithinBudget ==
    LET textures == gl.tiles.textures
        images == gl.tiles.images
    IN  /\ DOMAIN textures = {images[t].texture : t \in DOMAIN images}
        /\ \A t \in DOMAIN images : textures[images[t].texture] = t
        /\ gl.tiles.bytes = Bytes(DOMAIN images)
        /\ gl.tiles.bytes <= MaximumImageTextureBytes

(* An upload that the widget waits for ends: it is shown, replaced or      *)
(* given up, and no paint leaves it half done with nothing to wake it.     *)
QueuedUploadEnds == (queued_scene # Nothing /\ gl.upload_pending)
                       ~> (queued_scene = Nothing \/ ~gl.upload_pending)

(* Once no paint is due, the widget shows the session's scene.             *)
SettledViewShowsScene ==
    (graphics /\ ~repaint /\ ~timer /\ ~fatal /\ scene # Nothing) => uploaded_scene = scene

(* The texture of every image tile drawn holds that tile: eviction makes   *)
(* a tile dearer to draw and never changes what is drawn.                  *)
ImagesShowTheirTiles ==
    \A i \in DOMAIN picture.tiles : picture.tiles[i].shows = picture.tiles[i].tile
=============================================================================
