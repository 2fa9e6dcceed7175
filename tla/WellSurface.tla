---------------------------- MODULE WellSurface ----------------------------
(***************************************************************************)
(* The surface on which a WellLogSession shows several wells side by side  *)
(* (src/session/session.cpp): layout, shared depth window, horizontal      *)
(* window, focus, crosshair, depth transforms, marker alignment, overlays  *)
(* between wells, and the composed scene prepared_surface_scene() caches.  *)
(*                                                                         *)
(* Each well has a slot of SessionSlot; its tasks are abstracted to what   *)
(* SessionAsync shows of them: a LOD ends ready or unavailable, and an     *)
(* awaited frame (frame_generation 1) ends in a scene of the current       *)
(* document, presentation and window.  A presentation is its depth         *)
(* transform; every scene is SceneWidth wide and equally high.             *)
(*                                                                         *)
(* The commands of the surface run one inner command per well and may fail *)
(* half-way, so each is an operator on the session's maps, a record, with  *)
(* the outcome in its field ok.                                            *)
(***************************************************************************)
EXTENDS SessionSlot, Integers, SequencesExt

CONSTANTS
  Wells,
  DocumentsOf,      \* [Wells -> SUBSET Documents]: what the host may load
  Identity,         \* the identity depth transform
  Alignment,        \* [Documents \X Documents -> transform, or None]
  Layouts,          \* the layouts the host may ask for
  Overlays,         \* sets of overlays <<left well, right well>>
  HorizontalViews,  \* windows <<left, right>> in millimetres
  SceneWidth, DefaultWidth, Gap,
  Crosshairs,
  MaxCommands       \* bound: commands the host runs

Transforms == Presentations

Placements == [well : Wells, left : Int, width : Int, visible : BOOLEAN]

ASSUME SurfaceAssumption ==
  /\ IsFiniteSet(Wells)
  /\ DocumentsOf \in [Wells -> SUBSET Documents]
  /\ Identity \in Transforms
  /\ Alignment \in [Documents \X Documents -> Transforms \cup {None}]
  /\ Layouts \subseteq Seq(Placements)
  /\ \A o \in Overlays : o \subseteq Wells \X Wells
  /\ HorizontalViews \subseteq Int \X Int
  /\ {SceneWidth, DefaultWidth, Gap} \subseteq Int
  /\ MaxCommands \in Nat

VARIABLES
  session,   \* the maps of the session, see SessionMaps
  cached,    \* surface_cache_scene with the placements of its key, or None
  strayed,   \* wells whose own window was set since they last followed
  aligned,   \* what the last successful alignment covered, or None
  commands   \* commands run so far

surface_vars == <<session, cached, strayed, aligned, commands>>

(***************************************************************************)
(* A cache key holds scene addresses.  pinned is the set of wells whose    *)
(* address in the key is that of their current scene; same_generation says *)
(* that the key's surface_generation is the current one.  Two fields are   *)
(* history, and no step depends on them: since the cached surface was      *)
(* composed, the recycled wells have had a scene at an address that was    *)
(* another scene's, and the remapped ones have been given a transform.     *)
(***************************************************************************)
SessionMaps ==
  [slots : [Wells -> Slots({0, 1})],
   transforms : [Wells -> Transforms \cup {None}],
   crosshairs : [Wells -> Crosshairs \cup {None}],
   layout : Seq(Placements),
   shared : Viewports \cup {None},
   horizontal_view : (Int \X Int) \cup {None},
   focused : Wells \cup {None},
   overlays : SUBSET (Wells \X Wells),
   pinned : SUBSET Wells,
   same_generation : BOOLEAN,
   recycled : SUBSET Wells,
   remapped : SUBSET Wells,
   ok : BOOLEAN]

\* Types, and what the session keeps together: no surface is cached that shows
\* no well, and no window is shared before a well is laid out.
SurfaceTypeOK ==
  /\ session \in SessionMaps
  /\ strayed \subseteq Wells
  /\ cached # None => cached.placements # <<>>
  /\ session.shared # None => session.layout # <<>>

EmptySession ==
  [slots |-> [w \in Wells |-> EmptySlot],
   transforms |-> [w \in Wells |-> None],
   crosshairs |-> [w \in Wells |-> None],
   layout |-> <<>>, shared |-> None, horizontal_view |-> None,
   focused |-> None, overlays |-> {}, pinned |-> {},
   same_generation |-> FALSE, recycled |-> {}, remapped |-> {}, ok |-> TRUE]

SurfaceInit ==
  /\ session = EmptySession
  /\ cached = None
  /\ strayed = {}
  /\ aligned = None
  /\ commands = 0

-----------------------------------------------------------------------------
Fail(s) == [s EXCEPT !.ok = FALSE]

Members(layout) == {layout[i].well : i \in DOMAIN layout}

VisibleMembers(layout) ==
  {layout[i].well : i \in {j \in DOMAIN layout : layout[j].visible}}

(***************************************************************************)
(* prepared_scenes[w] is replaced.  The new scene is allocated while the   *)
(* old one is alive, so it never has the address the key holds for a live  *)
(* scene; it may have one that was freed since, if the allocator reuses it.*)
(***************************************************************************)
PinnedAfterNewScene(s, w, reuse) ==
  IF w \in s.pinned THEN s.pinned \ {w}
  ELSE IF reuse THEN s.pinned \cup {w} ELSE s.pinned

RecycledAfterNewScene(s, w, reuse) ==
  IF w \notin s.pinned /\ reuse THEN s.recycled \cup {w} ELSE s.recycled

\* execute(SetDocumentCommand): the stored depth transform stays.
SetDocumentIn(s, w, doc) ==
  [s EXCEPT !.slots[w] = AfterSetDocument(@, doc, "none", 1),
            !.crosshairs[w] = None,
            !.pinned = @ \ {w}]

SetPresentationIn(s, w, p, reuse) ==
  LET slot == s.slots[w] IN
  IF slot.document = None \/ slot.preparation.state = "unavailable" THEN Fail(s)
  ELSE [s EXCEPT !.slots[w] = AfterSetPresentation(slot, p, 1),
                 !.crosshairs[w] = None,
                 !.pinned = IF PreparedInline(slot)
                            THEN PinnedAfterNewScene(s, w, reuse) ELSE @,
                 !.recycled = IF PreparedInline(slot)
                              THEN RecycledAfterNewScene(s, w, reuse) ELSE @]

SetViewportMetricsIn(s, w, v) ==
  IF s.slots[w].document = None \/ s.slots[w].viewport = None THEN Fail(s)
  ELSE [s EXCEPT !.slots[w] = AfterSetViewportMetrics(@, v, 1)]

-----------------------------------------------------------------------------
(***************************************************************************)
(* execute(SetWellLayoutCommand): every well must have a document; packing *)
(* gives each its place once and for all, with the width it has now.       *)
(***************************************************************************)
PackedWidth(s, p) ==
  IF p.width > 0 THEN p.width
  ELSE IF s.slots[p.well].scene # None \/ s.slots[p.well].presentation # None
  THEN SceneWidth
  ELSE DefaultWidth

\* Where the next well goes, after the first i.
Cursor(s, wells) ==
  LET cursor[i \in 0 .. Len(wells)] ==
        IF i = 0 THEN 0 ELSE cursor[i - 1] + PackedWidth(s, wells[i]) + Gap
  IN cursor

Packed(s, wells) ==
  [i \in DOMAIN wells |-> [wells[i] EXCEPT !.left = Cursor(s, wells)[i - 1],
                                          !.width = PackedWidth(s, wells[i])]]

\* Mutant: clearing the layout keeps the shared window.
ClearWellLayoutKeepsWindow(s) ==
  [s EXCEPT !.layout = <<>>, !.horizontal_view = None, !.same_generation = FALSE]

ClearWellLayoutIn(s) ==
  [s EXCEPT !.layout = <<>>, !.shared = None, !.horizontal_view = None,
            !.same_generation = FALSE]

SetWellLayoutIn(s, wells, pack) ==
  IF wells = <<>> THEN ClearWellLayoutIn(s)
  ELSE IF \E w \in Members(wells) : s.slots[w].document = None THEN Fail(s)
  ELSE [s EXCEPT !.layout = IF pack THEN Packed(s, wells) ELSE wells,
                 !.same_generation = FALSE]

(***************************************************************************)
(* execute(SetSharedDepthViewportCommand): the window is recorded, then    *)
(* each visible well is moved in turn until one refuses.  With no visible  *)
(* well the command reports an error, and has recorded the window.  The    *)
(* session after the first i placements is WellsMoved(s, v)[i].            *)
(***************************************************************************)
WellsMoved(s, v) ==
  LET moved[i \in 0 .. Len(s.layout)] ==
        IF i = 0 THEN s
        ELSE IF moved[i - 1].ok /\ s.layout[i].visible
        THEN SetViewportMetricsIn(moved[i - 1], s.layout[i].well, v)
        ELSE moved[i - 1]
  IN moved

Broadcast(s, v) ==
  IF VisibleMembers(s.layout) = {} THEN Fail(s) ELSE WellsMoved(s, v)[Len(s.layout)]

SetSharedDepthViewportIn(s, v) ==
  IF s.layout = <<>> THEN Fail(s) ELSE Broadcast([s EXCEPT !.shared = v], v)

\* Mutant: a member of the layout is moved alone.
SetViewportAlone(s, w, v) == SetViewportMetricsIn(s, w, v)

\* execute(SetViewportCommand)
SetViewportIn(s, w, v) ==
  IF w \in Members(s.layout) THEN SetSharedDepthViewportIn(s, v)
  ELSE SetViewportMetricsIn(s, w, v)

\* viewport(): a member of the layout reports the shared window.
ReportedViewport(s, w) ==
  IF s.shared # None /\ w \in Members(s.layout) THEN s.shared
  ELSE s.slots[w].viewport

(***************************************************************************)
(* execute(SetDepthTransformCommand): the transform is recorded first and  *)
(* reaches the presentation, if there is one, by setting it again.         *)
(***************************************************************************)
SetDepthTransformIn(s, w, t, reuse) ==
  LET stored == [s EXCEPT !.transforms[w] = t, !.remapped = @ \cup {w}] IN
  IF s.slots[w].document = None THEN Fail(s)
  ELSE IF s.slots[w].presentation = None THEN stored
  ELSE SetPresentationIn(stored, w, t, reuse)

(***************************************************************************)
(* execute(AlignWellsToMarkersCommand): identity on the target, then well  *)
(* after well until one fails, then a layout if there is none, then the    *)
(* shared window if a valid one is given.                                  *)
(***************************************************************************)
AlignOne(s, w, target, reuse) ==
  LET doc == s.slots[w].document
      transform == Alignment[doc, s.slots[target].document]
  IN IF doc = None \/ transform = None THEN Fail(s)
     ELSE SetDepthTransformIn(s, w, transform, reuse)

PlaceWells(s, wells) ==
  SetWellLayoutIn(s, [i \in DOMAIN wells |->
                        [well |-> wells[i], left |-> 0, width |-> 0, visible |-> TRUE]],
                  TRUE)

\* The session after the first i wells.
WellsAligned(s, target, wells, reuse) ==
  LET done[i \in 0 .. Len(wells)] ==
        IF i = 0 THEN s
        ELSE IF done[i - 1].ok THEN AlignOne(done[i - 1], wells[i], target, reuse)
        ELSE done[i - 1]
  IN done

\* Mutant: the target keeps the transform it had.
AlignKeepsTarget(s, target, wells, v, reuse) ==
  LET moved == WellsAligned(s, target, wells, reuse)[Len(wells)]
      placed == IF moved.layout = <<>> THEN PlaceWells(moved, <<target>> \o wells)
                ELSE moved
  IN IF s.slots[target].document = None \/ wells = <<>> THEN Fail(s)
     ELSE IF ~moved.ok \/ v = None THEN moved
     ELSE IF ~placed.ok THEN placed
     ELSE SetSharedDepthViewportIn(placed, v)

AlignWellsToMarkersIn(s, target, wells, v, reuse) ==
  LET first == SetDepthTransformIn(s, target, Identity, reuse)
      moved == WellsAligned(first, target, wells, reuse)[Len(wells)]
      placed == IF moved.layout = <<>> THEN PlaceWells(moved, <<target>> \o wells)
                ELSE moved
  IN IF s.slots[target].document = None \/ wells = <<>> THEN Fail(s)
     ELSE IF ~moved.ok \/ v = None THEN moved
     ELSE IF ~placed.ok THEN placed
     ELSE SetSharedDepthViewportIn(placed, v)

(***************************************************************************)
(* execute(SetCrosshairCommand): every visible member of the layout has    *)
(* the cursor of any of them.                                              *)
(***************************************************************************)
CrosshairTargets(s, w) ==
  IF w \in Members(s.layout)
  THEN {v \in VisibleMembers(s.layout) : s.slots[v].document # None}
  ELSE {w}

SetCrosshairIn(s, w, c) ==
  IF s.slots[w].document = None \/ s.slots[w].viewport = None THEN Fail(s)
  ELSE [s EXCEPT !.crosshairs = [v \in Wells |-> IF v \in CrosshairTargets(s, w)
                                                 THEN c ELSE @[v]]]

SetOverlaysIn(s, o) ==
  IF \E pair \in o : \E i \in 1 .. 2 : s.slots[pair[i]].document = None THEN Fail(s)
  ELSE [s EXCEPT !.overlays = o, !.same_generation = FALSE]

SetFocusedWellIn(s, w) ==
  IF s.slots[w].document = None THEN Fail(s) ELSE [s EXCEPT !.focused = w]

(***************************************************************************)
(* execute(PanSurfaceHorizontalCommand): the window stays on the surface,  *)
(* whose width is that of the visible wells.                               *)
(***************************************************************************)
PlacementWidth(s, p) ==
  IF p.width > 0 THEN p.width
  ELSE IF s.slots[p.well].scene = None THEN 0 ELSE SceneWidth

SurfaceWidth(s) ==
  Max({0} \cup {s.layout[i].left + PlacementWidth(s, s.layout[i]) :
                i \in {j \in DOMAIN s.layout : s.layout[j].visible}})

PanHorizontalIn(s, delta) ==
  LET left == s.horizontal_view[1]
      span == s.horizontal_view[2] - left
      rightmost == Max({0, SurfaceWidth(s) - span})
      next == Max({0, Min({left + delta, rightmost})})
  IN IF s.layout = <<>> \/ s.horizontal_view = None \/ SurfaceWidth(s) <= 0
     THEN Fail(s)
     ELSE [s EXCEPT !.horizontal_view = <<next, next + span>>]

-----------------------------------------------------------------------------
(***************************************************************************)
(* prepared_surface_scene: the visible wells that have a scene and meet    *)
(* the horizontal window, their overlays, and the cache.                   *)
(***************************************************************************)
Culled(s, p) ==
  /\ s.horizontal_view # None
  /\ \/ p.left + PlacementWidth(s, p) <= s.horizontal_view[1]
     \/ p.left >= s.horizontal_view[2]

Shown(s, p) ==
  /\ p.visible
  /\ s.slots[p.well].scene # None
  /\ ~Culled(s, p)

\* Those of the first i placements that are shown, in the order of the layout.
PlacementsShown(s) ==
  LET shown[i \in 0 .. Len(s.layout)] ==
        IF i = 0 THEN <<>>
        ELSE IF Shown(s, s.layout[i]) THEN Append(shown[i - 1], s.layout[i])
        ELSE shown[i - 1]
  IN shown

SurfacePlacements(s) == PlacementsShown(s)[Len(s.layout)]

\* What a placement contributes to the key, beside the address of its scene.
KeyOf(placements) ==
  [i \in DOMAIN placements |-> [well |-> placements[i].well, left |-> placements[i].left]]

\* depth_transform(): the transform stored for a well.
DepthTransform(s, w) == IF s.transforms[w] = None THEN Identity ELSE s.transforms[w]

(***************************************************************************)
(* The wells side by side, and the overlays between them: a marker of the  *)
(* well's document, mapped by the transform stored for the well, is put on *)
(* the well's scene.  The key holds neither document nor transform.        *)
(***************************************************************************)
Composed(s) ==
  LET placements == SurfacePlacements(s)
      drawn == {o \in s.overlays : {o[1], o[2]} \subseteq Members(placements)}
  IN [wells |-> [i \in DOMAIN placements |->
                   [well |-> placements[i].well, left |-> placements[i].left,
                    scene |-> s.slots[placements[i].well].scene]],
      overlays |-> {[ends |-> o,
                     documents |-> [i \in 1 .. 2 |-> s.slots[o[i]].document],
                     transforms |-> [i \in 1 .. 2 |-> DepthTransform(s, o[i])]] : o \in drawn}]

\* Mutant: the key leaves the generation out.
CacheHitAnyGeneration(s) ==
  /\ cached # None
  /\ cached.placements = KeyOf(SurfacePlacements(s))
  /\ Members(cached.placements) \subseteq s.pinned

CacheHit(s) ==
  /\ cached # None
  /\ cached.placements = KeyOf(SurfacePlacements(s))
  /\ Members(cached.placements) \subseteq s.pinned
  /\ s.same_generation

Compose ==
  LET placements == SurfacePlacements(session) IN
  /\ placements # <<>>
  /\ ~CacheHit(session)
  /\ cached' = [placements |-> KeyOf(placements), composed |-> Composed(session)]
  /\ session' = [session EXCEPT !.pinned = Members(placements),
                                !.same_generation = TRUE,
                                !.recycled = {}, !.remapped = {}]
  /\ UNCHANGED <<strayed, aligned, commands>>

-----------------------------------------------------------------------------
(***************************************************************************)
(* The host's commands.  `own` are wells whose window the command set for  *)
(* themselves, `moved` those it touched at all.                            *)
(***************************************************************************)
RunsCommand == commands < MaxCommands /\ commands' = commands + 1

Command(s, own, moved) ==
  /\ RunsCommand
  /\ session' = [s EXCEPT !.ok = TRUE]
  /\ strayed' = strayed \cup own
  /\ aligned' = IF aligned # None /\ moved \cap aligned # {} THEN None ELSE aligned
  /\ UNCHANGED cached

\* The wells a command that shares window v did not reach.
Unreached(s, v) == {w \in VisibleMembers(s.layout) : s.slots[w].viewport # v}

Shares(s, v) ==
  /\ RunsCommand
  /\ session' = [s EXCEPT !.ok = TRUE]
  /\ strayed' = IF s.ok THEN strayed \ VisibleMembers(s.layout)
                ELSE strayed \cup Unreached(s, v)
  /\ UNCHANGED <<cached, aligned>>

SetWellDocument(w, doc) ==
  /\ doc \in DocumentsOf[w]
  /\ Command(SetDocumentIn(session, w, doc), {w}, {w})

SetPresentation(w, p, reuse) ==
  Command(SetPresentationIn(session, w, p, reuse), {w}, {w})

SetViewportMetrics(w, v) ==
  Command(SetViewportMetricsIn(session, w, v), {w}, {})

\* SetViewport, PanDepth, ZoomDepthAt and ResetViewport.
SetViewport(w, v) ==
  LET s == SetViewportIn(session, w, v) IN
  /\ ReportedViewport(session, w) # None
  /\ IF w \in Members(session.layout) THEN Shares(s, v) ELSE Command(s, {}, {})

SetSharedDepthViewport(v) ==
  /\ session.layout # <<>>
  /\ Shares(SetSharedDepthViewportIn(session, v), v)

SetWellLayout(wells, pack) ==
  LET s == SetWellLayoutIn(session, wells, pack) IN
  Command(s, VisibleMembers(s.layout) \ VisibleMembers(session.layout), {})

SetDepthTransform(w, t, reuse) ==
  Command(SetDepthTransformIn(session, w, t, reuse), {w}, {w})

AlignWellsToMarkers(target, wells, v, reuse) ==
  LET s == AlignWellsToMarkersIn(session, target, wells, v, reuse)
      touched == {target} \cup ToSet(wells)
  IN
  /\ RunsCommand
  /\ session' = [s EXCEPT !.ok = TRUE]
  /\ strayed' = IF s.ok /\ v # None THEN strayed \ VisibleMembers(s.layout)
                ELSE strayed \cup touched \cup
                     {w \in VisibleMembers(s.layout) : s.slots[w].viewport # s.shared}
  /\ aligned' = IF s.ok THEN touched
                ELSE IF aligned # None /\ touched \cap aligned # {} THEN None
                ELSE aligned
  /\ UNCHANGED cached

SetCrosshair(w, c) == Command(SetCrosshairIn(session, w, c), {}, {})

SetCrossWellOverlays(o) == Command(SetOverlaysIn(session, o), {}, {})

SetFocusedWell(w) == Command(SetFocusedWellIn(session, w), {}, {})

SetSurfaceHorizontalView(v) ==
  Command([session EXCEPT !.horizontal_view = v], {}, {})

PanSurfaceHorizontal(delta) ==
  /\ session.horizontal_view # None
  /\ Command(PanHorizontalIn(session, delta), {}, {})

-----------------------------------------------------------------------------
(***************************************************************************)
(* poll_async, as far as one well is concerned: a LOD that has ended, and  *)
(* the frame it starts when there is something to show; and a frame that   *)
(* has ended, in a scene of what the well is now.                          *)
(***************************************************************************)
WithLod(slot) ==
  [slot EXCEPT !.preparation = [@ EXCEPT !.state = "ready",
                                         !.pyramids = slot.document.curves],
               !.frame_generation =
                 IF slot.presentation # None /\ slot.viewport # None THEN 1 ELSE @]

WithoutLod(slot) ==
  [slot EXCEPT !.preparation = [@ EXCEPT !.state = "unavailable"]]

WithFrame(slot) ==
  [slot EXCEPT !.frame_generation = 0,
               !.scene = [document |-> slot.document, presentation |-> slot.presentation,
                          pyramids |-> slot.preparation.pyramids,
                          viewport |-> slot.viewport]]

WithoutFrame(slot) == [slot EXCEPT !.frame_generation = 0]

LodEnds(w) ==
  /\ session.slots[w].preparation.state = "pending"
  /\ \/ session' = [session EXCEPT !.slots[w] = WithLod(@)]
     \/ session' = [session EXCEPT !.slots[w] = WithoutLod(@)]
  /\ UNCHANGED <<cached, strayed, aligned, commands>>

FrameEnds(w, reuse) ==
  /\ session.slots[w].frame_generation = 1
  /\ \/ session' = [session EXCEPT !.slots[w] = WithoutFrame(@)]
     \/ session' = [session EXCEPT !.slots[w] = WithFrame(@),
                                   !.pinned = PinnedAfterNewScene(session, w, reuse),
                                   !.recycled = RecycledAfterNewScene(session, w, reuse)]
  /\ UNCHANGED <<cached, strayed, aligned, commands>>

OtherWells(target) == SetToSeq(Wells \ {target})

SurfaceNext ==
  \/ Compose
  \/ \E w \in Wells :
       \/ \E doc \in DocumentsOf[w] : SetWellDocument(w, doc)
       \/ \E v \in Viewports : SetViewportMetrics(w, v)
       \/ \E v \in Viewports : SetViewport(w, v)
       \/ \E c \in Crosshairs \cup {None} : SetCrosshair(w, c)
       \/ SetFocusedWell(w)
       \/ LodEnds(w)
       \/ \E reuse \in BOOLEAN :
            \/ \E p \in Presentations : SetPresentation(w, p, reuse)
            \/ \E t \in Transforms : SetDepthTransform(w, t, reuse)
            \/ \E v \in Viewports \cup {None} :
                 AlignWellsToMarkers(w, OtherWells(w), v, reuse)
            \/ FrameEnds(w, reuse)
  \/ \E v \in Viewports : SetSharedDepthViewport(v)
  \/ \E wells \in Layouts, pack \in BOOLEAN : SetWellLayout(wells, pack)
  \/ \E o \in Overlays : SetCrossWellOverlays(o)
  \/ \E v \in HorizontalViews : SetSurfaceHorizontalView(v)
  \/ \E delta \in {-1, 1} : PanSurfaceHorizontal(delta)

SurfaceSpec == SurfaceInit /\ [][SurfaceNext]_surface_vars

-----------------------------------------------------------------------------
(***************************************************************************)
(* A visible well of the layout is at the shared window, as viewport()     *)
(* reports, unless a command of its own (or a failed broadcast) has moved  *)
(* it since: pan, zoom, reset and alignment all reach every visible well.  *)
(***************************************************************************)
WindowsInSync ==
  session.shared # None =>
    \A w \in VisibleMembers(session.layout) \ strayed :
      session.slots[w].viewport = session.shared

(***************************************************************************)
(* The composed scene that the cache returns has the wells and overlays of *)
(* the one that would be composed now, each well in its place.  Its scene  *)
(* is the well's current one, and an overlay leads to a marker of the      *)
(* well's current document, unless a new scene has been put where another  *)
(* was freed: the key tells scenes apart by address.  That marker is where *)
(* the well's transform maps it, unless the well has been given a          *)
(* transform since: the key does not hold it.                              *)
(***************************************************************************)
CachedSurfaceIsCurrent ==
  CacheHit(session) =>
    LET was == cached.composed
        now == Composed(session)
    IN /\ DOMAIN was.wells = DOMAIN now.wells
       /\ \A i \in DOMAIN now.wells :
            /\ was.wells[i].well = now.wells[i].well
            /\ was.wells[i].left = now.wells[i].left
            /\ now.wells[i].well \notin session.recycled =>
                 was.wells[i].scene = now.wells[i].scene
       /\ {o.ends : o \in was.overlays} = {o.ends : o \in now.overlays}
       /\ \A o \in now.overlays, p \in was.overlays, i \in 1 .. 2 :
            p.ends = o.ends /\ o.ends[i] \notin session.recycled =>
              /\ p.documents[i] = o.documents[i]
              /\ o.ends[i] \notin session.remapped => p.transforms[i] = o.transforms[i]

(***************************************************************************)
(* Drawn with transform t: in its presentation, if there is one, and, for  *)
(* a well that is prepared on the spot, in every scene of it.              *)
(***************************************************************************)
DrawnWith(w, t) ==
  LET slot == session.slots[w] IN
  /\ slot.presentation \in {t, None}
  /\ slot.preparation.state = "none" /\ slot.scene # None => slot.scene.presentation = t

(***************************************************************************)
(* As long as nothing else is done to the wells an alignment covered, the  *)
(* target is at reference depth and each other well's markers are drawn at *)
(* the target's.                                                           *)
(***************************************************************************)
AlignedWellsAgree ==
  aligned # None =>
    \E target \in aligned :
      /\ session.transforms[target] = Identity
      /\ \A w \in aligned \ {target} :
           session.transforms[w] =
             Alignment[session.slots[w].document, session.slots[target].document]
      /\ \A w \in aligned : DrawnWith(w, session.transforms[w])

\* What the surface shows is what its wells are: every visible well is at the
\* shared window unless a command of its own has moved it since; the composed
\* scene in the cache is the one that would be composed now, but for wells whose
\* scene took the address of a freed one or whose transform was set since; and
\* wells aligned to markers are drawn alike until something else is done to them
\* (session.cpp, the commands over several wells).
SurfaceShowsItsWells == WindowsInSync /\ CachedSurfaceIsCurrent /\ AlignedWellsAgree

(***************************************************************************)
(* A transform stored for a well is the one its presentation has: a        *)
(* comment says it is "applied when a presentation is next set".           *)
(***************************************************************************)
StoredTransformApplied ==
  \A w \in Wells :
    session.transforms[w] # None /\ session.slots[w].presentation # None
      => session.slots[w].presentation = session.transforms[w]
=============================================================================
