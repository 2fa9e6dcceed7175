--------------------------- MODULE MCInteractive ----------------------------
(***************************************************************************)
(* What a host edits and sees, each part on its own instance: the commands *)
(* over the wells of a surface (WellSurface), the patches and track      *)
(* commands of one document (MCPatchEdits), the widget and its renderer    *)
(* (WellLogView), a table model (TableSelection), the level of detail of   *)
(* a curve (MCCurveLod) and the preparation of a scene                     *)
(* (MCScenePreparation). A behaviour belongs to one of them, its subject.  *)
(*                                                                         *)
(* The table's documents have a rising and a falling axis or one of them,  *)
(* a depth may stand twice, and a range may hold none of the rows. Of the  *)
(* widget's scenes one is small, one does not fit the cache beside it, and *)
(* one has the first one's patterns and other edges.                       *)
(***************************************************************************)
EXTENDS WellSurface, TableSelection, WellLogView, TLC

CONSTANTS a, b, c, small, big, i1, identity, t1, full, v1, cross, axis, g,
          r, d, m, k, t2, s1, s2, l1, l2, fill, text, n1, n2, up, down, m1,
          nan, Missing

TwoWells == {a, b}
MCRevisions == {1, 2}
NothingMasked == [i \in {i1} |-> i]
MCDocumentsOf ==
  [w \in TwoWells |-> [revision : IF w = a THEN {1, 2} ELSE {1},
                      curves : {IF w = a THEN small ELSE big}, interpretation : {i1}]]
MCAlignment ==
  [p \in Documents \X Documents |-> IF p[1] = p[2] THEN identity ELSE t1]
Place(w, visible) == [well |-> w, left |-> 0, width |-> 0, visible |-> visible]
MCLayouts == {<<>>, <<Place(a, TRUE)>>, <<Place(a, TRUE), Place(b, TRUE)>>}
MCOverlays == {{}, {<<a, b>>}}
MCViews == {<<0, 2>>}

\* What a session comes to when its host loads a well and gives it a
\* presentation, and when it has done so for both, laid them out and drawn an
\* overlay between them: beside the empty session, where a behaviour starts
\* that has three commands left.
Loaded(s, w) ==
  SetPresentationIn(SetDocumentIn(s, w, CHOOSE doc \in DocumentsOf[w] : TRUE), w, identity, FALSE)
BothLaidOut ==
  SetOverlaysIn(SetWellLayoutIn(Loaded(Loaded(EmptySession, a), b),
                                <<Place(a, TRUE), Place(b, TRUE)>>, TRUE),
                {<<a, b>>})
SurfaceLaidOut ==
  /\ session = BothLaidOut /\ strayed = Wells
  /\ cached = None /\ aligned = None /\ commands = MaxCommands - 3

Axis(increasing, coordinates) == [increasing |-> increasing, coordinates |-> coordinates]
MCModels == {m1}
MCContents ==
  {up :> Axis(TRUE, <<1, 2, 3>>) @@ down :> Axis(FALSE, <<3, 2>>),
   up :> Axis(TRUE, <<2, 2, 3>>) @@ down :> Axis(FALSE, <<4, 3, 2>>),
   up :> Axis(TRUE, <<1, 3>>)}
MCRanges == {[top |-> 1, bottom |-> 2], [top |-> 2, bottom |-> 3], [top |-> 5, bottom |-> 6]}

MCScenes == {a, b, c}
MCEdges == a :> 2 @@ b :> 3 @@ c :> 1
MCFingerprint == a :> "p" @@ b :> "q" @@ c :> "p"
MCSceneTiles == a :> <<t1>> @@ b :> <<t1, t2>> @@ c :> <<>>
MCTileBytes == t1 :> 2 @@ t2 :> 1
MCResolvers == {{t1, t2}}

VARIABLES subject, edited, presentation, entry, refused, curve, other, budget, task, staged, published,
          how, request, stopped, kind, todo, ids, prepared, result

interactive_vars ==
  <<subject, edited, presentation, entry, refused, curve, other, budget, task,
    staged, published, how, request, stopped, kind, todo, ids, prepared, result,
    surface_vars, vars, view_vars>>

Edits == INSTANCE MCPatchEdits WITH document <- edited
Lod == INSTANCE MCCurveLod
Preparation == INSTANCE MCScenePreparation WITH scene <- prepared

ASSUME /\ Edits!EditsAssumption
       /\ Lod!LodAssumption
       /\ Preparation!SceneAssumption

\* While one part is the subject, the variables of the others rest.
BesideSurface ==
  <<edited, presentation, entry, refused, curve, other, budget, task, staged,
    published, how, request, stopped, kind, todo, ids, prepared, result, vars,
    view_vars>>
BesideEdits ==
  <<session, cached, strayed, aligned, curve, other, budget, task, staged,
    published, how, request, stopped, kind, todo, ids, prepared, result, vars,
    view_vars>>
BesideView ==
  <<session, cached, strayed, aligned, commands, edited, presentation, entry,
    refused, curve, other, budget, task, staged, published, how, request, stopped,
    kind, todo, ids, prepared, result, vars>>
BesideTable ==
  <<session, cached, strayed, aligned, commands, edited, presentation, entry,
    refused, curve, other, budget, task, staged, published, how, request, stopped,
    kind, todo, ids, prepared, result, view_vars>>
BesideLod ==
  <<session, cached, strayed, aligned, edited, presentation, entry, refused,
    request, stopped, kind, todo, ids, prepared, result, vars, view_vars>>
BesidePreparation ==
  <<session, cached, strayed, aligned, commands, edited, presentation, entry,
    refused, curve, other, budget, task, staged, published, how, vars, view_vars>>

\* The table at rest, over some document, and the widget before it is shown.
Quiet == Init /\ document = CHOOSE doc \in Contents : TRUE

InteractiveInit ==
  /\ SurfaceInit \/ (subject = "surface" /\ SurfaceLaidOut)
  /\ \/ /\ subject = "surface"
        /\ edited = None /\ presentation = None /\ entry = None /\ refused = None
        /\ curve = None /\ other = None /\ budget = None /\ task = None /\ staged = None
        /\ published = None /\ how = None /\ request = None /\ stopped = None
        /\ kind = None /\ todo = None /\ ids = None /\ prepared = None /\ result = None
        /\ Quiet /\ ViewInit
     \/ /\ subject = "edits" /\ Edits!Init
        /\ curve = None /\ other = None /\ budget = None /\ task = None /\ staged = None
        /\ published = None /\ how = None /\ request = None /\ stopped = None
        /\ kind = None /\ todo = None /\ ids = None /\ prepared = None /\ result = None
        /\ Quiet /\ ViewInit
     \/ /\ subject \in {"view", "table"}
        /\ edited = None /\ presentation = None /\ entry = None /\ refused = None
        /\ curve = None /\ other = None /\ budget = None /\ task = None /\ staged = None
        /\ published = None /\ how = None /\ request = None /\ stopped = None
        /\ kind = None /\ todo = None /\ ids = None /\ prepared = None /\ result = None
        /\ ViewInit /\ IF subject = "table" THEN Init ELSE Quiet
     \/ /\ subject = "lod" /\ Lod!Init
        /\ edited = None /\ presentation = None /\ entry = None /\ refused = None
        /\ request = None /\ stopped = None /\ kind = None /\ todo = None /\ ids = None
        /\ prepared = None /\ result = None /\ Quiet /\ ViewInit
     \/ /\ subject = "preparation" /\ Preparation!Init
        /\ edited = None /\ presentation = None /\ entry = None /\ refused = None
        /\ curve = None /\ other = None /\ budget = None /\ task = None /\ staged = None
        /\ published = None /\ how = None /\ Quiet /\ ViewInit

OfSurface(Step) == subject = "surface" /\ Step /\ UNCHANGED <<subject, BesideSurface>>
OfEdits(Step) == subject = "edits" /\ Step /\ UNCHANGED <<subject, BesideEdits>>
OfView(Step) == subject = "view" /\ Step /\ UNCHANGED <<subject, BesideView>>
OfTable(Step) == subject = "table" /\ Step /\ UNCHANGED <<subject, BesideTable>>
OfLod(Step) == subject = "lod" /\ Step /\ UNCHANGED <<subject, BesideLod>>
OfPreparation(Step) == subject = "preparation" /\ Step /\ UNCHANGED <<subject, BesidePreparation>>

InteractiveNext ==
  \/ OfSurface(SurfaceNext)
  \/ OfEdits(Edits!Next)
  \/ OfView(ViewNext)
  \/ OfTable(Next)
  \/ OfLod(Lod!Next)
  \/ OfPreparation(Preparation!Next)

InteractiveSpec ==
  /\ InteractiveInit /\ [][InteractiveNext]_interactive_vars
  /\ WF_interactive_vars(OfView(paintGL))
  /\ WF_interactive_vars(OfView(Timeout))

-----------------------------------------------------------------------------
\* The inverse edits recorded with a patch lead back: applied to the patched
\* document and presentation they give every entity its value before the patch,
\* but for a raw curve another entity was put in the place of and for what shares
\* an id with a mask.  No sequence of patches, track commands and undos leaves a
\* layer with a scale of another track or unit, a fill with a layer that has
\* moved away or a log scale that reaches zero; none adds or changes a raw curve,
\* or takes one out but by putting another entity under its id or naming that of a
\* mask; and no two tracks, or layers of a track, come to share a z-order
\* (inverse_edits_for_patch, validate_presentation, track_commands.cpp).
EditsAreSound ==
  subject = "edits" =>
    /\ Edits!InverseRestores
    /\ Edits!PresentationResolves
    /\ Edits!RawCurvesKept
    /\ Edits!OrderIsTotal

\* The pyramid of a ready preparation is of the current curve and within the
\* budget of its task; built, reused or extended, and however few levels it
\* has, it selects in every viewport what the scalar reference algorithm
\* selects from the curve; and what is selected keeps the curve's extremes
\* (curve_lod.cpp).
LodIsFaithful ==
  subject = "lod" =>
    /\ Lod!PyramidIsSound
    /\ Lod!SelectionsAgree
    /\ Lod!EnvelopeKept

\* A prepared scene joins no samples across a missing one, fills just between
\* crossings, draws an item exactly when it lies on the page (an interval also
\* only where it comes out downwards), draws all the view asked for, and is
\* refused after preflight let it through only for a dash pattern or a symbol's
\* size; a pick reaches every piece of a line within its tolerance of the page,
\* and one on an image reports a depth of the tile it reports (scene.cpp).
SceneShowsItsWindow ==
  subject = "preparation" =>
    /\ Preparation!MissingBreaksLines
    /\ Preparation!FillsAreCrossovers
    /\ Preparation!DrawnIffOnPage
    /\ Preparation!WindowIsDrawn
    /\ Preparation!PickSeesEveryPrimitive
    /\ Preparation!PickReportsItsTile
    /\ Preparation!PreflightDecides
=============================================================================
