----------------------------- MODULE PatchEdits -----------------------------
(***************************************************************************)
(* What a DocumentPatch does to a document and its presentation            *)
(* (execute(ApplyPatchCommand) in src/session/session.cpp), the track      *)
(* commands that are patches (src/session/track_commands.cpp), and the     *)
(* checks both rest on: validate_document and ScenePreparer::preflight.    *)
(*                                                                         *)
(* Entities are records with an id and a kind.  Interpretation entities    *)
(* (interval, marker, symbol, annotation) are of one kind, "mark"; layers  *)
(* the patch vocabulary does not have (interval, image, marker, symbol,    *)
(* text and custom layers) are of one kind, "other".  Samples of a curve   *)
(* are "none" (no finite one), "mixed" or "positive"; the range of a scale *)
(* is "any" or "positive".  Revisions, windows and stacks of more than the *)
(* last entry belong to DocumentHistory.                                   *)
(***************************************************************************)
EXTENDS Integers, SequencesExt

CONSTANTS
  Ids,            \* entity ids
  None,
  InitialDocuments, InitialPresentations,
  Templates,      \* presentations the host may set
  Offered,        \* entities the host may upsert
  ChosenIds,      \* ids the host may give a new track or layer
  MaxEdits,       \* bound: edits in one patch of the host
  MaxCommands     \* bound: commands

EditsAssumption ==
  /\ MaxEdits \in Nat \ {0} /\ MaxCommands \in Nat
  /\ \A e \in Offered : e.id \in Ids
  /\ ChosenIds \subseteq Ids

VARIABLES
  document,      \* [axis, curves, masks, marks]
  presentation,  \* [tracks, scales, layers, fills, others], or None
  entry,         \* the newest undo entry: [before, after, inverse], or None
  refused,       \* the last command, when it was refused, or None
  commands       \* commands run so far, see Counts

vars == <<document, presentation, entry, refused, commands>>

-----------------------------------------------------------------------------
Entities(doc) == doc.curves \cup doc.masks \cup doc.marks

LayoutEntities(pres) ==
  IF pres = None THEN {}
  ELSE ToSet(pres.tracks) \cup ToSet(pres.scales) \cup ToSet(pres.layers)

\* The layers that no patch can name.
FixedLayers(pres) == IF pres = None THEN {} ELSE pres.fills \cup pres.others

IdsOf(S) == {e.id : e \in S}

Of(seq, id) == CHOOSE e \in ToSet(seq) : e.id = id

Has(seq, id) == \E e \in ToSet(seq) : e.id = id

RawCurves(doc) == {c \in doc.curves : c.derived = None}

(***************************************************************************)
(* patchable_entity_at: the entity a patch may name by this id.  Marks come *)
(* before masks, masks before curves, and those before the presentation; a *)
(* raw curve hides what the presentation has under its id.                 *)
(***************************************************************************)
Collections(doc, pres) == <<doc.marks, doc.masks, doc.curves, LayoutEntities(pres)>>

EntityAt(doc, pres, id) ==
  LET holding == {i \in 1 .. 4 : id \in IdsOf(Collections(doc, pres)[i])}
      found == CHOOSE e \in Collections(doc, pres)[Min(holding)] : e.id = id
  IN IF holding = {} \/ found \in RawCurves(doc) THEN None ELSE found

Patchable(doc, pres) ==
  {EntityAt(doc, pres, id) :
     id \in IdsOf(Entities(doc) \cup LayoutEntities(pres))} \ {None}

-----------------------------------------------------------------------------
(***************************************************************************)
(* validate_document: ids are distinct among axes, curves and marks, and   *)
(* there is a curve.  QC masks take no part in it.                         *)
(***************************************************************************)
ValidDocument(doc) ==
  LET counted == doc.curves \cup doc.marks IN
  /\ doc.curves # {}
  /\ Cardinality(IdsOf(counted)) = Cardinality(counted)
  /\ doc.axis \notin IdsOf(counted)

(***************************************************************************)
(* preflight: the presentation has a track and a layer, ids are distinct   *)
(* among it and the document (masks excepted), and every reference         *)
(* resolves: of a scale to a track, of a layer to a track, a scale of that *)
(* track and a curve of the scale's unit, of a fill to two layers of its   *)
(* track, of a track annotation to a track.                                *)
(***************************************************************************)
\* Mutant: a scale of any track will do.
LayerResolvesAnyTrack(doc, pres, layer) ==
  /\ Has(pres.tracks, layer.track)
  /\ Has(pres.scales, layer.scale)
  /\ \E c \in doc.curves : /\ c.id = layer.curve
                           /\ c.unit = Of(pres.scales, layer.scale).unit

LayerResolves(doc, pres, layer) ==
  /\ Has(pres.tracks, layer.track)
  /\ Has(pres.scales, layer.scale)
  /\ Of(pres.scales, layer.scale).track = layer.track
  /\ \E c \in doc.curves : /\ c.id = layer.curve
                           /\ c.unit = Of(pres.scales, layer.scale).unit

FillResolves(pres, fill) ==
  /\ Has(pres.tracks, fill.track)
  /\ fill.upper # fill.lower
  /\ \A id \in {fill.upper, fill.lower} :
       Has(pres.layers, id) /\ Of(pres.layers, id).track = fill.track

ValidScale(pres, scale) ==
  /\ Has(pres.tracks, scale.track)
  /\ scale.mode = "logarithmic" => scale.range = "positive"

DistinctIds(doc, pres) ==
  LET all == doc.curves \cup doc.marks \cup LayoutEntities(pres) \cup FixedLayers(pres)
      count == Cardinality(doc.curves \cup doc.marks) + Cardinality(FixedLayers(pres))
               + Len(pres.tracks) + Len(pres.scales) + Len(pres.layers)
  IN Cardinality(IdsOf(all)) = count /\ doc.axis \notin IdsOf(all)

Preflight(doc, pres) ==
  /\ pres.tracks # <<>>
  /\ pres.layers # <<>> \/ pres.others # {}
  /\ DistinctIds(doc, pres)
  /\ \A scale \in ToSet(pres.scales) : ValidScale(pres, scale)
  /\ \A layer \in ToSet(pres.layers) : LayerResolves(doc, pres, layer)
  /\ \A fill \in pres.fills : FillResolves(pres, fill)
  /\ \A other \in pres.others : Has(pres.tracks, other.track)
  /\ (\E other \in pres.others : other.of = "text")
       => \A m \in doc.marks : m.track # None => Has(pres.tracks, m.track)

-----------------------------------------------------------------------------
(***************************************************************************)
(* A patch is a sequence of edits [op, id, entity].                        *)
(***************************************************************************)
UpsertEntity(e) == [op |-> "upsert", id |-> e.id, entity |-> e]
RemoveEntity(id) == [op |-> "remove", id |-> id, entity |-> None]

PatchedIds(edits) == {edits[i].id : i \in DOMAIN edits}
Upserts(edits, kind) ==
  SelectSeq(edits, LAMBDA e : e.op = "upsert" /\ e.entity.kind = kind)
UpsertedSet(edits, kind) == {e.entity : e \in ToSet(Upserts(edits, kind))}

\* Mutant: the entity an upsert replaces is copied as well.
PatchSetKeepsOld(S, edits, kind) == S \cup UpsertedSet(edits, kind)

\* An unpatched entity is copied; an upsert is appended to its collection.
PatchSet(S, edits, kind) ==
  {e \in S : e.id \notin PatchedIds(edits)} \cup UpsertedSet(edits, kind)

PatchSeq(seq, edits, kind) ==
  LET added == Upserts(edits, kind) IN
  SelectSeq(seq, LAMBDA e : e.id \notin PatchedIds(edits))
    \o [i \in DOMAIN added |-> added[i].entity]

PatchedDocument(doc, edits) ==
  [doc EXCEPT !.curves = {e \in @ : e.id \notin PatchedIds(edits)}
                           \cup {c \in UpsertedSet(edits, "curve") : c.derived # None},
              !.masks = PatchSet(@, edits, "mask"),
              !.marks = PatchSet(@, edits, "mark")]

PatchedPresentation(pres, edits) ==
  IF pres = None THEN None
  ELSE [pres EXCEPT !.tracks = PatchSeq(@, edits, "track"),
                    !.scales = PatchSeq(@, edits, "scale"),
                    !.layers = PatchSeq(@, edits, "layer")]

\* A derived curve needs its input, a mask its curve, of the same length.
SoundUpsert(doc, e) ==
  /\ e.kind = "curve" => e.derived # None /\ e.derived \in IdsOf(doc.curves)
  /\ e.kind = "mask" => e.fits /\ e.curve \in IdsOf(doc.curves)

(***************************************************************************)
(* inverse_edits_for_patch, over the state before the patch.               *)
(***************************************************************************)
\* Mutant: an upsert always reverses to a removal.
InverseForgetsOldValue(doc, pres, edits) ==
  Reverse([i \in DOMAIN edits |->
             IF edits[i].op = "upsert" THEN RemoveEntity(edits[i].id)
             ELSE UpsertEntity(EntityAt(doc, pres, edits[i].id))])

InverseEdits(doc, pres, edits) ==
  LET InverseOf(edit) == LET old == EntityAt(doc, pres, edit.id) IN
                         IF old = None THEN RemoveEntity(edit.id) ELSE UpsertEntity(old)
  IN Reverse([i \in DOMAIN edits |-> InverseOf(edits[i])])

-----------------------------------------------------------------------------
(***************************************************************************)
(* execute(ApplyPatchCommand): the checks, in which nothing is changed     *)
(* yet, and the commit.                                                    *)
(***************************************************************************)
\* Mutant: a raw curve may be upserted.
AcceptsRawUpserts(doc, pres, edits) ==
  LET patched == PatchedDocument(doc, edits) IN
  /\ Cardinality(PatchedIds(edits)) = Len(edits)
  /\ ValidDocument(patched)
  /\ pres # None => Preflight(patched, PatchedPresentation(pres, edits))

Accepts(doc, pres, edits) ==
  LET patched == PatchedDocument(doc, edits) IN
  /\ Cardinality(PatchedIds(edits)) = Len(edits)
  /\ \A e \in ToSet(edits) :
       /\ e.op = "remove" => EntityAt(doc, pres, e.id) # None
       /\ e.op = "upsert" => SoundUpsert(patched, e.entity)
  /\ IF pres # None THEN Preflight(patched, PatchedPresentation(pres, edits))
     ELSE \A e \in ToSet(edits) :
            e.op = "upsert" => e.entity.kind \notin {"track", "scale", "layer"}
  /\ ValidDocument(patched)

Snapshot(doc, pres) == [document |-> doc, presentation |-> pres]

Commit(edits) ==
  LET doc == PatchedDocument(document, edits)
      pres == PatchedPresentation(presentation, edits)
  IN /\ document' = doc
     /\ presentation' = pres
     /\ entry' = [before |-> Snapshot(document, presentation),
                  after |-> Snapshot(doc, pres),
                  inverse |-> InverseEdits(document, presentation, edits)]
     /\ refused' = None

\* A command counts once, a patch of the host once for every edit.
Counts(n) == commands + n <= MaxCommands /\ commands' = commands + n
Counted == Counts(1)

Refuse(command, target) ==
  /\ refused' = [command |-> command, target |-> target]
  /\ UNCHANGED <<document, presentation, entry>>

\* A track command that has found its entities runs the patch it made.
RunPatch(command, target, edits) ==
  IF Accepts(document, presentation, edits) THEN Commit(edits)
  ELSE Refuse(command, target)

ApplyPatch(edits) ==
  /\ edits # <<>>
  /\ Counts(Len(edits))
  /\ RunPatch("ApplyPatch", None, edits)

-----------------------------------------------------------------------------
(***************************************************************************)
(* The binding indexes and the track commands.  A refusal that comes       *)
(* before the patch (no presentation, an entity missing, a list that is    *)
(* not complete) changes nothing and is no step.                           *)
(***************************************************************************)
ScalesOf(track) == SelectSeq(presentation.scales, LAMBDA s : s.track = track)
LayersOf(track) == SelectSeq(presentation.layers, LAMBDA l : l.track = track)
AllLayersOf(track) ==
  {l \in ToSet(presentation.layers) \cup FixedLayers(presentation) : l.track = track}

\* z_order_after_last
AfterLast(seq) == Max({0} \cup {e.z + 1 : e \in ToSet(seq)})

\* EntityId::generate(): an id in no use, and none the host has thought of.
FreshIds == Ids \ (ChosenIds \cup IdsOf(Entities(document)) \cup {document.axis} \cup
                   IdsOf(LayoutEntities(presentation) \cup FixedLayers(presentation)))

Generated == CHOOSE id \in FreshIds : TRUE

AddTrack(id) ==
  /\ presentation # None /\ ~Has(presentation.tracks, id)
  /\ Counted
  /\ RunPatch("AddTrack", id,
       <<UpsertEntity([kind |-> "track", id |-> id, z |-> AfterLast(presentation.tracks),
                 look |-> 0])>>)

RemoveTrack(track) ==
  /\ presentation # None /\ Has(presentation.tracks, track)
  /\ Counted
  /\ LET leaving == <<track>> \o SetToSeq(IdsOf(ToSet(ScalesOf(track))))
                    \o SetToSeq(IdsOf(AllLayersOf(track)))
     IN RunPatch("RemoveTrack", track, [i \in DOMAIN leaving |-> RemoveEntity(leaving[i])])

Reordered(seq, order) ==
  [i \in DOMAIN order |-> UpsertEntity([Of(seq, order[i]) EXCEPT !.z = i - 1])]

Orders(seq) == SetToSeqs(IdsOf(ToSet(seq)))

ReorderTracks(order) ==
  /\ presentation # None
  /\ Counted
  /\ RunPatch("ReorderTracks", None, Reordered(presentation.tracks, order))

\* ResizeTrack, SetTrackHeader and SetTrackVisibility.
ChangeTrack(track) ==
  /\ presentation # None /\ Has(presentation.tracks, track)
  /\ Counted
  /\ RunPatch("ChangeTrack", track,
       <<UpsertEntity([Of(presentation.tracks, track) EXCEPT !.look = 1 - @])>>)

(***************************************************************************)
(* resolve_bind_scale: the scale asked for, or else the first of the track *)
(* in the curve's unit, or else a new one fitted to the curve.             *)
(***************************************************************************)
RangeOf(curve) == IF curve.samples = "positive" THEN "positive" ELSE "any"

BindScale(track, curve, asked, id) ==
  LET unitScales == SelectSeq(ScalesOf(track), LAMBDA s : s.unit = curve.unit)
      new == [kind |-> "scale", id |-> id, track |-> track, unit |-> curve.unit,
              mode |-> "linear", range |-> RangeOf(curve)]
  IN IF asked # None THEN [id |-> asked, edits |-> <<>>]
     ELSE IF unitScales # <<>> THEN [id |-> unitScales[1].id, edits |-> <<>>]
     ELSE [id |-> id, edits |-> <<UpsertEntity(new)>>]

MayBind(track, curve, asked) ==
  asked # None => /\ Has(ScalesOf(track), asked)
                  /\ Of(ScalesOf(track), asked).unit = curve.unit

BindCurve(curve, track, asked, layer, generated) ==
  LET scale == BindScale(track, curve, asked, generated) IN
  /\ presentation # None
  /\ Has(presentation.tracks, track) /\ ~Has(presentation.layers, layer)
  /\ MayBind(track, curve, asked)
  /\ Counted
  /\ RunPatch("BindCurve", layer,
       Append(scale.edits,
              UpsertEntity([kind |-> "layer", id |-> layer, track |-> track,
                      curve |-> curve.id, scale |-> scale.id,
                      z |-> AfterLast(LayersOf(track)), look |-> 0])))

UnbindCurve(layer) ==
  /\ presentation # None /\ Has(presentation.layers, layer)
  /\ Counted
  /\ RunPatch("UnbindCurve", layer, <<RemoveEntity(layer)>>)

\* Mutant: the layer keeps the place it had in its old track.
MoveKeepsOrder(layer, track, asked, generated) ==
  LET moving == Of(presentation.layers, layer)
      curve == CHOOSE c \in document.curves : c.id = moving.curve
      scale == BindScale(track, curve, asked, generated)
  IN
  /\ presentation # None
  /\ Has(presentation.layers, layer) /\ Has(presentation.tracks, track)
  /\ MayBind(track, curve, asked)
  /\ Counted
  /\ RunPatch("MoveCurveLayer", layer,
       Append(scale.edits,
              UpsertEntity([moving EXCEPT !.track = track, !.scale = scale.id])))

MoveCurveLayer(layer, track, asked, generated) ==
  LET moving == Of(presentation.layers, layer)
      curve == CHOOSE c \in document.curves : c.id = moving.curve
      scale == BindScale(track, curve, asked, generated)
  IN
  /\ presentation # None
  /\ Has(presentation.layers, layer) /\ Has(presentation.tracks, track)
  /\ MayBind(track, curve, asked)
  /\ Counted
  /\ RunPatch("MoveCurveLayer", layer,
       Append(scale.edits,
              UpsertEntity([moving EXCEPT !.track = track, !.scale = scale.id,
                                    !.z = AfterLast(LayersOf(track))])))

DuplicateCurveLayer(layer, id) ==
  /\ presentation # None
  /\ Has(presentation.layers, layer) /\ ~Has(presentation.layers, id)
  /\ Counted
  /\ LET source == Of(presentation.layers, layer) IN
     RunPatch("DuplicateCurveLayer", id,
       <<UpsertEntity([source EXCEPT !.id = id, !.z = AfterLast(LayersOf(source.track))])>>)

ReorderCurveLayers(track, order) ==
  /\ presentation # None /\ Has(presentation.tracks, track)
  /\ Counted
  /\ RunPatch("ReorderCurveLayers", track, Reordered(presentation.layers, order))

\* SetCurveLayerVisibility and SetCurveLayerStyle.
ChangeCurveLayer(layer) ==
  /\ presentation # None /\ Has(presentation.layers, layer)
  /\ Counted
  /\ RunPatch("ChangeCurveLayer", layer,
       <<UpsertEntity([Of(presentation.layers, layer) EXCEPT !.look = 1 - @])>>)

BoundCurves(scale) ==
  {c \in document.curves : \E l \in ToSet(LayersOf(scale.track)) :
                             l.scale = scale.id /\ l.curve = c.id}

SetTrackScale(scale, unit, mode, range) ==
  /\ mode = "logarithmic" => range = "positive"
  /\ unit # scale.unit => \A c \in BoundCurves(scale) : c.unit = unit
  /\ Counted
  /\ RunPatch("SetTrackScale", scale.id,
       <<UpsertEntity([scale EXCEPT !.unit = unit, !.mode = mode, !.range = range])>>)

\* The extent of the bound curves; of their positive samples on a log scale.
AutoRangeTrackScale(scale) ==
  LET sampled == {c \in BoundCurves(scale) : c.samples # "none"} IN
  /\ sampled # {}
  /\ Counted
  /\ RunPatch("AutoRangeTrackScale", scale.id,
       <<UpsertEntity([scale EXCEPT !.range =
           IF \/ scale.mode = "logarithmic"
              \/ \A c \in sampled : c.samples = "positive"
           THEN "positive" ELSE "any"])>>)

\* execute(SetPresentationCommand) of a presentation the host has built.
SetPresentation(pres) ==
  /\ Preflight(document, pres)
  /\ Counted
  /\ presentation' = pres
  /\ refused' = None
  /\ UNCHANGED <<document, entry>>

\* execute(UndoCommand): the snapshots are restored, not the inverse applied.
Undo ==
  /\ entry # None
  /\ Counted
  /\ document' = entry.before.document
  /\ presentation' = entry.before.presentation
  /\ entry' = None
  /\ refused' = None

-----------------------------------------------------------------------------
OfferedEdits ==
  {UpsertEntity(e) : e \in Offered}
    \cup {RemoveEntity(e.id) : e \in Patchable(document, presentation)}

OfferedPatches == UNION {[1 .. n -> OfferedEdits] : n \in 1 .. MaxEdits}

Init ==
  /\ document \in InitialDocuments
  /\ presentation \in InitialPresentations
  /\ entry = None /\ refused = None /\ commands = 0

TrackCommand ==
  \/ \E id \in ChosenIds : AddTrack(id)
  \/ \E order \in Orders(presentation.tracks) : ReorderTracks(order)
  \/ \E t \in IdsOf(ToSet(presentation.tracks)) :
       \/ RemoveTrack(t)
       \/ ChangeTrack(t)
       \/ \E order \in Orders(LayersOf(t)) : ReorderCurveLayers(t, order)
       \/ \E asked \in IdsOf(ToSet(presentation.scales)) \cup {None} :
          /\ FreshIds # {}
          /\ \/ \E c \in document.curves, id \in ChosenIds :
                  BindCurve(c, t, asked, id, Generated)
             \/ \E l \in IdsOf(ToSet(presentation.layers)) :
                  MoveCurveLayer(l, t, asked, Generated)
  \/ \E l \in IdsOf(ToSet(presentation.layers)) :
       \/ UnbindCurve(l)
       \/ ChangeCurveLayer(l)
       \/ \E id \in ChosenIds : DuplicateCurveLayer(l, id)
  \/ \E s \in ToSet(presentation.scales) :
       \/ AutoRangeTrackScale(s)
       \/ \E unit \in {c.unit : c \in document.curves},
             mode \in {"linear", "logarithmic"}, range \in {"any", "positive"} :
            SetTrackScale(s, unit, mode, range)

Next ==
  \/ \E edits \in OfferedPatches : ApplyPatch(edits)
  \/ \E pres \in Templates : SetPresentation(pres)
  \/ Undo
  \/ presentation # None /\ TrackCommand

Spec == Init /\ [][Next]_vars

-----------------------------------------------------------------------------
\* Types: identifiers, mask ids without duplicates, and an inverse that is made
\* of edits a patch may hold.
EditsTypeOK ==
  /\ IdsOf(Entities(document)) \subseteq Ids
  /\ IdsOf(LayoutEntities(presentation)) \subseteq Ids
  /\ Cardinality(IdsOf(document.masks)) = Cardinality(document.masks)
  /\ commands \in 0 .. MaxCommands
  /\ entry # None => \A e \in ToSet(entry.inverse) : e.op \in {"upsert", "remove"}

(***************************************************************************)
(* The layers a track shows refer to what is there: after any sequence of  *)
(* patches, track commands and undos a layer's scale lies in its track and *)
(* has its curve's unit, a fill's layers lie in its track, and a log scale *)
(* does not reach zero.                                                    *)
(***************************************************************************)
PresentationResolves ==
  presentation # None =>
    /\ \A layer \in ToSet(presentation.layers) : LET s == Of(presentation.scales, layer.scale) IN
         /\ Has(presentation.scales, layer.scale) /\ s.track = layer.track
         /\ \E c \in document.curves : c.id = layer.curve /\ c.unit = s.unit
    /\ \A fill \in presentation.fills :
         {fill.upper, fill.lower} \subseteq IdsOf(ToSet(LayersOf(fill.track)))
    /\ \A scale \in ToSet(presentation.scales) :
         /\ Has(presentation.tracks, scale.track)
         /\ scale.mode = "logarithmic" => scale.range = "positive"

\* What a patch takes out under an id it names beside the entity it finds there:
\* a raw curve, or what has a mask's id.
Shadowed(s, ids) ==
  {e \in Entities(s.document) \cup LayoutEntities(s.presentation) :
     e.id \in ids /\ e # EntityAt(s.document, s.presentation, e.id)}

SameEntities(s, doc, pres, lost) ==
  /\ doc = [s.document EXCEPT !.curves = @ \ lost, !.masks = @ \ lost, !.marks = @ \ lost]
  /\ LayoutEntities(pres) = LayoutEntities(s.presentation) \ lost
  /\ FixedLayers(pres) = FixedLayers(s.presentation)

(***************************************************************************)
(* The inverse edits recorded with a patch lead back: applied to the       *)
(* patched document and presentation they give every entity its value      *)
(* before the patch (order within a collection aside), also when the patch *)
(* put an entity of another kind in its place.  What they cannot bring     *)
(* back is what the patch took out unseen: a raw curve under whose id it   *)
(* put another entity, and what shares its id with a mask.                 *)
(***************************************************************************)
InverseRestores ==
  entry # None =>
    SameEntities(entry.before,
                 PatchedDocument(entry.after.document, entry.inverse),
                 PatchedPresentation(entry.after.presentation, entry.inverse),
                 Shadowed(entry.before, PatchedIds(entry.inverse)))

(***************************************************************************)
(* No patch, track command or undo adds a raw curve or changes one, and a  *)
(* patch takes one out only where it puts another entity under its id, or  *)
(* where a mask has that id too.  (session.cpp:3488-3490 says that raw     *)
(* curves "remain immutable via patch"; the copy loop at 3886-3891 drops   *)
(* the curve whose id an entity of another kind is upserted under.)        *)
(***************************************************************************)
RawCurvesKept ==
  /\ \E doc \in InitialDocuments : RawCurves(document) \subseteq RawCurves(doc)
  /\ entry # None =>
       \A c \in RawCurves(entry.before.document) \ RawCurves(entry.after.document) :
         \/ EntityAt(entry.after.document, entry.after.presentation, c.id) # None
         \/ c.id \in PatchedIds(entry.inverse) \cap IdsOf(entry.before.document.masks)

Ordered(seq) == \A i, j \in DOMAIN seq : seq[i].z = seq[j].z => i = j

(***************************************************************************)
(* A host that leaves z-orders to the session gets a total order: no two   *)
(* tracks, and no two curve layers of a track, are at the same one, so     *)
(* that restyling a track (which puts it last in its collection) does not  *)
(* move it on the screen.                                                  *)
(***************************************************************************)
OrderIsTotal ==
  presentation # None =>
    /\ Ordered(presentation.tracks)
    /\ \A t \in ToSet(presentation.tracks) : Ordered(LayersOf(t.id))

(***************************************************************************)
(* RemoveTrack removes "a track TOGETHER with its scales and every layer   *)
(* placed in it": it is refused only if that would leave no track or no    *)
(* layer.                                                                  *)
(***************************************************************************)
RemovesTrackWithItsLayers ==
  refused # None /\ refused.command = "RemoveTrack" =>
    \/ Len(presentation.tracks) = 1
    \/ AllLayersOf(refused.target) =
         ToSet(presentation.layers) \cup FixedLayers(presentation)
=============================================================================
