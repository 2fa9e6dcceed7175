---------------------------- MODULE SessionSlot -----------------------------
(***************************************************************************)
(* What a WellLogSession keeps for one document and what its commands do   *)
(* to it (src/session/session.cpp).  The session holds this state in one   *)
(* map per field (documents, prepared_scenes, presentations, viewports,    *)
(* preparations, frame_generations); a slot is the row of all those maps   *)
(* for one document id.                                                    *)
(*                                                                         *)
(* The module has no variables: every command is an operator from the slot *)
(* before to the slot after, so that the commands that delegate to other   *)
(* commands (a patch commits through SetDocument and SetPresentation) are  *)
(* compositions here as they are in the code.                              *)
(***************************************************************************)
EXTENDS Naturals

CONSTANTS
  Revisions,        \* document revisions
  CurveSets,        \* what LOD is built from: curves, raw and derived, axes, images
  LargeCurveSets,   \* those with a curve at or above asynchronous_sample_threshold
  Interpretations,  \* everything else a document holds
  WithoutMasks,     \* the same interpretation with its QC masks left out
  Presentations,
  Viewports,        \* depth windows, each with its pixel height
  FullRange,        \* the window a presentation starts with, at default_frame_pixel_height
  None

(***************************************************************************)
(* A document is immutable.  Two documents with equal fields are the same  *)
(* to every reader, so the identity of the shared_ptr is not modelled.     *)
(***************************************************************************)
Documents == [revision : Revisions, curves : CurveSets, interpretation : Interpretations]

ASSUME SlotAssumption ==
  /\ Revisions \subseteq Nat
  /\ LargeCurveSets \subseteq CurveSets
  /\ WithoutMasks \in [Interpretations -> Interpretations]
  /\ FullRange \in Viewports
  /\ None \notin CurveSets \cup Presentations \cup Viewports \cup Documents

Asynchronous(doc) == doc.curves \in LargeCurveSets

(***************************************************************************)
(* ApplyPatchCommand makes the next revision; a patch that adds or removes *)
(* a derived curve changes the set of curves, any other leaves it alone.   *)
(***************************************************************************)
PatchedDocument(doc, i, r) ==
  [doc EXCEPT !.revision = @ + 1, !.interpretation = i, !.curves = r]

(***************************************************************************)
(* AppendBatchCommand makes the revision its host asks for and copies the  *)
(* entities of the current document one collection after the other; the QC *)
(* masks are not among them.                                               *)
(***************************************************************************)
AppendedDocument(doc, r, revision) ==
  [doc EXCEPT !.revision = revision, !.curves = r,
              !.interpretation = WithoutMasks[@]]

(***************************************************************************)
(* A prepared scene remembers nothing of where it came from; the model     *)
(* keeps what it was built from, to compare it with what is current.       *)
(***************************************************************************)
Scenes == [document : Documents, presentation : Presentations,
           pyramids : CurveSets \cup {None}, viewport : Viewports]

ASSUME SceneAssumption == None \notin Scenes

\* The LOD a document is drawn with; a small one is drawn from its curves.
PyramidsFor(doc) == IF Asynchronous(doc) THEN doc.curves ELSE None

PreparationStates == {"none", "pending", "ready", "unavailable"}

Preparations(Generations) ==
  [state : PreparationStates, revision : Revisions \cup {0},
   generation : Generations, pyramids : CurveSets \cup {None}]

NoPreparation == [state |-> "none", revision |-> 0, generation |-> 0,
                  pyramids |-> None]

Slots(Generations) ==
  [document : Documents \cup {None},
   scene : Scenes \cup {None},
   presentation : Presentations \cup {None},
   viewport : Viewports \cup {None},
   preparation : Preparations(Generations),
   frame_generation : Generations]

EmptySlot ==
  [document |-> None, scene |-> None, presentation |-> None, viewport |-> None,
   preparation |-> NoPreparation, frame_generation |-> 0]

-----------------------------------------------------------------------------
(***************************************************************************)
(* The hint a patch or an append leaves for the SetDocumentCommand it      *)
(* delegates to.  It is staged only when the preparation is ready at the   *)
(* current revision.                                                       *)
(***************************************************************************)
Hints == {"none", "append_tail", "unchanged_document"}

StagedHint(s, kind) == IF s.preparation.state = "ready" THEN kind ELSE "none"

(***************************************************************************)
(* A patched document keeps the LOD of the document it patches when every  *)
(* LOD input is the same object.                                           *)
(***************************************************************************)
ReusesPreparation(s, doc, hint) ==
  /\ Asynchronous(doc)
  /\ hint = "unchanged_document"
  /\ s.preparation.state = "ready"
  /\ s.document.curves = doc.curves

StartsLod(s, doc, hint) == Asynchronous(doc) /\ ~ReusesPreparation(s, doc, hint)

\* Mutant: the generation of the awaited frame is not erased.
AfterSetDocumentStillWaits(s, doc, hint, g) ==
  [document |-> doc, scene |-> None, presentation |-> None, viewport |-> None,
   preparation |->
     IF Asynchronous(doc)
     THEN [state |-> "pending", revision |-> doc.revision, generation |-> g,
           pyramids |-> None]
     ELSE NoPreparation,
   frame_generation |-> s.frame_generation]

(***************************************************************************)
(* execute(SetDocumentCommand): whatever was derived from or configured    *)
(* for the previous document goes; a large document gets a pending         *)
(* preparation of generation g, or keeps the ready one it may reuse.       *)
(***************************************************************************)
AfterSetDocument(s, doc, hint, g) ==
  [document |-> doc, scene |-> None, presentation |-> None, viewport |-> None,
   preparation |->
     IF ReusesPreparation(s, doc, hint)
     THEN [state |-> "ready", revision |-> doc.revision, generation |-> 0,
           pyramids |-> s.preparation.pyramids]
     ELSE IF Asynchronous(doc)
     THEN [state |-> "pending", revision |-> doc.revision, generation |-> g,
           pyramids |-> None]
     ELSE NoPreparation,
   frame_generation |-> 0]

(***************************************************************************)
(* execute(SetPresentationCommand).  A document without preparation is     *)
(* prepared on the spot; a ready one gets frame generation g; a pending    *)
(* one gets its frame when the LOD arrives, and forgets any older frame.   *)
(***************************************************************************)
PreparedInline(s) == s.preparation.state = "none"

SchedulesPresentation(s) == s.preparation.state = "ready"

\* Mutant: the generation of the frame just started is not recorded.
AfterSetPresentationUnrecorded(s, p, g) ==
  [s EXCEPT
    !.presentation = p,
    !.viewport = FullRange,
    !.scene = IF PreparedInline(s)
              THEN [document |-> s.document, presentation |-> p,
                    pyramids |-> None, viewport |-> FullRange]
              ELSE @,
    !.frame_generation = 0]

AfterSetPresentation(s, p, g) ==
  [s EXCEPT
    !.presentation = p,
    !.viewport = FullRange,
    !.scene = IF PreparedInline(s)
              THEN [document |-> s.document, presentation |-> p,
                    pyramids |-> None, viewport |-> FullRange]
              ELSE @,
    !.frame_generation = IF SchedulesPresentation(s) THEN g ELSE 0]

(***************************************************************************)
(* execute(SetViewportMetricsCommand): the window moves, and a document    *)
(* whose LOD is ready gets a frame for the new window.                     *)
(***************************************************************************)
SchedulesViewport(s) == s.preparation.state = "ready" /\ s.presentation # None

AfterSetViewportMetrics(s, v, g) ==
  [s EXCEPT !.viewport = v,
            !.frame_generation = IF SchedulesViewport(s) THEN g ELSE @]

(***************************************************************************)
(* The last part of a patch: the window the SetPresentationCommand reset   *)
(* is put back in the map, with no frame of its own.                       *)
(***************************************************************************)
AfterRestoreViewport(s, v) == IF v = None THEN s ELSE [s EXCEPT !.viewport = v]

(***************************************************************************)
(* The last part of an append: presentation and window are put back in     *)
(* their maps, the window moved to v when it follows the latest sample.    *)
(***************************************************************************)
AfterAppendRestore(s, before, v) ==
  [s EXCEPT !.presentation = before.presentation,
            !.viewport = IF before.viewport = None THEN None ELSE v]

(***************************************************************************)
(* The state of a history entry staged in pending_history_restores: its    *)
(* document is committed as if from nothing, its presentation is put back  *)
(* in the map.  Window and scene are lost.  A patch or a history command   *)
(* whose presentation cannot be prepared is rolled back this way.          *)
(***************************************************************************)
AfterRestore(s, entry, g) ==
  [AfterSetDocument(s, entry.document, "none", g)
     EXCEPT !.presentation = entry.presentation]

(***************************************************************************)
(* execute_history: the staged restore, and then its presentation once     *)
(* more through SetPresentationCommand, for the scene.  The preparation is *)
(* pending or absent by then, so this starts no frame.                     *)
(***************************************************************************)
AfterHistory(s, entry, g) ==
  LET restored == AfterRestore(s, entry, g) IN
  IF entry.presentation = None THEN restored
  ELSE AfterSetPresentation(restored, entry.presentation, 0)

(***************************************************************************)
(* A slot is sound when nothing in it is left over from another document:  *)
(* preparation and scene belong to the document, and a frame is awaited    *)
(* only when there is something to show.                                   *)
(***************************************************************************)
SlotOK(s) ==
  /\ s.document = None =>
       /\ s.preparation.state = "none"
       /\ s.presentation = None
       /\ s.scene = None
  /\ s.document # None =>
       (s.preparation.state = "none" <=> ~Asynchronous(s.document))
  /\ s.preparation.state # "none" => s.preparation.revision = s.document.revision
  /\ s.preparation.state = "ready" => s.preparation.pyramids = s.document.curves
  /\ s.scene # None =>
       /\ s.scene.document = s.document
       /\ s.scene.pyramids = PyramidsFor(s.document)
  /\ s.frame_generation # 0 =>
       /\ s.preparation.state = "ready"
       /\ s.presentation # None
       /\ s.viewport # None
=============================================================================
