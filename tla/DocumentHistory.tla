--------------------------- MODULE DocumentHistory --------------------------
(***************************************************************************)
(* The edit history of one document in a WellLogSession                    *)
(* (src/session/session.cpp): patches and appends leave an entry with the  *)
(* semantic state before and after, undo and redo commit the document of   *)
(* an entry again and move the entry between two stacks, and a command     *)
(* whose presentation cannot be prepared rolls back.  Documents loaded by  *)
(* the host, presentations and selections change in between and leave no   *)
(* entry.                                                                  *)
(*                                                                         *)
(* Background work is taken whole: LOD and frames arrive, or fail, in one  *)
(* step each.  SessionAsync has their tasks, and every slot this module    *)
(* reaches by a command is one it reaches.                                 *)
(***************************************************************************)
EXTENDS SessionSlot, Sequences

CONSTANTS
  DepthRanges,   \* the depth ranges a selection may cover
  Extent,        \* Extent[c]: the ranges that lie on the axes of curve set c
  MaxHistory     \* bound on the undo stack; the code has none

ASSUME HistoryAssumption ==
  /\ Extent \in [CurveSets -> SUBSET DepthRanges]
  /\ None \notin DepthRanges
  /\ MaxHistory \in Nat

VARIABLES
  slot,        \* the session's state for the document
  selection,   \* selections
  undo,        \* DocumentHistory::undo, the newest entry last
  redo,        \* DocumentHistory::redo, the newest entry last
  replaced     \* auxiliary: the host loaded a document over a history

vars == <<slot, selection, undo, redo, replaced>>

Selections == [range : DepthRanges, revision : Revisions, valid : BOOLEAN]

SemanticStates ==
  [document : Documents, presentation : Presentations \cup {None},
   selection : Selections \cup {None}]

Entries == [before : SemanticStates, after : SemanticStates]

\* The one generation in use: a task is awaited, or none is.
Generations == {0, 1}

TypeOK ==
  /\ slot \in Slots(Generations)
  /\ selection \in Selections \cup {None}
  /\ undo \in Seq(Entries)
  /\ redo \in Seq(Entries)
  /\ replaced \in BOOLEAN

Init ==
  /\ slot = EmptySlot
  /\ selection = None
  /\ undo = <<>>
  /\ redo = <<>>
  /\ replaced = FALSE

-----------------------------------------------------------------------------
\* Mutant: a selection that cannot be remapped keeps its revision.
RemapKeepsRevision(sel, doc) ==
  IF sel = None THEN None
  ELSE IF sel.range \in Extent[doc.curves]
  THEN [sel EXCEPT !.revision = doc.revision, !.valid = TRUE]
  ELSE [sel EXCEPT !.valid = FALSE]

(***************************************************************************)
(* The end of SetDocumentCommand: a selection whose range lies on the new  *)
(* document's axis stays valid or becomes it again, any other is invalid.  *)
(***************************************************************************)
Remap(sel, doc) ==
  IF sel = None THEN None
  ELSE [sel EXCEPT !.revision = doc.revision,
                   !.valid = sel.range \in Extent[doc.curves]]

semantic_state ==
  [document |-> slot.document, presentation |-> slot.presentation,
   selection |-> selection]

\* Mutant: a new entry leaves the redo stack alone.
RecordKeepsRedo ==
  /\ undo' = Append(undo, [before |-> semantic_state, after |-> semantic_state'])
  /\ redo' = redo

record_new_history ==
  /\ undo' = Append(undo, [before |-> semantic_state, after |-> semantic_state'])
  /\ redo' = <<>>

NoHistory == UNCHANGED <<undo, redo, replaced>>

-----------------------------------------------------------------------------
SetDocument(doc) ==
  /\ slot' = AfterSetDocument(slot, doc, "none", 1)
  /\ selection' = Remap(selection, doc)
  /\ replaced' = (replaced \/ undo # <<>> \/ redo # <<>>)
  /\ UNCHANGED <<undo, redo>>

SetPresentation(p) ==
  /\ slot.document # None
  /\ slot.preparation.state # "unavailable"
  /\ slot' = AfterSetPresentation(slot, p, 1)
  /\ UNCHANGED selection
  /\ NoHistory

SetViewportMetrics(v) ==
  /\ slot.document # None
  /\ slot.viewport # None
  /\ slot' = AfterSetViewportMetrics(slot, v, 1)
  /\ UNCHANGED selection
  /\ NoHistory

(***************************************************************************)
(* A selection need not lie on the axis to be accepted as valid.           *)
(***************************************************************************)
SetSelection(range) ==
  /\ slot.document # None
  /\ selection' = [range |-> range, revision |-> slot.document.revision,
                   valid |-> TRUE]
  /\ UNCHANGED slot
  /\ NoHistory

ClearSelection ==
  /\ selection # None
  /\ selection' = None
  /\ UNCHANGED slot
  /\ NoHistory

-----------------------------------------------------------------------------
(***************************************************************************)
(* execute(ApplyPatchCommand), its edits validated and made against the    *)
(* current revision.                                                       *)
(***************************************************************************)
ApplyPatch(i, r, p) ==
  LET doc == PatchedDocument(slot.document, i, r)
      s1  == AfterSetDocument(slot, doc, StagedHint(slot, "unchanged_document"), 1)
      s2  == IF slot.presentation = None THEN s1 ELSE AfterSetPresentation(s1, p, 1)
  IN
  /\ slot.document # None
  /\ doc.revision \in Revisions
  /\ Len(undo) < MaxHistory
  /\ slot' = AfterRestoreViewport(s2, slot.viewport)
  /\ selection' = Remap(selection, doc)
  /\ record_new_history
  /\ UNCHANGED replaced

(***************************************************************************)
(* The rollback of a patch whose presentation is prepared inline and fails *)
(* to: the state before it is staged and its document committed again.     *)
(***************************************************************************)
ApplyPatchFails(r) ==
  /\ slot.document # None
  /\ slot.presentation # None
  /\ r \notin LargeCurveSets
  /\ slot.document.revision + 1 \in Revisions
  /\ slot' = AfterRestore(slot, semantic_state, 1)
  /\ UNCHANGED selection
  /\ NoHistory

(***************************************************************************)
(* commit_append_batch, its blocks validated: r has the tails as well.     *)
(***************************************************************************)
AppendBatch(r, revision, v) ==
  LET doc == AppendedDocument(slot.document, r, revision)
      s1  == AfterSetDocument(slot, doc, StagedHint(slot, "append_tail"), 1)
  IN
  /\ slot.document # None
  /\ revision > slot.document.revision
  /\ Asynchronous(slot.document) => Asynchronous(doc)
  /\ r # slot.document.curves
  /\ Len(undo) < MaxHistory
  /\ slot' = AfterAppendRestore(s1, slot, v)
  /\ selection' = Remap(selection, doc)
  /\ record_new_history
  /\ UNCHANGED replaced

-----------------------------------------------------------------------------
(***************************************************************************)
(* execute_history: target is one end of the newest entry of a stack.      *)
(***************************************************************************)
Newest(stack) == stack[Len(stack)]
WithoutNewest(stack) == SubSeq(stack, 1, Len(stack) - 1)

Restore(target) ==
  /\ slot' = AfterHistory(slot, target, 1)
  /\ selection' = target.selection
  /\ UNCHANGED replaced

Undo ==
  /\ undo # <<>>
  /\ Restore(Newest(undo).before)
  /\ undo' = WithoutNewest(undo)
  /\ redo' = Append(redo, Newest(undo))

\* Mutant: redo restores the wrong end of the entry.
RedoToBefore ==
  /\ redo # <<>>
  /\ Restore(Newest(redo).before)
  /\ redo' = WithoutNewest(redo)
  /\ undo' = Append(undo, Newest(redo))

Redo ==
  /\ redo # <<>>
  /\ Restore(Newest(redo).after)
  /\ redo' = WithoutNewest(redo)
  /\ undo' = Append(undo, Newest(redo))

\* Mutant: a failed history command stays at its target.
RollBackToTarget(target, other) ==
  /\ target.presentation # None
  /\ ~Asynchronous(target.document)
  /\ slot' = AfterRestore(slot, target, 1)
  /\ selection' = target.selection
  /\ NoHistory

(***************************************************************************)
(* The target's presentation is prepared inline and fails to: the other    *)
(* end of the entry is put back, whatever the state was when the command   *)
(* came.                                                                   *)
(***************************************************************************)
RollBack(target, other) ==
  /\ target.presentation # None
  /\ ~Asynchronous(target.document)
  /\ slot' = AfterRestore(slot, other, 1)
  /\ selection' = other.selection
  /\ NoHistory

UndoFails == undo # <<>> /\ RollBack(Newest(undo).before, Newest(undo).after)

RedoFails == redo # <<>> /\ RollBack(Newest(redo).after, Newest(redo).before)

-----------------------------------------------------------------------------
(***************************************************************************)
(* poll_async takes a finished LOD or a finished frame.                    *)
(***************************************************************************)
LodFinishes ==
  /\ slot.preparation.state = "pending"
  /\ \/ slot' = [slot EXCEPT !.preparation.state = "unavailable"]
     \/ slot' = [slot EXCEPT
          !.preparation.state = "ready",
          !.preparation.pyramids = slot.document.curves,
          !.frame_generation =
            IF slot.presentation # None /\ slot.viewport # None THEN 1 ELSE @]
  /\ UNCHANGED selection
  /\ NoHistory

FrameFinishes ==
  /\ slot.frame_generation # 0
  /\ \/ slot' = [slot EXCEPT !.frame_generation = 0]
     \/ \E v \in {slot.viewport, FullRange} :
          slot' = [slot EXCEPT
            !.frame_generation = 0,
            !.scene = [document |-> slot.document,
                       presentation |-> slot.presentation,
                       pyramids |-> slot.preparation.pyramids,
                       viewport |-> v]]
  /\ UNCHANGED selection
  /\ NoHistory

Next ==
  \/ \E doc \in Documents : SetDocument(doc)
  \/ \E p \in Presentations : SetPresentation(p)
  \/ \E v \in Viewports : SetViewportMetrics(v)
  \/ \E range \in DepthRanges : SetSelection(range)
  \/ ClearSelection
  \/ \E i \in Interpretations, r \in CurveSets, p \in Presentations :
       ApplyPatch(i, r, p)
  \/ \E r \in CurveSets : ApplyPatchFails(r)
  \/ \E r \in CurveSets, revision \in Revisions, v \in Viewports :
       AppendBatch(r, revision, v)
  \/ Undo \/ Redo \/ UndoFails \/ RedoFails
  \/ LodFinishes \/ FrameFinishes

Spec == Init /\ [][Next]_vars
-----------------------------------------------------------------------------
(***************************************************************************)
(* The entries and the current document form a chain: undo leads to the    *)
(* document the newest change was made to, redo to the one it made, and no *)
(* document on the way is skipped or met twice.  It is what makes the      *)
(* rollback to the other end of an entry a return to where we were.        *)
(***************************************************************************)
UndoChain ==
  /\ \A k \in 1 .. Len(undo) - 1 :
       undo[k].after.document = undo[k + 1].before.document
  /\ undo # <<>> => Newest(undo).after.document = slot.document

RedoChain ==
  /\ \A k \in 1 .. Len(redo) - 1 :
       redo[k].before.document = redo[k + 1].after.document
  /\ redo # <<>> => Newest(redo).before.document = slot.document

HistoryIsAChain == ~replaced => UndoChain /\ RedoChain

(***************************************************************************)
(* A selection names rows of the document revision it is tagged with: that *)
(* is always the document it is kept beside, now and in every entry, after *)
(* any number of remaps, restores and rollbacks.                           *)
(***************************************************************************)
Tagged(state) ==
  state.selection # None => state.selection.revision = state.document.revision

SelectionMatchesDocument ==
  /\ Tagged(semantic_state)
  /\ \A k \in DOMAIN undo : Tagged(undo[k].before) /\ Tagged(undo[k].after)
  /\ \A k \in DOMAIN redo : Tagged(redo[k].before) /\ Tagged(redo[k].after)

(***************************************************************************)
(* The history keeps the promise of UndoTimeline.                          *)
(***************************************************************************)
Timeline == INSTANCE UndoTimeline WITH
  past <- [k \in 1 .. Len(undo) |-> undo[k].before.document],
  present <- slot.document,
  future <- [k \in 1 .. Len(redo) |-> redo[k].after.document],
  intact <- ~replaced

TimelinePromise == Timeline!Spec

-----------------------------------------------------------------------------
(***************************************************************************)
(* "Revision identifies the complete document state after one immutable    *)
(* commit" (docs/data-model-and-api.md, 2.3): a document that a patch or   *)
(* an append makes does not carry a revision by which the session has      *)
(* known another document since it was loaded.                             *)
(***************************************************************************)
HistoryDocuments ==
  {undo[k].before.document : k \in DOMAIN undo}
  \cup {undo[k].after.document : k \in DOMAIN undo}
  \cup {redo[k].before.document : k \in DOMAIN redo}
  \cup {redo[k].after.document : k \in DOMAIN redo}

RevisionNamesOneDocument ==
  [][~replaced' /\ undo' # undo =>
       \A doc \in HistoryDocuments :
         doc.revision = slot'.document.revision => doc = slot'.document]_vars

(***************************************************************************)
(* "making the failed undo/redo a no-op" (session.cpp, execute_history):   *)
(* document, presentation and selection are those from before the command, *)
(* even when the host never replaced the document.                         *)
(***************************************************************************)
FailedHistoryIsNoOp ==
  [][~replaced /\ (UndoFails \/ RedoFails) =>
       semantic_state' = semantic_state]_vars

(***************************************************************************)
(* "Restore the presentation + viewport defaults so the LOD-completion     *)
(* frame task can build a scene" (session.cpp, commit_append_batch): a     *)
(* document that was shown is shown again after a recorded change, or its  *)
(* LOD or its frame is under way.                                          *)
(***************************************************************************)
CommitBringsSceneBack ==
  [][undo' # undo /\ slot.scene # None /\ slot'.presentation # None =>
       \/ slot'.scene # None
       \/ slot'.preparation.state = "pending"
       \/ slot'.frame_generation # 0]_vars

(***************************************************************************)
(* "Copy every entity from the current document into a fresh builder"      *)
(* (session.cpp, commit_append_batch): an append changes curves and leaves *)
(* the rest of the document as it was.  An append two revisions ahead is   *)
(* looked at, which no patch can be taken for.                             *)
(***************************************************************************)
AppendKeepsEveryEntity ==
  [][\A r \in CurveSets, v \in Viewports :
       AppendBatch(r, slot.document.revision + 2, v) =>
         slot'.document.interpretation = slot.document.interpretation]_vars
=============================================================================
