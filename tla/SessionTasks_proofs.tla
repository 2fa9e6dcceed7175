------------------------ MODULE SessionTasks_proofs -------------------------
(***************************************************************************)
(* Proofs about the session's tasks while it lives and when it ends.       *)
(*                                                                         *)
(* SessionAsync, for any number of documents, revisions, curve sets,       *)
(* presentations, viewports, workers and generations: the scene shown for  *)
(* a document is always a scene of the current document                    *)
(* (SceneOfCurrentDocument), and the session implements FrameDelivery.  Of *)
(* its tasks: what a document awaits is under way and was not asked to     *)
(* stop, what is superseded was, a document at rest shows what its last    *)
(* command asked for, and every task is accounted for.                     *)
(*                                                                         *)
(* SessionTeardown, for any pool of workers and any jobs: no job is lost   *)
(* or run twice, text is shaped by one worker at a time, no build starts   *)
(* once both drains have begun, and a destroyed session leaves nothing     *)
(* behind.                                                                 *)
(***************************************************************************)
EXTENDS SessionAsync, SessionTeardown, SessionSlot_proofs, FiniteSetTheorems

USE SlotAssumption, SessionAssumption

\* Generation 0 is the "none yet" of the code's counters.
LEMMA NoGeneration == 0 \in Generations
  BY DEF Generations

-----------------------------------------------------------------------------
(***************************************************************************)
(* What a command may do to a slot without disturbing the tasks that are   *)
(* already out: keep what a LOD task or a frame task is compared with, or  *)
(* stop waiting for it.                                                    *)
(***************************************************************************)
KeepsLod(s0, s) ==
  \/ s.preparation.state = "none"
  \/ s.preparation.generation = 0
  \/ s.preparation = s0.preparation /\ s.document = s0.document

KeepsFrame(s0, s) ==
  \/ s.frame_generation = 0
  \/ /\ s.frame_generation = s0.frame_generation
     /\ s.document = s0.document
     /\ s.presentation = s0.presentation
     /\ s.viewport = s0.viewport

(***************************************************************************)
(* A step that replaces one slot and starts nothing keeps the invariant.   *)
(***************************************************************************)
LEMMA StartNothingKeepsIInv ==
  ASSUME IInv, NEW d \in DocumentIds,
         NEW s \in Slots(Generations), SlotOK(s),
         slots' = [slots EXCEPT ![d] = s],
         KeepsLod(slots[d], s), KeepsFrame(slots[d], s),
         UNCHANGED task_vars
  PROVE  IInv'
  <1>1. SessionTypeOK'
    BY DEF IInv, SessionTypeOK, task_vars
  <1>2. \A e \in DocumentIds : slots'[e] = IF e = d THEN s ELSE slots[e]
    BY DEF IInv, SessionTypeOK
  <1>3. (\A e \in DocumentIds : SlotOK(slots[e]))'
    BY <1>2 DEF IInv
  <1>4. FreshGenerations'
    BY DEF IInv, FreshGenerations, task_vars
  <1>5. \A t \in lod_tasks : t.document_id \in DocumentIds /\ t.generation # 0
    BY DEF IInv, SessionTypeOK, LodTasks
  <1>6. CurrentLod'
    BY <1>2, <1>5 DEF IInv, CurrentLod, KeepsLod, task_vars
  <1>7. \A t \in frame_tasks : t.document_id \in DocumentIds /\ t.generation # 0
    BY DEF IInv, SessionTypeOK, FrameTasks
  <1>8. CurrentFrame'
    BY <1>2, <1>7 DEF IInv, CurrentFrame, KeepsFrame, task_vars
  <1>9. QED
    BY <1>1, <1>3, <1>4, <1>6, <1>8 DEF IInv

(***************************************************************************)
(* A step that replaces one slot and starts the LOD task it is pending on  *)
(* keeps the invariant.                                                    *)
(***************************************************************************)
LEMMA StartLodKeepsIInv ==
  ASSUME IInv, NEW d \in DocumentIds,
         NEW s \in Slots(Generations), SlotOK(s),
         slots' = [slots EXCEPT ![d] = s],
         s.preparation.state = "pending",
         s.preparation.generation = next_lod_generation,
         s.frame_generation = 0,
         NEW s1, s1.document = s.document, s.document \in Documents,
         StartLod(d, s1)
  PROVE  IInv'
  <1>. DEFINE new == LodTaskOf(d, s1, next_lod_generation)
  <1>0. next_lod_generation \in 1 .. MaxGeneration
        /\ next_lod_generation + 1 \in 1 .. MaxGeneration
    BY DEF IInv, SessionTypeOK, StartLod
  <1>1. new \in LodTasks
    BY <1>0 DEF LodTasks, LodTaskOf
  <1>2. SessionTypeOK'
    BY <1>0, <1>1 DEF IInv, SessionTypeOK, StartLod
  <1>3. \A e \in DocumentIds : slots'[e] = IF e = d THEN s ELSE slots[e]
    BY DEF IInv, SessionTypeOK
  <1>4. (\A e \in DocumentIds : SlotOK(slots[e]))'
    BY <1>3 DEF IInv
  <1>5. \A t \in lod_tasks :
          /\ t.document_id \in DocumentIds
          /\ t.generation \in 1 .. MaxGeneration
          /\ t.generation < next_lod_generation
    BY DEF IInv, SessionTypeOK, LodTasks, FreshGenerations
  <1>6. /\ new.generation = next_lod_generation
        /\ new.document_id = d
        /\ new.document = s.document
    BY DEF LodTaskOf
  <1>7. lod_tasks' = lod_tasks \cup {new} /\ frame_tasks' = frame_tasks
        /\ next_lod_generation' = next_lod_generation + 1
        /\ next_frame_generation' = next_frame_generation
    BY DEF StartLod
  <1>. HIDE DEF new
  <1>8. FreshGenerations'
    BY <1>0, <1>5, <1>6, <1>7 DEF IInv, FreshGenerations
  <1>9. CurrentLod'
    BY <1>0, <1>3, <1>5, <1>6, <1>7 DEF IInv, CurrentLod
  <1>10. \A t \in frame_tasks : t.document_id \in DocumentIds /\ t.generation # 0
    BY DEF IInv, SessionTypeOK, FrameTasks
  <1>11. CurrentFrame'
    BY <1>3, <1>7, <1>10 DEF IInv, CurrentFrame
  <1>12. QED
    BY <1>2, <1>4, <1>8, <1>9, <1>11 DEF IInv

(***************************************************************************)
(* A step that replaces one slot and starts the frame task it waits for    *)
(* keeps the invariant.  The task is made from s1, which shows what s is   *)
(* to show, at the window of s or at the full range.                       *)
(***************************************************************************)
LEMMA StartFrameKeepsIInv ==
  ASSUME IInv, NEW d \in DocumentIds,
         NEW s \in Slots(Generations), SlotOK(s),
         slots' = [slots EXCEPT ![d] = s],
         KeepsLod(slots[d], s),
         s.frame_generation = next_frame_generation,
         NEW s1 \in Slots(Generations),
         s1.document = s.document,
         s1.presentation = s.presentation,
         s1.preparation = s.preparation,
         s1.viewport \in {s.viewport, FullRange},
         StartFrame(d, s1)
  PROVE  IInv'
  <1>. DEFINE new == FrameTaskOf(d, s1, next_frame_generation)
  <1>0. next_frame_generation \in 1 .. MaxGeneration
        /\ next_frame_generation + 1 \in 1 .. MaxGeneration
    BY DEF IInv, SessionTypeOK, StartFrame
  <1>1. /\ s.document \in Documents
        /\ s.presentation \in Presentations
        /\ s.viewport \in Viewports
        /\ s.preparation.pyramids = s.document.curves
        /\ s.document.curves \in CurveSets
    BY <1>0 DEF SlotOK, Slots, Documents
  <1>2. new \in FrameTasks
    BY <1>0, <1>1 DEF FrameTasks, FrameTaskOf
  <1>3. SessionTypeOK'
    BY <1>0, <1>2 DEF IInv, SessionTypeOK, StartFrame
  <1>4. \A e \in DocumentIds : slots'[e] = IF e = d THEN s ELSE slots[e]
    BY DEF IInv, SessionTypeOK
  <1>5. (\A e \in DocumentIds : SlotOK(slots[e]))'
    BY <1>4 DEF IInv
  <1>6. \A t \in frame_tasks :
          /\ t.document_id \in DocumentIds
          /\ t.generation \in 1 .. MaxGeneration
          /\ t.generation < next_frame_generation
    BY DEF IInv, SessionTypeOK, FrameTasks, FreshGenerations
  <1>7. /\ new.generation = next_frame_generation
        /\ new.document_id = d
        /\ new.document = s.document
        /\ new.presentation = s.presentation
        /\ new.pyramids = s.document.curves
        /\ new.viewport \in {s.viewport, FullRange}
    BY <1>1 DEF FrameTaskOf
  <1>8. frame_tasks' = frame_tasks \cup {new} /\ lod_tasks' = lod_tasks
        /\ next_frame_generation' = next_frame_generation + 1
        /\ next_lod_generation' = next_lod_generation
    BY DEF StartFrame
  <1>. HIDE DEF new
  <1>9. FreshGenerations'
    BY <1>0, <1>6, <1>7, <1>8 DEF IInv, FreshGenerations
  <1>10. CurrentFrame'
    BY <1>0, <1>4, <1>6, <1>7, <1>8 DEF IInv, CurrentFrame
  <1>11. \A t \in lod_tasks : t.document_id \in DocumentIds /\ t.generation # 0
    BY DEF IInv, SessionTypeOK, LodTasks
  <1>12. CurrentLod'
    BY <1>4, <1>8, <1>11 DEF IInv, CurrentLod, KeepsLod
  <1>13. QED
    BY <1>3, <1>5, <1>9, <1>10, <1>12 DEF IInv

-----------------------------------------------------------------------------
(***************************************************************************)
(* The commands keep the invariant.                                        *)
(***************************************************************************)
LEMMA TypesOfIInv ==
  ASSUME IInv, NEW d \in DocumentIds
  PROVE  /\ slots[d] \in Slots(Generations)
         /\ SlotOK(slots[d])
         /\ next_lod_generation \in Generations \ {0}
         /\ next_frame_generation \in Generations \ {0}
  BY DEF IInv, SessionTypeOK, Generations

\* The step of SetDocumentCommand.
LEMMA SetDocumentKeepsIInv ==
  ASSUME IInv, NEW d \in DocumentIds, NEW doc \in Documents, SetDocument(d, doc)
  PROVE  IInv'
  <1>. DEFINE s == AfterSetDocument(slots[d], doc, "none", next_lod_generation)
  <1>1. s \in Slots(Generations) /\ SlotOK(s)
    BY TypesOfIInv, NoGeneration, AfterSetDocumentOK
  <1>2. slots' = [slots EXCEPT ![d] = s]
    BY DEF SetDocument, Command
  <1>3. s.document = doc /\ s.frame_generation = 0
    BY DEF AfterSetDocument
  <1>4. CASE StartsLod(slots[d], doc, "none")
    <2>1. StartLod(d, s)
      BY <1>4 DEF SetDocument
    <2>2. /\ s.preparation.state = "pending"
          /\ s.preparation.generation = next_lod_generation
      BY <1>4 DEF StartsLod, AfterSetDocument
    <2>. HIDE DEF s
    <2>3. QED
      BY <1>1, <1>2, <1>3, <2>1, <2>2, StartLodKeepsIInv
  <1>5. CASE ~StartsLod(slots[d], doc, "none")
    <2>1. UNCHANGED task_vars
      BY <1>5 DEF SetDocument, StartNothing
    <2>2. s.preparation.state = "none" \/ s.preparation.generation = 0
      BY <1>5 DEF StartsLod, AfterSetDocument, NoPreparation
    <2>3. KeepsLod(slots[d], s) /\ KeepsFrame(slots[d], s)
      BY <1>3, <2>2 DEF KeepsLod, KeepsFrame
    <2>. HIDE DEF s
    <2>4. QED
      BY <1>1, <1>2, <2>1, <2>3, StartNothingKeepsIInv
  <1>6. QED
    BY <1>4, <1>5

\* The step of SetPresentationCommand.
LEMMA SetPresentationKeepsIInv ==
  ASSUME IInv, NEW d \in DocumentIds, NEW p \in Presentations, SetPresentation(d, p)
  PROVE  IInv'
  <1>. DEFINE s == AfterSetPresentation(slots[d], p, next_frame_generation)
  <1>1. s \in Slots(Generations) /\ SlotOK(s)
    BY TypesOfIInv, NoGeneration, AfterSetPresentationOK DEF SetPresentation
  <1>2. slots' = [slots EXCEPT ![d] = s]
    BY DEF SetPresentation, Command
  <1>3. s.preparation = slots[d].preparation /\ s.document = slots[d].document
    BY TypesOfIInv DEF AfterSetPresentation, Slots
  <1>4. KeepsLod(slots[d], s)
    BY <1>3 DEF KeepsLod
  <1>5. CASE SchedulesPresentation(slots[d])
    <2>1. StartFrame(d, s)
      BY <1>5 DEF SetPresentation
    <2>2. s.frame_generation = next_frame_generation
      BY <1>5, TypesOfIInv DEF AfterSetPresentation, Slots
    <2>. HIDE DEF s
    <2>3. QED
      BY <1>1, <1>2, <1>4, <2>1, <2>2, StartFrameKeepsIInv
  <1>6. CASE ~SchedulesPresentation(slots[d])
    <2>1. UNCHANGED task_vars
      BY <1>6 DEF SetPresentation, StartNothing
    <2>2. s.frame_generation = 0
      BY <1>6, TypesOfIInv DEF AfterSetPresentation, Slots
    <2>3. KeepsFrame(slots[d], s)
      BY <2>2 DEF KeepsFrame
    <2>. HIDE DEF s
    <2>4. QED
      BY <1>1, <1>2, <1>4, <2>1, <2>3, StartNothingKeepsIInv
  <1>7. QED
    BY <1>5, <1>6

\* The step of SetViewportMetricsCommand.
LEMMA SetViewportMetricsKeepsIInv ==
  ASSUME IInv, NEW d \in DocumentIds, NEW v \in Viewports, SetViewportMetrics(d, v)
  PROVE  IInv'
  <1>. DEFINE s == AfterSetViewportMetrics(slots[d], v, next_frame_generation)
  <1>1. s \in Slots(Generations) /\ SlotOK(s)
    BY TypesOfIInv, NoGeneration, AfterSetViewportMetricsOK
  <1>2. slots' = [slots EXCEPT ![d] = s]
    BY DEF SetViewportMetrics, Command
  <1>3. s.preparation = slots[d].preparation /\ s.document = slots[d].document
    BY TypesOfIInv DEF AfterSetViewportMetrics, Slots
  <1>4. KeepsLod(slots[d], s)
    BY <1>3 DEF KeepsLod
  <1>5. CASE SchedulesViewport(slots[d])
    <2>1. StartFrame(d, s)
      BY <1>5 DEF SetViewportMetrics
    <2>2. s.frame_generation = next_frame_generation
      BY <1>5, TypesOfIInv DEF AfterSetViewportMetrics, Slots
    <2>. HIDE DEF s
    <2>3. QED
      BY <1>1, <1>2, <1>4, <2>1, <2>2, StartFrameKeepsIInv
  <1>6. CASE ~SchedulesViewport(slots[d])
    <2>1. UNCHANGED task_vars
      BY <1>6 DEF SetViewportMetrics, StartNothing
    <2>2. slots[d].frame_generation = 0
      BY <1>6, TypesOfIInv DEF SlotOK, SchedulesViewport
    <2>3. s.frame_generation = 0
      BY <1>6, <2>2, TypesOfIInv DEF AfterSetViewportMetrics, Slots
    <2>4. KeepsFrame(slots[d], s)
      BY <2>3 DEF KeepsFrame
    <2>. HIDE DEF s
    <2>5. QED
      BY <1>1, <1>2, <1>4, <2>1, <2>4, StartNothingKeepsIInv
  <1>7. QED
    BY <1>5, <1>6

\* The step of ApplyPatchCommand, through its three delegated commits.
LEMMA ApplyPatchKeepsIInv ==
  ASSUME IInv, NEW d \in DocumentIds, NEW i \in Interpretations,
         NEW r \in CurveSets, NEW p \in Presentations, ApplyPatch(d, i, r, p)
  PROVE  IInv'
  <1>. DEFINE before == slots[d]
              doc == PatchedDocument(before.document, i, r)
              hint == StagedHint(before, "unchanged_document")
              s1 == AfterSetDocument(before, doc, hint, next_lod_generation)
              s2 == IF before.presentation = None THEN s1
                    ELSE AfterSetPresentation(s1, p, next_frame_generation)
              s == AfterRestoreViewport(s2, before.viewport)
  <1>1. doc \in Documents
    BY TypesOfIInv DEF ApplyPatch, PatchedDocument, Slots, Documents
  <1>2. s1 \in Slots(Generations) /\ SlotOK(s1)
    BY <1>1, TypesOfIInv, NoGeneration, AfterSetDocumentOK
  <1>3. s1.document = doc /\ s1.frame_generation = 0 /\ doc # None
    BY <1>1 DEF AfterSetDocument
  <1>4. /\ slots' = [slots EXCEPT ![d] = s]
        /\ IF StartsLod(before, doc, hint) THEN StartLod(d, s1)
           ELSE IF before.presentation # None /\ SchedulesPresentation(s1)
           THEN StartFrame(d, s2)
           ELSE UNCHANGED task_vars
    BY DEF ApplyPatch, Command, StartNothing
  <1>5. StartsLod(before, doc, hint) =>
          /\ s1.preparation.state = "pending"
          /\ s1.preparation.generation = next_lod_generation
    BY DEF StartsLod, AfterSetDocument
  <1>6. ~StartsLod(before, doc, hint) =>
          s1.preparation.state = "none" \/ s1.preparation.generation = 0
    BY DEF StartsLod, AfterSetDocument, NoPreparation
  <1>7. before.viewport \in Viewports \cup {None}
    BY TypesOfIInv DEF Slots
  <1>. HIDE DEF s1, doc, hint
  <1>8. s2 \in Slots(Generations) /\ SlotOK(s2)
    BY <1>2, <1>3, TypesOfIInv, NoGeneration, AfterSetPresentationOK
  <1>9. /\ s2.document = doc
        /\ s2.preparation = s1.preparation
        /\ s2.frame_generation =
             IF before.presentation # None /\ SchedulesPresentation(s1)
             THEN next_frame_generation ELSE 0
        /\ before.presentation # None => s2.viewport = FullRange
    BY <1>2, <1>3 DEF AfterSetPresentation, Slots
  <1>. HIDE DEF s2
  <1>10. s \in Slots(Generations) /\ SlotOK(s)
    BY <1>7, <1>8, NoGeneration, AfterRestoreViewportOK
  <1>11. /\ s.document = s2.document
         /\ s.preparation = s2.preparation
         /\ s.presentation = s2.presentation
         /\ s.frame_generation = s2.frame_generation
         /\ s.viewport = s2.viewport \/ s.viewport = before.viewport
    BY <1>8 DEF AfterRestoreViewport, Slots
  <1>. HIDE DEF s
  <1>12. CASE StartsLod(before, doc, hint)
    <2>1. s.frame_generation = 0
      BY <1>5, <1>9, <1>11, <1>12 DEF SchedulesPresentation
    <2>2. QED
      BY <1>1, <1>3, <1>4, <1>5, <1>9, <1>10, <1>11, <1>12, <2>1, StartLodKeepsIInv
  <1>13. CASE ~StartsLod(before, doc, hint)
    <2>1. KeepsLod(slots[d], s)
      BY <1>6, <1>9, <1>11, <1>13 DEF KeepsLod
    <2>2. CASE before.presentation # None /\ SchedulesPresentation(s1)
      <3>1. s2.viewport \in {s.viewport, FullRange}
        BY <1>9, <2>2
      <3>2. StartFrame(d, s2) /\ s.frame_generation = next_frame_generation
        BY <1>4, <1>9, <1>11, <1>13, <2>2
      <3>3. QED
        BY <1>4, <1>8, <1>10, <1>11, <2>1, <3>1, <3>2, StartFrameKeepsIInv
    <2>3. CASE ~(before.presentation # None /\ SchedulesPresentation(s1))
      <3>1. UNCHANGED task_vars
        BY <1>4, <1>13, <2>3
      <3>2. KeepsFrame(slots[d], s)
        BY <1>9, <1>11, <2>3 DEF KeepsFrame
      <3>3. QED
        BY <1>4, <1>10, <2>1, <3>1, <3>2, StartNothingKeepsIInv
    <2>4. QED
      BY <2>2, <2>3
  <1>14. QED
    BY <1>12, <1>13

(***************************************************************************)
(* Putting an earlier document back: its LOD starts from nothing, and no   *)
(* frame is awaited.                                                       *)
(***************************************************************************)
LEMMA RestoresKeepsIInv ==
  ASSUME IInv, NEW d \in DocumentIds, NEW doc \in Documents,
         NEW s \in Slots(Generations), SlotOK(s), s.document = doc,
         s.frame_generation = 0,
         s.preparation =
           IF Asynchronous(doc)
           THEN [state |-> "pending", revision |-> doc.revision,
                 generation |-> next_lod_generation, pyramids |-> None]
           ELSE NoPreparation,
         Restores(d, doc, s)
  PROVE  IInv'
  <1>1. /\ slots' = [slots EXCEPT ![d] = s]
        /\ IF Asynchronous(doc) THEN StartLod(d, s) ELSE UNCHANGED task_vars
    BY DEF Restores, Command, StartNothing
  <1>2. CASE Asynchronous(doc)
    <2>1. /\ StartLod(d, s)
          /\ s.preparation.state = "pending"
          /\ s.preparation.generation = next_lod_generation
      BY <1>1, <1>2
    <2>2. QED
      BY <1>1, <2>1, StartLodKeepsIInv
  <1>3. CASE ~Asynchronous(doc)
    <2>1. KeepsLod(slots[d], s) /\ KeepsFrame(slots[d], s)
      BY <1>3 DEF KeepsLod, KeepsFrame, NoPreparation
    <2>2. QED
      BY <1>1, <1>3, <2>1, StartNothingKeepsIInv
  <1>4. QED
    BY <1>2, <1>3

\* The step of UndoCommand and RedoCommand.
LEMMA UndoOrRedoKeepsIInv ==
  ASSUME IInv, NEW d \in DocumentIds, NEW doc \in Documents,
         NEW p \in Presentations \cup {None}, UndoOrRedo(d, doc, p)
  PROVE  IInv'
  <1>. DEFINE entry == [document |-> doc, presentation |-> p]
              s == AfterHistory(slots[d], entry, next_lod_generation)
  <1>1. slots[d] \in Slots(Generations) /\ SlotOK(slots[d])
        /\ next_lod_generation \in Generations
    BY TypesOfIInv DEF Generations
  <1>2. Restores(d, doc, s)
    BY DEF UndoOrRedo
  <1>3. /\ s \in Slots(Generations)
        /\ SlotOK(s)
        /\ s.document = doc
        /\ s.frame_generation = 0
        /\ s.preparation =
             IF Asynchronous(doc)
             THEN [state |-> "pending", revision |-> doc.revision,
                   generation |-> next_lod_generation, pyramids |-> None]
             ELSE NoPreparation
    BY <1>1, NoGeneration, AfterHistoryOK
  <1>. HIDE DEF s
  <1>4. QED
    BY <1>2, <1>3, RestoresKeepsIInv

\* The rollback of a patch, an undo or a redo.
LEMMA RollBackKeepsIInv ==
  ASSUME IInv, NEW d \in DocumentIds, NEW doc \in Documents,
         NEW p \in Presentations, RollBack(d, doc, p)
  PROVE  IInv'
  <1>. DEFINE entry == [document |-> doc, presentation |-> p]
              s == AfterRestore(slots[d], entry, next_lod_generation)
  <1>1. slots[d] \in Slots(Generations) /\ SlotOK(slots[d])
        /\ next_lod_generation \in Generations
    BY TypesOfIInv DEF Generations
  <1>2. Restores(d, doc, s)
    BY DEF RollBack
  <1>3. /\ s \in Slots(Generations)
        /\ SlotOK(s)
        /\ s.document = doc
        /\ s.frame_generation = 0
        /\ s.preparation =
             IF Asynchronous(doc)
             THEN [state |-> "pending", revision |-> doc.revision,
                   generation |-> next_lod_generation, pyramids |-> None]
             ELSE NoPreparation
    BY <1>1, NoGeneration, AfterRestoreOK
  <1>. HIDE DEF s
  <1>4. QED
    BY <1>2, <1>3, RestoresKeepsIInv

\* The step of AppendBatchCommand.
LEMMA AppendBatchKeepsIInv ==
  ASSUME IInv, NEW d \in DocumentIds, NEW r \in CurveSets,
         NEW revision \in Revisions, NEW v \in Viewports,
         AppendBatch(d, r, revision, v)
  PROVE  IInv'
  <1>. DEFINE before == slots[d]
              doc == AppendedDocument(before.document, r, revision)
              hint == StagedHint(before, "append_tail")
              s1 == AfterSetDocument(before, doc, hint, next_lod_generation)
              s == AfterAppendRestore(s1, before, v)
  <1>1. doc \in Documents /\ doc # None
    BY TypesOfIInv DEF AppendBatch, AppendedDocument, Slots, Documents
  <1>2. s1 \in Slots(Generations) /\ SlotOK(s1)
    BY <1>1, TypesOfIInv, NoGeneration, AfterSetDocumentOK
  <1>3. s1.document = doc /\ s1.frame_generation = 0
    BY DEF AfterSetDocument
  <1>4. /\ slots' = [slots EXCEPT ![d] = s]
        /\ IF StartsLod(before, doc, hint) THEN StartLod(d, s1)
           ELSE UNCHANGED task_vars
    BY DEF AppendBatch, Command, StartNothing
  <1>5. IF StartsLod(before, doc, hint)
        THEN /\ s1.preparation.state = "pending"
             /\ s1.preparation.generation = next_lod_generation
        ELSE s1.preparation.state = "none" \/ s1.preparation.generation = 0
    BY DEF StartsLod, AfterSetDocument, NoPreparation
  <1>. HIDE DEF s1, doc, hint
  <1>6. s \in Slots(Generations) /\ SlotOK(s)
    BY <1>1, <1>2, <1>3, TypesOfIInv, NoGeneration, AfterAppendRestoreOK
  <1>7. /\ s.document = s1.document
        /\ s.preparation = s1.preparation
        /\ s.frame_generation = 0
    BY <1>2, <1>3 DEF AfterAppendRestore, Slots
  <1>. HIDE DEF s
  <1>8. CASE StartsLod(before, doc, hint)
    BY <1>1, <1>3, <1>4, <1>5, <1>6, <1>7, <1>8, StartLodKeepsIInv
  <1>9. CASE ~StartsLod(before, doc, hint)
    <2>1. KeepsLod(before, s) /\ KeepsFrame(before, s)
      BY <1>5, <1>7, <1>9 DEF KeepsLod, KeepsFrame
    <2>2. QED
      BY <1>4, <1>6, <1>9, <2>1, StartNothingKeepsIInv
  <1>10. QED
    BY <1>8, <1>9

-----------------------------------------------------------------------------
(***************************************************************************)
(* poll_async keeps the invariant.  A taken task leaves its set, which no  *)
(* part of the invariant minds.                                            *)
(***************************************************************************)
LEMMA TakenTasksKeepIInv ==
  ASSUME IInv, slots' = slots,
         lod_tasks' \subseteq lod_tasks, frame_tasks' \subseteq frame_tasks,
         next_lod_generation' = next_lod_generation,
         next_frame_generation' = next_frame_generation
  PROVE  IInv'
  <1>1. SessionTypeOK'
    BY DEF IInv, SessionTypeOK
  <1>2. (\A d \in DocumentIds : SlotOK(slots[d]))'
    BY DEF IInv
  <1>3. FreshGenerations'
    BY DEF IInv, FreshGenerations
  <1>4. CurrentLod'
    BY DEF IInv, CurrentLod
  <1>5. CurrentFrame'
    BY DEF IInv, CurrentFrame
  <1>6. QED
    BY <1>1, <1>2, <1>3, <1>4, <1>5 DEF IInv

(***************************************************************************)
(* The preparation a finished LOD task leaves behind, whatever its result. *)
(* Other LOD tasks of the document have other generations, so they are not *)
(* the one it is compared with.                                            *)
(***************************************************************************)
LEMMA LodTaskFacts ==
  ASSUME IInv, NEW t \in lod_tasks
  PROVE  /\ t.document_id \in DocumentIds
         /\ t.document \in Documents
         /\ t.generation \in 1 .. MaxGeneration
         /\ slots[t.document_id] \in Slots(Generations)
         /\ SlotOK(slots[t.document_id])
         /\ LodIsCurrent(t) =>
              /\ slots[t.document_id].preparation.state = "pending"
              /\ slots[t.document_id].document = t.document
              /\ slots[t.document_id].frame_generation = 0
  <1>1. /\ t.document_id \in DocumentIds
        /\ t.document \in Documents
        /\ t.generation \in 1 .. MaxGeneration
    BY DEF IInv, SessionTypeOK, LodTasks
  <1>2. slots[t.document_id] \in Slots(Generations) /\ SlotOK(slots[t.document_id])
    BY <1>1, TypesOfIInv
  <1>3. LodIsCurrent(t) =>
          /\ slots[t.document_id].preparation.state = "pending"
          /\ slots[t.document_id].document = t.document
    BY DEF IInv, CurrentLod, LodIsCurrent
  <1>4. LodIsCurrent(t) => slots[t.document_id].frame_generation = 0
    BY <1>2, <1>3 DEF SlotOK
  <1>5. QED
    BY <1>1, <1>2, <1>3, <1>4

\* A LOD result, good or bad, that is recorded in the slot it was made for.
LEMMA WithPreparationOK ==
  ASSUME IInv, NEW t \in lod_tasks, LodIsCurrent(t),
         NEW state \in {"ready", "unavailable"},
         NEW pyramids \in CurveSets \cup {None},
         state = "ready" => pyramids = t.document.curves
  PROVE  LET s0 == slots[t.document_id]
             s == WithPreparation(s0, state, pyramids)
         IN /\ s \in Slots(Generations)
            /\ SlotOK(s)
            /\ s.document = s0.document
            /\ s.presentation = s0.presentation
            /\ s.viewport = s0.viewport
            /\ s.scene = s0.scene
            /\ s.frame_generation = 0
            /\ s.preparation.generation = s0.preparation.generation
            /\ s.preparation.pyramids = pyramids
            /\ s.preparation.state = state
  <1>. DEFINE s0 == slots[t.document_id]
              s == WithPreparation(s0, state, pyramids)
  <1>1. /\ s0 \in Slots(Generations)
        /\ SlotOK(s0)
        /\ s0.preparation.state = "pending"
        /\ s0.document = t.document
        /\ s0.frame_generation = 0
    BY LodTaskFacts
  <1>2. s.preparation = [s0.preparation EXCEPT !.state = state, !.pyramids = pyramids]
    BY <1>1 DEF WithPreparation, Slots
  <1>3. s0.preparation \in Preparations(Generations)
    BY <1>1 DEF Slots
  <1>4. s.preparation \in Preparations(Generations)
        /\ s.preparation.generation = s0.preparation.generation
        /\ s.preparation.revision = s0.preparation.revision
        /\ s.preparation.pyramids = pyramids
        /\ s.preparation.state = state
    BY <1>2, <1>3 DEF Preparations, PreparationStates
  <1>5. /\ s.document = s0.document
        /\ s.presentation = s0.presentation
        /\ s.viewport = s0.viewport
        /\ s.scene = s0.scene
        /\ s.frame_generation = 0
    BY <1>1 DEF WithPreparation, Slots
  <1>6. s \in Slots(Generations)
    BY <1>1, <1>4 DEF WithPreparation, Slots
  <1>7. SlotOK(s)
    BY <1>1, <1>4, <1>5 DEF SlotOK
  <1>8. QED
    BY <1>4, <1>5, <1>6, <1>7

\* poll_async drops a LOD result nobody waits for.
LEMMA LodDiscardedKeepsIInv ==
  ASSUME IInv, NEW t \in lod_tasks, LodDiscarded(t)
  PROVE  IInv'
  BY TakenTasksKeepIInv DEF LodDiscarded, TakeLod

(***************************************************************************)
(* Replacing the slot of a document whose LOD has been taken, by one that  *)
(* waits for no frame.                                                     *)
(***************************************************************************)
LEMMA LodTakenKeepsIInv ==
  ASSUME IInv, NEW t \in lod_tasks, LodIsCurrent(t),
         NEW s \in Slots(Generations), SlotOK(s),
         slots' = [slots EXCEPT ![t.document_id] = s],
         s.preparation.generation = slots[t.document_id].preparation.generation,
         s.frame_generation = 0,
         lod_tasks' = lod_tasks \ {t}, frame_tasks' = frame_tasks,
         next_lod_generation' = next_lod_generation,
         next_frame_generation' = next_frame_generation
  PROVE  IInv'
  <1>. DEFINE d == t.document_id
  <1>1. SessionTypeOK'
    BY LodTaskFacts DEF IInv, SessionTypeOK
  <1>2. \A e \in DocumentIds : slots'[e] = IF e = d THEN s ELSE slots[e]
    BY LodTaskFacts DEF IInv, SessionTypeOK
  <1>3. (\A e \in DocumentIds : SlotOK(slots[e]))'
    BY <1>2 DEF IInv
  <1>4. FreshGenerations'
    BY DEF IInv, FreshGenerations
  <1>5. slots[d].preparation.generation = t.generation
    BY DEF LodIsCurrent
  <1>6. \A u \in lod_tasks \ {t} : u.generation # t.generation
                                  /\ u.document_id \in DocumentIds
    BY LodTaskFacts DEF IInv, FreshGenerations
  <1>7. CurrentLod'
    BY <1>2, <1>5, <1>6 DEF IInv, CurrentLod
  <1>8. \A u \in frame_tasks : u.document_id \in DocumentIds /\ u.generation # 0
    BY DEF IInv, SessionTypeOK, FrameTasks
  <1>9. CurrentFrame'
    BY <1>2, <1>8 DEF IInv, CurrentFrame
  <1>10. QED
    BY <1>1, <1>3, <1>4, <1>7, <1>9 DEF IInv

\* poll_async takes the failure of the awaited LOD task.
LEMMA LodFailsKeepsIInv ==
  ASSUME IInv, NEW t \in lod_tasks, LodFails(t)
  PROVE  IInv'
  <1>. DEFINE s0 == slots[t.document_id]
              s == WithPreparation(s0, "unavailable", s0.preparation.pyramids)
  <1>1. LodIsCurrent(t) /\ slots' = [slots EXCEPT ![t.document_id] = s]
    BY DEF LodFails
  <1>2. /\ lod_tasks' = lod_tasks \ {t} /\ frame_tasks' = frame_tasks
        /\ next_lod_generation' = next_lod_generation
        /\ next_frame_generation' = next_frame_generation
    BY DEF LodFails, TakeLod
  <1>3. s0.preparation.pyramids \in CurveSets \cup {None}
    BY LodTaskFacts DEF Slots, Preparations
  <1>4. /\ s \in Slots(Generations) /\ SlotOK(s)
        /\ s.frame_generation = 0
        /\ s.preparation.generation = s0.preparation.generation
    BY <1>1, <1>3, WithPreparationOK
  <1>. HIDE DEF s
  <1>5. QED
    BY <1>1, <1>2, <1>4, LodTakenKeepsIInv

\* poll_async takes the awaited LOD and may start its first frame.
LEMMA LodReadyKeepsIInv ==
  ASSUME IInv, NEW t \in lod_tasks, LodReady(t)
  PROVE  IInv'
  <1>. DEFINE d == t.document_id
              curves == t.document.curves
              s == WithPreparation(slots[d], "ready", curves)
              unavailable == WithPreparation(slots[d], "unavailable", curves)
              shows == s.presentation # None /\ s.viewport # None
              framed == [s EXCEPT !.frame_generation = next_frame_generation]
  <1>1. LodIsCurrent(t) /\ curves \in CurveSets
    BY LodTaskFacts DEF LodReady, Documents
  <1>2. /\ lod_tasks' = lod_tasks \ {t}
        /\ next_lod_generation' = next_lod_generation
    BY DEF LodReady, TakeLod
  <1>3. \/ /\ slots' = [slots EXCEPT ![d] = s]
           /\ UNCHANGED <<frame_tasks, next_frame_generation>>
        \/ /\ slots' = [slots EXCEPT ![d] = unavailable]
           /\ UNCHANGED <<frame_tasks, next_frame_generation>>
        \/ /\ shows
           /\ next_frame_generation < MaxGeneration
           /\ slots' = [slots EXCEPT ![d] = framed]
           /\ frame_tasks' = frame_tasks \cup {FrameTaskOf(d, s, next_frame_generation)}
           /\ next_frame_generation' = next_frame_generation + 1
    BY DEF LodReady
  <1>4. /\ s \in Slots(Generations) /\ SlotOK(s)
        /\ s.document = t.document
        /\ s.frame_generation = 0
        /\ s.preparation.generation = slots[d].preparation.generation
        /\ s.preparation.state = "ready"
        /\ s.preparation.pyramids = curves
    BY <1>1, WithPreparationOK, LodTaskFacts
  <1>5. /\ unavailable \in Slots(Generations) /\ SlotOK(unavailable)
        /\ unavailable.frame_generation = 0
        /\ unavailable.preparation.generation = slots[d].preparation.generation
    BY <1>1, WithPreparationOK
  <1>. HIDE DEF s, unavailable
  <1>6. CASE /\ slots' = [slots EXCEPT ![d] = s]
             /\ UNCHANGED <<frame_tasks, next_frame_generation>>
    BY <1>1, <1>2, <1>4, <1>6, LodTakenKeepsIInv
  <1>7. CASE /\ slots' = [slots EXCEPT ![d] = unavailable]
             /\ UNCHANGED <<frame_tasks, next_frame_generation>>
    BY <1>1, <1>2, <1>5, <1>7, LodTakenKeepsIInv
  <1>8. CASE /\ shows
             /\ next_frame_generation < MaxGeneration
             /\ slots' = [slots EXCEPT ![d] = framed]
             /\ frame_tasks' = frame_tasks \cup {FrameTaskOf(d, s, next_frame_generation)}
             /\ next_frame_generation' = next_frame_generation + 1
    <2>. DEFINE new == FrameTaskOf(d, s, next_frame_generation)
    <2>0. /\ d \in DocumentIds
          /\ t.document \in Documents
          /\ s.presentation \in Presentations
          /\ s.viewport \in Viewports
          /\ next_frame_generation \in 1 .. MaxGeneration
          /\ next_frame_generation + 1 \in 1 .. MaxGeneration
          /\ next_frame_generation \in Generations
      BY <1>4, <1>8, LodTaskFacts DEF IInv, SessionTypeOK, Slots, Generations
    <2>1. /\ new.document_id = d
          /\ new.generation = next_frame_generation
          /\ new.document = s.document
          /\ new.presentation = s.presentation
          /\ new.pyramids = curves
          /\ new.viewport = s.viewport
          /\ new \in FrameTasks
      BY <1>1, <1>4, <2>0 DEF FrameTaskOf, FrameTasks
    <2>2. /\ framed.document = s.document
          /\ framed.presentation = s.presentation
          /\ framed.viewport = s.viewport
          /\ framed.scene = s.scene
          /\ framed.preparation = s.preparation
          /\ framed.frame_generation = next_frame_generation
          /\ framed \in Slots(Generations)
      BY <1>4, <2>0 DEF Slots
    <2>3. SlotOK(framed)
      BY <1>4, <1>8, <2>2 DEF SlotOK
    <2>. HIDE DEF framed, new
    <2>4. \A e \in DocumentIds : slots'[e] = IF e = d THEN framed ELSE slots[e]
      BY <1>8 DEF IInv, SessionTypeOK
    <2>5. frame_tasks' = frame_tasks \cup {new}
      BY <1>8 DEF new
    <2>6. SessionTypeOK'
      BY <1>2, <1>8, <2>0, <2>1, <2>2, <2>5 DEF IInv, SessionTypeOK
    <2>7. (\A e \in DocumentIds : SlotOK(slots[e]))'
      BY <2>3, <2>4 DEF IInv
    <2>8. \A u \in frame_tasks :
            /\ u.document_id \in DocumentIds
            /\ u.generation \in 1 .. MaxGeneration
            /\ u.generation < next_frame_generation
      BY DEF IInv, SessionTypeOK, FrameTasks, FreshGenerations
    <2>9. FreshGenerations'
      BY <1>2, <1>8, <2>0, <2>1, <2>5, <2>8 DEF IInv, FreshGenerations
    <2>10. slots[d].preparation.generation = t.generation
      BY <1>1 DEF LodIsCurrent
    <2>11. \A u \in lod_tasks \ {t} : u.generation # t.generation
                                     /\ u.document_id \in DocumentIds
      BY DEF IInv, FreshGenerations, SessionTypeOK, LodTasks
    <2>12. CurrentLod'
      BY <1>2, <1>4, <2>2, <2>4, <2>10, <2>11 DEF IInv, CurrentLod
    <2>13. CurrentFrame'
      BY <1>4, <2>0, <2>1, <2>2, <2>4, <2>5, <2>8 DEF IInv, CurrentFrame
    <2>14. QED
      BY <2>6, <2>7, <2>9, <2>12, <2>13 DEF IInv
  <1>9. QED
    BY <1>3, <1>6, <1>7, <1>8

\* What the invariant says of an outstanding frame task.
LEMMA FrameTaskFacts ==
  ASSUME IInv, NEW t \in frame_tasks
  PROVE  /\ t.document_id \in DocumentIds
         /\ t.document \in Documents
         /\ t.presentation \in Presentations
         /\ t.pyramids \in CurveSets
         /\ t.viewport \in Viewports
         /\ t.generation \in 1 .. MaxGeneration
         /\ slots[t.document_id] \in Slots(Generations)
         /\ SlotOK(slots[t.document_id])
         /\ FrameIsCurrent(t) =>
              /\ t.document = slots[t.document_id].document
              /\ t.pyramids = PyramidsFor(t.document)
              /\ t.presentation = slots[t.document_id].presentation
              /\ t.viewport \in {slots[t.document_id].viewport, FullRange}
  <1>1. /\ t.document_id \in DocumentIds
        /\ t.document \in Documents
        /\ t.presentation \in Presentations
        /\ t.pyramids \in CurveSets
        /\ t.viewport \in Viewports
        /\ t.generation \in 1 .. MaxGeneration
    BY DEF IInv, SessionTypeOK, FrameTasks
  <1>2. slots[t.document_id] \in Slots(Generations) /\ SlotOK(slots[t.document_id])
    BY <1>1, TypesOfIInv
  <1>3. FrameIsCurrent(t) =>
          /\ t.document = slots[t.document_id].document
          /\ t.pyramids = t.document.curves
          /\ t.presentation = slots[t.document_id].presentation
          /\ t.viewport \in {slots[t.document_id].viewport, FullRange}
    BY DEF IInv, CurrentFrame, FrameIsCurrent
  <1>4. FrameIsCurrent(t) => t.pyramids = PyramidsFor(t.document)
    <2>1. SUFFICES ASSUME FrameIsCurrent(t)
                   PROVE  Asynchronous(t.document)
      BY <1>3 DEF PyramidsFor
    <2>2. slots[t.document_id].preparation.state = "ready"
      BY <1>1, <1>2, <2>1 DEF FrameIsCurrent, SlotOK
    <2>3. QED
      BY <1>2, <1>3, <2>1, <2>2 DEF SlotOK
  <1>5. QED
    BY <1>1, <1>2, <1>3, <1>4

(***************************************************************************)
(* Replacing the slot of a document whose frame has been taken, by one     *)
(* that waits for no frame.                                                *)
(***************************************************************************)
LEMMA FrameTakenKeepsIInv ==
  ASSUME IInv, NEW t \in frame_tasks,
         NEW s \in Slots(Generations), SlotOK(s),
         slots' = [slots EXCEPT ![t.document_id] = s],
         s.preparation = slots[t.document_id].preparation,
         s.document = slots[t.document_id].document,
         s.frame_generation = 0,
         lod_tasks' = lod_tasks, frame_tasks' = frame_tasks \ {t},
         next_lod_generation' = next_lod_generation,
         next_frame_generation' = next_frame_generation
  PROVE  IInv'
  <1>1. SessionTypeOK'
    BY FrameTaskFacts DEF IInv, SessionTypeOK
  <1>2. \A e \in DocumentIds : slots'[e] = IF e = t.document_id THEN s ELSE slots[e]
    BY FrameTaskFacts DEF IInv, SessionTypeOK
  <1>3. (\A e \in DocumentIds : SlotOK(slots[e]))'
    BY <1>2 DEF IInv
  <1>4. FreshGenerations'
    BY DEF IInv, FreshGenerations
  <1>5. \A u \in lod_tasks : u.document_id \in DocumentIds
    BY LodTaskFacts
  <1>6. CurrentLod'
    BY <1>2, <1>5 DEF IInv, CurrentLod
  <1>7. \A u \in frame_tasks : u.document_id \in DocumentIds /\ u.generation # 0
    BY FrameTaskFacts
  <1>8. CurrentFrame'
    BY <1>2, <1>7 DEF IInv, CurrentFrame
  <1>9. QED
    BY <1>1, <1>3, <1>4, <1>6, <1>8 DEF IInv

\* poll_async drops a frame nobody waits for.
LEMMA FrameDiscardedKeepsIInv ==
  ASSUME IInv, NEW t \in frame_tasks, FrameDiscarded(t)
  PROVE  IInv'
  BY TakenTasksKeepIInv DEF FrameDiscarded, TakeFrame

\* poll_async takes the failure of the awaited frame.
LEMMA FrameFailsKeepsIInv ==
  ASSUME IInv, NEW t \in frame_tasks, FrameFails(t)
  PROVE  IInv'
  <1>. DEFINE s0 == slots[t.document_id]
              s == [s0 EXCEPT !.frame_generation = 0]
  <1>1. t.document_id \in DocumentIds /\ s0 \in Slots(Generations) /\ SlotOK(s0)
    BY FrameTaskFacts
  <1>2. slots' = [slots EXCEPT ![t.document_id] = s]
    BY <1>1 DEF FrameFails, IInv, SessionTypeOK
  <1>3. /\ frame_tasks' = frame_tasks \ {t} /\ lod_tasks' = lod_tasks
        /\ next_lod_generation' = next_lod_generation
        /\ next_frame_generation' = next_frame_generation
    BY DEF FrameFails, TakeFrame
  <1>4. /\ s.document = s0.document
        /\ s.preparation = s0.preparation
        /\ s.presentation = s0.presentation
        /\ s.scene = s0.scene
        /\ s.frame_generation = 0
        /\ s \in Slots(Generations)
    BY <1>1 DEF Slots, Generations
  <1>5. SlotOK(s)
    BY <1>1, <1>4 DEF SlotOK
  <1>. HIDE DEF s
  <1>6. QED
    BY <1>2, <1>3, <1>4, <1>5, FrameTakenKeepsIInv

\* poll_async shows the awaited frame.
LEMMA FrameReadyKeepsIInv ==
  ASSUME IInv, NEW t \in frame_tasks, FrameReady(t)
  PROVE  IInv'
  <1>. DEFINE s0 == slots[t.document_id]
              s == [s0 EXCEPT !.scene = SceneOf(t), !.frame_generation = 0]
  <1>1. /\ t.document_id \in DocumentIds /\ s0 \in Slots(Generations) /\ SlotOK(s0)
        /\ t.document = s0.document /\ t.document \in Documents
        /\ t.pyramids = PyramidsFor(t.document)
    BY FrameTaskFacts DEF FrameReady
  <1>2. slots' = [slots EXCEPT ![t.document_id] = s]
    BY <1>1 DEF FrameReady, IInv, SessionTypeOK
  <1>3. /\ frame_tasks' = frame_tasks \ {t} /\ lod_tasks' = lod_tasks
        /\ next_lod_generation' = next_lod_generation
        /\ next_frame_generation' = next_frame_generation
    BY DEF FrameReady, TakeFrame
  <1>4. SceneOf(t) \in Scenes
    BY FrameTaskFacts DEF SceneOf, Scenes
  <1>5. /\ s.document = s0.document
        /\ s.preparation = s0.preparation
        /\ s.presentation = s0.presentation
        /\ s.scene = SceneOf(t)
        /\ s.frame_generation = 0
    BY <1>1 DEF Slots
  <1>6. s \in Slots(Generations)
    <2>1. 0 \in Generations
      BY DEF Generations
    <2>2. QED
      BY <1>1, <1>4, <2>1 DEF Slots
  <1>7. SlotOK(s)
    BY <1>1, <1>5 DEF SlotOK, SceneOf
  <1>. HIDE DEF s
  <1>8. QED
    BY <1>2, <1>3, <1>5, <1>7, <1>6, FrameTakenKeepsIInv

-----------------------------------------------------------------------------
\* The invariant holds in a session without documents.
LEMMA InitIInv == Init => IInv
  BY DEF Init, IInv, SessionTypeOK, SlotOK, EmptySlot, NoPreparation, Slots,
         Preparations, PreparationStates, Generations, FreshGenerations,
         CurrentLod, CurrentFrame

\* Every step of the GUI thread and of the workers keeps the invariant.
LEMMA NextKeepsIInv == IInv /\ [Next]_vars => IInv'
  <1>1. SUFFICES ASSUME IInv, [Next]_vars PROVE IInv'
    OBVIOUS
  <1>2. CASE HostCommand
    BY <1>1, <1>2, SetDocumentKeepsIInv, SetPresentationKeepsIInv,
       SetViewportMetricsKeepsIInv, ApplyPatchKeepsIInv, AppendBatchKeepsIInv,
       UndoOrRedoKeepsIInv, RollBackKeepsIInv DEF HostCommand
  <1>3. CASE PollLod
    BY <1>1, <1>3, LodDiscardedKeepsIInv, LodFailsKeepsIInv, LodReadyKeepsIInv
       DEF PollLod
  <1>4. CASE PollFrame
    BY <1>1, <1>4, FrameDiscardedKeepsIInv, FrameFailsKeepsIInv, FrameReadyKeepsIInv
       DEF PollFrame
  <1>5. CASE BeginPoll \/ EndLodLoop \/ EndPoll
    BY <1>1, <1>5, TakenTasksKeepIInv DEF BeginPoll, EndLodLoop, EndPoll, task_vars
  <1>6. CASE \E w \in Workers : Worker(w)
    BY <1>1, <1>6, TakenTasksKeepIInv DEF Worker, task_vars
  <1>7. CASE UNCHANGED vars
    BY <1>1, <1>7, TakenTasksKeepIInv DEF vars, task_vars
  <1>8. QED
    BY <1>1, <1>2, <1>3, <1>4, <1>5, <1>6, <1>7 DEF Next, PollStep

(***************************************************************************)
(* The inductive invariant holds in every reachable state.                 *)
(***************************************************************************)
THEOREM InductiveInvariant == Spec => []IInv
  BY InitIInv, NextKeepsIInv, PTL DEF Spec

(***************************************************************************)
(* The session's own state keeps its types: every slot, task and           *)
(* generation counter of session.cpp that SessionAsync models.             *)
(***************************************************************************)
THEOREM SessionTypes == Spec => []SessionTypeOK
  <1>1. IInv => SessionTypeOK
    BY DEF IInv
  <1>2. QED
    BY <1>1, InductiveInvariant, PTL

(***************************************************************************)
(* Whatever commands come and whenever the workers finish, the scene a     *)
(* document shows was built from the current document and its LOD.         *)
(***************************************************************************)
THEOREM SceneIsCurrent == Spec => []SceneOfCurrentDocument
  <1>1. IInv => SceneOfCurrentDocument
    BY DEF IInv, SlotOK, SceneOfCurrentDocument
  <1>2. QED
    BY <1>1, InductiveInvariant, PTL

-----------------------------------------------------------------------------
(***************************************************************************)
(* The session, with its tasks, generations and polls, implements the      *)
(* promise of FrameDelivery: each step shows a scene of the current        *)
(* document, takes one away with its document, or changes nothing that is  *)
(* promised.                                                               *)
(***************************************************************************)

(***************************************************************************)
(* The step of FrameDelivery a new slot s of d stands for.                 *)
(***************************************************************************)
Replaces(s) ==
  /\ s.document \in Documents
  /\ s.presentation \in Presentations \cup {None}
  /\ s.viewport \in Viewports \cup {None}
  /\ \/ s.scene = None
     \/ s.presentation # None /\ s.scene = Delivery!Scene(s.document, s.presentation, FullRange)

Configures(d, s) ==
  /\ slots[d].document # None
  /\ s.document = slots[d].document
  /\ s.presentation \in Presentations \cup {None}
  /\ s.viewport \in Viewports \cup {None}
  /\ \/ s.scene = slots[d].scene
     \/ s.presentation # None /\ s.scene = Delivery!Scene(s.document, s.presentation, FullRange)

Delivers(d, s) ==
  /\ slots[d].document # None
  /\ slots[d].presentation # None
  /\ s.document = slots[d].document
  /\ s.presentation = slots[d].presentation
  /\ s.viewport = slots[d].viewport
  /\ \E v \in {s.viewport, FullRange} :
       s.scene = Delivery!Scene(s.document, s.presentation, v)

\* Two functions that differ at d only.
LEMMA UpdatedAt ==
  ASSUME NEW S, NEW F, NEW G, NEW d \in S, NEW v,
         F = [e \in S |-> F[e]], G = [e \in S |-> G[e]],
         \A e \in S : G[e] = IF e = d THEN v ELSE F[e]
  PROVE  G = [F EXCEPT ![d] = v]
  OBVIOUS

\* A slot that is replaced in one of the three ways is such a step.
LEMMA SlotStep ==
  ASSUME IInv, NEW d \in DocumentIds, NEW s, slots' = [slots EXCEPT ![d] = s],
         Replaces(s) \/ Configures(d, s) \/ Delivers(d, s)
  PROVE  [Delivery!Next]_Delivery!vars
  <1>1. \A e \in DocumentIds : slots'[e] = IF e = d THEN s ELSE slots[e]
    BY DEF IInv, SessionTypeOK
  <1>2a. [e \in DocumentIds |-> slots'[e].document] =
          [[e \in DocumentIds |-> slots[e].document] EXCEPT ![d] = s.document]
    <2>. DEFINE F == [e \in DocumentIds |-> slots[e].document]
                G == [e \in DocumentIds |-> slots'[e].document]
    <2>1. \A e \in DocumentIds : G[e] = IF e = d THEN s.document ELSE F[e]
      BY <1>1
    <2>2. F = [e \in DocumentIds |-> F[e]] /\ G = [e \in DocumentIds |-> G[e]]
      OBVIOUS
    <2>. HIDE DEF F, G
    <2>3. G = [F EXCEPT ![d] = s.document]
      BY <2>1, <2>2, UpdatedAt
    <2>4. QED
      BY <2>3 DEF F, G
  <1>2b. [e \in DocumentIds |-> slots'[e].presentation] =
          [[e \in DocumentIds |-> slots[e].presentation] EXCEPT ![d] = s.presentation]
    <2>. DEFINE F == [e \in DocumentIds |-> slots[e].presentation]
                G == [e \in DocumentIds |-> slots'[e].presentation]
    <2>1. \A e \in DocumentIds : G[e] = IF e = d THEN s.presentation ELSE F[e]
      BY <1>1
    <2>2. F = [e \in DocumentIds |-> F[e]] /\ G = [e \in DocumentIds |-> G[e]]
      OBVIOUS
    <2>. HIDE DEF F, G
    <2>3. G = [F EXCEPT ![d] = s.presentation]
      BY <2>1, <2>2, UpdatedAt
    <2>4. QED
      BY <2>3 DEF F, G
  <1>2c. [e \in DocumentIds |-> slots'[e].viewport] =
          [[e \in DocumentIds |-> slots[e].viewport] EXCEPT ![d] = s.viewport]
    <2>. DEFINE F == [e \in DocumentIds |-> slots[e].viewport]
                G == [e \in DocumentIds |-> slots'[e].viewport]
    <2>1. \A e \in DocumentIds : G[e] = IF e = d THEN s.viewport ELSE F[e]
      BY <1>1
    <2>2. F = [e \in DocumentIds |-> F[e]] /\ G = [e \in DocumentIds |-> G[e]]
      OBVIOUS
    <2>. HIDE DEF F, G
    <2>3. G = [F EXCEPT ![d] = s.viewport]
      BY <2>1, <2>2, UpdatedAt
    <2>4. QED
      BY <2>3 DEF F, G
  <1>2d. [e \in DocumentIds |-> slots'[e].scene] =
          [[e \in DocumentIds |-> slots[e].scene] EXCEPT ![d] = s.scene]
    <2>. DEFINE F == [e \in DocumentIds |-> slots[e].scene]
                G == [e \in DocumentIds |-> slots'[e].scene]
    <2>1. \A e \in DocumentIds : G[e] = IF e = d THEN s.scene ELSE F[e]
      BY <1>1
    <2>2. F = [e \in DocumentIds |-> F[e]] /\ G = [e \in DocumentIds |-> G[e]]
      OBVIOUS
    <2>. HIDE DEF F, G
    <2>3. G = [F EXCEPT ![d] = s.scene]
      BY <2>1, <2>2, UpdatedAt
    <2>4. QED
      BY <2>3 DEF F, G
  <1>3. CASE Replaces(s)
    <2>1. Delivery!Replace(d, s.document, s.presentation, s.viewport)
      BY <1>2a, <1>2b, <1>2c, <1>2d, <1>3 DEF Replaces, Delivery!Replace
    <2>2. QED
      BY <1>3, <2>1 DEF Replaces, Delivery!Next
  <1>4. CASE Configures(d, s)
    <2>1. /\ [e \in DocumentIds |-> slots'[e].document] =
               [e \in DocumentIds |-> slots[e].document]
          /\ s.scene = slots[d].scene =>
               [e \in DocumentIds |-> slots'[e].scene] = [e \in DocumentIds |-> slots[e].scene]
      BY <1>1, <1>4 DEF Configures
    <2>2. Delivery!Configure(d, s.presentation, s.viewport)
      BY <1>2a, <1>2b, <1>2c, <1>2d, <1>4, <2>1 DEF Configures, Delivery!Configure
    <2>3. QED
      BY <1>4, <2>2 DEF Configures, Delivery!Next
  <1>5. CASE Delivers(d, s)
    <2>1. /\ [e \in DocumentIds |-> slots'[e].document] =
               [e \in DocumentIds |-> slots[e].document]
          /\ [e \in DocumentIds |-> slots'[e].presentation] =
               [e \in DocumentIds |-> slots[e].presentation]
          /\ [e \in DocumentIds |-> slots'[e].viewport] =
               [e \in DocumentIds |-> slots[e].viewport]
      BY <1>1, <1>5 DEF Delivers
    <2>2. PICK v \in {slots[d].viewport, FullRange} :
             s.scene = Delivery!Scene(slots[d].document, slots[d].presentation, v)
      BY <1>5 DEF Delivers
    <2>3. Delivery!Deliver(d)
      BY <1>2d, <1>5, <2>1, <2>2 DEF Delivers, Delivery!Deliver
    <2>4. QED
      BY <2>3 DEF Delivery!Next
  <1>6. QED
    BY <1>3, <1>4, <1>5

\* Nothing happened to the slots.
LEMMA SlotStutter ==
  ASSUME slots' = slots
  PROVE  [Delivery!Next]_Delivery!vars
  BY DEF Delivery!vars

-----------------------------------------------------------------------------
(***************************************************************************)
(* The commands.                                                           *)
(***************************************************************************)
\* What SetPresentationCommand shows: a scene prepared on the spot, or what
\* was there.
LEMMA PresentedScene ==
  ASSUME NEW G, NEW s \in Slots(G), SlotOK(s), s.document # None,
         NEW p \in Presentations, NEW g
  PROVE  LET after == AfterSetPresentation(s, p, g) IN
         /\ after.document = s.document
         /\ after.presentation = p
         /\ after.viewport = FullRange
         /\ \/ after.scene = s.scene
            \/ after.scene = Delivery!Scene(s.document, p, FullRange)
  <1>. DEFINE after == AfterSetPresentation(s, p, g)
  <1>1. /\ after.document = s.document
        /\ after.presentation = p
        /\ after.viewport = FullRange
        /\ after.scene = IF PreparedInline(s)
                         THEN [document |-> s.document, presentation |-> p,
                               pyramids |-> None, viewport |-> FullRange]
                         ELSE s.scene
    BY DEF AfterSetPresentation, Slots
  <1>2. PreparedInline(s) => PyramidsFor(s.document) = None
    BY DEF PreparedInline, SlotOK, PyramidsFor
  <1>3. QED
    BY <1>1, <1>2 DEF Delivery!Scene

\* SetDocumentCommand takes the scene away.
LEMMA SetDocumentStep ==
  ASSUME IInv, NEW d \in DocumentIds, NEW doc \in Documents, SetDocument(d, doc)
  PROVE  [Delivery!Next]_Delivery!vars
  <1>. DEFINE s == AfterSetDocument(slots[d], doc, "none", next_lod_generation)
  <1>1. Replaces(s)
    BY DEF AfterSetDocument, Replaces
  <1>2. slots' = [slots EXCEPT ![d] = s]
    BY DEF SetDocument, Command
  <1>. HIDE DEF s
  <1>3. QED
    BY <1>1, <1>2, SlotStep

\* SetPresentationCommand configures the document.
LEMMA SetPresentationStep ==
  ASSUME IInv, NEW d \in DocumentIds, NEW p \in Presentations, SetPresentation(d, p)
  PROVE  [Delivery!Next]_Delivery!vars
  <1>. DEFINE s == AfterSetPresentation(slots[d], p, next_frame_generation)
  <1>1. slots' = [slots EXCEPT ![d] = s] /\ slots[d].document # None
    BY DEF SetPresentation, Command
  <1>2. slots[d] \in Slots(Generations) /\ SlotOK(slots[d])
    BY TypesOfIInv
  <1>3. /\ s.document = slots[d].document
        /\ s.presentation = p
        /\ s.viewport = FullRange
        /\ \/ s.scene = slots[d].scene
           \/ s.scene = Delivery!Scene(slots[d].document, p, FullRange)
    BY <1>1, <1>2, PresentedScene
  <1>. HIDE DEF s
  <1>4. Configures(d, s)
    BY <1>1, <1>3 DEF Configures
  <1>5. QED
    BY <1>1, <1>4, SlotStep

\* So does SetViewportMetricsCommand, which shows nothing new.
LEMMA SetViewportMetricsStep ==
  ASSUME IInv, NEW d \in DocumentIds, NEW v \in Viewports, SetViewportMetrics(d, v)
  PROVE  [Delivery!Next]_Delivery!vars
  <1>. DEFINE s == AfterSetViewportMetrics(slots[d], v, next_frame_generation)
  <1>1. slots' = [slots EXCEPT ![d] = s] /\ slots[d].document # None
    BY DEF SetViewportMetrics, Command
  <1>2. slots[d] \in Slots(Generations)
    BY TypesOfIInv
  <1>3. /\ s.document = slots[d].document
        /\ s.presentation = slots[d].presentation
        /\ s.viewport = v
        /\ s.scene = slots[d].scene
    BY <1>2 DEF AfterSetViewportMetrics, Slots
  <1>4. slots[d].presentation \in Presentations \cup {None}
    BY <1>2 DEF Slots
  <1>. HIDE DEF s
  <1>5. Configures(d, s)
    BY <1>1, <1>3, <1>4 DEF Configures
  <1>6. QED
    BY <1>1, <1>5, SlotStep

\* A patch replaces the document and puts its window back.
LEMMA ApplyPatchStep ==
  ASSUME IInv, NEW d \in DocumentIds, NEW i \in Interpretations,
         NEW r \in CurveSets, NEW p \in Presentations, ApplyPatch(d, i, r, p)
  PROVE  [Delivery!Next]_Delivery!vars
  <1>. DEFINE before == slots[d]
              doc == PatchedDocument(before.document, i, r)
              hint == StagedHint(before, "unchanged_document")
              s1 == AfterSetDocument(before, doc, hint, next_lod_generation)
              s2 == IF before.presentation = None THEN s1
                    ELSE AfterSetPresentation(s1, p, next_frame_generation)
              s == AfterRestoreViewport(s2, before.viewport)
  <1>1. slots' = [slots EXCEPT ![d] = s]
    BY DEF ApplyPatch, Command
  <1>2. doc \in Documents /\ doc # None
    BY TypesOfIInv DEF ApplyPatch, PatchedDocument, Slots, Documents
  <1>3. s1 \in Slots(Generations) /\ SlotOK(s1)
    BY <1>2, TypesOfIInv, NoGeneration, AfterSetDocumentOK
  <1>4. /\ s1.document = doc /\ s1.presentation = None
        /\ s1.viewport = None /\ s1.scene = None
    BY DEF AfterSetDocument
  <1>5. before.viewport \in Viewports \cup {None}
    BY TypesOfIInv DEF Slots
  <1>. HIDE DEF s1, doc, hint
  <1>6. /\ s2.document = doc
        /\ s2.presentation \in Presentations \cup {None}
        /\ s2.viewport \in Viewports \cup {None}
        /\ \/ s2.scene = None
           \/ /\ s2.presentation # None
              /\ s2.scene = Delivery!Scene(doc, s2.presentation, FullRange)
        /\ s2 = s1 \/ s2 \in Slots(Generations)
    <2>1. CASE before.presentation = None
      BY <2>1, <1>4
    <2>2. CASE before.presentation # None
      <3>1. s2 = AfterSetPresentation(s1, p, next_frame_generation)
        BY <2>2
      <3>2. s2 \in Slots(Generations)
        BY <1>2, <1>3, <1>4, <3>1, TypesOfIInv, NoGeneration, AfterSetPresentationOK
      <3>3. QED
        BY <1>2, <1>3, <1>4, <3>1, <3>2, PresentedScene
    <2>3. QED
      BY <2>1, <2>2
  <1>7. s2 \in Slots(Generations)
    BY <1>3, <1>6
  <1>. HIDE DEF s2
  <1>8. /\ s.document = s2.document /\ s.presentation = s2.presentation
        /\ s.scene = s2.scene
        /\ s.viewport \in {s2.viewport, before.viewport}
    BY <1>7 DEF AfterRestoreViewport, Slots
  <1>. HIDE DEF s
  <1>9. Replaces(s)
    BY <1>2, <1>5, <1>6, <1>8 DEF Replaces
  <1>10. QED
    BY <1>1, <1>9, SlotStep

\* An append replaces the document and keeps its presentation.
LEMMA AppendBatchStep ==
  ASSUME IInv, NEW d \in DocumentIds, NEW r \in CurveSets,
         NEW revision \in Revisions, NEW v \in Viewports,
         AppendBatch(d, r, revision, v)
  PROVE  [Delivery!Next]_Delivery!vars
  <1>. DEFINE before == slots[d]
              doc == AppendedDocument(before.document, r, revision)
              hint == StagedHint(before, "append_tail")
              s1 == AfterSetDocument(before, doc, hint, next_lod_generation)
              s == AfterAppendRestore(s1, before, v)
  <1>1. slots' = [slots EXCEPT ![d] = s]
    BY DEF AppendBatch, Command
  <1>2. doc \in Documents
    BY TypesOfIInv DEF AppendBatch, AppendedDocument, Slots, Documents
  <1>3. s1 \in Slots(Generations)
    BY <1>2, TypesOfIInv, NoGeneration, AfterSetDocumentOK
  <1>4. s1.document = doc /\ s1.scene = None
    BY DEF AfterSetDocument
  <1>5. before.presentation \in Presentations \cup {None}
    BY TypesOfIInv DEF Slots
  <1>. HIDE DEF s1, doc, hint
  <1>6. /\ s.document = doc /\ s.scene = None
        /\ s.presentation = before.presentation
        /\ s.viewport \in Viewports \cup {None}
    BY <1>3, <1>4 DEF AfterAppendRestore, Slots
  <1>. HIDE DEF s
  <1>7. Replaces(s)
    BY <1>2, <1>5, <1>6 DEF Replaces
  <1>8. QED
    BY <1>1, <1>7, SlotStep

\* Undo, redo and rollback show nothing, or a small document at once.
LEMMA RestoredScene ==
  ASSUME NEW G, 0 \in G, NEW s0 \in Slots(G), SlotOK(s0), NEW doc \in Documents,
         NEW p \in Presentations \cup {None}, NEW g \in G
  PROVE  LET entry == [document |-> doc, presentation |-> p] IN
         Replaces(AfterRestore(s0, entry, g)) /\ Replaces(AfterHistory(s0, entry, g))
  <1>. DEFINE entry == [document |-> doc, presentation |-> p]
              s == AfterRestore(s0, entry, g)
              t == AfterHistory(s0, entry, g)
              s1 == AfterSetDocument(s0, doc, "none", g)
  <1>1. s = [s1 EXCEPT !.presentation = p]
    BY DEF AfterRestore
  <1>2. s1 \in Slots(G)
    BY AfterSetDocumentOK
  <1>3. s1.document = doc /\ s1.scene = None /\ s1.viewport = None
    BY DEF AfterSetDocument
  <1>4. /\ s \in Slots(G)
        /\ SlotOK(s)
        /\ s.document = doc
        /\ s.presentation = p
        /\ s.frame_generation = 0
        /\ s.preparation =
             IF Asynchronous(doc)
             THEN [state |-> "pending", revision |-> doc.revision,
                   generation |-> g, pyramids |-> None]
             ELSE NoPreparation
    BY AfterRestoreOK
  <1>5. t = IF p = None THEN s ELSE AfterSetPresentation(s, p, 0)
    BY DEF AfterHistory
  <1>. HIDE DEF s1
  <1>6. s.scene = None /\ s.viewport = None /\ s.presentation = p
    BY <1>1, <1>2, <1>3 DEF Slots
  <1>. HIDE DEF s, t
  <1>7. Replaces(s)
    BY <1>4, <1>6 DEF Replaces
  <1>8. Replaces(t)
    <2>1. CASE p = None
      BY <1>5, <1>7, <2>1
    <2>2. CASE p # None
      <3>1. t = AfterSetPresentation(s, p, 0) /\ doc # None /\ p \in Presentations
        BY <1>5, <2>2
      <3>2. /\ t.document = doc
            /\ t.presentation = p
            /\ t.viewport = FullRange
            /\ \/ t.scene = None
               \/ t.scene = Delivery!Scene(doc, p, FullRange)
        BY <1>4, <1>6, <3>1, PresentedScene
      <3>3. QED
        BY <2>2, <3>1, <3>2 DEF Replaces
    <2>3. QED
      BY <2>1, <2>2
  <1>9. QED
    BY <1>7, <1>8 DEF s, t

\* Undo, redo and rollback replace the document by an earlier one.
LEMMA HistoryStep ==
  ASSUME IInv, NEW d \in DocumentIds, NEW doc \in Documents,
         NEW p \in Presentations \cup {None}, UndoOrRedo(d, doc, p) \/ RollBack(d, doc, p)
  PROVE  [Delivery!Next]_Delivery!vars
  <1>. DEFINE entry == [document |-> doc, presentation |-> p]
              s == AfterRestore(slots[d], entry, next_lod_generation)
              t == AfterHistory(slots[d], entry, next_lod_generation)
  <1>1. Replaces(s) /\ Replaces(t)
    BY TypesOfIInv, NoGeneration, RestoredScene
  <1>2. slots' = [slots EXCEPT ![d] = s] \/ slots' = [slots EXCEPT ![d] = t]
    BY DEF UndoOrRedo, RollBack, Restores, Command
  <1>. HIDE DEF s, t
  <1>3. QED
    BY <1>1, <1>2, SlotStep

-----------------------------------------------------------------------------
(***************************************************************************)
(* The polls.  A LOD shows nothing by itself, and only the awaited frame   *)
(* is shown.                                                               *)
(***************************************************************************)
\* A new state of the preparation, or another awaited frame, promises nothing.
LEMMA QuietStep ==
  ASSUME IInv, NEW d \in DocumentIds, NEW s, slots' = [slots EXCEPT ![d] = s],
         slots[d].document # None,
         s.document = slots[d].document, s.presentation = slots[d].presentation,
         s.viewport = slots[d].viewport, s.scene = slots[d].scene
  PROVE  [Delivery!Next]_Delivery!vars
  <1>1. /\ slots[d].presentation \in Presentations \cup {None}
        /\ slots[d].viewport \in Viewports \cup {None}
    BY TypesOfIInv DEF Slots
  <1>2. Configures(d, s)
    BY <1>1 DEF Configures
  <1>3. QED
    BY <1>2, SlotStep

\* A finished LOD changes nothing that is promised.
LEMMA PollLodStep ==
  ASSUME IInv, NEW t \in lod_tasks, LodDiscarded(t) \/ LodFails(t) \/ LodReady(t)
  PROVE  [Delivery!Next]_Delivery!vars
  <1>. DEFINE d == t.document_id
              failing == WithPreparation(slots[d], "unavailable", slots[d].preparation.pyramids)
              s == WithPreparation(slots[d], "ready", t.document.curves)
              unavailable == WithPreparation(slots[d], "unavailable", t.document.curves)
              framed == [s EXCEPT !.frame_generation = next_frame_generation]
  <1>1. /\ d \in DocumentIds /\ slots[d] \in Slots(Generations)
        /\ LodIsCurrent(t) => slots[d].document # None
    BY LodTaskFacts
  <1>2. CASE LodDiscarded(t)
    BY <1>2, SlotStutter DEF LodDiscarded
  <1>3. CASE LodFails(t) \/ LodReady(t)
    <2>1. /\ LodIsCurrent(t)
          /\ \/ slots' = [slots EXCEPT ![d] = failing]
             \/ slots' = [slots EXCEPT ![d] = s]
             \/ slots' = [slots EXCEPT ![d] = unavailable]
             \/ slots' = [slots EXCEPT ![d] = framed]
      BY <1>3 DEF LodFails, LodReady
    <2>2. \A r \in {failing, s, unavailable, framed} :
            /\ r.document = slots[d].document
            /\ r.presentation = slots[d].presentation
            /\ r.viewport = slots[d].viewport
            /\ r.scene = slots[d].scene
      BY <1>1 DEF WithPreparation, Slots
    <2>. HIDE DEF failing, s, unavailable, framed
    <2>3. QED
      BY <1>1, <2>1, <2>2, QuietStep
  <1>4. QED
    BY <1>2, <1>3

\* A finished frame is delivered, or changes nothing that is promised.
LEMMA PollFrameStep ==
  ASSUME IInv, NEW t \in frame_tasks,
         FrameDiscarded(t) \/ FrameFails(t) \/ FrameReady(t)
  PROVE  [Delivery!Next]_Delivery!vars
  <1>. DEFINE d == t.document_id
              s0 == slots[d]
              failing == [s0 EXCEPT !.frame_generation = 0]
              s == [s0 EXCEPT !.scene = SceneOf(t), !.frame_generation = 0]
  <1>1. d \in DocumentIds /\ s0 \in Slots(Generations) /\ slots \in [DocumentIds -> Slots(Generations)]
    BY FrameTaskFacts DEF IInv, SessionTypeOK
  <1>2. CASE FrameDiscarded(t)
    BY <1>2, SlotStutter DEF FrameDiscarded
  <1>3. CASE FrameFails(t)
    <2>1. slots' = [slots EXCEPT ![d] = failing] /\ s0.document # None
      BY <1>1, <1>3 DEF FrameFails, FrameIsCurrent
    <2>2. /\ failing.document = s0.document
          /\ failing.presentation = s0.presentation
          /\ failing.viewport = s0.viewport
          /\ failing.scene = s0.scene
      BY <1>1 DEF Slots
    <2>. HIDE DEF failing
    <2>3. QED
      BY <1>1, <2>1, <2>2, QuietStep
  <1>4. CASE FrameReady(t)
    <2>1. slots' = [slots EXCEPT ![d] = s]
      BY <1>1, <1>4 DEF FrameReady
    <2>2. /\ s.document = s0.document
          /\ s.presentation = s0.presentation
          /\ s.viewport = s0.viewport
          /\ s.scene = SceneOf(t)
      BY <1>1 DEF Slots
    <2>3. /\ t.document = s0.document /\ t.document # None
          /\ t.presentation = s0.presentation /\ t.presentation # None
          /\ t.pyramids = PyramidsFor(t.document)
          /\ t.viewport \in {s0.viewport, FullRange}
      BY <1>4, FrameTaskFacts DEF FrameReady
    <2>4. SceneOf(t) = Delivery!Scene(s0.document, s0.presentation, t.viewport)
      BY <2>3 DEF SceneOf, Delivery!Scene
    <2>. HIDE DEF s
    <2>5. Delivers(d, s)
      BY <2>2, <2>3, <2>4 DEF Delivers
    <2>6. QED
      BY <1>1, <2>1, <2>5, SlotStep
  <1>5. QED
    BY <1>2, <1>3, <1>4

-----------------------------------------------------------------------------
\* A session without documents shows nothing.
LEMMA InitDelivers == Init => Delivery!Init
  BY DEF Init, EmptySlot, Delivery!Init

\* Every step of the session is a step of the promise or a stutter.
LEMMA NextDelivers == IInv /\ [Next]_vars => [Delivery!Next]_Delivery!vars
  <1>1. SUFFICES ASSUME IInv, [Next]_vars PROVE [Delivery!Next]_Delivery!vars
    OBVIOUS
  <1>2. CASE HostCommand
    BY <1>1, <1>2, SetDocumentStep, SetPresentationStep, SetViewportMetricsStep,
       ApplyPatchStep, AppendBatchStep, HistoryStep DEF HostCommand
  <1>3. CASE PollLod
    BY <1>1, <1>3, PollLodStep DEF PollLod
  <1>4. CASE PollFrame
    BY <1>1, <1>4, PollFrameStep DEF PollFrame
  <1>5. CASE BeginPoll \/ EndLodLoop \/ EndPoll \/ UNCHANGED vars \/ \E w \in Workers : Worker(w)
    <2>1. slots' = slots
      BY <1>5 DEF BeginPoll, EndLodLoop, EndPoll, vars, Worker
    <2>2. QED
      BY <2>1, SlotStutter
  <1>6. QED
    BY <1>1, <1>2, <1>3, <1>4, <1>5 DEF Next, PollStep

(***************************************************************************)
(* SessionAsync implements FrameDelivery: with tasks, generations, stop    *)
(* tokens and polls, the session shows nothing but scenes of the current   *)
(* document and presentation, and takes a scene away with its document.    *)
(***************************************************************************)
THEOREM DeliveryImplemented == Spec => DeliveryPromise
  BY InitDelivers, NextDelivers, InductiveInvariant, PTL
     DEF Spec, DeliveryPromise, Delivery!Spec

-----------------------------------------------------------------------------
(***************************************************************************)
(* The tasks of the session on the pool.                                   *)
(***************************************************************************)

(***************************************************************************)
(* A job that has not been submitted yet is nowhere: not asked to stop,    *)
(* not queued, not held, without output.  Generations are used once, so a  *)
(* new task never meets what an older one of its name left behind.         *)
(***************************************************************************)
Unused(j) ==
  /\ j \notin stop_requested
  /\ output[j] = "none"
  /\ \A w \in Workers : running[w].job # j
  /\ \A i \in 1 .. Len(pending) : pending[i] # j

FreshJobs ==
  \A g \in 1 .. MaxGeneration :
    /\ g >= next_lod_generation => Unused(LodJob(g))
    /\ g >= next_frame_generation => Unused(FrameJob(g))

UniqueFrames == \A t, u \in frame_tasks : t.generation = u.generation => t = u

(***************************************************************************)
(* A task is cancelled only if it was asked to stop, and is still asked to *)
(* stop when poll_async finds it.                                          *)
(***************************************************************************)
OutstandingJobs == {LodJob(t.generation) : t \in lod_tasks}
                   \cup {FrameJob(t.generation) : t \in frame_tasks}

CancelledAreStopped ==
  \A j \in OutstandingJobs :
    /\ output[j] = "cancelled" => j \in stop_requested
    /\ \A w \in Workers :
         running[w].job = j /\ running[w].step = "cancelled" => j \in stop_requested

(***************************************************************************)
(* What is awaited, without what IInv says of it.                          *)
(***************************************************************************)
AwaitedFrame(d) ==
  slots[d].frame_generation # 0 =>
    \E t \in frame_tasks :
      /\ t.document_id = d
      /\ t.generation = slots[d].frame_generation
      /\ FrameJob(t.generation) \notin stop_requested

AwaitedLod(d) ==
  slots[d].preparation.state = "pending" =>
    \E t \in lod_tasks :
      /\ t.document_id = d
      /\ t.generation = slots[d].preparation.generation
      /\ LodJob(t.generation) \notin stop_requested

Awaited == \A d \in DocumentIds : AwaitedFrame(d) /\ AwaitedLod(d)

PoolInv == PoolTypeOK /\ FreshJobs /\ CancelledAreStopped

TaskInv == UniqueFrames /\ Awaited /\ SupersededTasksAreStopped /\ SettledDocumentIsShown

TInv == IInv /\ PoolInv /\ TaskInv

USE PoolAssumption

-----------------------------------------------------------------------------
(***************************************************************************)
(* Jobs have one name each.                                                *)
(***************************************************************************)
LEMMA JobNames ==
  \A g, h : /\ LodJob(g) = LodJob(h) <=> g = h
            /\ FrameJob(g) = FrameJob(h) <=> g = h
            /\ LodJob(g) # FrameJob(h)
  <1>1. \A g : /\ LodJob(g).kind = "lod" /\ LodJob(g).generation = g
              /\ FrameJob(g).kind = "frame" /\ FrameJob(g).generation = g
    BY DEF LodJob, FrameJob
  <1>2. SUFFICES ASSUME NEW g, NEW h
                 PROVE  /\ LodJob(g) = LodJob(h) => g = h
                        /\ FrameJob(g) = FrameJob(h) => g = h
                        /\ LodJob(g) # FrameJob(h)
    OBVIOUS
  <1>3. LodJob(g).kind # FrameJob(h).kind
    BY <1>1
  <1>4. QED
    BY <1>1, <1>3

\* Every generation has a job of each kind.
LEMMA JobTypes ==
  \A g \in 1 .. MaxGeneration : LodJob(g) \in Jobs /\ FrameJob(g) \in Jobs
  BY DEF LodJob, FrameJob, SessionJobs

\* The facts about outstanding tasks that the steps below rest on.
LEMMA TaskFacts ==
  ASSUME IInv
  PROVE  /\ \A t \in lod_tasks :
              /\ t.document_id \in DocumentIds /\ t.generation \in 1 .. MaxGeneration
              /\ t.generation < next_lod_generation
         /\ \A t, u \in lod_tasks : t.generation = u.generation => t = u
         /\ \A t \in frame_tasks :
              /\ t.document_id \in DocumentIds /\ t.generation \in 1 .. MaxGeneration
              /\ t.generation < next_frame_generation
         /\ next_lod_generation \in 1 .. MaxGeneration
         /\ next_frame_generation \in 1 .. MaxGeneration
  BY DEF IInv, SessionTypeOK, LodTasks, FrameTasks, FreshGenerations

(***************************************************************************)
(* What IInv adds to Awaited.                                              *)
(***************************************************************************)
LEMMA AwaitedIsLive == IInv /\ Awaited => WaitsForLiveTask
  <1>1. SUFFICES ASSUME IInv, Awaited, NEW d \in DocumentIds
                 PROVE  /\ slots[d].frame_generation # 0 =>
                             \E t \in frame_tasks :
                               /\ t.document_id = d
                               /\ t.generation = slots[d].frame_generation
                               /\ FrameJob(t.generation) \notin stop_requested
                               /\ t.document = slots[d].document
                               /\ t.presentation = slots[d].presentation
                        /\ slots[d].preparation.state = "pending" =>
                             \E t \in lod_tasks :
                               /\ t.document_id = d
                               /\ t.generation = slots[d].preparation.generation
                               /\ LodJob(t.generation) \notin stop_requested
                               /\ t.document = slots[d].document
    BY DEF WaitsForLiveTask
  <1>2. \A t \in frame_tasks :
          t.document_id = d /\ t.generation = slots[d].frame_generation =>
            t.document = slots[d].document /\ t.presentation = slots[d].presentation
    BY <1>1 DEF IInv, CurrentFrame
  <1>3. \A t \in lod_tasks :
          /\ t.document_id = d
          /\ slots[d].preparation.state = "pending"
          /\ t.generation = slots[d].preparation.generation
          => t.document = slots[d].document
    BY <1>1 DEF IInv, CurrentLod
  <1>4. AwaitedFrame(d) /\ AwaitedLod(d)
    BY <1>1 DEF Awaited
  <1>5. QED
    BY <1>2, <1>3, <1>4 DEF AwaitedFrame, AwaitedLod

-----------------------------------------------------------------------------
(***************************************************************************)
(* The shape every command has.  It replaces the slot of d by s and asks   *)
(* tasks of d to stop.  Either the LOD of d is left alone, or all its LOD  *)
(* tasks are stopped and none is awaited unless it is just being started;  *)
(* either its frames are stopped, or none is awaited before or after; and  *)
(* s, if it has something to show and its LOD, waits for a frame.          *)
(***************************************************************************)
LodLeftAlone(d, s, X) ==
  /\ s.preparation = slots[d].preparation
  /\ X \cap LodJobsOf(d) = {}
  /\ UNCHANGED <<lod_tasks, next_lod_generation>>

LodEnds(d, s, X) ==
  /\ s.preparation.state # "pending"
  /\ LodJobsOf(d) \subseteq X
  /\ UNCHANGED <<lod_tasks, next_lod_generation>>

LodStarts(d, s, X) ==
  /\ s.preparation.state = "pending"
  /\ s.preparation.generation = next_lod_generation
  /\ LodJobsOf(d) \subseteq X
  /\ \E t : /\ t.document_id = d /\ t.generation = next_lod_generation
            /\ lod_tasks' = lod_tasks \cup {t}

FrameStarts(d, s, X) ==
  /\ s.frame_generation = next_frame_generation
  /\ FrameJobsOf(d) \subseteq X
  /\ \E t : /\ t.document_id = d /\ t.generation = next_frame_generation
            /\ frame_tasks' = frame_tasks \cup {t}

NoFrame(d, s, X) ==
  /\ s.frame_generation = 0
  /\ FrameJobsOf(d) \subseteq X \/ slots[d].frame_generation = 0
  /\ UNCHANGED <<frame_tasks, next_frame_generation>>

AtRest(s) ==
  /\ s.preparation.state = "ready"
  /\ s.presentation # None
  /\ s.frame_generation = 0

Starts(d) ==
  /\ GuiThreadOnly /\ UNCHANGED <<output, poll_vars>>
  /\ StartNothing \/ \E s : StartLod(d, s) \/ StartFrame(d, s)

CommandShape(d, s, X) ==
  /\ Starts(d)
  /\ slots' = [slots EXCEPT ![d] = s]
  /\ X \subseteq LodJobsOf(d) \cup FrameJobsOf(d)
  /\ stop_requested' = stop_requested \cup X
  /\ LodLeftAlone(d, s, X) \/ LodEnds(d, s, X) \/ LodStarts(d, s, X)
  /\ FrameStarts(d, s, X) \/ NoFrame(d, s, X)
  /\ ~AtRest(s)
  /\ failed \subseteq failed' \cup {d}

(***************************************************************************)
(* Other documents do not notice a command: the jobs it stops are of tasks *)
(* of d, and those of other tasks have other names.                        *)
(***************************************************************************)
LEMMA OthersNotStopped ==
  ASSUME IInv, UniqueFrames, NEW d \in DocumentIds,
         NEW X, X \subseteq LodJobsOf(d) \cup FrameJobsOf(d)
  PROVE  /\ \A t \in lod_tasks : LodJob(t.generation) \in X => t.document_id = d
         /\ \A t \in frame_tasks : FrameJob(t.generation) \in X => t.document_id = d
         /\ \A g : LodJob(g) \in X => g < next_lod_generation
         /\ \A g : FrameJob(g) \in X => g < next_frame_generation
  <1>1. \A g : LodJob(g) \in X =>
          \E u \in lod_tasks : u.document_id = d /\ u.generation = g
    BY JobNames DEF LodJobsOf, FrameJobsOf
  <1>2. \A g : FrameJob(g) \in X =>
          \E u \in frame_tasks : u.document_id = d /\ u.generation = g
    BY JobNames DEF LodJobsOf, FrameJobsOf
  <1>3. QED
    BY <1>1, <1>2, TaskFacts DEF UniqueFrames

\* A step of that shape keeps what is known of the tasks.
LEMMA CommandKeepsTasks ==
  ASSUME TInv, IInv', NEW d \in DocumentIds, NEW s, NEW X, CommandShape(d, s, X)
  PROVE  TaskInv'
  <1>1. /\ IInv /\ UniqueFrames /\ Awaited /\ SupersededTasksAreStopped
        /\ SettledDocumentIsShown /\ FreshJobs
    BY DEF TInv, TaskInv, PoolInv
  <1>2. /\ \A e \in DocumentIds : slots'[e] = IF e = d THEN s ELSE slots[e]
        /\ X \subseteq LodJobsOf(d) \cup FrameJobsOf(d)
        /\ stop_requested' = stop_requested \cup X
    BY <1>1 DEF CommandShape, IInv, SessionTypeOK
  <1>3. /\ \A t \in lod_tasks : LodJob(t.generation) \in X => t.document_id = d
        /\ \A t \in frame_tasks : FrameJob(t.generation) \in X => t.document_id = d
        /\ \A g : LodJob(g) \in X => g < next_lod_generation
        /\ \A g : FrameJob(g) \in X => g < next_frame_generation
    BY <1>1, <1>2, OthersNotStopped
  <1>4. /\ LodJob(next_lod_generation) \notin stop_requested'
        /\ FrameJob(next_frame_generation) \notin stop_requested'
    BY <1>1, <1>2, <1>3, TaskFacts DEF FreshJobs, Unused
  <1>5. UniqueFrames'
    BY <1>1, TaskFacts DEF CommandShape, FrameStarts, NoFrame, UniqueFrames
  <1>6. (\A e \in DocumentIds : AwaitedFrame(e))'
    <2>1. SUFFICES ASSUME NEW e \in DocumentIds, slots'[e].frame_generation # 0
                   PROVE  \E t \in frame_tasks' :
                            /\ t.document_id = e
                            /\ t.generation = slots'[e].frame_generation
                            /\ FrameJob(t.generation) \notin stop_requested'
      BY DEF AwaitedFrame
    <2>2. CASE e = d
      BY <1>2, <1>4, <2>1, <2>2 DEF CommandShape, FrameStarts, NoFrame
    <2>3. CASE e # d
      <3>1. PICK t \in frame_tasks :
               /\ t.document_id = e
               /\ t.generation = slots[e].frame_generation
               /\ FrameJob(t.generation) \notin stop_requested
        BY <1>1, <1>2, <2>1, <2>3 DEF Awaited, AwaitedFrame
      <3>2. t \in frame_tasks' /\ FrameJob(t.generation) \notin stop_requested'
        BY <1>2, <1>3, <2>3, <3>1 DEF CommandShape, FrameStarts, NoFrame
      <3>3. QED
        BY <1>2, <2>3, <3>1, <3>2
    <2>4. QED
      BY <2>2, <2>3
  <1>7. (\A e \in DocumentIds : AwaitedLod(e))'
    <2>1. SUFFICES ASSUME NEW e \in DocumentIds,
                          slots'[e].preparation.state = "pending"
                   PROVE  \E t \in lod_tasks' :
                            /\ t.document_id = e
                            /\ t.generation = slots'[e].preparation.generation
                            /\ LodJob(t.generation) \notin stop_requested'
      BY DEF AwaitedLod
    <2>2. CASE e = d /\ LodStarts(d, s, X)
      BY <1>2, <1>4, <2>1, <2>2 DEF LodStarts
    <2>3. CASE e # d \/ LodLeftAlone(d, s, X)
      <3>1. slots'[e].preparation = slots[e].preparation
        BY <1>2, <2>3 DEF LodLeftAlone
      <3>2. PICK t \in lod_tasks :
               /\ t.document_id = e
               /\ t.generation = slots[e].preparation.generation
               /\ LodJob(t.generation) \notin stop_requested
        BY <1>1, <2>1, <3>1 DEF Awaited, AwaitedLod
      <3>3. LodJob(t.generation) \notin X
        BY <1>3, <2>3, <3>2 DEF LodLeftAlone, LodJobsOf
      <3>4. t \in lod_tasks'
        BY <3>2 DEF CommandShape, LodLeftAlone, LodEnds, LodStarts
      <3>5. QED
        BY <1>2, <3>1, <3>2, <3>3, <3>4
    <2>4. CASE e = d /\ LodEnds(d, s, X)
      BY <1>2, <2>1, <2>4 DEF LodEnds
    <2>5. QED
      BY <2>2, <2>3, <2>4 DEF CommandShape
  <1>8. (\A t \in frame_tasks : slots[t.document_id].frame_generation # t.generation =>
           FrameJob(t.generation) \in stop_requested)'
    <2>1. SUFFICES ASSUME NEW t \in frame_tasks',
                          slots'[t.document_id].frame_generation # t.generation
                   PROVE  FrameJob(t.generation) \in stop_requested'
      OBVIOUS
    <2>2. t \in frame_tasks
      BY <1>2, <2>1 DEF CommandShape, FrameStarts, NoFrame
    <2>3. t.document_id \in DocumentIds /\ t.generation # 0
      BY <1>1, <2>2, TaskFacts
    <2>4. CASE t.document_id = d /\ FrameJobsOf(d) \subseteq X
      BY <1>2, <2>2, <2>4 DEF FrameJobsOf
    <2>5. CASE t.document_id # d \/ slots[d].frame_generation = 0
      <3>1. slots[t.document_id].frame_generation # t.generation
        BY <1>2, <2>1, <2>3, <2>5
      <3>2. QED
        BY <1>1, <1>2, <2>2, <3>1 DEF SupersededTasksAreStopped
    <2>6. QED
      BY <2>4, <2>5 DEF CommandShape, FrameStarts, NoFrame
  <1>9. (\A t \in lod_tasks : ~LodIsCurrent(t) => LodJob(t.generation) \in stop_requested)'
    <2>1. SUFFICES ASSUME NEW t \in lod_tasks', ~LodIsCurrent(t)'
                   PROVE  LodJob(t.generation) \in stop_requested'
      OBVIOUS
    <2>2. CASE t \in lod_tasks /\ (t.document_id # d \/ LodLeftAlone(d, s, X))
      <3>1. t.document_id \in DocumentIds
        BY <1>1, <2>2, TaskFacts
      <3>2. slots'[t.document_id].preparation = slots[t.document_id].preparation
        BY <1>2, <2>2, <3>1 DEF LodLeftAlone
      <3>3. ~LodIsCurrent(t)
        BY <2>1, <3>2 DEF LodIsCurrent
      <3>4. QED
        BY <1>1, <1>2, <2>2, <3>3 DEF SupersededTasksAreStopped
    <2>3. CASE t \in lod_tasks /\ t.document_id = d /\ ~LodLeftAlone(d, s, X)
      BY <1>2, <2>3 DEF CommandShape, LodEnds, LodStarts, LodJobsOf
    <2>4. CASE t \notin lod_tasks
      <3>1. /\ t.document_id = d /\ t.generation = next_lod_generation
            /\ s.preparation.state = "pending"
            /\ s.preparation.generation = next_lod_generation
        BY <2>1, <2>4 DEF CommandShape, LodLeftAlone, LodEnds, LodStarts
      <3>2. slots'[d] = s
        BY <1>2
      <3>3. t.document = s.document
        BY <2>1, <3>1, <3>2 DEF IInv, CurrentLod
      <3>4. s.preparation.revision = s.document.revision
        BY <3>1, <3>2 DEF IInv, SlotOK
      <3>5. LodIsCurrent(t)'
        BY <3>1, <3>2, <3>3, <3>4 DEF LodIsCurrent
      <3>6. QED
        BY <2>1, <3>5
    <2>5. QED
      BY <2>2, <2>3, <2>4
  <1>10. SettledDocumentIsShown'
    BY <1>1, <1>2 DEF CommandShape, AtRest, SettledDocumentIsShown
  <1>11. QED
    BY <1>5, <1>6, <1>7, <1>8, <1>9, <1>10 DEF TaskInv, Awaited, SupersededTasksAreStopped

-----------------------------------------------------------------------------
(***************************************************************************)
(* Every command has that shape.                                           *)
(***************************************************************************)
LEMMA StartLodShape ==
  ASSUME NEW d, NEW s1, StartLod(d, s1)
  PROVE  /\ \E t : /\ t.document_id = d /\ t.generation = next_lod_generation
                   /\ lod_tasks' = lod_tasks \cup {t}
         /\ UNCHANGED <<frame_tasks, next_frame_generation>>
  <1>1. /\ LodTaskOf(d, s1, next_lod_generation).document_id = d
        /\ LodTaskOf(d, s1, next_lod_generation).generation = next_lod_generation
    BY DEF LodTaskOf
  <1>2. QED
    BY <1>1 DEF StartLod

\* A frame is started under the next generation.
LEMMA StartFrameShape ==
  ASSUME NEW d, NEW s1, StartFrame(d, s1)
  PROVE  /\ \E t : /\ t.document_id = d /\ t.generation = next_frame_generation
                   /\ frame_tasks' = frame_tasks \cup {t}
         /\ UNCHANGED <<lod_tasks, next_lod_generation>>
  <1>1. /\ FrameTaskOf(d, s1, next_frame_generation).document_id = d
        /\ FrameTaskOf(d, s1, next_frame_generation).generation = next_frame_generation
    BY DEF FrameTaskOf
  <1>2. QED
    BY <1>1 DEF StartFrame

\* A command that stops every task of d and awaits no frame.
LEMMA ReplacesShape ==
  ASSUME NEW d, NEW s, NEW s1, NEW starts \in BOOLEAN,
         slots' = [slots EXCEPT ![d] = s],
         stop_requested' = stop_requested \cup (LodJobsOf(d) \cup FrameJobsOf(d)),
         GuiThreadOnly, UNCHANGED <<output, poll_vars>>, failed \subseteq failed' \cup {d},
         IF starts THEN StartLod(d, s1) ELSE StartNothing,
         s.frame_generation = 0,
         IF starts
         THEN s.preparation.state = "pending" /\ s.preparation.generation = next_lod_generation
         ELSE s.preparation.state # "pending",
         ~AtRest(s)
  PROVE  CommandShape(d, s, LodJobsOf(d) \cup FrameJobsOf(d))
  <1>. DEFINE X == LodJobsOf(d) \cup FrameJobsOf(d)
  <1>1. CASE starts
    <2>1. LodStarts(d, s, X) /\ NoFrame(d, s, X)
      BY <1>1, StartLodShape DEF LodStarts, NoFrame
    <2>2. QED
      BY <1>1, <2>1 DEF CommandShape, Starts
  <1>2. CASE ~starts
    <2>1. LodEnds(d, s, X) /\ NoFrame(d, s, X)
      BY <1>2 DEF LodEnds, NoFrame, StartNothing, task_vars
    <2>2. QED
      BY <1>2, <2>1 DEF CommandShape, Starts
  <1>3. QED
    BY <1>1, <1>2

\* SetDocumentCommand has the shape of a command.
LEMMA SetDocumentShape ==
  ASSUME IInv, NEW d \in DocumentIds, NEW doc \in Documents, SetDocument(d, doc)
  PROVE  \E s, X : CommandShape(d, s, X)
  <1>. DEFINE s == AfterSetDocument(slots[d], doc, "none", next_lod_generation)
              starts == StartsLod(slots[d], doc, "none")
  <1>1. /\ s.frame_generation = 0 /\ s.presentation = None
        /\ IF starts
           THEN s.preparation.state = "pending" /\ s.preparation.generation = next_lod_generation
           ELSE s.preparation.state # "pending"
    BY DEF AfterSetDocument, StartsLod, NoPreparation
  <1>2. /\ slots' = [slots EXCEPT ![d] = s]
        /\ stop_requested' = stop_requested \cup (LodJobsOf(d) \cup FrameJobsOf(d))
        /\ GuiThreadOnly /\ UNCHANGED <<output, poll_vars>>
        /\ failed \subseteq failed' \cup {d}
        /\ IF starts THEN StartLod(d, s) ELSE StartNothing
    BY DEF SetDocument, Command, RequestStop
  <1>3. starts \in BOOLEAN
    BY DEF StartsLod
  <1>4. ~AtRest(s)
    BY <1>1 DEF AtRest
  <1>. HIDE DEF s, starts
  <1>5. QED
    BY <1>1, <1>2, <1>3, <1>4, ReplacesShape

\* A command that stops frames only, and starts one if the LOD is ready and
\* there is something to show.
LEMMA ShowsShape ==
  ASSUME NEW d, NEW s, NEW starts \in BOOLEAN, NEW X \in {{}, FrameJobsOf(d)},
         slots' = [slots EXCEPT ![d] = s],
         stop_requested' = stop_requested \cup X,
         GuiThreadOnly, UNCHANGED <<output, poll_vars>>, failed \subseteq failed' \cup {d},
         s.preparation = slots[d].preparation,
         IF starts THEN StartFrame(d, s) ELSE StartNothing,
         IF starts
         THEN X = FrameJobsOf(d) /\ s.frame_generation = next_frame_generation
         ELSE /\ s.frame_generation = 0 /\ ~AtRest(s)
              /\ X = FrameJobsOf(d) \/ slots[d].frame_generation = 0,
         next_frame_generation # 0
  PROVE  CommandShape(d, s, X)
  <1>1. X \cap LodJobsOf(d) = {} /\ X \subseteq LodJobsOf(d) \cup FrameJobsOf(d)
    BY JobNames DEF LodJobsOf, FrameJobsOf
  <1>2. CASE starts
    <2>1. LodLeftAlone(d, s, X) /\ FrameStarts(d, s, X)
      BY <1>1, <1>2, StartFrameShape DEF LodLeftAlone, FrameStarts
    <2>2. QED
      BY <1>1, <1>2, <2>1 DEF CommandShape, Starts, AtRest
  <1>3. CASE ~starts
    <2>1. LodLeftAlone(d, s, X) /\ NoFrame(d, s, X)
      BY <1>1, <1>3 DEF LodLeftAlone, NoFrame, StartNothing, task_vars
    <2>2. QED
      BY <1>1, <1>3, <2>1 DEF CommandShape, Starts
  <1>4. QED
    BY <1>2, <1>3

\* So has SetPresentationCommand.
LEMMA SetPresentationShape ==
  ASSUME IInv, NEW d \in DocumentIds, NEW p \in Presentations, SetPresentation(d, p)
  PROVE  \E s, X : CommandShape(d, s, X)
  <1>. DEFINE s == AfterSetPresentation(slots[d], p, next_frame_generation)
              starts == SchedulesPresentation(slots[d])
  <1>1. /\ s.preparation = slots[d].preparation
        /\ s.frame_generation = IF starts THEN next_frame_generation ELSE 0
    BY TypesOfIInv DEF AfterSetPresentation, Slots
  <1>2. /\ slots' = [slots EXCEPT ![d] = s]
        /\ stop_requested' = stop_requested \cup FrameJobsOf(d)
        /\ GuiThreadOnly /\ UNCHANGED <<output, poll_vars>>
        /\ failed \subseteq failed' \cup {d}
        /\ IF starts THEN StartFrame(d, s) ELSE StartNothing
    BY DEF SetPresentation, Command, RequestStop
  <1>3. starts \in BOOLEAN /\ next_frame_generation # 0
    BY TypesOfIInv DEF SchedulesPresentation
  <1>4. ~starts => ~AtRest(s)
    BY <1>1 DEF AtRest, SchedulesPresentation
  <1>. HIDE DEF s, starts
  <1>5. QED
    BY <1>1, <1>2, <1>3, <1>4, ShowsShape

\* So has SetViewportMetricsCommand, which may stop nothing.
LEMMA SetViewportMetricsShape ==
  ASSUME IInv, NEW d \in DocumentIds, NEW v \in Viewports, SetViewportMetrics(d, v)
  PROVE  \E s, X : CommandShape(d, s, X)
  <1>. DEFINE s == AfterSetViewportMetrics(slots[d], v, next_frame_generation)
              starts == SchedulesViewport(slots[d])
              X == IF starts THEN FrameJobsOf(d) ELSE {}
  <1>1. /\ s.preparation = slots[d].preparation
        /\ s.presentation = slots[d].presentation
        /\ s.frame_generation =
             IF starts THEN next_frame_generation ELSE slots[d].frame_generation
    BY TypesOfIInv DEF AfterSetViewportMetrics, Slots
  <1>2. ~starts => slots[d].frame_generation = 0
    BY TypesOfIInv DEF SlotOK, SchedulesViewport
  <1>3. /\ slots' = [slots EXCEPT ![d] = s]
        /\ stop_requested' = stop_requested \cup X
        /\ GuiThreadOnly /\ UNCHANGED <<output, poll_vars>>
        /\ failed \subseteq failed' \cup {d}
        /\ IF starts THEN StartFrame(d, s) ELSE StartNothing
    BY DEF SetViewportMetrics, Command, RequestStop
  <1>4. starts \in BOOLEAN /\ next_frame_generation # 0
    BY TypesOfIInv DEF SchedulesViewport
  <1>5. ~starts => ~AtRest(s)
    BY <1>1 DEF AtRest, SchedulesViewport
  <1>6. X \in {{}, FrameJobsOf(d)} /\ (starts => X = FrameJobsOf(d))
    OBVIOUS
  <1>. HIDE DEF s, starts, X
  <1>7. QED
    BY <1>1, <1>2, <1>3, <1>4, <1>5, <1>6, ShowsShape

\* So has a patch, which keeps the LOD or starts a new one.
LEMMA ApplyPatchShape ==
  ASSUME IInv, NEW d \in DocumentIds, NEW i \in Interpretations,
         NEW r \in CurveSets, NEW p \in Presentations, ApplyPatch(d, i, r, p)
  PROVE  \E s, X : CommandShape(d, s, X)
  <1>. DEFINE before == slots[d]
              doc == PatchedDocument(before.document, i, r)
              hint == StagedHint(before, "unchanged_document")
              s1 == AfterSetDocument(before, doc, hint, next_lod_generation)
              s2 == IF before.presentation = None THEN s1
                    ELSE AfterSetPresentation(s1, p, next_frame_generation)
              s == AfterRestoreViewport(s2, before.viewport)
              starts == StartsLod(before, doc, hint)
              frames == before.presentation # None /\ SchedulesPresentation(s1)
              X == LodJobsOf(d) \cup FrameJobsOf(d)
  <1>1. /\ slots' = [slots EXCEPT ![d] = s]
        /\ stop_requested' = stop_requested \cup X
        /\ GuiThreadOnly /\ UNCHANGED <<output, poll_vars>>
        /\ failed \subseteq failed' \cup {d}
        /\ IF starts THEN StartLod(d, s1)
           ELSE IF frames THEN StartFrame(d, s2) ELSE StartNothing
    BY DEF ApplyPatch, Command, RequestStop
  <1>2. doc \in Documents
    BY TypesOfIInv DEF ApplyPatch, PatchedDocument, Slots, Documents
  <1>3. s1 \in Slots(Generations)
    BY <1>2, TypesOfIInv, NoGeneration, AfterSetDocumentOK
  <1>4. /\ s1.frame_generation = 0 /\ s1.presentation = None
        /\ IF starts
           THEN s1.preparation.state = "pending" /\ s1.preparation.generation = next_lod_generation
           ELSE s1.preparation.state # "pending"
    BY DEF AfterSetDocument, StartsLod, NoPreparation
  <1>5. starts \in BOOLEAN /\ next_frame_generation # 0
    BY TypesOfIInv DEF StartsLod
  <1>. HIDE DEF s1, doc, hint, starts
  <1>6. /\ s2.preparation = s1.preparation
        /\ s2.frame_generation = IF frames THEN next_frame_generation ELSE 0
        /\ before.presentation = None => s2.presentation = None
    BY <1>3, <1>4 DEF AfterSetPresentation, Slots
  <1>7. /\ s.preparation = s2.preparation
        /\ s.frame_generation = s2.frame_generation
        /\ s.presentation = s2.presentation
    <2>1. s2 = s1 \/ s2 = AfterSetPresentation(s1, p, next_frame_generation)
      OBVIOUS
    <2>2. CASE before.viewport = None
      BY <2>2 DEF AfterRestoreViewport
    <2>3. CASE before.viewport # None
      BY <2>3, <2>1, <1>3 DEF AfterRestoreViewport, AfterSetPresentation, Slots
    <2>4. QED
      BY <2>2, <2>3
  <1>8. ~frames => ~AtRest(s)
    BY <1>6, <1>7 DEF AtRest, SchedulesPresentation
  <1>9. starts => ~frames
    BY <1>4 DEF SchedulesPresentation
  <1>. HIDE DEF s, s2, frames
  <1>10. CASE ~frames
    BY <1>1, <1>4, <1>5, <1>6, <1>7, <1>8, <1>10, ReplacesShape
  <1>11. CASE frames
    <2>1. StartFrame(d, s2)
      BY <1>1, <1>9, <1>11
    <2>2. LodEnds(d, s, X) /\ FrameStarts(d, s, X)
      BY <1>4, <1>6, <1>7, <1>9, <1>11, <2>1, StartFrameShape DEF LodEnds, FrameStarts
    <2>3. ~AtRest(s)
      BY <1>5, <1>6, <1>7, <1>11 DEF AtRest
    <2>4. CommandShape(d, s, X)
      BY <1>1, <2>1, <2>2, <2>3 DEF CommandShape, Starts
    <2>5. QED
      BY <2>4
  <1>12. QED
    BY <1>10, <1>11

\* So has an append, which always starts the LOD again.
LEMMA AppendBatchShape ==
  ASSUME IInv, NEW d \in DocumentIds, NEW r \in CurveSets,
         NEW revision \in Revisions, NEW v \in Viewports,
         AppendBatch(d, r, revision, v)
  PROVE  \E s, X : CommandShape(d, s, X)
  <1>. DEFINE before == slots[d]
              doc == AppendedDocument(before.document, r, revision)
              hint == StagedHint(before, "append_tail")
              s1 == AfterSetDocument(before, doc, hint, next_lod_generation)
              s == AfterAppendRestore(s1, before, v)
              starts == StartsLod(before, doc, hint)
  <1>1. /\ slots' = [slots EXCEPT ![d] = s]
        /\ stop_requested' = stop_requested \cup (LodJobsOf(d) \cup FrameJobsOf(d))
        /\ GuiThreadOnly /\ UNCHANGED <<output, poll_vars>>
        /\ failed \subseteq failed' \cup {d}
        /\ IF starts THEN StartLod(d, s1) ELSE StartNothing
    BY DEF AppendBatch, Command, RequestStop
  <1>2. doc \in Documents
    BY TypesOfIInv DEF AppendBatch, AppendedDocument, Slots, Documents
  <1>3. s1 \in Slots(Generations)
    BY <1>2, TypesOfIInv, NoGeneration, AfterSetDocumentOK
  <1>4. hint # "unchanged_document"
    BY DEF StagedHint
  <1>5. /\ s1.frame_generation = 0 /\ s1.preparation.state # "ready"
        /\ IF starts
           THEN s1.preparation.state = "pending" /\ s1.preparation.generation = next_lod_generation
           ELSE s1.preparation.state # "pending"
    BY <1>4 DEF AfterSetDocument, StartsLod, ReusesPreparation, NoPreparation
  <1>6. starts \in BOOLEAN
    BY DEF StartsLod
  <1>. HIDE DEF s1, doc, hint, starts
  <1>7. s.preparation = s1.preparation /\ s.frame_generation = s1.frame_generation
    BY <1>3 DEF AfterAppendRestore, Slots
  <1>8. ~AtRest(s)
    BY <1>5, <1>7 DEF AtRest
  <1>. HIDE DEF s
  <1>9. QED
    BY <1>1, <1>5, <1>6, <1>7, <1>8, ReplacesShape

\* Undo, redo and rollback put a document back whose LOD starts from nothing.
LEMMA RestoresShape ==
  ASSUME NEW d \in DocumentIds, NEW doc \in Documents, NEW s,
         s.frame_generation = 0,
         s.preparation =
           IF Asynchronous(doc)
           THEN [state |-> "pending", revision |-> doc.revision,
                 generation |-> next_lod_generation, pyramids |-> None]
           ELSE NoPreparation,
         Restores(d, doc, s)
  PROVE  \E t, X : CommandShape(d, t, X)
  <1>1. /\ slots' = [slots EXCEPT ![d] = s]
        /\ stop_requested' = stop_requested \cup (LodJobsOf(d) \cup FrameJobsOf(d))
        /\ GuiThreadOnly /\ UNCHANGED <<output, poll_vars>>
        /\ failed \subseteq failed' \cup {d}
        /\ IF Asynchronous(doc) THEN StartLod(d, s) ELSE StartNothing
    BY DEF Restores, Command, RequestStop
  <1>2. IF Asynchronous(doc)
        THEN s.preparation.state = "pending" /\ s.preparation.generation = next_lod_generation
        ELSE s.preparation.state # "pending"
    BY DEF NoPreparation
  <1>3. ~AtRest(s)
    BY DEF AtRest, NoPreparation
  <1>4. Asynchronous(doc) \in BOOLEAN
    BY DEF Asynchronous
  <1>5. QED
    BY <1>1, <1>2, <1>3, <1>4, ReplacesShape

\* So has whatever the host calls.
LEMMA HostCommandShape ==
  ASSUME IInv, HostCommand
  PROVE  \E d \in DocumentIds : \E s, X : CommandShape(d, s, X)
  <1>1. ASSUME NEW d \in DocumentIds, NEW doc \in Documents,
               NEW p \in Presentations \cup {None}, UndoOrRedo(d, doc, p)
        PROVE  \E s, X : CommandShape(d, s, X)
    <2>. DEFINE entry == [document |-> doc, presentation |-> p]
                s == AfterHistory(slots[d], entry, next_lod_generation)
    <2>1. next_lod_generation \in Generations
      BY TypesOfIInv
    <2>2. /\ s.frame_generation = 0
          /\ s.preparation =
               IF Asynchronous(doc)
               THEN [state |-> "pending", revision |-> doc.revision,
                     generation |-> next_lod_generation, pyramids |-> None]
               ELSE NoPreparation
      BY <2>1, TypesOfIInv, NoGeneration, AfterHistoryOK
    <2>3. Restores(d, doc, s)
      BY <1>1 DEF UndoOrRedo
    <2>. HIDE DEF s
    <2>4. QED
      BY <2>2, <2>3, RestoresShape
  <1>2. ASSUME NEW d \in DocumentIds, NEW doc \in Documents,
               NEW p \in Presentations, RollBack(d, doc, p)
        PROVE  \E s, X : CommandShape(d, s, X)
    <2>. DEFINE entry == [document |-> doc, presentation |-> p]
                s == AfterRestore(slots[d], entry, next_lod_generation)
    <2>1. next_lod_generation \in Generations
      BY TypesOfIInv
    <2>2. /\ s.frame_generation = 0
          /\ s.preparation =
               IF Asynchronous(doc)
               THEN [state |-> "pending", revision |-> doc.revision,
                     generation |-> next_lod_generation, pyramids |-> None]
               ELSE NoPreparation
      BY <2>1, TypesOfIInv, NoGeneration, AfterRestoreOK
    <2>3. Restores(d, doc, s)
      BY <1>2 DEF RollBack
    <2>. HIDE DEF s
    <2>4. QED
      BY <2>2, <2>3, RestoresShape
  <1>3. QED
    BY <1>1, <1>2, SetDocumentShape, SetPresentationShape, SetViewportMetricsShape,
       ApplyPatchShape, AppendBatchShape DEF HostCommand

-----------------------------------------------------------------------------
(***************************************************************************)
(* What the GUI thread does to the pool, in a command or a poll: it asks   *)
(* outstanding tasks to stop, forgets what it takes, and queues at most    *)
(* one job, of a new generation.                                           *)
(***************************************************************************)
QueuesNothing ==
  /\ UNCHANGED <<pending, next_lod_generation, next_frame_generation>>
  /\ OutstandingJobs' \subseteq OutstandingJobs

QueuesLod ==
  /\ pending' = Append(pending, LodJob(next_lod_generation))
  /\ next_lod_generation' = next_lod_generation + 1
  /\ UNCHANGED next_frame_generation
  /\ OutstandingJobs' \subseteq OutstandingJobs \cup {LodJob(next_lod_generation)}

QueuesFrame ==
  /\ pending' = Append(pending, FrameJob(next_frame_generation))
  /\ next_frame_generation' = next_frame_generation + 1
  /\ UNCHANGED next_lod_generation
  /\ OutstandingJobs' \subseteq OutstandingJobs \cup {FrameJob(next_frame_generation)}

GuiShape(X) ==
  /\ GuiThreadOnly
  /\ output' \in [Jobs -> Outputs]
  /\ \A j \in Jobs : output'[j] \in {output[j], "none"}
  /\ X \subseteq OutstandingJobs
  /\ stop_requested' \subseteq stop_requested \cup X
  /\ \A j \in OutstandingJobs' : j \in stop_requested => j \in stop_requested'
  /\ QueuesNothing \/ QueuesLod \/ QueuesFrame

\* Outstanding jobs are jobs, of generations already used.
LEMMA OutstandingFacts ==
  ASSUME IInv
  PROVE  /\ OutstandingJobs \subseteq Jobs
         /\ \A g : LodJob(g) \in OutstandingJobs => g < next_lod_generation
         /\ \A g : FrameJob(g) \in OutstandingJobs => g < next_frame_generation
  <1>1. \A t \in lod_tasks : LodJob(t.generation) \in Jobs
    BY TaskFacts, JobTypes
  <1>2. \A t \in frame_tasks : FrameJob(t.generation) \in Jobs
    BY TaskFacts, JobTypes
  <1>3. \A g : LodJob(g) \in OutstandingJobs => \E t \in lod_tasks : t.generation = g
    BY JobNames DEF OutstandingJobs
  <1>4. \A g : FrameJob(g) \in OutstandingJobs => \E t \in frame_tasks : t.generation = g
    BY JobNames DEF OutstandingJobs
  <1>5. QED
    BY <1>1, <1>2, <1>3, <1>4, TaskFacts DEF OutstandingJobs

\* A new job comes last in the queue; whoever was not queued still is not.
LEMMA AppendedJob ==
  ASSUME pending \in Seq(Jobs), NEW j \in Jobs, NEW k,
         k # j, \A i \in 1 .. Len(pending) : pending[i] # k
  PROVE  /\ Append(pending, j) \in Seq(Jobs)
         /\ \A i \in 1 .. Len(Append(pending, j)) : Append(pending, j)[i] # k
  OBVIOUS

\* A step of the GUI thread keeps the pool invariant.
LEMMA GuiKeepsPool ==
  ASSUME IInv, PoolInv, IInv', NEW X, GuiShape(X)
  PROVE  PoolInv'
  <1>1. /\ PoolTypeOK /\ FreshJobs /\ CancelledAreStopped
    BY DEF PoolInv
  <1>2. /\ OutstandingJobs \subseteq Jobs
        /\ \A g : LodJob(g) \in OutstandingJobs => g < next_lod_generation
        /\ \A g : FrameJob(g) \in OutstandingJobs => g < next_frame_generation
    BY OutstandingFacts
  <1>3. /\ UNCHANGED <<running, exited, shutdown, text_engine_mutex>>
        /\ output' \in [Jobs -> Outputs]
        /\ \A j \in Jobs : output'[j] \in {output[j], "none"}
        /\ stop_requested' \subseteq stop_requested \cup X
        /\ X \subseteq OutstandingJobs
    BY DEF GuiShape, GuiThreadOnly
  <1>4. /\ next_lod_generation \in 1 .. MaxGeneration
        /\ next_frame_generation \in 1 .. MaxGeneration
        /\ next_lod_generation' \in 1 .. MaxGeneration
        /\ next_frame_generation' \in 1 .. MaxGeneration
    BY TypesOfIInv DEF IInv, SessionTypeOK
  <1>5. LodJob(next_lod_generation) \in Jobs /\ FrameJob(next_frame_generation) \in Jobs
    BY <1>4, JobTypes
  <1>6. PoolTypeOK'
    <2>1. pending' \in Seq(Jobs)
      BY <1>1, <1>5 DEF PoolTypeOK, GuiShape, QueuesNothing, QueuesLod, QueuesFrame
    <2>2. stop_requested' \subseteq Jobs
      BY <1>1, <1>2, <1>3 DEF PoolTypeOK
    <2>3. QED
      BY <1>1, <1>3, <2>1, <2>2 DEF PoolTypeOK
  <1>7. ASSUME NEW k \in Jobs, Unused(k), k \notin X,
               QueuesLod => k # LodJob(next_lod_generation),
               QueuesFrame => k # FrameJob(next_frame_generation)
        PROVE  Unused(k)'
    <2>1. \A i \in 1 .. Len(pending) : pending[i] # k
      BY <1>7 DEF Unused
    <2>2. \A i \in 1 .. Len(pending') : pending'[i] # k
      <3>1. CASE QueuesNothing
        BY <2>1, <3>1 DEF QueuesNothing
      <3>2. CASE QueuesLod
        BY <1>1, <1>5, <1>7, <2>1, <3>2, AppendedJob DEF QueuesLod, PoolTypeOK
      <3>3. CASE QueuesFrame
        BY <1>1, <1>5, <1>7, <2>1, <3>3, AppendedJob DEF QueuesFrame, PoolTypeOK
      <3>4. QED
        BY <3>1, <3>2, <3>3 DEF GuiShape
    <2>3. k \notin stop_requested'
      BY <1>3, <1>7 DEF Unused
    <2>4. output'[k] = "none"
      BY <1>3, <1>7 DEF Unused
    <2>5. QED
      BY <1>3, <1>7, <2>2, <2>3, <2>4 DEF Unused
  <1>8. FreshJobs'
    <2>1. SUFFICES ASSUME NEW g \in 1 .. MaxGeneration
                   PROVE  /\ g >= next_lod_generation' => Unused(LodJob(g))'
                          /\ g >= next_frame_generation' => Unused(FrameJob(g))'
      BY DEF FreshJobs
    <2>2. ASSUME g >= next_lod_generation' PROVE Unused(LodJob(g))'
      <3>1. g >= next_lod_generation /\ (QueuesLod => g # next_lod_generation)
        BY <1>4, <2>2 DEF GuiShape, QueuesNothing, QueuesLod, QueuesFrame
      <3>2. LodJob(g) \in Jobs /\ LodJob(g) \notin X /\ Unused(LodJob(g))
        BY <1>1, <1>2, <1>3, <1>4, <3>1, JobTypes DEF FreshJobs
      <3>3. /\ QueuesLod => LodJob(g) # LodJob(next_lod_generation)
            /\ LodJob(g) # FrameJob(next_frame_generation)
        BY <3>1, JobNames
      <3>4. QED
        BY <1>7, <3>2, <3>3
    <2>3. ASSUME g >= next_frame_generation' PROVE Unused(FrameJob(g))'
      <3>1. g >= next_frame_generation /\ (QueuesFrame => g # next_frame_generation)
        BY <1>4, <2>3 DEF GuiShape, QueuesNothing, QueuesLod, QueuesFrame
      <3>2. FrameJob(g) \in Jobs /\ FrameJob(g) \notin X /\ Unused(FrameJob(g))
        BY <1>1, <1>2, <1>3, <1>4, <3>1, JobTypes DEF FreshJobs
      <3>3. /\ QueuesFrame => FrameJob(g) # FrameJob(next_frame_generation)
            /\ FrameJob(g) # LodJob(next_lod_generation)
        BY <3>1, JobNames
      <3>4. QED
        BY <1>7, <3>2, <3>3
    <2>4. QED
      BY <2>2, <2>3
  <1>9. CancelledAreStopped'
    <2>1. SUFFICES ASSUME NEW j \in OutstandingJobs'
                   PROVE  /\ output'[j] = "cancelled" => j \in stop_requested'
                          /\ \A w \in Workers :
                               running'[w].job = j /\ running'[w].step = "cancelled" =>
                                 j \in stop_requested'
      BY DEF CancelledAreStopped
    <2>2. CASE j \in OutstandingJobs
      BY <1>1, <1>2, <1>3, <2>1, <2>2 DEF CancelledAreStopped, GuiShape
    <2>3. CASE j \notin OutstandingJobs
      <3>1. j \in {LodJob(next_lod_generation), FrameJob(next_frame_generation)}
        BY <2>1, <2>3 DEF GuiShape, QueuesNothing, QueuesLod, QueuesFrame
      <3>2. j \in Jobs /\ Unused(j)
        BY <1>1, <1>4, <1>5, <3>1 DEF FreshJobs
      <3>3. QED
        BY <1>3, <3>2 DEF Unused
    <2>4. QED
      BY <2>2, <2>3
  <1>10. QED
    BY <1>6, <1>8, <1>9 DEF PoolInv

\* A command is such a step.
LEMMA CommandKeepsPool ==
  ASSUME TInv, IInv', NEW d \in DocumentIds, NEW s, NEW X, CommandShape(d, s, X)
  PROVE  PoolInv'
  <1>1. IInv /\ PoolInv /\ PoolTypeOK
    BY DEF TInv, PoolInv
  <1>2. X \subseteq OutstandingJobs
    BY DEF CommandShape, LodJobsOf, FrameJobsOf, OutstandingJobs
  <1>3. /\ GuiThreadOnly
        /\ output' = output
        /\ stop_requested' = stop_requested \cup X
    BY DEF CommandShape, Starts
  <1>4. QueuesNothing \/ QueuesLod \/ QueuesFrame
    <2>1. CASE StartNothing
      BY <2>1 DEF StartNothing, task_vars, QueuesNothing, OutstandingJobs
    <2>2. ASSUME NEW s1, StartLod(d, s1) PROVE QueuesLod
      <3>1. LodTaskOf(d, s1, next_lod_generation).generation = next_lod_generation
        BY DEF LodTaskOf
      <3>2. QED
        BY <2>2, <3>1 DEF StartLod, Submit, QueuesLod, OutstandingJobs
    <2>3. ASSUME NEW s1, StartFrame(d, s1) PROVE QueuesFrame
      <3>1. FrameTaskOf(d, s1, next_frame_generation).generation = next_frame_generation
        BY DEF FrameTaskOf
      <3>2. QED
        BY <2>3, <3>1 DEF StartFrame, Submit, QueuesFrame, OutstandingJobs
    <2>4. QED
      BY <2>1, <2>2, <2>3 DEF CommandShape, Starts
  <1>5. GuiShape(X)
    BY <1>1, <1>2, <1>3, <1>4 DEF GuiShape, PoolTypeOK
  <1>6. QED
    BY <1>1, <1>5, GuiKeepsPool

-----------------------------------------------------------------------------
(***************************************************************************)
(* poll_async takes a LOD task.  Its job is nobody else's, so what other   *)
(* tasks were asked stays asked.                                           *)
(***************************************************************************)
LodTakenShape(t, s, X) ==
  /\ LodIsCurrent(t)
  /\ lod_tasks' = lod_tasks \ {t}
  /\ UNCHANGED next_lod_generation
  /\ slots' = [slots EXCEPT ![t.document_id] = s]
  /\ X \subseteq FrameJobsOf(t.document_id)
  /\ stop_requested' = (stop_requested \ {LodJob(t.generation)}) \cup X
  /\ s.preparation.state \in {"ready", "unavailable"}
  /\ s.preparation.generation = slots[t.document_id].preparation.generation
  /\ s.preparation.revision = slots[t.document_id].preparation.revision
  /\ FrameStarts(t.document_id, s, X)
     \/ /\ s.frame_generation = 0
        /\ UNCHANGED <<frame_tasks, next_frame_generation>>
  /\ AtRest(s) => s.viewport = None
  /\ failed \subseteq failed'

\* Taking the awaited LOD keeps what is known of the tasks.
LEMMA LodTakenKeepsTasks ==
  ASSUME TInv, NEW t \in lod_tasks, NEW s, NEW X, LodTakenShape(t, s, X)
  PROVE  TaskInv'
  <1>. DEFINE d == t.document_id
  <1>1. /\ IInv /\ UniqueFrames /\ Awaited /\ SupersededTasksAreStopped
        /\ SettledDocumentIsShown /\ FreshJobs
    BY DEF TInv, TaskInv, PoolInv
  <1>2. /\ d \in DocumentIds
        /\ slots[d].preparation.state = "pending"
        /\ slots[d].frame_generation = 0
        /\ slots[d].preparation.generation = t.generation
    BY <1>1, LodTaskFacts DEF LodTakenShape, LodIsCurrent
  <1>3. \A e \in DocumentIds : slots'[e] = IF e = d THEN s ELSE slots[e]
    BY <1>1 DEF LodTakenShape, IInv, SessionTypeOK
  <1>4. /\ \A u \in lod_tasks : LodJob(u.generation) \notin X
        /\ \A u \in frame_tasks : FrameJob(u.generation) \in X => u.document_id = d
        /\ \A g : FrameJob(g) \in X => g < next_frame_generation
    <2>1. X \subseteq LodJobsOf(d) \cup FrameJobsOf(d) /\ \A g : LodJob(g) \notin X
      BY JobNames DEF LodTakenShape, FrameJobsOf
    <2>2. QED
      BY <1>1, <1>2, <2>1, OthersNotStopped
  <1>5. \A g : FrameJob(g) \in stop_requested' <=> FrameJob(g) \in stop_requested \cup X
    BY JobNames DEF LodTakenShape
  <1>6. \A u \in lod_tasks \ {t} :
          /\ u.generation # t.generation
          /\ LodJob(u.generation) \in stop_requested' <=> LodJob(u.generation) \in stop_requested
    BY <1>1, <1>4, TaskFacts, JobNames DEF LodTakenShape
  <1>7. FrameJob(next_frame_generation) \notin stop_requested'
    BY <1>1, <1>4, <1>5, TaskFacts DEF FreshJobs, Unused
  <1>8. UniqueFrames'
    BY <1>1, TaskFacts DEF LodTakenShape, FrameStarts, UniqueFrames
  <1>9. (\A e \in DocumentIds : AwaitedFrame(e))'
    <2>1. SUFFICES ASSUME NEW e \in DocumentIds, slots'[e].frame_generation # 0
                   PROVE  \E u \in frame_tasks' :
                            /\ u.document_id = e
                            /\ u.generation = slots'[e].frame_generation
                            /\ FrameJob(u.generation) \notin stop_requested'
      BY DEF AwaitedFrame
    <2>2. CASE e = d
      BY <1>3, <1>7, <2>1, <2>2 DEF LodTakenShape, FrameStarts
    <2>3. CASE e # d
      <3>1. PICK u \in frame_tasks :
               /\ u.document_id = e
               /\ u.generation = slots[e].frame_generation
               /\ FrameJob(u.generation) \notin stop_requested
        BY <1>1, <1>3, <2>1, <2>3 DEF Awaited, AwaitedFrame
      <3>2. u \in frame_tasks' /\ FrameJob(u.generation) \notin stop_requested'
        BY <1>4, <1>5, <2>3, <3>1 DEF LodTakenShape, FrameStarts
      <3>3. QED
        BY <1>3, <2>3, <3>1, <3>2
    <2>4. QED
      BY <2>2, <2>3
  <1>10. (\A e \in DocumentIds : AwaitedLod(e))'
    <2>1. SUFFICES ASSUME NEW e \in DocumentIds,
                          slots'[e].preparation.state = "pending"
                   PROVE  \E u \in lod_tasks' :
                            /\ u.document_id = e
                            /\ u.generation = slots'[e].preparation.generation
                            /\ LodJob(u.generation) \notin stop_requested'
      BY DEF AwaitedLod
    <2>2. e # d
      BY <1>3, <2>1 DEF LodTakenShape
    <2>3. PICK u \in lod_tasks :
             /\ u.document_id = e
             /\ u.generation = slots[e].preparation.generation
             /\ LodJob(u.generation) \notin stop_requested
      BY <1>1, <1>3, <2>1, <2>2 DEF Awaited, AwaitedLod
    <2>4. QED
      BY <1>3, <1>6, <2>2, <2>3 DEF LodTakenShape
  <1>11. (\A u \in frame_tasks : slots[u.document_id].frame_generation # u.generation =>
            FrameJob(u.generation) \in stop_requested)'
    <2>1. SUFFICES ASSUME NEW u \in frame_tasks',
                          slots'[u.document_id].frame_generation # u.generation
                   PROVE  FrameJob(u.generation) \in stop_requested'
      OBVIOUS
    <2>2. u \in frame_tasks
      BY <1>2, <1>3, <2>1 DEF LodTakenShape, FrameStarts
    <2>3. u.document_id \in DocumentIds /\ u.generation # 0
      BY <1>1, <2>2, TaskFacts
    <2>4. slots[u.document_id].frame_generation # u.generation
      BY <1>2, <1>3, <2>1, <2>3
    <2>5. QED
      BY <1>1, <1>5, <2>2, <2>4 DEF SupersededTasksAreStopped
  <1>12. (\A u \in lod_tasks : ~LodIsCurrent(u) => LodJob(u.generation) \in stop_requested)'
    <2>1. SUFFICES ASSUME NEW u \in lod_tasks', ~LodIsCurrent(u)'
                   PROVE  LodJob(u.generation) \in stop_requested'
      OBVIOUS
    <2>2. u \in lod_tasks \ {t} /\ u.document_id \in DocumentIds
      BY <1>1, <2>1, TaskFacts DEF LodTakenShape
    <2>3. ~LodIsCurrent(u)
      BY <1>2, <1>3, <1>6, <2>1, <2>2 DEF LodIsCurrent, LodTakenShape
    <2>4. QED
      BY <1>1, <1>6, <2>2, <2>3 DEF SupersededTasksAreStopped
  <1>13. SettledDocumentIsShown'
    <2>1. SUFFICES ASSUME NEW e \in DocumentIds,
                          AtRest(slots'[e]), slots'[e].viewport # None, e \notin failed'
                   PROVE  /\ slots'[e].scene # None
                          /\ slots'[e].scene.document = slots'[e].document
                          /\ slots'[e].scene.presentation = slots'[e].presentation
                          /\ slots'[e].scene.viewport \in {slots'[e].viewport, FullRange}
      BY DEF AtRest, SettledDocumentIsShown
    <2>2. e # d
      BY <1>3, <2>1 DEF LodTakenShape
    <2>3. slots'[e] = slots[e] /\ e \notin failed
      BY <1>3, <2>1, <2>2 DEF LodTakenShape
    <2>4. QED
      BY <1>1, <2>1, <2>3 DEF AtRest, SettledDocumentIsShown
  <1>14. QED
    BY <1>8, <1>9, <1>10, <1>11, <1>12, <1>13
       DEF TaskInv, Awaited, SupersededTasksAreStopped

(***************************************************************************)
(* What poll_async drops was superseded, so nobody waits for it.           *)
(***************************************************************************)
LEMMA DiscardedLodIsStopped ==
  ASSUME TInv, NEW t \in lod_tasks, LodDiscarded(t)
  PROVE  LodJob(t.generation) \in stop_requested
  <1>1. CASE LodIsCurrent(t)
    BY <1>1 DEF TInv, PoolInv, CancelledAreStopped, OutstandingJobs, LodDiscarded
  <1>2. CASE ~LodIsCurrent(t)
    BY <1>2 DEF TInv, TaskInv, SupersededTasksAreStopped
  <1>3. QED
    BY <1>1, <1>2

\* Dropping a LOD keeps what is known of the tasks.
LEMMA LodDiscardedKeepsTasks ==
  ASSUME TInv, NEW t \in lod_tasks, LodDiscarded(t)
  PROVE  TaskInv'
  <1>1. /\ IInv /\ UniqueFrames /\ Awaited /\ SupersededTasksAreStopped
        /\ SettledDocumentIsShown
    BY DEF TInv, TaskInv
  <1>2. /\ slots' = slots /\ frame_tasks' = frame_tasks /\ failed' = failed
        /\ lod_tasks' = lod_tasks \ {t}
        /\ stop_requested' = stop_requested \ {LodJob(t.generation)}
    BY DEF LodDiscarded, TakeLod
  <1>3. LodJob(t.generation) \in stop_requested
    BY DiscardedLodIsStopped
  <1>4. /\ \A g : FrameJob(g) \in stop_requested' <=> FrameJob(g) \in stop_requested
        /\ \A u \in lod_tasks \ {t} :
             LodJob(u.generation) \in stop_requested' <=> LodJob(u.generation) \in stop_requested
    BY <1>1, <1>2, TaskFacts, JobNames
  <1>5. UniqueFrames' /\ SettledDocumentIsShown'
    BY <1>1, <1>2 DEF UniqueFrames, SettledDocumentIsShown
  <1>6. Awaited'
    <2>1. (\A e \in DocumentIds : AwaitedFrame(e))'
      BY <1>1, <1>2, <1>4 DEF Awaited, AwaitedFrame
    <2>2. (\A e \in DocumentIds : AwaitedLod(e))'
      BY <1>1, <1>2, <1>3, <1>4 DEF Awaited, AwaitedLod
    <2>3. QED
      BY <2>1, <2>2 DEF Awaited
  <1>7. SupersededTasksAreStopped'
    BY <1>1, <1>2, <1>4 DEF SupersededTasksAreStopped, LodIsCurrent
  <1>8. QED
    BY <1>5, <1>6, <1>7 DEF TaskInv

\* So does a LOD that failed.
LEMMA LodFailsKeepsTasks ==
  ASSUME TInv, NEW t \in lod_tasks, LodFails(t)
  PROVE  TaskInv'
  <1>. DEFINE s0 == slots[t.document_id]
              s == WithPreparation(s0, "unavailable", s0.preparation.pyramids)
  <1>1. IInv /\ LodIsCurrent(t)
    BY DEF TInv, LodFails
  <1>2. s0 \in Slots(Generations) /\ s0.preparation.state = "pending"
        /\ s0.frame_generation = 0
    BY <1>1, LodTaskFacts
  <1>3. /\ s.preparation.state = "unavailable"
        /\ s.preparation.generation = s0.preparation.generation
        /\ s.preparation.revision = s0.preparation.revision
        /\ s.frame_generation = 0
    BY <1>2 DEF WithPreparation, Slots, Preparations
  <1>4. ~AtRest(s)
    BY <1>3 DEF AtRest
  <1>5. /\ slots' = [slots EXCEPT ![t.document_id] = s]
        /\ lod_tasks' = lod_tasks \ {t}
        /\ stop_requested' = (stop_requested \ {LodJob(t.generation)}) \cup {}
        /\ failed \subseteq failed'
        /\ UNCHANGED <<frame_tasks, next_lod_generation, next_frame_generation>>
    BY DEF LodFails, TakeLod
  <1>. HIDE DEF s
  <1>6. LodTakenShape(t, s, {})
    BY <1>1, <1>3, <1>4, <1>5 DEF LodTakenShape
  <1>7. QED
    BY <1>6, LodTakenKeepsTasks

\* So does a LOD that is ready, whether or not it starts a frame.
LEMMA LodReadyKeepsTasks ==
  ASSUME TInv, NEW t \in lod_tasks, LodReady(t)
  PROVE  TaskInv'
  <1>. DEFINE d == t.document_id
              curves == t.document.curves
              s == WithPreparation(slots[d], "ready", curves)
              unavailable == WithPreparation(slots[d], "unavailable", curves)
              shows == s.presentation # None /\ s.viewport # None
              framed == [s EXCEPT !.frame_generation = next_frame_generation]
              others == stop_requested \ {LodJob(t.generation)}
  <1>1. IInv /\ LodIsCurrent(t)
    BY DEF TInv, LodReady
  <1>2. /\ lod_tasks' = lod_tasks \ {t}
        /\ next_lod_generation' = next_lod_generation
    BY DEF LodReady, TakeLod
  <1>3. \/ /\ ~shows
           /\ slots' = [slots EXCEPT ![d] = s]
           /\ stop_requested' = others \cup {}
           /\ UNCHANGED <<frame_tasks, next_frame_generation, failed>>
        \/ /\ slots' = [slots EXCEPT ![d] = unavailable]
           /\ stop_requested' = others \cup {}
           /\ failed \subseteq failed'
           /\ UNCHANGED <<frame_tasks, next_frame_generation>>
        \/ /\ slots' = [slots EXCEPT ![d] = framed]
           /\ stop_requested' = others \cup FrameJobsOf(d)
           /\ frame_tasks' = frame_tasks \cup {FrameTaskOf(d, s, next_frame_generation)}
           /\ UNCHANGED failed
    BY DEF LodReady
  <1>4. slots[d] \in Slots(Generations) /\ slots[d].frame_generation = 0
        /\ next_frame_generation \in Generations /\ next_frame_generation # 0
    BY <1>1, LodTaskFacts, TypesOfIInv
  <1>5. /\ s.preparation.state = "ready"
        /\ s.preparation.generation = slots[d].preparation.generation
        /\ s.preparation.revision = slots[d].preparation.revision
        /\ s.frame_generation = 0
    BY <1>4 DEF WithPreparation, Slots, Preparations
  <1>6. /\ unavailable.preparation.state = "unavailable"
        /\ unavailable.preparation.generation = slots[d].preparation.generation
        /\ unavailable.preparation.revision = slots[d].preparation.revision
        /\ unavailable.frame_generation = 0
    BY <1>4 DEF WithPreparation, Slots, Preparations
  <1>7. /\ framed.preparation = s.preparation
        /\ framed.frame_generation = next_frame_generation
    BY <1>4 DEF WithPreparation, Slots
  <1>8. /\ FrameTaskOf(d, s, next_frame_generation).document_id = d
        /\ FrameTaskOf(d, s, next_frame_generation).generation = next_frame_generation
    BY DEF FrameTaskOf
  <1>9. ~shows => (AtRest(s) => s.viewport = None)
    BY DEF AtRest
  <1>10. ~AtRest(unavailable) /\ ~AtRest(framed)
    BY <1>4, <1>6, <1>7 DEF AtRest
  <1>. HIDE DEF s, unavailable, framed, shows
  <1>11. \/ LodTakenShape(t, s, {})
         \/ LodTakenShape(t, unavailable, {})
         \/ LodTakenShape(t, framed, FrameJobsOf(d))
    <2>1. CASE slots' = [slots EXCEPT ![d] = s] /\ ~shows
               /\ stop_requested' = others \cup {}
               /\ UNCHANGED <<frame_tasks, next_frame_generation, failed>>
      BY <1>1, <1>2, <1>5, <1>9, <2>1 DEF LodTakenShape
    <2>2. CASE slots' = [slots EXCEPT ![d] = unavailable]
               /\ stop_requested' = others \cup {} /\ failed \subseteq failed'
               /\ UNCHANGED <<frame_tasks, next_frame_generation>>
      BY <1>1, <1>2, <1>6, <1>10, <2>2 DEF LodTakenShape
    <2>3. CASE slots' = [slots EXCEPT ![d] = framed]
               /\ stop_requested' = others \cup FrameJobsOf(d)
               /\ frame_tasks' = frame_tasks \cup {FrameTaskOf(d, s, next_frame_generation)}
               /\ UNCHANGED failed
      <3>1. FrameStarts(d, framed, FrameJobsOf(d))
        BY <1>7, <1>8, <2>3 DEF FrameStarts
      <3>2. QED
        BY <1>1, <1>2, <1>5, <1>7, <1>10, <2>3, <3>1 DEF LodTakenShape
    <2>4. QED
      BY <1>3, <2>1, <2>2, <2>3
  <1>12. QED
    BY <1>11, LodTakenKeepsTasks

-----------------------------------------------------------------------------
(***************************************************************************)
(* poll_async takes a frame task.                                          *)
(***************************************************************************)
LEMMA DiscardedFrameIsStopped ==
  ASSUME TInv, NEW t \in frame_tasks, FrameDiscarded(t)
  PROVE  FrameJob(t.generation) \in stop_requested
  <1>1. CASE output[FrameJob(t.generation)] = "cancelled"
    BY <1>1 DEF TInv, PoolInv, CancelledAreStopped, OutstandingJobs
  <1>2. CASE slots[t.document_id].frame_generation # t.generation
    BY <1>2 DEF TInv, TaskInv, SupersededTasksAreStopped
  <1>3. CASE slots[t.document_id].frame_generation = t.generation
             /\ output[FrameJob(t.generation)] # "cancelled"
    <2>1. t.document = slots[t.document_id].document
      BY <1>3 DEF TInv, IInv, CurrentFrame
    <2>2. t.document # None
      BY FrameTaskFacts DEF TInv, Documents
    <2>3. QED
      BY <1>3, <2>1, <2>2 DEF FrameDiscarded, FrameIsCurrent
  <1>4. QED
    BY <1>1, <1>2, <1>3

\* A taken frame leaves the LOD tasks and the other frames as they were asked.
LEMMA TakenFrameLeavesOthers ==
  ASSUME TInv, NEW t \in frame_tasks, TakeFrame(t)
  PROVE  /\ \A g : LodJob(g) \in stop_requested' <=> LodJob(g) \in stop_requested
         /\ \A u \in frame_tasks \ {t} :
              /\ u.generation # t.generation
              /\ FrameJob(u.generation) \in stop_requested'
                   <=> FrameJob(u.generation) \in stop_requested
  <1>1. stop_requested' = stop_requested \ {FrameJob(t.generation)}
    BY DEF TakeFrame
  <1>2. \A u \in frame_tasks \ {t} : u.generation # t.generation
    BY DEF TInv, TaskInv, UniqueFrames
  <1>3. QED
    BY <1>1, <1>2, JobNames

\* Dropping a frame keeps what is known of the tasks.
LEMMA FrameDiscardedKeepsTasks ==
  ASSUME TInv, NEW t \in frame_tasks, FrameDiscarded(t)
  PROVE  TaskInv'
  <1>1. /\ IInv /\ UniqueFrames /\ Awaited /\ SupersededTasksAreStopped
        /\ SettledDocumentIsShown
    BY DEF TInv, TaskInv
  <1>2. /\ slots' = slots /\ lod_tasks' = lod_tasks /\ failed' = failed
        /\ frame_tasks' = frame_tasks \ {t}
        /\ TakeFrame(t)
    BY DEF FrameDiscarded, TakeFrame
  <1>3. FrameJob(t.generation) \in stop_requested
    BY DiscardedFrameIsStopped
  <1>4. /\ \A g : LodJob(g) \in stop_requested' <=> LodJob(g) \in stop_requested
        /\ \A u \in frame_tasks \ {t} :
             FrameJob(u.generation) \in stop_requested'
               <=> FrameJob(u.generation) \in stop_requested
    BY <1>2, TakenFrameLeavesOthers
  <1>5. UniqueFrames' /\ SettledDocumentIsShown'
    BY <1>1, <1>2 DEF UniqueFrames, SettledDocumentIsShown
  <1>6. Awaited'
    <2>1. (\A e \in DocumentIds : AwaitedFrame(e))'
      BY <1>1, <1>2, <1>3, <1>4 DEF Awaited, AwaitedFrame
    <2>2. (\A e \in DocumentIds : AwaitedLod(e))'
      BY <1>1, <1>2, <1>4 DEF Awaited, AwaitedLod
    <2>3. QED
      BY <2>1, <2>2 DEF Awaited
  <1>7. SupersededTasksAreStopped'
    BY <1>1, <1>2, <1>4 DEF SupersededTasksAreStopped, LodIsCurrent
  <1>8. QED
    BY <1>5, <1>6, <1>7 DEF TaskInv

(***************************************************************************)
(* The document of the awaited frame stops waiting; if it is at rest now,  *)
(* it shows the frame or its failure was reported.                         *)
(***************************************************************************)
LEMMA AwaitedFrameKeepsTasks ==
  ASSUME TInv, NEW t \in frame_tasks, TakeFrame(t), FrameIsCurrent(t), NEW s,
         slots' = [slots EXCEPT ![t.document_id] = s],
         s.preparation = slots[t.document_id].preparation,
         s.frame_generation = 0,
         failed \subseteq failed' \cup {t.document_id},
         \/ t.document_id \in failed'
         \/ /\ s.scene # None
            /\ s.scene.document = s.document
            /\ s.scene.presentation = s.presentation
            /\ s.scene.viewport \in {s.viewport, FullRange}
  PROVE  TaskInv'
  <1>. DEFINE d == t.document_id
  <1>1. /\ IInv /\ UniqueFrames /\ Awaited /\ SupersededTasksAreStopped
        /\ SettledDocumentIsShown
    BY DEF TInv, TaskInv
  <1>2. d \in DocumentIds /\ slots[d].frame_generation = t.generation
    BY <1>1, FrameTaskFacts DEF FrameIsCurrent
  <1>3. \A e \in DocumentIds : slots'[e] = IF e = d THEN s ELSE slots[e]
    BY <1>1 DEF IInv, SessionTypeOK
  <1>4. lod_tasks' = lod_tasks /\ frame_tasks' = frame_tasks \ {t}
    BY DEF TakeFrame
  <1>5. /\ \A g : LodJob(g) \in stop_requested' <=> LodJob(g) \in stop_requested
        /\ \A u \in frame_tasks \ {t} :
             /\ u.generation # t.generation
             /\ FrameJob(u.generation) \in stop_requested'
                  <=> FrameJob(u.generation) \in stop_requested
    BY TakenFrameLeavesOthers
  <1>6. UniqueFrames'
    BY <1>1, <1>4 DEF UniqueFrames
  <1>7. (\A e \in DocumentIds : AwaitedFrame(e))'
    <2>1. SUFFICES ASSUME NEW e \in DocumentIds, slots'[e].frame_generation # 0
                   PROVE  \E u \in frame_tasks' :
                            /\ u.document_id = e
                            /\ u.generation = slots'[e].frame_generation
                            /\ FrameJob(u.generation) \notin stop_requested'
      BY DEF AwaitedFrame
    <2>2. e # d
      BY <1>3, <2>1
    <2>3. PICK u \in frame_tasks :
             /\ u.document_id = e
             /\ u.generation = slots[e].frame_generation
             /\ FrameJob(u.generation) \notin stop_requested
      BY <1>1, <1>3, <2>1, <2>2 DEF Awaited, AwaitedFrame
    <2>4. QED
      BY <1>3, <1>4, <1>5, <2>2, <2>3
  <1>8. (\A e \in DocumentIds : AwaitedLod(e))'
    <2>1. SUFFICES ASSUME NEW e \in DocumentIds, slots'[e].preparation.state = "pending"
                   PROVE  \E u \in lod_tasks' :
                            /\ u.document_id = e
                            /\ u.generation = slots'[e].preparation.generation
                            /\ LodJob(u.generation) \notin stop_requested'
      BY DEF AwaitedLod
    <2>2. slots'[e].preparation = slots[e].preparation
      BY <1>3
    <2>3. PICK u \in lod_tasks :
             /\ u.document_id = e
             /\ u.generation = slots[e].preparation.generation
             /\ LodJob(u.generation) \notin stop_requested
      BY <1>1, <2>1, <2>2 DEF Awaited, AwaitedLod
    <2>4. QED
      BY <1>4, <1>5, <2>2, <2>3
  <1>9. (\A u \in frame_tasks : slots[u.document_id].frame_generation # u.generation =>
           FrameJob(u.generation) \in stop_requested)'
    <2>1. SUFFICES ASSUME NEW u \in frame_tasks',
                          slots'[u.document_id].frame_generation # u.generation
                   PROVE  FrameJob(u.generation) \in stop_requested'
      OBVIOUS
    <2>2. u \in frame_tasks \ {t} /\ u.document_id \in DocumentIds
      BY <1>1, <1>4, <2>1, TaskFacts
    <2>3. slots[u.document_id].frame_generation # u.generation
      BY <1>2, <1>3, <1>5, <2>1, <2>2
    <2>4. QED
      BY <1>1, <1>5, <2>2, <2>3 DEF SupersededTasksAreStopped
  <1>10. (\A u \in lod_tasks : ~LodIsCurrent(u) => LodJob(u.generation) \in stop_requested)'
    <2>1. SUFFICES ASSUME NEW u \in lod_tasks, ~LodIsCurrent(u)'
                   PROVE  LodJob(u.generation) \in stop_requested'
      BY <1>4
    <2>2. slots'[u.document_id].preparation = slots[u.document_id].preparation
      BY <1>1, <1>3, TaskFacts
    <2>3. ~LodIsCurrent(u)
      BY <2>1, <2>2 DEF LodIsCurrent
    <2>4. QED
      BY <1>1, <1>5, <2>3 DEF SupersededTasksAreStopped
  <1>11. SettledDocumentIsShown'
    BY <1>1, <1>3 DEF SettledDocumentIsShown
  <1>12. QED
    BY <1>6, <1>7, <1>8, <1>9, <1>10, <1>11
       DEF TaskInv, Awaited, SupersededTasksAreStopped

\* A failed frame leaves its document reported.
LEMMA FrameFailsKeepsTasks ==
  ASSUME TInv, NEW t \in frame_tasks, FrameFails(t)
  PROVE  TaskInv'
  <1>. DEFINE s0 == slots[t.document_id]
              s == [s0 EXCEPT !.frame_generation = 0]
  <1>1. s0 \in Slots(Generations) /\ t.document_id \in DocumentIds
    BY FrameTaskFacts DEF TInv
  <1>2. slots' = [slots EXCEPT ![t.document_id] = s]
    BY <1>1 DEF FrameFails, TInv, IInv, SessionTypeOK
  <1>3. s.preparation = s0.preparation /\ s.frame_generation = 0
    BY <1>1 DEF Slots
  <1>4. /\ TakeFrame(t) /\ FrameIsCurrent(t)
        /\ failed' = failed \cup {t.document_id}
    BY DEF FrameFails
  <1>. HIDE DEF s
  <1>5. QED
    BY <1>2, <1>3, <1>4, AwaitedFrameKeepsTasks

\* A frame that is ready is what its document is to show.
LEMMA FrameReadyKeepsTasks ==
  ASSUME TInv, NEW t \in frame_tasks, FrameReady(t)
  PROVE  TaskInv'
  <1>. DEFINE s0 == slots[t.document_id]
              s == [s0 EXCEPT !.scene = SceneOf(t), !.frame_generation = 0]
  <1>1. /\ s0 \in Slots(Generations) /\ t.document_id \in DocumentIds
        /\ t.document = s0.document
        /\ t.presentation = s0.presentation
        /\ t.viewport \in {s0.viewport, FullRange}
        /\ SceneOf(t) \in Scenes
    <2>1. IInv /\ FrameIsCurrent(t)
      BY DEF TInv, FrameReady
    <2>2. QED
      BY <2>1, FrameTaskFacts DEF SceneOf, Scenes
  <1>2. slots' = [slots EXCEPT ![t.document_id] = s]
    BY <1>1 DEF FrameReady, TInv, IInv, SessionTypeOK
  <1>3. /\ s.preparation = s0.preparation /\ s.frame_generation = 0
        /\ s.document = s0.document /\ s.presentation = s0.presentation
        /\ s.viewport = s0.viewport /\ s.scene = SceneOf(t)
    BY <1>1 DEF Slots
  <1>4. /\ SceneOf(t) # None
        /\ SceneOf(t).document = t.document
        /\ SceneOf(t).presentation = t.presentation
        /\ SceneOf(t).viewport = t.viewport
    BY <1>1, SceneAssumption DEF SceneOf
  <1>5. /\ TakeFrame(t) /\ FrameIsCurrent(t)
        /\ failed' = failed \ {t.document_id}
    BY DEF FrameReady
  <1>. HIDE DEF s
  <1>6. QED
    BY <1>1, <1>2, <1>3, <1>4, <1>5, AwaitedFrameKeepsTasks

-----------------------------------------------------------------------------
(***************************************************************************)
(* What the polls do to the pool.                                          *)
(***************************************************************************)
LEMMA PollLodKeepsPool ==
  ASSUME TInv, IInv', NEW t \in lod_tasks, LodDiscarded(t) \/ LodFails(t) \/ LodReady(t)
  PROVE  PoolInv'
  <1>. DEFINE d == t.document_id
              j == LodJob(t.generation)
  <1>1. IInv /\ PoolInv /\ PoolTypeOK
    BY DEF TInv, PoolInv
  <1>2. TakeLod(t)
    BY DEF LodDiscarded, LodFails, LodReady
  <1>3. /\ GuiThreadOnly
        /\ output' = [output EXCEPT ![j] = "none"]
        /\ lod_tasks' = lod_tasks \ {t}
        /\ UNCHANGED next_lod_generation
    BY <1>2 DEF TakeLod, Forget
  <1>4. output' \in [Jobs -> Outputs] /\ \A k \in Jobs : output'[k] \in {output[k], "none"}
    BY <1>1, <1>3 DEF PoolTypeOK, Outputs
  <1>5. {} \subseteq OutstandingJobs /\ FrameJobsOf(d) \subseteq OutstandingJobs
    BY DEF OutstandingJobs, FrameJobsOf
  <1>6. PICK X \in {{}, FrameJobsOf(d)} :
          /\ stop_requested' = (stop_requested \ {j}) \cup X
          /\ \/ UNCHANGED <<pending, frame_tasks, next_frame_generation>>
             \/ \E s : /\ frame_tasks' =
                            frame_tasks \cup {FrameTaskOf(d, s, next_frame_generation)}
                       /\ next_frame_generation' = next_frame_generation + 1
                       /\ pending' = Append(pending, FrameJob(next_frame_generation))
    BY DEF LodDiscarded, LodFails, LodReady, Submit
  <1>7. QueuesNothing \/ QueuesFrame
    <2>1. CASE UNCHANGED <<pending, frame_tasks, next_frame_generation>>
      BY <1>3, <2>1 DEF QueuesNothing, OutstandingJobs
    <2>2. ASSUME NEW s,
                 frame_tasks' = frame_tasks \cup {FrameTaskOf(d, s, next_frame_generation)},
                 next_frame_generation' = next_frame_generation + 1,
                 pending' = Append(pending, FrameJob(next_frame_generation))
          PROVE  QueuesFrame
      <3>1. FrameTaskOf(d, s, next_frame_generation).generation = next_frame_generation
        BY DEF FrameTaskOf
      <3>2. QED
        BY <1>3, <2>2, <3>1 DEF QueuesFrame, OutstandingJobs
    <2>3. QED
      BY <1>6, <2>1, <2>2
  <1>8. j \notin OutstandingJobs'
    <2>1. \A u \in lod_tasks' : u.generation # t.generation
      BY <1>1, <1>3, TaskFacts
    <2>2. QED
      BY <2>1, JobNames DEF OutstandingJobs
  <1>9. GuiShape(X)
    BY <1>3, <1>4, <1>5, <1>6, <1>7, <1>8 DEF GuiShape
  <1>10. QED
    BY <1>1, <1>9, GuiKeepsPool

\* A frame that is taken takes its job along.
LEMMA PollFrameKeepsPool ==
  ASSUME TInv, IInv', NEW t \in frame_tasks,
         FrameDiscarded(t) \/ FrameFails(t) \/ FrameReady(t)
  PROVE  PoolInv'
  <1>. DEFINE j == FrameJob(t.generation)
  <1>1. IInv /\ PoolInv /\ PoolTypeOK /\ UniqueFrames
    BY DEF TInv, PoolInv, TaskInv
  <1>2. TakeFrame(t)
    BY DEF FrameDiscarded, FrameFails, FrameReady
  <1>3. /\ GuiThreadOnly
        /\ output' = [output EXCEPT ![j] = "none"]
        /\ frame_tasks' = frame_tasks \ {t}
        /\ stop_requested' = stop_requested \ {j}
        /\ UNCHANGED <<pending, lod_tasks, next_lod_generation, next_frame_generation>>
    BY <1>2 DEF TakeFrame, Forget
  <1>4. output' \in [Jobs -> Outputs] /\ \A k \in Jobs : output'[k] \in {output[k], "none"}
    BY <1>1, <1>3 DEF PoolTypeOK, Outputs
  <1>5. QueuesNothing
    BY <1>3 DEF QueuesNothing, OutstandingJobs
  <1>6. j \notin OutstandingJobs'
    <2>1. \A u \in frame_tasks' : u.generation # t.generation
      BY <1>1, <1>3 DEF UniqueFrames
    <2>2. QED
      BY <2>1, JobNames DEF OutstandingJobs
  <1>7. GuiShape({})
    BY <1>3, <1>4, <1>5, <1>6 DEF GuiShape
  <1>8. QED
    BY <1>1, <1>7, GuiKeepsPool

\* Steps that change neither the slots nor what is awaited of the pool.
LEMMA UnchangedTasks ==
  ASSUME TInv,
         UNCHANGED <<slots, lod_tasks, frame_tasks, stop_requested, failed>>
  PROVE  TaskInv'
  BY DEF TInv, TaskInv, UniqueFrames, Awaited, AwaitedFrame, AwaitedLod,
         SupersededTasksAreStopped, LodIsCurrent, SettledDocumentIsShown

\* Steps that touch neither the pool nor the tasks.
LEMMA UnchangedPool ==
  ASSUME TInv, UNCHANGED <<pool_vars, task_vars>>
  PROVE  PoolInv'
  BY DEF TInv, PoolInv, PoolTypeOK, FreshJobs, Unused, CancelledAreStopped,
         OutstandingJobs, pool_vars, task_vars

-----------------------------------------------------------------------------
(***************************************************************************)
(* A worker handles a job that was submitted, so no fresh one; it cancels  *)
(* a job only if it sees it stopped.                                       *)
(***************************************************************************)
LEMMA WorkerKeepsPool ==
  ASSUME TInv, NEW w \in Workers, WorkerStep(w), UNCHANGED task_vars
  PROVE  PoolInv'
  <1>1. PoolTypeOK /\ FreshJobs /\ CancelledAreStopped
    BY DEF TInv, PoolInv
  <1>2. /\ UNCHANGED stop_requested
        /\ UNCHANGED <<next_lod_generation, next_frame_generation>>
        /\ OutstandingJobs' = OutstandingJobs
    BY DEF WorkerStep, TakeJob, LockTextEngine, Publish, ExitWorker, task_vars,
           OutstandingJobs
  <1>3. OutstandingJobs \subseteq Jobs
    BY OutstandingFacts DEF TInv
  <1>4. \A g \in 1 .. MaxGeneration : LodJob(g) \in Jobs /\ FrameJob(g) \in Jobs
    BY JobTypes
  <1>5. ASSUME PoolTypeOK',
               \A k \in Jobs : Unused(k) => Unused(k)',
               CancelledAreStopped'
        PROVE  PoolInv'
    BY <1>1, <1>2, <1>4, <1>5 DEF PoolInv, FreshJobs
  <1>6. CASE TakeJob(w)
    <2>. DEFINE h == Head(pending)
                step == IF h \in stop_requested THEN "cancelled"
                        ELSE IF h \in TextJobs THEN "text" ELSE "build"
    <2>1. /\ pending # <<>> /\ pending \in Seq(Jobs)
          /\ running' = [running EXCEPT ![w] = [job |-> h, step |-> step]]
          /\ pending' = Tail(pending)
          /\ UNCHANGED <<shutdown, exited, text_engine_mutex, output>>
      BY <1>1, <1>6 DEF TakeJob, PoolTypeOK
    <2>2. /\ h \in Jobs /\ h = pending[1] /\ Len(pending) >= 1
          /\ pending' \in Seq(Jobs)
          /\ Len(pending') = Len(pending) - 1
          /\ \A i \in 1 .. Len(pending') : pending'[i] = pending[i + 1]
      BY <2>1
    <2>3. step \in Steps /\ (step = "cancelled" => h \in stop_requested)
      BY DEF Steps
    <2>. HIDE DEF h, step
    <2>4. \A v \in Workers :
            running'[v] = IF v = w THEN [job |-> h, step |-> step] ELSE running[v]
      BY <1>1, <2>1 DEF PoolTypeOK
    <2>5. PoolTypeOK'
      BY <1>1, <1>2, <2>1, <2>2, <2>3 DEF PoolTypeOK
    <2>6. ASSUME NEW k \in Jobs, Unused(k) PROVE Unused(k)'
      <3>1. h # k
        BY <2>2, <2>6 DEF Unused
      <3>2. \A v \in Workers : running'[v].job # k
        BY <2>4, <2>6, <3>1 DEF Unused
      <3>3. \A i \in 1 .. Len(pending') : pending'[i] # k
        <4>1. SUFFICES ASSUME NEW i \in 1 .. Len(pending') PROVE pending[i + 1] # k
          BY <2>2
        <4>2. i + 1 \in 1 .. Len(pending)
          BY <2>2
        <4>3. QED
          BY <2>6, <4>2 DEF Unused
      <3>4. QED
        BY <1>2, <2>1, <2>6, <3>2, <3>3 DEF Unused
    <2>7. CancelledAreStopped'
      BY <1>1, <1>2, <2>1, <2>3, <2>4 DEF CancelledAreStopped
    <2>8. QED
      BY <1>5, <2>5, <2>6, <2>7
  <1>7. CASE LockTextEngine(w)
    <2>1. PICK step \in {"cancelled", "build"} :
            /\ running' = [running EXCEPT ![w].step = step]
            /\ step = "cancelled" => running[w].job \in stop_requested
      BY <1>7 DEF LockTextEngine
    <2>2. /\ text_engine_mutex' \in {text_engine_mutex, w}
          /\ UNCHANGED <<pending, shutdown, exited, output>>
      BY <1>7 DEF LockTextEngine
    <2>3. /\ \A v \in Workers : running'[v].job = running[v].job
          /\ \A v \in Workers : running'[v].step = IF v = w THEN step ELSE running[v].step
          /\ running' \in [Workers -> [job : Jobs \cup {NoJob}, step : Steps]]
      BY <1>1, <2>1 DEF PoolTypeOK, Steps
    <2>4. PoolTypeOK'
      BY <1>1, <1>2, <2>2, <2>3 DEF PoolTypeOK
    <2>5. \A k \in Jobs : Unused(k) => Unused(k)'
      BY <1>2, <2>2, <2>3 DEF Unused
    <2>6. CancelledAreStopped'
      BY <1>1, <1>2, <2>1, <2>2, <2>3 DEF CancelledAreStopped
    <2>7. QED
      BY <1>5, <2>4, <2>5, <2>6
  <1>8. CASE Publish(w)
    <2>. DEFINE h == running[w].job
    <2>1. PICK o \in Outputs \ {"none"} :
            /\ output' = [output EXCEPT ![h] = o]
            /\ o = "cancelled" => running[w].step = "cancelled" \/ h \in stop_requested
      BY <1>8 DEF Publish, BuildOutcomes, Outputs
    <2>2. /\ h \in Jobs
          /\ running' = [running EXCEPT ![w] = Idle]
          /\ text_engine_mutex' \in {text_engine_mutex, NoWorker}
          /\ UNCHANGED <<pending, shutdown, exited>>
      BY <1>1, <1>8 DEF Publish, PoolTypeOK
    <2>3. /\ \A v \in Workers : running'[v] = IF v = w THEN Idle ELSE running[v]
          /\ running' \in [Workers -> [job : Jobs \cup {NoJob}, step : Steps]]
      BY <1>1, <2>2 DEF PoolTypeOK, Idle, Steps
    <2>4. \A k \in Jobs : output'[k] = IF k = h THEN o ELSE output[k]
      BY <1>1, <2>1 DEF PoolTypeOK
    <2>5. PoolTypeOK'
      BY <1>1, <1>2, <2>1, <2>2, <2>3 DEF PoolTypeOK
    <2>6. Idle.job \notin Jobs /\ Idle.step # "cancelled"
      BY DEF Idle
    <2>. HIDE DEF Idle
    <2>7. ASSUME NEW k \in Jobs, Unused(k) PROVE Unused(k)'
      <3>1. k # h
        BY <2>7 DEF Unused
      <3>2. \A v \in Workers : running'[v].job # k
        BY <2>3, <2>6, <2>7 DEF Unused
      <3>3. QED
        BY <1>2, <2>2, <2>4, <2>7, <3>1, <3>2 DEF Unused
    <2>8. CancelledAreStopped'
      <3>1. SUFFICES ASSUME NEW k \in OutstandingJobs
                     PROVE  /\ output'[k] = "cancelled" => k \in stop_requested
                            /\ \A v \in Workers :
                                 running'[v].job = k /\ running'[v].step = "cancelled" =>
                                   k \in stop_requested
        BY <1>2 DEF CancelledAreStopped
      <3>2. output'[k] = "cancelled" => k \in stop_requested
        BY <1>1, <1>3, <2>1, <2>4, <3>1 DEF CancelledAreStopped
      <3>3. ASSUME NEW v \in Workers, running'[v].job = k, running'[v].step = "cancelled"
            PROVE  k \in stop_requested
        BY <1>1, <2>3, <2>6, <3>1, <3>3 DEF CancelledAreStopped
      <3>4. QED
        BY <3>2, <3>3
    <2>9. QED
      BY <1>5, <2>5, <2>7, <2>8
  <1>9. CASE ExitWorker(w)
    BY <1>1, <1>2, <1>5, <1>9 DEF ExitWorker, PoolTypeOK, Unused, CancelledAreStopped
  <1>10. QED
    BY <1>6, <1>7, <1>8, <1>9 DEF WorkerStep

-----------------------------------------------------------------------------
\* A session without documents awaits nothing, and no job was ever used.
LEMMA InitTInv == Init => TInv
  <1>1. SUFFICES ASSUME Init PROVE TInv
    OBVIOUS
  <1>2. PoolTypeOK
    <2>1. Idle \in [job : Jobs \cup {NoJob}, step : Steps]
      BY DEF Idle, Steps
    <2>2. <<>> \in Seq(Jobs) /\ "none" \in Outputs
      BY DEF Outputs
    <2>3. QED
      BY <1>1, <2>1, <2>2 DEF Init, PoolInit, PoolTypeOK
  <1>3. \A j \in Jobs : Unused(j)
    BY <1>1 DEF Init, PoolInit, Unused, Idle
  <1>4. FreshJobs
    BY <1>3, JobTypes DEF FreshJobs
  <1>5. lod_tasks = {} /\ frame_tasks = {}
    BY <1>1 DEF Init
  <1>6. CancelledAreStopped
    BY <1>5 DEF CancelledAreStopped, OutstandingJobs
  <1>7. \A d \in DocumentIds : slots[d] = EmptySlot
    BY <1>1 DEF Init
  <1>8. /\ EmptySlot.frame_generation = 0
        /\ EmptySlot.preparation.state = "none"
    BY DEF EmptySlot, NoPreparation
  <1>9. TaskInv
    BY <1>5, <1>7, <1>8 DEF TaskInv, UniqueFrames, Awaited, AwaitedFrame, AwaitedLod,
       SupersededTasksAreStopped, SettledDocumentIsShown
  <1>10. QED
    BY <1>1, <1>2, <1>4, <1>6, <1>9, InitIInv DEF TInv, PoolInv

\* Every step of the GUI thread and of the workers keeps TInv.
LEMMA NextKeepsTInv == TInv /\ [Next]_vars => TInv'
  <1>1. SUFFICES ASSUME TInv, [Next]_vars PROVE PoolInv' /\ TaskInv'
    BY NextKeepsIInv DEF TInv
  <1>2. IInv /\ IInv'
    BY <1>1, NextKeepsIInv DEF TInv
  <1>3. CASE HostCommand
    BY <1>1, <1>2, <1>3, HostCommandShape, CommandKeepsPool, CommandKeepsTasks
  <1>4. CASE PollLod
    BY <1>1, <1>2, <1>4, PollLodKeepsPool, LodDiscardedKeepsTasks,
       LodFailsKeepsTasks, LodReadyKeepsTasks DEF PollLod
  <1>5. CASE PollFrame
    BY <1>1, <1>2, <1>5, PollFrameKeepsPool, FrameDiscardedKeepsTasks,
       FrameFailsKeepsTasks, FrameReadyKeepsTasks DEF PollFrame
  <1>6. CASE BeginPoll \/ EndLodLoop \/ EndPoll \/ UNCHANGED vars
    <2>1. UNCHANGED <<pool_vars, slots, task_vars, failed>>
      BY <1>6 DEF BeginPoll, EndLodLoop, EndPoll, vars
    <2>2. UNCHANGED <<lod_tasks, frame_tasks, stop_requested>>
      BY <2>1 DEF pool_vars, task_vars
    <2>3. QED
      BY <1>1, <2>1, <2>2, UnchangedTasks, UnchangedPool
  <1>7. CASE \E w \in Workers : Worker(w)
    <2>1. PICK w \in Workers : Worker(w)
      BY <1>7
    <2>2. WorkerStep(w) /\ UNCHANGED <<slots, task_vars, failed>>
      BY <2>1 DEF Worker
    <2>3. UNCHANGED <<lod_tasks, frame_tasks, stop_requested>>
      BY <2>2 DEF task_vars, WorkerStep, TakeJob, LockTextEngine, Publish, ExitWorker
    <2>4. QED
      BY <1>1, <2>1, <2>2, <2>3, UnchangedTasks, WorkerKeepsPool
  <1>8. QED
    BY <1>1, <1>3, <1>4, <1>5, <1>6, <1>7 DEF Next, PollStep

(***************************************************************************)
(* The inductive invariant of the session and its pool holds in every      *)
(* reachable state.                                                        *)
(***************************************************************************)
THEOREM TaskInvariant == Spec => []TInv
  BY InitTInv, NextKeepsTInv, PTL DEF Spec

(***************************************************************************)
(* The whole type invariant of the pool and the session, but for the poll  *)
(* counters.                                                               *)
(***************************************************************************)
THEOREM PoolTypes == Spec => []PoolTypeOK
  <1>1. TInv => PoolTypeOK
    BY DEF TInv, PoolInv
  <1>2. QED
    BY <1>1, TaskInvariant, PTL

(***************************************************************************)
(* A document never waits for a task that does not exist, was asked to     *)
(* stop or builds something else, however commands and workers interleave. *)
(***************************************************************************)
THEOREM WaitsAreLive == Spec => []WaitsForLiveTask
  <1>1. TInv => WaitsForLiveTask
    BY AwaitedIsLive DEF TInv, TaskInv
  <1>2. QED
    BY <1>1, TaskInvariant, PTL

(***************************************************************************)
(* No task works on a superseded document or frame without having been     *)
(* asked to stop.                                                          *)
(***************************************************************************)
THEOREM SupersededAreStopped == Spec => []SupersededTasksAreStopped
  <1>1. TInv => SupersededTasksAreStopped
    BY DEF TInv, TaskInv
  <1>2. QED
    BY <1>1, TaskInvariant, PTL

(***************************************************************************)
(* A large document at rest shows what its last commands asked for, or its *)
(* failure was reported.                                                   *)
(***************************************************************************)
THEOREM SettledIsShown == Spec => []SettledDocumentIsShown
  <1>1. TInv => SettledDocumentIsShown
    BY DEF TInv, TaskInv
  <1>2. QED
    BY <1>1, TaskInvariant, PTL

-----------------------------------------------------------------------------
(***************************************************************************)
(* Counting tasks.  The task sets are finite, and every step that makes or *)
(* takes a task moves the counters with it; a LOD whose frame cannot be    *)
(* started counts as completed and as failed, hence the two bounds.        *)
(***************************************************************************)
AccountInv ==
  /\ IsFiniteSet(lod_tasks)
  /\ IsFiniteSet(frame_tasks)
  /\ accounted \in Nat
  /\ failures \in Nat
  /\ EveryTaskAccounted

\* The sizes of the task sets and the number of tasks made.
LEMMA Sizes ==
  ASSUME IInv, AccountInv
  PROVE  /\ Cardinality(lod_tasks) \in Nat
         /\ Cardinality(frame_tasks) \in Nat
         /\ Outstanding = Cardinality(lod_tasks) + Cardinality(frame_tasks)
         /\ Created = (next_lod_generation - 1) + (next_frame_generation - 1)
         /\ next_lod_generation \in Nat \ {0}
         /\ next_frame_generation \in Nat \ {0}
  BY FS_CardinalityType, TypesOfIInv DEF AccountInv, Outstanding, Created,
     IInv, SessionTypeOK

\* A task of a new generation is one more.
LEMMA StartedLod ==
  ASSUME IInv, AccountInv, NEW d, NEW s, StartLod(d, s)
  PROVE  /\ IsFiniteSet(lod_tasks')
         /\ Cardinality(lod_tasks') = Cardinality(lod_tasks) + 1
  <1>. DEFINE t == LodTaskOf(d, s, next_lod_generation)
  <1>1. t \notin lod_tasks
    <2>1. t.generation = next_lod_generation
      BY DEF LodTaskOf
    <2>2. QED
      BY <2>1, TaskFacts
  <1>2. lod_tasks' = lod_tasks \cup {t}
    BY DEF StartLod
  <1>3. QED
    BY <1>1, <1>2, FS_AddElement DEF AccountInv

\* So is a frame of a new generation.
LEMMA StartedFrame ==
  ASSUME IInv, AccountInv, NEW d, NEW s,
         frame_tasks' = frame_tasks \cup {FrameTaskOf(d, s, next_frame_generation)}
  PROVE  /\ IsFiniteSet(frame_tasks')
         /\ Cardinality(frame_tasks') = Cardinality(frame_tasks) + 1
  <1>. DEFINE t == FrameTaskOf(d, s, next_frame_generation)
  <1>1. t \notin frame_tasks
    <2>1. t.generation = next_frame_generation
      BY DEF FrameTaskOf
    <2>2. QED
      BY <2>1, TaskFacts
  <1>2. QED
    BY <1>1, FS_AddElement DEF AccountInv

\* Commands make tasks and count none.
LEMMA CommandAccounts ==
  ASSUME TInv, AccountInv, NEW d \in DocumentIds, NEW s, NEW X, CommandShape(d, s, X)
  PROVE  AccountInv'
  <1>1. IInv /\ UNCHANGED <<accounted, failures>>
    BY DEF TInv, CommandShape, Starts, poll_vars
  <1>2. CASE StartNothing
    BY <1>1, <1>2 DEF StartNothing, task_vars, AccountInv, EveryTaskAccounted, Created,
       Outstanding
  <1>3. ASSUME NEW s1, StartLod(d, s1) PROVE AccountInv'
    <2>1. /\ IsFiniteSet(lod_tasks')
          /\ Cardinality(lod_tasks') = Cardinality(lod_tasks) + 1
      BY <1>1, <1>3, StartedLod
    <2>2. /\ next_lod_generation' = next_lod_generation + 1
          /\ UNCHANGED <<frame_tasks, next_frame_generation>>
      BY <1>3 DEF StartLod
    <2>3. EveryTaskAccounted'
      BY <1>1, <2>1, <2>2, Sizes DEF AccountInv, EveryTaskAccounted, Created, Outstanding
    <2>4. QED
      BY <1>1, <2>1, <2>2, <2>3 DEF AccountInv
  <1>4. ASSUME NEW s1, StartFrame(d, s1) PROVE AccountInv'
    <2>1. /\ next_frame_generation' = next_frame_generation + 1
          /\ frame_tasks' = frame_tasks \cup {FrameTaskOf(d, s1, next_frame_generation)}
          /\ UNCHANGED <<lod_tasks, next_lod_generation>>
      BY <1>4 DEF StartFrame
    <2>2. /\ IsFiniteSet(frame_tasks')
          /\ Cardinality(frame_tasks') = Cardinality(frame_tasks) + 1
      BY <1>1, <2>1, StartedFrame
    <2>3. EveryTaskAccounted'
      BY <1>1, <2>1, <2>2, Sizes DEF AccountInv, EveryTaskAccounted, Created, Outstanding
    <2>4. QED
      BY <1>1, <2>1, <2>2, <2>3 DEF AccountInv
  <1>5. QED
    BY <1>2, <1>3, <1>4 DEF CommandShape, Starts

\* A LOD task that is taken is counted, and the frame it may start is made.
LEMMA PollLodAccounts ==
  ASSUME TInv, AccountInv, NEW t \in lod_tasks,
         LodDiscarded(t) \/ LodFails(t) \/ LodReady(t)
  PROVE  AccountInv'
  <1>. DEFINE d == t.document_id
  <1>1. IInv
    BY DEF TInv
  <1>2. lod_tasks' = lod_tasks \ {t} /\ UNCHANGED next_lod_generation
    BY DEF LodDiscarded, LodFails, LodReady, TakeLod
  <1>3. /\ IsFiniteSet(lod_tasks')
        /\ Cardinality(lod_tasks') = Cardinality(lod_tasks) - 1
    BY <1>2, FS_RemoveElement DEF AccountInv
  <1>4. /\ accounted' \in {accounted, accounted + 1}
        /\ failures' \in {failures, failures + 1}
        /\ accounted' = accounted + 1 \/ failures' = failures + 1
    BY DEF LodDiscarded, LodFails, LodReady
  <1>5. CASE UNCHANGED <<frame_tasks, next_frame_generation>>
    <2>1. EveryTaskAccounted'
      BY <1>1, <1>2, <1>3, <1>4, <1>5, Sizes
         DEF AccountInv, EveryTaskAccounted, Created, Outstanding
    <2>2. QED
      BY <1>3, <1>4, <1>5, <2>1 DEF AccountInv
  <1>6. ASSUME NEW s,
               frame_tasks' = frame_tasks \cup {FrameTaskOf(d, s, next_frame_generation)},
               next_frame_generation' = next_frame_generation + 1
        PROVE  AccountInv'
    <2>1. /\ IsFiniteSet(frame_tasks')
          /\ Cardinality(frame_tasks') = Cardinality(frame_tasks) + 1
      BY <1>1, <1>6, StartedFrame
    <2>2. EveryTaskAccounted'
      BY <1>1, <1>2, <1>3, <1>4, <1>6, <2>1, Sizes
         DEF AccountInv, EveryTaskAccounted, Created, Outstanding
    <2>3. QED
      BY <1>3, <1>4, <2>1, <2>2 DEF AccountInv
  <1>7. QED
    BY <1>5, <1>6 DEF LodDiscarded, LodFails, LodReady

\* A frame task that is taken is counted once or reported as failed.
LEMMA PollFrameAccounts ==
  ASSUME TInv, AccountInv, NEW t \in frame_tasks,
         FrameDiscarded(t) \/ FrameFails(t) \/ FrameReady(t)
  PROVE  AccountInv'
  <1>1. IInv
    BY DEF TInv
  <1>2. /\ frame_tasks' = frame_tasks \ {t}
        /\ UNCHANGED <<lod_tasks, next_lod_generation, next_frame_generation>>
    BY DEF FrameDiscarded, FrameFails, FrameReady, TakeFrame
  <1>3. /\ IsFiniteSet(frame_tasks')
        /\ Cardinality(frame_tasks') = Cardinality(frame_tasks) - 1
    BY <1>2, FS_RemoveElement DEF AccountInv
  <1>4. /\ accounted' \in {accounted, accounted + 1}
        /\ failures' \in {failures, failures + 1}
        /\ accounted' = accounted + 1 \/ failures' = failures + 1
    BY DEF FrameDiscarded, FrameFails, FrameReady
  <1>5. EveryTaskAccounted'
    BY <1>1, <1>2, <1>3, <1>4, Sizes
       DEF AccountInv, EveryTaskAccounted, Created, Outstanding
  <1>6. QED
    BY <1>2, <1>3, <1>4, <1>5 DEF AccountInv

\* Nothing made, nothing counted.
LEMMA UnchangedAccounts ==
  ASSUME AccountInv, UNCHANGED <<task_vars, accounted, failures>>
  PROVE  AccountInv'
  BY DEF AccountInv, EveryTaskAccounted, Created, Outstanding, task_vars

\* Every step keeps the counts.
LEMMA NextKeepsAccounts == TInv /\ AccountInv /\ [Next]_vars => AccountInv'
  <1>1. SUFFICES ASSUME TInv, AccountInv, [Next]_vars PROVE AccountInv'
    OBVIOUS
  <1>2. CASE HostCommand
    BY <1>1, <1>2, HostCommandShape, CommandAccounts DEF TInv
  <1>3. CASE PollLod
    BY <1>1, <1>3, PollLodAccounts DEF PollLod
  <1>4. CASE PollFrame
    BY <1>1, <1>4, PollFrameAccounts DEF PollFrame
  <1>5. CASE BeginPoll \/ EndLodLoop \/ EndPoll \/ UNCHANGED vars \/ \E w \in Workers : Worker(w)
    <2>1. UNCHANGED <<task_vars, accounted, failures>>
      BY <1>5 DEF BeginPoll, EndLodLoop, EndPoll, vars, Worker, poll_vars
    <2>2. QED
      BY <1>1, <2>1, UnchangedAccounts
  <1>6. QED
    BY <1>1, <1>2, <1>3, <1>4, <1>5 DEF Next, PollStep

(***************************************************************************)
(* No task is lost and none is counted twice: the statistics of            *)
(* poll_async add up for every number of tasks.                            *)
(***************************************************************************)
THEOREM TasksAccounted == Spec => []EveryTaskAccounted
  <1>1. Init => AccountInv
    <2>1. SUFFICES ASSUME Init PROVE AccountInv
      OBVIOUS
    <2>2. /\ lod_tasks = {} /\ frame_tasks = {} /\ accounted = 0 /\ failures = 0
          /\ next_lod_generation = 1 /\ next_frame_generation = 1
      BY <2>1 DEF Init
    <2>3. QED
      BY <2>2, FS_EmptySet DEF AccountInv, EveryTaskAccounted, Created, Outstanding
  <1>2. AccountInv => EveryTaskAccounted
    BY DEF AccountInv
  <1>3. QED
    BY <1>1, <1>2, TaskInvariant, NextKeepsAccounts, PTL DEF Spec

-----------------------------------------------------------------------------
(***************************************************************************)
(* The inductive invariant.  EveryJobInOnePlace counts places; an          *)
(* induction step is easier to see when the same is said without counting: *)
(* no two positions of a queue and no two workers hold the same job, the   *)
(* four places exclude one another, and a job is submitted if and only if  *)
(* it is in one of them.                                                   *)
(***************************************************************************)
In(j, s) == \E i \in 1 .. Len(s) : s[i] = j

Distinct(s) == \A i, k \in 1 .. Len(s) : s[i] = s[k] => i = k

Held(j) == \E w \in Workers : running[w].job = j

HeldOnce ==
  \A v, w \in Workers :
    running[v].job = running[w].job /\ running[v].job # NoJob => v = w

PlacesInv ==
  /\ Distinct(pending)
  /\ Distinct(dropped)
  /\ HeldOnce
  /\ \A j \in Jobs :
       /\ j \in submitted <=> In(j, pending) \/ In(j, dropped) \/ Held(j) \/ Finished(j)
       /\ In(j, pending) => ~In(j, dropped) /\ ~Held(j) /\ ~Finished(j)
       /\ In(j, dropped) => ~Held(j) /\ ~Finished(j)
       /\ Held(j) => ~Finished(j)

(***************************************************************************)
(* The worker that builds with text holds the text engine's mutex, and the *)
(* mutex has no other holder.                                              *)
(***************************************************************************)
LockInv ==
  \A w \in Workers :
    /\ running[w].job = NoJob => running[w].step = "build"
    /\ running[w].step = "text" => running[w].job \in TextJobs
    /\ text_engine_mutex = w <=> running[w].job \in TextJobs /\ running[w].step = "build"

(***************************************************************************)
(* A job that has not finished has a record until the records are dropped, *)
(* and by then the drain of its kind has asked it to stop.                 *)
(***************************************************************************)
StopInv ==
  \A j \in submitted : ~Finished(j) =>
    /\ teardown \in {"live", "drain_lod", "drain_frames"} => j \in tasks
    /\ teardown # "live" /\ j \in LodJobs => j \in stop_requested
    /\ teardown \notin {"live", "drain_lod"} => j \in stop_requested

(***************************************************************************)
(* The destructor of the pool moves the queue out before a worker leaves.  *)
(***************************************************************************)
ShutdownInv ==
  /\ shutdown <=> teardown \in {"run_dropped", "join", "gone"}
  /\ shutdown => pending = <<>>
  /\ teardown # "run_dropped" => dropped = <<>>
  /\ \A w \in exited : shutdown /\ running[w].job = NoJob
  /\ teardown = "gone" => exited = Workers

TeardownInv == TeardownTypeOK /\ PlacesInv /\ LockInv /\ StopInv /\ ShutdownInv

-----------------------------------------------------------------------------
\* Queues: what a job appended, or taken off the front, changes.
LEMMA AppendPlaces ==
  ASSUME NEW s \in Seq(Jobs), NEW j \in Jobs, Distinct(s), ~In(j, s)
  PROVE  /\ Append(s, j) \in Seq(Jobs)
         /\ Distinct(Append(s, j))
         /\ \A k \in Jobs : In(k, Append(s, j)) <=> In(k, s) \/ k = j
<1> DEFINE t == Append(s, j)
<1>1. /\ t \in Seq(Jobs) /\ Len(t) = Len(s) + 1 /\ t[Len(s) + 1] = j
      /\ \A i \in 1 .. Len(s) : t[i] = s[i]
  OBVIOUS
<1> HIDE DEF t
<1>2. Len(s) \in Nat
  OBVIOUS
<1>3. Distinct(t)
  BY <1>1, <1>2 DEF Distinct, In
<1>4. ASSUME NEW k \in Jobs PROVE In(k, t) <=> In(k, s) \/ k = j
  <2>1. CASE In(k, t)
    BY <2>1, <1>1, <1>2 DEF In
  <2>2. ASSUME In(k, s) PROVE In(k, t)
    <3>1. PICK i \in 1 .. Len(s) : s[i] = k
      BY <2>2 DEF In
    <3>2. i \in 1 .. Len(t) /\ t[i] = k
      BY <3>1, <1>1, <1>2
    <3> QED BY <3>2 DEF In
  <2>3. ASSUME k = j PROVE In(k, t)
    <3>1. Len(s) + 1 \in 1 .. Len(t)
      BY <1>1, <1>2
    <3> QED BY <3>1, <1>1, <2>3 DEF In
  <2> QED BY <2>1, <2>2, <2>3
<1> QED BY <1>1, <1>3, <1>4 DEF t

\* The front of a queue is in it; the rest holds everything else.
LEMMA TailPlaces ==
  ASSUME NEW s \in Seq(Jobs), s # <<>>, Distinct(s)
  PROVE  /\ Head(s) \in Jobs /\ In(Head(s), s)
         /\ Tail(s) \in Seq(Jobs)
         /\ Distinct(Tail(s))
         /\ \A k \in Jobs : In(k, Tail(s)) <=> In(k, s) /\ k # Head(s)
<1> DEFINE t == Tail(s)
<1>1. /\ Head(s) = s[1] /\ Len(s) \in Nat /\ Len(s) >= 1 /\ s[1] \in Jobs
      /\ t \in Seq(Jobs) /\ Len(t) = Len(s) - 1
      /\ \A i \in 1 .. Len(t) : t[i] = s[i + 1]
  OBVIOUS
<1> HIDE DEF t
<1>2. Distinct(t)
  <2> SUFFICES ASSUME NEW i \in 1 .. Len(t), NEW k \in 1 .. Len(t), t[i] = t[k]
               PROVE  i = k
    BY DEF Distinct
  <2>1. i + 1 \in 1 .. Len(s) /\ k + 1 \in 1 .. Len(s) /\ s[i + 1] = s[k + 1]
    BY <1>1
  <2>2. i + 1 = k + 1
    BY <2>1 DEF Distinct
  <2> QED BY <2>2
<1>3. 1 \in 1 .. Len(s)
  BY <1>1
<1>4. ASSUME NEW k \in Jobs PROVE In(k, t) <=> In(k, s) /\ k # Head(s)
  <2>1. ASSUME In(k, t) PROVE In(k, s) /\ k # Head(s)
    <3>1. PICK i \in 1 .. Len(t) : t[i] = k
      BY <2>1 DEF In
    <3>2. i + 1 \in 1 .. Len(s) /\ s[i + 1] = k /\ i + 1 # 1
      BY <3>1, <1>1
    <3>3. s[1] # k
      BY <3>2, <1>3 DEF Distinct
    <3> QED BY <3>2, <3>3, <1>1 DEF In
  <2>2. ASSUME In(k, s), k # Head(s) PROVE In(k, t)
    <3>1. PICK i \in 1 .. Len(s) : s[i] = k
      BY <2>2 DEF In
    <3>2. i - 1 \in 1 .. Len(t) /\ t[i - 1] = k
      BY <3>1, <2>2, <1>1
    <3> QED BY <3>2 DEF In
  <2> QED BY <2>1, <2>2
<1> QED BY <1>1, <1>2, <1>3, <1>4 DEF In, t

\* An empty queue holds nothing.
LEMMA EmptyPlaces == Distinct(<<>>) /\ \A j : ~In(j, <<>>)
BY DEF Distinct, In

-----------------------------------------------------------------------------
\* A session begins with empty queues, idle workers and a free text engine.
THEOREM TeardownBegins == TeardownInit => TeardownInv
<1> SUFFICES ASSUME TeardownInit PROVE TeardownInv
  OBVIOUS
<1> USE PoolAssumption DEF TeardownInit, PoolInit
<1>1. TeardownTypeOK
  <2>1. Idle \in [job : Jobs \cup {NoJob}, step : Steps]
    BY DEF Idle, Steps
  <2>2. running \in [Workers -> [job : Jobs \cup {NoJob}, step : Steps]]
    BY <2>1
  <2>3. output \in [Jobs -> Outputs]
    BY DEF Outputs
  <2>4. pending \in Seq(Jobs) /\ dropped \in Seq(Jobs)
    OBVIOUS
  <2> QED BY <2>2, <2>3, <2>4 DEF TeardownTypeOK, PoolTypeOK, Phases
<1>2. PlacesInv
  BY EmptyPlaces DEF PlacesInv, HeldOnce, Held, Idle, Finished
<1>3. LockInv
  BY DEF LockInv, Idle
<1>4. StopInv /\ ShutdownInv
  BY DEF StopInv, ShutdownInv
<1> QED BY <1>1, <1>2, <1>3, <1>4 DEF TeardownInv

-----------------------------------------------------------------------------
(***************************************************************************)
(* One lemma per part of the invariant, one step per action that can       *)
(* disturb it.                                                             *)
(***************************************************************************)
\* Every action keeps the types.
LEMMA TypeStep == TeardownTypeOK /\ [TeardownNext]_teardown_vars => TeardownTypeOK'
<1> SUFFICES ASSUME TeardownTypeOK, [TeardownNext]_teardown_vars PROVE TeardownTypeOK'
  OBVIOUS
<1> USE PoolAssumption
<1>1. ASSUME NEW j \in Jobs, SubmitTask(j) PROVE TeardownTypeOK'
  <2>1. pending' \in Seq(Jobs)
    BY <1>1 DEF SubmitTask, Submit, TeardownTypeOK, PoolTypeOK
  <2> QED BY <1>1, <2>1 DEF SubmitTask, Submit, TeardownTypeOK, PoolTypeOK
<1>2. ASSUME NEW j \in Jobs, SupersedeTask(j) PROVE TeardownTypeOK'
  BY <1>2 DEF SupersedeTask, RequestStop, TeardownTypeOK, PoolTypeOK
<1>3. ASSUME NEW j \in Jobs, Reap(j) PROVE TeardownTypeOK'
  BY <1>3 DEF Reap, TeardownTypeOK, PoolTypeOK, pool_vars
<1>4. ASSUME DrainLod PROVE TeardownTypeOK'
  BY <1>4 DEF DrainLod, RequestStop, TeardownTypeOK, PoolTypeOK, Phases
<1>5. ASSUME DrainFrames PROVE TeardownTypeOK'
  BY <1>5 DEF DrainFrames, RequestStop, TeardownTypeOK, PoolTypeOK, Phases
<1>6. ASSUME DestroyTasks PROVE TeardownTypeOK'
  BY <1>6 DEF DestroyTasks, TeardownTypeOK, PoolTypeOK, Phases, pool_vars
<1>7. ASSUME ShutDown PROVE TeardownTypeOK'
  <2>1. pending' \in Seq(Jobs) /\ dropped' \in Seq(Jobs)
    BY <1>7 DEF ShutDown, TeardownTypeOK, PoolTypeOK
  <2> QED BY <1>7, <2>1 DEF ShutDown, TeardownTypeOK, PoolTypeOK, Phases
<1>8. ASSUME RunCancelled PROVE TeardownTypeOK'
  <2>1. Head(dropped) \in Jobs /\ dropped' \in Seq(Jobs)
    BY <1>8 DEF RunCancelled, TeardownTypeOK, PoolTypeOK
  <2>2. output' \in [Jobs -> Outputs]
    BY <1>8, <2>1 DEF RunCancelled, TeardownTypeOK, PoolTypeOK, Outputs
  <2> QED BY <1>8, <2>1, <2>2 DEF RunCancelled, RequestStop, TeardownTypeOK, PoolTypeOK
<1>9. ASSUME BeginJoin PROVE TeardownTypeOK'
  BY <1>9 DEF BeginJoin, TeardownTypeOK, PoolTypeOK, Phases, pool_vars
<1>10. ASSUME Join PROVE TeardownTypeOK'
  BY <1>10 DEF Join, TeardownTypeOK, PoolTypeOK, Phases, pool_vars
<1> DEFINE Rest == UNCHANGED <<submitted, tasks, teardown, dropped>>
<1>11. ASSUME NEW w \in Workers, TakeJob(w), Rest PROVE TeardownTypeOK'
  <2>1. Head(pending) \in Jobs /\ pending' \in Seq(Jobs)
    BY <1>11 DEF TakeJob, TeardownTypeOK, PoolTypeOK
  <2> DEFINE step == IF Head(pending) \in stop_requested THEN "cancelled"
                     ELSE IF Head(pending) \in TextJobs THEN "text" ELSE "build"
  <2>2. [job |-> Head(pending), step |-> step] \in [job : Jobs \cup {NoJob}, step : Steps]
    BY <2>1 DEF Steps
  <2>3. running' = [running EXCEPT ![w] = [job |-> Head(pending), step |-> step]]
    BY <1>11 DEF TakeJob
  <2> HIDE DEF step
  <2>4. running' \in [Workers -> [job : Jobs \cup {NoJob}, step : Steps]]
    BY <2>2, <2>3 DEF TeardownTypeOK, PoolTypeOK
  <2> QED BY <1>11, <2>1, <2>4 DEF TakeJob, TeardownTypeOK, PoolTypeOK
<1>12. ASSUME NEW w \in Workers, LockTextEngine(w), Rest PROVE TeardownTypeOK'
  <2>1. running' \in [Workers -> [job : Jobs \cup {NoJob}, step : Steps]]
    <3>1. PICK step \in Steps : running' = [running EXCEPT ![w].step = step]
      BY <1>12 DEF LockTextEngine, Steps
    <3>2. running \in [Workers -> [job : Jobs \cup {NoJob}, step : Steps]]
      BY DEF TeardownTypeOK, PoolTypeOK
    <3> QED BY <3>1, <3>2
  <2> QED BY <1>12, <2>1 DEF LockTextEngine, TeardownTypeOK, PoolTypeOK
<1>13. ASSUME NEW w \in Workers, Publish(w), Rest PROVE TeardownTypeOK'
  <2>1. PICK o \in Outputs : output' = [output EXCEPT ![running[w].job] = o]
    BY <1>13 DEF Publish, BuildOutcomes, Outputs
  <2>2. output' \in [Jobs -> Outputs]
    BY <2>1 DEF TeardownTypeOK, PoolTypeOK
  <2>3. Idle \in [job : Jobs \cup {NoJob}, step : Steps]
    BY DEF Idle, Steps
  <2>4. running' \in [Workers -> [job : Jobs \cup {NoJob}, step : Steps]]
    BY <1>13, <2>3 DEF Publish, TeardownTypeOK, PoolTypeOK
  <2> QED BY <1>13, <2>2, <2>4 DEF Publish, TeardownTypeOK, PoolTypeOK
<1>14. ASSUME NEW w \in Workers, ExitWorker(w), Rest PROVE TeardownTypeOK'
  BY <1>14 DEF ExitWorker, TeardownTypeOK, PoolTypeOK
<1>15. ASSUME UNCHANGED teardown_vars PROVE TeardownTypeOK'
  BY <1>15 DEF teardown_vars, pool_vars, TeardownTypeOK, PoolTypeOK
<1> HIDE DEF Rest
<1>16. QED
  BY <1>1, <1>2, <1>3, <1>4, <1>5, <1>6, <1>7, <1>8, <1>9, <1>10, <1>11, <1>12, <1>13,
     <1>14, <1>15 DEF TeardownNext, Destructor, PoolWorker, WorkerStep, Rest

\* The mutex is taken and left by the worker that builds with text.
LEMMA LockStep == TeardownTypeOK /\ LockInv /\ [TeardownNext]_teardown_vars => LockInv'
<1> SUFFICES ASSUME TeardownTypeOK, LockInv, [TeardownNext]_teardown_vars PROVE LockInv'
  OBVIOUS
<1> USE PoolAssumption
<1>1. CASE UNCHANGED <<running, text_engine_mutex>>
  BY <1>1 DEF LockInv
<1>2. ASSUME NEW w \in Workers, TakeJob(w) PROVE LockInv'
  <2>1. Head(pending) \in Jobs
    BY <1>2 DEF TakeJob, TeardownTypeOK, PoolTypeOK
  <2> QED BY <1>2, <2>1 DEF TakeJob, LockInv, TeardownTypeOK, PoolTypeOK
<1>3. ASSUME NEW w \in Workers, LockTextEngine(w) PROVE LockInv'
  <2>1. /\ running'[w].job = running[w].job /\ running[w].job \in TextJobs
        /\ \A v \in Workers \ {w} : running'[v] = running[v]
    BY <1>3 DEF LockTextEngine, LockInv, TeardownTypeOK, PoolTypeOK
  <2>2. running[w].job # NoJob /\ \A v \in Workers : text_engine_mutex # v
    BY <1>3, <2>1 DEF LockTextEngine
  <2>3. CASE running[w].job \in stop_requested
    <3>1. running'[w].step = "cancelled" /\ text_engine_mutex' = text_engine_mutex
      BY <1>3, <2>3 DEF LockTextEngine, TeardownTypeOK, PoolTypeOK
    <3> QED BY <2>1, <2>2, <3>1 DEF LockInv
  <2>4. CASE running[w].job \notin stop_requested
    <3>1. running'[w].step = "build" /\ text_engine_mutex' = w
      BY <1>3, <2>4 DEF LockTextEngine, TeardownTypeOK, PoolTypeOK
    <3> QED BY <2>1, <2>2, <3>1 DEF LockInv
  <2> QED BY <2>3, <2>4
<1>4. ASSUME NEW w \in Workers, Publish(w) PROVE LockInv'
  BY <1>4 DEF Publish, LockInv, TeardownTypeOK, PoolTypeOK, Idle
<1>5. ASSUME NEW w \in Workers, ExitWorker(w) PROVE UNCHANGED <<running, text_engine_mutex>>
  BY <1>5 DEF ExitWorker
<1>6. QED
  BY <1>1, <1>2, <1>3, <1>4, <1>5 DEF TeardownNext, SubmitTask, SupersedeTask, Reap, DrainLod,
     Destructor, DrainFrames, DestroyTasks, ShutDown, RunCancelled, BeginJoin, Join, PoolWorker,
     WorkerStep, teardown_vars, pool_vars

\* The queue and the workers that have left, over the destructor's phases.
LEMMA ShutdownStep == TeardownTypeOK /\ ShutdownInv /\ [TeardownNext]_teardown_vars => ShutdownInv'
<1> SUFFICES ASSUME TeardownTypeOK, ShutdownInv, [TeardownNext]_teardown_vars PROVE ShutdownInv'
  OBVIOUS
<1> DEFINE Rest == UNCHANGED <<submitted, tasks, teardown, dropped>>
<1>1. ASSUME NEW j \in Jobs, SubmitTask(j) PROVE ShutdownInv'
  BY <1>1 DEF SubmitTask, Submit, ShutdownInv
<1>2. CASE UNCHANGED <<pending, shutdown, running, exited, teardown, dropped>>
  BY <1>2 DEF ShutdownInv
<1>3. CASE DrainLod \/ DrainFrames \/ DestroyTasks
  BY <1>3 DEF DrainLod, DrainFrames, DestroyTasks, ShutdownInv, pool_vars
<1>4. CASE ShutDown
  BY <1>4 DEF ShutDown, ShutdownInv
<1>5. CASE RunCancelled
  BY <1>5 DEF RunCancelled, ShutdownInv
<1>6. CASE BeginJoin \/ Join
  BY <1>6 DEF BeginJoin, Join, ShutdownInv, pool_vars
<1>7. ASSUME NEW w \in Workers, TakeJob(w), Rest PROVE ShutdownInv'
  <2>1. ~shutdown /\ UNCHANGED <<shutdown, exited>> /\ exited = {}
    BY <1>7 DEF TakeJob, ShutdownInv
  <2> QED BY <1>7, <2>1 DEF ShutdownInv
<1>8. ASSUME NEW w \in Workers, LockTextEngine(w), Rest PROVE ShutdownInv'
  BY <1>8 DEF LockTextEngine, ShutdownInv, TeardownTypeOK, PoolTypeOK
<1>9. ASSUME NEW w \in Workers, Publish(w), Rest PROVE ShutdownInv'
  BY <1>9 DEF Publish, Idle, ShutdownInv, TeardownTypeOK, PoolTypeOK
<1>10. ASSUME NEW w \in Workers, ExitWorker(w), Rest PROVE ShutdownInv'
  BY <1>10 DEF ExitWorker, ShutdownInv, TeardownTypeOK, PoolTypeOK
<1> HIDE DEF Rest
<1>11. ASSUME NEW j \in Jobs, SupersedeTask(j) \/ Reap(j)
       PROVE  UNCHANGED <<pending, shutdown, running, exited, teardown, dropped>>
  BY <1>11 DEF SupersedeTask, Reap, pool_vars
<1>12. QED
  BY <1>1, <1>2, <1>3, <1>4, <1>5, <1>6, <1>7, <1>8, <1>9, <1>10, <1>11
     DEF TeardownNext, Destructor, PoolWorker, WorkerStep, Rest, teardown_vars, pool_vars

\* A job that has finished stays finished.
LEMMA FinishedStays ==
  TeardownTypeOK /\ [TeardownNext]_teardown_vars => \A j \in Jobs : Finished(j) => Finished(j)'
<1> SUFFICES ASSUME TeardownTypeOK, [TeardownNext]_teardown_vars, NEW j \in Jobs, Finished(j) PROVE Finished(j)'
  OBVIOUS
<1>1. CASE UNCHANGED output
  BY <1>1 DEF Finished
<1>2. CASE RunCancelled
  BY <1>2 DEF RunCancelled, Finished, TeardownTypeOK, PoolTypeOK
<1>3. ASSUME NEW w \in Workers, Publish(w) PROVE Finished(j)'
  <2>1. PICK o \in {"ok", "error", "cancelled"} :
          output' = [output EXCEPT ![running[w].job] = o]
    BY <1>3 DEF Publish, BuildOutcomes
  <2> QED BY <2>1 DEF Finished, TeardownTypeOK, PoolTypeOK
<1>4. QED
  BY <1>1, <1>2, <1>3 DEF TeardownNext, SubmitTask, SupersedeTask, Reap, DrainLod, Destructor,
     DrainFrames, DestroyTasks, ShutDown, BeginJoin, Join, PoolWorker, WorkerStep, TakeJob,
     LockTextEngine, ExitWorker, teardown_vars, pool_vars

\* Records and stop requests: each drain stops what has no result yet.
LEMMA StopStep == TeardownTypeOK /\ StopInv /\ [TeardownNext]_teardown_vars => StopInv'
<1> SUFFICES ASSUME TeardownTypeOK, StopInv, [TeardownNext]_teardown_vars PROVE StopInv'
  OBVIOUS
<1>1. \A j \in Jobs : ~Finished(j)' => ~Finished(j)
  BY FinishedStays
<1>2. ASSUME NEW j \in Jobs, SubmitTask(j) PROVE StopInv'
  BY <1>1, <1>2 DEF SubmitTask, StopInv, TeardownTypeOK
<1>3. ASSUME NEW j \in Jobs, SupersedeTask(j) PROVE StopInv'
  BY <1>1, <1>3 DEF SupersedeTask, RequestStop, StopInv, TeardownTypeOK
<1>4. ASSUME NEW j \in Jobs, Reap(j) PROVE StopInv'
  BY <1>1, <1>4 DEF Reap, pool_vars, StopInv, TeardownTypeOK
<1>5. CASE DrainLod
  BY <1>1, <1>5 DEF DrainLod, RequestStop, StopInv, TeardownTypeOK
<1>6. CASE DrainFrames
  <2>1. \A j \in submitted : j \in tasks /\ j \notin LodJobs => j \in tasks \cap FrameJobs
    BY DEF LodJobs, TeardownTypeOK
  <2> QED BY <1>1, <1>6, <2>1 DEF DrainFrames, RequestStop, StopInv, TeardownTypeOK
<1>7. CASE DestroyTasks \/ BeginJoin \/ Join
  BY <1>1, <1>7 DEF DestroyTasks, BeginJoin, Join, pool_vars, StopInv, TeardownTypeOK
<1>8. CASE ShutDown
  BY <1>1, <1>8 DEF ShutDown, StopInv, TeardownTypeOK
<1>9. CASE RunCancelled
  BY <1>1, <1>9 DEF RunCancelled, RequestStop, StopInv, TeardownTypeOK
<1>10. CASE UNCHANGED <<submitted, tasks, teardown, stop_requested>>
  BY <1>1, <1>10 DEF StopInv, TeardownTypeOK
<1>11. QED
  BY <1>2, <1>3, <1>4, <1>5, <1>6, <1>7, <1>8, <1>9, <1>10 DEF TeardownNext, Destructor, PoolWorker,
     WorkerStep, TakeJob, LockTextEngine, Publish, ExitWorker, teardown_vars, pool_vars

\* Jobs move from place to place one at a time.
LEMMA PlacesStep ==
  TeardownTypeOK /\ PlacesInv /\ LockInv /\ ShutdownInv /\ [TeardownNext]_teardown_vars => PlacesInv'
<1> SUFFICES ASSUME TeardownTypeOK, PlacesInv, LockInv, ShutdownInv, [TeardownNext]_teardown_vars PROVE PlacesInv'
  OBVIOUS
<1> USE PoolAssumption
<1> DEFINE Rest == UNCHANGED <<submitted, tasks, teardown, dropped>>
<1>1. ASSUME NEW j \in Jobs, SubmitTask(j) PROVE PlacesInv'
  <2>1. ~In(j, pending) /\ ~In(j, dropped) /\ ~Held(j) /\ ~Finished(j)
    BY <1>1 DEF SubmitTask, PlacesInv
  <2>2. pending' = Append(pending, j) /\ submitted' = submitted \cup {j}
        /\ UNCHANGED <<dropped, running, output>>
    BY <1>1 DEF SubmitTask, Submit
  <2>3. /\ Distinct(pending')
        /\ \A k \in Jobs : In(k, pending') <=> In(k, pending) \/ k = j
    BY <2>1, <2>2, AppendPlaces DEF TeardownTypeOK, PoolTypeOK, PlacesInv
  <2>4. \A k : (Held(k)' <=> Held(k)) /\ (Finished(k)' <=> Finished(k))
    BY <2>2 DEF Held, Finished
  <2>5. HeldOnce'
    BY <2>2 DEF PlacesInv, HeldOnce
  <2> QED BY <2>1, <2>2, <2>3, <2>4, <2>5 DEF PlacesInv
<1>2. CASE UNCHANGED <<pending, dropped, running, output, submitted>>
  BY <1>2 DEF PlacesInv, Held, HeldOnce, Finished
<1>3. CASE ShutDown
  <2>1. dropped = <<>> /\ dropped' = pending /\ pending' = <<>>
        /\ UNCHANGED <<running, output, submitted>>
    BY <1>3 DEF ShutDown, ShutdownInv
  <2>2. \A k : (Held(k)' <=> Held(k)) /\ (Finished(k)' <=> Finished(k))
    BY <2>1 DEF Held, Finished
  <2>3. HeldOnce'
    BY <2>1 DEF PlacesInv, HeldOnce
  <2> QED BY <2>1, <2>2, <2>3, EmptyPlaces DEF PlacesInv
<1>4. CASE RunCancelled
  <2> DEFINE j == Head(dropped)
  <2>1. dropped # <<>> /\ dropped' = Tail(dropped)
        /\ output' = [output EXCEPT ![j] = "cancelled"]
        /\ UNCHANGED <<pending, running, submitted>>
    BY <1>4 DEF RunCancelled
  <2>2. /\ j \in Jobs /\ In(j, dropped) /\ Distinct(dropped')
        /\ \A k \in Jobs : In(k, dropped') <=> In(k, dropped) /\ k # j
    BY <2>1, TailPlaces DEF TeardownTypeOK, PlacesInv
  <2> HIDE DEF j
  <2>3. \A k \in Jobs : (Held(k)' <=> Held(k)) /\ (Finished(k)' <=> Finished(k) \/ k = j)
    BY <2>1, <2>2 DEF Held, Finished, TeardownTypeOK, PoolTypeOK
  <2>4. HeldOnce'
    BY <2>1 DEF PlacesInv, HeldOnce
  <2> QED BY <2>1, <2>2, <2>3, <2>4 DEF PlacesInv
<1>5. ASSUME NEW w \in Workers, TakeJob(w), Rest PROVE PlacesInv'
  <2> DEFINE j == Head(pending)
  <2>1. /\ pending # <<>> /\ pending' = Tail(pending) /\ running[w].job = NoJob
        /\ running'[w].job = j
        /\ \A v \in Workers \ {w} : running'[v] = running[v]
        /\ UNCHANGED <<dropped, output, submitted>>
    BY <1>5 DEF TakeJob, TeardownTypeOK, PoolTypeOK
  <2>2. /\ j \in Jobs /\ In(j, pending) /\ Distinct(pending')
        /\ \A k \in Jobs : In(k, pending') <=> In(k, pending) /\ k # j
    BY <2>1, TailPlaces DEF TeardownTypeOK, PoolTypeOK, PlacesInv
  <2> HIDE DEF j
  <2>3. \A k \in Jobs : Held(k)' <=> Held(k) \/ k = j
    BY <2>1 DEF Held
  <2>4. \A k \in Jobs : Finished(k)' <=> Finished(k)
    BY <2>1 DEF Finished
  <2>5. ~Held(j)
    BY <2>2 DEF PlacesInv
  <2>6. HeldOnce'
    BY <2>1, <2>5 DEF PlacesInv, HeldOnce, Held
  <2> QED BY <2>1, <2>2, <2>3, <2>4, <2>6 DEF PlacesInv
<1>6. ASSUME NEW w \in Workers, LockTextEngine(w), Rest PROVE PlacesInv'
  <2>1. /\ \A v \in Workers : running'[v].job = running[v].job
        /\ UNCHANGED <<pending, dropped, output, submitted>>
    <3>1. PICK step : running' = [running EXCEPT ![w].step = step]
      BY <1>6 DEF LockTextEngine
    <3>2. running \in [Workers -> [job : Jobs \cup {NoJob}, step : Steps]]
      BY DEF TeardownTypeOK, PoolTypeOK
    <3>3. \A v \in Workers : running'[v].job = running[v].job
      BY <3>1, <3>2
    <3> QED BY <1>6, <3>3 DEF LockTextEngine
  <2>2. \A k : (Held(k)' <=> Held(k)) /\ (Finished(k)' <=> Finished(k))
    BY <2>1 DEF Held, Finished
  <2>3. HeldOnce'
    BY <2>1 DEF PlacesInv, HeldOnce
  <2> QED BY <2>1, <2>2, <2>3 DEF PlacesInv
<1>7. ASSUME NEW w \in Workers, Publish(w), Rest PROVE PlacesInv'
  <2> DEFINE j == running[w].job
  <2>1. /\ running[w].job = j /\ j # NoJob /\ running'[w].job = NoJob
        /\ \A v \in Workers \ {w} : running'[v] = running[v]
        /\ UNCHANGED <<pending, dropped, submitted>>
    BY <1>7 DEF Publish, Idle, TeardownTypeOK, PoolTypeOK
  <2>2. j \in Jobs
    BY <2>1 DEF TeardownTypeOK, PoolTypeOK
  <2>3. PICK o \in {"ok", "error", "cancelled"} : output' = [output EXCEPT ![j] = o]
    BY <1>7 DEF Publish, BuildOutcomes
  <2> HIDE DEF j
  <2>4. \A k \in Jobs : Finished(k)' <=> Finished(k) \/ k = j
    BY <2>2, <2>3 DEF Finished, TeardownTypeOK, PoolTypeOK
  <2>5. \A k \in Jobs : Held(k)' <=> Held(k) /\ k # j
    BY <2>1, <2>2 DEF Held, PlacesInv, HeldOnce
  <2>6. Held(j)
    BY <2>1 DEF Held
  <2>7. HeldOnce'
    BY <2>1 DEF PlacesInv, HeldOnce
  <2> QED BY <2>1, <2>2, <2>4, <2>5, <2>6, <2>7 DEF PlacesInv
<1> HIDE DEF Rest
<1>8. CASE DrainLod \/ DrainFrames \/ DestroyTasks \/ BeginJoin \/ Join
  BY <1>2, <1>8 DEF DrainLod, DrainFrames, DestroyTasks, BeginJoin, Join, pool_vars
<1>9. ASSUME NEW j \in Jobs, SupersedeTask(j) \/ Reap(j) PROVE PlacesInv'
  BY <1>2, <1>9 DEF SupersedeTask, Reap, pool_vars
<1>10. ASSUME NEW w \in Workers, ExitWorker(w), Rest PROVE PlacesInv'
  BY <1>2, <1>10 DEF ExitWorker, Rest
<1>11. QED
  BY <1>1, <1>2, <1>3, <1>4, <1>5, <1>6, <1>7, <1>8, <1>9, <1>10
     DEF TeardownNext, Destructor, PoolWorker, WorkerStep, Rest, teardown_vars, pool_vars

-----------------------------------------------------------------------------
\* The inductive invariant holds throughout (~WellLogSession, ~TaskExecutor,
\* worker_loop).
THEOREM TeardownInvariant == TeardownSpec => []TeardownInv
<1>1. TeardownInit => TeardownInv
  BY TeardownBegins
<1>2. TeardownInv /\ [TeardownNext]_teardown_vars => TeardownInv'
  BY TypeStep, LockStep, ShutdownStep, StopStep, PlacesStep DEF TeardownInv
<1>3. QED
  BY <1>1, <1>2, PTL DEF TeardownSpec

\* A set in which all elements are equal has none or one.
LEMMA AtMostOne ==
  ASSUME NEW S, \A x, y \in S : x = y
  PROVE  Cardinality(S) = IF S = {} THEN 0 ELSE 1
<1>1. CASE S = {}
  BY <1>1, FS_EmptySet
<1>2. CASE S # {}
  <2>1. PICK x \in S : S = {x}
    BY <1>2
  <2> QED BY <2>1, <1>2, FS_Singleton
<1> QED BY <1>1, <1>2

\* Distinct positions and workers, counted: EveryJobInOnePlace follows.
LEMMA PlacesCounted == TeardownTypeOK /\ PlacesInv => EveryJobInOnePlace
<1> SUFFICES ASSUME TeardownTypeOK, PlacesInv, NEW j \in Jobs
             PROVE  Occurrences(j) = IF j \in submitted THEN 1 ELSE 0
  BY DEF EveryJobInOnePlace
<1> USE PoolAssumption
<1> DEFINE P == {i \in DOMAIN pending : pending[i] = j}
           D == {i \in DOMAIN dropped : dropped[i] = j}
           W == {w \in Workers : running[w].job = j}
           F == IF Finished(j) THEN 1 ELSE 0
<1>1. DOMAIN pending = 1 .. Len(pending) /\ DOMAIN dropped = 1 .. Len(dropped)
  BY DEF TeardownTypeOK, PoolTypeOK
<1>2. Cardinality(P) = IF In(j, pending) THEN 1 ELSE 0
  <2>1. \A x, y \in P : x = y
    BY <1>1 DEF PlacesInv, Distinct
  <2>2. P = {} <=> ~In(j, pending)
    BY <1>1 DEF In
  <2> HIDE DEF P
  <2> QED BY <2>1, <2>2, AtMostOne
<1>3. Cardinality(D) = IF In(j, dropped) THEN 1 ELSE 0
  <2>1. \A x, y \in D : x = y
    BY <1>1 DEF PlacesInv, Distinct
  <2>2. D = {} <=> ~In(j, dropped)
    BY <1>1 DEF In
  <2> HIDE DEF D
  <2> QED BY <2>1, <2>2, AtMostOne
<1>4. Cardinality(W) = IF Held(j) THEN 1 ELSE 0
  <2>1. \A x, y \in W : x = y
    BY DEF PlacesInv, HeldOnce
  <2>2. W = {} <=> ~Held(j)
    BY DEF Held
  <2> HIDE DEF W
  <2> QED BY <2>1, <2>2, AtMostOne
<1>5. Occurrences(j) = Cardinality(P) + Cardinality(D) + Cardinality(W) + F
  BY DEF Occurrences
<1> HIDE DEF P, D, W
<1> QED BY <1>2, <1>3, <1>4, <1>5 DEF PlacesInv

\* No job is lost and none runs twice, whatever moment the session is
\* destroyed at (TaskExecutor::submit, worker_loop, ~TaskExecutor).
THEOREM JobsConserved == TeardownSpec => []EveryJobInOnePlace
<1>1. TeardownInv => EveryJobInOnePlace
  BY PlacesCounted DEF TeardownInv
<1>2. QED
  BY <1>1, TeardownInvariant, PTL

\* The text engine, which is single-threaded, shapes for one worker at a time.
THEOREM ShapingIsExclusive == TeardownSpec => []TextShapingExclusive
<1>1. TeardownInv => TextShapingExclusive
  <2> SUFFICES ASSUME TeardownInv PROVE Cardinality(Shaping) <= 1
    BY DEF TextShapingExclusive
  <2>1. \A v, w \in Shaping : v = w
    BY DEF TeardownInv, LockInv, Shaping
  <2>2. Cardinality(Shaping) = IF Shaping = {} THEN 0 ELSE 1
    BY <2>1, AtMostOne
  <2> QED BY <2>2
<1>2. QED
  BY <1>1, TeardownInvariant, PTL

\* When the session is gone every job has finished, no worker runs one and the
\* text engine is free (~TaskExecutor joins its threads).
THEOREM SessionLeavesNothing == TeardownSpec => []NothingOutlivesSession
<1>1. TeardownInv => NothingOutlivesSession
  <2> SUFFICES ASSUME TeardownInv, teardown = "gone"
               PROVE  /\ InFlight = {}
                      /\ \A j \in submitted : Finished(j)
                      /\ text_engine_mutex = NoWorker
    BY DEF NothingOutlivesSession
  <2>1. /\ pending = <<>> /\ dropped = <<>>
        /\ \A w \in Workers : running[w].job = NoJob
    BY DEF TeardownInv, ShutdownInv
  <2>2. InFlight = {}
    BY <2>1 DEF InFlight
  <2>3. \A j \in submitted : Finished(j)
    BY <2>1, EmptyPlaces, PoolAssumption DEF TeardownInv, PlacesInv, Held, TeardownTypeOK
  <2>4. text_engine_mutex = NoWorker
    BY <2>1, PoolAssumption DEF TeardownInv, LockInv, TeardownTypeOK, PoolTypeOK
  <2> QED BY <2>2, <2>3, <2>4
<1>2. QED
  BY <1>1, TeardownInvariant, PTL

\* Once both drains have begun no worker starts a build: what is queued has
\* been asked to stop (drain_workers, make_lod_job, make_frame_job).
THEOREM NoLateBuild == TeardownSpec => NoBuildStartsAfterDrain
<1>1. TeardownInv /\ [TeardownNext]_teardown_vars
        => [teardown \notin {"live", "drain_lod"} => Building' \subseteq Building]_teardown_vars
  <2> SUFFICES ASSUME TeardownInv, TeardownNext, teardown \notin {"live", "drain_lod"}
               PROVE  Building' \subseteq Building
    OBVIOUS
  <2> USE PoolAssumption
  <2>1. CASE UNCHANGED running
    BY <2>1 DEF Building
  <2>2. ASSUME NEW w \in Workers, TakeJob(w) PROVE Building' \subseteq Building
    <3>1. Head(pending) \in Jobs /\ In(Head(pending), pending)
      BY <2>2, TailPlaces DEF TakeJob, TeardownInv, TeardownTypeOK, PoolTypeOK, PlacesInv
    <3>2. Head(pending) \in stop_requested
      BY <3>1 DEF TeardownInv, PlacesInv, StopInv
    <3>3. /\ running'[w].step = "cancelled"
          /\ \A v \in Workers \ {w} : running'[v] = running[v]
      BY <2>2, <3>2 DEF TakeJob, TeardownInv, TeardownTypeOK, PoolTypeOK
    <3> QED BY <3>3 DEF Building
  <2>3. ASSUME NEW w \in Workers, LockTextEngine(w) PROVE Building' \subseteq Building
    <3>1. running[w].job \in Jobs /\ Held(running[w].job)
      BY <2>3 DEF LockTextEngine, TeardownInv, LockInv, Held
    <3>2. running[w].job \in stop_requested
      BY <3>1 DEF TeardownInv, PlacesInv, StopInv
    <3>3. /\ running'[w].step = "cancelled"
          /\ \A v \in Workers \ {w} : running'[v] = running[v]
      BY <2>3, <3>2 DEF LockTextEngine, TeardownInv, TeardownTypeOK, PoolTypeOK
    <3> QED BY <3>3 DEF Building
  <2>4. ASSUME NEW w \in Workers, Publish(w) PROVE Building' \subseteq Building
    BY <2>4 DEF Publish, Building, Idle, TeardownInv, TeardownTypeOK, PoolTypeOK
  <2>5. QED
    BY <2>1, <2>2, <2>3, <2>4 DEF TeardownNext, SubmitTask, SupersedeTask, Reap, DrainLod,
       Destructor, DrainFrames, DestroyTasks, ShutDown, RunCancelled, BeginJoin, Join,
       PoolWorker, WorkerStep, ExitWorker, pool_vars
<1>2. QED
  BY <1>1, TeardownInvariant, PTL DEF TeardownSpec, NoBuildStartsAfterDrain
=============================================================================
