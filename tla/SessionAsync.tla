---------------------------- MODULE SessionAsync ----------------------------
(***************************************************************************)
(* Asynchronous preparation in a WellLogSession (src/session/session.cpp): *)
(* the commands that replace a document, a presentation or a viewport, the *)
(* LOD and frame tasks they start on the worker pool, and poll_async,      *)
(* which takes finished tasks and decides whether their results are still  *)
(* wanted.  One thread, the GUI's, runs commands and polls; the pool's     *)
(* workers run between any two of its steps.                               *)
(*                                                                         *)
(* MaxGeneration stands for the largest std::uint64_t: the code refuses to *)
(* start a task when a generation counter has reached it.  The same guard  *)
(* on state_version, allocation failure on the GUI thread, and events are  *)
(* not part of this module.                                                *)
(***************************************************************************)
EXTENDS SessionSlot, TaskExecutor

CONSTANTS DocumentIds, MaxGeneration

Generations == 0 .. MaxGeneration

LodJob(g) == [kind |-> "lod", generation |-> g]
FrameJob(g) == [kind |-> "frame", generation |-> g]

SessionJobs == [kind : {"lod", "frame"}, generation : 1 .. MaxGeneration]

ASSUME SessionAssumption ==
  /\ MaxGeneration \in Nat \ {0}
  /\ Jobs = SessionJobs

VARIABLES
  slots,                  \* slots[d]: the session's state for document id d
  lod_tasks,              \* outstanding LOD tasks
  frame_tasks,            \* outstanding frame tasks
  next_lod_generation,
  next_frame_generation,
  poll,                   \* the loop poll_async is in, or "idle"
  cursor,                 \* generation of the last task that loop has taken
  accounted,              \* completed + cancelled + discarded task counters
  failures,               \* asynchronous_preparation_failed diagnostics
  failed                  \* documents whose latest preparation ended in one

task_vars == <<lod_tasks, frame_tasks, next_lod_generation, next_frame_generation>>
poll_vars == <<poll, cursor, accounted, failures>>
vars == <<pool_vars, slots, task_vars, poll_vars, failed>>

LodTasks == [document_id : DocumentIds, document : Documents,
             generation : 1 .. MaxGeneration]

FrameTasks == [document_id : DocumentIds, document : Documents,
               presentation : Presentations, pyramids : CurveSets,
               viewport : Viewports, generation : 1 .. MaxGeneration]

SessionTypeOK ==
  /\ slots \in [DocumentIds -> Slots(Generations)]
  /\ lod_tasks \subseteq LodTasks
  /\ frame_tasks \subseteq FrameTasks
  /\ next_lod_generation \in 1 .. MaxGeneration
  /\ next_frame_generation \in 1 .. MaxGeneration

PollTypeOK ==
  /\ poll \in {"idle", "lod", "frames"}
  /\ cursor \in Generations
  /\ accounted \in Nat
  /\ failures \in Nat
  /\ failed \subseteq DocumentIds

TypeOK == PoolTypeOK /\ SessionTypeOK /\ PollTypeOK

Init ==
  /\ PoolInit
  /\ slots = [d \in DocumentIds |-> EmptySlot]
  /\ lod_tasks = {}
  /\ frame_tasks = {}
  /\ next_lod_generation = 1
  /\ next_frame_generation = 1
  /\ poll = "idle"
  /\ cursor = 0
  /\ accounted = 0
  /\ failures = 0
  /\ failed = {}

-----------------------------------------------------------------------------
(***************************************************************************)
(* Tasks.  A LOD task takes the document, a frame task takes everything    *)
(* the scene is built from, at the moment the task is made.                *)
(***************************************************************************)
LodTaskOf(d, s, g) == [document_id |-> d, document |-> s.document, generation |-> g]

FrameTaskOf(d, s, g) ==
  [document_id |-> d, document |-> s.document, presentation |-> s.presentation,
   pyramids |-> s.preparation.pyramids, viewport |-> s.viewport, generation |-> g]

LodJobsOf(d) == {LodJob(t.generation) : t \in {u \in lod_tasks : u.document_id = d}}
\* Mutant: the frames of every document are stopped.
FrameJobsOfAll(d) == {FrameJob(t.generation) : t \in frame_tasks}

FrameJobsOf(d) == {FrameJob(t.generation) : t \in {u \in frame_tasks : u.document_id = d}}

StartLod(d, s) ==
  /\ next_lod_generation < MaxGeneration
  /\ lod_tasks' = lod_tasks \cup {LodTaskOf(d, s, next_lod_generation)}
  /\ next_lod_generation' = next_lod_generation + 1
  /\ Submit(LodJob(next_lod_generation))
  /\ UNCHANGED <<frame_tasks, next_frame_generation>>

\* Mutant: the guard on the generation counter is off by one.
StartFrameExhausted(d, s) ==
  /\ next_frame_generation <= MaxGeneration
  /\ frame_tasks' = frame_tasks \cup {FrameTaskOf(d, s, next_frame_generation)}
  /\ next_frame_generation' = next_frame_generation + 1
  /\ Submit(FrameJob(next_frame_generation))
  /\ UNCHANGED <<lod_tasks, next_lod_generation>>

StartFrame(d, s) ==
  /\ next_frame_generation < MaxGeneration
  /\ frame_tasks' = frame_tasks \cup {FrameTaskOf(d, s, next_frame_generation)}
  /\ next_frame_generation' = next_frame_generation + 1
  /\ Submit(FrameJob(next_frame_generation))
  /\ UNCHANGED <<lod_tasks, next_lod_generation>>

StartNothing == UNCHANGED <<task_vars, pending>>

GuiThreadOnly == UNCHANGED <<shutdown, running, exited, text_engine_mutex>>

Command(d, s, stopped) ==
  /\ poll = "idle"
  /\ slots' = [slots EXCEPT ![d] = s]
  /\ RequestStop(stopped)
  /\ failed' = failed \ {d}
  /\ GuiThreadOnly
  /\ UNCHANGED <<output, poll_vars>>

-----------------------------------------------------------------------------
\* Mutant: the LOD tasks of the replaced document run on.
SetDocumentLodRunsOn(d, doc) ==
  LET s == AfterSetDocument(slots[d], doc, "none", next_lod_generation) IN
  /\ Command(d, s, FrameJobsOf(d))
  /\ IF StartsLod(slots[d], doc, "none") THEN StartLod(d, s) ELSE StartNothing

(***************************************************************************)
(* Every task of the document is asked to stop; none is taken back.        *)
(***************************************************************************)
SetDocument(d, doc) ==
  LET s == AfterSetDocument(slots[d], doc, "none", next_lod_generation) IN
  /\ Command(d, s, LodJobsOf(d) \cup FrameJobsOf(d))
  /\ IF StartsLod(slots[d], doc, "none") THEN StartLod(d, s) ELSE StartNothing

(***************************************************************************)
(* The command fails, and changes nothing, when the document is missing,   *)
(* its preparation is unavailable, or the inline preparation fails.        *)
(***************************************************************************)
SetPresentation(d, p) ==
  LET s == AfterSetPresentation(slots[d], p, next_frame_generation) IN
  /\ slots[d].document # None
  /\ slots[d].preparation.state # "unavailable"
  /\ Command(d, s, FrameJobsOf(d))
  /\ IF SchedulesPresentation(slots[d]) THEN StartFrame(d, s) ELSE StartNothing

(***************************************************************************)
(* PanDepth, ZoomDepthAt and ResetViewport compute a window and come here. *)
(* Older frame tasks are stopped only when a newer one takes over.         *)
(***************************************************************************)
SetViewportMetrics(d, v) ==
  LET s == AfterSetViewportMetrics(slots[d], v, next_frame_generation) IN
  /\ slots[d].document # None
  /\ slots[d].viewport # None
  /\ IF SchedulesViewport(slots[d])
     THEN Command(d, s, FrameJobsOf(d)) /\ StartFrame(d, s)
     ELSE /\ poll = "idle"
          /\ slots' = [slots EXCEPT ![d] = s]
          /\ StartNothing
          /\ GuiThreadOnly
          /\ UNCHANGED <<stop_requested, output, poll_vars, failed>>

(***************************************************************************)
(* execute(ApplyPatchCommand) once its edits have been validated: commit   *)
(* the patched document, set the patched presentation, put the window      *)
(* back.  The frame the SetPresentationCommand starts is the one for the   *)
(* full range.  A large document is refused when no LOD generation is      *)
(* left, even if it would reuse the LOD it has.                            *)
(***************************************************************************)
ApplyPatch(d, i, r, p) ==
  LET before == slots[d]
      doc    == PatchedDocument(before.document, i, r)
      hint   == StagedHint(before, "unchanged_document")
      s1     == AfterSetDocument(before, doc, hint, next_lod_generation)
      s2     == IF before.presentation = None THEN s1
                ELSE AfterSetPresentation(s1, p, next_frame_generation)
  IN
  /\ before.document # None
  /\ doc.revision \in Revisions
  /\ Asynchronous(doc) => next_lod_generation < MaxGeneration
  /\ Command(d, AfterRestoreViewport(s2, before.viewport),
             LodJobsOf(d) \cup FrameJobsOf(d))
  /\ IF StartsLod(before, doc, hint) THEN StartLod(d, s1)
     ELSE IF before.presentation # None /\ SchedulesPresentation(s1)
     THEN StartFrame(d, s2)
     ELSE StartNothing

(***************************************************************************)
(* commit_append_batch once its blocks have been validated: the document   *)
(* grows by a tail, never back below the threshold, and presentation and   *)
(* window survive, the window moved when it follows the latest sample.     *)
(***************************************************************************)
AppendBatch(d, r, revision, v) ==
  LET before == slots[d]
      doc    == AppendedDocument(before.document, r, revision)
      hint   == StagedHint(before, "append_tail")
      s1     == AfterSetDocument(before, doc, hint, next_lod_generation)
  IN
  /\ before.document # None
  /\ revision > before.document.revision
  /\ Asynchronous(before.document) => Asynchronous(doc)
  /\ r # before.document.curves
  /\ Command(d, AfterAppendRestore(s1, before, v),
             LodJobsOf(d) \cup FrameJobsOf(d))
  /\ IF StartsLod(before, doc, hint) THEN StartLod(d, s1) ELSE StartNothing

(***************************************************************************)
(* Commands that put back an earlier document with its presentation: undo  *)
(* and redo, and the rollback of an undo, a redo or a patch whose          *)
(* presentation could not be prepared.  Which document and presentation,   *)
(* and when, is the business of DocumentHistory.                           *)
(***************************************************************************)
Restores(d, doc, s) ==
  /\ slots[d].document # None
  /\ Command(d, s, LodJobsOf(d) \cup FrameJobsOf(d))
  /\ IF Asynchronous(doc) THEN StartLod(d, s) ELSE StartNothing

UndoOrRedo(d, doc, p) ==
  LET entry == [document |-> doc, presentation |-> p] IN
  Restores(d, doc, AfterHistory(slots[d], entry, next_lod_generation))

RollBack(d, doc, p) ==
  LET entry == [document |-> doc, presentation |-> p] IN
  Restores(d, doc, AfterRestore(slots[d], entry, next_lod_generation))

-----------------------------------------------------------------------------
(***************************************************************************)
(* poll_async walks lod_tasks and then frame_tasks in the order they were  *)
(* made and takes every task it finds finished; try_lock makes it pass     *)
(* over a task that is just publishing, and one that finishes after it was *)
(* looked at waits for the next poll.                                      *)
(***************************************************************************)
BeginPoll ==
  /\ poll = "idle"
  /\ poll' = "lod"
  /\ cursor' = 0
  /\ UNCHANGED <<pool_vars, slots, task_vars, accounted, failures, failed>>

FinishedLod ==
  {t \in lod_tasks : t.generation > cursor /\ Finished(LodJob(t.generation))}

FinishedFrames ==
  {t \in frame_tasks : t.generation > cursor /\ Finished(FrameJob(t.generation))}

Oldest(t, outstanding) ==
  t \in outstanding /\ \A u \in outstanding : t.generation <= u.generation

\* Mutant: a LOD result is recognised by its revision alone.
LodIsCurrentByRevision(t) ==
  LET prep == slots[t.document_id].preparation IN
  prep.state # "none" /\ prep.revision = t.document.revision

(***************************************************************************)
(* A LOD result is current when the document's preparation is the very one *)
(* the task was started for.                                               *)
(***************************************************************************)
LodIsCurrent(t) ==
  LET prep == slots[t.document_id].preparation IN
  /\ prep.state # "none"
  /\ prep.revision = t.document.revision
  /\ prep.generation = t.generation

WithPreparation(s, state, pyramids) ==
  [s EXCEPT !.preparation.state = state, !.preparation.pyramids = pyramids]

TakeLod(t) ==
  /\ poll = "lod"
  /\ Oldest(t, FinishedLod)
  /\ cursor' = t.generation
  /\ lod_tasks' = lod_tasks \ {t}
  /\ Forget(LodJob(t.generation))
  /\ GuiThreadOnly
  /\ UNCHANGED <<poll, next_lod_generation>>

LodDiscarded(t) ==
  /\ TakeLod(t)
  /\ output[LodJob(t.generation)] = "cancelled" \/ ~LodIsCurrent(t)
  /\ stop_requested' = stop_requested \ {LodJob(t.generation)}
  /\ accounted' = accounted + 1
  /\ UNCHANGED <<pending, slots, frame_tasks, next_frame_generation, failures,
                 failed>>

\* Mutant: a failed LOD leaves its preparation pending.
LodFailsQuietly(t) ==
  /\ TakeLod(t)
  /\ output[LodJob(t.generation)] = "error"
  /\ LodIsCurrent(t)
  /\ stop_requested' = stop_requested \ {LodJob(t.generation)}
  /\ failures' = failures + 1
  /\ failed' = failed \cup {t.document_id}
  /\ UNCHANGED <<pending, slots, frame_tasks, next_frame_generation, accounted>>

LodFails(t) ==
  /\ TakeLod(t)
  /\ output[LodJob(t.generation)] = "error"
  /\ LodIsCurrent(t)
  /\ slots' = [slots EXCEPT ![t.document_id] =
                 WithPreparation(@, "unavailable", @.preparation.pyramids)]
  /\ stop_requested' = stop_requested \ {LodJob(t.generation)}
  /\ failures' = failures + 1
  /\ failed' = failed \cup {t.document_id}
  /\ UNCHANGED <<pending, frame_tasks, next_frame_generation, accounted>>

(***************************************************************************)
(* The LOD is in place; if there is something to show, its frame is        *)
(* started for the window of this moment and older frames are stopped.     *)
(***************************************************************************)
LodReady(t) ==
  LET d == t.document_id
      s == WithPreparation(slots[d], "ready", t.document.curves)
      shows == s.presentation # None /\ s.viewport # None
      others == stop_requested \ {LodJob(t.generation)}
  IN
  /\ TakeLod(t)
  /\ output[LodJob(t.generation)] = "ok"
  /\ LodIsCurrent(t)
  /\ accounted' = accounted + 1
  /\ \/ /\ ~shows
        /\ slots' = [slots EXCEPT ![d] = s]
        /\ stop_requested' = others
        /\ UNCHANGED <<pending, frame_tasks, next_frame_generation, failures,
                       failed>>
     \/ /\ shows
        /\ next_frame_generation < MaxGeneration
        /\ slots' = [slots EXCEPT ![d] =
                       [s EXCEPT !.frame_generation = next_frame_generation]]
        /\ stop_requested' = others \cup FrameJobsOf(d)
        /\ frame_tasks' = frame_tasks \cup {FrameTaskOf(d, s, next_frame_generation)}
        /\ next_frame_generation' = next_frame_generation + 1
        /\ Submit(FrameJob(next_frame_generation))
        /\ UNCHANGED <<failures, failed>>
     \/ /\ shows
        /\ next_frame_generation = MaxGeneration
        /\ slots' = [slots EXCEPT ![d] =
                       WithPreparation(slots[d], "unavailable", t.document.curves)]
        /\ failures' = failures + 1
        /\ failed' = failed \cup {d}
        /\ stop_requested' = others
        /\ UNCHANGED <<pending, frame_tasks, next_frame_generation>>

EndLodLoop ==
  /\ poll = "lod"
  /\ FinishedLod = {}
  /\ poll' = "frames"
  /\ cursor' = 0
  /\ UNCHANGED <<pool_vars, slots, task_vars, accounted, failures, failed>>

\* Mutant: a frame is recognised by the revision of its document alone.
FrameIsCurrentByRevision(t) ==
  LET s == slots[t.document_id] IN
  s.document # None /\ s.document.revision = t.document.revision

(***************************************************************************)
(* A frame is current when it is the latest one the document asked for and *)
(* the document still has the revision it was built from.                  *)
(***************************************************************************)
FrameIsCurrent(t) ==
  LET s == slots[t.document_id] IN
  /\ s.frame_generation = t.generation
  /\ s.document # None
  /\ s.document.revision = t.document.revision

SceneOf(t) == [document |-> t.document, presentation |-> t.presentation,
               pyramids |-> t.pyramids, viewport |-> t.viewport]

TakeFrame(t) ==
  /\ poll = "frames"
  /\ Oldest(t, FinishedFrames)
  /\ cursor' = t.generation
  /\ frame_tasks' = frame_tasks \ {t}
  /\ Forget(FrameJob(t.generation))
  /\ stop_requested' = stop_requested \ {FrameJob(t.generation)}
  /\ GuiThreadOnly
  /\ UNCHANGED <<pending, poll, lod_tasks, next_lod_generation,
                 next_frame_generation>>

\* Mutant: a discarded frame is not counted.
FrameDiscardedUncounted(t) ==
  /\ TakeFrame(t)
  /\ output[FrameJob(t.generation)] = "cancelled" \/ ~FrameIsCurrent(t)
  /\ UNCHANGED <<accounted, slots, failures, failed>>

FrameDiscarded(t) ==
  /\ TakeFrame(t)
  /\ output[FrameJob(t.generation)] = "cancelled" \/ ~FrameIsCurrent(t)
  /\ accounted' = accounted + 1
  /\ UNCHANGED <<slots, failures, failed>>

\* Mutant: a document whose frame failed still waits for it.
FrameFailsStillWaits(t) ==
  /\ TakeFrame(t)
  /\ output[FrameJob(t.generation)] = "error"
  /\ FrameIsCurrent(t)
  /\ failures' = failures + 1
  /\ failed' = failed \cup {t.document_id}
  /\ UNCHANGED <<slots, accounted>>

FrameFails(t) ==
  /\ TakeFrame(t)
  /\ output[FrameJob(t.generation)] = "error"
  /\ FrameIsCurrent(t)
  /\ slots' = [slots EXCEPT ![t.document_id].frame_generation = 0]
  /\ failures' = failures + 1
  /\ failed' = failed \cup {t.document_id}
  /\ UNCHANGED accounted

FrameReady(t) ==
  /\ TakeFrame(t)
  /\ output[FrameJob(t.generation)] = "ok"
  /\ FrameIsCurrent(t)
  /\ slots' = [slots EXCEPT ![t.document_id] =
                 [@ EXCEPT !.scene = SceneOf(t), !.frame_generation = 0]]
  /\ accounted' = accounted + 1
  /\ failed' = failed \ {t.document_id}
  /\ UNCHANGED failures

EndPoll ==
  /\ poll = "frames"
  /\ FinishedFrames = {}
  /\ poll' = "idle"
  /\ cursor' = 0
  /\ UNCHANGED <<pool_vars, slots, task_vars, accounted, failures, failed>>

PollLod == \E t \in lod_tasks : LodDiscarded(t) \/ LodFails(t) \/ LodReady(t)
PollFrame == \E t \in frame_tasks : FrameDiscarded(t) \/ FrameFails(t) \/ FrameReady(t)

PollStep == BeginPoll \/ PollLod \/ EndLodLoop \/ PollFrame \/ EndPoll

Worker(w) == WorkerStep(w) /\ UNCHANGED <<slots, task_vars, poll_vars, failed>>

HostCommand ==
  \E d \in DocumentIds :
    \/ \E doc \in Documents : SetDocument(d, doc)
    \/ \E p \in Presentations : SetPresentation(d, p)
    \/ \E v \in Viewports : SetViewportMetrics(d, v)
    \/ \E i \in Interpretations, r \in CurveSets, p \in Presentations :
         ApplyPatch(d, i, r, p)
    \/ \E r \in CurveSets, revision \in Revisions, v \in Viewports :
         AppendBatch(d, r, revision, v)
    \/ \E doc \in Documents, p \in Presentations \cup {None} :
         UndoOrRedo(d, doc, p)
    \/ \E doc \in Documents, p \in Presentations : RollBack(d, doc, p)

Next == HostCommand \/ PollStep \/ \E w \in Workers : Worker(w)

(***************************************************************************)
(* The host calls poll_async again and again (paintGL does, and asks for   *)
(* another paint while work is outstanding), a poll once begun goes on,    *)
(* and the pool threads are scheduled.  Commands come as the host pleases. *)
(***************************************************************************)
Fairness == WF_vars(PollStep) /\ \A w \in Workers : WF_vars(Worker(w))

Spec == Init /\ [][Next]_vars /\ Fairness
-----------------------------------------------------------------------------
(***************************************************************************)
(* The scene a document shows was built from that very document, and from  *)
(* LOD of that very document.  Results are tagged with a generation and a  *)
(* revision number only: a replacement may carry a revision that was used  *)
(* before, and tasks of the old document finish whenever they like.        *)
(***************************************************************************)
SceneOfCurrentDocument ==
  \A d \in DocumentIds :
    LET s == slots[d] IN
    s.scene # None =>
      /\ s.scene.document = s.document
      /\ s.scene.pyramids = PyramidsFor(s.document)

(***************************************************************************)
(* A document that waits for a frame waits for a task that exists, that    *)
(* nobody asked to stop, and that builds what the document is to show; a   *)
(* pending preparation likewise.  Otherwise it would wait for ever.        *)
(***************************************************************************)
WaitsForLiveTask ==
  \A d \in DocumentIds :
    LET s == slots[d] IN
    /\ s.frame_generation # 0 =>
         \E t \in frame_tasks :
           /\ t.document_id = d
           /\ t.generation = s.frame_generation
           /\ FrameJob(t.generation) \notin stop_requested
           /\ t.document = s.document
           /\ t.presentation = s.presentation
    /\ s.preparation.state = "pending" =>
         \E t \in lod_tasks :
           /\ t.document_id = d
           /\ t.generation = s.preparation.generation
           /\ LodJob(t.generation) \notin stop_requested
           /\ t.document = s.document

(***************************************************************************)
(* A task whose result will be thrown away has been asked to stop: the two *)
(* workers never build a superseded document or frame to the end unasked.  *)
(***************************************************************************)
SupersededTasksAreStopped ==
  /\ \A t \in frame_tasks :
       slots[t.document_id].frame_generation # t.generation =>
         FrameJob(t.generation) \in stop_requested
  /\ \A t \in lod_tasks :
       ~LodIsCurrent(t) => LodJob(t.generation) \in stop_requested

(***************************************************************************)
(* When a large document is at rest - its LOD is ready, it has something   *)
(* to show and no frame is under way - it shows that, for the window of    *)
(* now or for the full range, or the failure has been reported.            *)
(***************************************************************************)
SettledDocumentIsShown ==
  \A d \in DocumentIds :
    LET s == slots[d] IN
    ( /\ s.preparation.state = "ready"
      /\ s.presentation # None
      /\ s.viewport # None
      /\ s.frame_generation = 0
      /\ d \notin failed ) =>
        /\ s.scene # None
        /\ s.scene.document = s.document
        /\ s.scene.presentation = s.presentation
        /\ s.scene.viewport \in {s.viewport, FullRange}

(***************************************************************************)
(* Every task ever made is outstanding, or counted in exactly one of the   *)
(* completed, cancelled and discarded counters, or was reported as failed. *)
(***************************************************************************)
Created == (next_lod_generation - 1) + (next_frame_generation - 1)
Outstanding == Cardinality(lod_tasks) + Cardinality(frame_tasks)

EveryTaskAccounted ==
  /\ accounted + Outstanding <= Created
  /\ Created <= accounted + Outstanding + failures

(***************************************************************************)
(* The session keeps the promise of FrameDelivery.                         *)
(***************************************************************************)
Delivery == INSTANCE FrameDelivery WITH
  document <- [d \in DocumentIds |-> slots[d].document],
  presentation <- [d \in DocumentIds |-> slots[d].presentation],
  viewport <- [d \in DocumentIds |-> slots[d].viewport],
  shown <- [d \in DocumentIds |-> slots[d].scene],
  PyramidsOf <- PyramidsFor

DeliveryPromise == Delivery!Spec

(***************************************************************************)
(* Whatever the host does meanwhile, a frame that was asked for arrives,   *)
(* fails or is superseded, and a LOD that was asked for likewise.          *)
(***************************************************************************)
FramesSettle ==
  \A d \in DocumentIds, g \in 1 .. MaxGeneration :
    slots[d].frame_generation = g ~> slots[d].frame_generation # g

PreparationsSettle ==
  \A d \in DocumentIds, g \in 1 .. MaxGeneration :
    LET waits == slots[d].preparation.state = "pending"
                 /\ slots[d].preparation.generation = g
    IN waits ~> ~waits

-----------------------------------------------------------------------------
(***************************************************************************)
(* The strengthening that is inductive (SessionTasks_proofs): every slot   *)
(* is sound, generations are used once, and a task that a document's       *)
(* generations name builds what that document needs.                       *)
(***************************************************************************)
FreshGenerations ==
  /\ \A t \in lod_tasks : t.generation < next_lod_generation
  /\ \A t \in frame_tasks : t.generation < next_frame_generation
  /\ \A t, u \in lod_tasks : t.generation = u.generation => t = u

(***************************************************************************)
(* A LOD task with the generation of its document's preparation is the one *)
(* that preparation waits for; a frame task with the generation its        *)
(* document waits for builds what the document is to show.                 *)
(***************************************************************************)
CurrentLod ==
  \A t \in lod_tasks :
    LET s == slots[t.document_id] IN
    s.preparation.state # "none" /\ s.preparation.generation = t.generation =>
      /\ s.preparation.state = "pending"
      /\ t.document = s.document

CurrentFrame ==
  \A t \in frame_tasks :
    LET s == slots[t.document_id] IN
    s.frame_generation = t.generation =>
      /\ t.document = s.document
      /\ t.presentation = s.presentation
      /\ t.pyramids = s.document.curves
      /\ t.viewport \in {s.viewport, FullRange}

IInv ==
  /\ SessionTypeOK
  /\ \A d \in DocumentIds : SlotOK(slots[d])
  /\ FreshGenerations
  /\ CurrentLod
  /\ CurrentFrame
=============================================================================
