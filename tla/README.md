# A verification project for the well-log engine

This directory holds TLA+ modules that model the core of the well-log engine,
TLC configurations that check them on small instances, and theorems about them
that TLAPS checks for every value of the constants. The modules are written
from the source; `PROJECT.json` (`map`) names the lines every definition stands
for. Paths below are those of the repository.

```
tlc -workers 2 -config MCSessionAsync.cfg MCSessionAsync     # one run
tlapm SessionTasks_proofs.tla                                # one module of proofs
```

## 1. The system

The engine is a C++20 library that displays and edits well logs. A host hands
it immutable documents (curves on sampling axes, intervals, markers, symbols,
images, QC masks) and presentations (tracks, scales, layers); it prepares
level-of-detail pyramids and scenes on worker threads, a view draws the scene of
the moment, and exporters write scenes and tables to files. Everything is
coordinated by `WellLogSession` (`src/session/session.cpp`), which one thread,
the GUI's, calls.

| component | state | operations | how it interacts | modelled |
|---|---|---|---|---|
| worker pool (`TaskExecutor`) and task lifetime | queue of jobs, two threads, a shutdown flag; `lod_tasks`, `frame_tasks`, their stop sources | `submit`, `worker_loop`, `drain_workers`, destructors | runs LOD and frame jobs; results pass through `LodTaskState` and `FrameTaskState` | yes |
| text engine | one engine, one mutex | `set_text_engine`, shaping inside frame jobs | shared by all frame jobs | its mutex |
| session: preparation | per document: document, presentation, viewport, preparation (LOD), awaited frame generation, scene; two generation counters | `execute(SetDocument / SetPresentation / SetViewportMetrics ...)`, `poll_async` | commands start and stop jobs; `poll_async` installs or discards their results | without events |
| session: history and selection | undo and redo stacks of semantic states, the selection | `execute(ApplyPatch)`, `execute(AppendBatch)`, `undo`, `redo`, selection commands | re-enter `execute(SetDocument)` with staged restores and LOD reuse hints | without observers |
| session: streaming append | per document: staged blocks, time of the last flush | `execute(AppendBatch)`, `flush_append_coalesce`, the flush in `poll_async` | merges batches and commits them through the append path | without buffers |
| session: surface of several wells | layout, shared and per-well windows, depth transforms, overlays, focus, crosshair, cached scene | `SetWellLayout`, `SetSharedDepthViewport`, `AlignWellsToMarkers`, ... | one inner command per well | yes |
| track and template commands | none | functions from a presentation to a patch | the host executes the patch | yes |
| depth transforms, scene preparation | none (pure functions) | `ScenePreparer::preflight`, `prepare`, picking | run in jobs or inline | without text layout |
| level of detail | none (pure, cancellable) | `CurveLodPyramid::build`, `extend_tail`, `select` | run in jobs; extended after appends | without images |
| table projection, Qt table model | row spans, a mirrored selection | projections of a document, row selection, copy | selection events by queued calls | yes |
| Qt view | repaint requests, timer, surface scene | `paintGL`, context changes, session events | pushes scenes to the renderer | its paint logic |
| OpenGL renderer | two curve buffers, a primitive buffer, atlases, image tiles | `queue_upload`, `upload_next`, `render` | draws scenes | without shaders |
| vector export (SVG, PDF, CGM) | a stream being written | pages, operators, metafile commands | reads a prepared scene | without formatting |
| raster export | jobs with a worker, events, temporary files | `start`, `poll`, `cancel`, tiles, rename | reads a prepared scene | yes |
| table export (CSV, XLSX, XML) | files being written | projection, sheets, zip, manifest | reads a document | yes |
| observability | ring of diagnostics, counters, one mutex | `record`, `snapshot` | called from GUI and workers | no |
| core data model | immutable values | builders, validation, binding index | read by everything | no |
| readers (LAS, DLIS, LIS, 716, manifest) | none | parse with limits | make documents | no |
| Arrow and Python bridges, desktop application | none of their own | buffer adapters, a Python client | use the public interface | no |

### What is hard in it

* **Late results.** Jobs run while commands replace what they were built from.
  Revisions do not tell documents apart: a host may load another document of
  the same revision, and undo brings old revisions back. Generations do, if every
  command keeps them right.
* **Composite commands.** A patch, an append, an undo and their rollbacks all
  re-enter `execute(SetDocument)` and `execute(SetPresentation)`, pass state to
  them through maps and put state back afterwards. The commands of the surface
  run one inner command per well and may fail half-way.
* **Shutdown.** The drains have a deadline, the pool's destructor runs queued
  jobs itself with a stop request, and a worker may be inside a build throughout.
* **Streaming.** Blocks are acknowledged when staged and committed later, merged
  with others, by whichever of three paths comes first; the document may change
  in between.
* **Uploads.** A scene is uploaded chunk by chunk over several paints; any GL
  call may fail, the context may go, a newer scene may come, and nothing but the
  widget's own repaint requests keeps an upload going.
* **Two of everything.** Samples are selected by a pyramid or one by one, scenes
  are culled by depth and placed by height, pages are written by two exporters,
  images are cut into tiles: each pair has to agree.
* **Files.** Several jobs and processes write beside the same target and may die
  between any two steps; formats have lengths and offsets that are written before
  or after what they measure.
* **Limits.** Generations and revisions are 64-bit counters with guards; LOD,
  uploads and image textures have byte budgets; metafile coordinates have 16 bits.

`PROJECT.json` (`hazards`) lists these line by line with the properties that
cover them, and the three that no property covers.

### What makes each component correct

* pool and teardown: no job lost, run twice or started after the drains begin;
  the text engine used by one job at a time; destruction ends and leaves nothing
  that refers to the session.
* preparation: a scene shown is one of the current document; an awaited result is
  under way; superseded work is stopped; every wait ends; what is finally shown
  is what the last command asked for.
* history: undo and redo walk a timeline and restore exactly; selections name
  rows of the document they stand beside; the inverse of a patch leads back.
* append: a batch applies as a whole or not at all; axes stay ordered; the
  refresh rate is kept.
* surface: wells move together; the cached scene is that of its parts.
* preparation and LOD: what is drawn shows the samples, no more and no less; what
  preflight accepts is refused later for two reasons only.
* view: what counts as uploaded is on the GPU as a whole; budgets are kept; a
  waiting upload ends.
* exporters: every row on some page; each mark in its own paint; a file reads back
  as what was written; a target is the old file or a whole new one.

## 2. The modules

| module | models |
|---|---|
| `TaskExecutor` | the pool: `pending`, `running`, `output`, the stop set, the text engine's mutex. One action per step of a job that another thread can see: taken, mutex locked, built, published; the shutdown of a worker. |
| `SessionTeardown` | a session that submits and supersedes tasks and is destroyed at any moment: `drain_workers` over each vector with its deadline, destruction of task records, `~TaskExecutor` (move the queue out, run it cancelled, join). |
| `SessionSlot` | what one document id has in the session's maps, as a record, and what each command makes of it (`AfterSetDocument`, `AfterSetPresentation`, ...). No variables; shared by the next two and by `WellSurface`. |
| `SessionAsync` | slots, LOD and frame tasks, the generation counters and `poll_async`'s two loops, composed with `TaskExecutor`: commands on the GUI thread, workers in between any two of its steps. |
| `FrameDelivery` | the abstract promise to whoever draws: a scene shown is one of the current document and presentation. `SessionAsync` implements it (`DeliveryPromise`). |
| `DocumentHistory` | patches, appends, undo, redo, their rollbacks, loads, presentations, selections; background work taken whole. |
| `UndoTimeline` | the abstract promise to whoever edits: past, present, future. `DocumentHistory` implements it (`TimelinePromise`). |
| `AppendStream` | one document's append stream: validation of a batch block by block, the coalescer, the three flush paths, and the commands that change the document or the refresh rate in between. |
| `WellSurface` | the commands over several wells, each an operator on the session's maps with its outcome in `ok`: layout, shared and per-well windows, pan and zoom, focus, marker alignment and transforms, overlays, crosshair and pins; the composed scene and its cache. |
| `PatchEdits` | `validate_document`, `preflight` and the application of a `DocumentPatch` edit by edit, the inverse it records, undo, and every track, scale, layer and template command as the patch it makes. |
| `WellLogView`, `GlRenderer` | `paintGL` with its upload and repaint logic, session events, context changes; below it the renderer as a record and its calls (`queue_upload`, `upload_next`, `render`, eviction) as operators that yield the set of renderers they may leave behind. |
| `TableSelection` | table models over the axes of a document, each declared rising or falling and with depths that may repeat: mirrored selection, queued refreshes, row selection, projection changes, copies; the session's selection commands and remap. |
| `CurveLod` | the pyramid of a curve: `build` under a budget, `extend_tail`, reuse, `select` in a viewport, and the task that chooses among them. |
| `ScenePreparation` | preflight and preparation layer by layer with its stop, segments, crossover fills, intervals, markers, symbols, images, windows and culling, and the pick index. |
| `PageExport` | page windows, culling and emission order of the SVG and PDF exporters, against one page model. |
| `PdfStream` | the PDF exporter as a writer of operators and objects, and `Seen`, how a viewer reads them. |
| `CgmPictures` | CGM pictures: windows, units, polylines cut into commands, hatches, labels and the binary encoding, with a reader. |
| `RasterTiles` | tiles, culling and compositing, the rows of a PNG and the strips of a TIFF, each read back. |
| `RasterExport` | export jobs of several processes on the files they share: worker steps, events, polling, cancelling, joining, death of a process. |
| `AtomicTargets` | the abstract promise to whoever reads a target: no file, the old one or the whole file of one writer, each put in place in one step. `RasterExport` implements it (`TargetsReplacedAtomically`). |
| `TableFiles` | projections and their slices, CSV packages with a manifest, workbook sheets, XML rows, the zip writer. |
| `*_proofs` | theorems about the module named; `SessionTasks_proofs` is about `SessionAsync` and `SessionTeardown`, `QtWidgets_proofs` about `TableSelection` and `WellLogView`, `Exports_proofs` about `RasterExport` and `PageExport`. `Loops_proofs` has two lemmas about loops that both `QtWidgets_proofs` and `WellSurface_proofs` use. |
| `MC*` | instances for TLC. `MCInteractive` and `MCExports` put the instances of several components side by side. |

How the models relate to the code:

* A document is a record of a revision, a *curve set* (what LOD is built from)
  and an *interpretation* (the rest); `AppendStream` has axis ends and tails
  instead, `PatchEdits` its entities, `TableFiles` its axes and samples. Two equal
  records are the same document, so the identity of a `shared_ptr` is not
  modelled, except where the code caches by address (`WellSurface`).
* A scene is the record of what it was built from; in the exporters it is a small
  set of items with heights in whole millimetres.
* The GUI thread's commands are atomic, since workers and commands share only
  task states and the text engine; the two loops of `poll_async` take one
  task at a time, so that workers finish tasks in the middle of them.
* A generation counter runs to `MaxGeneration`, where the code has the largest
  64-bit number; the guards that refuse to pass it are modelled, so the bound
  is part of the behaviour and not a cut. The bounds on commands, events, starts
  and exports (`MaxCommands`, `MaxEvents`, `MaxChanges`, `MaxStarts`, `MaxCalls`,
  `MaxExports`, `MaxRevision`, `MaxHistory`) are cuts, in the guards.
* Geometry in floating point is modelled in integers, on instances whose
  quotients are exact; what is rounded in the code is rounded in the model
  (`RasterTiles`, `CgmPictures`).
* `LengthsMatch` in `AppendStream` compares numbers of tails, since a tail that
  passes the checks before it has as many values as coordinates and at least one.
* What a file looks like is decided by its reader. `PdfStream`, `CgmPictures`,
  `RasterTiles` and `TableFiles` each have one, written from the format and from
  the readers in the repository's tests; it is marked external in `map` where it
  is not this code.
* Allocation failures on the GUI thread, `state_version` and observers are left
  out.

Auxiliary variables and fields, which no action reads except to maintain them:
`failures`, `failed` and `accounted` in `SessionAsync`; `replaced` in
`DocumentHistory`; `refreshes`, `told` and the `command` and `target` of a block in
`AppendStream`; `strayed` and `aligned` in `WellSurface`. Six more are history: they record
what went before in the few cases in which the code does not keep what it otherwise
does, so that a property can say what is kept in every behaviour and what is not in those.
`passed` (`AppendStream`) has the pairs of commands of which the younger was committed
while the older was staged; `recycled` and `remapped` (`WellSurface`) the wells that have had
a new scene at a freed scene's address, or a transform, since the cached surface was
composed; `torn` (`GlRenderer`) says that an upload failed between its two atlases; `left`
(`TableSelection`) has the rows a mirror dropped by an attachment has left drawn;
`contended` (`RasterExport`) the temporary files two jobs of one process have had at one
time.

### Composition

`SessionAsync` runs its tasks on `TaskExecutor` and both it, `DocumentHistory` and
`WellSurface` share the slot operators. `WellLogView` calls `GlRenderer`.
`MCInteractive` and `MCExports` each hold several instances: a variable `subject`
says which component a behaviour belongs to, and the variables of the others rest.
The components in them do not interact within one behaviour; the composite is a
way to check many of them in one run, with the sum of their state spaces. Most are
named `INSTANCE`s, whose variables rest at `None` and whose property reads
`subject = "x" => ...`. Those a composite `EXTENDS` (`WellSurface`, `TableSelection`
and `WellLogView` in `MCInteractive`, `RasterExport` in `MCExports`) rest in an initial
state, where their properties hold too; they are checked as the component defines
them, and the theorems state the same definitions.

## 3. The runs

The runs of the session have two workers, which is what the code starts.

| run | instance and bounds | shows |
|---|---|---|
| `teardown` | one LOD job, two frame jobs that shape text | both workers want the text engine, one more job is queued when destruction begins: job conservation, mutual exclusion, no start after the drains, termination |
| `async` | one document id; a small and two large curve sets, two revisions, two viewports; two tasks of each kind before the counter is exhausted | current scenes, live waits, stopped tasks, settled documents, task accounting, and the refinement of `FrameDelivery` |
| `two_documents` | two ids, one large curve set, two presentations | the inductive invariant of the proofs, and that tasks of one id do not disturb the other |
| `live` | one id, a small and a large curve set | every awaited frame and LOD is answered or superseded |
| `history` | three revisions, a small and a large curve set, at most two entries | the chain, selection tags, the inductive invariant, and the refinement of `UndoTimeline` |
| `append` | two curves on axes of their own, two depths, five batches (one tail, two in order, two out of order, both curves, an unsound one), four revisions, four commands; the refresh rate is 0 or 10, and the host sets it and sets it back | whole batches, ordered axes, the refresh rate, staged blocks polled and flushed |
| `interactive` | the six instances below | what a host edits and sees |
| `exports` | the six instances below | what the writers write, and the refinement of `AtomicTargets` |
| `history_masks`, `fill_gaps`, `zip_directory`, `svg_window` | the instances of `history`, `ScenePreparation`, `TableFiles`, `PageExport` | the disagreements of section 6 |

| instance in `interactive` | bounds |
|---|---|
| `WellSurface` | two wells, one with a small document and one with a large; five commands from an empty session, or three from one with both wells laid out and an overlay between them (`SurfaceLaidOut`); one well has documents of two revisions. A new scene may get the address of a freed one |
| `MCPatchEdits` | three curves (one derived), a QC mask and a mark, two tracks; patches of at most two edits; three commands. A document may have a mask with a raw curve's id, and an upsert, a new track or a new layer may have the id of an entity of any kind (`MCOffered`, `ChosenIds`) |
| `WellLogView` | three scenes, a cache of four edges, two a frame, two tile bytes; any GL call of an upload may fail (`Failing`: drop, allocate, chunk, retire, primitives, pattern, glyph); five events |
| `TableSelection` | one model; three documents of a rising and a falling axis, one of which has a depth twice; three depth ranges; three changes; the host attaches the model at any time, again too |
| `MCCurveLod` | curves of four and of nine samples, with gaps, of base 2; budgets of 0, 18 and 60 bytes; three commands |
| `MCScenePreparation` | two tracks with every kind of layer, windows that are inverted, stretched and below a datum; flawed requests with one fault each, those that preflight does not look at included; windows with and against the transform |

| instance in `exports` | bounds |
|---|---|
| `MCPageExport` | scenes of 10 and 16 rows, at most four windows, overlaps of 0 and 50 percent, scales 1 and 2 |
| `MCPdfStream` | 13 kinds of items, two tracks, two pages, two items each |
| `MCCgmPictures` | scenes of 40, 290 and 800 mm, at most six windows, ten points to a command |
| `MCRasterTiles` | a page of six rows in tiles of 1, 2 and 4; symbols of 1 to 4 pixels; custom crosses of 1, 2, 5, 9 and 24, up to four times the page; a PNG of 4 × 2, a TIFF of 3 × 3 |
| `RasterExport` | two jobs of one process and one of another on one path, two tiles; two of them start, and one call is made of poll, cancel, destruction or crash. The jobs of a process may run on the path at one time. `j1` is the first to start and one job at most fails for a cause of its own (`InTurn`, a cut) |
| `MCTableFiles` | two axes of 0 to 5 rows, up to three curves, one of them of an axis that is not there; sheets of four rows, two of them headers; three exports over one directory; the null token is a word, a column's name or the number of a sample |

Why the bounds are enough: a stale result needs one current and one superseded
task of a kind, which two generations give, and a counter at its limit is the
third; a stale LOD needs two large curve sets of one revision; a history needs
an undo followed by an edit, which two entries and three revisions give; the
append stream needs a first flush, a staged batch and one merged with it or a
replacement in between, three commands, and has four. Wells drift apart when one
is moved between two broadcasts, three commands after a layout of two. Two patches
and an undo, or a patch that undoes the first edit of another, need three
commands. An upload is superseded, fails and is queued again with three scenes and
a cache that holds little more than one. A pyramid of nine samples has three
levels, one of which a small budget drops. Four windows overlap in pairs, and
some item lies in each of first, inner and last page. Ten points cut a polyline of
the instance twice. A tile of one row is all edge.

Symmetry is used for workers, for the large curve sets and for document ids, which
the specifications treat alike, and never in a run with liveness of its own.
Deadlock is checked in `async`, `two_documents`, `live`, `history` and `append`. A
destroyed session stops, a component in `interactive` stops when its commands are
used up, and an export when its files are written.

### Fairness

`SessionTeardown` and `SessionAsync` assume weak fairness of each worker's steps
(a thread is scheduled), and of the step of `poll_async` once there is something
to take: `well_log_view.cpp` polls in `paintGL` and reschedules itself while
tasks are outstanding; `SessionTeardown` adds the destructor's own thread. No command
is fair. `live` needs no more: starting tasks
uses up generations, a supersession replaces the awaited generation, and a
wait may be ended by one. `AppendStream` assumes that time passes and that the
host polls (weak fairness of `Tick` and `PollFlushes`). `WellLogView` assumes that Qt
delivers a paint that was asked for and fires a timer that was armed (`paintGL`,
`Timeout`), and nothing of the session or the host. `RasterExport` assumes that
each job's worker thread is scheduled, and not that the host polls.

## 4. The properties

*Pool and teardown.* `EveryJobInOnePlace`, `NothingOutlivesSession`,
`TextShapingExclusive`, `NoBuildStartsAfterDrain`, `TeardownReturns`, `JobsFinish`.

*Preparation of documents.* `SceneOfCurrentDocument` (a scene is one of the current
document, with LOD built from it); `WaitsForLiveTask` (what a document awaits is in a
task vector, not stopped); `SupersededTasksAreStopped`; `SettledDocumentIsShown` (at the
window of now or the full range, section 6);
`EveryTaskAccounted`; `FramesSettle`, `PreparationsSettle`; `DeliveryPromise`.

*History.* `HistoryIsAChain`, `SelectionMatchesDocument`, `TimelinePromise`.
A host that loads a document over a history breaks the chain (the stacks are
kept, `session.cpp:1881`); nothing in the repository says what undo should do
then, and the properties stop there (`replaced`).

*Append.* `EveryBatchWhole` (the blocks of a command stand side by side in the
document, as they were sent, or not at all, and commands stand in their order but for
those an append at rate 0 has passed),
`AxesOrdered`, `RefreshRateKept`, `StagedAfterFirstFlush`, `StagedBlocksFlush` (by polls alone, or
the host sets the rate to 0). An explicit flush by the host is
not held to the refresh rate, which is what `flush_append_coalesce` is for.

In `MCInteractive` and `MCExports` a property is the conjunction of what one
component promises; each part is a definition of the component's module, with its
own comment there.

| property | parts |
|---|---|
| `SurfaceShowsItsWells` | `WindowsInSync` (a visible well is at the shared window unless moved on its own since), `CachedSurfaceIsCurrent` (what the cache returns is what would be composed now, scenes at recycled addresses and transforms set since excepted), `AlignedWellsAgree` (markers are drawn at the target's heights after an alignment) |
| `EditsAreSound` | `InverseRestores` (the inverse recorded with a patch gives every entity its value before it, but for what the patch took out beside the entity it found), `PresentationResolves` (scales, layers and fills refer to what is there, and no log scale reaches zero), `RawCurvesKept` (no raw curve comes or changes, and one goes only where another entity takes its id or a mask has it), `OrderIsTotal` |
| `ViewDrawsOneScene` | `UploadedIsWhole` (edges, batches, primitives and glyphs of a scene taken for uploaded are all its own, and its patterns unless the two atlases came apart), `CurveMemoryWithinBudget` |
| `TileMemoryWithinBudget` | the textures alive are those of the tile cache, one a tile, and the bytes counted are the sum of their sizes and fit the budget |
| `QueuedUploadEnds` | liveness: no paint leaves an upload half done with nothing to wake it |
| `TableFollowsSelection` | `QuietModelsMirror`, `ViewsShowTheMirror` (views draw all rows of the mirror, and others only if an attachment left them), `SelectionIsOfThisDocument`, `CopyHoldsTheSelection` |
| `LodIsFaithful` | `PyramidIsSound`, `SelectionsAgree` (a pyramid selects what the scalar reference selects), `EnvelopeKept` (the selection shows every extreme of the curve) |
| `SceneShowsItsWindow` | `MissingBreaksLines`, `FillsAreCrossovers`, `DrawnIffOnPage`, `WindowIsDrawn`, `PickSeesEveryPrimitive`, `PickReportsItsTile`, `PreflightDecides` (a refusal after preflight is for a dash pattern or the symbols of markers) |
| `PagesShowEveryRow` | `EveryRowPrinted`, `NothingVisibleCulled`, `BackendsAgree` (both exporters put the same parts of the same items at the same places of a page, in the order track, kind, item) |
| `PdfPaintsEachItem` | `NamesResolve`, `OwnPaint` (colour, line and pattern of each mark are its own, also of the markers that share a pen), `AlphaStaysInTrack` (a translucent mark has its own alpha; another is opaque or has that of an earlier mark of its track) |
| `PicturesKeepTheScene` | `MetafileReadsBack`, `CurvesKeepTheirEdges`, `PageFitsItsExtent`, `HatchStaysInside`, `InkIsOwn`, `HeadersApart` |
| `RasterReadsBack` | `TilesComposeTheImage` (the tiles together are the image of one tile, but for the ends of crosses that outgrow their margin), `PngReadsBack`, `StripsReadBack` |
| `JobsKeepTheirFiles` | `TargetIsWhole` (on a path no process has run two jobs on at one time: the old file or the whole image of one job, wherever a process dies), `NoTempLeft`, `FailsForItsOwnCause` (or for a job that had its temporary file), `ProgressIsToldToTheEnd` |
| `TargetsReplacedAtomically` | refinement of `AtomicTargets`, which gives a path up when two jobs of one process run on it |
| `EveryJobEnds` | liveness: a running job of a living process ends |
| `TablesReadBack` | `CsvReadsBack` (missing samples read back as missing, others as themselves unless their number is the null token), `SheetsHoldEveryRow`, `DirectoryLeadsToParts`, `ManifestedTablesExist`, `SuccessIsWhole` |

Every property of a passing run has a mutant in `PROJECT.json`: a plausible slip
in one definition that makes TLC find it violated. The mutated definitions are
in the modules, each marked as a mutant or a plausible slip.

## 5. The proofs

The theorems hold for any set of documents, workers, jobs, curves, viewports and
revisions, any bound on generations and any length of history, from the
assumptions on the constants that the modules name (`PoolAssumption`,
`FrameJobsAssumption`, `SlotAssumption`, `SceneAssumption`, `SessionAssumption`,
`HistoryAssumption`, `AppendAssumption`, `JobsAssumption`, `TableAssumption`,
`RendererAssumption`, `SurfaceAssumption`, `PagesAssumption`, `NoneIsNoDocument`). No
theorem has a hypothesis beside these, and none of these rules out a call the code
accepts: any GL call may fail, addresses of scenes may be used again, the jobs of a
process may share a path, a host may set any rate and attach a model at any time.

* `SessionTasks_proofs`, on `SessionTeardown`: `TeardownInvariant`, `JobsConserved`,
  `ShapingIsExclusive`, `SessionLeavesNothing`, `NoLateBuild`. `EveryJobInOnePlace`
  counts the places a job is in, which no step sees directly; the invariant
  (`PlacesInv`) says instead that positions of a queue and workers hold distinct
  jobs and that the places exclude one another, and two lemmas on cardinality
  (`AtMostOne`, `PlacesCounted`) turn that into the count. `LockInv` ties the mutex to
  the step of its holder, `StopInv` says which drain has stopped which jobs, and
  `ShutdownInv` orders the end of the workers.
* `SessionTasks_proofs`, on `SessionAsync`: `InductiveInvariant` (`Spec => []IInv`), `SessionTypes`,
  `SceneIsCurrent` (`SceneOfCurrentDocument`). That the scene is current is not
  inductive: a result is accepted by its generation alone, so the invariant has
  to say what a generation guarantees. `IInv` adds that every slot is consistent
  (`SlotOK`: the scene, the preparation and the viewport belong to the document),
  that the counters are ahead of every generation in use (`FreshGenerations`), and
  that a task whose generation is the awaited one was made from the document and
  presentation the slot now has (`CurrentLod`, `CurrentFrame`). Lemmas about the
  operators of `SessionSlot` (`SessionSlot_proofs`) say that each command keeps
  `SlotOK`; one step per action does the rest. `DeliveryImplemented`
  (`Spec => DeliveryPromise`): a new value of a slot replaces the document,
  configures it or delivers a scene, each a step of `FrameDelivery`, or changes
  nothing that is promised; `IInv` is what rules out a delivery to a document that
  has been replaced.
  Its second part is about the session and the pool together: `TaskInvariant`,
  `PoolTypes`, `WaitsAreLive`, `SupersededAreStopped`, `SettledIsShown`,
  `TasksAccounted`. The invariant is `IInv` with the pool's part
  (`FreshJobs`: a job not yet submitted is nowhere; `CancelledAreStopped`: an
  outstanding job is cancelled only if it was stopped) and the tasks' part
  (`UniqueFrames`, `Awaited`, and the two properties themselves). Cancellation
  is the subtle case: `poll_async` drops a cancelled result without looking at what
  awaits it, and a document would wait for ever were its task cancelled unasked.
  Every command changes slots, tasks and stops in one of few ways, so each is first
  reduced to one form (`CommandShape`), each step of the GUI on the pool to another
  (`GuiShape`), and the invariant is shown once per form. The accounting is an
  invariant of its own (`AccountInv`), with the finite sets of tasks counted.
* `DocumentHistory_proofs`: `HistoryInvariant`, `ChainHolds`, `SelectionsMatch` and
  the refinement `HistoryImplementsTimeline`. The chain is what makes a rollback,
  which goes to the other end of the entry, a return to where the document was:
  a failing undo is a stutter of the timeline for that reason only.
* `AppendStream_proofs`: `AppendInvariant`, `AxesStayOrdered`, `RefreshRateHolds`,
  `StagedIsPolled`. The code checks a tail against the last coordinate only and
  skips the order of the axis in the validation that follows; `AcceptedKeepsOrder`
  in the proofs is the argument that this is enough, and since undo and redo
  bring old documents back, the invariant asks it of every entry of the history.
  `RefreshRateHolds` needs that a flush since the last tick leaves the interval
  running (`RefreshInv`). `BatchesStayWhole` and `BatchesStayInOrder`
  (`EveryBatchWhole`): two flushes put blocks of different commands side by side, so
  what must hold of a document and of what is staged is that each is made of whole
  batches and that no command has blocks in both (`BatchInv`), for every document
  that undo or redo may bring back. The order is a second invariant: every block
  of these documents is older than every block staged, or the pair of their
  commands is in `passed`, where an append that commits past a staged one puts it, and
  that takes a rate of 0. What is staged is in order without exception.
* `Exports_proofs`, on `RasterExport`: `ExportInvariant`, `JobsKeepFiles` (`JobsKeepTheirFiles`) and
  the refinement `RasterImplementsAtomicTargets`. That a target is whole rests on
  the temporary file being the writing job's own (`WritesItsOwn`), which rests on
  no two jobs of one process running on one path, unless the two are `contended`
  (`OneJobAPath`), and on every
  temporary file that exists having its writer (`TempHasWriter`): a job of another
  process has another name, and a process that dies takes its jobs but not its
  files. `PiecesTaken` says what a stream has in it as long as no write failed,
  `CauseKnown` why a job failed, `ToldInOrder` what the host has been told, drained
  or pending. For a reader, only a rename that succeeds
  is a step. `contended` only grows, and names the path and the process: the promise for a
  path ends when two jobs of one process first run on it together, which `AtomicTargets`
  has as a step (`GiveUp`), and the promises for the others go on.
* `Exports_proofs`, on `PageExport`: `PagesAreFaithful` (`PagesShowEveryRow`), for any
  scenes, page specifications and number of pages. The invariant (`PagesInv`) is plain:
  pages are written of a valid snapshot only, and those written are the first of its
  windows. The work is in the windows and the emitters. That consecutive windows leave
  no gap is arithmetic on rounded quotients, of the overlap and of the number of pages.
  That nothing visible is culled has one lemma for each kind of item; that SVG and PDF
  agree compares their tests of the window kind by kind, and needs that every window
  lies on the scene, since SVG skips a track whose clip does not meet the window and
  PDF does not. `PagesAssumption` says what preparation gives an exporter: the clip
  of a track spans the height of the scene (`scene.cpp:2101-2112`), an item belongs to a
  track of the scene, the origins of a text run's glyphs lie within its box and the ink
  of a symbol, a marker or a glyph within the pad. Strokes have no width here: both exporters
  test the edges of a curve without a pad, and how far a stroke reaches beyond them is
  not part of the property.
* `QtWidgets_proofs`, on `TableSelection`: `TableInvariant` and `TableFollows`
  (`TableFollowsSelection`), for any models, documents and depth ranges. A model hears
  of the selection once it is attached and mirrors what is selected when its
  refreshes have all come (`Hears`); its rows are those of the axis it is attached to
  until the document is replaced (`RowsOfSource`); its views draw the mirror, and
  beyond it only what attachments have left drawn (`DrawsMirror`). That the span of a
  selection is that of its depth range in the document in force (`SelectionInv`) needs what
  the two searches of `rows_for_range` find on a rising and on a falling axis with repeated
  depths (`FirstRowFound`, `RowsInRange`).
* `QtWidgets_proofs`, on `WellLogView` and `GlRenderer`: `ViewInvariant`, `BuffersFit` (`CurveMemoryWithinBudget`) and
  `UploadsAreWhole` (`ViewDrawsOneScene`), for any scenes, tiles, budgets and
  resolvers. What is on the GPU when the last call of an upload succeeds was put
  there over many paints, so the invariant says of a renderer with an upload under
  way what its staging buffer holds at each chunk (`Chunked`), that before the
  allocation there is room beside the active buffer or that one is to be emptied
  first (`Room`), and that the atlases are of the fingerprint recorded for them
  (`AtlasesMatch`). A call of `upload_next` takes a renderer from one stage to the
  next (`Begun`, `Roomy`, `Filling`, `Waiting` or `Retired`, `Drawn`, `Patterned`,
  `Glyphed`, `Published`) or to `Broken`, one lemma a call, and `UploadGoesOn` puts
  them together. `Follows` ties the widget to it: the scene it has queued is the
  one the renderer uploads, and the one it takes for uploaded is whole. A failing
  glyph texture, whose call comes after the patterns have been replaced, leaves the
  pattern atlas another than the fingerprint says; it is the one step that makes a
  renderer `torn`, and `AtlasesMatch` asks the patterns of renderers that are not.
* `QtWidgets_proofs`, on the image tiles: `TilesFit` (`TileMemoryWithinBudget`), from
  the same assumptions. The size of a cache is a sum over its tiles in some order
  of all of them, and `OneMoreTile` says that a tile that is added adds its own size,
  whatever the order. A cache is sound (`Sound`) if its textures are those of its
  images, one each, and its count of bytes is that sum and within the budget. An
  eviction keeps that, and needs that no other tile has the name of the texture
  deleted (`EvictKeepsSound`); the loop of evictions makes room, since after each
  turn there is room or an image less (`RoomIsMade`), whichever of the images asked
  for longest ago the walk over the hash table meets first; a new texture has a
  name that no live one has (`FreeNameIsFree`). The invariant (`TilesInv`) says no more
  than that the renderer has such a cache, and that an upload under way is of a
  scene. It needs nothing of `VInv`: no call of
  `upload_next` touches the tiles.
* `WellSurface_proofs`: `SurfaceTypes`, `WindowsAndAlignmentsHold` (`WindowsInSync` and
  `AlignedWellsAgree`) and `SurfaceIsCurrent` (`SurfaceShowsItsWells`), for any number of
  wells, documents, presentations and windows. A command over several wells runs one
  command a well and stops at the first that is refused, so what it leaves is said of
  its first `i` wells, as a function of `i` (`WellsMoved`, `WellsAligned`, `Cursor`,
  `PlacementsShown`). That each step of such a loop keeps a fact is enough: a set of
  naturals that no step leaves has them all (`UpTo` of `Loops_proofs`), or its
  complement would have a least member. The alignment is not inductive as the property
  states it, since a scene prepared in the background is drawn later: `AlignedFollow`
  says instead that
  one of the aligned wells is the one the others have their stored transforms to, and
  `DrawnOnTheSpot` that the scene of a well that is prepared on the spot has its
  presentation. For the cache, `CacheFresh` says what was composed of the wells in the key
  (`ComposedAlike`): its scene and document while the key has its scene's address (`pinned`)
  and it is not `recycled`, and the mapping of its overlays while it is not `remapped`;
  `KeepsPins` follows that through each command.

Only model-checked:

* all liveness (`FramesSettle`, `PreparationsSettle`, `TeardownReturns`, `JobsFinish`,
  `StagedBlocksFlush`, `QueuedUploadEnds`, `EveryJobEnds`), since liveness under
  fairness and `ENABLED` are out of the prover's reach;
* the components of `interactive` and `exports` other than `WellSurface`,
  `TableSelection`, `WellLogView` with `GlRenderer`, `RasterExport` and `PageExport`:
  `EditsAreSound`, `LodIsFaithful`, `SceneShowsItsWindow`, `PdfPaintsEachItem`,
  `PicturesKeepTheScene`, `RasterReadsBack`, `TablesReadBack`;
* `CurveLod`, `CgmPictures` and `RasterTiles` for good: the levels of a pyramid and
  the readers of a metafile, an image and a strip are recursive over the data, and
  what a recursive definition computes for every input needs an induction that the
  prover's backends cannot instantiate.

Facts that need induction over data are used in no proof: `Ordered` and
`HistoryIsAChain` are quantified over indices for that reason.

## 6. Where the code and its documentation differ

Four disagreements are runs that TLC ends with a counterexample; `findings` in
`PROJECT.json` quotes the lines.

1. `history_masks`: an append drops the document's QC masks.
2. `fill_gaps`: a crossover fill bridges a gap of its upper curve, where the comment
   and ADR 0028 say that it breaks.
3. `zip_directory`: the end record of a workbook states a central directory ten bytes
   shorter than the one before it.
4. `svg_window`: a page of a fixed SVG export shows other rows than its window, since
   the clip moves with what it clips.

The others have no run of their own. Those named after a property can be seen with it as an
`INVARIANT` or `PROPERTY` of the component's instance. Those marked *in the runs* happen in
the passing runs, and the property named says what holds beside them; the rest were met
in the code while modelling it.

*Session* (`DocumentHistory`, `AppendStream`)

* `RevisionNamesOneDocument`: after an undo, the next patch gives its document a
  revision another document of the history has; the patch gate compares
  revisions alone.
* `FailedHistoryIsNoOp`: a failed undo restores the state recorded in the entry, not
  the one before the command; a presentation or selection set since is lost.
* `CommitBringsSceneBack`: an append to a small document erases the scene and starts
  nothing that would build it again.
* `DroppedAppendIsReported`: a merged batch that fails inside `poll_async`
  (`session.cpp:4789`) is dropped and no later call reports it.
* `DocumentedBatchCommits`: curves that share an axis cannot be appended to.
* A staged append commits although the document has meanwhile passed the revision
  it asked for, since a flush commits at current + 1 (`session.cpp:3724`).
* *In the runs* (`EveryBatchWhole`, `StagedBlocksFlush`): setting the refresh rate to 0 strands
  what is staged. `poll_async` skips the coalescers (`session.cpp:4773`), later appends commit
  first, and an explicit flush may then drop the older blocks as out of order.
* *In the runs* (`SettledDocumentIsShown`, `DeliveryPromise`): a patch on a document with ready
  LOD starts its frame for the full range and puts the window back without a frame of
  its own (`session.cpp:4218`), so that the scene drawn is not that of the window.

*Surface and edits* (`WellSurface`, `PatchEdits`)

* `StoredTransformApplied`: a stored transform is not applied when a presentation is
  next set, as the comment near `session.cpp:2689` says.
* *In the runs* (`CachedSurfaceIsCurrent`): the cache compares addresses of scenes
  (`session.cpp:1122-1124`), and an allocator that hands out a freed one makes it return a
  composition with the freed scene. Overlays are mapped by the transforms stored for their
  wells and led to markers of their documents (`5359-5384`), which the key has neither of: a
  transform that is stored without a new scene leaves the old mapping in the cache, where
  the comment at `5307-5313` says that "the key pins every input".
* What the comments at `session.cpp:5543-5545` and `5608-5611` say of the crosshair and of
  `viewport()` holds only while all wells are at the shared window.
* `RemovesTrackWithItsLayers`: `RemoveTrackCommand` is refused if the track has a layer
  that is not a curve's (`track_commands.cpp:326-329`, `session.cpp:3502-3509`), where
  `track_commands.hpp:48-49` says that it takes every layer with it.
* *In the runs* (`RawCurvesKept`, `InverseRestores`): a derived curve, a mark, a mask or a track
  upserted under the id of a raw curve removes that curve (`session.cpp:3593`, `3886-3891`),
  where the comment at `3488-3490` says that raw curves are immutable to patches and
  `session.hpp:275-282` that a patch never overwrites one. So does `AddTrack`, `BindCurve` or
  `DuplicateCurveLayer` with such an id, and an edit of a mask that has it, which
  `validate_document` allows. The inverse of such a patch knows nothing of the raw curve and
  cannot bring it back; undo, which restores snapshots, does.
* `AutoRange` of a curve without finite samples is refused, a duplicated curve layer
  gets another z-order, a derived curve may outlive its input, ids of QC masks are
  in no check of uniqueness, and `AddTrack` compares its id with tracks only.

*Preparation and level of detail* (`ScenePreparation`, `CurveLod`)

* *In the runs* (`PreflightDecides`): the preparation refuses a dash pattern
  (`scene.cpp:2952-2972`) or the size of a marker layer's symbols (`3246-3252`) that
  preflight let through, where `prepare.hpp:20-25` says that preflight validates all that the
  preparation depends on.
* *In the runs* (`DrawnIffOnPage`, `WindowIsDrawn`): an interval whose bottom comes out above
  its top, as in a window that runs against the transform, is dropped although it lies on
  the page (`scene.cpp:2577-2587`), where the comment at `2559-2562` says that a decreasing
  display must not cull intervals. A window of decreasing depths drops its image tiles.
* The LOD is asked for display depths and answers in reference depths
  (`session.cpp:2098`, `2951`, `4880`, `5164`).
* `ExtendedIsRebuilt`: an extended pyramid has other levels than a rebuilt one
  (`curve_lod.hpp:107-110`, `curve_lod.cpp:606-608`), and the default budget depends on
  lengths, so that a tail is hardly ever extended (`session.cpp:1622-1652`, `4620`). A
  curve that begins with missing samples is never extended.

*View* (`WellLogView`, `GlRenderer`)

* *In the runs* (`UploadedIsWhole`): an upload that fails at its last texture has replaced
  the patterns and not the glyphs, and the fingerprint that says what is uploaded is still
  the old one (`renderer.cpp:892`, `1167-1171`, `2128-2131`): an old scene queued again takes
  the patterns of the failed one for its own.
* `SettledViewShowsScene`: a failed upload is not tried again (`well_log_view.cpp:581-624`).
* `ImagesShowTheirTiles` (ADR 0034): a tile evicted for a later tile of the same scene
  leaves a quad that names a deleted texture (`renderer.cpp:851-853`, `1486-1490`, `1577`).
* A GL error after the swap draws new curves with old primitives (`renderer.cpp:2073-2110`).

*Files* (`PageExport`, `PdfStream`, `CgmPictures`, `RasterTiles`, `RasterExport`, `TableFiles`)

* `LegendHidesNoRow` (`docs/table-and-export.md:228`): a legend may take rows
  that no page shows. `AggregateIsEnough` (ADR 0048): not at scales above 1.
* `BandsInPageSpace` (`pdf_scene.cpp:1426-1440`, `1496-1499`): the bands of a page are under
  the flipped matrix. `OwnAlpha` (`pdf_scene.cpp:150-155`, `161-166`): an opaque item after a
  translucent one of its track is translucent, and a marker's line, for which no alpha
  is set (`1186-1188`), does not get its layer's; `AlphaStaysInTrack` is what is left of it.
* `IntervalsArePainted` (`cgm.cpp:481-485`, `754-758`): an interval may be left without its
  fill. `EveryEdgeOnSomePage` (ADR 0054, `cgm.cpp:877-905`): an edge across a page cut is on
  neither page. Markers, symbols, images and transparency of curves are left out
  without a word.
* *In the runs* (`TilesComposeTheImage`): a custom cross whose stroke is more than a pixel
  wide, from 9 pixels of size on, may outgrow the margin it is culled by, which leaves that
  width out (`raster_export.cpp:676-683`, `714-722`), and so may a symbol of one pixel: its
  ends, beyond its box, are missing from the tiles they alone reach. Layers are drawn in
  another order than `docs/rendering.md:225-236` gives.
* *In the runs* (`TargetIsWhole`, `FailsForItsOwnCause`, `TargetsReplacedAtomically`): two exports of
  one process to one path write one temporary file (`raster_export.cpp:912-924`), and the
  target may be left with pieces of both (`docs/table-and-export.md:240`,
  `raster.hpp:10-11`). An export stopped between its rename and its report is "cancelled"
  with the target replaced, and the target's existence is looked at only when the export
  starts (`:242`).
* *In the runs* (`CsvReadsBack`): `stream_csv` writes numbers without quotes
  (`csv.cpp:118-124`), so that with a number for a null token a sample reads back as
  missing, where `csv.cpp:3-6`, `53-57` and `table_writers.hpp:47-49` say that a value equal
  to the token is quoted.
* `PackageIsOfOneRevision`: an export that fails half-way over an older package leaves
  files of two revisions.

*Table model* (`TableSelection`)

* `EmptySpanSelectsOneRow`: an empty span of rows selects the row before it as well, where
  the comment says that it yields the coordinate at `first` (`session.cpp:688-689`).
* *In the runs* (`ViewsShowTheMirror`): a model that mirrors a selection and is attached again
  forgets it without telling its views, which go on drawing its rows (`table_model.cpp:166-195`).

## 7. What is not modelled, and the plan

Not modelled:

* *Observability*: a bounded ring of records and counters behind one mutex, none of
  which anything reads back. Small enough to test.
* *Core data model*: immutable values; a document is a value in the models, and valid
  (`PatchEdits` has the checks that decide validity after an edit).
* *Format readers*: sequential parsers of byte strings with fixed limits; their state is
  the rest of the input.
* *Arrow and Python bridges, desktop application*: adapters that keep buffers alive,
  generated bindings, and a client.
* Of modelled components: the shaping of text and what depends on fonts, velocity models
  and true stratigraphic thickness, triangulation, image pyramids, shaders, mouse and
  keyboard beyond the repaint they ask for, SVG attributes and fonts, styles of a
  workbook, colours and units beyond a few values. They are geometry in floating point
  or formatting, and TLC has nothing to interleave in them.
* `state_version`, the list of events and observers that call back in the middle of
  composite commands (`session.cpp:4236`).

In order:

1. Proofs about the components of section 3's composites that are not recursive:
   `EditsAreSound` of `PatchEdits`, from what `preflight` accepts.
2. `WellSurface` against an abstract specification, every visible well at one window.
3. `SessionEvents`: observers that call back, composed with `AppendStream`'s map of
   coalescers.
