---------------------------- MODULE RasterExport ----------------------------
(***************************************************************************)
(* Raster export jobs (src/src/export_raster/raster_export.cpp) and the    *)
(* files they share.  A job's worker renders the image tile by tile into a *)
(* temporary file beside the target, named after the target and the        *)
(* process, and renames it onto the target.  The host polls, cancels and   *)
(* destroys the job; a process may die.  The table exporters write through *)
(* the same steps (src/src/export_table/atomic_write.hpp), without the     *)
(* stop.                                                                   *)
(*                                                                         *)
(* A file is a sequence of pieces, one per tile and a last one that makes  *)
(* the image readable (IEND, or the IFD), each the writer's that wrote it. *)
(* A name leads to a file and an open stream goes on with its file when    *)
(* the name is moved or removed.                                           *)
(***************************************************************************)
EXTENDS Integers, Sequences, FiniteSets

CONSTANTS Jobs, Paths, Processes, None,
          ProcessOf,       \* [Jobs -> Processes]
          Tiles,           \* tile_count
          EmitNumerator, EmitDenominator,
                           \* the least advance that is worth an event
          MaxStarts,       \* bound: jobs that are started
          MaxCalls         \* bound: cancellations, polls, destructions and crashes

Old == 0                          \* the file of before
Pieces == 1 .. Tiles + 1
Names == Paths \cup (Paths \X Processes)
Streams == Jobs \cup {Old}        \* a file is known by who made it
Ended == {"refused", "completed", "failed", "cancelled"}

JobsAssumption ==
       /\ {None, Old} \cap Jobs = {} /\ None # Old
       /\ None \notin Paths /\ Paths \cap (Paths \X Processes) = {}
       /\ ProcessOf \in [Jobs -> Processes]
       /\ Tiles \in Nat \ {0}
       /\ EmitNumerator \in Nat /\ EmitDenominator \in Nat \ {0}

VARIABLES
    directory,     \* what each name leads to
    data,          \* the pieces of each file
    job,           \* per job, see NoJob
    crashed,       \* processes that have died
    calls,
    contended      \* history: names two jobs of a process had for their temporary
                   \* file at one time; no step looks at it

vars == <<directory, data, job, crashed, calls, contended>>

(* The request, RasterExportJob::Impl and render_export's own state: step  *)
(* is where the worker is, written whether write_file_atomic succeeded,    *)
(* bad whether its stream has failed, outcome what render_export returned. *)
NoJob == [path |-> None, overwrite_confirmed |-> FALSE, file |-> None,
          step |-> "unborn", tile |-> 0, bad |-> FALSE, written |-> FALSE,
          outcome |-> "none", cause |-> FALSE, stop_requested |-> FALSE,
          state |-> "unborn", fraction |-> 0, last_emitted |-> 0,
          pending_progress |-> <<>>, drained |-> <<>>, owned |-> FALSE]

EmptyFile == [p \in Pieces |-> None]

Init ==
    /\ directory \in [Names -> {None, Old}]
    /\ \A n \in Paths \X Processes : directory[n] = None
    /\ data = [s \in Streams |-> IF s = Old THEN [p \in Pieces |-> Old] ELSE EmptyFile]
    /\ job = [j \in Jobs |-> NoJob]
    /\ crashed = {}
    /\ calls = 0
    /\ contended = {}

\* A plausible slip.
NoTempPath(j) == job[j].path

temp_path_for(j) == <<job[j].path, ProcessOf[j]>>

\* A plausible slip.
RemovedNothing(j) == directory

Removed(j) == [directory EXCEPT ![temp_path_for(j)] = None]

Alive(j) == ProcessOf[j] \notin crashed
Call == calls < MaxCalls /\ calls' = calls + 1

At(j, step) == Alive(j) /\ job[j].step = step
Becomes(j, record) == job' = [job EXCEPT ![j] = record]

\* A plausible slip.
OverwritesUnconfirmed(path, overwrite_confirmed) == directory[path] # None

Overwrites(path, overwrite_confirmed) == directory[path] # None /\ ~overwrite_confirmed

----------------------------------------------------------------------------
(* The host.                                                               *)

(* Another job of j's process runs on path.                                *)
Contends(j, path) ==
    \E k \in Jobs \ {j} :
        ProcessOf[k] = ProcessOf[j] /\ job[k].path = path /\ job[k].state = "running"

(* RasterExportJob::start.  Nothing keeps a process from a path it is      *)
(* exporting to.                                                           *)
Start(j, path, confirmed) ==
    /\ At(j, "unborn") /\ Cardinality({k \in Jobs : job[k].step # "unborn"}) < MaxStarts
    /\ IF Overwrites(path, confirmed)
         THEN /\ Becomes(j, [job[j] EXCEPT !.path = path, !.step = "ended", !.state = "refused"])
              /\ UNCHANGED contended
         ELSE /\ Becomes(j, [job[j] EXCEPT !.path = path, !.overwrite_confirmed = confirmed,
                                !.step = "check", !.state = "running", !.owned = TRUE])
              /\ contended' = contended \cup
                     (IF Contends(j, path) THEN {<<path, ProcessOf[j]>>} ELSE {})
    /\ UNCHANGED <<directory, data, crashed, calls>>

request_cancel(j) ==
    /\ Call /\ Alive(j) /\ job[j].owned /\ ~job[j].stop_requested
    /\ Becomes(j, [job[j] EXCEPT !.stop_requested = TRUE])
    /\ UNCHANGED <<directory, data, crashed, contended>>

poll(j) ==
    /\ Call /\ Alive(j) /\ job[j].owned /\ job[j].pending_progress # <<>>
    /\ Becomes(j, [job[j] EXCEPT !.drained = @ \o job[j].pending_progress,
                                 !.pending_progress = <<>>])
    /\ UNCHANGED <<directory, data, crashed, contended>>

(* ~RasterExportJob: a running worker is asked to stop, then joined; owned *)
(* ends here, and Destroyed says when the join has.                        *)
Destroy(j) ==
    /\ Call /\ Alive(j) /\ job[j].owned
    /\ Becomes(j, [job[j] EXCEPT !.owned = FALSE, !.stop_requested = TRUE])
    /\ UNCHANGED <<directory, data, crashed, contended>>

(* A process dies wherever its workers are.                                *)
Crash(p) ==
    /\ Call /\ p \notin crashed
    /\ crashed' = crashed \cup {p}
    /\ UNCHANGED <<directory, data, job, contended>>

----------------------------------------------------------------------------
(* The worker: render_export and, in it, write_file_atomic.                *)

(* The target is looked at once more.                                      *)
Check(j) ==
    /\ At(j, "check")
    /\ IF Overwrites(job[j].path, job[j].overwrite_confirmed)
         THEN Becomes(j, [job[j] EXCEPT !.step = "report", !.outcome = "error",
                                     !.cause = ~job[j].overwrite_confirmed])
         ELSE Becomes(j, [job[j] EXCEPT !.step = "open"])
    /\ UNCHANGED <<directory, data, crashed, calls, contended>>

(* The temporary file is opened and emptied, or cannot be (the directory   *)
(* cannot be made, the stream does not open).                              *)
Open(j) ==
    /\ At(j, "open")
    /\ LET temp == temp_path_for(j)
           file == IF directory[temp] = None THEN j ELSE directory[temp]
       IN \/ /\ directory' = [directory EXCEPT ![temp] = file]
             /\ data' = [data EXCEPT ![file] = EmptyFile]
             /\ Becomes(j, [job[j] EXCEPT !.step = "tile", !.file = file])
          \/ /\ directory' = Removed(j)
             /\ Becomes(j, [job[j] EXCEPT !.step = "sweep", !.cause = TRUE])
             /\ UNCHANGED data
    /\ UNCHANGED <<crashed, calls, contended>>

\* A plausible slip.
TellsWhenFarEnough(j, done) ==
    \/ job[j].last_emitted = 0
    \/ (done - job[j].last_emitted) * EmitDenominator >= EmitNumerator * Tiles

(* emit tells the first event, the last, and those that advance by enough. *)
Tells(j, done) ==
    \/ job[j].last_emitted = 0
    \/ done = Tiles
    \/ (done - job[j].last_emitted) * EmitDenominator >= EmitNumerator * Tiles

(* The record of a job whose next tile is done.                            *)
emit(j, done) ==
    [job[j] EXCEPT !.tile = done, !.fraction = done,
                   !.pending_progress = IF Tells(j, done) THEN Append(@, done) ELSE @,
                   !.last_emitted = IF Tells(j, done) THEN done ELSE @]

(* A stream takes a piece, or fails; after that it takes nothing more.     *)
Takes(j, piece) ==
    /\ ~job[j].bad
    /\ data' = [data EXCEPT ![job[j].file][piece] = j]

(* The producer's loop: the stop is looked at before each tile.            *)
Tile(j) ==
    /\ At(j, "tile") /\ job[j].tile < Tiles /\ ~job[j].stop_requested
    /\ \/ Takes(j, job[j].tile + 1) /\ Becomes(j, emit(j, job[j].tile + 1))
       \/ /\ Becomes(j, [emit(j, job[j].tile + 1) EXCEPT !.bad = TRUE, !.cause = TRUE])
          /\ UNCHANGED data
    /\ UNCHANGED <<directory, crashed, calls, contended>>

(* The producer returns false or throws, and the file is removed: at a     *)
(* stop, or when zlib or the allocator fails.                              *)
Abandon(j) ==
    /\ At(j, "tile")
    /\ Becomes(j, [job[j] EXCEPT !.step = "sweep", !.cause = @ \/ ~job[j].stop_requested])
    /\ directory' = Removed(j)
    /\ UNCHANGED <<data, crashed, calls, contended>>

\* A plausible slip.
FinishUnchecked(j) ==
    /\ At(j, "tile") /\ job[j].tile = Tiles /\ ~job[j].stop_requested
    /\ Takes(j, Tiles + 1) \/ UNCHANGED data
    /\ Becomes(j, [job[j] EXCEPT !.step = "rename"])
    /\ UNCHANGED <<directory, crashed, calls, contended>>

(* The last piece and the flush; a stream that failed is found out here.   *)
Finish(j) ==
    /\ At(j, "tile") /\ job[j].tile = Tiles /\ ~job[j].stop_requested
    /\ \/ /\ Takes(j, Tiles + 1)
          /\ Becomes(j, [job[j] EXCEPT !.step = "rename"])
          /\ UNCHANGED directory
       \/ /\ directory' = Removed(j)
          /\ Becomes(j, [job[j] EXCEPT !.step = "sweep", !.cause = TRUE])
          /\ UNCHANGED data
    /\ UNCHANGED <<crashed, calls, contended>>

(* The rename; it fails by itself or because the name leads nowhere.       *)
Rename(j) ==
    LET temp == temp_path_for(j)
    IN /\ At(j, "rename")
       /\ \/ /\ directory[temp] # None
             /\ directory' = [Removed(j) EXCEPT ![job[j].path] = directory[temp]]
             /\ Becomes(j, [job[j] EXCEPT !.step = "sweep", !.written = TRUE])
          \/ /\ directory' = Removed(j)
             /\ Becomes(j, [job[j] EXCEPT !.step = "sweep", !.cause = @ \/ directory[temp] # None])
       /\ UNCHANGED <<data, crashed, calls, contended>>

(* After the write: a stop goes before the result of the write.            *)
Sweep(j) ==
    /\ At(j, "sweep")
    /\ Becomes(j, [job[j] EXCEPT !.step = "report",
                                 !.outcome = IF job[j].stop_requested THEN "cancelled"
                                             ELSE IF job[j].written THEN "ok" ELSE "error"])
    /\ directory' = IF job[j].stop_requested \/ ~job[j].written THEN Removed(j) ELSE directory
    /\ UNCHANGED <<data, crashed, calls, contended>>

\* A plausible slip.
ReportSuccess(j) ==
    /\ At(j, "report")
    /\ \/ /\ job[j].outcome = "cancelled" \/ job[j].stop_requested
          /\ Becomes(j, [job[j] EXCEPT !.step = "ended", !.state = "cancelled"])
          /\ directory' = Removed(j)
       \/ /\ job[j].outcome = "ok" /\ ~job[j].stop_requested
          /\ Becomes(j, [job[j] EXCEPT !.step = "ended", !.state = "completed", !.fraction = Tiles])
          /\ UNCHANGED directory
       \/ /\ job[j].outcome = "error" /\ ~job[j].stop_requested
          /\ Becomes(j, [job[j] EXCEPT !.step = "ended"])
          /\ UNCHANGED directory
    /\ UNCHANGED <<data, crashed, calls, contended>>

(* The end of the worker, under the job's mutex.                           *)
Report(j) ==
    /\ At(j, "report")
    /\ \/ /\ job[j].outcome = "cancelled" \/ job[j].stop_requested
          /\ Becomes(j, [job[j] EXCEPT !.step = "ended", !.state = "cancelled"])
          /\ directory' = Removed(j)
       \/ /\ job[j].outcome = "ok" /\ ~job[j].stop_requested
          /\ Becomes(j, [job[j] EXCEPT !.step = "ended", !.state = "completed", !.fraction = Tiles])
          /\ UNCHANGED directory
       \/ /\ job[j].outcome = "error" /\ ~job[j].stop_requested
          /\ Becomes(j, [job[j] EXCEPT !.step = "ended", !.state = "failed"])
          /\ UNCHANGED directory
    /\ UNCHANGED <<data, crashed, calls, contended>>

Worker(j) ==
    \/ Check(j) \/ Open(j) \/ Tile(j) \/ Abandon(j) \/ Finish(j) \/ Rename(j)
    \/ Sweep(j) \/ Report(j)

Next ==
    \/ \E j \in Jobs, p \in Paths, b \in BOOLEAN : Start(j, p, b)
    \/ \E j \in Jobs : request_cancel(j) \/ poll(j) \/ Destroy(j)
    \/ \E j \in Jobs : Worker(j)
    \/ \E p \in Processes : Crash(p)

(* A live worker thread goes on.                                           *)
Spec == Init /\ [][Next]_vars /\ \A j \in Jobs : WF_vars(Worker(j))

----------------------------------------------------------------------------
Whole(file) == \E s \in Streams : \A p \in Pieces : data[file][p] = s

ExportTypeOK ==
    /\ directory \in [Names -> Streams \cup {None}]
    /\ data \in [Streams -> [Pieces -> Streams \cup {None}]]
    /\ crashed \subseteq Processes
    /\ contended \subseteq Paths \X Processes
    /\ \A j \in Jobs :
         /\ job[j].step \in {"unborn", "check", "open", "tile", "rename", "sweep",
                             "report", "ended"}
         /\ job[j].state \in Ended \cup {"unborn", "running"}
         /\ job[j].tile \in 0 .. Tiles

(* Paths no process has ever run two jobs on at one time.                  *)
Uncontended == {p \in Paths : \A q \in Processes : <<p, q>> \notin contended}

(* Whatever the jobs, the host and the processes do, and wherever they     *)
(* die, the target is the old file or the whole image of one job: output   *)
(* is "written beside the target then atomically renamed" (raster.hpp:12). *)
(* Two jobs of a process that run on one path write one temporary file, so *)
(* their target may hold pieces of both.                                   *)
TargetIsWhole == \A p \in Uncontended : directory[p] # None => Whole(directory[p])

(* What a reader of the targets sees: the promise of AtomicTargets, kept   *)
(* while tiles are written, writes fail, jobs are stopped and processes    *)
(* die at any step, and given up for a path when it becomes contended.     *)
Atomic == INSTANCE AtomicTargets WITH
              Targets <- Paths, Writers <- Jobs,
              target <- [p \in Uncontended |-> IF directory[p] = None THEN None
                                               ELSE data[directory[p]]],
              waiting <- {j \in Jobs : ~job[j].written}

TargetsReplacedAtomically == Atomic!Spec

(* When a process that lives has no job on a path any more, its temporary  *)
(* file is gone, whether the jobs completed, failed or were cancelled.     *)
NoTempLeft ==
    \A p \in Paths, q \in Processes \ crashed :
        (\A j \in Jobs : job[j].path = p /\ ProcessOf[j] = q => job[j].state \in Ended)
            => directory[<<p, q>>] = None

(* A job fails because of its own file, or because an unconfirmed target   *)
(* has appeared, and never because of another job, unless that one has had *)
(* the same temporary file.                                                *)
FailsForItsOwnCause ==
    \A j \in Jobs : job[j].state = "failed" => job[j].cause \/ temp_path_for(j) \in contended

(* The events the host has drained and those that wait tell a completed    *)
(* job's progress up to its last tile, in order.                           *)
ProgressIsToldToTheEnd ==
    \A j \in Jobs :
        LET told == job[j].drained \o job[j].pending_progress
        IN /\ \A a, b \in DOMAIN told : a < b => told[a] < told[b]
           /\ job[j].state = "completed"
                  => told # <<>> /\ told[Len(told)] = Tiles /\ job[j].fraction = Tiles

(* What JobsKeepTheirFiles asks of every state.                            *)
JobsKeepTheirFiles ==
    /\ TargetIsWhole
    /\ NoTempLeft
    /\ FailsForItsOwnCause
    /\ ProgressIsToldToTheEnd

(* A running job of a living process ends, so that ~RasterExportJob, which *)
(* joins the worker without a limit, returns.                              *)
EveryJobEnds == \A j \in Jobs : job[j].state = "running" ~> (job[j].state \in Ended \/ ~Alive(j))
=============================================================================
