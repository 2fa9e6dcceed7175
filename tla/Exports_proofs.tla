--------------------------- MODULE Exports_proofs ---------------------------
(***************************************************************************)
(* Proofs about RasterExport, for any jobs, paths, processes and number of *)
(* tiles: a target is whole whatever fails and whoever dies unless two     *)
(* jobs of a process have run on it at one time, temporary files are       *)
(* removed, a job fails for its own cause only, its progress is told to    *)
(* the end, and what a reader of the targets sees is AtomicTargets.  And   *)
(* about PageExport, for any scenes and page specifications: the pages     *)
(* show all of a scene, in SVG as in PDF.                                  *)
(***************************************************************************)
EXTENDS RasterExport, PageExport, SequenceTheorems, TLAPS

Steps == {"unborn", "check", "open", "tile", "rename", "sweep", "report", "ended"}
Outcomes == {"none", "ok", "error", "cancelled"}

JobRecords ==
    [path : Paths \cup {None}, overwrite_confirmed : BOOLEAN, file : Streams \cup {None},
     step : Steps, tile : 0 .. Tiles, bad : BOOLEAN, written : BOOLEAN,
     outcome : Outcomes, cause : BOOLEAN, stop_requested : BOOLEAN,
     state : Ended \cup {"unborn", "running"}, fraction : 0 .. Tiles,
     last_emitted : 0 .. Tiles, pending_progress : Seq(1 .. Tiles),
     drained : Seq(1 .. Tiles), owned : BOOLEAN]

Typed ==
    /\ directory \in [Names -> Streams \cup {None}]
    /\ data \in [Streams -> [Pieces -> Streams \cup {None}]]
    /\ job \in [Jobs -> JobRecords]
    /\ crashed \subseteq Processes
    /\ contended \subseteq Paths \X Processes

(***************************************************************************)
(* The inductive invariant.  A job runs from its start to its end, and     *)
(* when others of its process run on its path meanwhile the name of their  *)
(* temporary file is contended.                                            *)
(***************************************************************************)
Running(j) == job[j].state = "running"
Writing(j) == job[j].step \in {"tile", "rename"}
Alone(j) == temp_path_for(j) \notin contended

StepsMatch ==
    \A j \in Jobs :
        /\ job[j].step = "unborn" <=> job[j].state = "unborn"
        /\ job[j].step = "ended" <=> job[j].state \in Ended
        /\ job[j].step # "unborn" => job[j].path \in Paths
        /\ job[j].step = "unborn" => job[j].path = None

OneJobAPath ==
    \A j, k \in Jobs :
        Running(j) /\ Running(k) /\ temp_path_for(j) = temp_path_for(k) /\ Alone(j)
            => j = k

(* A file under a temporary name, and one that is written to, was made by  *)
(* a job of that temporary name, and one under a target's name by a job of *)
(* that target.                                                            *)
NamesMatch ==
    /\ \A j \in Jobs :
          Writing(j) => job[j].file \in Jobs /\ temp_path_for(job[j].file) = temp_path_for(j)
    /\ \A p \in Paths, q \in Processes :
          directory[<<p, q>>] # None =>
              /\ directory[<<p, q>>] \in Jobs
              /\ temp_path_for(directory[<<p, q>>]) = <<p, q>>
    /\ \A p \in Paths : directory[p] \in Jobs => job[directory[p]].path = p

(* So the temporary file is the job's own while it writes, and there is    *)
(* none when it does not, unless the name is contended.                    *)
WritesItsOwn ==
    \A j \in Jobs :
        Writing(j) /\ Alone(j) => job[j].file = j /\ directory[temp_path_for(j)] = j

TempHasWriter ==
    \A p \in Paths, q \in Processes :
        directory[<<p, q>>] # None
            => \E j \in Jobs : Writing(j) /\ job[j].path = p /\ ProcessOf[j] = q

(* What is in the files: a good stream has taken all tiles so far, and a   *)
(* file under a target's name is finished.                                 *)
FileOf(s) == [p \in Pieces |-> s]

PiecesTaken ==
    \A j \in Jobs :
        /\ job[j].step \in {"unborn", "check", "open"} => job[j].tile = 0
        /\ Alone(j) /\ job[j].step = "tile" /\ ~job[j].bad
              => \A i \in 1 .. job[j].tile : data[j][i] = j
        /\ Alone(j) /\ job[j].step = "rename" => data[j] = FileOf(j)

TargetsFinished ==
    \A p \in Uncontended :
        directory[p] # None =>
            /\ data[directory[p]] = FileOf(directory[p])
            /\ directory[p] \in Jobs => job[directory[p]].written

WrittenIsPast ==
    \A j \in Jobs : job[j].written => job[j].step \in {"sweep", "report", "ended"}

FilesInv ==
    /\ StepsMatch /\ OneJobAPath /\ NamesMatch /\ WritesItsOwn /\ TempHasWriter
    /\ PiecesTaken /\ TargetsFinished /\ WrittenIsPast

-----------------------------------------------------------------------------
(* Why a job failed is known from the step that failed on.                 *)
CauseKnown ==
    \A j \in Jobs :
        Alone(j) =>
            /\ job[j].step = "sweep" /\ ~job[j].written
                   => job[j].cause \/ job[j].stop_requested
            /\ job[j].outcome = "error" => job[j].cause \/ job[j].stop_requested
            /\ job[j].state = "failed" => job[j].cause

(* The last event told is the last emitted, and the last tile's is one.    *)
Told(j) == job[j].drained \o job[j].pending_progress

Rising(s) == \A a, b \in DOMAIN s : a < b => s[a] < s[b]

ToldInOrder ==
    \A j \in Jobs :
        /\ Rising(Told(j))
        /\ job[j].last_emitted = IF Told(j) = <<>> THEN 0 ELSE Told(j)[Len(Told(j))]
        /\ job[j].last_emitted <= job[j].tile
        /\ job[j].tile = Tiles => job[j].last_emitted = Tiles
        /\ job[j].step = "rename" \/ job[j].written => job[j].tile = Tiles
        /\ job[j].outcome = "ok" => job[j].written
        /\ job[j].state = "completed" => job[j].outcome = "ok" /\ job[j].fraction = Tiles

ExportInv == Typed /\ FilesInv /\ CauseKnown /\ ToldInOrder

-----------------------------------------------------------------------------
\* What the proofs use of a name: a target is never a temporary file.
LEMMA NamesApart ==
    ASSUME JobsAssumption
    PROVE  /\ \A p \in Paths : p \in Names
           /\ \A p \in Paths, q \in Processes : <<p, q>> \in Names
           /\ \A p, p2 \in Paths, q \in Processes : p2 # <<p, q>>
           /\ \A j \in Jobs : ProcessOf[j] \in Processes /\ j # Old /\ j # None
           /\ \A j \in Jobs : j \in Streams
BY DEF JobsAssumption, Names, Streams

LEMMA InitTyped ==
    ASSUME JobsAssumption, Init
    PROVE  Typed
<1>1. NoJob \in JobRecords
    BY DEF NoJob, JobRecords, JobsAssumption, Steps, Outcomes, Ended, Streams
<1>2. data \in [Streams -> [Pieces -> Streams \cup {None}]]
    BY DEF Init, EmptyFile, Streams
<1> QED
    BY <1>1, <1>2 DEF Init, Typed, Streams

\* What becomes of one job leaves the others alone.
LEMMA OneJob ==
    ASSUME Typed, NEW j \in Jobs, NEW record \in JobRecords, Becomes(j, record)
    PROVE  /\ job' \in [Jobs -> JobRecords]
           /\ job'[j] = record
           /\ \A k \in Jobs \ {j} : job'[k] = job[k]
BY DEF Typed, Becomes

LEMMA EmitFields ==
    ASSUME JobsAssumption, Typed, NEW j \in Jobs, job[j].tile < Tiles,
           NEW done, done = job[j].tile + 1
    PROVE  /\ emit(j, done) \in JobRecords
           /\ emit(j, done).path = job[j].path /\ emit(j, done).step = job[j].step
           /\ emit(j, done).state = job[j].state /\ emit(j, done).file = job[j].file
           /\ emit(j, done).written = job[j].written /\ emit(j, done).outcome = job[j].outcome
           /\ emit(j, done).stop_requested = job[j].stop_requested
           /\ emit(j, done).drained = job[j].drained
           /\ emit(j, done).tile = done
           /\ emit(j, done).bad = job[j].bad /\ emit(j, done).cause = job[j].cause
           /\ \/ /\ Tells(j, done) /\ emit(j, done).last_emitted = done
                 /\ emit(j, done).pending_progress = Append(job[j].pending_progress, done)
              \/ /\ ~Tells(j, done)
                 /\ emit(j, done).last_emitted = job[j].last_emitted
                 /\ emit(j, done).pending_progress = job[j].pending_progress
<1> DEFINE pending == IF Tells(j, done) THEN Append(job[j].pending_progress, done)
                                        ELSE job[j].pending_progress
           last == IF Tells(j, done) THEN done ELSE job[j].last_emitted
<1>1. job[j] \in JobRecords
    BY DEF Typed
<1>2. done \in 1 .. Tiles /\ done \in 0 .. Tiles
    BY <1>1 DEF JobRecords, JobsAssumption
<1>3. pending \in Seq(1 .. Tiles) /\ last \in 0 .. Tiles
    <2>1. /\ job[j].pending_progress \in Seq(1 .. Tiles)
          /\ job[j].last_emitted \in 0 .. Tiles
        BY <1>1 DEF JobRecords
    <2>2. Append(job[j].pending_progress, done) \in Seq(1 .. Tiles)
        BY <2>1, <1>2
    <2> QED BY <1>2, <2>1, <2>2
<1>4. \/ Tells(j, done) /\ last = done /\ pending = Append(job[j].pending_progress, done)
      \/ ~Tells(j, done) /\ last = job[j].last_emitted /\ pending = job[j].pending_progress
    BY Zenon
<1>5. emit(j, done) =
          [job[j] EXCEPT !.tile = done, !.fraction = done, !.pending_progress = pending,
                         !.last_emitted = last]
    BY DEF emit
<1> HIDE DEF pending, last
<1>6. emit(j, done) \in JobRecords
    BY <1>1, <1>2, <1>3, <1>5 DEF JobRecords
<1>7. /\ emit(j, done).path = job[j].path /\ emit(j, done).step = job[j].step
      /\ emit(j, done).state = job[j].state /\ emit(j, done).file = job[j].file
      /\ emit(j, done).written = job[j].written /\ emit(j, done).outcome = job[j].outcome
      /\ emit(j, done).stop_requested = job[j].stop_requested
      /\ emit(j, done).drained = job[j].drained
      /\ emit(j, done).tile = done
      /\ emit(j, done).bad = job[j].bad /\ emit(j, done).cause = job[j].cause
      /\ emit(j, done).pending_progress = pending /\ emit(j, done).last_emitted = last
    BY <1>1, <1>5 DEF JobRecords
<1> QED
    BY <1>4, <1>6, <1>7

\* The record of a job after any step of its worker is a job's record.
LEMMA WorkerRecords ==
    ASSUME JobsAssumption, Typed, NEW j \in Jobs, job[j].path \in Paths, Worker(j)
    PROVE  job' \in [Jobs -> JobRecords]
<1>1. job[j] \in JobRecords /\ temp_path_for(j) \in Names
    BY NamesApart DEF Typed, temp_path_for
<1>2. ASSUME NEW s \in Steps PROVE [job[j] EXCEPT !.step = s] \in JobRecords
    BY <1>1 DEF JobRecords
<1>3. ASSUME NEW s \in Steps, NEW c \in BOOLEAN
      PROVE [job[j] EXCEPT !.step = s, !.cause = c] \in JobRecords
    BY <1>1 DEF JobRecords
<1>4. CASE Check(j)
    <2>1. [job[j] EXCEPT !.step = "report", !.outcome = "error",
                         !.cause = ~job[j].overwrite_confirmed] \in JobRecords
        BY <1>1 DEF JobRecords, Steps, Outcomes
    <2>2. [job[j] EXCEPT !.step = "open"] \in JobRecords
        BY <1>2 DEF Steps
    <2> QED BY <1>4, <2>1, <2>2, OneJob DEF Check
<1>5. CASE Open(j)
    <2> DEFINE file == IF directory[temp_path_for(j)] = None THEN j
                                                            ELSE directory[temp_path_for(j)]
    <2>1. file \in Streams
        BY <1>1, NamesApart DEF Typed
    <2> HIDE DEF file
    <2>2. [job[j] EXCEPT !.step = "tile", !.file = file] \in JobRecords
        BY <1>1, <2>1 DEF JobRecords, Steps
    <2>3. [job[j] EXCEPT !.step = "sweep", !.cause = TRUE] \in JobRecords
        BY <1>3 DEF Steps
    <2>4. \/ Becomes(j, [job[j] EXCEPT !.step = "tile", !.file = file])
          \/ Becomes(j, [job[j] EXCEPT !.step = "sweep", !.cause = TRUE])
        BY <1>5 DEF Open, file
    <2> QED BY <2>2, <2>3, <2>4, OneJob
<1>6. CASE Tile(j)
    <2> DEFINE next == emit(j, job[j].tile + 1)
    <2>1. job[j].tile < Tiles
        BY <1>6 DEF Tile
    <2>2. next \in JobRecords
        BY <2>1, EmitFields
    <2>3. Becomes(j, next) \/ Becomes(j, [next EXCEPT !.bad = TRUE, !.cause = TRUE])
        BY <1>6 DEF Tile
    <2> HIDE DEF next
    <2>4. [next EXCEPT !.bad = TRUE, !.cause = TRUE] \in JobRecords
        BY <2>2 DEF JobRecords
    <2> QED BY <2>2, <2>3, <2>4, OneJob
<1>7. CASE Abandon(j)
    <2>1. (job[j].cause \/ ~job[j].stop_requested) \in BOOLEAN
        OBVIOUS
    <2>2. [job[j] EXCEPT !.step = "sweep", !.cause = job[j].cause \/ ~job[j].stop_requested]
              \in JobRecords
        BY <1>3, <2>1 DEF Steps
    <2> QED BY <1>7, <2>2, OneJob DEF Abandon
<1>8. CASE Finish(j)
    <2>1. /\ [job[j] EXCEPT !.step = "rename"] \in JobRecords
          /\ [job[j] EXCEPT !.step = "sweep", !.cause = TRUE] \in JobRecords
        BY <1>2, <1>3 DEF Steps
    <2> QED BY <1>8, <2>1, OneJob DEF Finish
<1>9. CASE Rename(j)
    <2>1. [job[j] EXCEPT !.step = "sweep", !.written = TRUE] \in JobRecords
        BY <1>1 DEF JobRecords, Steps
    <2>2. [job[j] EXCEPT !.step = "sweep",
                         !.cause = job[j].cause \/ directory[temp_path_for(j)] # None]
              \in JobRecords
        <3>1. (job[j].cause \/ directory[temp_path_for(j)] # None) \in BOOLEAN
            OBVIOUS
        <3> QED BY <1>3, <3>1 DEF Steps
    <2> QED BY <1>9, <2>1, <2>2, OneJob DEF Rename
<1>10. CASE Sweep(j)
    <2> DEFINE outcome == IF job[j].stop_requested THEN "cancelled"
                          ELSE IF job[j].written THEN "ok" ELSE "error"
    <2>1. outcome \in Outcomes
        BY DEF Outcomes
    <2> HIDE DEF outcome
    <2>2. [job[j] EXCEPT !.step = "report", !.outcome = outcome] \in JobRecords
        BY <1>1, <2>1 DEF JobRecords, Steps
    <2>3. Becomes(j, [job[j] EXCEPT !.step = "report", !.outcome = outcome])
        BY <1>10 DEF Sweep, outcome
    <2> QED BY <2>2, <2>3, OneJob
<1>11. CASE Report(j)
    <2>1. /\ [job[j] EXCEPT !.step = "ended", !.state = "cancelled"] \in JobRecords
          /\ [job[j] EXCEPT !.step = "ended", !.state = "failed"] \in JobRecords
        BY <1>1 DEF JobRecords, Steps, Ended
    <2>2. [job[j] EXCEPT !.step = "ended", !.state = "completed", !.fraction = Tiles]
              \in JobRecords
        <3>1. Tiles \in 0 .. Tiles
            BY DEF JobsAssumption
        <3> QED BY <1>1, <3>1 DEF JobRecords, Steps, Ended
    <2> QED BY <1>11, <2>1, <2>2, OneJob DEF Report
<1> QED
    BY <1>4, <1>5, <1>6, <1>7, <1>8, <1>9, <1>10, <1>11 DEF Worker

LEMMA WorkerTyped ==
    ASSUME JobsAssumption, Typed, NEW j \in Jobs, job[j].path \in Paths, Worker(j)
    PROVE  Typed'
<1>1. job[j] \in JobRecords /\ temp_path_for(j) \in Names
    BY NamesApart DEF Typed, temp_path_for
<1>2. job' \in [Jobs -> JobRecords]
    BY WorkerRecords
<1>3. Removed(j) \in [Names -> Streams \cup {None}]
    BY <1>1 DEF Removed, Typed
<1>4. directory' \in [Names -> Streams \cup {None}]
    <2>1. CASE Open(j)
        BY <2>1, <1>1, <1>3, NamesApart DEF Open, Typed
    <2>2. CASE Rename(j)
        BY <2>2, <1>1, <1>3, NamesApart DEF Rename, Typed
    <2> QED
        BY <2>1, <2>2, <1>3 DEF Worker, Check, Tile, Abandon, Finish, Sweep, Report, Typed
<1>5. data' \in [Streams -> [Pieces -> Streams \cup {None}]]
    <2>1. ASSUME NEW piece \in Pieces, Takes(j, piece)
          PROVE  data' \in [Streams -> [Pieces -> Streams \cup {None}]]
        BY <2>1, <1>1, NamesApart DEF Takes, Typed
    <2>2. CASE Open(j)
        <3>1. EmptyFile \in [Pieces -> Streams \cup {None}]
            BY DEF EmptyFile
        <3>2. ASSUME NEW file \in Streams
              PROVE  [data EXCEPT ![file] = EmptyFile] \in [Streams -> [Pieces -> Streams \cup {None}]]
            BY <3>1 DEF Typed
        <3> DEFINE file == IF directory[temp_path_for(j)] = None THEN j
                           ELSE directory[temp_path_for(j)]
        <3>3. file \in Streams
            BY <1>1, NamesApart DEF Typed
        <3>4. data' = [data EXCEPT ![file] = EmptyFile] \/ data' = data
            BY <2>2 DEF Open
        <3> HIDE DEF file
        <3> QED BY <3>2, <3>3, <3>4 DEF Typed
    <2>3. CASE Tile(j)
        <3>1. job[j].tile + 1 \in Pieces
            BY <2>3, <1>1 DEF Tile, JobRecords, Pieces, JobsAssumption
        <3> QED BY <2>1, <2>3, <3>1 DEF Tile, Typed
    <2>4. CASE Finish(j)
        <3>1. Tiles + 1 \in Pieces
            BY DEF Pieces, JobsAssumption
        <3> QED BY <2>1, <2>4, <3>1 DEF Finish, Typed
    <2> QED
        BY <2>2, <2>3, <2>4 DEF Worker, Check, Abandon, Rename, Sweep, Report, Typed
<1>6. crashed' = crashed /\ contended' = contended
    BY DEF Worker, Check, Open, Tile, Abandon, Finish, Rename, Sweep, Report
<1> QED
    BY <1>2, <1>4, <1>5, <1>6 DEF Typed

-----------------------------------------------------------------------------
(***************************************************************************)
(* The files.  A step of a worker changes its own record, its own          *)
(* temporary name and, at the rename, its target.                          *)
(***************************************************************************)
LEMMA WorkerChanges ==
    ASSUME Typed, NEW j \in Jobs
    PROVE  /\ Check(j) => \/ job'[j] = [job[j] EXCEPT !.step = "report", !.outcome = "error",
                                             !.cause = ~job[j].overwrite_confirmed]
                          \/ job'[j] = [job[j] EXCEPT !.step = "open"]
           /\ Open(j) => \/ \E file :
                               job'[j] = [job[j] EXCEPT !.step = "tile", !.file = file]
                         \/ job'[j] = [job[j] EXCEPT !.step = "sweep", !.cause = TRUE]
           /\ Abandon(j) => job'[j] = [job[j] EXCEPT !.step = "sweep",
                                   !.cause = job[j].cause \/ ~job[j].stop_requested]
           /\ Finish(j) => \/ job'[j] = [job[j] EXCEPT !.step = "rename"]
                           \/ job'[j] = [job[j] EXCEPT !.step = "sweep", !.cause = TRUE]
           /\ Rename(j) => \/ job'[j] = [job[j] EXCEPT !.step = "sweep", !.written = TRUE]
                           \/ job'[j] = [job[j] EXCEPT !.step = "sweep",
                                  !.cause = job[j].cause \/ directory[temp_path_for(j)] # None]
           /\ Sweep(j) => \E outcome \in Outcomes :
                              job'[j] = [job[j] EXCEPT !.step = "report", !.outcome = outcome]
           /\ Report(j) => \/ job'[j] = [job[j] EXCEPT !.step = "ended", !.state = "cancelled"]
                           \/ job'[j] = [job[j] EXCEPT !.step = "ended", !.state = "completed",
                                                       !.fraction = Tiles]
                           \/ job'[j] = [job[j] EXCEPT !.step = "ended", !.state = "failed"]
<1>1. ASSUME NEW record, Becomes(j, record) PROVE job'[j] = record
    BY <1>1 DEF Becomes, Typed
<1>2. job[j] \in JobRecords /\ (temp_path_for(j) \in Names => directory[temp_path_for(j)] \in Streams \cup {None})
    BY DEF Typed
<1>3. ASSUME Check(j)
      PROVE  \/ job'[j] = [job[j] EXCEPT !.step = "report", !.outcome = "error",
                                        !.cause = ~job[j].overwrite_confirmed]
             \/ job'[j] = [job[j] EXCEPT !.step = "open"]
    BY <1>1, <1>3 DEF Check
<1>6. ASSUME Open(j)
      PROVE  \/ \E file : job'[j] = [job[j] EXCEPT !.step = "tile", !.file = file]
             \/ job'[j] = [job[j] EXCEPT !.step = "sweep", !.cause = TRUE]
    BY <1>1, <1>6 DEF Open
<1>8. ASSUME Sweep(j)
      PROVE  \E outcome \in Outcomes : job'[j] = [job[j] EXCEPT !.step = "report", !.outcome = outcome]
    BY <1>1, <1>8 DEF Sweep, Outcomes
<1> QED
    BY <1>1, <1>3, <1>6, <1>8 DEF Abandon, Finish, Rename, Report


\* What a step of a worker makes of its own record, field by field.
KeepsTold(j) ==
    /\ job'[j].tile = job[j].tile /\ job'[j].bad = job[j].bad
    /\ job'[j].last_emitted = job[j].last_emitted
    /\ job'[j].pending_progress = job[j].pending_progress
    /\ job'[j].drained = job[j].drained
    /\ job'[j].stop_requested = job[j].stop_requested
KeepsResult(j) ==
    /\ job'[j].written = job[j].written /\ job'[j].outcome = job[j].outcome
    /\ job'[j].state = job[j].state /\ job'[j].fraction = job[j].fraction

LEMMA CheckFields ==
    ASSUME Typed, NEW j \in Jobs, Check(j)
    PROVE  /\ job[j].step = "check" /\ KeepsTold(j) /\ job'[j].written = job[j].written
           /\ job'[j].state = job[j].state /\ job'[j].fraction = job[j].fraction
           /\ \/ job'[j].step = "report" /\ job'[j].outcome = "error" /\ job'[j].cause
              \/ job'[j].step = "open" /\ job'[j].outcome = job[j].outcome
                 /\ job'[j].cause = job[j].cause
<1>1. job[j] \in JobRecords
    BY DEF Typed
<1>2. ASSUME NEW record, Becomes(j, record) PROVE job'[j] = record
    BY <1>2 DEF Becomes, Typed
<1>3. CASE Overwrites(job[j].path, job[j].overwrite_confirmed)
    <2>1. ~job[j].overwrite_confirmed
        BY <1>3 DEF Overwrites
    <2>2. job'[j] = [job[j] EXCEPT !.step = "report", !.outcome = "error",
                                   !.cause = ~job[j].overwrite_confirmed]
        BY <1>2, <1>3 DEF Check
    <2> QED BY <1>1, <2>1, <2>2 DEF Check, At, JobRecords, KeepsTold
<1>4. CASE ~Overwrites(job[j].path, job[j].overwrite_confirmed)
    <2>1. job'[j] = [job[j] EXCEPT !.step = "open"]
        BY <1>2, <1>4 DEF Check
    <2> QED BY <1>1, <2>1 DEF Check, At, JobRecords, KeepsTold
<1> QED
    BY <1>3, <1>4

LEMMA OpenFields ==
    ASSUME Typed, NEW j \in Jobs, Open(j)
    PROVE  /\ job[j].step = "open" /\ KeepsTold(j) /\ KeepsResult(j)
           /\ \/ job'[j].step = "tile" /\ job'[j].cause = job[j].cause
              \/ job'[j].step = "sweep" /\ job'[j].cause
<1>1. job[j] \in JobRecords
    BY DEF Typed
<1>2. \/ \E file : job'[j] = [job[j] EXCEPT !.step = "tile", !.file = file]
      \/ job'[j] = [job[j] EXCEPT !.step = "sweep", !.cause = TRUE]
    BY WorkerChanges
<1>3. CASE \E file : job'[j] = [job[j] EXCEPT !.step = "tile", !.file = file]
    <2>1. PICK file : job'[j] = [job[j] EXCEPT !.step = "tile", !.file = file]
        BY <1>3
    <2> QED BY <1>1, <2>1 DEF Open, At, JobRecords, KeepsTold, KeepsResult
<1>4. CASE job'[j] = [job[j] EXCEPT !.step = "sweep", !.cause = TRUE]
    BY <1>1, <1>4 DEF Open, At, JobRecords, KeepsTold, KeepsResult
<1> QED
    BY <1>2, <1>3, <1>4

LEMMA AbandonFields ==
    ASSUME Typed, NEW j \in Jobs, Abandon(j)
    PROVE  /\ job[j].step = "tile" /\ KeepsTold(j) /\ KeepsResult(j)
           /\ job'[j].step = "sweep" /\ (job'[j].cause \/ job[j].stop_requested)
<1> DEFINE cause == job[j].cause \/ ~job[j].stop_requested
<1>1. job[j] \in JobRecords
    BY DEF Typed
<1>2. job'[j] = [job[j] EXCEPT !.step = "sweep", !.cause = cause]
    BY WorkerChanges
<1>3. cause => job'[j].cause
    <2> HIDE DEF cause
    <2>1. job'[j].cause = cause
        BY <1>1, <1>2 DEF JobRecords
    <2> QED BY <2>1
<1>4. cause \/ job[j].stop_requested
    OBVIOUS
<1> HIDE DEF cause
<1>5. /\ job[j].step = "tile" /\ KeepsTold(j) /\ KeepsResult(j) /\ job'[j].step = "sweep"
    BY <1>1, <1>2 DEF Abandon, At, JobRecords, KeepsTold, KeepsResult
<1> QED
    BY <1>3, <1>4, <1>5

LEMMA FinishFields ==
    ASSUME Typed, NEW j \in Jobs, Finish(j)
    PROVE  /\ job[j].step = "tile" /\ job[j].tile = Tiles /\ KeepsTold(j) /\ KeepsResult(j)
           /\ \/ job'[j].step = "rename" /\ job'[j].cause = job[j].cause
              \/ job'[j].step = "sweep" /\ job'[j].cause
<1>1. job[j] \in JobRecords
    BY DEF Typed
<1>2. CASE job'[j] = [job[j] EXCEPT !.step = "rename"]
    BY <1>1, <1>2 DEF Finish, At, JobRecords, KeepsTold, KeepsResult
<1>3. CASE job'[j] = [job[j] EXCEPT !.step = "sweep", !.cause = TRUE]
    BY <1>1, <1>3 DEF Finish, At, JobRecords, KeepsTold, KeepsResult
<1> QED
    BY <1>2, <1>3, WorkerChanges

LEMMA RenameFields ==
    ASSUME Typed, NEW j \in Jobs, Rename(j)
    PROVE  /\ job[j].step = "rename" /\ KeepsTold(j) /\ job'[j].outcome = job[j].outcome
           /\ job'[j].state = job[j].state /\ job'[j].fraction = job[j].fraction
           /\ job'[j].step = "sweep"
           /\ \/ job'[j].written /\ job'[j].cause = job[j].cause
              \/ /\ job'[j].written = job[j].written
                 /\ directory[temp_path_for(j)] # None => job'[j].cause
<1> DEFINE cause == job[j].cause \/ directory[temp_path_for(j)] # None
<1>1. job[j] \in JobRecords /\ (directory[temp_path_for(j)] # None => cause)
    BY DEF Typed
<1> HIDE DEF cause
<1>2. CASE job'[j] = [job[j] EXCEPT !.step = "sweep", !.written = TRUE]
    BY <1>1, <1>2 DEF Rename, At, JobRecords, KeepsTold
<1>3. CASE job'[j] = [job[j] EXCEPT !.step = "sweep", !.cause = cause]
    <2>1. directory[temp_path_for(j)] # None => job'[j].cause
        <3>1. job'[j].cause = cause
            BY <1>1, <1>3 DEF JobRecords
        <3> QED BY <1>1, <3>1
    <2>2. job'[j].step = "sweep" /\ job'[j].written = job[j].written /\ KeepsTold(j)
          /\ job'[j].outcome = job[j].outcome
          /\ job'[j].state = job[j].state /\ job'[j].fraction = job[j].fraction
        BY <1>1, <1>3 DEF JobRecords, KeepsTold
    <2> QED BY <2>1, <2>2 DEF Rename, At
<1> QED
    BY <1>2, <1>3, WorkerChanges DEF cause

LEMMA SweepFields ==
    ASSUME Typed, NEW j \in Jobs, Sweep(j)
    PROVE  /\ job[j].step = "sweep" /\ KeepsTold(j) /\ job'[j].written = job[j].written
           /\ job'[j].state = job[j].state /\ job'[j].fraction = job[j].fraction
           /\ job'[j].cause = job[j].cause /\ job'[j].step = "report"
           /\ \/ job'[j].outcome = "cancelled"
              \/ job'[j].outcome = "ok" /\ job[j].written
              \/ job'[j].outcome = "error" /\ ~job[j].written
<1> DEFINE outcome == IF job[j].stop_requested THEN "cancelled"
                      ELSE IF job[j].written THEN "ok" ELSE "error"
<1>1. job[j] \in JobRecords
    BY DEF Typed
<1>2. Becomes(j, [job[j] EXCEPT !.step = "report", !.outcome = outcome])
    BY DEF Sweep
<1>3. \/ outcome = "cancelled"
      \/ outcome = "ok" /\ job[j].written
      \/ outcome = "error" /\ ~job[j].written
    BY Zenon
<1> HIDE DEF outcome
<1>4. job'[j] = [job[j] EXCEPT !.step = "report", !.outcome = outcome]
    BY <1>2 DEF Becomes, Typed
<1>5. /\ KeepsTold(j) /\ job'[j].written = job[j].written
      /\ job'[j].state = job[j].state /\ job'[j].fraction = job[j].fraction
      /\ job'[j].cause = job[j].cause /\ job'[j].step = "report" /\ job'[j].outcome = outcome
    BY <1>1, <1>4 DEF JobRecords, KeepsTold
<1>6. job[j].step = "sweep"
    BY DEF Sweep, At
<1> QED
    BY <1>3, <1>5, <1>6

LEMMA ReportFields ==
    ASSUME Typed, NEW j \in Jobs, Report(j)
    PROVE  /\ job[j].step = "report" /\ KeepsTold(j) /\ job'[j].written = job[j].written
           /\ job'[j].outcome = job[j].outcome
           /\ job'[j].cause = job[j].cause /\ job'[j].step = "ended"
           /\ \/ job'[j].state = "cancelled"
              \/ job'[j].state = "completed" /\ job[j].outcome = "ok" /\ job'[j].fraction = Tiles
              \/ job'[j].state = "failed" /\ job[j].outcome = "error" /\ ~job[j].stop_requested
<1>1. job[j] \in JobRecords
    BY DEF Typed
<1>2. ASSUME NEW record, Becomes(j, record) PROVE job'[j] = record
    BY <1>2 DEF Becomes, Typed
<1>3. \/ job'[j] = [job[j] EXCEPT !.step = "ended", !.state = "cancelled"]
      \/ /\ job[j].outcome = "ok"
         /\ job'[j] = [job[j] EXCEPT !.step = "ended", !.state = "completed", !.fraction = Tiles]
      \/ /\ job[j].outcome = "error" /\ ~job[j].stop_requested
         /\ job'[j] = [job[j] EXCEPT !.step = "ended", !.state = "failed"]
    BY <1>2 DEF Report
<1>4. job[j].step = "report"
    BY DEF Report, At
<1>5. CASE job'[j] = [job[j] EXCEPT !.step = "ended", !.state = "cancelled"]
    BY <1>1, <1>4, <1>5 DEF JobRecords, KeepsTold
<1>6. CASE /\ job[j].outcome = "ok"
           /\ job'[j] = [job[j] EXCEPT !.step = "ended", !.state = "completed", !.fraction = Tiles]
    BY <1>1, <1>4, <1>6 DEF JobRecords, KeepsTold
<1>7. CASE /\ job[j].outcome = "error" /\ ~job[j].stop_requested
           /\ job'[j] = [job[j] EXCEPT !.step = "ended", !.state = "failed"]
    BY <1>1, <1>4, <1>7 DEF JobRecords, KeepsTold
<1> QED
    BY <1>3, <1>5, <1>6, <1>7

LEMMA TileFields ==
    ASSUME JobsAssumption, Typed, NEW j \in Jobs, Tile(j)
    PROVE  /\ job[j].step = "tile" /\ job'[j].step = "tile"
           /\ job'[j].path = job[j].path /\ job'[j].file = job[j].file
           /\ job'[j].written = job[j].written /\ job'[j].outcome = job[j].outcome
           /\ job'[j].state = job[j].state
           /\ job'[j].stop_requested = job[j].stop_requested
           /\ job'[j].drained = job[j].drained
           /\ job'[j].tile = job[j].tile + 1
           /\ job'[j].bad \/ Takes(j, job[j].tile + 1)
           /\ job[j].cause => job'[j].cause
           /\ \/ /\ Tells(j, job[j].tile + 1) /\ job'[j].last_emitted = job[j].tile + 1
                 /\ job'[j].pending_progress = Append(job[j].pending_progress, job[j].tile + 1)
              \/ /\ ~Tells(j, job[j].tile + 1)
                 /\ job'[j].last_emitted = job[j].last_emitted
                 /\ job'[j].pending_progress = job[j].pending_progress
<1> DEFINE done == job[j].tile + 1
           next == emit(j, done)
<1>1. /\ next \in JobRecords
      /\ next.path = job[j].path /\ next.step = job[j].step
      /\ next.state = job[j].state /\ next.file = job[j].file
      /\ next.written = job[j].written /\ next.outcome = job[j].outcome
      /\ next.stop_requested = job[j].stop_requested /\ next.drained = job[j].drained
      /\ next.tile = done
      /\ next.bad = job[j].bad /\ next.cause = job[j].cause
      /\ \/ /\ Tells(j, done) /\ next.last_emitted = done
            /\ next.pending_progress = Append(job[j].pending_progress, done)
         \/ /\ ~Tells(j, done)
            /\ next.last_emitted = job[j].last_emitted
            /\ next.pending_progress = job[j].pending_progress
    <2>1. job[j].tile < Tiles
        BY DEF Tile
    <2> QED BY <2>1, EmitFields
<1>2. ASSUME NEW record, Becomes(j, record) PROVE job'[j] = record
    BY <1>2 DEF Becomes, Typed
<1>3. \/ Takes(j, done) /\ job'[j] = next
      \/ job'[j] = [next EXCEPT !.bad = TRUE, !.cause = TRUE]
    BY <1>2 DEF Tile
<1>4. job[j].step = "tile"
    BY DEF Tile, At
<1> HIDE DEF next, done
<1>5. CASE Takes(j, done) /\ job'[j] = next
    BY <1>1, <1>4, <1>5 DEF done
<1>6. CASE job'[j] = [next EXCEPT !.bad = TRUE, !.cause = TRUE]
    <2>1. /\ job'[j].path = next.path /\ job'[j].step = next.step
          /\ job'[j].state = next.state /\ job'[j].file = next.file
          /\ job'[j].written = next.written /\ job'[j].outcome = next.outcome
          /\ job'[j].stop_requested = next.stop_requested /\ job'[j].drained = next.drained
          /\ job'[j].tile = next.tile /\ job'[j].last_emitted = next.last_emitted
          /\ job'[j].pending_progress = next.pending_progress
          /\ job'[j].bad /\ job'[j].cause
        BY <1>1, <1>6 DEF JobRecords
    <2> QED BY <1>1, <1>4, <2>1 DEF done
<1> QED
    BY <1>3, <1>5, <1>6

LEMMA WorkerSteps ==
    ASSUME JobsAssumption, Typed, StepsMatch, NEW j \in Jobs, Worker(j)
    PROVE  /\ Running(j) /\ job[j].path \in Paths
           /\ \A k \in Jobs \ {j} : job'[k] = job[k]
           /\ job'[j].path = job[j].path
           /\ \A k \in Jobs : temp_path_for(k)' = temp_path_for(k) /\ (Alone(k)' <=> Alone(k))
           /\ Uncontended' = Uncontended
           /\ \/ job'[j].state = "running" /\ job'[j].step \in Steps \ {"unborn", "ended"}
              \/ job'[j].state \in Ended /\ job'[j].step = "ended"
<1>1. Running(j) /\ job[j].path \in Paths
    BY DEF StepsMatch, Worker, Check, Open, Tile, Abandon, Finish, Rename, Sweep, Report, At,
           Running, Typed, JobRecords, Steps, Ended
<1>2. \A k \in Jobs \ {j} : job'[k] = job[k]
    BY DEF Worker, Check, Open, Tile, Abandon, Finish, Rename, Sweep, Report, Becomes, Typed
<1>3. job[j] \in JobRecords
    BY DEF Typed
<1> DEFINE Goal == /\ job'[j].path = job[j].path
                   /\ \/ job'[j].state = "running" /\ job'[j].step \in Steps \ {"unborn", "ended"}
                      \/ job'[j].state \in Ended /\ job'[j].step = "ended"
<1>4. ASSUME Check(j) PROVE Goal
    BY <1>1, <1>3, <1>4, WorkerChanges DEF JobRecords, Running, Steps
<1>5. ASSUME Open(j) PROVE Goal
    BY <1>1, <1>3, <1>5, WorkerChanges DEF JobRecords, Running, Steps
<1>6. ASSUME Tile(j) PROVE Goal
    BY <1>1, <1>6, TileFields DEF Running, Steps
<1>7. ASSUME Abandon(j) PROVE Goal
    BY <1>1, <1>3, <1>7, WorkerChanges DEF JobRecords, Running, Steps
<1>8. ASSUME Finish(j) PROVE Goal
    BY <1>1, <1>3, <1>8, WorkerChanges DEF JobRecords, Running, Steps
<1>9. ASSUME Rename(j) PROVE Goal
    BY <1>1, <1>3, <1>9, WorkerChanges DEF JobRecords, Running, Steps
<1>10. ASSUME Sweep(j) PROVE Goal
    BY <1>1, <1>3, <1>10, WorkerChanges DEF JobRecords, Running, Steps
<1>11. ASSUME Report(j) PROVE Goal
    BY <1>1, <1>3, <1>11, WorkerChanges DEF JobRecords, Running, Steps, Ended
<1>12. Goal
    BY <1>4, <1>5, <1>6, <1>7, <1>8, <1>9, <1>10, <1>11 DEF Worker
<1>13. /\ \A k \in Jobs : temp_path_for(k)' = temp_path_for(k) /\ (Alone(k)' <=> Alone(k))
       /\ Uncontended' = Uncontended
    <2>1. contended' = contended
        BY DEF Worker, Check, Open, Tile, Abandon, Finish, Rename, Sweep, Report
    <2> QED BY <1>2, <1>12, <2>1 DEF temp_path_for, Alone, Uncontended
<1> QED
    BY <1>1, <1>2, <1>12, <1>13

\* A worker whose name is not contended shares it with no running job.
LEMMA OwnTemporary ==
    ASSUME Typed, OneJobAPath, NEW j \in Jobs, NEW k \in Jobs, j # k,
           Running(j), Running(k), Alone(k)
    PROVE  temp_path_for(j) # temp_path_for(k)
BY DEF OneJobAPath

LEMMA WorkerKeepsOneJob ==
    ASSUME JobsAssumption, Typed, StepsMatch, OneJobAPath, NEW j \in Jobs, Worker(j)
    PROVE  StepsMatch' /\ OneJobAPath'
<1>1. StepsMatch'
    BY WorkerSteps DEF StepsMatch, Ended, Steps
<1>2. \A k \in Jobs : Running(k)' => Running(k)
    BY WorkerSteps DEF Running
<1> QED
    BY <1>2, <1>1, WorkerSteps DEF OneJobAPath

LEMMA WritingIsRunning ==
    ASSUME Typed, StepsMatch, NEW j \in Jobs, Writing(j)
    PROVE  Running(j) /\ job[j].path \in Paths
BY DEF StepsMatch, Writing, Running, Typed, JobRecords, Ended

\* A running job that does not write has no temporary file.
LEMMA NoTempBesideWriting ==
    ASSUME JobsAssumption, Typed, FilesInv, NEW j \in Jobs, Running(j), ~Writing(j),
           job[j].path \in Paths, Alone(j)
    PROVE  directory[temp_path_for(j)] = None
<1>1. ProcessOf[j] \in Processes
    BY NamesApart
<1>2. \A k \in Jobs : Writing(k) => Running(k)
    BY WritingIsRunning DEF FilesInv
<1> QED
    BY <1>1, <1>2 DEF FilesInv, TempHasWriter, OneJobAPath, temp_path_for

\* What a step of a worker alone on its name does to names and files.
LEMMA WorkerFilesAlone ==
    ASSUME JobsAssumption, Typed, FilesInv, NEW j \in Jobs, Alone(j), Worker(j)
    PROVE  /\ \A n \in Names : n # temp_path_for(j) /\ n # job[j].path
                   => directory'[n] = directory[n]
           /\ \A s \in Streams \ {j} : data'[s] = data[s]
           /\ \/ directory'[job[j].path] = directory[job[j].path]
              \/ Rename(j) /\ directory'[job[j].path] = j /\ job'[j].written
           /\ Writing(j)' => directory'[temp_path_for(j)] = j /\ job'[j].file = j
           /\ ~Writing(j)' => directory'[temp_path_for(j)] = None
           /\ job[j].step \notin {"open", "tile"} => data' = data
<1> USE DEF temp_path_for
<1>1. /\ Running(j) /\ job[j].path \in Paths
      /\ job[j] \in JobRecords
      /\ temp_path_for(j) \in Names /\ job[j].path \in Names
      /\ temp_path_for(j) # job[j].path
      /\ j \in Streams /\ j # None
    BY WorkerSteps, NamesApart DEF FilesInv, Typed
<1>2. Writing(j) => job[j].file = j /\ directory[temp_path_for(j)] = j
    BY DEF FilesInv, WritesItsOwn
<1>3. ~Writing(j) => directory[temp_path_for(j)] = None
    BY <1>1, NoTempBesideWriting
<1> HIDE DEF temp_path_for
<1>4. /\ Removed(j)[temp_path_for(j)] = None
      /\ \A n \in Names \ {temp_path_for(j)} : Removed(j)[n] = directory[n]
      /\ DOMAIN Removed(j) = Names
    BY <1>1 DEF Removed, Typed
<1>5. CASE Check(j)
    BY <1>1, <1>3, <1>5, WorkerChanges DEF Check, At, Writing, JobRecords
<1>6. CASE Open(j)
    <2>1. job[j].step = "open" /\ directory[temp_path_for(j)] = None
        BY <1>3, <1>6 DEF Open, At, Writing
    <2>2. ASSUME NEW record, Becomes(j, record) PROVE job'[j] = record
        BY <2>2 DEF Becomes, Typed
    <2>3. \/ /\ directory' = [directory EXCEPT ![temp_path_for(j)] = j]
             /\ data' = [data EXCEPT ![j] = EmptyFile]
             /\ job'[j] = [job[j] EXCEPT !.step = "tile", !.file = j]
          \/ /\ directory' = Removed(j) /\ data' = data
             /\ job'[j] = [job[j] EXCEPT !.step = "sweep", !.cause = TRUE]
        BY <1>6, <2>1, <2>2 DEF Open
    <2>4. CASE /\ directory' = [directory EXCEPT ![temp_path_for(j)] = j]
               /\ data' = [data EXCEPT ![j] = EmptyFile]
               /\ job'[j] = [job[j] EXCEPT !.step = "tile", !.file = j]
        <3>1. job'[j].step = "tile" /\ job'[j].file = j
            BY <1>1, <2>4 DEF JobRecords
        <3>2. /\ directory'[temp_path_for(j)] = j
              /\ \A n \in Names \ {temp_path_for(j)} : directory'[n] = directory[n]
              /\ \A s \in Streams \ {j} : data'[s] = data[s]
            BY <1>1, <2>4 DEF Typed
        <3> QED BY <1>1, <2>1, <3>1, <3>2 DEF Writing
    <2>5. CASE /\ directory' = Removed(j) /\ data' = data
               /\ job'[j] = [job[j] EXCEPT !.step = "sweep", !.cause = TRUE]
        <3>1. job'[j].step = "sweep"
            BY <1>1, <2>5 DEF JobRecords
        <3> QED BY <1>1, <1>4, <2>5, <3>1 DEF Writing
    <2> QED BY <2>3, <2>4, <2>5
<1>7. CASE Tile(j)
    <2>2. job[j].step = "tile" /\ job'[j].step = "tile" /\ job'[j].file = job[j].file
        BY <1>7, TileFields
    <2>3. job[j].file = j /\ directory' = directory
        BY <1>2, <1>7, <2>2 DEF Tile, Writing
    <2>4. \A s \in Streams \ {j} : data'[s] = data[s]
        BY <1>7, <2>3 DEF Tile, Takes, Typed
    <2> QED BY <1>2, <2>2, <2>3, <2>4 DEF Writing
<1>8. CASE Abandon(j)
    BY <1>1, <1>4, <1>8, WorkerChanges DEF Abandon, At, Writing, JobRecords
<1>9. CASE Finish(j)
    <2>1. job[j].step = "tile" /\ job[j].file = j /\ directory[temp_path_for(j)] = j
        BY <1>2, <1>9 DEF Finish, At, Writing
    <2>2. \A s \in Streams \ {j} : data'[s] = data[s]
        BY <1>9, <2>1 DEF Finish, Takes, Typed
    <2>3. \/ /\ directory' = directory
             /\ job'[j] = [job[j] EXCEPT !.step = "rename"]
          \/ /\ directory' = Removed(j)
             /\ job'[j] = [job[j] EXCEPT !.step = "sweep", !.cause = TRUE]
        <3>1. ASSUME NEW record, Becomes(j, record) PROVE job'[j] = record
            BY <3>1 DEF Becomes, Typed
        <3> QED BY <1>9, <3>1 DEF Finish
    <2>4. \/ directory' = directory /\ job'[j].step = "rename" /\ job'[j].file = j
          \/ directory' = Removed(j) /\ job'[j].step = "sweep"
        BY <1>1, <2>1, <2>3 DEF JobRecords
    <2> QED BY <1>1, <1>4, <2>1, <2>2, <2>4 DEF Writing
<1>10. CASE Rename(j)
    <2>1. job[j].step = "rename" /\ directory[temp_path_for(j)] = j /\ data' = data
        BY <1>2, <1>10 DEF Rename, At, Writing
    <2>2. \/ /\ directory' = [Removed(j) EXCEPT ![job[j].path] = j]
             /\ job'[j] = [job[j] EXCEPT !.step = "sweep", !.written = TRUE]
          \/ /\ directory' = Removed(j)
             /\ job'[j].step = "sweep"
        <3>1. ASSUME NEW record, Becomes(j, record) PROVE job'[j] = record
            BY <3>1 DEF Becomes, Typed
        <3>2. \A c : [job[j] EXCEPT !.step = "sweep", !.cause = c].step = "sweep"
            BY <1>1 DEF JobRecords
        <3> QED BY <1>10, <2>1, <3>1, <3>2 DEF Rename
    <2>3. CASE directory' = Removed(j) /\ job'[j].step = "sweep"
        BY <1>1, <1>4, <2>1, <2>3 DEF Writing
    <2>4. CASE /\ directory' = [Removed(j) EXCEPT ![job[j].path] = j]
               /\ job'[j] = [job[j] EXCEPT !.step = "sweep", !.written = TRUE]
        <3>1. job'[j].step = "sweep" /\ job'[j].written
            BY <1>1, <2>4 DEF JobRecords
        <3>2. /\ directory'[job[j].path] = j /\ directory'[temp_path_for(j)] = None
              /\ \A n \in Names : n # temp_path_for(j) /\ n # job[j].path
                     => directory'[n] = directory[n]
            BY <1>1, <1>4, <2>4
        <3> QED BY <1>10, <2>1, <3>1, <3>2 DEF Writing
    <2> QED BY <2>2, <2>3, <2>4
<1>11. CASE Sweep(j)
    BY <1>1, <1>3, <1>4, <1>11, WorkerChanges DEF Sweep, At, Writing, JobRecords
<1>12. CASE Report(j)
    <2>1. job[j].step = "report" /\ data' = data
          /\ (directory' = directory \/ directory' = Removed(j))
        BY <1>12 DEF Report, At
    <2>2. job'[j].step = "ended"
        BY <1>1, <1>12, WorkerChanges DEF JobRecords
    <2> QED BY <1>1, <1>3, <1>4, <2>1, <2>2 DEF Writing
<1> QED
    BY <1>5, <1>6, <1>7, <1>8, <1>9, <1>10, <1>11, <1>12 DEF Worker

\* And of any worker.
LEMMA WorkerFiles ==
    ASSUME JobsAssumption, Typed, FilesInv, NEW j \in Jobs, Worker(j)
    PROVE  /\ \A n \in Names : n # temp_path_for(j) /\ n # job[j].path
                   => directory'[n] = directory[n]
           /\ \A s \in Streams :
                  \/ data'[s] = data[s]
                  \/ s \in Jobs /\ temp_path_for(s) = temp_path_for(j)
           /\ \/ directory'[job[j].path] = directory[job[j].path]
              \/ /\ Rename(j) /\ job'[j].written /\ directory[temp_path_for(j)] # None
                 /\ directory'[job[j].path] = directory[temp_path_for(j)]
           /\ Writing(j)' =>
                 /\ directory'[temp_path_for(j)] \in {directory[temp_path_for(j)], j}
                 /\ job'[j].file \in Jobs /\ temp_path_for(job'[j].file) = temp_path_for(j)
           /\ ~Writing(j)' =>
                 \/ directory'[temp_path_for(j)] = None
                 \/ ~Writing(j) /\ directory'[temp_path_for(j)] = directory[temp_path_for(j)]
<1> DEFINE temp == temp_path_for(j)
<1>1. /\ Running(j) /\ job[j].path \in Paths
      /\ job[j] \in JobRecords
      /\ temp \in Names /\ job[j].path \in Names
      /\ temp # job[j].path
      /\ j \in Streams /\ j # None
      /\ temp = <<job[j].path, ProcessOf[j]>> /\ ProcessOf[j] \in Processes
    BY WorkerSteps, NamesApart DEF FilesInv, Typed, temp_path_for
<1>2. Writing(j) => job[j].file \in Jobs /\ temp_path_for(job[j].file) = temp
    BY DEF FilesInv, NamesMatch
<1>3. directory[temp] # None => directory[temp] \in Jobs /\ temp_path_for(directory[temp]) = temp
    BY <1>1 DEF FilesInv, NamesMatch
<1>4. /\ Removed(j)[temp] = None
      /\ \A n \in Names \ {temp} : Removed(j)[n] = directory[n]
      /\ DOMAIN Removed(j) = Names
    BY <1>1 DEF Removed, Typed
<1> HIDE DEF temp
<1>5. ASSUME NEW piece, Writing(j), Takes(j, piece)
      PROVE  \A s \in Streams :
                 data'[s] = data[s] \/ (s \in Jobs /\ temp_path_for(s) = temp)
    <2>1. data' = [data EXCEPT ![job[j].file][piece] = j]
        BY <1>5 DEF Takes
    <2> DEFINE file == job[j].file
    <2>2. file \in Jobs /\ temp_path_for(file) = temp
        BY <1>2, <1>5
    <2> HIDE DEF file
    <2>3. \A s \in Streams : s # file => data'[s] = data[s]
        BY <2>1 DEF Typed, file
    <2> QED BY <2>2, <2>3
<1>6. ASSUME NEW record, Becomes(j, record) PROVE job'[j] = record
    BY <1>6 DEF Becomes, Typed
<1>7. CASE Check(j)
    <2>1. job[j].step = "check" /\ job'[j].step \in {"report", "open"}
        BY <1>7, CheckFields
    <2> QED BY <1>1, <1>7, <2>1 DEF Check, Writing, temp
<1>8. CASE Open(j)
    <2> DEFINE file == IF directory[temp] = None THEN j ELSE directory[temp]
    <2>1. file \in Jobs /\ temp_path_for(file) = temp /\ file \in {directory[temp], j}
        BY <1>3 DEF temp
    <2>2. \/ /\ directory' = [directory EXCEPT ![temp] = file]
             /\ data' = [data EXCEPT ![file] = EmptyFile]
             /\ job'[j] = [job[j] EXCEPT !.step = "tile", !.file = file]
          \/ /\ directory' = Removed(j) /\ data' = data
             /\ job'[j] = [job[j] EXCEPT !.step = "sweep", !.cause = TRUE]
        BY <1>6, <1>8 DEF Open, temp
    <2> HIDE DEF file
    <2>3. CASE /\ directory' = [directory EXCEPT ![temp] = file]
               /\ data' = [data EXCEPT ![file] = EmptyFile]
               /\ job'[j] = [job[j] EXCEPT !.step = "tile", !.file = file]
        <3>1. job'[j].step = "tile" /\ job'[j].file = file
            BY <1>1, <2>3 DEF JobRecords
        <3>2. /\ directory'[temp] = file
              /\ \A n \in Names \ {temp} : directory'[n] = directory[n]
              /\ \A s \in Streams \ {file} : data'[s] = data[s]
            BY <1>1, <2>3 DEF Typed
        <3> QED BY <1>1, <2>1, <3>1, <3>2 DEF Writing, temp
    <2>4. CASE /\ directory' = Removed(j) /\ data' = data
               /\ job'[j] = [job[j] EXCEPT !.step = "sweep", !.cause = TRUE]
        <3>1. job'[j].step = "sweep"
            BY <1>1, <2>4 DEF JobRecords
        <3> QED BY <1>1, <1>4, <2>4, <3>1 DEF Writing, temp
    <2> QED BY <2>2, <2>3, <2>4
<1>9. CASE Tile(j)
    <2>1. /\ job[j].step = "tile" /\ job'[j].step = "tile" /\ job'[j].file = job[j].file
          /\ directory' = directory
        BY <1>9, TileFields DEF Tile
    <2>2. \A s \in Streams : data'[s] = data[s] \/ (s \in Jobs /\ temp_path_for(s) = temp)
        <3>1. Writing(j) /\ (Takes(j, job[j].tile + 1) \/ data' = data)
            BY <1>9, <2>1 DEF Tile, Writing
        <3> QED BY <1>5, <3>1
    <2> QED BY <1>2, <2>1, <2>2 DEF Writing, temp
<1>10. CASE Abandon(j)
    <2>1. job'[j].step = "sweep" /\ directory' = Removed(j) /\ data' = data
        BY <1>10, AbandonFields DEF Abandon
    <2> QED BY <1>1, <1>4, <2>1 DEF Writing, temp
<1>11. CASE Finish(j)
    <2>1. job[j].step = "tile"
        BY <1>11, FinishFields
    <2>2. \A s \in Streams : data'[s] = data[s] \/ (s \in Jobs /\ temp_path_for(s) = temp)
        <3>1. Writing(j) /\ (Takes(j, Tiles + 1) \/ data' = data)
            BY <1>11, <2>1 DEF Finish, Writing
        <3> QED BY <1>5, <3>1
    <2>3. \/ directory' = directory /\ job'[j] = [job[j] EXCEPT !.step = "rename"]
          \/ /\ directory' = Removed(j)
             /\ job'[j] = [job[j] EXCEPT !.step = "sweep", !.cause = TRUE]
        BY <1>6, <1>11 DEF Finish
    <2>4. \/ directory' = directory /\ job'[j].step = "rename" /\ job'[j].file = job[j].file
          \/ directory' = Removed(j) /\ job'[j].step = "sweep"
        BY <1>1, <2>3 DEF JobRecords
    <2> QED BY <1>1, <1>2, <1>4, <2>1, <2>2, <2>4 DEF Writing, temp
<1>12. CASE Rename(j)
    <2>1. job'[j].step = "sweep" /\ data' = data
        BY <1>12, RenameFields DEF Rename
    <2>2. \/ /\ directory[temp] # None /\ job'[j].written
             /\ directory' = [Removed(j) EXCEPT ![job[j].path] = directory[temp]]
          \/ directory' = Removed(j)
        <3>1. [job[j] EXCEPT !.step = "sweep", !.written = TRUE].written
            BY <1>1 DEF JobRecords
        <3> QED BY <1>6, <1>12, <3>1 DEF Rename, temp
    <2> QED BY <1>1, <1>4, <1>12, <2>1, <2>2 DEF Writing, temp
<1>13. CASE Sweep(j)
    <2>1. job[j].step = "sweep" /\ job'[j].step = "report" /\ data' = data
        BY <1>13, SweepFields DEF Sweep
    <2>2. directory' = Removed(j) \/ directory' = directory
        BY <1>13 DEF Sweep
    <2> QED BY <1>1, <1>4, <2>1, <2>2 DEF Writing, temp
<1>14. CASE Report(j)
    <2>1. job[j].step = "report" /\ job'[j].step = "ended" /\ data' = data
        BY <1>14, ReportFields DEF Report
    <2>2. directory' = Removed(j) \/ directory' = directory
        BY <1>14 DEF Report
    <2> QED BY <1>1, <1>4, <2>1, <2>2 DEF Writing, temp
<1> QED
    BY <1>7, <1>8, <1>9, <1>10, <1>11, <1>12, <1>13, <1>14 DEF Worker

\* What is under the name of a target is not written to.
LEMMA TargetsKept ==
    ASSUME JobsAssumption, Typed, FilesInv, NEW j \in Jobs, Worker(j),
           NEW p \in Uncontended, directory[p] # None
    PROVE  data'[directory[p]] = data[directory[p]]
<1>1. p \in Paths /\ (job[j].path = p => Alone(j))
    BY NamesApart DEF temp_path_for, Uncontended, Alone
<1>2. /\ directory[p] \in Streams
      /\ directory[p] \in Jobs => job[directory[p]].written /\ job[directory[p]].path = p
    BY <1>1, NamesApart DEF FilesInv, TargetsFinished, NamesMatch, Typed
<1>3. CASE Alone(j)
    <2>1. directory[p] = j => job[j].step \notin {"open", "tile"}
        BY <1>2 DEF FilesInv, WrittenIsPast
    <2> QED BY <1>2, <1>3, <2>1, WorkerFilesAlone
<1>4. CASE ~Alone(j)
    <2>1. directory[p] \in Jobs => temp_path_for(directory[p]) # temp_path_for(j)
        BY <1>1, <1>2, <1>4 DEF temp_path_for
    <2> QED BY <1>2, <2>1, WorkerFiles
<1> QED
    BY <1>3, <1>4

LEMMA WorkerKeepsFiles ==
    ASSUME JobsAssumption, Typed, FilesInv, NEW j \in Jobs, Worker(j)
    PROVE  FilesInv'
<1>1. /\ Running(j) /\ job[j].path \in Paths /\ job'[j].path = job[j].path
      /\ \A k \in Jobs \ {j} : job'[k] = job[k]
      /\ job[j] \in JobRecords
      /\ \A k \in Jobs : temp_path_for(k)' = temp_path_for(k) /\ (Alone(k)' <=> Alone(k))
      /\ Uncontended' = Uncontended
    BY WorkerSteps DEF FilesInv, Typed
<1>2. \A k \in Jobs : Writing(k) => Running(k) /\ job[k].path \in Paths
    BY WritingIsRunning DEF FilesInv
<1>3. StepsMatch' /\ OneJobAPath'
    BY WorkerKeepsOneJob DEF FilesInv
<1>4. WritesItsOwn'
    <2>1. ASSUME NEW k \in Jobs, k # j, Writing(k)', Alone(k)
          PROVE  job'[k].file = k /\ directory'[temp_path_for(k)] = k
        <3>1. Writing(k) /\ job[k].file = k /\ directory[temp_path_for(k)] = k
            BY <1>1, <2>1 DEF FilesInv, WritesItsOwn, Writing
        <3>2. temp_path_for(k) # temp_path_for(j)
            BY <1>1, <1>2, <2>1, <3>1, OwnTemporary DEF FilesInv
        <3>3. temp_path_for(k) \in Names /\ temp_path_for(k) # job[j].path
            BY <1>1, <1>2, <3>1, NamesApart DEF temp_path_for
        <3> QED BY <1>1, <2>1, <3>1, <3>2, <3>3, WorkerFiles
    <2>2. Writing(j)' /\ Alone(j) => job'[j].file = j /\ directory'[temp_path_for(j)] = j
        BY WorkerFilesAlone
    <2> QED BY <1>1, <2>1, <2>2 DEF WritesItsOwn
<1>5. TempHasWriter'
    <2> SUFFICES ASSUME NEW p \in Paths, NEW q \in Processes, directory'[<<p, q>>] # None
                 PROVE  \E k \in Jobs : Writing(k)' /\ job'[k].path = p /\ ProcessOf[k] = q
        BY DEF TempHasWriter
    <2>1. ASSUME directory[<<p, q>>] # None, <<p, q>> = temp_path_for(j) => ~Writing(j)
          PROVE  \E k \in Jobs : Writing(k)' /\ job'[k].path = p /\ ProcessOf[k] = q
        <3>1. PICK k \in Jobs : Writing(k) /\ job[k].path = p /\ ProcessOf[k] = q
            BY <2>1 DEF FilesInv, TempHasWriter
        <3>2. k # j
            BY <2>1, <3>1 DEF temp_path_for
        <3> QED BY <1>1, <3>1, <3>2 DEF Writing
    <2>2. CASE <<p, q>> = temp_path_for(j)
        <3>1. job[j].path = p /\ ProcessOf[j] = q
            BY <2>2 DEF temp_path_for
        <3>2. CASE Writing(j)'
            BY <1>1, <3>1, <3>2
        <3>3. CASE ~Writing(j)'
            BY <2>1, <2>2, <3>3, WorkerFiles
        <3> QED BY <3>2, <3>3
    <2>3. CASE <<p, q>> # temp_path_for(j)
        BY <1>1, <2>1, <2>3, NamesApart, WorkerFiles
    <2> QED BY <2>2, <2>3
<1>10. NamesMatch'
    <2>4. \A k \in Jobs : job'[k].path = job[k].path
        BY <1>1
    <2>1. ASSUME NEW k \in Jobs, Writing(k)'
          PROVE  job'[k].file \in Jobs /\ temp_path_for(job[k].file)' = temp_path_for(k)'
        <3>1. job'[k].file \in Jobs /\ temp_path_for(job'[k].file) = temp_path_for(k)
            <4>1. CASE k = j
                BY <2>1, <4>1, WorkerFiles
            <4>2. CASE k # j
                BY <1>1, <2>1, <4>2 DEF FilesInv, NamesMatch, Writing
            <4> QED BY <4>1, <4>2
        <3> QED BY <2>4, <3>1 DEF temp_path_for
    <2>2. ASSUME NEW p \in Paths, NEW q \in Processes, directory'[<<p, q>>] # None
          PROVE  /\ directory'[<<p, q>>] \in Jobs
                 /\ temp_path_for(directory[<<p, q>>])' = <<p, q>>
        <3>1. /\ directory'[<<p, q>>] \in Jobs
              /\ temp_path_for(directory'[<<p, q>>]) = <<p, q>>
            <4>1. \/ directory'[<<p, q>>] = directory[<<p, q>>]
                  \/ directory'[<<p, q>>] = j /\ <<p, q>> = temp_path_for(j)
                <5>1. <<p, q>> \in Names /\ <<p, q>> # job[j].path
                    BY <1>1, NamesApart
                <5>2. CASE <<p, q>> # temp_path_for(j)
                    BY <5>1, <5>2, WorkerFiles
                <5>3. CASE <<p, q>> = temp_path_for(j)
                    BY <2>2, <5>3, WorkerFiles
                <5> QED BY <5>2, <5>3
            <4>2. CASE directory'[<<p, q>>] = directory[<<p, q>>]
                BY <2>2, <4>2 DEF FilesInv, NamesMatch
            <4> QED BY <4>1, <4>2
        <3> QED BY <2>4, <3>1 DEF temp_path_for
    <2>3. ASSUME NEW p \in Paths, directory'[p] \in Jobs PROVE job'[directory'[p]].path = p
        <3>1. \A k \in Jobs : job'[k].path = job[k].path
            BY <1>1
        <3>2. p \in Names /\ p # temp_path_for(j)
            BY <1>1, NamesApart DEF temp_path_for
        <3>3. CASE directory'[p] = directory[p]
            BY <2>3, <3>1, <3>3 DEF FilesInv, NamesMatch
        <3>4. CASE directory'[p] # directory[p]
            <4>1. /\ p = job[j].path /\ directory[temp_path_for(j)] # None
                  /\ directory'[p] = directory[temp_path_for(j)]
                BY <3>2, <3>4, WorkerFiles
            <4>2. temp_path_for(directory'[p]) = temp_path_for(j)
                BY <1>1, <4>1, NamesApart DEF FilesInv, NamesMatch, temp_path_for
            <4> QED BY <2>3, <3>1, <4>1, <4>2 DEF temp_path_for
        <3> QED BY <3>3, <3>4
    <2> QED BY <2>1, <2>2, <2>3 DEF NamesMatch
<1>6. WrittenIsPast'
    <2>1. job'[j].written => job'[j].step \in {"sweep", "report", "ended"}
        <3>1. job[j].written => job[j].step \in {"sweep", "report", "ended"}
            BY DEF FilesInv, WrittenIsPast
        <3>2. CASE Check(j)
            BY <1>1, <3>1, <3>2, CheckFields
        <3>3. CASE Open(j)
            BY <1>1, <3>1, <3>3, OpenFields DEF KeepsResult
        <3>4. CASE Tile(j)
            BY <1>1, <3>1, <3>4, TileFields
        <3>5. CASE Abandon(j)
            BY <1>1, <3>1, <3>5, AbandonFields DEF KeepsResult
        <3>6. CASE Finish(j)
            BY <1>1, <3>1, <3>6, FinishFields DEF KeepsResult
        <3>7. CASE Rename(j)
            <4>1. job'[j].step = "sweep"
                BY <1>1, <3>7, WorkerChanges DEF JobRecords
            <4> QED BY <4>1
        <3>8. CASE Sweep(j)
            BY <1>1, <3>1, <3>8, SweepFields
        <3>9. CASE Report(j)
            BY <1>1, <3>1, <3>9, ReportFields
        <3> QED BY <3>2, <3>3, <3>4, <3>5, <3>6, <3>7, <3>8, <3>9 DEF Worker
    <2> QED BY <1>1, <2>1 DEF FilesInv, WrittenIsPast
<1>7. job[j].written => job'[j].written
    <2>1. job[j].written => job[j].step \in {"sweep", "report", "ended"}
        BY DEF FilesInv, WrittenIsPast
    <2>2. job[j].written => Sweep(j) \/ Report(j)
        BY <2>1 DEF Worker, Check, Open, Tile, Abandon, Finish, Rename, At
    <2> QED BY <2>2, SweepFields, ReportFields
<1>8. TargetsFinished'
    <2> SUFFICES ASSUME NEW p \in Uncontended, directory'[p] # None
                 PROVE  /\ data'[directory'[p]] = FileOf(directory'[p])
                        /\ directory'[p] \in Jobs => job'[directory'[p]].written
        BY <1>1 DEF TargetsFinished, FileOf
    <2>1. p \in Paths /\ p \in Names /\ p # temp_path_for(j) /\ (job[j].path = p => Alone(j))
        BY <1>1, NamesApart DEF temp_path_for, Uncontended, Alone
    <2>2. CASE directory'[p] = directory[p]
        <3>1. /\ directory[p] \in Streams
              /\ data[directory[p]] = FileOf(directory[p])
              /\ directory[p] \in Jobs => job[directory[p]].written
            BY <2>1, <2>2 DEF FilesInv, TargetsFinished, Typed
        <3>3. data'[directory[p]] = data[directory[p]]
            BY <2>2, TargetsKept
        <3> QED BY <1>1, <1>7, <2>2, <3>1, <3>3
    <2>3. CASE directory'[p] # directory[p]
        <3>1. p = job[j].path
            BY <2>1, <2>3, WorkerFiles
        <3>2. Alone(j) /\ Rename(j) /\ directory'[p] = j /\ job'[j].written
            BY <2>1, <2>3, <3>1, WorkerFilesAlone
        <3>3. data[j] = FileOf(j) /\ data' = data
            BY <3>2 DEF Rename, At, FilesInv, PiecesTaken
        <3> QED BY <3>2, <3>3
    <2> QED BY <2>2, <2>3
<1>9. PiecesTaken'
    <2> DEFINE Begun(k) == job'[k].step \in {"unborn", "check", "open"} => job'[k].tile = 0
               Taken(k) ==
          /\ job'[k].step = "tile" /\ ~job'[k].bad => \A i \in 1 .. job'[k].tile : data'[k][i] = k
          /\ job'[k].step = "rename" => data'[k] = FileOf(k)
    <2>1. ASSUME NEW k \in Jobs, k # j PROVE Begun(k) /\ (Alone(k) => Taken(k))
        <3>1. Begun(k)
            BY <1>1, <2>1 DEF FilesInv, PiecesTaken
        <3>2. ASSUME Alone(k), Writing(k) PROVE data'[k] = data[k]
            <4>1. temp_path_for(j) # temp_path_for(k)
                BY <1>1, <1>2, <2>1, <3>2, OwnTemporary DEF FilesInv
            <4> QED BY <4>1, NamesApart, WorkerFiles
        <3> QED BY <1>1, <2>1, <3>1, <3>2 DEF FilesInv, PiecesTaken, Writing
    <2>9. Begun(j)
        <3>1. job[j].step \in {"unborn", "check", "open"} => job[j].tile = 0
            BY DEF FilesInv, PiecesTaken
        <3>2. CASE Check(j)
            BY <3>1, <3>2, CheckFields DEF KeepsTold
        <3>3. CASE ~Check(j)
            BY <3>3, OpenFields, TileFields, FinishFields, AbandonFields, RenameFields,
               SweepFields, ReportFields DEF Worker
        <3> QED BY <3>2, <3>3
    <2> SUFFICES ASSUME Alone(j) PROVE Taken(j)
        BY <1>1, <2>1, <2>9 DEF PiecesTaken, FileOf
    <2>2. /\ job[j].step \in {"unborn", "check", "open"} => job[j].tile = 0
          /\ job[j].step = "tile" /\ ~job[j].bad => \A i \in 1 .. job[j].tile : data[j][i] = j
          /\ job[j].step \in {"tile", "rename"} => job[j].file = j
          /\ data[j] \in [Pieces -> Streams \cup {None}]
        BY NamesApart DEF FilesInv, PiecesTaken, WritesItsOwn, Writing, Typed
    <2>3. ASSUME Check(j) PROVE Taken(j)
        BY <2>2, <2>3, CheckFields DEF KeepsTold
    <2>4. ASSUME Open(j) PROVE Taken(j)
        <3>1. job'[j].tile = 0 /\ job'[j].step \in {"tile", "sweep"}
            BY <2>2, <2>4, OpenFields DEF KeepsTold
        <3> QED BY <3>1
    <2>5. ASSUME Tile(j) PROVE Taken(j)
        <3>1. job[j].step = "tile" /\ job[j].tile \in Nat /\ job[j].tile + 1 \in Pieces
            BY <1>1, <2>5 DEF Tile, At, JobRecords, Pieces, JobsAssumption
        <3>2. /\ job'[j].step = "tile" /\ job'[j].tile = job[j].tile + 1
              /\ ~job'[j].bad => Takes(j, job[j].tile + 1)
            BY <2>5, TileFields
        <3>3. ASSUME Takes(j, job[j].tile + 1)
              PROVE  \A i \in 1 .. job[j].tile + 1 : data'[j][i] = j
            <4>1. ~job[j].bad /\ data' = [data EXCEPT ![j][job[j].tile + 1] = j]
                BY <2>2, <3>1, <3>3 DEF Takes
            <4>2. data'[j] = [data[j] EXCEPT ![job[j].tile + 1] = j]
                BY <4>1, NamesApart DEF Typed
            <4>3. \A i \in 1 .. job[j].tile : data[j][i] = j
                BY <2>2, <3>1, <4>1
            <4>4. ASSUME NEW i \in 1 .. job[j].tile + 1 PROVE data'[j][i] = j
                <5>1. i \in Pieces
                    BY <3>1 DEF Pieces, JobsAssumption
                <5>2. i = job[j].tile + 1 \/ i \in 1 .. job[j].tile
                    BY <3>1
                <5>3. data'[j][i] = IF i = job[j].tile + 1 THEN j ELSE data[j][i]
                    BY <2>2, <4>2, <5>1
                <5> QED BY <4>3, <5>2, <5>3
            <4> QED BY <4>4
        <3> QED BY <3>2, <3>3
    <2>6. ASSUME Finish(j) PROVE Taken(j)
        <3>1. job[j].step = "tile" /\ job[j].tile = Tiles
            BY <2>6 DEF Finish, At
        <3>2. job'[j].step = "sweep" \/ (Takes(j, Tiles + 1) /\ job'[j].step = "rename")
            <4>1. ASSUME NEW record, Becomes(j, record) PROVE job'[j] = record
                BY <4>1 DEF Becomes, Typed
            <4>2. \/ job'[j] = [job[j] EXCEPT !.step = "rename"] /\ Takes(j, Tiles + 1)
                  \/ job'[j] = [job[j] EXCEPT !.step = "sweep", !.cause = TRUE]
                BY <2>6, <4>1 DEF Finish
            <4>3. [job[j] EXCEPT !.step = "rename"].step = "rename"
                BY <1>1 DEF JobRecords
            <4>4. [job[j] EXCEPT !.step = "sweep", !.cause = TRUE].step = "sweep"
                BY <1>1 DEF JobRecords
            <4> QED BY <4>2, <4>3, <4>4
        <3>3. ASSUME Takes(j, Tiles + 1) PROVE data'[j] = FileOf(j)
            <4>1. ~job[j].bad /\ data' = [data EXCEPT ![j][Tiles + 1] = j]
                BY <2>2, <3>1, <3>3 DEF Takes
            <4>2. data'[j] = [data[j] EXCEPT ![Tiles + 1] = j]
                BY <4>1, NamesApart DEF Typed
            <4>3. \A i \in 1 .. Tiles : data[j][i] = j
                BY <2>2, <3>1, <4>1
            <4>4. ASSUME NEW i \in Pieces PROVE data'[j][i] = j
                <5>1. i = Tiles + 1 \/ i \in 1 .. Tiles
                    BY DEF Pieces, JobsAssumption
                <5> QED BY <2>2, <4>2, <4>3, <5>1
            <4>5. DOMAIN data'[j] = Pieces /\ data'[j] = [i \in DOMAIN data'[j] |-> data'[j][i]]
                BY <2>2, <4>2
            <4> QED BY <4>4, <4>5 DEF FileOf
        <3> QED BY <3>2, <3>3
    <2>7. ASSUME Abandon(j) \/ Rename(j) \/ Sweep(j) \/ Report(j) PROVE Taken(j)
        <3>1. ASSUME Rename(j) PROVE job'[j].step = "sweep"
            BY <1>1, <3>1, WorkerChanges DEF JobRecords
        <3> QED BY <2>7, <3>1, AbandonFields, SweepFields, ReportFields
    <2> QED
        BY <2>3, <2>4, <2>5, <2>6, <2>7 DEF Worker
<1> QED
    BY <1>3, <1>4, <1>5, <1>6, <1>8, <1>9, <1>10 DEF FilesInv

-----------------------------------------------------------------------------
(***************************************************************************)
(* Why a job failed.                                                       *)
(***************************************************************************)
LEMMA WorkerKeepsCause ==
    ASSUME JobsAssumption, Typed, FilesInv, CauseKnown, NEW j \in Jobs, Worker(j)
    PROVE  CauseKnown'
<1> DEFINE Known(k) ==
      /\ job[k].step = "sweep" /\ ~job[k].written => job[k].cause \/ job[k].stop_requested
      /\ job[k].outcome = "error" => job[k].cause \/ job[k].stop_requested
      /\ job[k].state = "failed" => job[k].cause
           KnownThen(k) ==
      /\ job'[k].step = "sweep" /\ ~job'[k].written => job'[k].cause \/ job'[k].stop_requested
      /\ job'[k].outcome = "error" => job'[k].cause \/ job'[k].stop_requested
      /\ job'[k].state = "failed" => job'[k].cause
<1> SUFFICES ASSUME Alone(j) PROVE KnownThen(j)
    <2>1. \A k \in Jobs : Alone(k) => Known(k)
        BY DEF CauseKnown
    <2>2. \A k \in Jobs \ {j} : job'[k] = job[k]
        BY WorkerSteps DEF FilesInv
    <2>3. \A k \in Jobs \ {j} : Alone(k) => KnownThen(k)
        BY <2>1, <2>2
    <2>4. \A k \in Jobs : Alone(k)' <=> Alone(k)
        BY WorkerSteps DEF FilesInv
    <2> HIDE DEF Known
    <2> QED BY <2>3, <2>4 DEF CauseKnown
<1>2. Known(j) /\ job[j].state = "running"
    BY WorkerSteps DEF CauseKnown, FilesInv, Running
<1>3. ASSUME Check(j) PROVE KnownThen(j)
    BY <1>2, <1>3, CheckFields DEF KeepsTold
<1>4. ASSUME Open(j) PROVE KnownThen(j)
    BY <1>2, <1>4, OpenFields DEF KeepsTold, KeepsResult
<1>5. ASSUME Tile(j) PROVE KnownThen(j)
    BY <1>2, <1>5, TileFields
<1>6. ASSUME Abandon(j) PROVE KnownThen(j)
    <2>1. job'[j].cause \/ job'[j].stop_requested
        BY <1>6, AbandonFields DEF KeepsTold
    <2>2. job'[j].state # "failed"
        BY <1>2, <1>6, AbandonFields DEF KeepsResult
    <2> QED BY <2>1, <2>2
<1>7. ASSUME Finish(j) PROVE KnownThen(j)
    BY <1>2, <1>7, FinishFields DEF KeepsTold, KeepsResult
<1>8. ASSUME Rename(j) PROVE KnownThen(j)
    <2>1. directory[temp_path_for(j)] # None
        BY <1>8, NamesApart DEF Rename, At, FilesInv, WritesItsOwn, Writing
    <2> QED BY <1>2, <1>8, <2>1, RenameFields DEF KeepsTold
<1>9. ASSUME Sweep(j) PROVE KnownThen(j)
    BY <1>2, <1>9, SweepFields DEF KeepsTold
<1>10. ASSUME Report(j) PROVE KnownThen(j)
    BY <1>2, <1>10, ReportFields DEF KeepsTold
<1> QED
    BY <1>3, <1>4, <1>5, <1>6, <1>7, <1>8, <1>9, <1>10 DEF Worker

-----------------------------------------------------------------------------
(***************************************************************************)
(* What the host is told.                                                  *)
(***************************************************************************)
LEMMA RisingToItsLast ==
    ASSUME NEW s \in Seq(Nat), Rising(s), NEW d \in Nat, s # <<>> => s[Len(s)] < d
    PROVE  Rising(Append(s, d))
<1>1. \A a \in DOMAIN s : s[a] < d
    <2> SUFFICES ASSUME NEW a \in DOMAIN s PROVE s[a] < d
        OBVIOUS
    <2>1. a \in 1 .. Len(s) /\ Len(s) \in DOMAIN s /\ s[a] \in Nat /\ s[Len(s)] \in Nat
          /\ s # <<>>
        OBVIOUS
    <2>2. CASE a = Len(s)
        BY <2>1, <2>2
    <2>3. CASE a < Len(s)
        <3>1. s[a] < s[Len(s)]
            BY <2>1, <2>3 DEF Rising
        <3> QED BY <2>1, <3>1
    <2> QED BY <2>1, <2>2, <2>3
<1>2. /\ DOMAIN Append(s, d) = 1 .. Len(s) + 1
      /\ \A a \in 1 .. Len(s) : Append(s, d)[a] = s[a]
      /\ Append(s, d)[Len(s) + 1] = d
    OBVIOUS
<1> SUFFICES ASSUME NEW a \in 1 .. Len(s) + 1, NEW b \in 1 .. Len(s) + 1, a < b
             PROVE  Append(s, d)[a] < Append(s, d)[b]
    BY <1>2 DEF Rising
<1>3. a \in DOMAIN s
    OBVIOUS
<1>4. CASE b = Len(s) + 1
    BY <1>1, <1>2, <1>3, <1>4
<1>5. CASE b # Len(s) + 1
    <2>1. b \in DOMAIN s
        BY <1>5
    <2> QED BY <1>2, <1>3, <2>1 DEF Rising
<1> QED
    BY <1>4, <1>5

\* What ToldInOrder says of one job.
ToldWell(j) ==
    /\ Rising(Told(j))
    /\ job[j].last_emitted = IF Told(j) = <<>> THEN 0 ELSE Told(j)[Len(Told(j))]
    /\ job[j].last_emitted <= job[j].tile
    /\ job[j].tile = Tiles => job[j].last_emitted = Tiles
    /\ job[j].step = "rename" \/ job[j].written => job[j].tile = Tiles
    /\ job[j].outcome = "ok" => job[j].written
    /\ job[j].state = "completed" => job[j].outcome = "ok" /\ job[j].fraction = Tiles

LEMMA TileTellsWell ==
    ASSUME JobsAssumption, Typed, FilesInv, NEW j \in Jobs, ToldWell(j), Tile(j)
    PROVE  ToldWell(j)'
<1> DEFINE done == job[j].tile + 1
<1>1. job[j] \in JobRecords /\ job[j].tile < Tiles /\ job[j].step = "tile"
      /\ job[j].state = "running"
    <2>1. Worker(j)
        BY DEF Worker
    <2> QED BY <2>1, WorkerSteps DEF Typed, Tile, At, FilesInv, Running
<1>2. job[j].tile \in Nat /\ Tiles \in Nat /\ job[j].last_emitted \in Nat
    BY <1>1 DEF JobRecords, JobsAssumption
<1>3. /\ job[j].drained \in Seq(Nat) /\ job[j].pending_progress \in Seq(Nat)
      /\ Told(j) \in Seq(Nat)
    <2>1. job[j].drained \in Seq(1 .. Tiles) /\ job[j].pending_progress \in Seq(1 .. Tiles)
        BY <1>1 DEF JobRecords
    <2>2. 1 .. Tiles \subseteq Nat
        OBVIOUS
    <2>3. job[j].drained \in Seq(Nat) /\ job[j].pending_progress \in Seq(Nat)
        BY <2>1, <2>2, SeqMonotonic
    <2> QED BY <2>3, ConcatProperties DEF Told
<1>4. ~job[j].written /\ job[j].outcome # "ok"
    BY <1>1 DEF FilesInv, WrittenIsPast, ToldWell
<1>5. /\ job'[j].step = "tile" /\ ~job'[j].written /\ job'[j].outcome # "ok"
      /\ job'[j].state # "completed" /\ job'[j].tile = done
    BY <1>1, <1>4, TileFields
<1>6. CASE /\ Tells(j, done) /\ job'[j].last_emitted = done
           /\ job'[j].pending_progress = Append(job[j].pending_progress, done)
    <2>1. Told(j)' = Append(Told(j), done)
        <3>1. Told(j)' = job[j].drained \o Append(job[j].pending_progress, done)
            BY <1>6, TileFields DEF Told
        <3>2. done \in Nat
            BY <1>2
        <3> DEFINE drained == job[j].drained
                   pending == job[j].pending_progress
        <3>3. drained \in Seq(Nat) /\ pending \in Seq(Nat) /\ Told(j) = drained \o pending
            BY <1>3 DEF Told
        <3>4. Told(j)' = drained \o Append(pending, done)
            BY <3>1
        <3> HIDE DEF done, drained, pending
        <3>5. <<done>> \in Seq(Nat)
            BY <3>2
        <3>6. /\ Append(pending, done) = pending \o <<done>>
              /\ Append(Told(j), done) = Told(j) \o <<done>>
            BY <1>3, <3>2, <3>3, AppendIsConcat
        <3>7. (drained \o pending) \o <<done>> = drained \o (pending \o <<done>>)
            BY <3>3, <3>5, ConcatAssociative
        <3> QED BY <3>3, <3>4, <3>6, <3>7
    <2>2. Told(j) # <<>> => Told(j)[Len(Told(j))] < done
        BY <1>2, <1>3 DEF ToldWell
    <2>3. Rising(Append(Told(j), done))
        BY <1>2, <1>3, <2>2, RisingToItsLast DEF ToldWell
    <2>4. /\ Append(Told(j), done) # <<>>
          /\ Append(Told(j), done)[Len(Append(Told(j), done))] = done
        BY <1>2, <1>3
    <2>5. Rising(Told(j))'
        BY <2>1, <2>3 DEF Rising
    <2> QED BY <1>2, <1>5, <1>6, <2>1, <2>4, <2>5 DEF ToldWell
<1>7. CASE /\ ~Tells(j, done)
           /\ job'[j].last_emitted = job[j].last_emitted
           /\ job'[j].pending_progress = job[j].pending_progress
    <2>1. Told(j)' = Told(j)
        BY <1>7, TileFields DEF Told
    <2>2. done # Tiles
        BY <1>7 DEF Tells
    <2>3. Rising(Told(j))'
        BY <2>1 DEF ToldWell, Rising
    <2> QED BY <1>2, <1>5, <1>7, <2>1, <2>2, <2>3 DEF ToldWell
<1> QED
    BY <1>6, <1>7, TileFields

LEMMA WorkerTellsInOrder ==
    ASSUME JobsAssumption, Typed, FilesInv, ToldInOrder, NEW j \in Jobs, Worker(j)
    PROVE  ToldInOrder'
<1>1. \A k \in Jobs : ToldWell(k)
    BY DEF ToldInOrder, ToldWell
<1>2. ASSUME NEW k \in Jobs, k # j PROVE ToldWell(k)'
    <2>1. job'[k] = job[k]
        BY <1>2, WorkerSteps DEF FilesInv
    <2> QED BY <1>1, <2>1 DEF ToldWell, Told, Rising
<1>3. job[j].state = "running"
    BY WorkerSteps DEF FilesInv, Running
<1>4. ASSUME KeepsTold(j), ~(job'[j].step = "rename" \/ job'[j].written) \/ job[j].tile = Tiles,
             job'[j].outcome = "ok" => job'[j].written,
             job'[j].state = "completed" => job'[j].outcome = "ok" /\ job'[j].fraction = Tiles
      PROVE  ToldWell(j)'
    <2>1. Told(j)' = Told(j)
        BY <1>4 DEF KeepsTold, Told
    <2>2. Rising(Told(j))'
        BY <1>1, <2>1 DEF ToldWell, Rising
    <2> QED BY <1>1, <1>4, <2>1, <2>2 DEF ToldWell, KeepsTold
<1>5. ASSUME Check(j) PROVE ToldWell(j)'
    <2>1. ~job[j].written
        BY <1>5 DEF Check, At, FilesInv, WrittenIsPast
    <2> QED BY <1>1, <1>3, <1>4, <1>5, <2>1, CheckFields DEF ToldWell
<1>6. ASSUME Open(j) PROVE ToldWell(j)'
    BY <1>1, <1>3, <1>4, <1>6, OpenFields DEF ToldWell, KeepsResult
<1>7. ASSUME Tile(j) PROVE ToldWell(j)'
    BY <1>1, <1>7, TileTellsWell
<1>8. ASSUME Abandon(j) PROVE ToldWell(j)'
    BY <1>1, <1>3, <1>4, <1>8, AbandonFields DEF ToldWell, KeepsResult
<1>9. ASSUME Finish(j) PROVE ToldWell(j)'
    BY <1>1, <1>3, <1>4, <1>9, FinishFields DEF ToldWell, KeepsResult
<1>10. ASSUME Rename(j) PROVE ToldWell(j)'
    BY <1>1, <1>3, <1>4, <1>10, RenameFields DEF ToldWell
<1>11. ASSUME Sweep(j) PROVE ToldWell(j)'
    BY <1>1, <1>3, <1>4, <1>11, SweepFields DEF ToldWell
<1>12. ASSUME Report(j) PROVE ToldWell(j)'
    BY <1>1, <1>3, <1>4, <1>12, ReportFields DEF ToldWell
<1>13. ToldWell(j)'
    BY <1>5, <1>6, <1>7, <1>8, <1>9, <1>10, <1>11, <1>12 DEF Worker
<1> QED
    BY <1>2, <1>13 DEF ToldInOrder, ToldWell

-----------------------------------------------------------------------------
(***************************************************************************)
(* The host.  What it does to a running job is to ask it to stop and to    *)
(* take the events that wait.                                              *)
(***************************************************************************)
LEMMA Touched ==
    ASSUME JobsAssumption, ExportInv, NEW j \in Jobs, NEW record \in JobRecords,
           Becomes(j, record), UNCHANGED <<directory, data, crashed, contended>>,
           record.path = job[j].path, record.file = job[j].file, record.step = job[j].step,
           record.tile = job[j].tile, record.bad = job[j].bad,
           record.written = job[j].written, record.outcome = job[j].outcome,
           record.cause = job[j].cause, record.state = job[j].state,
           record.fraction = job[j].fraction, record.last_emitted = job[j].last_emitted,
           job[j].stop_requested => record.stop_requested,
           record.drained \o record.pending_progress = Told(j)
    PROVE  ExportInv'
<1>1. /\ job' \in [Jobs -> JobRecords] /\ job'[j] = record
      /\ \A k \in Jobs \ {j} : job'[k] = job[k]
    BY OneJob DEF ExportInv
<1>2. \A k \in Jobs :
          /\ job'[k].path = job[k].path /\ job'[k].file = job[k].file
          /\ job'[k].step = job[k].step /\ job'[k].tile = job[k].tile
          /\ job'[k].bad = job[k].bad /\ job'[k].written = job[k].written
          /\ job'[k].outcome = job[k].outcome /\ job'[k].cause = job[k].cause
          /\ job'[k].state = job[k].state /\ job'[k].fraction = job[k].fraction
          /\ job'[k].last_emitted = job[k].last_emitted
          /\ job[k].stop_requested => job'[k].stop_requested
    BY <1>1
<1>3. \A k \in Jobs : Told(k)' = Told(k)
    BY <1>1 DEF Told
<1>4. Typed'
    BY <1>1 DEF ExportInv, Typed
<1>10. /\ \A k \in Jobs : temp_path_for(k)' = temp_path_for(k) /\ (Alone(k)' <=> Alone(k))
       /\ Uncontended' = Uncontended
    BY <1>2 DEF temp_path_for, Alone, Uncontended
<1>5. StepsMatch' /\ OneJobAPath' /\ WrittenIsPast'
    BY <1>2, <1>10 DEF ExportInv, FilesInv, StepsMatch, OneJobAPath, Running, WrittenIsPast
<1>6. NamesMatch' /\ WritesItsOwn' /\ TempHasWriter'
    BY <1>2, <1>10 DEF ExportInv, FilesInv, NamesMatch, WritesItsOwn, TempHasWriter, Writing
<1>7. PiecesTaken' /\ TargetsFinished'
    BY <1>2, <1>10 DEF ExportInv, FilesInv, PiecesTaken, TargetsFinished, FileOf
<1>8. CauseKnown'
    BY <1>2, <1>10 DEF ExportInv, CauseKnown
<1>9. ToldInOrder'
    <2> SUFFICES ASSUME NEW k \in Jobs PROVE ToldWell(k)'
        BY DEF ToldInOrder, ToldWell
    <2>1. ToldWell(k)
        BY DEF ExportInv, ToldInOrder, ToldWell
    <2>2. Rising(Told(k))'
        BY <1>3, <2>1 DEF ToldWell, Rising
    <2> QED BY <1>2, <1>3, <2>1, <2>2 DEF ToldWell
<1> QED
    BY <1>4, <1>5, <1>6, <1>7, <1>8, <1>9 DEF ExportInv, FilesInv

LEMMA HostTouches ==
    ASSUME JobsAssumption, ExportInv, NEW j \in Jobs,
           request_cancel(j) \/ poll(j) \/ Destroy(j)
    PROVE  ExportInv'
<1>1. job[j] \in JobRecords
    BY DEF ExportInv, Typed
<1>2. CASE request_cancel(j)
    <2> DEFINE record == [job[j] EXCEPT !.stop_requested = TRUE]
    <2>1. record \in JobRecords
        BY <1>1 DEF JobRecords
    <2>2. Becomes(j, record) /\ UNCHANGED <<directory, data, crashed, contended>>
        BY <1>2 DEF request_cancel
    <2>3. /\ record.path = job[j].path /\ record.file = job[j].file
          /\ record.step = job[j].step /\ record.tile = job[j].tile
          /\ record.bad = job[j].bad /\ record.written = job[j].written
          /\ record.outcome = job[j].outcome /\ record.cause = job[j].cause
          /\ record.state = job[j].state /\ record.fraction = job[j].fraction
          /\ record.last_emitted = job[j].last_emitted
          /\ record.stop_requested
          /\ record.drained = job[j].drained
          /\ record.pending_progress = job[j].pending_progress
        BY <1>1 DEF JobRecords
    <2> HIDE DEF record
    <2> QED BY <2>1, <2>2, <2>3, Touched DEF Told
<1>3. CASE poll(j)
    <2> DEFINE record == [job[j] EXCEPT !.drained = job[j].drained \o job[j].pending_progress,
                                        !.pending_progress = <<>>]
    <2>1. Told(j) \in Seq(1 .. Tiles) /\ Told(j) \o <<>> = Told(j)
        <3>1. /\ job[j].drained \in Seq(1 .. Tiles)
              /\ job[j].pending_progress \in Seq(1 .. Tiles)
            BY <1>1 DEF JobRecords
        <3>2. Told(j) \in Seq(1 .. Tiles)
            BY <3>1, ConcatProperties DEF Told
        <3> QED BY <3>2, ConcatEmptySeq
    <2>2. record.drained = Told(j) /\ record.pending_progress = <<>>
        BY <1>1 DEF JobRecords, Told
    <2>3. record \in JobRecords
        <3> DEFINE told == job[j].drained \o job[j].pending_progress
        <3>1. told \in Seq(1 .. Tiles) /\ <<>> \in Seq(1 .. Tiles)
            BY <2>1 DEF Told
        <3> HIDE DEF told
        <3>2. [job[j] EXCEPT !.drained = told, !.pending_progress = <<>>] \in JobRecords
            BY <1>1, <3>1 DEF JobRecords
        <3> QED BY <3>2 DEF told
    <2>4. Becomes(j, record) /\ UNCHANGED <<directory, data, crashed, contended>>
        BY <1>3 DEF poll
    <2>5. /\ record.path = job[j].path /\ record.file = job[j].file
          /\ record.step = job[j].step /\ record.tile = job[j].tile
          /\ record.bad = job[j].bad /\ record.written = job[j].written
          /\ record.outcome = job[j].outcome /\ record.cause = job[j].cause
          /\ record.state = job[j].state /\ record.fraction = job[j].fraction
          /\ record.last_emitted = job[j].last_emitted
          /\ record.stop_requested = job[j].stop_requested
        BY <1>1 DEF JobRecords
    <2> HIDE DEF record
    <2>6. record.drained \o record.pending_progress = Told(j)
        BY <2>1, <2>2
    <2>7. job[j].stop_requested => record.stop_requested
        BY <2>5
    <2> QED BY <2>3, <2>4, <2>5, <2>6, <2>7, Touched
<1>4. CASE Destroy(j)
    <2> DEFINE record == [job[j] EXCEPT !.owned = FALSE, !.stop_requested = TRUE]
    <2>1. record \in JobRecords
        BY <1>1 DEF JobRecords
    <2>2. Becomes(j, record) /\ UNCHANGED <<directory, data, crashed, contended>>
        BY <1>4 DEF Destroy
    <2>3. /\ record.path = job[j].path /\ record.file = job[j].file
          /\ record.step = job[j].step /\ record.tile = job[j].tile
          /\ record.bad = job[j].bad /\ record.written = job[j].written
          /\ record.outcome = job[j].outcome /\ record.cause = job[j].cause
          /\ record.state = job[j].state /\ record.fraction = job[j].fraction
          /\ record.last_emitted = job[j].last_emitted
          /\ record.stop_requested
          /\ record.drained = job[j].drained
          /\ record.pending_progress = job[j].pending_progress
        BY <1>1 DEF JobRecords
    <2> HIDE DEF record
    <2> QED BY <2>1, <2>2, <2>3, Touched DEF Told
<1> QED
    BY <1>2, <1>3, <1>4

\* A job that starts where another of its process runs on its path makes the
\* name of its temporary file contended.
LEMMA StartKeepsInv ==
    ASSUME JobsAssumption, ExportInv, NEW j \in Jobs, NEW path \in Paths,
           NEW confirmed \in BOOLEAN, Start(j, path, confirmed)
    PROVE  ExportInv'
<1>1. job[j] \in JobRecords /\ job[j].step = "unborn" /\ job[j].state = "unborn"
    BY DEF ExportInv, Typed, FilesInv, StepsMatch, Start, At
<1> DEFINE refusal == [job[j] EXCEPT !.path = path, !.step = "ended", !.state = "refused"]
           begun == [job[j] EXCEPT !.path = path, !.overwrite_confirmed = confirmed,
                                   !.step = "check", !.state = "running", !.owned = TRUE]
<1>2. Becomes(j, refusal) \/ Becomes(j, begun)
    BY DEF Start
<1>3. refusal \in JobRecords /\ begun \in JobRecords
    BY <1>1 DEF JobRecords, Steps, Ended
<1>4. ASSUME NEW record \in {refusal, begun}
      PROVE  /\ record.path = path /\ record.tile = job[j].tile
             /\ record.written = job[j].written /\ record.outcome = job[j].outcome
             /\ record.cause = job[j].cause /\ record.stop_requested = job[j].stop_requested
             /\ record.last_emitted = job[j].last_emitted /\ record.drained = job[j].drained
             /\ record.pending_progress = job[j].pending_progress
             /\ \/ record.step = "ended" /\ record.state = "refused"
                \/ record.step = "check" /\ record.state = "running"
    <2>1. CASE record = refusal
        BY <1>1, <2>1 DEF JobRecords
    <2>2. CASE record = begun
        BY <1>1, <2>2 DEF JobRecords
    <2> QED BY <2>1, <2>2
<1> HIDE DEF refusal, begun
<1>5. PICK record \in {refusal, begun} : Becomes(j, record)
    BY <1>2
<1>6. /\ job' \in [Jobs -> JobRecords] /\ job'[j] = record
      /\ \A k \in Jobs \ {j} : job'[k] = job[k]
    BY <1>3, <1>5, OneJob DEF ExportInv
<1>7. /\ job'[j].path = path /\ job'[j].tile = job[j].tile
      /\ job'[j].written = job[j].written /\ job'[j].outcome = job[j].outcome
      /\ job'[j].cause = job[j].cause /\ job'[j].stop_requested = job[j].stop_requested
      /\ job'[j].last_emitted = job[j].last_emitted /\ job'[j].drained = job[j].drained
      /\ job'[j].pending_progress = job[j].pending_progress
      /\ \/ job'[j].step = "ended" /\ job'[j].state = "refused"
         \/ job'[j].step = "check" /\ job'[j].state = "running"
    BY <1>4, <1>6
<1>8. UNCHANGED <<directory, data, crashed>>
    BY DEF Start
<1>16. /\ contended \subseteq contended'
       /\ contended' \subseteq contended \cup {<<path, ProcessOf[j]>>}
       /\ Becomes(j, begun) /\ Contends(j, path) => <<path, ProcessOf[j]>> \in contended'
    <2>1. CASE Overwrites(path, confirmed)
        <3>1. Becomes(j, refusal) /\ contended' = contended
            BY <2>1 DEF Start, refusal
        <3>2. job'[j].state = "refused" \/ ~Becomes(j, begun)
            <4>1. refusal.state = "refused"
                BY <1>1 DEF refusal, JobRecords
            <4> QED BY <3>1, <4>1 DEF Becomes, ExportInv, Typed
        <3>3. Becomes(j, begun) => job'[j].state = "running"
            <4>1. begun.state = "running"
                BY <1>1 DEF begun, JobRecords
            <4> QED BY <4>1 DEF Becomes, ExportInv, Typed
        <3> QED BY <3>1, <3>2, <3>3
    <2>2. CASE ~Overwrites(path, confirmed)
        BY <2>2 DEF Start
    <2> QED BY <2>1, <2>2
<1>17. job'[j].state = "running" => Becomes(j, begun)
    <2>1. Becomes(j, refusal) => job'[j].state = "refused"
        <3>1. refusal.state = "refused"
            BY <1>1 DEF refusal, JobRecords
        <3> QED BY <3>1 DEF Becomes, ExportInv, Typed
    <2> QED BY <1>2, <2>1
<1>18. /\ \A k \in Jobs \ {j} : temp_path_for(k)' = temp_path_for(k)
       /\ temp_path_for(j) \notin Paths \X Processes
       /\ temp_path_for(j)' = <<path, ProcessOf[j]>>
       /\ \A k \in Jobs : Alone(k)' => Alone(k)
       /\ Uncontended' \subseteq Uncontended
    <2>1. temp_path_for(j) = <<None, ProcessOf[j]>> /\ None \notin Paths
        BY <1>1 DEF ExportInv, FilesInv, StepsMatch, temp_path_for, JobsAssumption
    <2>2. temp_path_for(j) \notin Paths \X Processes
        BY <2>1
    <2>3. Alone(j)
        BY <2>2 DEF Alone, ExportInv, Typed
    <2>4. /\ \A k \in Jobs \ {j} : temp_path_for(k)' = temp_path_for(k)
          /\ temp_path_for(j)' = <<path, ProcessOf[j]>>
        BY <1>6, <1>7 DEF temp_path_for
    <2> QED BY <1>16, <2>2, <2>3, <2>4 DEF Alone, Uncontended
<1>9. Typed'
    <2>1. <<path, ProcessOf[j]>> \in Paths \X Processes
        BY NamesApart
    <2> QED BY <1>6, <1>8, <1>16, <2>1 DEF ExportInv, Typed
<1>10. StepsMatch'
    BY <1>6, <1>7 DEF ExportInv, FilesInv, StepsMatch, Ended
<1>11. OneJobAPath'
    <2>1. ASSUME NEW k \in Jobs, k # j, Running(k)', Running(j)',
                 temp_path_for(k)' = temp_path_for(j)'
          PROVE  ~Alone(j)' /\ ~Alone(k)'
        <3>1. ProcessOf[k] = ProcessOf[j] /\ job[k].path = path /\ job[k].state = "running"
            BY <1>6, <1>18, <2>1 DEF temp_path_for, Running
        <3>2. <<path, ProcessOf[j]>> \in contended'
            BY <1>16, <1>17, <2>1, <3>1 DEF Contends, Running
        <3> QED BY <1>18, <2>1, <3>2 DEF Alone
    <2>2. ASSUME NEW k \in Jobs, NEW l \in Jobs, k # j, l # j, Running(k)', Running(l)',
                 temp_path_for(k)' = temp_path_for(l)', Alone(k)'
          PROVE  k = l
        <3>1. Running(k) /\ Running(l) /\ temp_path_for(k) = temp_path_for(l) /\ Alone(k)
            BY <1>6, <1>18, <2>2 DEF Running
        <3> QED BY <3>1 DEF ExportInv, FilesInv, OneJobAPath
    <2> QED BY <2>1, <2>2 DEF OneJobAPath
<1>12. NamesMatch' /\ WritesItsOwn' /\ TempHasWriter'
    <2>1. ~Writing(j) /\ ~Writing(j)'
        BY <1>1, <1>7 DEF Writing
    <2>2. \A k \in Jobs : Writing(k)' => k # j /\ Writing(k) /\ job'[k] = job[k]
        BY <1>6, <2>1 DEF Writing
    <2>3. \A k \in Jobs : Writing(k) => k # j /\ Writing(k)' /\ job'[k] = job[k]
        BY <1>6, <2>1 DEF Writing
    <2>4. WritesItsOwn'
        BY <1>8, <1>18, <2>2 DEF ExportInv, FilesInv, WritesItsOwn
    <2>5. TempHasWriter'
        BY <1>8, <2>3 DEF ExportInv, FilesInv, TempHasWriter
    <2>6. NamesMatch'
        <3>1. ASSUME NEW k \in Jobs, Writing(k)'
              PROVE  job'[k].file \in Jobs /\ temp_path_for(job[k].file)' = temp_path_for(k)'
            <4>1. /\ k # j /\ job'[k] = job[k] /\ job[k].file \in Jobs
                  /\ temp_path_for(job[k].file) = temp_path_for(k)
                BY <2>2, <3>1 DEF ExportInv, FilesInv, NamesMatch
            <4>2. temp_path_for(k) \in Paths \X Processes
                BY <2>2, <3>1, WritingIsRunning, NamesApart DEF ExportInv, FilesInv, temp_path_for
            <4>3. job[k].file # j
                BY <1>18, <4>1, <4>2
            <4>4. job'[job[k].file] = job[job[k].file]
                BY <1>6, <4>1, <4>3
            <4> QED BY <4>1, <4>4 DEF temp_path_for
        <3>2. ASSUME NEW p \in Paths, NEW q \in Processes, directory'[<<p, q>>] # None
              PROVE  /\ directory'[<<p, q>>] \in Jobs
                     /\ temp_path_for(directory[<<p, q>>])' = <<p, q>>
            <4>1. /\ directory[<<p, q>>] \in Jobs /\ temp_path_for(directory[<<p, q>>]) = <<p, q>>
                BY <1>8, <3>2 DEF ExportInv, FilesInv, NamesMatch
            <4>2. directory[<<p, q>>] # j
                BY <1>18, <4>1
            <4>3. job'[directory[<<p, q>>]] = job[directory[<<p, q>>]]
                BY <1>6, <4>1, <4>2
            <4> QED BY <1>8, <4>1, <4>3 DEF temp_path_for
        <3>3. ASSUME NEW p \in Paths, directory'[p] \in Jobs PROVE job'[directory'[p]].path = p
            <4>1. job[directory[p]].path = p /\ directory'[p] = directory[p]
                BY <1>8, <3>3 DEF ExportInv, FilesInv, NamesMatch
            <4>2. directory[p] # j
                BY <1>1, <4>1 DEF ExportInv, FilesInv, StepsMatch, JobsAssumption
            <4> QED BY <1>6, <3>3, <4>1, <4>2
        <3> QED BY <3>1, <3>2, <3>3 DEF NamesMatch
    <2> QED BY <2>4, <2>5, <2>6
<1>13. PiecesTaken' /\ WrittenIsPast' /\ TargetsFinished'
    <2>1. ~job[j].written /\ job[j].tile = 0
        BY <1>1 DEF ExportInv, FilesInv, WrittenIsPast, PiecesTaken
    <2>2. PiecesTaken'
        BY <1>6, <1>7, <1>8, <1>18, <2>1 DEF ExportInv, FilesInv, PiecesTaken, FileOf
    <2>3. WrittenIsPast'
        BY <1>6, <1>7, <2>1 DEF ExportInv, FilesInv, WrittenIsPast
    <2>4. \A k \in Jobs : job[k].written => job'[k].written
        BY <1>6, <1>7
    <2>5. TargetsFinished'
        <3>1. ASSUME NEW p \in Uncontended', directory[p] # None
              PROVE  /\ data[directory[p]] = FileOf(directory[p])
                     /\ directory[p] \in Jobs => job'[directory[p]].written
            BY <1>18, <2>4, <3>1 DEF ExportInv, FilesInv, TargetsFinished
        <3> QED BY <1>8, <3>1 DEF TargetsFinished, FileOf
    <2> QED BY <2>2, <2>3, <2>5
<1>14. CauseKnown'
    BY <1>6, <1>7, <1>18 DEF ExportInv, CauseKnown
<1>15. ToldInOrder'
    <2> SUFFICES ASSUME NEW k \in Jobs PROVE ToldWell(k)'
        BY DEF ToldInOrder, ToldWell
    <2>1. ToldWell(k)
        BY DEF ExportInv, ToldInOrder, ToldWell
    <2>2. Told(k)' = Told(k)
        BY <1>6, <1>7 DEF Told
    <2>3. Rising(Told(k))'
        BY <2>1, <2>2 DEF ToldWell, Rising
    <2>4. CASE k = j
        <3>1. ~job[j].written
            BY <1>1 DEF ExportInv, FilesInv, WrittenIsPast
        <3> QED BY <1>7, <2>1, <2>2, <2>3, <2>4, <3>1 DEF ToldWell
    <2>5. CASE k # j
        BY <1>6, <2>1, <2>2, <2>3, <2>5 DEF ToldWell
    <2> QED BY <2>4, <2>5
<1> QED
    BY <1>9, <1>10, <1>11, <1>12, <1>13, <1>14, <1>15 DEF ExportInv, FilesInv

-----------------------------------------------------------------------------
LEMMA InitExportInv ==
    ASSUME JobsAssumption, Init
    PROVE  ExportInv
<1>1. Typed
    BY InitTyped
<1>2. \A j \in Jobs : job[j] = NoJob
    BY DEF Init
<1>3. \A j \in Jobs :
          /\ job[j].step = "unborn" /\ job[j].state = "unborn" /\ job[j].tile = 0
          /\ job[j].path = None /\ ~job[j].written /\ job[j].outcome = "none" /\ job[j].last_emitted = 0
          /\ job[j].drained = <<>> /\ job[j].pending_progress = <<>>
    BY <1>2 DEF NoJob
<1>4. /\ directory \in [Names -> {None, Old}]
      /\ \A n \in Paths \X Processes : directory[n] = None
      /\ data[Old] = FileOf(Old)
    BY DEF Init, FileOf, Streams
<1>5. StepsMatch /\ OneJobAPath /\ WritesItsOwn /\ PiecesTaken /\ WrittenIsPast
    BY <1>3 DEF StepsMatch, OneJobAPath, Running, WritesItsOwn, Writing, PiecesTaken,
                WrittenIsPast, Ended
<1>6. TempHasWriter
    BY <1>4 DEF TempHasWriter
<1>7. TargetsFinished
    BY <1>4, NamesApart DEF TargetsFinished, Uncontended
<1>10. NamesMatch
    BY <1>3, <1>4, NamesApart DEF NamesMatch, Writing
<1>8. CauseKnown
    BY <1>3 DEF CauseKnown
<1>9. ToldInOrder
    <2>1. \A j \in Jobs : Told(j) = <<>>
        BY <1>3 DEF Told
    <2> QED BY <1>3, <2>1 DEF ToldInOrder, Rising, JobsAssumption
<1> QED
    BY <1>1, <1>5, <1>6, <1>7, <1>8, <1>9, <1>10 DEF ExportInv, FilesInv

LEMMA NextExportInv ==
    ASSUME JobsAssumption, ExportInv, [Next]_vars
    PROVE  ExportInv'
<1>1. ASSUME NEW j \in Jobs, NEW p \in Paths, NEW b \in BOOLEAN, Start(j, p, b)
      PROVE  ExportInv'
    BY <1>1, StartKeepsInv
<1>2. ASSUME NEW j \in Jobs, request_cancel(j) \/ poll(j) \/ Destroy(j) PROVE ExportInv'
    BY <1>2, HostTouches
<1>3. ASSUME NEW j \in Jobs, Worker(j) PROVE ExportInv'
    <2>1. job[j].path \in Paths
        BY <1>3, WorkerSteps DEF ExportInv, FilesInv
    <2>2. Typed'
        BY <1>3, <2>1, WorkerTyped DEF ExportInv
    <2>3. FilesInv' /\ CauseKnown' /\ ToldInOrder'
        BY <1>3, WorkerKeepsFiles, WorkerKeepsCause, WorkerTellsInOrder DEF ExportInv
    <2> QED BY <2>2, <2>3 DEF ExportInv
<1>4. ASSUME UNCHANGED <<directory, data, job, contended>>, crashed' \subseteq Processes
      PROVE  ExportInv'
    <2>1. Typed'
        BY <1>4 DEF ExportInv, Typed
    <2>6. /\ \A k \in Jobs : temp_path_for(k)' = temp_path_for(k) /\ (Alone(k)' <=> Alone(k))
          /\ Uncontended' = Uncontended
        BY <1>4 DEF temp_path_for, Alone, Uncontended
    <2>2. StepsMatch' /\ OneJobAPath' /\ WrittenIsPast'
        BY <1>4, <2>6 DEF ExportInv, FilesInv, StepsMatch, OneJobAPath, Running, WrittenIsPast
    <2>3. NamesMatch' /\ WritesItsOwn' /\ TempHasWriter'
        BY <1>4, <2>6 DEF ExportInv, FilesInv, NamesMatch, WritesItsOwn, TempHasWriter, Writing
    <2>4. PiecesTaken' /\ TargetsFinished'
        BY <1>4, <2>6 DEF ExportInv, FilesInv, PiecesTaken, TargetsFinished, FileOf
    <2>5. CauseKnown' /\ ToldInOrder'
        BY <1>4, <2>6 DEF ExportInv, CauseKnown, ToldInOrder, Told, Rising
    <2> QED BY <2>1, <2>2, <2>3, <2>4, <2>5 DEF ExportInv, FilesInv
<1>5. ASSUME NEW p \in Processes, Crash(p) PROVE ExportInv'
    BY <1>4, <1>5 DEF Crash, ExportInv, Typed
<1>6. CASE UNCHANGED vars
    BY <1>4, <1>6 DEF vars, ExportInv, Typed
<1> QED
    BY <1>1, <1>2, <1>3, <1>5, <1>6 DEF Next

(* Whatever the jobs, the paths and the tiles, and whichever jobs run at   *)
(* one time, the inductive invariant holds.                                *)
THEOREM ExportInvariant ==
    ASSUME JobsAssumption
    PROVE  Spec => []ExportInv
<1>1. Init => ExportInv
    BY InitExportInv
<1>2. ExportInv /\ [Next]_vars => ExportInv'
    BY NextExportInv
<1> QED
    BY <1>1, <1>2, PTL DEF Spec

-----------------------------------------------------------------------------
LEMMA InvKeepsTheirFiles ==
    ASSUME JobsAssumption, ExportInv
    PROVE  JobsKeepTheirFiles
<1>1. TargetIsWhole
    <2> SUFFICES ASSUME NEW p \in Uncontended, directory[p] # None PROVE Whole(directory[p])
        BY DEF TargetIsWhole
    <2>2. p \in Paths
        BY DEF Uncontended
    <2>1. directory[p] \in Streams /\ data[directory[p]] = FileOf(directory[p])
        BY <2>2, NamesApart DEF ExportInv, FilesInv, TargetsFinished, Typed
    <2> QED BY <2>1 DEF Whole, FileOf
<1>2. NoTempLeft
    <2> SUFFICES ASSUME NEW p \in Paths, NEW q \in Processes \ crashed,
                        \A j \in Jobs : job[j].path = p /\ ProcessOf[j] = q
                                            => job[j].state \in Ended
                 PROVE  directory[<<p, q>>] = None
        BY DEF NoTempLeft
    <2>1. \A j \in Jobs : Writing(j) => job[j].state \notin Ended
        BY DEF ExportInv, FilesInv, StepsMatch, Writing
    <2> QED BY <2>1 DEF ExportInv, FilesInv, TempHasWriter
<1>3. FailsForItsOwnCause
    BY DEF ExportInv, CauseKnown, FailsForItsOwnCause, Alone
<1>4. ProgressIsToldToTheEnd
    <2> SUFFICES ASSUME NEW j \in Jobs
                 PROVE  /\ Rising(Told(j))
                        /\ job[j].state = "completed"
                               => /\ Told(j) # <<>> /\ Told(j)[Len(Told(j))] = Tiles
                                  /\ job[j].fraction = Tiles
        BY DEF ProgressIsToldToTheEnd, Rising, Told
    <2>1. ToldWell(j)
        BY DEF ExportInv, ToldInOrder, ToldWell
    <2>2. Tiles # 0
        BY DEF JobsAssumption
    <2> QED BY <2>1, <2>2 DEF ToldWell
<1> QED
    BY <1>1, <1>2, <1>3, <1>4 DEF JobsKeepTheirFiles

(* A target is the old file or the whole image of one job unless two jobs  *)
(* of a process have run on it at one time; and a job that ended leaves no *)
(* temporary file, fails for its own cause or for that of one it shared    *)
(* its temporary file with, and has told its progress to the last tile,    *)
(* whatever fails and whoever dies.                                        *)
THEOREM JobsKeepFiles ==
    ASSUME JobsAssumption
    PROVE  Spec => []JobsKeepTheirFiles
<1>1. ExportInv => JobsKeepTheirFiles
    BY InvKeepsTheirFiles
<1> QED
    BY <1>1, ExportInvariant, PTL

-----------------------------------------------------------------------------
(***************************************************************************)
(* What a reader of the targets sees.  Only a rename that succeeds is      *)
(* seen, and it puts its own job's whole file in place.                    *)
(***************************************************************************)
Seen == [p \in Uncontended |-> IF directory[p] = None THEN None ELSE data[directory[p]]]
Unwritten == {j \in Jobs : ~job[j].written}

\* The rename of a worker alone on its name puts its own file in place.
LEMMA RenamePutsItsOwn ==
    ASSUME JobsAssumption, ExportInv, NEW j \in Jobs, Alone(j), Rename(j),
           ~job[j].written, job'[j].written
    PROVE  directory'[job[j].path] = j
<1>1. job[j] \in JobRecords /\ Worker(j) /\ job[j].path \in Paths
    <2>1. Worker(j)
        BY DEF Worker
    <2> QED BY <2>1, WorkerSteps DEF ExportInv, Typed, FilesInv
<1>2. directory[temp_path_for(j)] = j
    BY DEF Rename, At, ExportInv, FilesInv, WritesItsOwn, Writing
<1>3. DOMAIN Removed(j) = Names /\ job[j].path \in Names
    BY <1>1, NamesApart DEF Removed, ExportInv, Typed
<1>4. ASSUME NEW c, Becomes(j, [job[j] EXCEPT !.step = "sweep", !.cause = c]) PROVE FALSE
    <2>1. job'[j] = [job[j] EXCEPT !.step = "sweep", !.cause = c]
        BY <1>4 DEF Becomes, ExportInv, Typed
    <2> QED BY <1>1, <2>1 DEF JobRecords
<1> QED
    BY <1>2, <1>3, <1>4 DEF Rename

\* A worker's step is not seen that leaves its own target as it is.
LEMMA WorkerUnseen ==
    ASSUME JobsAssumption, ExportInv, NEW j \in Jobs, Worker(j),
           job[j].path \in Uncontended => directory'[job[j].path] = directory[job[j].path]
    PROVE  Seen' = Seen
<1>1. job[j].path \in Paths /\ Uncontended' = Uncontended
    BY WorkerSteps DEF ExportInv, FilesInv
<1>2. \A p \in Uncontended : directory'[p] = directory[p]
    <2>1. \A p \in Uncontended : p \in Names /\ p # temp_path_for(j)
        BY <1>1, NamesApart DEF temp_path_for, Uncontended
    <2> QED BY <2>1, WorkerFiles DEF ExportInv
<1>3. ASSUME NEW p \in Uncontended, directory[p] # None
      PROVE  data'[directory[p]] = data[directory[p]]
    BY <1>3, TargetsKept DEF ExportInv
<1> QED
    BY <1>1, <1>2, <1>3 DEF Seen

LEMMA RenameReplaces ==
    ASSUME JobsAssumption, ExportInv, NEW j \in Jobs, Rename(j),
           job[j].path \in Uncontended,
           directory'[job[j].path] # directory[job[j].path]
    PROVE  Seen' = [Seen EXCEPT ![job[j].path] = FileOf(j)]
<1>1. Worker(j) /\ job[j].path \in Paths /\ Uncontended' = Uncontended
    <2>1. Worker(j)
        BY DEF Worker
    <2> QED BY <2>1, WorkerSteps DEF ExportInv, FilesInv
<1>2. Alone(j)
    BY <1>1, NamesApart DEF Alone, Uncontended, temp_path_for
<1>3. directory'[job[j].path] = j
    BY <1>1, <1>2, WorkerFilesAlone DEF ExportInv
<1>4. \A p \in Uncontended : p # job[j].path => directory'[p] = directory[p]
    <2>1. \A p \in Uncontended : p \in Names /\ p # temp_path_for(j)
        BY <1>1, NamesApart DEF temp_path_for, Uncontended
    <2> QED BY <1>1, <2>1, WorkerFiles DEF ExportInv
<1>5. data' = data
    BY DEF Rename
<1>6. data'[j] = FileOf(j) /\ j # None
    <2>1. data[j] = FileOf(j)
        BY <1>2 DEF Rename, At, ExportInv, FilesInv, PiecesTaken
    <2> QED BY <1>5, <2>1, NamesApart
<1> QED
    BY <1>1, <1>3, <1>4, <1>5, <1>6 DEF Seen

\* What a step looks like to a reader: a file appears at a target, or at one
\* that is given up, or a target is given up, or nothing happens.
Appears(p, j) ==
    /\ p \in Uncontended /\ j \in Unwritten
    /\ Seen' = [Seen EXCEPT ![p] = FileOf(j)]
    /\ Unwritten' = Unwritten \ {j}
AppearsUnseen(p, j) ==
    /\ p \in Paths \ Uncontended /\ j \in Unwritten
    /\ Seen' = Seen /\ Unwritten' = Unwritten \ {j}
GivenUp(p) ==
    /\ p \in Uncontended
    /\ Seen' = [u \in Uncontended \ {p} |-> Seen[u]]
    /\ Unwritten' = Unwritten

LEMMA WorkerIsSeen ==
    ASSUME JobsAssumption, ExportInv, NEW j \in Jobs, Worker(j)
    PROVE  \/ \E p \in Paths : Appears(p, j) \/ AppearsUnseen(p, j)
           \/ Seen' = Seen /\ Unwritten' = Unwritten
<1>1. /\ job[j].path \in Paths /\ \A k \in Jobs \ {j} : job'[k] = job[k]
    BY WorkerSteps DEF ExportInv, FilesInv
<1>2. CASE job'[j].written = job[j].written
    <2>1. Rename(j) => ~job[j].written
        BY DEF Rename, At, ExportInv, FilesInv, WrittenIsPast
    <2>2. directory'[job[j].path] = directory[job[j].path]
        BY <1>2, <2>1, WorkerFiles DEF ExportInv
    <2>3. Unwritten' = Unwritten
        BY <1>1, <1>2 DEF Unwritten
    <2> QED BY <2>2, <2>3, WorkerUnseen
<1>3. CASE job'[j].written # job[j].written
    <2>1. Rename(j)
        BY <1>3, CheckFields, OpenFields, TileFields, AbandonFields,
           FinishFields, SweepFields, ReportFields DEF Worker, KeepsResult, ExportInv
    <2>2. ~job[j].written /\ job'[j].written
        <3>1. ~job[j].written
            BY <2>1 DEF Rename, At, ExportInv, FilesInv, WrittenIsPast
        <3> QED BY <1>3, <2>1, <3>1, RenameFields DEF ExportInv
    <2>3. Unwritten' = Unwritten \ {j} /\ j \in Unwritten
        BY <1>1, <2>2 DEF Unwritten
    <2>4. CASE job[j].path \in Uncontended
        <3>1. CASE directory'[job[j].path] # directory[job[j].path]
            BY <1>1, <2>1, <2>3, <2>4, <3>1, RenameReplaces DEF Appears
        <3>2. CASE directory'[job[j].path] = directory[job[j].path]
            <4>1. Alone(j)
                BY <1>1, <2>4, NamesApart DEF Alone, Uncontended, temp_path_for
            <4>2. directory[job[j].path] = j
                BY <2>1, <2>2, <3>2, <4>1, RenamePutsItsOwn
            <4>3. job[j].written
                BY <1>1, <2>4, <4>2, NamesApart DEF ExportInv, FilesInv, TargetsFinished
            <4> QED BY <2>2, <4>3
        <3> QED BY <3>1, <3>2
    <2>5. CASE job[j].path \notin Uncontended
        BY <1>1, <2>3, <2>5, WorkerUnseen DEF AppearsUnseen
    <2> QED BY <2>4, <2>5
<1> QED
    BY <1>2, <1>3

LEMMA StepIsSeen ==
    ASSUME JobsAssumption, ExportInv, [Next]_vars
    PROVE  \/ \E p \in Paths, j \in Jobs : Appears(p, j) \/ AppearsUnseen(p, j)
           \/ \E p \in Paths : GivenUp(p)
           \/ Seen' = Seen /\ Unwritten' = Unwritten
<1>1. ASSUME NEW j \in Jobs, NEW record, Becomes(j, record), record.written = job[j].written
      PROVE  Unwritten' = Unwritten
    BY <1>1 DEF Becomes, ExportInv, Typed, Unwritten
<1>2. ASSUME UNCHANGED <<directory, data, contended>> PROVE Seen' = Seen
    BY <1>2 DEF Seen, Uncontended
<1>3. \A j \in Jobs : job[j] \in JobRecords
    BY DEF ExportInv, Typed
<1>4. ASSUME NEW j \in Jobs, NEW p \in Paths, NEW b \in BOOLEAN, Start(j, p, b)
      PROVE  GivenUp(p) \/ (Seen' = Seen /\ Unwritten' = Unwritten)
    <2> DEFINE refusal == [job[j] EXCEPT !.path = p, !.step = "ended", !.state = "refused"]
               begun == [job[j] EXCEPT !.path = p, !.overwrite_confirmed = b,
                                       !.step = "check", !.state = "running", !.owned = TRUE]
    <2>1. Becomes(j, refusal) \/ Becomes(j, begun)
        BY <1>4 DEF Start
    <2>2. refusal.written = job[j].written /\ begun.written = job[j].written
        BY <1>3 DEF JobRecords
    <2> HIDE DEF refusal, begun
    <2>3. Unwritten' = Unwritten
        BY <1>1, <2>1, <2>2
    <2>4. UNCHANGED <<directory, data>>
        BY <1>4 DEF Start
    <2>5. contended' = contended \/ contended' = contended \cup {<<p, ProcessOf[j]>>}
        BY <1>4 DEF Start
    <2>6. CASE Uncontended' = Uncontended
        <3>1. Seen' = Seen
            BY <2>4, <2>6 DEF Seen
        <3> QED BY <2>3, <3>1
    <2>7. CASE Uncontended' # Uncontended
        <3>1. contended' = contended \cup {<<p, ProcessOf[j]>>} /\ ProcessOf[j] \in Processes
            BY <2>5, <2>7, NamesApart DEF Uncontended
        <3>2. Uncontended' = Uncontended \ {p}
            BY <3>1 DEF Uncontended
        <3>3. p \in Uncontended
            BY <2>7, <3>2
        <3>4. Seen' = [u \in Uncontended \ {p} |-> Seen[u]]
            BY <2>4, <3>2 DEF Seen
        <3> QED BY <2>3, <3>3, <3>4 DEF GivenUp
    <2> QED BY <2>6, <2>7
<1>5. ASSUME NEW j \in Jobs, request_cancel(j) \/ poll(j) \/ Destroy(j)
      PROVE  Seen' = Seen /\ Unwritten' = Unwritten
    <2> DEFINE asked == [job[j] EXCEPT !.stop_requested = TRUE]
               polled == [job[j] EXCEPT !.drained = job[j].drained \o job[j].pending_progress,
                                        !.pending_progress = <<>>]
               dropped == [job[j] EXCEPT !.owned = FALSE, !.stop_requested = TRUE]
    <2>1. Becomes(j, asked) \/ Becomes(j, polled) \/ Becomes(j, dropped)
        BY <1>5 DEF request_cancel, poll, Destroy
    <2>2. /\ asked.written = job[j].written /\ polled.written = job[j].written
          /\ dropped.written = job[j].written
        BY <1>3 DEF JobRecords
    <2> HIDE DEF asked, polled, dropped
    <2>3. UNCHANGED <<directory, data, contended>>
        BY <1>5 DEF request_cancel, poll, Destroy
    <2> QED BY <1>1, <1>2, <2>1, <2>2, <2>3
<1>6. ASSUME UNCHANGED <<directory, data, job, contended>>
      PROVE  Seen' = Seen /\ Unwritten' = Unwritten
    BY <1>2, <1>6 DEF Unwritten
<1> QED
    BY <1>4, <1>5, <1>6, WorkerIsSeen DEF Next, Crash, vars

(* RasterExport implements AtomicTargets: the targets a reader can find go *)
(* from their old files to whole files of single jobs, one step each, and  *)
(* a target is given up when two jobs of a process run on it at one time.  *)
THEOREM RasterImplementsAtomicTargets ==
    ASSUME JobsAssumption
    PROVE  Spec => TargetsReplacedAtomically
<1>1. Init => Atomic!Init
    <2> SUFFICES ASSUME Init PROVE Atomic!Init
        OBVIOUS
    <2>1. Uncontended = Paths /\ \A p \in Paths : directory[p] \in {None, Old}
        BY NamesApart DEF Init, Uncontended
    <2>2. data[Old] = FileOf(Old) /\ Old # None
        BY DEF Init, FileOf, Streams, JobsAssumption
    <2>3. Seen \in [Paths -> {None, FileOf(Old)}]
        BY <2>1, <2>2 DEF Seen
    <2>4. Unwritten = Jobs
        BY DEF Unwritten, Init, NoJob
    <2> QED BY <2>3, <2>4 DEF Atomic!Init, Atomic!FileOf, FileOf, Seen, Unwritten
<1>2. ExportInv /\ [Next]_vars => [Atomic!Next]_(Atomic!vars)
    <2> SUFFICES ASSUME ExportInv, [Next]_vars PROVE [Atomic!Next]_(Atomic!vars)
        OBVIOUS
    <2>1. Uncontended \subseteq Paths /\ DOMAIN Seen = Uncontended
        BY DEF Uncontended, Seen
    <2>2. ASSUME NEW p \in Paths, NEW j \in Jobs, Appears(p, j) PROVE Atomic!Replace(p, j)
        BY <2>2 DEF Appears, Atomic!Replace, Atomic!FileOf, FileOf, Seen, Unwritten
    <2>3. ASSUME NEW p \in Paths, NEW j \in Jobs, AppearsUnseen(p, j)
          PROVE  Atomic!ReplaceGivenUp(p, j)
        BY <2>1, <2>3 DEF AppearsUnseen, Atomic!ReplaceGivenUp, Seen, Unwritten
    <2>4. ASSUME NEW p \in Paths, GivenUp(p) PROVE Atomic!GiveUp(p)
        BY <2>1, <2>4 DEF GivenUp, Atomic!GiveUp, Seen, Unwritten
    <2>5. CASE Seen' = Seen /\ Unwritten' = Unwritten
        BY <2>5 DEF Atomic!vars, Seen, Unwritten
    <2>6. /\ \A p \in Paths, j \in Jobs : Appears(p, j) => p \in DOMAIN Seen
          /\ \A p \in Paths : GivenUp(p) => p \in DOMAIN Seen
        BY <2>1 DEF Appears, GivenUp
    <2> QED BY <2>2, <2>3, <2>4, <2>5, <2>6, StepIsSeen DEF Atomic!Next, Seen
<1> QED
    BY <1>1, <1>2, ExportInvariant, PTL DEF Spec, TargetsReplacedAtomically, Atomic!Spec

-----------------------------------------------------------------------------
(***************************************************************************)
(* PageExport.  The windows first: the arithmetic of their steps.          *)
(***************************************************************************)

\* Division by a step that need not be a numeral.
LEMMA DivisionBounds ==
    ASSUME NEW a \in Int, NEW b \in Nat \ {0}
    PROVE  /\ a \div b \in Int
           /\ b * (a \div b) <= a
           /\ a < b * (a \div b) + b
OBVIOUS

LEMMA ProductsOrdered ==
    ASSUME NEW a \in Int, NEW b \in Int, NEW c \in Nat, a <= b
    PROVE  c * a <= c * b
OBVIOUS

LEMMA FactorsOrdered ==
    ASSUME NEW a \in Int, NEW b \in Int, NEW c \in Nat \ {0}, c * a < c * b
    PROVE  a < b
<1>1. SUFFICES ASSUME b <= a PROVE FALSE
    OBVIOUS
<1>2. c * b <= c * a
    BY <1>1, ProductsOrdered
<1> QED
    BY <1>2

\* The last window begins above the bottom, and every row lies in the step of
\* some window.
LEMMA CeilingBounds ==
    ASSUME NEW a \in Int, NEW b \in Nat \ {0}
    PROVE  /\ CeilDiv(a, b) \in Int
           /\ a <= b * CeilDiv(a, b)
           /\ b * (CeilDiv(a, b) - 1) < a
<1>1. /\ b * ((a + b - 1) \div b) <= a + b - 1
      /\ a + b - 1 < b * ((a + b - 1) \div b) + b
      /\ (a + b - 1) \div b \in Int
    BY DivisionBounds
<1> DEFINE c == (a + b - 1) \div b
<1> HIDE DEF c
<1>2. c \in Int /\ b * c <= a + b - 1 /\ a + b - 1 < b * c + b
    BY <1>1 DEF c
<1>3. b * (c - 1) = b * c - b
    BY <1>2
<1>4. b * c \in Int
    BY <1>2
<1> QED
    BY <1>2, <1>3, <1>4 DEF c, CeilDiv

LEMMA StepBounds ==
    ASSUME NEW p, SoundSpec(p), p.printable > 0, p.overlap \in 0 .. 99
    PROVE  /\ DepthHeight(p) \in Nat
           /\ Step(p) \in Int
           /\ Step(p) <= DepthHeight(p)
<1>1. /\ p.printable \in Int /\ p.scale \in Nat \ {0}
    BY DEF SoundSpec
<1>2. DepthHeight(p) \in Nat
  <2>1. /\ p.printable \div p.scale \in Int
        /\ p.printable < p.scale * (p.printable \div p.scale) + p.scale
    BY <1>1, DivisionBounds
  <2>2. SUFFICES ASSUME p.printable \div p.scale < 0 PROVE FALSE
    BY <2>1 DEF DepthHeight
  <2>3. p.scale * (p.printable \div p.scale) <= p.scale * (-1)
    BY <1>1, <2>1, <2>2, ProductsOrdered
  <2>4. p.scale * (p.printable \div p.scale) \in Int /\ p.scale * (-1) = -p.scale
    BY <1>1, <2>1
  <2> QED
    BY <1>1, <2>1, <2>3, <2>4
<1> DEFINE d == DepthHeight(p)
<1> HIDE DEF d
<1>3. d \in Nat
    BY <1>2 DEF d
<1>4. d * (100 - p.overlap) \in Int /\ d * (100 - p.overlap) <= d * 100
    BY <1>3, ProductsOrdered
<1>5. (d * (100 - p.overlap)) \div 100 \in Int /\ (d * (100 - p.overlap)) \div 100 <= d
    BY <1>3, <1>4
<1> QED
    BY <1>3, <1>5 DEF d, Step

\* What a window is, and that it lies on the scene.
LEMMA FixedWindows ==
    ASSUME NEW s, NEW p, SoundScene(s), SoundSpec(p), ValidSnapshot(s, p),
           p.mode # "continuous", Windows(s, p) # <<>>
    PROVE  LET count == CeilDiv(s.height, Step(p)) IN
           /\ Step(p) \in Nat \ {0} /\ count \in Nat
           /\ DOMAIN Windows(s, p) = 1 .. count
           /\ \A n \in 1 .. count :
                Windows(s, p)[n] = [top |-> (n - 1) * Step(p),
                                    bottom |-> IF n = count THEN s.height
                                               ELSE Lower(s.height,
                                                          (n - 1) * Step(p) + DepthHeight(p)),
                                    clip |-> TRUE]
<1>1. Step(p) \in Int /\ s.height \in Nat \ {0}
    BY StepBounds DEF ValidSnapshot, SoundScene
<1>2. ~(Step(p) <= 0 \/ CeilDiv(s.height, Step(p)) > MaxWindows)
    BY DEF Windows
<1>3. Step(p) \in Nat \ {0}
    BY <1>1, <1>2
<1>4. CeilDiv(s.height, Step(p)) \in Int /\ s.height <= Step(p) * CeilDiv(s.height, Step(p))
  <2>1. s.height \in Int
    BY <1>1
  <2> QED
    BY <2>1, <1>3, CeilingBounds
<1>5. CeilDiv(s.height, Step(p)) \in Nat
  <2>1. SUFFICES ASSUME CeilDiv(s.height, Step(p)) <= 0 PROVE FALSE
    BY <1>4
  <2>2. Step(p) * CeilDiv(s.height, Step(p)) <= Step(p) * 0
    BY <1>3, <1>4, <2>1, ProductsOrdered
  <2> QED
    BY <1>1, <1>3, <1>4, <2>2
<1> QED
    BY <1>2, <1>3, <1>5 DEF Windows

LEMMA WindowOnScene ==
    ASSUME NEW s, NEW p, SoundScene(s), SoundSpec(p), ValidSnapshot(s, p),
           NEW n \in DOMAIN Windows(s, p)
    PROVE  LET w == Windows(s, p)[n] IN
           /\ w.top \in Nat /\ w.bottom \in Nat /\ w.clip \in BOOLEAN
           /\ w.top <= s.height
<1>1. s.height \in Nat \ {0}
    BY DEF ValidSnapshot, SoundScene
<1>2. CASE p.mode = "continuous"
  <2>1. Windows(s, p) = <<[top |-> 0, bottom |-> s.height, clip |-> FALSE]>>
    BY <1>2 DEF Windows
  <2>2. n = 1 /\ Windows(s, p)[1] = [top |-> 0, bottom |-> s.height, clip |-> FALSE]
    BY <2>1
  <2> QED
    BY <1>1, <2>2
<1>3. CASE p.mode # "continuous"
  <2> DEFINE count == CeilDiv(s.height, Step(p))
  <2>1. Windows(s, p) # <<>>
    OBVIOUS
  <2>2. /\ Step(p) \in Nat \ {0} /\ count \in Nat /\ n \in 1 .. count
        /\ Windows(s, p)[n] = [top |-> (n - 1) * Step(p),
                               bottom |-> IF n = count THEN s.height
                                          ELSE Lower(s.height,
                                                     (n - 1) * Step(p) + DepthHeight(p)),
                               clip |-> TRUE]
    BY <1>3, <2>1, FixedWindows
  <2>3. Step(p) * (count - 1) < s.height
    <3>1. s.height \in Int /\ Step(p) \in Nat \ {0}
      BY <1>1, <2>2
    <3> QED
      BY <3>1, CeilingBounds
  <2> HIDE DEF count
  <2>4. Step(p) * (n - 1) <= Step(p) * (count - 1)
    BY <2>2, ProductsOrdered
  <2>5. (n - 1) * Step(p) = Step(p) * (n - 1) /\ (n - 1) * Step(p) \in Nat
    BY <2>2
  <2>6. Step(p) * (count - 1) \in Int
    BY <2>2
  <2>7. DepthHeight(p) \in Nat
    BY StepBounds DEF ValidSnapshot
  <2> QED
    BY <1>1, <2>2, <2>3, <2>4, <2>5, <2>6, <2>7 DEF Lower
<1> QED
    BY <1>2, <1>3

\* Every row has a window that shows it above the legend.
LEMMA RowHasWindow ==
    ASSUME NEW s, NEW p, SoundScene(s), SoundSpec(p), ValidSnapshot(s, p),
           Windows(s, p) # <<>>,
           LegendBand(s, p) <= (DepthHeight(p) - Step(p)) * p.scale,
           NEW r \in SceneRows(s)
    PROVE  \E n \in DOMAIN Windows(s, p) : r \in PdfRows(s, p, Windows(s, p)[n])
<1>1. s.height \in Nat \ {0} /\ r \in 0 .. s.height - 1
    BY DEF ValidSnapshot, SoundScene, SceneRows
<1>2. CASE p.mode = "continuous"
  <2>1. Windows(s, p) = <<[top |-> 0, bottom |-> s.height, clip |-> FALSE]>>
    BY <1>2 DEF Windows
  <2>2. r \in PdfRows(s, p, Windows(s, p)[1])
    BY <2>1 DEF PdfRows
  <2>3. 1 \in DOMAIN Windows(s, p)
    BY <2>1
  <2> QED
    BY <2>2, <2>3
<1>3. CASE p.mode # "continuous"
  <2> DEFINE step == Step(p)
             count == CeilDiv(s.height, step)
             n == (r \div step) + 1
             legend == LegendBand(s, p) \div p.scale
             w == Windows(s, p)[n]
  <2>1. /\ step \in Nat \ {0} /\ count \in Nat
        /\ DOMAIN Windows(s, p) = 1 .. count
        /\ \A k \in 1 .. count :
             Windows(s, p)[k] = [top |-> (k - 1) * step,
                                 bottom |-> IF k = count THEN s.height
                                            ELSE Lower(s.height, (k - 1) * step + DepthHeight(p)),
                                 clip |-> TRUE]
    BY <1>3, FixedWindows
  <2>2. DepthHeight(p) \in Nat /\ step <= DepthHeight(p)
    BY StepBounds DEF ValidSnapshot
  <2>3. /\ r \div step \in Int /\ step * (r \div step) <= r /\ r < step * (r \div step) + step
    <3>1. r \in Int /\ step \in Nat \ {0}
      BY <1>1, <2>1
    <3> QED
      BY <3>1, DivisionBounds
  <2>4. s.height <= step * count
    <3>1. s.height \in Int /\ step \in Nat \ {0}
      BY <1>1, <2>1
    <3> QED
      BY <3>1, CeilingBounds
  <2>5. legend <= DepthHeight(p) - step /\ legend \in Int
    <3>1. p.scale \in Nat \ {0} /\ p.legend \in BOOLEAN /\ p.printable \in Int /\ s.headers \in Nat
      BY DEF SoundSpec, SoundScene
    <3>2. LegendBand(s, p) \in Int
      BY <3>1 DEF LegendBand, LegendEntries, Lower, LegendRow
    <3>3. legend \in Int /\ p.scale * legend <= LegendBand(s, p)
      BY <3>1, <3>2, DivisionBounds
    <3> DEFINE l == legend
               d == DepthHeight(p) - step
    <3> HIDE DEF legend, step
    <3>4. d \in Int
      BY <2>1, <2>2
    <3>5. p.scale * l < p.scale * (d + 1)
      <4>1. d * p.scale = p.scale * d /\ p.scale * (d + 1) = p.scale * d + p.scale /\ p.scale * d \in Int
        BY <3>1, <3>4
      <4>2. LegendBand(s, p) <= d * p.scale
        BY DEF step
      <4>3. p.scale * l \in Int
        BY <3>1, <3>3
      <4> QED
        BY <3>1, <3>2, <3>3, <4>1, <4>2, <4>3
    <3>6. l < d + 1
      BY <3>1, <3>3, <3>4, <3>5, FactorsOrdered
    <3> QED
      BY <3>3, <3>4, <3>6
  <2> HIDE DEF legend, count, step
  <2>6. r \div step < count
    <3>1. step * (r \div step) < step * count
      <4>1. step * (r \div step) \in Int /\ step * count \in Int
        BY <2>1, <2>3
      <4> QED
        BY <1>1, <2>3, <2>4, <4>1
    <3> QED
      BY <2>1, <2>3, <3>1, FactorsOrdered
  <2>7. r \div step >= 0
    <3>1. SUFFICES ASSUME r \div step <= -1 PROVE FALSE
      BY <2>3
    <3>2. step * (r \div step) <= step * (-1)
      BY <2>1, <2>3, <3>1, ProductsOrdered
    <3>3. step * (r \div step) \in Int /\ step * (-1) = -step
      BY <2>1, <2>3
    <3> QED
      BY <1>1, <2>1, <2>3, <3>2, <3>3
  <2>8. n \in 1 .. count /\ (n - 1) * step = step * (r \div step)
    BY <2>1, <2>3, <2>6, <2>7
  <2>9. /\ w.clip
        /\ w.top = step * (r \div step)
        /\ w.bottom = IF n = count THEN s.height ELSE Lower(s.height, w.top + DepthHeight(p))
    BY <2>1, <2>8
  <2> HIDE DEF w, n
  <2>10. step * (r \div step) \in Int
    BY <2>1, <2>3
  <2>11. r >= w.top /\ r < w.top + step /\ w.top \in Int
    BY <2>3, <2>9, <2>10
  <2>12. r < w.bottom /\ w.bottom \in Int
    BY <1>1, <2>1, <2>2, <2>9, <2>11 DEF Lower
  <2>13. r < w.top + DepthHeight(p) - legend
    BY <1>1, <2>1, <2>2, <2>5, <2>11
  <2>14. r < Lower(w.bottom, w.top + DepthHeight(p) - legend)
    BY <2>12, <2>13 DEF Lower
  <2> QED
    BY <2>1, <2>8, <2>11, <2>14 DEF PdfRows, w, legend
<1> QED
    BY <1>2, <1>3

-----------------------------------------------------------------------------
Kinds == {"interval", "marker", "symbol", "curve", "fill", "image", "custom", "text"}

OnScene(s, w) ==
    /\ w.top \in Nat /\ w.bottom \in Nat /\ w.clip \in BOOLEAN
    /\ w.top <= s.height

\* Both emitters cut an item alike.
LEMMA PartsAgree ==
    ASSUME NEW item, NEW w, item.kind \in Kinds
    PROVE  PdfParts(item, w) = IF item.kind = "image" /\ item.id \notin resolved THEN {}
                               ELSE SvgParts(item, w)
<1> USE DEF PdfParts, SvgParts
<1>1. CASE item.kind = "interval"
    BY <1>1 DEF PdfInterval, SvgInterval
<1>2. CASE item.kind = "marker"
    BY <1>2 DEF PdfMarker, SvgMarker
<1>3. CASE item.kind = "symbol"
    BY <1>3 DEF PdfSymbol, SvgSymbol
<1>4. CASE item.kind = "curve"
    BY <1>4 DEF PdfCurve, SvgCurve
<1>5. CASE item.kind = "fill"
    BY <1>5 DEF PdfFill, SvgFill
<1>6. CASE item.kind = "image"
    BY <1>6 DEF PdfImage, SvgImage
<1>7. CASE item.kind = "custom"
    BY <1>7 DEF PdfCustom, SvgCustom
<1>8. CASE item.kind = "text"
    BY <1>8 DEF PdfText, SvgText
<1> QED
    BY <1>1, <1>2, <1>3, <1>4, <1>5, <1>6, <1>7, <1>8 DEF Kinds

LEMMA TracksMeet ==
    ASSUME NEW s, NEW w, SoundScene(s), OnScene(s, w), NEW t \in DOMAIN s.tracks
    PROVE  Meets(w, s.tracks[t].top, s.tracks[t].bottom, 0)
BY DEF SoundScene, OnScene, Meets

\* So they put the same marks at the same places.
SameMarks(s, w) ==
    LET svg == SvgMarks(s, w)
        Given(m) == LET item == s.items[m[3]]
                    IN  item.kind = "image" => item.id \in resolved
    IN  PdfMarks(s, w) = [m \in {m \in DOMAIN svg : Given(m)} |-> svg[m]]

LEMMA MarksAgree ==
    ASSUME NEW s, NEW w, SoundScene(s), OnScene(s, w)
    PROVE  SameMarks(s, w)
<1> DEFINE P == Places(s, SvgOrder)
           Item(m) == s.items[m[3]]
           Hidden(m) == Item(m).kind = "image" /\ Item(m).id \notin resolved
           Svg == {m \in P : SvgParts(Item(m), w) # {}}
           Pdf == {m \in P : PdfParts(Item(m), w) # {}}
<1>1. Places(s, PdfOrder) = P
    BY DEF SvgOrder, PdfOrder
<1>2. \A m \in P : /\ m[1] \in DOMAIN s.tracks
                   /\ Item(m).kind \in Kinds
    BY DEF Places, SoundScene, Kinds
<1>3. \A m \in P : PdfParts(Item(m), w) = IF Hidden(m) THEN {} ELSE SvgParts(Item(m), w)
    BY <1>2, PartsAgree
<1>4. SvgMarks(s, w) = [m \in Svg |-> SvgParts(Item(m), w)]
  <2>1. Svg = {m \in P : /\ Meets(w, s.tracks[m[1]].top, s.tracks[m[1]].bottom, 0)
                        /\ SvgParts(Item(m), w) # {}}
    BY <1>2, TracksMeet
  <2> QED
    BY <2>1 DEF SvgMarks
<1>5. PdfMarks(s, w) = [m \in Pdf |-> PdfParts(Item(m), w)]
    BY <1>1 DEF PdfMarks
<1>6. Pdf = {m \in Svg : ~Hidden(m)}
    BY <1>3
<1> HIDE DEF P, Svg, Pdf
<1>7. \A m \in Pdf : PdfParts(Item(m), w) = SvgParts(Item(m), w)
    BY <1>3, <1>6 DEF Pdf
<1> QED
    BY <1>4, <1>5, <1>6, <1>7 DEF SameMarks

-----------------------------------------------------------------------------
\* What reaches into a window is a part of what is drawn there.
LEMMA ReachingIsDrawn ==
    ASSUME NEW s, NEW w, SoundScene(s), OnScene(s, w), NEW i \in DOMAIN s.items,
           NEW part \in AllParts(s.items[i]), Reaches(s.items[i], part, w)
    PROVE  part \in SvgParts(s.items[i], w)
<1> DEFINE item == s.items[i]
<1>1. /\ item.top \in Int /\ item.bottom \in Int /\ item.pad \in Int /\ item.reach \in Int
      /\ item.glyphs \in Seq(Int) /\ item.segments \in Seq(Seq(Int))
      /\ item.reach <= IF item.kind \in {"marker", "symbol", "text"} THEN item.pad ELSE 0
      /\ item.kind = "text" =>
           \A g \in DOMAIN item.glyphs :
             item.top <= item.glyphs[g] /\ item.glyphs[g] <= item.bottom
      /\ item.kind \in Kinds
    BY DEF SoundScene, SoundItem, Kinds
<1>2. w.top \in Int /\ w.bottom \in Int
    BY DEF OnScene
<1> HIDE DEF item
<1>3. part \in AllParts(item) /\ Reaches(item, part, w)
    BY DEF item
<1>4. item.kind \notin {"curve", "text"} => part = 1
    BY <1>3 DEF AllParts
<1>5. item.kind \in {"interval", "fill", "image"} => Meets(w, item.top, item.bottom, 0)
    BY <1>1, <1>2, <1>3 DEF Reaches, Meets
<1>6. item.kind \in {"marker", "symbol"} => Meets(w, item.top, item.bottom, item.pad)
    BY <1>1, <1>2, <1>3 DEF Reaches, Meets
<1>7. item.kind = "custom" => Boxed(item, w, 0)
    BY <1>1, <1>2, <1>3 DEF Reaches, Meets, Boxed
<1> USE DEF SvgParts
<1>8. CASE item.kind = "interval"
    BY <1>4, <1>5, <1>8 DEF SvgInterval, WholeItem, item
<1>9. CASE item.kind = "fill"
    BY <1>4, <1>5, <1>9 DEF SvgFill, WholeItem, item
<1>10. CASE item.kind = "image"
    BY <1>4, <1>5, <1>10 DEF SvgImage, WholeItem, item
<1>11. CASE item.kind = "marker"
    BY <1>4, <1>6, <1>11 DEF SvgMarker, WholeItem, item
<1>12. CASE item.kind = "symbol"
    BY <1>4, <1>6, <1>12 DEF SvgSymbol, WholeItem, item
<1>13. CASE item.kind = "custom"
    BY <1>4, <1>7, <1>13 DEF SvgCustom, item
<1>14. CASE item.kind = "curve"
  <2>1. part \in EdgeSet(item)
    BY <1>3, <1>14 DEF AllParts
  <2>2. PICK g \in DOMAIN item.segments :
          part \in {<<g, e>> : e \in 1 .. (Len(item.segments[g]) - 1)}
    BY <2>1 DEF EdgeSet
  <2> PICK e \in 1 .. (Len(item.segments[g]) - 1) : part = <<g, e>>
    BY <2>2
  <2>3. /\ item.segments[g][e] \in Int /\ item.segments[g][e + 1] \in Int
    <3>1. item.segments[g] \in Seq(Int)
      BY <1>1
    <3> QED
      BY <3>1
  <2>4. EdgeTop(item, part) \in Int /\ EdgeBottom(item, part) \in Int
    BY <2>3 DEF EdgeTop, EdgeBottom, Lower, Upper
  <2>5. Meets(w, EdgeTop(item, part), EdgeBottom(item, part), 0)
    <3>1. /\ EdgeTop(item, part) - item.reach < w.bottom
          /\ EdgeBottom(item, part) + item.reach > w.top
      BY <1>3, <1>14 DEF Reaches
    <3>2. item.reach \in Int /\ item.reach <= 0
      BY <1>1, <1>14
    <3> DEFINE top == EdgeTop(item, part)
               bottom == EdgeBottom(item, part)
    <3> HIDE DEF top, bottom
    <3>3. top \in Int /\ bottom \in Int /\ top - item.reach < w.bottom /\ bottom + item.reach > w.top
      BY <2>4, <3>1 DEF top, bottom
    <3>4. top <= w.bottom /\ bottom >= w.top
      BY <1>2, <3>2, <3>3
    <3> QED
      BY <1>2, <3>3, <3>4 DEF Meets, top, bottom
  <2> QED
    BY <1>14, <2>1, <2>5 DEF SvgCurve, CutCurve, item
<1>15. CASE item.kind = "text"
  <2>1. part \in DOMAIN item.glyphs
    BY <1>3, <1>15 DEF AllParts
  <2>2. item.glyphs[part] \in Int
    BY <1>1, <2>1
  <2>3. /\ item.glyphs[part] - item.reach < w.bottom
        /\ item.glyphs[part] + item.reach > w.top
        /\ item.reach <= item.pad
        /\ item.top <= item.glyphs[part] /\ item.glyphs[part] <= item.bottom
    BY <1>1, <1>3, <1>15, <2>1 DEF Reaches
  <2>4. /\ Meets(w, item.glyphs[part], item.glyphs[part], item.pad)
        /\ Boxed(item, w, item.pad)
    <3> DEFINE at == item.glyphs[part]
               top == item.top
               bottom == item.bottom
    <3>1. /\ at \in Int /\ top \in Int /\ bottom \in Int
          /\ item.pad \in Int /\ item.reach \in Int /\ item.reach <= item.pad
          /\ at - item.reach < w.bottom /\ at + item.reach > w.top
          /\ top <= at /\ at <= bottom
      BY <1>1, <2>2, <2>3
    <3> HIDE DEF at, top, bottom
    <3>2. /\ at - item.pad < w.bottom /\ at + item.pad > w.top
          /\ top - item.pad < w.bottom /\ bottom + item.pad > w.top
      BY <1>2, <3>1
    <3> QED
      BY <1>2, <3>1, <3>2 DEF Meets, Boxed, at, top, bottom
  <2> QED
    BY <1>15, <2>1, <2>4 DEF SvgText, item
<1> QED
    BY <1>1, <1>8, <1>9, <1>10, <1>11, <1>12, <1>13, <1>14, <1>15 DEF Kinds

\* It is shown at the item's place under its track.
LEMMA PlaceOfItem ==
    ASSUME NEW s, SoundScene(s), NEW i \in DOMAIN s.items
    PROVE  \E m \in Places(s, SvgOrder) : m[3] = i /\ m[1] \in DOMAIN s.tracks
<1>1. PICK t \in DOMAIN s.tracks : s.tracks[t].id = s.items[i].track
    BY DEF SoundScene
<1>2. PICK k \in DOMAIN SvgOrder : SvgOrder[k] = s.items[i].kind
    BY DEF SoundScene, SvgOrder
<1>3. <<t, k, i>> \in Places(s, SvgOrder)
    BY <1>1, <1>2 DEF Places
<1> QED
    BY <1>1, <1>3

LEMMA ReachingIsShown ==
    ASSUME NEW s, NEW w, SoundScene(s), OnScene(s, w), NEW i \in DOMAIN s.items,
           NEW part \in AllParts(s.items[i]), Reaches(s.items[i], part, w)
    PROVE  /\ \E m \in DOMAIN SvgMarks(s, w) : m[3] = i /\ part \in SvgMarks(s, w)[m]
           /\ (s.items[i].kind = "image" => s.items[i].id \in resolved) =>
                \E m \in DOMAIN PdfMarks(s, w) : m[3] = i /\ part \in PdfMarks(s, w)[m]
<1>1. part \in SvgParts(s.items[i], w)
    BY ReachingIsDrawn
<1>2. PICK m \in Places(s, SvgOrder) : m[3] = i /\ m[1] \in DOMAIN s.tracks
    BY PlaceOfItem
<1>3. m \in DOMAIN SvgMarks(s, w) /\ SvgMarks(s, w)[m] = SvgParts(s.items[i], w)
    BY <1>1, <1>2, TracksMeet DEF SvgMarks
<1>4. ASSUME s.items[i].kind = "image" => s.items[i].id \in resolved
      PROVE  m \in DOMAIN PdfMarks(s, w) /\ PdfMarks(s, w)[m] = SvgMarks(s, w)[m]
  <2>1. PdfParts(s.items[i], w) = SvgParts(s.items[i], w)
    <3>1. s.items[i].kind \in Kinds
      BY DEF SoundScene, Kinds
    <3> QED
      BY <1>4, <3>1, PartsAgree
  <2>2. m \in Places(s, PdfOrder)
    BY <1>2 DEF SvgOrder, PdfOrder
  <2> QED
    BY <1>1, <1>2, <1>3, <2>1, <2>2 DEF PdfMarks
<1> QED
    BY <1>1, <1>2, <1>3, <1>4

-----------------------------------------------------------------------------
LEMMA WindowsAreCounted ==
    ASSUME NEW s, NEW p, SoundScene(s), SoundSpec(p), ValidSnapshot(s, p)
    PROVE  Len(Windows(s, p)) \in Nat /\ DOMAIN Windows(s, p) = 1 .. Len(Windows(s, p))
<1>1. CASE Windows(s, p) = <<>>
    BY <1>1
<1>2. CASE Windows(s, p) # <<>> /\ p.mode # "continuous"
  <2> DEFINE count == CeilDiv(s.height, Step(p))
  <2>1. count \in Nat /\ DOMAIN Windows(s, p) = 1 .. count
    BY <1>2, FixedWindows
  <2>2. Windows(s, p) \in Seq({Windows(s, p)[n] : n \in DOMAIN Windows(s, p)})
    <3>1. Windows(s, p) = [n \in 1 .. count |-> Windows(s, p)[n]]
      BY <1>2, <2>1 DEF Windows
    <3> QED
      BY <2>1, <3>1
  <2> QED
    BY <2>2
<1>3. CASE p.mode = "continuous"
    BY <1>3 DEF Windows
<1> QED
    BY <1>1, <1>2, <1>3

PageWritten(n) ==
    LET w == Windows(scene, spec)[n]
    IN  IF backend = "svg" THEN SvgPage(scene, spec, w) ELSE PdfPage(scene, spec, w)

(***************************************************************************)
(* The inductive invariant: pages are only written of a snapshot that is   *)
(* valid, and those written are the first of its windows.                  *)
(***************************************************************************)
PagesInv ==
    /\ scene \in Scenes /\ spec \in PageSpecs /\ backend \in {"svg", "pdf"}
    /\ phase \in {"writing", "done"} => ValidSnapshot(scene, spec) /\ Windows(scene, spec) # <<>>
    /\ phase \notin {"writing", "done"} => pages = <<>>
    /\ pages \in Seq({PageWritten(n) : n \in 1 .. Len(Windows(scene, spec))})
    /\ \A n \in DOMAIN pages : pages[n] = PageWritten(n)
    /\ phase \in {"writing", "done"} => Len(pages) <= Len(Windows(scene, spec))
    /\ phase = "done" => Len(pages) = Len(Windows(scene, spec))

LEMMA PageWrittenKept ==
    ASSUME UNCHANGED <<scene, spec, backend, resolved>>
    PROVE  \A n : PageWritten(n)' = PageWritten(n)
BY DEF PageWritten, SvgPage, PdfPage, PdfMarks, PdfParts, PdfImage

LEMMA WritePageKeepsInv ==
    ASSUME PagesAssumption, PagesInv, WritePage
    PROVE  PagesInv'
<1> DEFINE k == Len(pages)
           last == Len(Windows(scene, spec))
           W == {PageWritten(n) : n \in 1 .. last}
<1>1. /\ phase = "writing" /\ k < last
      /\ pages' = Append(pages, PageWritten(k + 1))
      /\ UNCHANGED <<scene, spec, backend, resolved, phase>>
    BY DEF WritePage, PageWritten
<1>2. last \in Nat
  <2>1. ValidSnapshot(scene, spec) /\ SoundScene(scene) /\ SoundSpec(spec)
    BY <1>1 DEF PagesInv, PagesAssumption
  <2> QED
    BY <2>1, WindowsAreCounted
<1>3. pages \in Seq(W) /\ k \in Nat
  <2>1. pages \in Seq(W)
    BY DEF PagesInv
  <2> QED
    BY <2>1
<1>4. PageWritten(k + 1) \in W
    BY <1>1, <1>2, <1>3
<1> HIDE DEF last, W, k
<1>5. /\ pages' \in Seq(W) /\ Len(pages') = k + 1
      /\ \A n \in DOMAIN pages' : pages'[n] = PageWritten(n)
  <2>1. \A n \in 1 .. k : pages[n] = PageWritten(n)
    BY <1>3 DEF PagesInv, k
  <2>2. \A n \in 1 .. k + 1 : Append(pages, PageWritten(k + 1))[n] = PageWritten(n)
    BY <1>3, <2>1 DEF k
  <2> QED
    BY <1>1, <1>3, <1>4, <2>2 DEF k
<1>6. \A n : PageWritten(n)' = PageWritten(n)
    BY <1>1, PageWrittenKept
<1>7. W' = W /\ last' = last
    BY <1>1, <1>6 DEF W, last
<1> QED
    BY <1>1, <1>2, <1>3, <1>5, <1>6, <1>7 DEF PagesInv, W, last, k

LEMMA PagesInvariant ==
    ASSUME PagesAssumption
    PROVE  PagesSpec => []PagesInv
<1>1. PagesInit => PagesInv
    BY DEF PagesInit, PagesInv
<1>2. PagesInv /\ [PagesNext]_pages_vars => PagesInv'
  <2> SUFFICES ASSUME PagesInv, [PagesNext]_pages_vars PROVE PagesInv'
    OBVIOUS
  <2> DEFINE W == {PageWritten(n) : n \in 1 .. Len(Windows(scene, spec))}
  <2>1. ASSUME UNCHANGED <<scene, spec, backend, resolved>>
        PROVE  /\ W' = W
               /\ \A n : PageWritten(n)' = PageWritten(n)
    BY <2>1, PageWrittenKept
  <2>2. CASE Begin
    <3>1. pages = <<>> /\ UNCHANGED <<scene, spec, backend, resolved, pages>>
      BY <2>2 DEF Begin, PagesInv
    <3>2. phase' \in {"refused", "writing"}
      BY <2>2 DEF Begin
    <3>3. phase' = "writing" => ValidSnapshot(scene, spec) /\ Windows(scene, spec) # <<>>
      BY <2>2 DEF Begin
    <3>4. phase' = "writing" => Len(Windows(scene, spec)) \in Nat
      BY <3>3, WindowsAreCounted DEF PagesInv, PagesAssumption
    <3> QED
      BY <3>1, <3>2, <3>3, <3>4 DEF PagesInv
  <2>3. CASE WritePage
    BY <2>3, WritePageKeepsInv
  <2>4. CASE Fail
    BY <2>4 DEF Fail, PagesInv
  <2>5. CASE EndDocument
    <3>1. UNCHANGED <<scene, spec, backend, resolved, pages>> /\ phase = "writing" /\ phase' = "done"
          /\ Len(pages) = Len(Windows(scene, spec))
      BY <2>5 DEF EndDocument
    <3> QED
      BY <2>1, <3>1 DEF PagesInv
  <2>6. CASE UNCHANGED pages_vars
    BY <2>1, <2>6 DEF PagesInv, pages_vars
  <2> QED
    BY <2>2, <2>3, <2>4, <2>5, <2>6 DEF PagesNext
<1> QED
    BY <1>1, <1>2, PTL DEF PagesSpec

LEMMA PagesOnScene ==
    ASSUME PagesAssumption, PagesInv, NEW n \in DOMAIN pages
    PROVE  /\ SoundScene(scene) /\ OnScene(scene, pages[n].window)
           /\ pages[n].window = Windows(scene, spec)[n]
           /\ pages[n].marks = IF backend = "svg" THEN SvgMarks(scene, pages[n].window)
                               ELSE PdfMarks(scene, pages[n].window)
<1>1. SoundScene(scene) /\ SoundSpec(spec)
    BY DEF PagesInv, PagesAssumption
<1>2. phase \in {"writing", "done"}
    BY DEF PagesInv
<1>3. ValidSnapshot(scene, spec) /\ Len(pages) <= Len(Windows(scene, spec))
    BY <1>2 DEF PagesInv
<1>4. n \in DOMAIN Windows(scene, spec)
  <2>1. n \in 1 .. Len(pages) /\ Len(pages) \in Nat
    BY DEF PagesInv
  <2> QED
    BY <1>1, <1>3, <2>1, WindowsAreCounted
<1>5. pages[n].window = Windows(scene, spec)[n]
    BY DEF PagesInv, PageWritten, SvgPage, PdfPage
<1>6. OnScene(scene, pages[n].window)
    BY <1>1, <1>3, <1>4, <1>5, WindowOnScene DEF OnScene
<1>7. pages[n] = PageWritten(n) /\ backend \in {"svg", "pdf"}
    BY DEF PagesInv
<1> QED
    BY <1>1, <1>5, <1>6, <1>7 DEF PageWritten, SvgPage, PdfPage

(***************************************************************************)
(* Whatever scene is exported with whatever page specification, its pages  *)
(* show every row, leave out nothing that reaches into their windows, and  *)
(* carry the same parts in the same order in SVG and PDF                   *)
(* (compute_page_windows and the emitters).                                *)
(***************************************************************************)
THEOREM PagesAreFaithful ==
    ASSUME PagesAssumption
    PROVE  PagesSpec => []PagesShowEveryRow
<1> SUFFICES ASSUME PagesInv PROVE PagesShowEveryRow
    BY PagesInvariant, PTL
<1>1. EveryRowPrinted
  <2> SUFFICES ASSUME phase = "done", backend = "pdf",
                      LegendBand(scene, spec) <= Overlap * spec.scale,
                      NEW r \in SceneRows(scene)
               PROVE  \E i \in DOMAIN pages : r \in pages[i].rows
    BY DEF EveryRowPrinted, Covered
  <2>1. /\ SoundScene(scene) /\ SoundSpec(spec) /\ ValidSnapshot(scene, spec)
        /\ Windows(scene, spec) # <<>> /\ Len(pages) = Len(Windows(scene, spec))
    BY DEF PagesInv, PagesAssumption
  <2>2. PICK i \in DOMAIN Windows(scene, spec) : r \in PdfRows(scene, spec, Windows(scene, spec)[i])
    BY <2>1, RowHasWindow DEF Overlap
  <2>3. i \in DOMAIN pages
    BY <2>1, WindowsAreCounted DEF PagesInv
  <2>4. pages[i].rows = PdfRows(scene, spec, Windows(scene, spec)[i])
    BY <2>3 DEF PagesInv, PageWritten, PdfPage
  <2> QED
    BY <2>2, <2>3, <2>4
<1>2. NothingVisibleCulled
  <2> SUFFICES ASSUME NEW n \in DOMAIN pages, NEW i \in DOMAIN scene.items,
                      scene.items[i].kind = "image" /\ backend = "pdf"
                        => scene.items[i].id \in resolved,
                      NEW part \in AllParts(scene.items[i]),
                      Reaches(scene.items[i], part, pages[n].window)
               PROVE  \E m \in DOMAIN pages[n].marks : m[3] = i /\ part \in pages[n].marks[m]
    BY DEF NothingVisibleCulled
  <2>1. SoundScene(scene) /\ OnScene(scene, pages[n].window)
    BY PagesOnScene
  <2>2. CASE backend = "svg"
    BY <2>1, <2>2, PagesOnScene, ReachingIsShown
  <2>3. CASE backend = "pdf"
    <3>1. scene.items[i].kind = "image" => scene.items[i].id \in resolved
      BY <2>3
    <3>2. pages[n].marks = PdfMarks(scene, pages[n].window)
      BY <2>3, PagesOnScene
    <3> QED
      BY <2>1, <3>1, <3>2, ReachingIsShown
  <2> QED
    BY <2>2, <2>3 DEF PagesInv
<1>3. BackendsAgree
  <2> SUFFICES ASSUME NEW n \in DOMAIN pages
               PROVE  SameMarks(scene, pages[n].window)
    BY DEF BackendsAgree, SvgPage, PdfPage, SameMarks
  <2>1. SoundScene(scene) /\ OnScene(scene, pages[n].window)
    BY PagesOnScene
  <2> QED
    BY <2>1, MarksAgree
<1> QED
    BY <1>1, <1>2, <1>3 DEF PagesShowEveryRow
=============================================================================
