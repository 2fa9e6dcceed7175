-------------------------- MODULE SessionTeardown ---------------------------
(***************************************************************************)
(* A session's life seen from its worker pool: jobs are submitted and      *)
(* cancelled while the session lives, and then ~WellLogSession drains the  *)
(* LOD tasks and the frame tasks for a bounded time each, drops the task   *)
(* records, shuts the pool down, runs the jobs nobody took inline with a   *)
(* stopped token, and joins the workers (session.cpp, drain_workers,       *)
(* ~WellLogSession and ~TaskExecutor).                                     *)
(***************************************************************************)
EXTENDS TaskExecutor

CONSTANT FrameJobs   \* the frame jobs; the others are LOD jobs

ASSUME FrameJobsAssumption == TextJobs \subseteq FrameJobs /\ FrameJobs \subseteq Jobs

VARIABLES
  submitted,   \* the jobs submitted so far
  tasks,       \* lod_tasks and frame_tasks: the jobs whose record is still held
  teardown,    \* how far ~WellLogSession is
  dropped      \* the jobs ~TaskExecutor took off the queue and has yet to run

teardown_vars == <<pool_vars, submitted, tasks, teardown, dropped>>

LodJobs == Jobs \ FrameJobs

Phases == {"live", "drain_lod", "drain_frames", "destroy_tasks", "run_dropped",
           "join", "gone"}

TeardownTypeOK ==
  /\ PoolTypeOK
  /\ submitted \subseteq Jobs
  /\ tasks \subseteq submitted
  /\ teardown \in Phases
  /\ dropped \in Seq(Jobs)

TeardownInit ==
  /\ PoolInit
  /\ submitted = {}
  /\ tasks = {}
  /\ teardown = "live"
  /\ dropped = <<>>

-----------------------------------------------------------------------------
SubmitTask(j) ==
  /\ teardown = "live"
  /\ j \notin submitted
  /\ Submit(j)
  /\ submitted' = submitted \cup {j}
  /\ tasks' = tasks \cup {j}
  /\ UNCHANGED <<shutdown, running, exited, text_engine_mutex, stop_requested,
                 output, teardown, dropped>>

(***************************************************************************)
(* A command that supersedes a task asks it to stop and forgets about it.  *)
(***************************************************************************)
SupersedeTask(j) ==
  /\ teardown = "live"
  /\ j \in tasks
  /\ RequestStop({j})
  /\ UNCHANGED <<pending, shutdown, running, exited, text_engine_mutex, output,
                 submitted, tasks, teardown, dropped>>

(***************************************************************************)
(* poll_async, or drain_task_vector, drops the record of a finished task.  *)
(***************************************************************************)
Reap(j) ==
  /\ \/ teardown = "live"
     \/ teardown = "drain_lod" /\ j \in LodJobs
     \/ teardown = "drain_frames" /\ j \in FrameJobs
  /\ j \in tasks
  /\ Finished(j)
  /\ tasks' = tasks \ {j}
  /\ UNCHANGED <<pool_vars, submitted, teardown, dropped>>

(***************************************************************************)
(* drain_workers: first the LOD tasks, then the frame tasks.  Each drain   *)
(* asks its tasks to stop and ends when none is left or at its deadline,   *)
(* which may strike at any moment.                                         *)
(***************************************************************************)
DrainLod ==
  /\ teardown = "live"
  /\ teardown' = "drain_lod"
  /\ RequestStop(tasks \cap LodJobs)
  /\ UNCHANGED <<pending, shutdown, running, exited, text_engine_mutex, output,
                 submitted, tasks, dropped>>

DrainFrames ==
  /\ teardown = "drain_lod"
  /\ teardown' = "drain_frames"
  /\ RequestStop(tasks \cap FrameJobs)
  /\ UNCHANGED <<pending, shutdown, running, exited, text_engine_mutex, output,
                 submitted, tasks, dropped>>

(***************************************************************************)
(* ~Impl destroys its members in reverse order of declaration: the task    *)
(* vectors go before the executor, while workers may still run their jobs. *)
(***************************************************************************)
DestroyTasks ==
  /\ teardown = "drain_frames"
  /\ teardown' = "destroy_tasks"
  /\ tasks' = {}
  /\ UNCHANGED <<pool_vars, submitted, dropped>>

\* Mutant: the queue is copied, not moved, out of the pool.
ShutDownCopies ==
  /\ teardown = "destroy_tasks"
  /\ teardown' = "run_dropped"
  /\ shutdown' = TRUE
  /\ dropped' = pending
  /\ UNCHANGED <<pending, running, exited, text_engine_mutex, stop_requested,
                 output, submitted, tasks>>

ShutDown ==
  /\ teardown = "destroy_tasks"
  /\ teardown' = "run_dropped"
  /\ shutdown' = TRUE
  /\ dropped' = pending
  /\ pending' = <<>>
  /\ UNCHANGED <<running, exited, text_engine_mutex, stop_requested, output,
                 submitted, tasks>>

\* Mutant: a dropped job is thrown away.
RunCancelledNever ==
  /\ teardown = "run_dropped"
  /\ dropped # <<>>
  /\ dropped' = Tail(dropped)
  /\ UNCHANGED <<pool_vars, submitted, tasks, teardown>>

(***************************************************************************)
(* run_cancelled: the destructor's thread stops a dropped job and runs it; *)
(* the job sees the stop first thing and publishes "cancelled".            *)
(***************************************************************************)
RunCancelled ==
  /\ teardown = "run_dropped"
  /\ dropped # <<>>
  /\ RequestStop({Head(dropped)})
  /\ output' = [output EXCEPT ![Head(dropped)] = "cancelled"]
  /\ dropped' = Tail(dropped)
  /\ UNCHANGED <<pending, shutdown, running, exited, text_engine_mutex,
                 submitted, tasks, teardown>>

BeginJoin ==
  /\ teardown = "run_dropped"
  /\ dropped = <<>>
  /\ teardown' = "join"
  /\ UNCHANGED <<pool_vars, submitted, tasks, dropped>>

\* Mutant: the destructor does not wait for its threads.
JoinAtOnce ==
  /\ teardown = "join"
  /\ teardown' = "gone"
  /\ UNCHANGED <<pool_vars, submitted, tasks, dropped>>

Join ==
  /\ teardown = "join"
  /\ exited = Workers
  /\ teardown' = "gone"
  /\ UNCHANGED <<pool_vars, submitted, tasks, dropped>>

Destructor == DrainFrames \/ DestroyTasks \/ ShutDown \/ RunCancelled
              \/ BeginJoin \/ Join

PoolWorker(w) == WorkerStep(w) /\ UNCHANGED <<submitted, tasks, teardown, dropped>>

TeardownNext ==
  \/ \E j \in Jobs : SubmitTask(j) \/ SupersedeTask(j) \/ Reap(j)
  \/ DrainLod
  \/ Destructor
  \/ \E w \in Workers : PoolWorker(w)

(***************************************************************************)
(* The pool threads are scheduled, and a destructor once entered runs on.  *)
(* Nothing obliges the host to destroy the session, or to submit anything. *)
(***************************************************************************)
TeardownFairness == WF_teardown_vars(Destructor) /\ \A w \in Workers : WF_teardown_vars(PoolWorker(w))

TeardownSpec == TeardownInit /\ [][TeardownNext]_teardown_vars /\ TeardownFairness

-----------------------------------------------------------------------------
(***************************************************************************)
(* Every submitted job is in exactly one place: queued, held by one        *)
(* worker, dropped by the destructor, or finished.  A job in two places    *)
(* would run twice; a job in none leaves drain and reap waiting for it.    *)
(***************************************************************************)
Dropped == {dropped[i] : i \in DOMAIN dropped}

Occurrences(j) ==
  Cardinality({i \in DOMAIN pending : pending[i] = j})
  + Cardinality({i \in DOMAIN dropped : dropped[i] = j})
  + Cardinality({w \in Workers : running[w].job = j})
  + (IF Finished(j) THEN 1 ELSE 0)

EveryJobInOnePlace ==
  \A j \in Jobs : Occurrences(j) = IF j \in submitted THEN 1 ELSE 0

(***************************************************************************)
(* When the session is gone every job it ever submitted has finished, no   *)
(* worker still runs one, and the text engine is free: the host may        *)
(* destroy the engine and whatever the jobs captured.                      *)
(***************************************************************************)
NothingOutlivesSession ==
  teardown = "gone" =>
    /\ InFlight = {}
    /\ \A j \in submitted : Finished(j)
    /\ text_engine_mutex = NoWorker

(***************************************************************************)
(* Text engines are single-threaded: two text jobs never build at once.    *)
(***************************************************************************)
Shaping == {w \in Workers : running[w].job \in TextJobs /\ running[w].step = "build"}

TextShapingExclusive == Cardinality(Shaping) <= 1

(***************************************************************************)
(* Once both drains have begun no job starts to build: what is still       *)
(* queued is only ever cancelled, so the join waits for builds that were   *)
(* already running and for nothing else.                                   *)
(***************************************************************************)
Building == {w \in Workers : running[w].job # NoJob /\ running[w].step = "build"}

NoBuildStartsAfterDrain ==
  [][teardown \notin {"live", "drain_lod"} => Building' \subseteq Building]_teardown_vars

(***************************************************************************)
(* A destructor that has begun returns, whatever the queue and the workers *)
(* were doing: no job waits for the text engine for ever.                  *)
(***************************************************************************)
TeardownReturns == teardown = "drain_lod" ~> teardown = "gone"

(***************************************************************************)
(* Every submitted job finishes, whether or not the session is destroyed.  *)
(***************************************************************************)
JobsFinish == \A j \in Jobs : j \in submitted ~> Finished(j)
=============================================================================
