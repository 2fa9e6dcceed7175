---------------------------- MODULE TaskExecutor ----------------------------
(***************************************************************************)
(* The worker pool that builds curve LOD and frames for a WellLogSession   *)
(* (src/session/session.cpp, class TaskExecutor) and the part of a job     *)
(* body that every job shares: look at the stop token, serialise text      *)
(* shaping on the text engine's mutex, build, publish the output under the *)
(* task's own mutex.                                                       *)
(*                                                                         *)
(* The module owns the pool's variables and its worker threads' steps.     *)
(* The single thread that submits, cancels, polls and destroys is the      *)
(* business of the modules that extend this one: SessionTeardown and       *)
(* SessionAsync.                                                           *)
(***************************************************************************)
EXTENDS Naturals, Sequences, FiniteSets

CONSTANTS
  Workers,    \* pool threads
  Jobs,       \* identities of the jobs that may be submitted
  TextJobs,   \* the jobs that shape text (frame jobs of a session with an engine)
  NoJob,
  NoWorker

ASSUME PoolAssumption ==
  /\ TextJobs \subseteq Jobs
  /\ NoJob \notin Jobs
  /\ NoWorker \notin Workers

VARIABLES
  pending,            \* pending_: submitted jobs no worker has taken, oldest first
  shutdown,           \* shutdown_
  running,            \* running[w]: the job of worker w and how far it is
  exited,             \* workers that have left worker_loop
  text_engine_mutex,  \* the worker shaping text, or NoWorker
  stop_requested,     \* jobs whose stop_source has been asked to stop
  output              \* output[j]: what job j published, "none" until finished

pool_vars == <<pending, shutdown, running, exited, text_engine_mutex,
               stop_requested, output>>

(***************************************************************************)
(* "cancelled", "error" and "ok" are the three shapes of LodBuildOutput    *)
(* and FrameBuildOutput the poller distinguishes.                          *)
(***************************************************************************)
Outputs == {"none", "cancelled", "error", "ok"}

Steps == {"cancelled", "text", "build"}

Idle == [job |-> NoJob, step |-> "build"]

PoolTypeOK ==
  /\ pending \in Seq(Jobs)
  /\ shutdown \in BOOLEAN
  /\ running \in [Workers -> [job : Jobs \cup {NoJob}, step : Steps]]
  /\ exited \subseteq Workers
  /\ text_engine_mutex \in Workers \cup {NoWorker}
  /\ stop_requested \subseteq Jobs
  /\ output \in [Jobs -> Outputs]

PoolInit ==
  /\ pending = <<>>
  /\ shutdown = FALSE
  /\ running = [w \in Workers |-> Idle]
  /\ exited = {}
  /\ text_engine_mutex = NoWorker
  /\ stop_requested = {}
  /\ output = [j \in Jobs |-> "none"]

-----------------------------------------------------------------------------
(***************************************************************************)
(* What the owning thread does to the pool.  submit() after shutdown runs  *)
(* the job inline with a stopped token; the owner never submits then, so   *)
(* only the queueing branch is a step of the system.                       *)
(***************************************************************************)
Submit(j) ==
  /\ ~shutdown
  /\ pending' = Append(pending, j)

RequestStop(js) == stop_requested' = stop_requested \cup js

Finished(j) == output[j] # "none"

\* The owner drops its record of a finished job: its state goes with it.
Forget(j) == output' = [output EXCEPT ![j] = "none"]

InFlight == {running[w].job : w \in Workers} \ {NoJob}

-----------------------------------------------------------------------------
\* Mutant: the job does not look at its token before it starts.
TakeJobUnchecked(w) ==
  /\ w \notin exited
  /\ running[w].job = NoJob
  /\ pending # <<>>
  /\ running' = [running EXCEPT ![w] =
       [job |-> Head(pending),
        step |-> IF Head(pending) \in TextJobs THEN "text" ELSE "build"]]
  /\ pending' = Tail(pending)
  /\ UNCHANGED <<shutdown, exited, text_engine_mutex, stop_requested, output>>

(***************************************************************************)
(* worker_loop pops the oldest job, whatever its token says, and calls it; *)
(* the job's first act is to look at the token.  A stop that lands between *)
(* the pop and the look is the same as one that landed before the pop.     *)
(***************************************************************************)
TakeJob(w) ==
  /\ w \notin exited
  /\ running[w].job = NoJob
  /\ pending # <<>>
  /\ LET j == Head(pending) IN
       running' = [running EXCEPT ![w] =
         [job |-> j,
          step |-> IF j \in stop_requested THEN "cancelled"
                   ELSE IF j \in TextJobs THEN "text" ELSE "build"]]
  /\ pending' = Tail(pending)
  /\ UNCHANGED <<shutdown, exited, text_engine_mutex, stop_requested, output>>

\* Mutant: text is shaped without the text engine's mutex.
LockTextEngineUnguarded(w) ==
  /\ running[w].step = "text"
  /\ running' = [running EXCEPT ![w].step =
       IF running[w].job \in stop_requested THEN "cancelled" ELSE "build"]
  /\ UNCHANGED <<pending, shutdown, exited, text_engine_mutex, stop_requested,
                 output>>

(***************************************************************************)
(* A frame job waits for the text engine's mutex and looks at its token    *)
(* once more when it has it; a cancelled job lets the mutex go unused.     *)
(***************************************************************************)
LockTextEngine(w) ==
  /\ running[w].step = "text"
  /\ text_engine_mutex = NoWorker
  /\ IF running[w].job \in stop_requested
     THEN /\ running' = [running EXCEPT ![w].step = "cancelled"]
          /\ UNCHANGED text_engine_mutex
     ELSE /\ running' = [running EXCEPT ![w].step = "build"]
          /\ text_engine_mutex' = w
  /\ UNCHANGED <<pending, shutdown, exited, stop_requested, output>>

(***************************************************************************)
(* The outcomes of a build.  A stop may be seen at any check of the build, *)
(* or arrive after the last one: a stopped job may still publish a result. *)
(* Allocation failures and preparation errors are "error".                 *)
(***************************************************************************)
BuildOutcomes(j) ==
  {"ok", "error"} \cup (IF j \in stop_requested THEN {"cancelled"} ELSE {})

\* Mutant: a build that fails leaves the text engine locked.
PublishKeepsLock(w) ==
  /\ running[w].job # NoJob
  /\ running[w].step # "text"
  /\ \E o \in BuildOutcomes(running[w].job) :
       /\ output' = [output EXCEPT ![running[w].job] = o]
       /\ text_engine_mutex' = IF text_engine_mutex = w /\ o # "error" THEN NoWorker
                               ELSE text_engine_mutex
  /\ running' = [running EXCEPT ![w] = Idle]
  /\ UNCHANGED <<pending, shutdown, exited, stop_requested>>

(***************************************************************************)
(* The job publishes its output and its finished flag in one critical      *)
(* section, and the worker goes back for the next job.                     *)
(***************************************************************************)
Publish(w) ==
  /\ running[w].job # NoJob
  /\ running[w].step # "text"
  /\ \E o \in IF running[w].step = "cancelled" THEN {"cancelled"}
              ELSE BuildOutcomes(running[w].job) :
       output' = [output EXCEPT ![running[w].job] = o]
  /\ running' = [running EXCEPT ![w] = Idle]
  /\ text_engine_mutex' = IF text_engine_mutex = w THEN NoWorker
                          ELSE text_engine_mutex
  /\ UNCHANGED <<pending, shutdown, exited, stop_requested>>

(***************************************************************************)
(* worker_loop returns when the pool is shut down and the queue is empty.  *)
(***************************************************************************)
ExitWorker(w) ==
  /\ w \notin exited
  /\ running[w].job = NoJob
  /\ shutdown
  /\ pending = <<>>
  /\ exited' = exited \cup {w}
  /\ UNCHANGED <<pending, shutdown, running, text_engine_mutex,
                 stop_requested, output>>

WorkerStep(w) == TakeJob(w) \/ LockTextEngine(w) \/ Publish(w) \/ ExitWorker(w)
=============================================================================
