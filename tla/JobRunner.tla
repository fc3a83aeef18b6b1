------------------------------ MODULE JobRunner -----------------------------
(***************************************************************************)
(* One job of the job service (src/server/internal/job/service.go) after   *)
(* StartJob has created it: the runner goroutine (runJob), the task        *)
(* goroutines it launches per wave (executeTask), and concurrent API       *)
(* clients calling CancelJob and RetryJob.                                 *)
(*                                                                         *)
(* The store (store/memory_store.go) serialises every call under its lock, *)
(* so each GetJob, UpdateJob, GetJobTasks and ReplaceJobTasks is one       *)
(* atomic step.  The service composes them into read-modify-write          *)
(* sequences (updateTask, updateProgress, CancelJob, RetryJob, the         *)
(* runner's stale `job` copy) that are NOT atomic: a read and the write    *)
(* that uses it are separate actions with a local copy between them.       *)
(* Appending an event is merged into the store write that precedes it:     *)
(* nothing the properties observe happens between them.                   *)
(***************************************************************************)
EXTENDS JobGraph, Naturals, Sequences, FiniteSets

CONSTANTS
  MaxConcurrent,   \* size of globalSem (maxConcurrent)
  MaxSceneJobs,    \* size of the per-runner sceneSem (maxSceneJobs)
  MaxUserJobs,     \* per-user running-job cap (maxUserJobs)
  ProviderErrors,  \* errors the provider may return: subset of {"retryable", "fatal"}
  Clients,         \* concurrent API callers of CancelJob / RetryJob
  ClientOps,       \* the API operations they issue: subset of {"cancel", "retry"}
  MaxCalls         \* bound on the number of API calls in a behaviour

ASSUME MaxConcurrent \in Nat \ {0}
ASSUME MaxSceneJobs \in Nat \ {0}
ASSUME MaxUserJobs \in Nat \ {0}
ASSUME ProviderErrors \subseteq {"retryable", "fatal"}
ASSUME ClientOps \subseteq {"cancel", "retry"}
ASSUME MaxCalls \in Nat

VARIABLES
  \* --- MemoryStore ---
  job,            \* jobs[jobID]: [status, cancel, started, progress]
  tasks,          \* tasksByJob[jobID]: key -> [status, attempt, err]
  jobEvents,      \* job-level events appended to eventsByJob (created / terminal)
  \* --- Service ---
  activeRunner,   \* activeRunner[jobID]
  runningByUser,  \* runningByUser[job.UserID]
  globalHeld,     \* slots taken in globalSem
  sceneHeld,      \* slots taken in the runner's sceneSem
  \* --- runner goroutine ---
  rpc, rjob, rprog, wave,
  \* --- task goroutines, one per task key ---
  wpc, wcopy, wjob, wattempt, wlastErr,
  \* --- API clients ---
  cpc, cjob, ctasks, calls,
  \* --- history ---
  provCalls       \* prov.Execute calls made for each task key, over all runs

storeVars  == <<job, tasks, jobEvents>>
svcVars    == <<activeRunner, runningByUser, globalHeld, sceneHeld>>
runnerVars == <<rpc, rjob, rprog, wave>>
workerVars == <<wpc, wcopy, wjob, wattempt, wlastErr>>
clientVars == <<cpc, cjob, ctasks, calls>>
vars == <<storeVars, svcVars, runnerVars, workerVars, clientVars, provCalls>>

JobRec == [status : JobStatuses, cancel : BOOLEAN, started : BOOLEAN, progress : 0 .. NumTasks]

\* The job as StartJob persists it: queued, progress 0, no cancel, StartedAt zero.
NewJob == [status |-> "queued", cancel |-> FALSE, started |-> FALSE, progress |-> 0]

RunnerPCs == {"idle", "top", "markStarted", "cancelQueued", "progRead", "progWrite",
              "scan", "wait", "finalPublish", "exit"}
WorkerPCs == {"idle", "acqGlobal", "acqScene", "startRead", "startWrite", "loadCurrent",
              "checkCancel", "calling", "backoff", "incRead", "incWrite",
              "succRead", "succWrite", "failRead", "failWrite",
              "cancRead", "cancWrite", "progRead", "progWrite", "done"}
ClientPCs == {"idle", "cancelWrite", "retryAdmit", "retryTasksRead",
              "retryTasksWrite", "retryJobWrite", "retryStart"}

\* Worker states that hold a slot of globalSem / sceneSem (from the acquire
\* until the deferred release when executeTask returns).
HoldsGlobal(k) == wpc[k] \notin {"idle", "acqGlobal", "done"}
HoldsScene(k)  == IsSceneTask(k) /\ wpc[k] \notin {"idle", "acqGlobal", "acqScene", "done"}

-----------------------------------------------------------------------------
(* StartJob has returned: the job, its tasks and the job_created event are  *)
(* in the store and startRunnerIfNeeded has launched the runner.  The       *)
(* user's count includes this job and up to MaxUserJobs - 1 other running   *)
(* jobs of the same user, which keep running throughout.                    *)
Init ==
  /\ job = NewJob
  /\ tasks = BuildTasks
  /\ jobEvents = <<"job_created">>
  /\ activeRunner = TRUE
  /\ runningByUser \in 1 .. MaxUserJobs
  /\ globalHeld = 0
  /\ sceneHeld = 0
  /\ rpc = "top"
  /\ rjob = NewJob
  /\ rprog = NewJob
  /\ wave = {}
  /\ wpc = [k \in TaskKeys |-> "idle"]
  /\ wcopy = [k \in TaskKeys |-> BuildTasks]
  /\ wjob = [k \in TaskKeys |-> NewJob]
  /\ wattempt = [k \in TaskKeys |-> 0]
  /\ wlastErr = [k \in TaskKeys |-> "none"]
  /\ cpc = [c \in Clients |-> "idle"]
  /\ cjob = [c \in Clients |-> NewJob]
  /\ ctasks = [c \in Clients |-> BuildTasks]
  /\ calls = 0
  /\ provCalls = [k \in TaskKeys |-> 0]

-----------------------------------------------------------------------------
(***************************************************************************)
(* Runner goroutine: runJob.                                               *)
(***************************************************************************)

\* Top of the loop: GetJob into the local copy; exit if terminal.
RunnerTop ==
  /\ rpc = "top"
  /\ rjob' = job
  /\ rpc' = CASE isJobTerminal(job.status) -> "exit"
              [] ~job.started              -> "markStarted"
              [] job.cancel                -> "cancelQueued"
              [] OTHER                     -> "scan"
  /\ UNCHANGED <<provCalls, storeVars, svcVars, rprog, wave, workerVars, clientVars>>

\* First iteration: UpdateJob(local copy with StartedAt and running), publish job_progress.
RunnerMarkStarted ==
  LET started == [rjob EXCEPT !.started = TRUE, !.status = "running"]
  IN /\ rpc = "markStarted"
     /\ job' = started
     /\ rjob' = started
     /\ rpc' = IF started.cancel THEN "cancelQueued" ELSE "scan"
     /\ UNCHANGED <<provCalls, tasks, jobEvents, svcVars, rprog, wave, workerVars, clientVars>>

\* cancelQueuedTasks: every queued task becomes canceled ("Canceled before
\* execution"); when something changed, updateProgress follows.
CancelQueued(ts) ==
  [k \in DOMAIN ts |-> IF ts[k].status = "queued"
                         THEN [ts[k] EXCEPT !.status = "canceled", !.err = "CANCELED"]
                         ELSE ts[k]]

RunnerCancelQueued ==
  LET changed == \E k \in TaskKeys : tasks[k].status = "queued"
  IN /\ rpc = "cancelQueued"
     /\ tasks' = CancelQueued(tasks)
     /\ rpc' = IF changed THEN "progRead" ELSE "scan"
     /\ UNCHANGED <<provCalls, job, jobEvents, svcVars, rjob, rprog, wave, workerVars, clientVars>>

\* updateProgress, read half: GetJob and GetJobTasks, compute calcProgress.
RunnerProgRead ==
  /\ rpc = "progRead"
  /\ rprog' = [job EXCEPT !.progress = calcProgress(tasks)]
  /\ rpc' = "progWrite"
  /\ UNCHANGED <<provCalls, storeVars, svcVars, rjob, wave, workerVars, clientVars>>

\* updateProgress, write half: UpdateJob(the copy read), publish job_progress.
RunnerProgWrite ==
  /\ rpc = "progWrite"
  /\ job' = rprog
  /\ rprog' = NewJob
  /\ rpc' = "scan"
  /\ UNCHANGED <<provCalls, tasks, jobEvents, svcVars, rjob, wave, workerVars, clientVars>>

\* finalizeJob's choice of terminal status from the tasks and the runner's copy.
FinalStatus(j, ts) ==
  CASE \E k \in DOMAIN ts : ts[k].status = "failed"              -> "failed"
    [] j.cancel \/ \E k \in DOMAIN ts : ts[k].status = "canceled" -> "canceled"
    [] OTHER                                                      -> "succeeded"

finalizeJob(j, ts) == [j EXCEPT !.status = FinalStatus(j, ts), !.progress = calcProgress(ts)]

\* Mutant of RunnerScan: finalize as soon as nothing is ready, instead of
\* sleeping until something is.
RunnerScanFinalizeWhenStuck ==
  /\ rpc = "scan"
  /\ \/ /\ allTasksTerminal(tasks) \/ readyTasks(tasks) = {}
        /\ job' = finalizeJob(rjob, tasks)
        /\ rjob' = finalizeJob(rjob, tasks)
        /\ rpc' = "finalPublish"
        /\ UNCHANGED <<wave, wpc>>
     \/ /\ ~allTasksTerminal(tasks)
        /\ readyTasks(tasks) # {}
        /\ wave' = readyTasks(tasks)
        /\ wpc' = [k \in TaskKeys |-> IF k \in readyTasks(tasks) THEN "acqGlobal" ELSE wpc[k]]
        /\ rpc' = "wait"
        /\ UNCHANGED <<job, rjob>>
  /\ UNCHANGED <<provCalls, tasks, jobEvents, svcVars, rprog, wcopy, wjob, wattempt, wlastErr, clientVars>>

\* GetJobTasks; all terminal: finalizeJob's UpdateJob of the runner's copy;
\* none ready: sleep and loop; otherwise launch one goroutine per ready task.
RunnerScan ==
  /\ rpc = "scan"
  /\ \/ /\ allTasksTerminal(tasks)
        /\ job' = finalizeJob(rjob, tasks)
        /\ rjob' = finalizeJob(rjob, tasks)
        /\ rpc' = "finalPublish"
        /\ UNCHANGED <<wave, wpc>>
     \/ /\ ~allTasksTerminal(tasks)
        /\ readyTasks(tasks) = {}
        /\ rpc' = "top"
        /\ UNCHANGED <<job, rjob, wave, wpc>>
     \/ /\ ~allTasksTerminal(tasks)
        /\ readyTasks(tasks) # {}
        /\ wave' = readyTasks(tasks)
        /\ wpc' = [k \in TaskKeys |-> IF k \in readyTasks(tasks) THEN "acqGlobal" ELSE wpc[k]]
        /\ rpc' = "wait"
        /\ UNCHANGED <<job, rjob>>
  /\ UNCHANGED <<provCalls, tasks, jobEvents, svcVars, rprog, wcopy, wjob, wattempt, wlastErr, clientVars>>

\* Mutant of RunnerWait: the loop continues without wg.Wait().
RunnerWaitNoBarrier ==
  /\ rpc = "wait"
  /\ wave' = {}
  /\ rpc' = "top"
  /\ UNCHANGED <<provCalls, storeVars, svcVars, rjob, rprog, workerVars, clientVars>>

\* wg.Wait(): every goroutine of the wave has returned.
RunnerWait ==
  /\ rpc = "wait"
  /\ \A k \in wave : wpc[k] = "done"
  /\ wpc' = [k \in TaskKeys |-> IF k \in wave THEN "idle" ELSE wpc[k]]
  /\ wave' = {}
  /\ rpc' = "top"
  /\ UNCHANGED <<provCalls, storeVars, svcVars, rjob, rprog, wcopy, wjob, wattempt, wlastErr, clientVars>>

\* finalizeJob after its UpdateJob: project status, then the one terminal
\* event named after the status in the runner's copy.
TerminalEvent(s) == CASE s = "succeeded" -> "job_succeeded"
                      [] s = "canceled"  -> "job_canceled"
                      [] OTHER           -> "job_failed"

RunnerFinalPublish ==
  /\ rpc = "finalPublish"
  /\ jobEvents' = Append(jobEvents, TerminalEvent(rjob.status))
  /\ rpc' = "exit"
  /\ UNCHANGED <<provCalls, job, tasks, svcVars, rjob, rprog, wave, workerVars, clientVars>>

\* The deferred finishRunner: clear activeRunner, decrement runningByUser;
\* the scene semaphore goes away with the goroutine.
RunnerExit ==
  /\ rpc = "exit"
  /\ activeRunner' = FALSE
  /\ runningByUser' = IF runningByUser > 0 THEN runningByUser - 1 ELSE runningByUser
  /\ sceneHeld' = 0
  /\ rpc' = "idle"
  /\ rjob' = NewJob
  /\ UNCHANGED <<provCalls, storeVars, globalHeld, rprog, wave, workerVars, clientVars>>

-----------------------------------------------------------------------------
(***************************************************************************)
(* Task goroutines: executeTask(job, task, sceneSem) for each key k.       *)
(***************************************************************************)

\* Move worker k to program point pc, leaving the other workers alone.
Goto(k, pc) == wpc' = [wpc EXCEPT ![k] = pc]

\* Mutant of WorkerAcqGlobal: the send does not block on a full semaphore.
WorkerAcqGlobalUnbounded(k) ==
  /\ wpc[k] = "acqGlobal"
  /\ globalHeld' = globalHeld + 1
  /\ Goto(k, IF IsSceneTask(k) THEN "acqScene" ELSE "startRead")
  /\ UNCHANGED <<provCalls, storeVars, activeRunner, runningByUser, sceneHeld, runnerVars,
                 wcopy, wjob, wattempt, wlastErr, clientVars>>

\* s.globalSem <- struct{}{} (blocks while the semaphore is full).
WorkerAcqGlobal(k) ==
  /\ wpc[k] = "acqGlobal"
  /\ globalHeld < MaxConcurrent
  /\ globalHeld' = globalHeld + 1
  /\ Goto(k, IF IsSceneTask(k) THEN "acqScene" ELSE "startRead")
  /\ UNCHANGED <<provCalls, storeVars, activeRunner, runningByUser, sceneHeld, runnerVars,
                 wcopy, wjob, wattempt, wlastErr, clientVars>>

\* sceneSem <- struct{}{} for image_generate and tts_generate.
WorkerAcqScene(k) ==
  /\ wpc[k] = "acqScene"
  /\ sceneHeld < MaxSceneJobs
  /\ sceneHeld' = sceneHeld + 1
  /\ Goto(k, "startRead")
  /\ UNCHANGED <<provCalls, storeVars, activeRunner, runningByUser, globalHeld, runnerVars,
                 wcopy, wjob, wattempt, wlastErr, clientVars>>

\* updateTask, read half: GetJobTasks into the goroutine's copy.  Used by
\* every updateTask call (start, success, failure, cancel, attempt++).
UpdateTaskRead(k, from, to) ==
  /\ wpc[k] = from
  /\ wcopy' = [wcopy EXCEPT ![k] = tasks]
  /\ Goto(k, to)
  /\ UNCHANGED <<provCalls, storeVars, svcVars, runnerVars, wjob, wattempt, wlastErr, clientVars>>

\* updateTask, write half: put fn(task k of the copy), given as `new', into
\* the copy and ReplaceJobTasks with the whole copy.
UpdateTaskWrite(k, from, to, new) ==
  /\ wpc[k] = from
  /\ tasks' = [wcopy[k] EXCEPT ![k] = new]
  /\ wcopy' = [wcopy EXCEPT ![k] = BuildTasks]
  /\ Goto(k, to)
  /\ UNCHANGED <<provCalls, job, jobEvents, svcVars, runnerVars, wjob, wattempt, wlastErr, clientVars>>

SetRunning(t)   == [t EXCEPT !.status = "running", !.attempt = @ + 1]
SetSucceeded(t) == [t EXCEPT !.status = "succeeded", !.err = "none"]
SetCanceled(t)  == [t EXCEPT !.status = "canceled", !.err = "CANCELED"]
IncAttempt(t)   == [t EXCEPT !.attempt = @ + 1]

\* The error code the failure path records: the last provider error, or
\* UNKNOWN when the retry loop never invoked the provider (lastErr == nil).
ErrCodeOf(e) == CASE e = "canceled" -> "CANCELED"
                  [] e = "none"     -> "UNKNOWN"
                  [] OTHER          -> "PROVIDER"

SetFailed(e, t) == [t EXCEPT !.status = "failed", !.err = ErrCodeOf(e)]

WorkerStartRead(k)  == UpdateTaskRead(k, "startRead", "startWrite")
WorkerStartWrite(k) == UpdateTaskWrite(k, "startWrite", "loadCurrent", SetRunning(wcopy[k][k]))

\* GetJobTasks / findTaskByID: the loop starts at current.Attempt; publish
\* task_started.  If current.Attempt > MaxAttempt the loop body never runs.
WorkerLoadCurrent(k) ==
  /\ wpc[k] = "loadCurrent"
  /\ wattempt' = [wattempt EXCEPT ![k] = tasks[k].attempt]
  /\ wlastErr' = [wlastErr EXCEPT ![k] = "none"]
  /\ Goto(k, IF tasks[k].attempt <= MaxAttempt THEN "checkCancel" ELSE "failRead")
  /\ UNCHANGED <<provCalls, storeVars, svcVars, runnerVars, wcopy, wjob, clientVars>>

\* isJobCanceled before each attempt.
WorkerCheckCancel(k) ==
  /\ wpc[k] = "checkCancel"
  /\ Goto(k, IF job.cancel THEN "cancRead" ELSE "calling")
  /\ UNCHANGED <<provCalls, storeVars, svcVars, runnerVars, wcopy, wjob, wattempt, wlastErr, clientVars>>

\* Adapter.Execute: MockAdapter waits out the task's work duration in
\* waitCancelable and returns a non-retryable CANCELED error if ctx was
\* cancelled first; then a retryable error (simulate_error, or the 3%
\* random failure); otherwise success with the task's asset.  Other
\* adapters may also fail fatally ("fatal" in ProviderErrors).
ExecuteOutcomes(cancelled) ==
  {"success"} \cup ProviderErrors \cup (IF cancelled THEN {"canceled"} ELSE {})

\* prov.Execute returns.  The cancel-watcher cancels ctx once it sees
\* cancel_requested, and the provider then returns a CANCELED error; it may
\* also return any of its own outcomes first.  A non-retryable error, or a
\* retryable one at attempt >= maxAttempt, ends the loop.
WorkerReturn(k) ==
  /\ wpc[k] = "calling"
  /\ \E out \in ExecuteOutcomes(job.cancel) :
       /\ wlastErr' = [wlastErr EXCEPT ![k] = IF out = "success" THEN @ ELSE out]
       /\ Goto(k, CASE out = "success"                                  -> "succRead"
                    [] out = "retryable" /\ wattempt[k] < MaxAttempt     -> "backoff"
                    [] OTHER                                             -> "failRead")
  /\ provCalls' = [provCalls EXCEPT ![k] = @ + 1]
  /\ UNCHANGED <<storeVars, svcVars, runnerVars, wcopy, wjob, wattempt, clientVars>>

\* sleepWithCancel(retryBackoff(attempt)): it polls isJobCanceled until the
\* deadline; the last poll is this step.
WorkerBackoff(k) ==
  /\ wpc[k] = "backoff"
  /\ Goto(k, IF job.cancel THEN "cancRead" ELSE "incRead")
  /\ UNCHANGED <<provCalls, storeVars, svcVars, runnerVars, wcopy, wjob, wattempt, wlastErr, clientVars>>

WorkerIncRead(k)  == UpdateTaskRead(k, "incRead", "incWrite")

\* updateTask(t.Attempt++) with the copy, then the loop's attempt++.
WorkerIncWrite(k) ==
  /\ wpc[k] = "incWrite"
  /\ tasks' = [wcopy[k] EXCEPT ![k] = IncAttempt(@)]
  /\ wcopy' = [wcopy EXCEPT ![k] = BuildTasks]
  /\ wattempt' = [wattempt EXCEPT ![k] = @ + 1]
  /\ Goto(k, "checkCancel")
  /\ UNCHANGED <<provCalls, job, jobEvents, svcVars, runnerVars, wjob, wlastErr, clientVars>>

WorkerSuccRead(k)  == UpdateTaskRead(k, "succRead", "succWrite")
\* Success: updateTask, CreateAsset + asset_ready, task_succeeded.
WorkerSuccWrite(k) == UpdateTaskWrite(k, "succWrite", "progRead", SetSucceeded(wcopy[k][k]))
WorkerFailRead(k)  == UpdateTaskRead(k, "failRead", "failWrite")
\* Failure: updateTask with lastErr, task_failed.
WorkerFailWrite(k) == UpdateTaskWrite(k, "failWrite", "progRead", SetFailed(wlastErr[k], wcopy[k][k]))
WorkerCancRead(k)  == UpdateTaskRead(k, "cancRead", "cancWrite")
\* markTaskCanceled ("Canceled during execution" / "during backoff").
WorkerCancWrite(k) == UpdateTaskWrite(k, "cancWrite", "progRead", SetCanceled(wcopy[k][k]))

\* updateProgress, read half: GetJob, GetJobTasks, calcProgress.
WorkerProgRead(k) ==
  /\ wpc[k] = "progRead"
  /\ wjob' = [wjob EXCEPT ![k] = [job EXCEPT !.progress = calcProgress(tasks)]]
  /\ Goto(k, "progWrite")
  /\ UNCHANGED <<provCalls, storeVars, svcVars, runnerVars, wcopy, wattempt, wlastErr, clientVars>>

\* Mutant of WorkerProgWrite: the deferred <-s.globalSem is missing.
WorkerProgWriteKeepsGlobal(k) ==
  /\ wpc[k] = "progWrite"
  /\ job' = wjob[k]
  /\ sceneHeld' = IF IsSceneTask(k) THEN sceneHeld - 1 ELSE sceneHeld
  /\ Goto(k, "done")
  /\ wjob' = [wjob EXCEPT ![k] = NewJob]
  /\ wattempt' = [wattempt EXCEPT ![k] = 0]
  /\ wlastErr' = [wlastErr EXCEPT ![k] = "none"]
  /\ UNCHANGED <<provCalls, tasks, jobEvents, activeRunner, runningByUser, globalHeld, runnerVars, wcopy, clientVars>>

\* updateProgress, write half: UpdateJob(copy), publish job_progress; then
\* executeTask returns and its defers release sceneSem and globalSem.
WorkerProgWrite(k) ==
  /\ wpc[k] = "progWrite"
  /\ job' = wjob[k]
  /\ globalHeld' = globalHeld - 1
  /\ sceneHeld' = IF IsSceneTask(k) THEN sceneHeld - 1 ELSE sceneHeld
  /\ Goto(k, "done")
  /\ wjob' = [wjob EXCEPT ![k] = NewJob]
  /\ wattempt' = [wattempt EXCEPT ![k] = 0]
  /\ wlastErr' = [wlastErr EXCEPT ![k] = "none"]
  /\ UNCHANGED <<provCalls, tasks, jobEvents, activeRunner, runningByUser, runnerVars, wcopy, clientVars>>

-----------------------------------------------------------------------------
(***************************************************************************)
(* API clients: CancelJob and RetryJob (the same user owns the job, so the *)
(* not-found and forbidden early returns are not taken).                   *)
(***************************************************************************)

CallStart(c) == /\ cpc[c] = "idle" /\ calls < MaxCalls /\ calls' = calls + 1

\* CancelJob: GetJob; a terminal job is returned unchanged.
CancelJobRead(c) ==
  /\ "cancel" \in ClientOps
  /\ CallStart(c)
  /\ \/ /\ isJobTerminal(job.status)
        /\ UNCHANGED <<cpc, cjob>>
     \/ /\ ~isJobTerminal(job.status)
        /\ cjob' = [cjob EXCEPT ![c] = job]
        /\ cpc' = [cpc EXCEPT ![c] = "cancelWrite"]
  /\ UNCHANGED <<provCalls, storeVars, svcVars, runnerVars, workerVars, ctasks>>

\* CancelJob: UpdateJob(copy with CancelRequested), publish job_progress.
CancelJobWrite(c) ==
  /\ cpc[c] = "cancelWrite"
  /\ job' = [cjob[c] EXCEPT !.cancel = TRUE]
  /\ cjob' = [cjob EXCEPT ![c] = NewJob]
  /\ cpc' = [cpc EXCEPT ![c] = "idle"]
  /\ UNCHANGED <<provCalls, tasks, jobEvents, svcVars, runnerVars, workerVars, ctasks, calls>>

\* RetryJob: GetJob; only a failed or canceled job may be retried.
RetryJobRead(c) ==
  /\ "retry" \in ClientOps
  /\ CallStart(c)
  /\ \/ /\ job.status \notin {"failed", "canceled"}
        /\ UNCHANGED <<cpc, cjob>>
     \/ /\ job.status \in {"failed", "canceled"}
        /\ cjob' = [cjob EXCEPT ![c] = job]
        /\ cpc' = [cpc EXCEPT ![c] = "retryAdmit"]
  /\ UNCHANGED <<provCalls, storeVars, svcVars, runnerVars, workerVars, ctasks>>

\* RetryJob: the per-user cap, checked under s.mu.
RetryJobAdmit(c) ==
  /\ cpc[c] = "retryAdmit"
  /\ \/ /\ runningByUser < MaxUserJobs
        /\ cpc' = [cpc EXCEPT ![c] = "retryTasksRead"]
        /\ UNCHANGED cjob
     \/ /\ runningByUser >= MaxUserJobs
        /\ cpc' = [cpc EXCEPT ![c] = "idle"]
        /\ cjob' = [cjob EXCEPT ![c] = NewJob]
  /\ UNCHANGED <<provCalls, storeVars, svcVars, runnerVars, workerVars, ctasks, calls>>

RetryJobTasksRead(c) ==
  /\ cpc[c] = "retryTasksRead"
  /\ ctasks' = [ctasks EXCEPT ![c] = tasks]
  /\ cpc' = [cpc EXCEPT ![c] = "retryTasksWrite"]
  /\ UNCHANGED <<provCalls, storeVars, svcVars, runnerVars, workerVars, cjob, calls>>

\* Mutant of ResetForRetry: a retried task also gets a fresh attempt budget.
ResetForRetryFreshBudget(ts) ==
  [k \in DOMAIN ts |-> IF ts[k].status \in {"failed", "canceled"}
                         THEN [ts[k] EXCEPT !.status = "queued", !.err = "none", !.attempt = 0]
                         ELSE ts[k]]

\* Every failed or canceled task back to queued with its error cleared;
\* Attempt is left as it is.
ResetForRetry(ts) ==
  [k \in DOMAIN ts |-> IF ts[k].status \in {"failed", "canceled"}
                         THEN [ts[k] EXCEPT !.status = "queued", !.err = "none"]
                         ELSE ts[k]]

RetryJobTasksWrite(c) ==
  /\ cpc[c] = "retryTasksWrite"
  /\ tasks' = ResetForRetry(ctasks[c])
  /\ cpc' = [cpc EXCEPT ![c] = "retryJobWrite"]
  /\ UNCHANGED <<provCalls, job, jobEvents, svcVars, runnerVars, workerVars, cjob, ctasks, calls>>

\* RetryJob: UpdateJob(copy reset to queued, progress from the reset tasks,
\* CancelRequested and StartedAt cleared), publish job_created.
RetryJobJobWrite(c) ==
  /\ cpc[c] = "retryJobWrite"
  /\ job' = [cjob[c] EXCEPT !.status = "queued", !.cancel = FALSE, !.started = FALSE,
                            !.progress = calcProgress(ResetForRetry(ctasks[c]))]
  /\ jobEvents' = Append(jobEvents, "job_created")
  /\ cpc' = [cpc EXCEPT ![c] = "retryStart"]
  /\ cjob' = [cjob EXCEPT ![c] = NewJob]
  /\ ctasks' = [ctasks EXCEPT ![c] = BuildTasks]
  /\ UNCHANGED <<provCalls, tasks, svcVars, runnerVars, workerVars, calls>>

\* startRunnerIfNeeded: a no-op while activeRunner is set; otherwise set it,
\* count the job for its user and launch runJob with a fresh sceneSem.
RetryJobStart(c) ==
  /\ cpc[c] = "retryStart"
  /\ cpc' = [cpc EXCEPT ![c] = "idle"]
  /\ IF activeRunner
       THEN UNCHANGED <<activeRunner, runningByUser, rpc>>
       ELSE /\ activeRunner' = TRUE
            /\ runningByUser' = runningByUser + 1
            /\ rpc' = "top"
  /\ UNCHANGED <<provCalls, storeVars, globalHeld, sceneHeld, rjob, rprog, wave, workerVars, cjob, ctasks, calls>>

-----------------------------------------------------------------------------
Runner ==
  \/ RunnerTop \/ RunnerMarkStarted \/ RunnerCancelQueued \/ RunnerProgRead
  \/ RunnerProgWrite \/ RunnerScan \/ RunnerWait \/ RunnerFinalPublish \/ RunnerExit

Worker(k) ==
  \/ WorkerAcqGlobal(k) \/ WorkerAcqScene(k)
  \/ WorkerStartRead(k) \/ WorkerStartWrite(k) \/ WorkerLoadCurrent(k)
  \/ WorkerCheckCancel(k) \/ WorkerReturn(k) \/ WorkerBackoff(k)
  \/ WorkerIncRead(k) \/ WorkerIncWrite(k)
  \/ WorkerSuccRead(k) \/ WorkerSuccWrite(k)
  \/ WorkerFailRead(k) \/ WorkerFailWrite(k)
  \/ WorkerCancRead(k) \/ WorkerCancWrite(k)
  \/ WorkerProgRead(k) \/ WorkerProgWrite(k)

Client(c) ==
  \/ CancelJobRead(c) \/ CancelJobWrite(c)
  \/ RetryJobRead(c) \/ RetryJobAdmit(c) \/ RetryJobTasksRead(c)
  \/ RetryJobTasksWrite(c) \/ RetryJobJobWrite(c) \/ RetryJobStart(c)

Next ==
  \/ Runner
  \/ \E k \in TaskKeys : Worker(k)
  \/ \E c \in Clients : Client(c)

\* Goroutines are scheduled fairly by the Go runtime and the provider call
\* returns (every provider bounds its latency; the mock's longest is 1.6 s).
\* API clients are not obliged to call anything.
Fairness ==
  /\ WF_vars(Runner)
  /\ \A k \in TaskKeys : WF_vars(Worker(k))
  /\ \A c \in Clients : WF_vars(cpc[c] # "idle" /\ Client(c))

Spec == Init /\ [][Next]_vars /\ Fairness

-----------------------------------------------------------------------------
(***************************************************************************)
(* Properties.                                                             *)
(***************************************************************************)

TypeOK ==
  /\ job \in JobRec
  /\ tasks \in [TaskKeys -> TaskRec]
  /\ jobEvents \in Seq({"job_created", "job_succeeded", "job_failed", "job_canceled"})
  /\ activeRunner \in BOOLEAN
  /\ runningByUser \in 0 .. MaxUserJobs
  /\ globalHeld \in 0 .. MaxConcurrent
  /\ sceneHeld \in 0 .. MaxSceneJobs
  /\ rpc \in RunnerPCs /\ rjob \in JobRec /\ rprog \in JobRec
  /\ wave \subseteq TaskKeys
  /\ wpc \in [TaskKeys -> WorkerPCs]
  /\ wcopy \in [TaskKeys -> [TaskKeys -> TaskRec]]
  /\ wjob \in [TaskKeys -> JobRec]
  /\ wattempt \in [TaskKeys -> Nat]
  /\ wlastErr \in [TaskKeys -> {"none", "retryable", "fatal", "canceled"}]
  /\ cpc \in [Clients -> ClientPCs]
  /\ cjob \in [Clients -> JobRec]
  /\ ctasks \in [Clients -> [TaskKeys -> TaskRec]]
  /\ calls \in 0 .. MaxCalls
  /\ provCalls \in [TaskKeys -> Nat]


\* Safety, about finalizeJob and the wave's wg.Wait: while the job is in a
\* terminal status no task goroutine is still executing, so none of their
\* later ReplaceJobTasks or UpdateJob calls can land on a finalized job.
NoWorkerAfterFinalize ==
  isJobTerminal(job.status) =>
    \A k \in TaskKeys : wpc[k] \in {"idle", "done"}

\* Safety, about finalizeJob's classification and RetryJob's task reset: a
\* job the store shows as succeeded has every task succeeded.
SucceededMeansAllTasksSucceeded ==
  job.status = "succeeded" => \A k \in TaskKeys : tasks[k].status = "succeeded"

\* Liveness, about executeTask's semaphores: every launched task goroutine
\* eventually returns (it gets both semaphore slots, and every path through
\* the retry loop releases them), so the runner's wg.Wait() returns.
WorkersReturn ==
  \A k \in TaskKeys : (wpc[k] = "acqGlobal") ~> (wpc[k] = "done")

\* Liveness, about runJob's loop (spec 4.5.2: "this wavefront ordering makes
\* progress"): a started job eventually reaches a terminal status.
JobEventuallyTerminal == <>(isJobTerminal(job.status))

\* Action property, about CancelJob and every UpdateJob of a stale job copy
\* (spec 5: "cancel_requested is monotonic until a RetryJob resets the
\* job"): the flag is only ever cleared by RetryJob's own UpdateJob.
CancelRequestNeverLost ==
  [][job.cancel /\ ~job'.cancel =>
       \E c \in Clients : cpc[c] = "retryJobWrite" /\ cpc'[c] = "retryStart"]_job

\* Safety, about cooperative cancellation (spec scenario S2): a job whose
\* cancellation was requested, and in which no provider call failed by
\* itself, ends canceled, not failed or succeeded.
CancelEndsCanceled ==
  (isJobTerminal(job.status) /\ job.cancel /\ \A k \in TaskKeys : tasks[k].err # "PROVIDER")
    => job.status = "canceled"

\* Safety, about startRunnerIfNeeded / finishRunner and the stale job copies
\* written by CancelJob: when no API call is in flight, a job that is not
\* terminal has a runner that will drive it.
NonTerminalJobHasRunner ==
  (~isJobTerminal(job.status) /\ \A c \in Clients : cpc[c] = "idle") => activeRunner


\* Safety, about the shared attempt budget (spec 4.5.6 and design note 9(b)):
\* executeTask's loop starts at the stored current.Attempt (service.go:355)
\* after updateTask incremented it (329), each further iteration stores
\* Attempt++ (431), and RetryJob resets status and error but keeps Attempt
\* (176-185).  Over the whole behaviour, through failures, backoffs and
\* retries of failed jobs, no task gets more than max_attempt provider calls.
TotalCallsWithinBudget == \A k \in TaskKeys : provCalls[k] <= MaxAttempt


\* Safety, about updateProgress (service.go:496) and CancelJob (service.go:142)
\* writing back whole job copies read earlier (spec 4.5.7 and 8.1: progress
\* is the share of terminal tasks, and no task leaves a terminal status
\* while the job runs): no step of a running job that leaves it running
\* lowers its stored progress.
ProgressNeverRegresses ==
  [][job.status = "running" /\ job'.status = "running"
       => job'.progress >= job.progress]_vars

=============================================================================
