# TLA+ models of the stv-renew job engine

This directory holds TLA+ specifications of the Go server under
`src/server`, together with the TLC configurations that check them.
`PROJECT.json` holds the machine-readable parts of this document:
- `components` and `runs`;
- the mutants that show each property can fail;
- the map from every definition to the Go lines it models;
- the findings and the hazards.

## 1. The system

The server turns a project into a video by running a small DAG of tasks.

| Part | Source | State | Operations |
|------|--------|-------|------------|
| Scheduler | `internal/job/service.go` | `activeRunner`, `runningByUser`, `globalSem` (20), per-job `sceneSem` (6) | `StartJob`, `CancelJob`, `RetryJob`, `startRunnerIfNeeded`, `finishRunner` |
| Runner goroutine | `runJob` | the loop's job copy | read the job, stamp it started, cancel queued tasks, finalize, sleep, launch a wave and `wg.Wait` |
| Task goroutines | `executeTask` | attempt, last error, the semaphore slots held | acquire both semaphores, `updateTask` (running), the retry loop over `prov.Execute` with a cancel-watcher and backoff, `updateTask` (succeeded / failed / canceled), `updateProgress` |
| Store | `internal/store/memory_store.go` | jobs, tasks per job, events per job with `seq`, idempotency index, assets, exports | each method is atomic under one RWMutex |
| Event hub | `internal/events/hub.go` | subscribers per job, each a buffered channel (128) | `Subscribe`, `Publish` (non-blocking; drops on a full buffer), unsubscribe |
| SSE adapter | `internal/api/handlers_jobs.go` | per-connection cursor | list the backlog from `Last-Event-ID`, subscribe, forward |
| Provider | `internal/provider/provider.go` | none | `Execute` returns after a delay, or `CANCELED` when its context is cancelled, or a retryable error |
| Auth, projects, assets, exports | `internal/auth`, `internal/api` | users, refresh tokens, projects, scenes, exports | CRUD, token rotation, `resolveExport` poller |

How the parts interact:
- Every service operation is a sequence of separate store calls. Each call is atomic, but **no lock is held across the sequence**.
- `updateTask`, `updateProgress`, `CancelJob`, `RetryJob` and the runner's first `UpdateJob` all read a whole record, change it and write the whole record back.
- The runner, the task goroutines of the current wave and any number of API calls run these sequences concurrently. This is where nearly all of the findings below come from.

## 2. Modules

| Module | Models |
|--------|--------|
| `JobGraph` | `buildTasks` (keys are `<<type, scene>>` pairs, with `DependsOn`), `readyTasks`, `allTasksTerminal`, `isTaskTerminal`, `isJobTerminal`, `calcProgress`. Progress is the count of terminal tasks, because the task count is fixed for a job. |
| `JobRunner` | One job after `StartJob`: the runner, one task goroutine per task key, and API clients issuing `CancelJob` and `RetryJob`. `ExecuteOutcomes` is the provider call (`MockAdapter.Execute` with `waitCancelable`). |
| `JobLifecycle` | The abstract job and task lifecycle of spec 3, 4.5.2, 4.5.4 and 4.5.6, with no goroutines or copies: queued, running, one terminal status; tasks start after their dependencies succeeded; retry resets the non-succeeded tasks, then requeues the job. |
| `JobRunnerLifecycle` | `JobRunner` with `Lifecycle == INSTANCE JobLifecycle WITH status <- job.status, tstatus <- [k |-> tasks[k].status]`; the property `ImplementsLifecycle` is `Lifecycle!Spec`. |
| `EventStream` | The event path of one job: `publishEvent` (store append, then `Hub.Publish` outside the store lock), the hub's subscriber channel, and `streamJobEvents` with a client that reconnects by `Last-Event-ID`. |
| `JobAdmission` | Concurrent `StartJob` calls of one user: idempotency lookup, cap check, `CreateJob`, project update and `job_created`, `startRunnerIfNeeded`; each runner reduced to `finalizeJob` and `finishRunner`. |
| `AuthRefresh` | Refresh-token rotation for one user: `Login`, `Refresh` (three store calls: `GetRefreshToken` and its checks, `RevokeRefreshToken`, `issueTokens`' `SaveRefreshToken`) and `Logout`, run by concurrent handlers, with a clock that expires tokens. |
| `JobExport` | `JobRunnerLifecycle` composed with one `createExport` and its `resolveExport` goroutine (`GetExport`, `UpdateExport` running, then a deadline loop that polls `ListAssets` for a `final_video`). |
| `ProjectEdits` | One project written back whole by concurrent handlers: `patchProject`, `putStoryboard` (`ReplaceScenes`, then `UpdateProject` of `SceneCount`), `StartJob`'s update to running and `finalizeJob`'s update to the terminal status. |
| `MCJobRunner`, `MCEventStream`, `MCJobAdmission`, `MCAuthRefresh`, `MCJobExport`, `MCProjectEdits` | Model values for clients, publishers, calls, keys and handlers. `MCJobRunner` extends `JobRunnerLifecycle`. |

In `JobRunner` the variables correspond to the code as follows:

| Variable | Code |
|----------|------|
| `job`, `tasks`, `jobEvents` | the store's `jobs[id]`, `tasksByJob[id]`, and the job-level events of `eventsByJob[id]` (`job_created` and the terminal events) |
| `activeRunner`, `runningByUser` | the `Service` maps for this job and its user |
| `globalHeld`, `sceneHeld` | slots taken in `globalSem` and `sceneSem` |
| `rpc`, `rjob`, `rprog`, `wave` | the runner's program point, its loop-top job copy, the copy held inside `updateProgress`, and the launched goroutines |
| `wpc`, `wcopy`, `wjob`, `wattempt`, `wlastErr` | per task goroutine: its program point, the task list read by `updateTask`, the job read by `updateProgress`, the loop variable `attempt`, and `lastErr` |
| `cpc`, `cjob`, `ctasks`, `calls` | per API call: its program point and the copies it read; `calls` bounds the number of calls |
| `provCalls` | history: the `prov.Execute` calls made for each task, over all runs of the job; no action reads it |

Actions and atomicity:
- Every store call is one step. A read-modify-write is a `...Read` action followed by a `...Write` action, with the copy held in a local variable in between.
- Each action models a whole stretch of code between two store calls, including its guards and early returns.
- Appending an event and publishing it is merged into the store write it follows.
- `GetJob` and `GetJobTasks` inside `updateProgress` are merged into one read. No property tells them apart, because the job part of the copy is what is written back.
- The provider call together with its cancel-watcher is one step, `WorkerReturn`. Its outcomes are success, the errors in `ProviderErrors`, or `CANCELED` if `cancel_requested` is set at return time.
- Locals that are dead after a step are reset to a fixed value, so that states differing only in garbage are not counted twice.

Initial state:
- `Init` is the state right after `StartJob` returned: the job queued, the tasks built, `job_created` appended, and the runner launched.
- `runningByUser` may also count up to `MaxUserJobs - 1` other running jobs of the same user. This makes RetryJob's too-many-running-jobs branch reachable.

### `EventStream`

| Variable | Code |
|----------|------|
| `nEvents` | `eventSeqByJob[job]`: the log holds seq `1..nEvents` (events differ only in seq) |
| `ppc`, `pevt`, `psnap`, `readers` | each publishing goroutine: its point in `publishEvent`/`Publish`, the seq it got from `AppendJobEvent`, the subscription it found under `RLock`, and the holders of the read lock |
| `subscribed`, `chan` | the current connection's entry in `h.subs` and its buffered channel |
| `spc`, `fromSeq`, `backlog`, `listedAt`, `liveRecv` | `streamJobEvents`: program point, the parsed `Last-Event-ID`, the listed backlog, the log length when listed, the events forwarded live |
| `recv`, `lastId`, `connects` | the client: every event received, the id it will send on reconnect, connections so far |
| `panicked` | a send on a channel that unsubscribe closed |

`StreamSubscribe` and `StreamDisconnect` take the hub's write lock, so they wait until `readers` is empty. `PublishSend` does the non-blocking `select` (`Offer` drops on a full buffer) and releases the read lock.

### `JobAdmission`

Each `StartJob` call is `Lookup` (`GetJobByIdempotency`; a hit returns at once), `Admit` (the cap check under `s.mu`), `CreateJob` (the store re-checks the index and returns the existing job, or inserts a new one), `Publish` (`UpdateProject` to running with `CurrentJobID`, `job_created`) and `StartRunner` (`startRunnerIfNeeded`). A job is named by the call that created it. `launches` counts `go runJob` per job.

### `AuthRefresh`

| Variable | Code |
|----------|------|
| `tokens` | the store's `refreshTokens`: per id, whether it was saved and whether `RevokedAt` is set |
| `nextId` | the id the next `issueTokens` creates (a uuid in the code; ids here are in creation order) |
| `expired` | every token gets `ExpiresAt = now + refreshTTL`, so tokens expire in creation order; tokens `1..expired` have expired |
| `cpc`, `cid`, `cform`, `cres` | per handler: its step, the presented token's id and form, the result |
| `uses`, `requests` | history: successful refreshes per presented token; requests served (the bound) |

A presented token is its id and its form: `genuine`, `forged` (the hash check at service.go:124 fails) or `malformed` (`parseRefreshTokenID` fails). `RefreshCheck` is everything before the revoke (reads only), `RefreshRevoke` the `RevokeRefreshToken` call, `RefreshIssue` the `SaveRefreshToken` inside `issueTokens`. `Logout` parses and revokes in one store call and does not check the secret part. Access tokens are stateless JWTs and are left out.

### `JobExport`

| Variable | Code |
|----------|------|
| `estatus` | the stored export's `Status` (`none` before `CreateExport`) |
| `epc` | the step of the handler and of the `resolveExport` goroutine it starts (handlers_assets_exports.go:65) |
| `eleft` | polls left before the 30 s deadline; each poll waits 500 ms |

`FinalVideoListed` is `ListAssets(userID, "final_video")` finding an asset: the `compose_video` task saves the only `final_video` asset when it succeeds (provider.go:149-160), so it is listed exactly when the stored compose task has succeeded. `NextWithExport` interleaves the job's steps with the export's; the two share no variable but the tasks the poll reads.

### `ProjectEdits`

| Variable | Code |
|----------|------|
| `project` | `projects[id]`: status, `CurrentJobID`, `SceneCount`, name (story and style are written the same way as the name) |
| `scenes` | `len(scenesByProject[id])` |
| `jobs` | per job created by a `StartJob` handler: its stored status and the scene count `buildTasks` used |
| `hpc`, `hcopy`, `harg` | per handler: its step, the project it read with `GetProject`, its input (a name or a storyboard size) |
| `rpc`, `rcopy` | per job's runner: `finalizeJob`'s `UpdateJob`, `GetProject` and `UpdateProject` |
| `lastName` | history: the name the last `patchProject` wrote |

Every store call is one step. The idempotency and cap checks of `StartJob` pass here (they are `JobAdmission`'s subject), and the runner is reduced to its terminal status. The initial project is what `createProject` stores: draft, no job, and `scene_count` scenes (at least one).

### The refinement

`JobRunnerLifecycle` maps the store's job status and task statuses to `JobLifecycle`. Every other variable is hidden, so reads, semaphores, attempt and progress writes, events and runner bookkeeping are stuttering steps. The code does **not** implement the lifecycle: at the semaphore sizes of `config.go` (20 and 6), with a provider that always succeeds and no API calls, `MCJobRunner_refinement.cfg` finds `ImplementsLifecycle` violated. Image and tts of a wave both read the task list, one stores its task running, and the other's `updateTask` writes back its older copy, taking that task from running back to queued. `CancelJob`'s stale copy breaks it the same way (a running job is stored queued again). The refinement holds only where the semaphores serialise the wave and no `CancelJob` is issued, which is why it is not claimed as a passing run.

## 3. Runs

`JobRunner` cfgs use `Scenes = 1` (4 tasks: storyboard, image, tts, compose) and `MaxAttempt = 3` (the value `buildTasks` writes). They also use `MaxUserJobs = 2` and the semaphore sizes from `config.go`, 20 and 6, except where noted.

`CHECK_DEADLOCK FALSE` is set in every cfg because the program really stops: once the job is terminal, the runner has exited and the API calls are used up, no step is enabled. In `EventStream` the stream ends with all events published and the client idle or forwarding; in `JobAdmission`, when every call and runner has returned.

### Passing runs

| Run | Setting | Properties | Shows |
|-----|---------|------------|-------|
| `safety` | One client with up to 3 calls of `CancelJob` or `RetryJob`; provider errors are fatal; 1.35M distinct states | `NoWorkerAfterFinalize`, `SucceededMeansAllTasksSucceeded` | While calls do not overlap, `wg.Wait` keeps task goroutines out of a finalized job. A job stored as succeeded has all its tasks succeeded, through any sequence of cancels and retries. |
| `workers` | Semaphores of size 1; retryable and fatal provider errors; one client with up to 3 `RetryJob` calls; 111k distinct states | `TypeOK`, `TotalCallsWithinBudget`, `WorkersReturn` | Every launched goroutine acquires both slots, leaves the retry loop by some path and returns. The slot counts never exceed their capacities. Counting every `prov.Execute` call in the history variable `provCalls`, no task gets more than `max_attempt` calls over the whole behaviour, through retryable failures, backoffs and retries of failed jobs: the budget is shared across retries because `RetryJob` keeps `Attempt` (spec 4.5.6 and design note 9(b)). |
| `hub` | Two publishers, 3 events, buffer of 1, two connections | `TypeOK`, `NoSendOnClosedChannel` | The hub's read lock across the sends and the write lock around close keep every send off a closed channel. A full buffer drops, never blocks or overfills. |

Each property has a mutant: a plausible bug, defined just before the definition it replaces, that makes TLC report a violation under the same cfg.

| Property | Mutant | Plausible bug it represents |
|----------|--------|-----------------------------|
| `NoWorkerAfterFinalize` | `RunnerWaitNoBarrier` | `wg.Wait` is removed |
| `SucceededMeansAllTasksSucceeded` | `RunnerScanFinalizeWhenStuck` | finalize as soon as nothing is ready, as a naive fix of the hang |
| `TypeOK` (`workers`) | `WorkerAcqGlobalUnbounded` | a non-blocking acquire |
| `WorkersReturn` | `WorkerProgWriteKeepsGlobal` | the `globalSem` release is missing |
| `TotalCallsWithinBudget` | `ResetForRetryFreshBudget` | `RetryJob` also resets `Attempt`, giving a retried task a fresh budget |
| `TypeOK` (`hub`) | `OfferUnbounded` | a blocking or unbounded send |
| `NoSendOnClosedChannel` | `PublishRLockCopy` | `Publish` copies the subscriber map and sends after `RUnlock` |

### Violation runs

Each of these runs checks one property that the spec or a test states, and TLC reports the counterexample:

| Run | Property | What the trace shows |
|-----|----------|----------------------|
| `dep_hang` | `JobEventuallyTerminal` | The image task fails fatally, so compose stays queued. `readyTasks` is empty while `allTasksTerminal` is false, and `runJob` sleeps and loops for ever (service.go:274). |
| `lost_update_hang` | `JobEventuallyTerminal` | Even though the provider always succeeds, image and tts race in `updateTask`. One write is lost, a task stays running or queued, and the job never ends (service.go:472). |
| `cancel_lost` | `CancelRequestNeverLost` | The runner reads the job, `CancelJob` sets the flag, and the runner's stale `UpdateJob` (service.go:253) clears it. |
| `cancel_outcome` | `CancelEndsCanceled` | The provider returns CANCELED after the cancel. The task ends failed and the job ends failed (service.go:421, 516), not canceled as spec S2 and `TestJobCancel` require. |
| `retry_orphan` | `NonTerminalJobHasRunner` | `RetryJob` runs between `finalizeJob` and the deferred `finishRunner`. `startRunnerIfNeeded` sees `activeRunner` still set, and the job stays queued with no runner. |
| `cancel_orphan` | `NonTerminalJobHasRunner` | `CancelJob`'s stale copy turns a succeeded job back to running after its runner exited. |
| `double_retry` | `SucceededMeansAllTasksSucceeded` | Two overlapping retries: the second one's task reset lands on a job that has already succeeded. |
| `sse_loss` | `ReconnectRecovers` | Event 2 is appended and published after the stream listed its backlog and before it subscribed. The stream then forwards event 3, so `Last-Event-ID` is 3 and the reconnect lists nothing (handlers_jobs.go:120). A dropped event (hub.go:62) is lost the same way. |
| `admission_cap` | `UserCapRespected` | Two `StartJob` calls pass the cap check (service.go:79) before either `startRunnerIfNeeded` counts its runner; the user has two running jobs with a cap of one. |

### Further configurations

These cfgs are not among the runs in `PROJECT.json`, which holds at most twelve runs. Except for `MCAuthRefresh_sequential.cfg` and `MCJobExport_workers.cfg`, each checks one property and TLC reports a counterexample:

| Cfg | Property | What the trace shows |
|-----|----------|----------------------|
| `MCEventStream_gap.cfg` | `NoGapOnLiveStream` | the list/subscribe gap with one connection: event 3 never arrives |
| `MCEventStream_dup.cfg` | `DeliveredInOrder` | event 1 is appended before the list and published after the subscribe, so the client gets it twice |
| `MCEventStream_reorder.cfg` | `LiveTailInOrder` | two publishers append 1 and 2 and publish 2 first (service.go:587, spec 4.2) |
| `MCJobRunner_progress.cfg` | `ProgressNeverRegresses` | the runner cancels the queued tasks and reads the job for `updateProgress`; `CancelJob` reads the job; the runner stores progress 4; `CancelJob` writes its copy back with progress 0 while the job stays running (service.go:142, 496; spec 4.5.7, 8.1) |
| `MCAuthRefresh_reuse.cfg` | `SingleUse` | after a `Login`, two handlers refresh the same token: both pass the `RevokedAt` check (auth/service.go:117) before either revokes it, and both issue new tokens, so one refresh token yields two sessions |
| `MCAuthRefresh_sequential.cfg` | `TypeOK`, `SingleUse` (both hold) | with one handler serving four requests in turn, the regime of `TestLoginRefreshLogout`, a token is never exchanged twice |
| `MCJobRunner_refinement.cfg` | `ImplementsLifecycle` | semaphores 20 and 6, no API calls: the two scene tasks' `updateTask` calls interleave and a task goes from running back to queued (service.go:472-484), which `JobLifecycle` forbids |
| `MCJobExport_workers.cfg` | `TypeOK`, `TotalCallsWithinBudget`, `WorkersReturn`, `ExportSettles` (all hold) | the `workers` setting with two `RetryJob` calls and one export with `ExportPolls = 2`: an export started at any point of the job ends succeeded or failed, whether the video appears before the deadline, at the last poll, or never. The mutant `ExportPollNoDeadline` (the deadline check dropped) breaks `ExportSettles`. It is not the `workers` run because TLC reports the composed next-state relation as one action, which hides which `JobRunner` actions fire. |
| `MCProjectEdits_ProjectStatusFollowsJob.cfg` | `ProjectStatusFollowsJob` | a job starts; its `finalizeJob` stores succeeded; a `patchProject` that read the project while the job ran writes it back, and the project shows running for a job that ended (handlers_projects.go:138) |
| `MCProjectEdits_SceneCountMatches.cfg` | `SceneCountMatches` | a `putStoryboard` stores no scenes and `SceneCount` 0; a `patchProject` that read the project before writes back `SceneCount` 1, which the next `StartJob` uses to build its tasks (handlers_projects.go:225) |
| `MCProjectEdits_NoLostEdit.cfg` | `NoLostEdit` | a rename is written, then a `putStoryboard` that read the project before it writes the old name back |
| `MCJobAdmission_second_runner.cfg` | `NoSecondRunner` | two calls with key k1; the second's `CreateJob` returns the first job after its runner finished, and `startRunnerIfNeeded` launches a second runner on it, rewrites the project as running and appends a second `job_created` (spec 8.5, S5) |

Why the bounds are enough:
- **One scene** already gives a wave of two concurrent scene tasks, which is where `updateTask` races. Two scenes in `workers` take over two minutes and add no new interleaving of distinct kind.
- **Three calls** allow cancel and retry to interleave, and allow three retries to push an attempt past `MaxAttempt` (the UNKNOWN path of `WorkerLoadCurrent`).
- **Semaphores** are kept at the real values 20 and 6, except in `workers`, where size 1 makes the tasks contend for them and serialises `updateTask`.
- **Retryable errors and cancels** are not combined in one run, because the state space then exceeds the time budget. The retry loop's paths are covered by `workers`, and cancellation by `safety`.
- **Events**: three events and a buffer of one are enough for a drop, a gap between list and subscribe, and a reconnect; two publishers give the out-of-order publish.
- **Admission**: two calls and one key give both the cap race and the key collision.
- **Export**: `ExportPolls = 2` stands for the 60 polls of the 30 s deadline; what matters is that the video may appear before the last poll, at it, or not at all, and two polls give all three.
- **Projects**: two handlers, two names and storyboards of up to two scenes give every pair of overlapping read-modify-writes.
- **Auth**: three requests over two handlers are a login and two overlapping refreshes (or a refresh and a logout); four requests on one handler give login, refresh, logout and a refresh of the revoked token.

## 4. Fairness

`JobRunner`'s `Fairness` asserts:
- Weak fairness of the runner and of each task goroutine. Go schedules runnable goroutines, and every provider call returns: the mock's longest delay is 1.6 s, and a real provider's context bounds it.
- Weak fairness of an API call only once it has started. Nothing obliges a client to call.

`EventStream` has weak fairness of each publisher and of the stream handler's steps, never of the client's connect and disconnect. `JobAdmission` has weak fairness of `Next`. In `MCJobExport_workers.cfg`, `JobExport` adds weak fairness of the `resolveExport` goroutine: it is started by the handler and only sleeps between polls. Fairness is needed only by the liveness properties (`WorkersReturn` and `JobEventuallyTerminal`); `JobLifecycle` promises safety only.

## 5. Not modelled, and why

- **The task `Retryable` flag, error messages, timestamps and assets.** No property reads them.
- **The cancel-watcher as a separate goroutine.** `WorkerReturn` allows the `CANCELED` outcome only while `cancel_requested` is set when the call returns. This under-approximates a flag that is set and cleared again during one call.
- **Store errors.** The in-memory store fails only for unknown ids, and no modelled path uses an unknown id.
- **Several subscribers per job, the heartbeat and the `from_seq` query.** One connection at a time shows every ordering and loss; `from_seq` only overrides the cursor.
- **`JobAdmission`'s runner** is two steps; the runner itself is `JobRunner`. `RetryJob`'s own cap check (service.go:165) has the same check-then-act shape as `StartJob`'s.
- **Assets and the read-only handlers** (`listAssets`, `getExport`, `listProjects`, `getProject`, `getStoryboard`): they change no state.
- **`patchScene`**: one atomic `UpdateScene` on scene content, which no property tells apart.
- **The rest of auth** (`SeedDemoUser`, `ParseAccess`), **the middleware and the server wiring**: request parsing, JWT checks and route set-up, with no concurrent state a model checker adds to. See `components` in `PROJECT.json`.

## 6. Plan

1. Runs for `SingleUse`, `ProgressNeverRegresses`, `NoSecondRunner`, `LiveTailInOrder` and the three `ProjectEdits` properties, which today are only further configurations, once the run list has room (`cancel_orphan` and `retry_orphan` check the same property).
2. `AuthRefresh`: a property for a `Logout` that lands between a refresh's check and its `issueTokens` (auth/service.go:131).
3. `ProjectEdits` composed with `JobAdmission`, so that the project status is checked against several jobs of one user.
4. `JobGraph` checked against a reference: `readyTasks` against a recursive reachability definition.
