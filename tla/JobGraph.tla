------------------------------ MODULE JobGraph ------------------------------
(***************************************************************************)
(* The task graph of one job and the pure helpers of the job service that  *)
(* read it (src/server/internal/job/service.go): buildTasks, readyTasks,   *)
(* allTasksTerminal, isTaskTerminal, isJobTerminal, calcProgress.          *)
(*                                                                         *)
(* A task key is a pair <<task_type, scene_index>>; the storyboard and     *)
(* compose tasks carry scene index 0, as buildTasks leaves SceneIndex at   *)
(* its zero value for them.  Progress is kept as the number of terminal    *)
(* tasks: calcProgress returns done / len(tasks) and len(tasks) is fixed   *)
(* for a job, so the numerator determines the float exactly.               *)
(***************************************************************************)
EXTENDS Naturals, FiniteSets

CONSTANTS
  Scenes,      \* project.SceneCount (the API accepts 1..20)
  MaxAttempt   \* JobTask.MaxAttempt, set to 3 by buildTasks

ASSUME Scenes \in Nat \ {0}
ASSUME MaxAttempt \in Nat \ {0}

TaskStatuses == {"queued", "running", "succeeded", "failed", "canceled"}
JobStatuses  == TaskStatuses

\* Error codes a task can carry: none, the CANCELED code written by
\* markTaskCanceled or returned by a canceled provider call, a provider
\* error code, and the UNKNOWN code used when the retry loop never ran.
ErrCodes == {"none", "CANCELED", "PROVIDER", "UNKNOWN"}

StoryboardKey == <<"storyboard_generate", 0>>
ComposeKey    == <<"compose_video", 0>>
SceneKeys     == {"image_generate", "tts_generate"} \X (0 .. Scenes - 1)
TaskKeys      == {StoryboardKey, ComposeKey} \cup SceneKeys

\* The DependsOn lists buildTasks writes, as sets of keys.
DependsOn(k) ==
  CASE k = StoryboardKey -> {}
    [] k \in SceneKeys    -> {StoryboardKey}
    [] k = ComposeKey     -> SceneKeys

\* executeTask takes a slot of the per-job scene semaphore for these types.
IsSceneTask(k) == k[1] \in {"image_generate", "tts_generate"}

TaskRec == [status : TaskStatuses, attempt : Nat, err : ErrCodes]

\* buildTasks: every task queued, attempt 0, no error.
BuildTasks == [k \in TaskKeys |-> [status |-> "queued", attempt |-> 0, err |-> "none"]]

isTaskTerminal(s) == s \in {"succeeded", "failed", "canceled"}
isJobTerminal(s)  == s \in {"succeeded", "failed", "canceled"}

allTasksTerminal(tasks) == \A k \in DOMAIN tasks : isTaskTerminal(tasks[k].status)

\* readyTasks: queued, NextRunAt not in the future (always true: it is set
\* to creation time or cleared), every dependency succeeded.
readyTasks(tasks) ==
  { k \in DOMAIN tasks :
      /\ tasks[k].status = "queued"
      /\ \A d \in DependsOn(k) : tasks[d].status = "succeeded" }

\* calcProgress, as the count of terminal tasks.
calcProgress(tasks) == Cardinality({k \in DOMAIN tasks : isTaskTerminal(tasks[k].status)})

NumTasks == Cardinality(TaskKeys)
=============================================================================
