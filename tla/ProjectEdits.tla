---------------------------- MODULE ProjectEdits -----------------------------
(***************************************************************************)
(* One project record and the handlers that write it back whole            *)
(* (api/handlers_projects.go, job/service.go): patchProject and            *)
(* putStoryboard read it with GetProject and later UpdateProject their     *)
(* copy; StartJob reads it before the cap check and writes its copy back   *)
(* with status running and CurrentJobID; finalizeJob, after storing the    *)
(* job's terminal status, reads it again and writes the copy back with     *)
(* that status.  Every store call is atomic; nothing is held across them.  *)
(* A job is named by the StartJob handler that created it; its runner is   *)
(* reduced to the terminal status and finalizeJob's project update.        *)
(***************************************************************************)
EXTENDS Naturals

CONSTANTS
  Calls,       \* concurrent request handlers
  Names,       \* project names a patch may set
  MaxScenes,   \* storyboard sizes a put may send: 0..MaxScenes
  NoJob

ASSUME MaxScenes \in Nat
ASSUME NoJob \notin Calls

JobStatus == {"succeeded", "failed", "canceled"}

ProjectRec ==
  [status : {"draft", "running"} \cup JobStatus, current : Calls \cup {NoJob},
   sceneCount : 0..MaxScenes, name : Names]

VARIABLES
  project,     \* projects[id]
  scenes,      \* len(scenesByProject[id])
  jobs,        \* per job: status ("none" before CreateJob) and scene count
  lastName,    \* history: the name of the last patch written
  hpc, hcopy, harg,   \* per handler: step, its project copy, its input
  rpc, rcopy   \* per job's runner: step, finalizeJob's project copy

vars == <<project, scenes, jobs, lastName, hpc, hcopy, harg, rpc, rcopy>>

Init ==
  /\ \E n \in Names, k \in 1..MaxScenes :   \* createProject: scene_count min=1
       /\ project = [status |-> "draft", current |-> NoJob, sceneCount |-> k, name |-> n]
       /\ scenes = k
       /\ lastName = n
  /\ jobs = [j \in Calls |-> [status |-> "none", sceneCount |-> 0]]
  /\ hpc = [c \in Calls |-> "idle"]
  /\ hcopy = [c \in Calls |-> project]
  /\ harg = [c \in Calls |-> 0]
  /\ rpc = [j \in Calls |-> "none"]
  /\ rcopy = [j \in Calls |-> project]

Goto(c, pc) == hpc' = [hpc EXCEPT ![c] = pc]

\* GetProject into the handler's copy; the ownership check passes.
ReadProject(c, next) ==
  /\ hcopy' = [hcopy EXCEPT ![c] = project]
  /\ Goto(c, next)

-----------------------------------------------------------------------------
(* patchProject *)

PatchRead(c) ==
  /\ hpc[c] = "idle"
  /\ \E n \in Names : harg' = [harg EXCEPT ![c] = n]
  /\ ReadProject(c, "patchWrite")
  /\ UNCHANGED <<project, scenes, jobs, lastName, rpc, rcopy>>

\* Set the name on the copy and UpdateProject(copy).
PatchWrite(c) ==
  /\ hpc[c] = "patchWrite"
  /\ project' = [hcopy[c] EXCEPT !.name = harg[c]]
  /\ lastName' = harg[c]
  /\ Goto(c, "done")
  /\ UNCHANGED <<scenes, jobs, hcopy, harg, rpc, rcopy>>

(* putStoryboard *)

PutRead(c) ==
  /\ hpc[c] = "idle"
  /\ \E k \in 0..MaxScenes : harg' = [harg EXCEPT ![c] = k]
  /\ ReadProject(c, "putScenes")
  /\ UNCHANGED <<project, scenes, jobs, lastName, rpc, rcopy>>

\* ReplaceScenes(projectID, scenes).
PutScenes(c) ==
  /\ hpc[c] = "putScenes"
  /\ scenes' = harg[c]
  /\ Goto(c, "putProject")
  /\ UNCHANGED <<project, jobs, lastName, hcopy, harg, rpc, rcopy>>

\* project.SceneCount = len(scenes); UpdateProject(copy).
PutProject(c) ==
  /\ hpc[c] = "putProject"
  /\ project' = [hcopy[c] EXCEPT !.sceneCount = harg[c]]
  /\ Goto(c, "done")
  /\ UNCHANGED <<scenes, jobs, lastName, hcopy, harg, rpc, rcopy>>

(* StartJob (the idempotency and cap checks pass) *)

StartRead(c) ==
  /\ hpc[c] = "idle"
  /\ ReadProject(c, "startCreate")
  /\ UNCHANGED <<project, scenes, jobs, lastName, harg, rpc, rcopy>>

\* CreateJob with buildTasks(project, job): one image and tts per
\* project.SceneCount of the copy.
StartCreate(c) ==
  /\ hpc[c] = "startCreate"
  /\ jobs' = [jobs EXCEPT ![c] = [status |-> "queued", sceneCount |-> hcopy[c].sceneCount]]
  /\ Goto(c, "startUpdate")
  /\ UNCHANGED <<project, scenes, lastName, hcopy, harg, rpc, rcopy>>

\* CurrentJobID and status running on the copy, UpdateProject(copy);
\* startRunnerIfNeeded launches the runner.
StartUpdate(c) ==
  /\ hpc[c] = "startUpdate"
  /\ project' = [hcopy[c] EXCEPT !.current = c, !.status = "running"]
  /\ rpc' = [rpc EXCEPT ![c] = "run"]
  /\ Goto(c, "done")
  /\ UNCHANGED <<scenes, jobs, lastName, hcopy, harg, rcopy>>

-----------------------------------------------------------------------------
(* The job's runner, down to finalizeJob *)

\* UpdateJob with the terminal status.
RunnerFinish(j) ==
  /\ rpc[j] = "run"
  /\ \E s \in JobStatus : jobs' = [jobs EXCEPT ![j].status = s]
  /\ rpc' = [rpc EXCEPT ![j] = "read"]
  /\ UNCHANGED <<project, scenes, lastName, hpc, hcopy, harg, rcopy>>

\* GetProject(job.ProjectID).
FinalizeRead(j) ==
  /\ rpc[j] = "read"
  /\ rcopy' = [rcopy EXCEPT ![j] = project]
  /\ rpc' = [rpc EXCEPT ![j] = "write"]
  /\ UNCHANGED <<project, scenes, jobs, lastName, hpc, hcopy, harg>>

\* project.Status = job.Status; UpdateProject(copy).
FinalizeWrite(j) ==
  /\ rpc[j] = "write"
  /\ project' = [rcopy[j] EXCEPT !.status = jobs[j].status]
  /\ rpc' = [rpc EXCEPT ![j] = "exit"]
  /\ UNCHANGED <<scenes, jobs, lastName, hpc, hcopy, harg, rcopy>>

-----------------------------------------------------------------------------
Next ==
  \E c \in Calls :
    \/ PatchRead(c) \/ PatchWrite(c)
    \/ PutRead(c) \/ PutScenes(c) \/ PutProject(c)
    \/ StartRead(c) \/ StartCreate(c) \/ StartUpdate(c)
    \/ RunnerFinish(c) \/ FinalizeRead(c) \/ FinalizeWrite(c)

Spec == Init /\ [][Next]_vars

\* Every handler has returned and every runner has exited.
Quiescent ==
  /\ \A c \in Calls : hpc[c] \in {"idle", "done"}
  /\ \A j \in Calls : rpc[j] \in {"none", "exit"}

-----------------------------------------------------------------------------
(* Properties *)

TypeOK ==
  /\ project \in ProjectRec
  /\ scenes \in 0..MaxScenes
  /\ hpc \in [Calls -> {"idle", "patchWrite", "putScenes", "putProject",
                        "startCreate", "startUpdate", "done"}]
  /\ rpc \in [Calls -> {"none", "run", "read", "write", "exit"}]

\* Safety, about finalizeJob writing the job's terminal status to the
\* project (service.go:538-543, spec 4.5.4) and the handlers that write
\* back older copies: once everything has returned, a project whose current
\* job has finished shows that job's terminal status.
ProjectStatusFollowsJob ==
  Quiescent /\ project.current # NoJob
    => project.status = jobs[project.current].status

\* Safety, about putStoryboard's ReplaceScenes followed by a separate
\* UpdateProject of SceneCount (handlers_projects.go:219-224), which
\* buildTasks reads: once everything has returned, the project's scene
\* count is the number of stored scenes.
SceneCountMatches == Quiescent => project.sceneCount = scenes

\* Safety, about patchProject (handlers_projects.go:108-142): once
\* everything has returned, the project's name is the one the last
\* successful patch wrote.
NoLostEdit == Quiescent => project.name = lastName

=============================================================================
