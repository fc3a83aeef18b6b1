---------------------------- MODULE JobAdmission -----------------------------
(***************************************************************************)
(* Job admission in the job service (job/service.go): concurrent StartJob  *)
(* calls of one user on one project, each a sequence of separate critical  *)
(* sections -- the idempotency lookup (store lock), the running-job cap    *)
(* check (s.mu), CreateJob (store lock, which re-checks the idempotency    *)
(* index), the project update and job_created event, and                   *)
(* startRunnerIfNeeded (s.mu) -- with the runner of each job abstracted to *)
(* its two effects on admission: finalizeJob and the deferred              *)
(* finishRunner.                                                           *)
(*                                                                         *)
(* A call creates at most one job, so a job is named by the call that      *)
(* created it.                                                             *)
(***************************************************************************)
EXTENDS Naturals, FiniteSets

CONSTANTS
  Callers,      \* StartJob calls of the user, one job id each
  Keys,         \* idempotency keys the calls may carry
  NoKey,        \* the empty idempotency key
  NoJob,        \* no job (a failed index lookup, an unset CurrentJobID)
  MaxUserJobs   \* maxUserJobs

ASSUME NoKey \in Keys
ASSUME MaxUserJobs \in Nat \ {0}
ASSUME NoJob \notin Callers

VARIABLES
  \* --- MemoryStore ---
  jstatus,       \* jobs[id].Status, abstracted: "none" (not created), "queued", "done"
  jkey,          \* jobs[id].IdempotencyKey
  idem,          \* idempotencyToJob[user:key]
  created,       \* job_created events appended per job
  project,       \* the project's [status, current]
  \* --- Service ---
  activeRunner, runningByUser,
  launches,      \* runJob goroutines started per job (history)
  rpc,           \* runner of each job: "none", "run", "exit"
  \* --- StartJob calls ---
  spc, skey, sjob

vars == <<jstatus, jkey, idem, created, project, activeRunner, runningByUser,
          launches, rpc, spc, skey, sjob>>

Init ==
  /\ jstatus = [j \in Callers |-> "none"]
  /\ jkey = [j \in Callers |-> NoKey]
  /\ idem = [k \in Keys \ {NoKey} |-> NoJob]
  /\ created = [j \in Callers |-> 0]
  /\ project = [status |-> "draft", current |-> NoJob]
  /\ activeRunner = [j \in Callers |-> FALSE]
  /\ runningByUser = 0
  /\ launches = [j \in Callers |-> 0]
  /\ rpc = [j \in Callers |-> "none"]
  /\ spc = [c \in Callers |-> "idle"]
  /\ skey = [c \in Callers |-> NoKey]
  /\ sjob = [c \in Callers |-> NoJob]

\* The job a key maps to in the idempotency index (NoJob for the empty key).
Indexed(k) == IF k = NoKey THEN NoJob ELSE idem[k]

Goto(c, pc) == spc' = [spc EXCEPT ![c] = pc]

-----------------------------------------------------------------------------
(* StartJob(c) *)

\* GetJobByIdempotency: a hit returns the existing job at once.  GetProject
\* and the ownership check read only.
Lookup(c) ==
  /\ spc[c] = "idle"
  /\ \E k \in Keys :
       /\ skey' = [skey EXCEPT ![c] = k]
       /\ Goto(c, IF Indexed(k) # NoJob THEN "done" ELSE "admit")
  /\ UNCHANGED <<jstatus, jkey, idem, created, project, activeRunner,
                 runningByUser, launches, rpc, sjob>>

\* Under s.mu: refuse when the user already has maxUserJobs running.
Admit(c) ==
  /\ spc[c] = "admit"
  /\ Goto(c, IF runningByUser >= MaxUserJobs THEN "done" ELSE "create")
  /\ UNCHANGED <<jstatus, jkey, idem, created, project, activeRunner,
                 runningByUser, launches, rpc, skey, sjob>>

\* MemoryStore.CreateJob: an indexed key returns the existing job unchanged;
\* otherwise index the key and insert the job, its tasks and an empty log.
CreateJob(c) ==
  LET k == skey[c]
  IN /\ spc[c] = "create"
     /\ IF Indexed(k) # NoJob
          THEN /\ sjob' = [sjob EXCEPT ![c] = Indexed(k)]
               /\ UNCHANGED <<jstatus, jkey, idem>>
          ELSE /\ sjob' = [sjob EXCEPT ![c] = c]
               /\ jstatus' = [jstatus EXCEPT ![c] = "queued"]
               /\ jkey' = [jkey EXCEPT ![c] = k]
               /\ idem' = IF k = NoKey THEN idem ELSE [idem EXCEPT ![k] = c]
     /\ Goto(c, "publish")
     /\ UNCHANGED <<created, project, activeRunner, runningByUser, launches, rpc, skey>>

\* UpdateProject(current job, status running), publish job_created.
Publish(c) ==
  /\ spc[c] = "publish"
  /\ project' = [status |-> "running", current |-> sjob[c]]
  /\ created' = [created EXCEPT ![sjob[c]] = @ + 1]
  /\ Goto(c, "start")
  /\ UNCHANGED <<jstatus, jkey, idem, activeRunner, runningByUser, launches, rpc, skey, sjob>>

\* startRunnerIfNeeded(created): a no-op while a runner is active for the
\* job; otherwise mark it active, count it for the user and go runJob.
StartRunner(c) ==
  LET j == sjob[c]
  IN /\ spc[c] = "start"
     /\ IF activeRunner[j]
          THEN UNCHANGED <<activeRunner, runningByUser, launches, rpc>>
          ELSE /\ activeRunner' = [activeRunner EXCEPT ![j] = TRUE]
               /\ runningByUser' = runningByUser + 1
               /\ launches' = [launches EXCEPT ![j] = @ + 1]
               /\ rpc' = [rpc EXCEPT ![j] = "run"]
     /\ Goto(c, "done")
     /\ UNCHANGED <<jstatus, jkey, idem, created, project, skey, sjob>>

-----------------------------------------------------------------------------
(* runJob(j), abstracted *)

\* The loop runs the job to a terminal status, and finalizeJob stores it
\* and the project's status; a runner that finds the job terminal at the
\* top of its loop exits at once.
RunnerRun(j) ==
  /\ rpc[j] = "run"
  /\ IF jstatus[j] = "queued"
       THEN /\ jstatus' = [jstatus EXCEPT ![j] = "done"]
            /\ project' = [project EXCEPT !.status = "done"]
       ELSE UNCHANGED <<jstatus, project>>
  /\ rpc' = [rpc EXCEPT ![j] = "exit"]
  /\ UNCHANGED <<jkey, idem, created, activeRunner, runningByUser, launches, spc, skey, sjob>>

\* The deferred finishRunner: clear activeRunner, decrement runningByUser.
finishRunner(j) ==
  /\ rpc[j] = "exit"
  /\ activeRunner' = [activeRunner EXCEPT ![j] = FALSE]
  /\ runningByUser' = IF runningByUser > 0 THEN runningByUser - 1 ELSE runningByUser
  /\ rpc' = [rpc EXCEPT ![j] = "none"]
  /\ UNCHANGED <<jstatus, jkey, idem, created, project, launches, spc, skey, sjob>>

-----------------------------------------------------------------------------
Next ==
  \/ \E c \in Callers : Lookup(c) \/ Admit(c) \/ CreateJob(c) \/ Publish(c) \/ StartRunner(c)
  \/ \E j \in Callers : RunnerRun(j) \/ finishRunner(j)

Spec == Init /\ [][Next]_vars /\ WF_vars(Next)

-----------------------------------------------------------------------------
(* Properties *)

TypeOK ==
  /\ jstatus \in [Callers -> {"none", "queued", "done"}]
  /\ jkey \in [Callers -> Keys]
  /\ idem \in [Keys \ {NoKey} -> Callers \cup {NoJob}]
  /\ runningByUser \in Nat
  /\ spc \in [Callers -> {"idle", "admit", "create", "publish", "start", "done"}]

\* Safety, about the cap check under s.mu (service.go:79) and the increment
\* in startRunnerIfNeeded taken in a later critical section (spec 8.6: at
\* any instant running_by_user[u] <= max_user_jobs).
UserCapRespected == runningByUser <= MaxUserJobs

\* Safety, about StartJob with an idempotency key (spec 8.5 and S5: calling
\* it twice never creates a second runner): no job's runner is launched
\* twice.
NoSecondRunner == \A j \in Callers : launches[j] <= 1

\* Safety, about CreateJob re-checking the index under the store lock:
\* at most one job is persisted per (user, idempotency key).
OneJobPerKey ==
  \A i, j \in Callers :
    (i # j /\ jstatus[i] # "none" /\ jstatus[j] # "none" /\ jkey[i] # NoKey)
      => jkey[i] # jkey[j]

=============================================================================
