------------------------- MODULE JobRunnerLifecycle --------------------------
(***************************************************************************)
(* JobRunner implements JobLifecycle: the job's stored status and the      *)
(* stored status of each task, as the store holds them after every step,   *)
(* are a behaviour of the abstract lifecycle.  Every concrete step that    *)
(* leaves both unchanged (reads, semaphores, progress and attempt writes,  *)
(* runner bookkeeping) is a stuttering step of the abstract spec.          *)
(***************************************************************************)
EXTENDS JobRunner

Lifecycle == INSTANCE JobLifecycle
               WITH status  <- job.status,
                    tstatus <- [k \in TaskKeys |-> tasks[k].status]

\* Refinement, about the read-modify-write sequences of updateTask, the
\* runner's finalizeJob and RetryJob's reset-then-requeue (spec 3: one
\* terminal status per job, task status monotone except through RetryJob,
\* which resets only non-succeeded tasks): every behaviour of the job
\* service is a behaviour of the lifecycle.
ImplementsLifecycle == Lifecycle!Spec

=============================================================================
