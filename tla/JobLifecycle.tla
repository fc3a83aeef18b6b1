---------------------------- MODULE JobLifecycle -----------------------------
(***************************************************************************)
(* What the job engine promises about one job and its tasks (spec.md 3,    *)
(* 4.5.2, 4.5.4, 4.5.6), with no goroutines, copies or semaphores: the     *)
(* job goes queued -> running -> exactly one terminal status; a task goes  *)
(* queued -> running -> succeeded | failed | canceled, starts only once    *)
(* its dependencies have succeeded, and has no back-edge except through    *)
(* RetryJob, which first resets the non-succeeded tasks and then requeues  *)
(* the failed or canceled job.  The cancel flag is not part of the state:  *)
(* it only widens the terminal outcomes a finalization may pick.           *)
(***************************************************************************)
EXTENDS JobGraph

VARIABLES status, tstatus

vars == <<status, tstatus>>

Terminal == {"succeeded", "failed", "canceled"}

Init ==
  /\ status = "queued"
  /\ tstatus = [k \in TaskKeys |-> "queued"]

\* The runner's first iteration flips the job to running.
Start ==
  /\ status = "queued"
  /\ status' = "running"
  /\ UNCHANGED tstatus

\* A task of a running job starts once every task it depends on succeeded.
TaskStart(k) ==
  /\ status = "running"
  /\ tstatus[k] = "queued"
  /\ \A d \in DependsOn(k) : tstatus[d] = "succeeded"
  /\ tstatus' = [tstatus EXCEPT ![k] = "running"]
  /\ UNCHANGED status

\* A running task ends in one terminal status.
TaskEnd(k) ==
  /\ status = "running"
  /\ tstatus[k] = "running"
  /\ \E s \in Terminal : tstatus' = [tstatus EXCEPT ![k] = s]
  /\ UNCHANGED status

\* Cancellation turns every still-queued task canceled in one step.
CancelQueued ==
  /\ status = "running"
  /\ \E k \in TaskKeys : tstatus[k] = "queued"
  /\ tstatus' = [k \in TaskKeys |-> IF tstatus[k] = "queued" THEN "canceled" ELSE tstatus[k]]
  /\ UNCHANGED status

\* 4.5.4: failed if a task failed; else canceled if a task was canceled;
\* else succeeded, or canceled when cancellation was requested.
Outcomes ==
  IF \E k \in TaskKeys : tstatus[k] = "failed" THEN {"failed"}
  ELSE IF \E k \in TaskKeys : tstatus[k] = "canceled" THEN {"canceled"}
  ELSE {"succeeded", "canceled"}

Finalize ==
  /\ status = "running"
  /\ \A k \in TaskKeys : tstatus[k] \in Terminal
  /\ status' \in Outcomes
  /\ UNCHANGED tstatus

\* RetryJob on a failed or canceled job: non-succeeded tasks back to queued ...
ResetTasks ==
  /\ status \in {"failed", "canceled"}
  /\ tstatus' = [k \in TaskKeys |-> IF tstatus[k] = "succeeded" THEN "succeeded" ELSE "queued"]
  /\ UNCHANGED status

\* ... and then the job back to queued.
Requeue ==
  /\ status \in {"failed", "canceled"}
  /\ \A k \in TaskKeys : tstatus[k] \in {"queued", "succeeded"}
  /\ status' = "queued"
  /\ UNCHANGED tstatus

Next ==
  \/ Start \/ CancelQueued \/ Finalize \/ ResetTasks \/ Requeue
  \/ \E k \in TaskKeys : TaskStart(k) \/ TaskEnd(k)

\* Only safety is promised here: the job may wait for ever (queued with no
\* runner, or a dependency that failed), which JobRunner's runs show.
Spec == Init /\ [][Next]_vars

=============================================================================
