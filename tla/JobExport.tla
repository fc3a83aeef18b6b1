----------------------------- MODULE JobExport -------------------------------
(***************************************************************************)
(* An export of the project whose job JobRunner runs (api/handlers_assets_ *)
(* exports.go): createExport stores the export queued and starts the       *)
(* resolveExport goroutine, which marks it running and then polls          *)
(* ListAssets for the project's final video every 500 ms until a 30 s      *)
(* deadline.  The final video is the asset of compose_video, created in    *)
(* WorkerSuccWrite; RetryJob never resets a succeeded task, so once the    *)
(* compose task has succeeded the asset exists for good.  The project has  *)
(* no final video from an earlier job.  The deadline is a number of polls. *)
(***************************************************************************)
EXTENDS JobRunnerLifecycle

CONSTANT ExportPolls   \* polls before the deadline (60 in the code)

ASSUME ExportPolls \in Nat \ {0}

VARIABLES
  estatus,   \* exports[id].Status: "none" (not created), queued, running, succeeded, failed
  epc,       \* the export's request and resolveExport goroutine: idle, get, poll, done
  eleft      \* polls left before the deadline

exportVars == <<estatus, epc, eleft>>

ExportInit ==
  /\ estatus = "none"
  /\ epc = "idle"
  /\ eleft = 0

\* ListAssets(user, project, final_video, 1, 1) is not empty.
FinalVideoListed == tasks[ComposeKey].status = "succeeded"

\* createExport: the project is the caller's; CreateExport(queued); go
\* resolveExport.
CreateExport ==
  /\ epc = "idle"
  /\ estatus' = "queued"
  /\ epc' = "get"
  /\ UNCHANGED eleft

\* resolveExport: GetExport, then UpdateExport(running); the deadline is set.
ExportStart ==
  /\ epc = "get"
  /\ estatus' = "running"
  /\ eleft' = ExportPolls
  /\ epc' = "poll"

\* Mutant of ExportPoll: the loop has no deadline and polls until a final
\* video is listed.
ExportPollNoDeadline ==
  /\ epc = "poll"
  /\ FinalVideoListed
  /\ estatus' = "succeeded" /\ epc' = "done" /\ UNCHANGED eleft

\* One turn of the loop: a listed final video makes the export succeeded;
\* otherwise sleep 500 ms, and at the deadline UpdateExport(failed).
ExportPoll ==
  /\ epc = "poll"
  /\ \/ /\ FinalVideoListed
        /\ estatus' = "succeeded" /\ epc' = "done" /\ UNCHANGED eleft
     \/ /\ ~FinalVideoListed
        /\ eleft' = eleft - 1
        /\ IF eleft = 1 THEN estatus' = "failed" /\ epc' = "done"
                        ELSE UNCHANGED <<estatus, epc>>

ExportStep == ExportStart \/ ExportPoll

NextWithExport ==
  \/ Next /\ UNCHANGED exportVars
  \/ (CreateExport \/ ExportStep) /\ UNCHANGED vars

\* The resolveExport goroutine is scheduled and its sleeps end; nobody is
\* obliged to request an export.
SpecWithExport ==
  /\ Init /\ ExportInit
  /\ [][NextWithExport]_<<vars, exportVars>>
  /\ Fairness
  /\ WF_<<vars, exportVars>>(ExportStep /\ UNCHANGED vars)

-----------------------------------------------------------------------------
\* Liveness, about resolveExport's deadline loop (handlers_assets_exports.go:
\* 116-131) polling for an asset that a job may never produce (a task failed,
\* the job hangs or is canceled): a created export does not stay queued or
\* running for ever; it ends succeeded or failed.
ExportSettles ==
  (estatus \in {"queued", "running"}) ~> (estatus \in {"succeeded", "failed"})

=============================================================================
