\* One API caller whose calls do not overlap (three calls), provider may
\* fail fatally; one scene.
CONSTANTS
  Scenes = 1
  MaxAttempt = 3
  MaxConcurrent = 20
  MaxSceneJobs = 6
  MaxUserJobs = 2
  ProviderErrors = {"fatal"}
  c1 = c1
  c2 = c2
  Clients <- MCOneClient
  ClientOps = {"cancel", "retry"}
  MaxCalls = 3
SPECIFICATION Spec
INVARIANT NoWorkerAfterFinalize
INVARIANT SucceededMeansAllTasksSucceeded
CHECK_DEADLOCK FALSE
