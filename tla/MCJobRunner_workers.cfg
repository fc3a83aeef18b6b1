\* Both semaphores of size 1 (STV_MAX_CONCURRENT_TASKS=1,
\* STV_MAX_SCENE_WORKERS=1): the image and TTS goroutines of a wave queue on
\* them, so their updateTask calls do not overlap.  The provider may fail
\* retryably or fatally; one client retries a failed or canceled job.
CONSTANTS
  Scenes = 1
  MaxAttempt = 3
  MaxConcurrent = 1
  MaxSceneJobs = 1
  MaxUserJobs = 2
  ProviderErrors = {"retryable", "fatal"}
  c1 = c1
  c2 = c2
  Clients <- MCOneClient
  ClientOps = {"retry"}
  MaxCalls = 3
SPECIFICATION Spec
INVARIANT TypeOK
INVARIANT TotalCallsWithinBudget
PROPERTY WorkersReturn
CHECK_DEADLOCK FALSE
