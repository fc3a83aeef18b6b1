\* Two overlapping RetryJob calls (a double-submitted retry), a provider
\* that may fail fatally.
CONSTANTS
  Scenes = 1
  MaxAttempt = 3
  MaxConcurrent = 20
  MaxSceneJobs = 6
  MaxUserJobs = 2
  ProviderErrors = {"fatal"}
  c1 = c1
  c2 = c2
  Clients <- MCClients
  ClientOps = {"retry"}
  MaxCalls = 2
SPECIFICATION Spec
INVARIANT SucceededMeansAllTasksSucceeded
CHECK_DEADLOCK FALSE
