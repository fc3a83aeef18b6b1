\* Default semaphore sizes, a provider that always succeeds, no API calls.
CONSTANTS
  Scenes = 1
  MaxAttempt = 3
  MaxConcurrent = 20
  MaxSceneJobs = 6
  MaxUserJobs = 2
  ProviderErrors = {}
  c1 = c1
  c2 = c2
  Clients <- MCOneClient
  ClientOps = {}
  MaxCalls = 0
SPECIFICATION Spec
PROPERTY JobEventuallyTerminal
CHECK_DEADLOCK FALSE
