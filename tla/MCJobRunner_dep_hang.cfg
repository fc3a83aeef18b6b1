\* Goroutines serialised by semaphores of size 1 (no two task updates
\* overlap); the provider may fail fatally; no API calls.
CONSTANTS
  Scenes = 1
  MaxAttempt = 3
  MaxConcurrent = 1
  MaxSceneJobs = 1
  MaxUserJobs = 2
  ProviderErrors = {"fatal"}
  c1 = c1
  c2 = c2
  Clients <- MCOneClient
  ClientOps = {}
  MaxCalls = 0
SPECIFICATION Spec
PROPERTY JobEventuallyTerminal
CHECK_DEADLOCK FALSE
