\* The semaphore sizes of config.go (20 and 6), so image and tts of a wave
\* run their updateTask read-modify-writes concurrently; the provider
\* always succeeds.
CONSTANTS
  Scenes = 1
  MaxAttempt = 3
  MaxConcurrent = 20
  MaxSceneJobs = 6
  MaxUserJobs = 2
  ProviderErrors = {}
  c1 = c1
  c2 = c2
  Clients <- MCOneClient
  ClientOps = {}
  MaxCalls = 0
SPECIFICATION Spec
PROPERTY ImplementsLifecycle
CHECK_DEADLOCK FALSE
