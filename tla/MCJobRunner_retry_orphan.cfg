\* One RetryJob call, a provider that may fail fatally.
CONSTANTS
  Scenes = 1
  MaxAttempt = 3
  MaxConcurrent = 20
  MaxSceneJobs = 6
  MaxUserJobs = 2
  ProviderErrors = {"fatal"}
  c1 = c1
  c2 = c2
  Clients <- MCOneClient
  ClientOps = {"retry"}
  MaxCalls = 1
SPECIFICATION Spec
INVARIANT NonTerminalJobHasRunner
CHECK_DEADLOCK FALSE
