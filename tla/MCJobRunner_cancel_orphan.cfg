\* One CancelJob call, a provider that only succeeds or honours the cancel.
CONSTANTS
  Scenes = 1
  MaxAttempt = 3
  MaxConcurrent = 20
  MaxSceneJobs = 6
  MaxUserJobs = 2
  ProviderErrors = {}
  c1 = c1
  c2 = c2
  Clients <- MCOneClient
  ClientOps = {"cancel"}
  MaxCalls = 1
SPECIFICATION Spec
INVARIANT NonTerminalJobHasRunner
CHECK_DEADLOCK FALSE
