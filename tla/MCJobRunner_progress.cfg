\* One client that may cancel or retry, sems 20/6: a job copy written back
\* late by CancelJob or updateProgress lowers the stored progress.
CONSTANTS
  Scenes = 1
  MaxAttempt = 3
  MaxConcurrent = 20
  MaxSceneJobs = 6
  MaxUserJobs = 2
  ProviderErrors = {"fatal"}
  c1 = c1
  c2 = c2
  Clients <- MCOneClient
  ClientOps = {"cancel", "retry"}
  MaxCalls = 3
SPECIFICATION Spec
CHECK_DEADLOCK FALSE
PROPERTY ProgressNeverRegresses
