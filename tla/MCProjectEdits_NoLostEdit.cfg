CONSTANTS
  c1 = c1
  c2 = c2
  n1 = n1
  n2 = n2
  NoJob = NoJob
  Calls <- MCCalls
  Names <- MCNames
  MaxScenes = 2
SPECIFICATION Spec
INVARIANT TypeOK
INVARIANT NoLostEdit
CHECK_DEADLOCK FALSE
