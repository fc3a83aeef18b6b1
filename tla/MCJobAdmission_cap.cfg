\* Two StartJob calls of one user with a cap of one running job
\* (STV_MAX_USER_JOBS=1); each call may carry key k1 or none.
CONSTANTS
  a1 = a1
  a2 = a2
  a3 = a3
  k1 = k1
  none = none
  Callers <- MCTwoCalls
  Keys <- MCKeys
  NoKey = none
  nojob = nojob
  NoJob = nojob
  MaxUserJobs = 1
SPECIFICATION Spec
INVARIANT UserCapRespected
CHECK_DEADLOCK FALSE
