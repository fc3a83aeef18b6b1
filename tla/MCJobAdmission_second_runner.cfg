\* Two StartJob calls of one user that may carry the same key k1, with the
\* default cap of two running jobs (spec S5: two concurrent StartJob calls
\* with key k1).
CONSTANTS
  a1 = a1
  a2 = a2
  a3 = a3
  k1 = k1
  none = none
  Callers <- MCTwoCalls
  Keys <- MCKeys
  NoKey = none
  nojob = nojob
  NoJob = nojob
  MaxUserJobs = 2
SPECIFICATION Spec
INVARIANT NoSecondRunner
CHECK_DEADLOCK FALSE
