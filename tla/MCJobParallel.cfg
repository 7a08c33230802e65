SPECIFICATION Spec
CONSTANTS
  j1 = j1
  j2 = j2
  Jobs <- TwoJobs
  MaxParallel = 1
INVARIANT
  ParallelLimit
CHECK_DEADLOCK FALSE
