SPECIFICATION Spec
CONSTANTS
  j1 = j1
  j2 = j2
  Jobs <- OneJob
  MaxParallel = 1
INVARIANT
  KilledJobNeverFinishes
CHECK_DEADLOCK FALSE
