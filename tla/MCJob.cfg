SPECIFICATION Spec
CONSTANTS
  j1 = j1
  j2 = j2
  Jobs <- OneJob
  MaxParallel = 1
INVARIANTS
  TypeOK
  EndIsReported
  FinishedIsComplete
  FailureIsWithdrawn
  KillDuringStepIsHonoured
PROPERTIES
  KeepsPromise
  EventuallySettled
CHECK_DEADLOCK FALSE
