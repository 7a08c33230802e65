SPECIFICATION Spec
CONSTANTS
  i1 = i1
  i2 = i2
  t1 = t1
  o1 = o1
  e1 = e1
  d1 = d1
  c1 = c1
  Imports <- None
  Tools <- OneTool
  Oevs <- None
  Existing <- OneExisting
  Deletes <- OneDelete
  Crons <- OneCron
  NTables = 1
  TableOf <- OneTable
INVARIANTS
  OnlyExposedRowsAreSwept
  FailedJobLeavesNothing
CHECK_DEADLOCK FALSE
