SPECIFICATION Spec
CONSTANTS
  i1 = i1
  i2 = i2
  t1 = t1
  o1 = o1
  e1 = e1
  d1 = d1
  c1 = c1
  Imports <- TwoImports
  Tools <- None
  Oevs <- None
  Existing <- None
  Deletes <- None
  Crons <- None
  NTables = 1
  TableOf <- OneTable
INVARIANTS
  FreshRowsSurviveCleanUp
CHECK_DEADLOCK FALSE
