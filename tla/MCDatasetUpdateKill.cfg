SPECIFICATION Spec
CONSTANTS
  Updates = {u1}
  Imports = {}
  Deletes = {d1}
  Existing = {e1}
  Links = {l1}
  UserNames = {}
INVARIANT
  KilledUpdateLeavesNothing
CHECK_DEADLOCK FALSE
