SPECIFICATION Spec
CONSTANTS
  Updates = {u1, u2}
  Imports = {i1}
  Deletes = {d1}
  Existing = {e1}
  Links = {l1}
  UserNames <- TheName
INVARIANTS
  TypeOK
  LinksAreCarriedOver
  ShownLayersHaveRows
  NameIsKept
SYMMETRY Symmetry
CHECK_DEADLOCK FALSE
