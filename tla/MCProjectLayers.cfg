SPECIFICATION Spec
CONSTANTS
  Requests = {r1, r2}
  Layers = {a, b}
  MaxLayers = 4
  MaxLinks = 3
INVARIANTS
  TypeOK
  OrderNamesEveryLink
PROPERTIES
  StepsKeepOrder
SYMMETRY Symmetry
CONSTRAINT Claimed
CHECK_DEADLOCK FALSE
