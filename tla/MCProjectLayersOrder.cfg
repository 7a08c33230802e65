SPECIFICATION Spec
CONSTANTS
  Requests = {r1, r2}
  Layers = {a, b}
  MaxLayers = 4
  MaxLinks = 3
INVARIANTS
  AddedLayersAreInOrder
SYMMETRY Symmetry
CHECK_DEADLOCK FALSE
