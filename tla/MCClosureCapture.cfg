SPECIFICATION Spec
CONSTANTS
  Names = {x, y}
  Uses = {"value"}
  MaxDepth = 3
  MaxVariables = 3
  MaxCaptured = 3
  NONE = NONE
INVARIANTS
  FirstLoadsRight
  AllTracked
PROPERTY HandedDown
SYMMETRY Symmetry
