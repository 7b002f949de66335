SPECIFICATION Spec
CONSTANTS
  Names = {x, y, z}
  Uses = {"value"}
  MaxDepth = 3
  MaxVariables = 3
  MaxCaptured = 3
  NONE = NONE
INVARIANT LoadsRight
