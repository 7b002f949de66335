SPECIFICATION Spec
CONSTANTS
  MAX_FN_PARAMS = 4
  MaxForms = 3
  MaxPartials = 2
  Params <- MCParams
  NIL = NIL
  NONE = NONE
INVARIANTS
  OverloadRules
  LambdaByArity
  CompiledCallsAgree
CHECK_DEADLOCK FALSE
