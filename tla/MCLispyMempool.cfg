SPECIFICATION Spec
CONSTANTS
  ObjectTypes = {"LVAL"}
  Sizes = {40, 100}
  MessageSize = 56
  InitialCount <- MCInitialCount
  MaxTotal = 4
  StackLimit = 6
  NULL = NULL
INVARIANTS
  CountsAgree
PROPERTIES
  GrowsOnlyWhenFull
  AllocReturns
CHECK_DEADLOCK FALSE
