SPECIFICATION Spec
CONSTANTS
  main = main
  a = a
  b = b
  c = c
  d = d
  Namespaces = {main, a, b, c}
  DepOrders <- AnyOrders
  builtin = builtin
  data_start = 4
  DataSize <- MCDataSize
  FnTableSize <- MCFnTableSize
  page_size = 16
  initial_page_count = 2
  max_page_count = 3
  Sizes = {3, 4}
  MaxBlocks = 2
  NONE = NONE
INVARIANTS
  LoadedOnce
  RangesDisjoint
  HeapInMemory
  RunsComplete
PROPERTY LoadingEnds
CHECK_DEADLOCK FALSE
