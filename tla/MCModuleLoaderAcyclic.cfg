SPECIFICATION Spec
CONSTANTS
  main = main
  a = a
  b = b
  c = c
  d = d
  Namespaces = {main, a, b, c, d}
  DepOrders <- OrdersWithoutCircles
  builtin = builtin
  data_start = 4
  DataSize <- MCDataSize
  FnTableSize <- MCFnTableSize
  page_size = 16
  initial_page_count = 2
  max_page_count = 5
  Sizes = {}
  MaxBlocks = 2
  NONE = NONE
INVARIANT NothingMissing
CHECK_DEADLOCK FALSE
