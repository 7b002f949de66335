CONSTANTS
  Roots <- MCRoots
  Programs <- ErrorPrograms
SPECIFICATION Spec
INVARIANT NothingDangles
CHECK_DEADLOCK FALSE
