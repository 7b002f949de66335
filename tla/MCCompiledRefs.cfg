CONSTANTS
  Roots <- MCRoots
  Programs <- MCPrograms
SPECIFICATION Spec
INVARIANTS
  NothingDangles
  Balanced
  LocalsWrittenOnce
CHECK_DEADLOCK FALSE
