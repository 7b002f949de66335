CONSTANTS
  Roots <- MCRoots
  Programs <- PartialPrograms
SPECIFICATION Spec
INVARIANT PartialsHeld
CHECK_DEADLOCK FALSE
