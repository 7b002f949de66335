SPECIFICATION Spec
CONSTANTS
  Slots = {s1, s2, s3, s4}
  Roots = {r1, r2, r3}
  NULL = NULL
INVARIANTS
  CountsExact
  NoDangling
  LeaksAreCycles
PROPERTIES
  ReleaseProgresses
  ImplementsGcHeap
SYMMETRY Symmetry
