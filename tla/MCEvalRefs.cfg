CONSTANT
  Forms <- MCForms
SPECIFICATION Spec
INVARIANTS
  NothingDangles
  CountsExact
PROPERTY
  ListsNeverChange
CHECK_DEADLOCK FALSE
