SPECIFICATION Spec
CONSTANTS
  lib = lib
  main = main
  num = num
  str = str
  Namespaces <- MCNamespaces
  Texts <- MCTexts
  Strings <- MCStrings
  DataOffset <- MCDataOffset
  FnTableOffset <- MCFnTableOffset
  SysPtr = 5
  MaxDefs = 3
  MaxElems = 2
  NONE = NONE
INVARIANTS
  PlainValuesLoaded
  FunctionsLink
CHECK_DEADLOCK FALSE
