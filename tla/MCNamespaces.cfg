SPECIFICATION Spec
CONSTANTS
  Names = {main, lib}
  Main = main
  User = user
  Symbols = {x}
  Aliases = {k}
  Forms = 5
  NONE = NONE
INVARIANTS
  TypeOK
  CurrentIsHome
  NoFileInsideItself
  ErrorsSurface
CHECK_DEADLOCK FALSE
