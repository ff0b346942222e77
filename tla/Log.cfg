SPECIFICATION Spec
CONSTANTS
  Size = 8
  Lens <- MCLens
  ErrLens <- MCErrLens
  Codes = {1, 99}
  Abort = 99
  NoCode = NoCode
  MaxDepth = 3
INVARIANTS
  TypeOK
  LastWords
  TextFits
PROPERTIES
  FatalStays
CHECK_DEADLOCK FALSE
