CONSTANTS
  window = window
  global = global
  act = act
  w = w
  proto = proto
  try = try
  exc = exc
  x = x
  y = y
  spare1 = spare1
  spare2 = spare2
  None = None
  Zeroed = Zeroed
  Undefined = Undefined
  Object <- MCObject
  Name <- MCName
  Val = {0, 1}
  Proto <- MCProto
  Base <- MCBase
  globalroot = 2
  Dcom = {window}
  Marker = {try}
  CatchScope = {exc}
  Cell <- FewCells
  Property <- Few
  slot <- OneSlot
  MaxScope = 4
  Uses = {}
SPECIFICATION Spec
SYMMETRY Spares
INVARIANTS TypeOK CacheFresh NeverFromHost
