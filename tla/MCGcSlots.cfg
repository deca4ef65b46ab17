SPECIFICATION Spec
CONSTANTS
  NPages = 1
  UNITS = 2
  SmallBins = {"B_16", "B_32"}
  notbinsize <- MCMask
  MaxBig = 1
  r1 = r1
  RangeIds = {r1}
  MaxStack = 2
  Uses = {"malloc_atomic", "free", "setFinalizer", "addRange", "data", "interior"}
  Junk <- SomeJunk
  Null = Null
INVARIANTS
  TypeOK
  LiveKept
  FreeListsExact
  FreeSlotsMarked
  FinalizersOfOwned
PROPERTIES
  FinalizeGarbage
CHECK_DEADLOCK FALSE
