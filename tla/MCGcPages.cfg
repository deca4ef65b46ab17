SPECIFICATION FairSpec
CONSTANTS
  NPages = 3
  UNITS = 1
  SmallBins = {"B_16"}
  notbinsize <- MCMask
  MaxBig = 2
  r1 = r1
  RangeIds = {}
  MaxStack = 2
  Uses = {"realloc"}
  Junk <- NoJunk
  Null = Null
INVARIANTS
  BigBlocksWhole
  SweptClean
PROPERTIES
  CollectionEnds
  MallocReturns
CHECK_DEADLOCK FALSE
