SPECIFICATION Spec
CONSTANTS
  Step = 8
  NumSizes = 4
  BlocksInChunk = 2
  MinAllocation = 25
  HeapStart = 32
  HeapEnd = 119
  Sizes <- MCSizes
  IntMax = 2147483647
INVARIANTS
  TypeOK
  EveryBlockOnce
  SpaceFollowsPeak
PROPERTY StoreSpec
\* Every block may be in use, and no room left for another chunk.
CHECK_DEADLOCK FALSE
