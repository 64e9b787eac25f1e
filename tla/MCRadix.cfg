SPECIFICATION RadixSpec
CONSTANTS
  Step = 8
  NumSizes = 4
  BlocksInChunk = 2
  MinAllocation = 25
  HeapStart = 8
  HeapEnd = 248
  BitPositions = {1, 2, 4}
  Numbers <- MCNumbers
  ReadMax = 2
  BatchMax = 2
  MaxNumbers = 5
  MaxFailures = 1
INVARIANTS
  RadixTypeOK
  NodesAreBlocksInUse
  WritesWhatIsTaken
PROPERTIES
  SortedSpec
  Ends
\* The program ends, or goes on writing as long as the system takes nothing.
CHECK_DEADLOCK FALSE
