SPECIFICATION FairSpec
CONSTANTS
  NPages = 4
  PageWords = 16
  Byte = {0, 1, 2, 3}
  Zero = 0
  NULL = NULL
  TableSize = 4
  BitAnd <- MCAnd
  BitOr <- MCOr
  BitXor <- MCXor
  XLEN = 8
  Reg = {0, 1, 2, 3, 5, 10, 11, 12, 13, 14, 17}
  ByteMod = 4
  UpperShift = 4
  Decode <- MCDecode
  Images <- FreePrograms
  Start = 0
  Input <- FreeInput
  MaxInsns = 8
  BufSize = 7
  TextLen = 3
  MarkLen = 2
  FirstLengths = {0}
PROPERTY LogShowsAddress
\* The machine stops, exits or crashes, or reaches the bound.
CHECK_DEADLOCK FALSE
