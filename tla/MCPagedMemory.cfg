\* Paged memory against the flat byte array it promises.
SPECIFICATION Spec
CONSTANTS
  NPages = 2
  PageWords = 2
  Byte = {0, 1}
  Zero = 0
  NULL = NULL
  Accessed <- MCAccessed
  Data <- MCData
INVARIANT TypeOK
PROPERTY FlatSpec
\* The process exits, crashes or is done with its memory.
CHECK_DEADLOCK FALSE
