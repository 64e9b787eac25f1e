SPECIFICATION Spec
CONSTANTS
  NPages = 16
  PageWords = 8
  Byte <- MCByte
  Zero = 0
  NULL = NULL
  CommandLines <- MCCommandLines
  Chars <- MCChars
  Files <- MCFiles
  NoFile = NoFile
  ArgBase = 256
INVARIANTS
  HandsOverTheFile
  RunsOnlyWholePrograms
  ArgumentsReachGuest
  ListsText
\* The process ends.
CHECK_DEADLOCK FALSE
