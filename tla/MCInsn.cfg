SPECIFICATION InsnSpec
CONSTANTS
  XLEN = 4
  ByteMod = 2
  BitAnd <- MCAnd
  BitOr <- MCOr
  BitXor <- MCXor
  Regs <- MCRegs
  Funct7s <- MCFunct7s
  Imms <- MCImms
INVARIANTS
  DecodesWhatWasAssembled
  PrintsWhatRuns
  OperationsAgree
