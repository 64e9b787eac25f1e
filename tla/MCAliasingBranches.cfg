SPECIFICATION Spec
CONSTANTS
  TableSize = 4
  BitAnd <- MCAnd
  BitOr <- MCOr
  BitXor <- MCXor
  AddressMod = 32
  MaxBranches = 8
  Branches <- AliasingBranches
INVARIANTS
  TypeOK
  EntryMispredictions
  TotalMispredictions
  StatsAccountForTables
  HistoryMatchesNT
  OutcomeSelectsEntry
  OneMispredictionPerTarget
\* A behaviour ends at MaxBranches.
CHECK_DEADLOCK FALSE
