SPECIFICATION FairSpec
CONSTANTS
  StatusFirst = TRUE
  Pieces = 3
  Timeout = 4
  MaxTurns = 3
  MaxFaults = 4
INVARIANTS
  TypeOK
  ResultIsRead
  PiecesAreHeardOnce
  BudgetIsTheAgents
PROPERTY TrialConcludes
CHECK_DEADLOCK FALSE
