SPECIFICATION Spec
CONSTANTS
  StatusFirst = FALSE
  Pieces = 2
  Timeout = 1
  MaxTurns = 1
  MaxFaults = 0
INVARIANT ResultIsRead
CHECK_DEADLOCK FALSE
