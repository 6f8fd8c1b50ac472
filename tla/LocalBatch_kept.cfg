SPECIFICATION FairSpec
CONSTANTS
  t1 = t1
  t2 = t2
  s1 = s1
  s2 = s2
  Trial <- MCTrial
  Server <- OneServer
  Tries = 2
  MaxFaults = 1
  SixHours = TRUE
INVARIANTS
  LandedReportStands
  ClosedBatchIsWhole
  FinishedBatchFinishedItsRun
PROPERTIES
  ReportsImplementTrialLife
  CheckedInIsSpared
  GoneMachineIsClosed
  ClosedStopsMachine
CHECK_DEADLOCK FALSE
