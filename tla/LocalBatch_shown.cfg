SPECIFICATION Spec
CONSTANTS
  t1 = t1
  t2 = t2
  s1 = s1
  s2 = s2
  Trial <- MCTrial
  Server <- OneServer
  Tries = 1
  MaxFaults = 1
  SixHours = FALSE
INVARIANT NotedTrialIsSettled
CHECK_DEADLOCK FALSE
