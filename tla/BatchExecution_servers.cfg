SPECIFICATION Spec
CONSTANTS
  r1 = r1
  r2 = r2
  t1 = t1
  t2 = t2
  d1 = d1
  d2 = d2
  s1 = s1
  s2 = s2
  Run <- TwoRuns
  Trial <- TwoTrials
  RunOf <- OneEach
  Delivery <- TwoDeliveries
  Server <- TwoServers
  RunsAtOnce = 2
  MaxFaults = 0
  Overlap = FALSE
  Outlives = FALSE
  Orphans = FALSE
PROPERTY SweepSparesLiveTrials
SYMMETRY Symmetry
