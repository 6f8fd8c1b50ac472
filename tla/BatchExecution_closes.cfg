SPECIFICATION FairSpec
CONSTANTS
  r1 = r1
  r2 = r2
  t1 = t1
  t2 = t2
  d1 = d1
  d2 = d2
  s1 = s1
  s2 = s2
  Run <- OneRun
  Trial <- TwoTrials
  RunOf <- BothInOne
  Delivery <- TwoDeliveries
  Server <- OneServer
  RunsAtOnce = 1
  MaxFaults = 1
  Overlap = FALSE
  Outlives = FALSE
  Orphans = TRUE
PROPERTY RunStatusFinal
PROPERTY EverythingCloses
