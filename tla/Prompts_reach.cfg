SPECIFICATION FairSpec
CONSTANTS
  w1 = w1
  w2 = w2
  c1 = c1
  Writer <- TwoWriters
  Client <- OneClient
  Key = {"default"}
  MaxVersions = 3
  MaxFaults = 2
INVARIANTS
  StaleIsExcused
  MovesStartOnce
  SavesGetTheirOwnNumber
  ServedWasPublished
PROPERTY PublishReachesClients
CHECK_DEADLOCK FALSE
