SPECIFICATION FairSpec
CONSTANTS
  a1 = a1
  a2 = a2
  b1 = b1
  b2 = b2
  s1 = s1
  s2 = s2
  Attempt <- TwoAttempts
  Sandbox <- TwoSandboxes
  Server <- TwoServers
  NoSandbox = NoSandbox
  Outlives = FALSE
INVARIANT ReaperSparesWork
INVARIANT Accounted
PROPERTY LedgerDrains
CHECK_DEADLOCK FALSE
