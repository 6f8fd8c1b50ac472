SPECIFICATION Spec
CONSTANTS
  a1 = a1
  a2 = a2
  b1 = b1
  b2 = b2
  s1 = s1
  s2 = s2
  Attempt <- TwoAttempts
  Sandbox <- TwoSandboxes
  Server <- OneServer
  NoSandbox = NoSandbox
  Outlives = FALSE
INVARIANT LeftIsFound
SYMMETRY Symmetry
CHECK_DEADLOCK FALSE
