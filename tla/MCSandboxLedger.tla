-------------------------- MODULE MCSandboxLedger --------------------------
(* Two attempts at one trial, each of which may rent a sandbox, and one server
   or two, for TLC.                                                        *)
EXTENDS SandboxLedger, TLC

CONSTANTS a1, a2, b1, b2, s1, s2

TwoAttempts == {a1, a2}
TwoSandboxes == {b1, b2}
OneServer == {s1}
TwoServers == {s1, s2}

Symmetry ==
  Permutations(TwoAttempts) \cup Permutations(TwoSandboxes) \cup Permutations(TwoServers)
===========================================================================
