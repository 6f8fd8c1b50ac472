------------------------- MODULE MCBatchExecution -------------------------
(* Two runs of one trial each, or one run of two, for TLC.                 *)
EXTENDS BatchExecution, TLC

CONSTANTS r1, r2, t1, t2, d1, d2, s1, s2

TwoRuns == {r1, r2}
OneRun == {r1}
TwoTrials == {t1, t2}
OneEach == t1 :> r1 @@ t2 :> r2
BothInOne == t1 :> r1 @@ t2 :> r1
TwoDeliveries == {d1, d2}
OneServer == {s1}
TwoServers == {s1, s2}

(* A run is swapped with its trial.  For two servers.                      *)
Swap == r1 :> r2 @@ r2 :> r1 @@ t1 :> t2 @@ t2 :> t1
Keep == r1 :> r1 @@ r2 :> r2 @@ t1 :> t1 @@ t2 :> t2
Symmetry ==
  {s @@ p @@ q : s \in {Swap, Keep}, p \in Permutations(TwoDeliveries),
                 q \in Permutations(TwoServers)}
===========================================================================
