---------------------------- MODULE MCLocalBatch ----------------------------
(* Two trials on one machine; one server or two sweep.                     *)
EXTENDS LocalBatch

CONSTANTS t1, t2, s1, s2

MCTrial == {t1, t2}
OneServer == {s1}
TwoServers == {s1, s2}
=============================================================================
