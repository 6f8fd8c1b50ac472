----------------------------- MODULE MCJournal -----------------------------
(***************************************************************************)
(* Two servers sweep, one reader reads, one trial is opened twice.         *)
(***************************************************************************)
EXTENDS Journal

CONSTANTS s1, s2, r1

MCServer == {s1, s2}
MCReader == {r1}
=============================================================================
