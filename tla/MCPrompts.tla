----------------------------- MODULE MCPrompts -----------------------------
(* Two requests change the prompt while one client asks for it.            *)
EXTENDS Prompts

CONSTANTS w1, w2, c1

TwoWriters == {w1, w2}
OneClient == {c1}
=============================================================================
