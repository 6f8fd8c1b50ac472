------------------------------ MODULE TrialLog ------------------------------
(***************************************************************************)
(* What the journal of a trial promises to whoever reads it: one log that  *)
(* only grows, and starts again from nothing when the trial is opened      *)
(* again.  Where the log is kept, and that it is moved while it is read,   *)
(* is not to be seen from here.                                            *)
(***************************************************************************)
EXTENDS Naturals, Sequences

CONSTANTS Event, Reader

(* log     what the trial has journalled since it was last opened          *)
(* asked   the readers waiting for an answer                                *)
(* floor   per reader, how many events it is to be answered at least       *)
(* answer  per reader, what it was last answered                           *)
VARIABLES log, asked, floor, answer

vars == <<log, asked, floor, answer>>

Begins(s, t) ==
  /\ Len(s) <= Len(t)
  /\ \A i \in 1..Len(s) : s[i] = t[i]

Init ==
  /\ log = <<>>
  /\ asked = {}
  /\ floor = [r \in Reader |-> 0]
  /\ answer = [r \in Reader |-> <<>>]

Record ==
  /\ log' \in Seq(Event)
  /\ Begins(log, log')
  /\ UNCHANGED <<asked, floor, answer>>

Restart ==
  /\ log' = <<>>
  /\ floor' = [r \in Reader |-> 0]
  /\ UNCHANGED <<asked, answer>>

Read(r) ==
  /\ answer' = [answer EXCEPT ![r] = log]
  /\ UNCHANGED <<log, asked, floor>>

(* A read that takes a while.                                              *)
Ask(r) ==
  /\ asked' = asked \cup {r}
  /\ floor' = [floor EXCEPT ![r] = Len(log)]
  /\ UNCHANGED <<log, answer>>

Answer(r) ==
  /\ r \in asked
  /\ asked' = asked \ {r}
  /\ \E n \in floor[r]..Len(log) : answer' = [answer EXCEPT ![r] = SubSeq(log, 1, n)]
  /\ UNCHANGED <<log, floor>>

Next == Record \/ Restart \/ \E r \in Reader : Read(r) \/ Ask(r) \/ Answer(r)

Spec == Init /\ [][Next]_vars
=============================================================================
