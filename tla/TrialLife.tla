----------------------------- MODULE TrialLife -----------------------------
(***************************************************************************)
(* What becomes of a trial, for whoever waits for its verdict.  A worker   *)
(* opens it, and while it is at work the trial is nobody else's; only that *)
(* worker concludes it.  A worker may be lost, or lose the trial, without  *)
(* a word: then the trial is voided, or found running with nobody at work, *)
(* or opened again.  A verdict is the last word until the trial is opened  *)
(* again.                                                                  *)
(*                                                                         *)
(* Who has found a trial voids it later, whatever has become of it: while  *)
(* it is in his hands the promise is off.  No trial gets there that has a  *)
(* worker or is over, so one that was out of his hands when it was opened  *)
(* stays out of them.                                                      *)
(*                                                                         *)
(* Who the workers are, what they do about a statement that failed, and    *)
(* who voids, is not to be seen from here.  A hosted batch, a batch on a   *)
(* developer's machine, the ledger of sandboxes and the journal each have  *)
(* workers of their own and keep to this.                                  *)
(***************************************************************************)
CONSTANTS Trial, Worker, Verdict

VARIABLES
  row,     \* the status of each trial
  owners,  \* who is at work on it
  doomed   \* the trials that somebody has found and not voided yet

vars == <<row, owners, doomed>>

Init ==
  /\ row = [t \in Trial |-> "absent"]
  /\ owners = [t \in Trial |-> {}]
  /\ doomed = {}

(* By a worker, or by one that is lost before it hears that it has.        *)
Open(t) ==
  /\ owners[t] = {}
  /\ row' = [row EXCEPT ![t] = "running"]
  /\ \/ \E w \in Worker : owners' = [owners EXCEPT ![t] = {w}]
     \/ UNCHANGED owners
  /\ UNCHANGED doomed

Conclude(t) ==
  /\ owners[t] # {}
  /\ \E v \in Verdict : row' = [row EXCEPT ![t] = v]
  /\ owners' = [owners EXCEPT ![t] = {}]
  /\ UNCHANGED doomed

Lose(T) ==
  /\ owners' = [t \in Trial |-> IF t \in T THEN {} ELSE owners[t]]
  /\ UNCHANGED <<row, doomed>>

(* Trials that are running with nobody at work are found, and others are   *)
(* let off.                                                                *)
Find(T) ==
  /\ \A t \in T \ doomed : owners[t] = {} /\ row[t] = "running"
  /\ doomed' = T
  /\ UNCHANGED <<row, owners>>

(* Trials nobody works on, without a verdict, or that were found before,   *)
(* of which some may still be in the hands of another.                     *)
Void(T) ==
  /\ \A t \in T \ doomed : owners[t] = {} /\ row[t] \in {"absent", "running"}
  /\ row' = [t \in Trial |-> IF t \in T THEN "void" ELSE row[t]]
  /\ doomed' \in SUBSET doomed
  /\ UNCHANGED owners

Next ==
  \/ \E T \in SUBSET Trial : Lose(T) \/ Find(T) \/ Void(T)
  \/ \E t \in Trial : Open(t) \/ Conclude(t)

Spec == Init /\ [][Next]_vars

---------------------------------------------------------------------------
TypeOK ==
  /\ row \in [Trial -> {"absent", "running", "void"} \cup Verdict]
  /\ owners \in [Trial -> SUBSET Worker]
  /\ doomed \in SUBSET Trial

(* A trial has one worker at most.                                         *)
OneWorker == \A t \in Trial : \A v, w \in owners[t] : v = w

(* And where none is ever found, it is running while it has one.           *)
RunsAtWork == \A t \in Trial : owners[t] # {} => row[t] = "running"

(* A trial at work that nobody has found is left to its worker, running,   *)
(* and nobody finds it, until the worker concludes it or is lost.          *)
LeftAlone ==
  [][\A t \in Trial :
       owners[t] # {} /\ row[t] = "running" /\ t \notin doomed =>
         /\ t \notin doomed'
         /\ owners'[t] = {} \/ (owners'[t] = owners[t] /\ row'[t] = "running")]_vars

(* A trial that is over, without a worker and found by nobody, changes only
   by being opened again; and a verdict that is not a void is one that a
   worker reached.                                                         *)
LastWord ==
  [][\A t \in Trial :
       /\ row[t] \notin {"absent", "running"} /\ owners[t] = {} /\ t \notin doomed =>
            row'[t] \in {row[t], "running"} /\ t \notin doomed'
       /\ row'[t] \notin {row[t], "running", "void"} => owners[t] # {}]_vars
===========================================================================
