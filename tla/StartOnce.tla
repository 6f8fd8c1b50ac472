----------------------------- MODULE StartOnce -----------------------------
(***************************************************************************)
(* What the start of a batch promises, in one step where the code takes    *)
(* many: an idempotency key starts at most one batch, a request is         *)
(* answered with that batch when it is the request the key was first sent  *)
(* with, and an organization is never let past its limit by a start.       *)
(*                                                                         *)
(* A batch goes by the request that started it.  Those started by          *)
(* evals.cases.run are not Limited, and a batch that was closed and then   *)
(* executed again is in `reopened': the promise does not count either.     *)
(***************************************************************************)
EXTENDS Naturals, FiniteSets

CONSTANTS Request, KeyOf, BodyOf, NoKey, Limited, Hosted, Limit

VARIABLES status, reopened, outcome, given

vars == <<status, reopened, outcome, given>>

Init ==
  /\ status = [r \in Request |-> "absent"]
  /\ reopened = {}
  /\ outcome = [r \in Request |-> "none"]
  /\ given = [r \in Request |-> r]

(* The batches of a key.                                                   *)
Holders(r) ==
  {b \in Request : KeyOf[r] # NoKey /\ KeyOf[b] = KeyOf[r] /\ status[b] # "absent"}

InFlight == {b \in Hosted : status[b] = "running"}

Counted == {b \in Hosted \cap Limited : status[b] = "running" /\ b \notin reopened}

Create(r) ==
  /\ outcome[r] = "none"
  /\ status[r] = "absent"
  /\ Holders(r) = {}
  /\ r \in Limited => Cardinality(Counted) < Limit
  /\ status' = [status EXCEPT ![r] = "running"]
  /\ UNCHANGED <<reopened, outcome, given>>

Answer(r, as, b) ==
  /\ outcome[r] = "none"
  /\ outcome' = [outcome EXCEPT ![r] = as]
  /\ given' = [given EXCEPT ![r] = b]
  /\ UNCHANGED <<status, reopened>>

Created(r) == status[r] # "absent" /\ Answer(r, "created", r)

Replayed(r) == \E b \in Holders(r) : BodyOf[b] = BodyOf[r] /\ Answer(r, "replayed", b)

Conflicts(r) == \E b \in Holders(r) : BodyOf[b] # BodyOf[r] /\ Answer(r, "conflict", r)

Busy(r) == r \in Limited /\ Cardinality(InFlight) >= Limit /\ Answer(r, "busy", r)

Errs(r) == Answer(r, "error", r)

Close(b) ==
  /\ status[b] = "running"
  /\ status' = [status EXCEPT ![b] = "closed"]
  /\ UNCHANGED <<reopened, outcome, given>>

Reopen(b) ==
  /\ b \in Hosted
  /\ status[b] = "closed"
  /\ status' = [status EXCEPT ![b] = "running"]
  /\ reopened' = reopened \cup {b}
  /\ UNCHANGED <<outcome, given>>

Next ==
  \E r \in Request :
    \/ Create(r) \/ Created(r) \/ Replayed(r) \/ Conflicts(r)
    \/ Busy(r) \/ Errs(r) \/ Close(r) \/ Reopen(r)

Spec == Init /\ [][Next]_vars
===========================================================================
