----------------------------- MODULE EvalRows -----------------------------
(***************************************************************************)
(* The rows of an eval in Postgres, and what each statement of the store   *)
(* does to one of them.  A statement that carries a status in its WHERE is *)
(* an operator that leaves a row in any other status alone; a statement    *)
(* that does not is an operator that ignores the status.  The modules that *)
(* follow differ in who issues the statements and in which order.          *)
(*                                                                         *)
(* A trial is "scored" when its status is one of passed, failed, vacuous:  *)
(* nothing in the store tells these apart.  The text of a failure is       *)
(* reduced to whether there is one.                                        *)
(***************************************************************************)

BatchStatus == {"running", "finished", "failed"}

RunStatus == {"running", "finished", "failed"}

(* "absent": the trial has no row.                                         *)
TrialStatus == {"absent", "running", "scored", "void"}

TrialRow == [status : TrialStatus, failure : BOOLEAN]

NoTrial == [status |-> "absent", failure |-> FALSE]

Settled(row) == row.status \in {"scored", "void"}

---------------------------------------------------------------------------
(* Statements on a trial.                                                  *)

(* Mutant: the upsert does not set failure.                                *)
OpenedKeepingFailure(row) == [row EXCEPT !.status = "running"]

(* TrialRecorder.open: the upsert on (run, ordinal).                       *)
Opened(row) == [status |-> "running", failure |-> FALSE]

(* TrialRecorder.settle: no status in its WHERE, and failure is not among  *)
(* the columns it sets.                                                    *)
SettledAs(row, verdict) == [row EXCEPT !.status = verdict]

(* Mutant: abandon has no status in its WHERE.                             *)
AbandonedAnyway(row) == [status |-> "void", failure |-> TRUE]

(* TrialRecorder.abandon: only a running trial.                            *)
Abandoned(row) ==
  IF row.status = "running" THEN [status |-> "void", failure |-> TRUE] ELSE row

(* AbandonedWork.voidTrialsRunningSince: the UPDATE names the trial only   *)
(* by its id; the status was looked at by an earlier SELECT.               *)
Swept(row) == [status |-> "void", failure |-> TRUE]

(* voidUnreported: INSERT ... ON CONFLICT DO NOTHING.                      *)
Unreported(row) ==
  IF row.status = "absent" THEN [status |-> "void", failure |-> TRUE] ELSE row

---------------------------------------------------------------------------
(* Statements on a run and on a batch.                                     *)

(* Mutant: settleRun has no status in its WHERE.                           *)
RunClosedAnyway(row, as) == as

(* BatchRepository.settleRun, the sweep's failRunsSince and the last       *)
(* statement of settleOpenRuns: only a running run.                        *)
RunClosed(row, as) == IF row = "running" THEN as ELSE row

(* BatchRepository.finish and the sweep's failBatchesSince: only a running *)
(* batch.                                                                  *)
BatchClosed(row, as) == IF row = "running" THEN as ELSE row

(* Mutant: only a failed batch is reopened.                                *)
ReopenedIfFailed(row) == IF row = "failed" THEN "running" ELSE row

(* BatchRepository.reopen: whatever the batch was.                         *)
Reopened(row) == "running"
===========================================================================
