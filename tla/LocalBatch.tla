----------------------------- MODULE LocalBatch -----------------------------
(***************************************************************************)
(* A batch that a developer's machine runs: the CLI works the trials,      *)
(* reports each to the server when it is over, checks in every minute and  *)
(* asks for the batch to be closed at the end.  The servers' sweep fails   *)
(* the batch of a machine that has been quiet for ten minutes.             *)
(*                                                                         *)
(* The runs of the batch open and close in the same statements, so one run *)
(* stands for all.  A request is handled to its end, or breaks off between *)
(* two statements, which is what the death of a server, an error of the    *)
(* store and a client that hangs up come to; a report is not sent again    *)
(* before the handler of the last try has ended.                           *)
(***************************************************************************)
EXTENDS EvalRows, Naturals, FiniteSets

CONSTANTS
  Trial,
  Server,         \* each sweeps
  Tries,          \* bound: how often a report is sent, two minutes in the code
  MaxFaults,      \* bound: handlers that break off, and times the machine is cut off
  SixHours        \* may the batch run for longer than six hours?

ASSUME LocalBatchAssumption ==
  /\ IsFiniteSet(Trial)
  /\ Tries \in Nat /\ MaxFaults \in Nat
  /\ SixHours \in BOOLEAN

VARIABLES
  batch, run, trial,   \* the rows
  quiet,      \* is last_seen_at ten minutes old?
  expired,    \* history: has the six hour rule closed anything?
  machine,    \* working, finishing, leaving (stopped, asks to finish), gone
  slot,       \* per trial, on the machine: todo, waiting, told, noted
  result,     \* per trial, what the machine reports of it
  tries,      \* per trial, how often that was sent
  welcome,    \* was a check-in answered in the last ten minutes?
  report,     \* per trial, where the handler of its report is
  beat,       \* the handler of a check-in: has it seen the batch running?
  finish,     \* the handler of finish
  sweep,      \* per server, its sweep of quiet batches
  faults

store == <<batch, run, trial, quiet, expired>>
cli == <<machine, slot, result, tries, welcome>>
handlers == <<report, beat, finish, sweep>>

vars == <<store, cli, handlers, faults>>

Idle == [step |-> "idle", missing |-> {}]

TypeOK ==
  /\ batch \in BatchStatus /\ run \in RunStatus
  /\ trial \in [Trial -> TrialRow]
  /\ quiet \in BOOLEAN /\ expired \in BOOLEAN
  /\ machine \in {"working", "finishing", "leaving", "gone"}
  /\ slot \in [Trial -> {"todo", "waiting", "told", "noted"}]
  /\ result \in [Trial -> {"scored", "failed"}]
  /\ tries \in [Trial -> Nat]
  /\ welcome \in BOOLEAN
  /\ report \in [Trial -> {"none", "sent", "looked", "opened", "landed", "refused", "broken"}]
  /\ \A t \in Trial : slot[t] = "todo" <=> report[t] = "none"
  /\ beat \in BOOLEAN
  /\ finish \in [step : {"idle", "looked", "read", "settled", "done"}, missing : SUBSET Trial]
  /\ sweep \in [Server -> [step : {"idle", "read"}, missing : SUBSET Trial]]
  /\ faults \in 0..MaxFaults

(* The batch is inserted, with last_seen_at, and the CLI has its id.       *)
Init ==
  /\ batch = "running" /\ run = "running"
  /\ trial = [t \in Trial |-> NoTrial]
  /\ quiet = FALSE /\ expired = FALSE
  /\ machine = "working"
  /\ slot = [t \in Trial |-> "todo"]
  /\ result = [t \in Trial |-> "failed"]
  /\ tries = [t \in Trial |-> 0]
  /\ welcome = FALSE
  /\ report = [t \in Trial |-> "none"]
  /\ beat = FALSE
  /\ finish = Idle
  /\ sweep = [s \in Server |-> Idle]
  /\ faults = 0

Breaks ==
  /\ faults < MaxFaults
  /\ faults' = faults + 1

---------------------------------------------------------------------------
(* A trial is over, and reported.                                          *)

(* onTrial: the outcome is what the machine made of the trial, scored here *)
(* standing for void as well; this is the first try, or the next when the  *)
(* last was not answered.                                                  *)
Send(t) ==
  /\ machine = "working"
  /\ \/ slot[t] = "todo" /\ \E v \in {"scored", "failed"} : result' = [result EXCEPT ![t] = v]
     \/ slot[t] = "waiting" /\ report[t] = "broken" /\ UNCHANGED result
  /\ tries[t] < Tries
  /\ slot' = [slot EXCEPT ![t] = "waiting"]
  /\ tries' = [tries EXCEPT ![t] = @ + 1]
  /\ report' = [report EXCEPT ![t] = "sent"]
  /\ UNCHANGED <<store, machine, welcome, beat, finish, sweep, faults>>

(* report: the run must be running.                                        *)
Look(t) ==
  /\ report[t] = "sent"
  /\ report' = [report EXCEPT ![t] = IF run = "running" THEN "looked" ELSE "refused"]
  /\ UNCHANGED <<store, cli, beat, finish, sweep, faults>>

(* recorder.open                                                           *)
OpenTrial(t) ==
  /\ report[t] = "looked"
  /\ trial' = [trial EXCEPT ![t] = Opened(@)]
  /\ report' = [report EXCEPT ![t] = "opened"]
  /\ UNCHANGED <<batch, run, quiet, expired, cli, beat, finish, sweep, faults>>

(* recorder.settle, or abandon when the trial failed.                      *)
Land(t) ==
  /\ report[t] = "opened"
  /\ trial' = [trial EXCEPT ![t] =
                 IF result[t] = "failed" THEN Abandoned(@) ELSE SettledAs(@, result[t])]
  /\ report' = [report EXCEPT ![t] = "landed"]
  /\ UNCHANGED <<batch, run, quiet, expired, cli, beat, finish, sweep, faults>>

(* The handler dies on the way, or its answer is lost.                     *)
ReportBreaks(t) ==
  /\ report[t] \in {"sent", "looked", "opened", "landed"}
  /\ slot[t] = "waiting"
  /\ Breaks
  /\ report' = [report EXCEPT ![t] = "broken"]
  /\ UNCHANGED <<store, cli, beat, finish, sweep>>

Told(t) ==
  /\ machine = "working"
  /\ slot[t] = "waiting"
  /\ report[t] = "landed"
  /\ slot' = [slot EXCEPT ![t] = "told"]
  /\ UNCHANGED <<store, machine, result, tries, welcome, handlers, faults>>

(* "was not recorded, so it shows as void": the run was closed, the server *)
(* answered with an error that is not tried again, or the time to try is   *)
(* up.                                                                     *)
Noted(t) ==
  /\ machine = "working"
  /\ slot[t] = "waiting"
  /\ report[t] \in {"refused", "broken"}
  /\ slot' = [slot EXCEPT ![t] = "noted"]
  /\ UNCHANGED <<store, machine, result, tries, welcome, handlers, faults>>

---------------------------------------------------------------------------
(* The end of the run on the machine.                                      *)

AllReported ==
  /\ machine = "working"
  /\ \A t \in Trial : slot[t] \in {"told", "noted"}
  /\ machine' = "finishing"
  /\ UNCHANGED <<store, slot, result, tries, welcome, handlers, faults>>

(* Ctrl+C, or a failure: the scope of the run is closed.                   *)
Stopped ==
  /\ machine = "working"
  /\ machine' = "leaving"
  /\ UNCHANGED <<store, slot, result, tries, welcome, handlers, faults>>

(* The machine crashes, or the CLI gives up on finish.                     *)
Gone ==
  /\ machine # "gone"
  /\ machine' = "gone"
  /\ UNCHANGED <<store, slot, result, tries, welcome, handlers, faults>>

(* finish looks at the batch.                                              *)
FinishLooks ==
  /\ machine \in {"finishing", "leaving"}
  /\ finish.step = "idle"
  /\ IF batch = "running"
       THEN finish' = [finish EXCEPT !.step = "looked"] /\ UNCHANGED machine
       ELSE machine' = "gone" /\ UNCHANGED finish
  /\ UNCHANGED <<store, slot, result, tries, welcome, report, beat, sweep, faults>>

(* unreportedTrials: the trials of a running run that have no row.         *)
Missing == IF run = "running" THEN {t \in Trial : trial[t].status = "absent"} ELSE {}

FinishReads ==
  /\ finish.step = "looked"
  /\ finish' = [step |-> "read", missing |-> Missing]
  /\ UNCHANGED <<store, cli, report, beat, sweep, faults>>

(* Mutant: the trials are voided by an upsert.                             *)
VoidedAnyway(missing) ==
  [t \in Trial |-> IF t \in missing THEN Swept(trial[t]) ELSE trial[t]]

(* voidUnreported                                                          *)
Voided(missing) ==
  [t \in Trial |-> IF t \in missing THEN Unreported(trial[t]) ELSE trial[t]]

(* Mutant: the trials alone.                                               *)
FinishVoids ==
  /\ finish.step = "read"
  /\ trial' = Voided(finish.missing)
  /\ finish' = [step |-> "settled", missing |-> {}]
  /\ UNCHANGED <<batch, run, quiet, expired, cli, report, beat, sweep, faults>>

(* settleOpenRuns, the transaction.                                        *)
FinishSettles ==
  /\ finish.step = "read"
  /\ trial' = Voided(finish.missing)
  /\ run' = RunClosed(run, "finished")
  /\ finish' = [step |-> "settled", missing |-> {}]
  /\ UNCHANGED <<batch, quiet, expired, cli, report, beat, sweep, faults>>

(* batches.finish                                                          *)
FinishCloses ==
  /\ finish.step = "settled"
  /\ batch' = BatchClosed(batch, "finished")
  /\ finish' = [finish EXCEPT !.step = "done"]
  /\ UNCHANGED <<run, trial, quiet, expired, cli, report, beat, sweep, faults>>

(* The handler dies on the way; the machine, if there, sends it again.     *)
FinishBreaks ==
  /\ finish.step \in {"looked", "read", "settled", "done"}
  /\ Breaks
  /\ finish' = Idle
  /\ UNCHANGED <<store, cli, report, beat, sweep>>

FinishAnswers ==
  /\ finish.step = "done"
  /\ finish' = Idle
  /\ machine' = "gone"
  /\ UNCHANGED <<store, slot, result, tries, welcome, report, beat, sweep, faults>>

---------------------------------------------------------------------------
(* Checking in.                                                            *)

(* Mutant: every error of a check-in is ignored.                           *)
BeatIgnores ==
  /\ machine \in {"working", "finishing"}
  /\ ~beat
  /\ batch = "running" /\ beat' = TRUE
  /\ UNCHANGED <<store, cli, report, finish, sweep, faults>>

(* beat: a batch that is closed is answered with 409, and the CLI stops.   *)
BeatLooks ==
  /\ machine \in {"working", "finishing"}
  /\ ~beat
  /\ IF batch = "running"
       THEN beat' = TRUE /\ UNCHANGED machine
       ELSE machine' = "gone" /\ UNCHANGED beat
  /\ UNCHANGED <<store, slot, result, tries, welcome, report, finish, sweep, faults>>

(* touch, whatever the batch now is.                                       *)
BeatTouches ==
  /\ beat
  /\ beat' = FALSE
  /\ quiet' = FALSE
  /\ welcome' = TRUE
  /\ UNCHANGED <<batch, run, trial, expired, machine, slot, result, tries, report, finish, sweep, faults>>

(* Any other error of a check-in is ignored.                               *)
BeatBreaks ==
  /\ beat
  /\ Breaks
  /\ beat' = FALSE
  /\ UNCHANGED <<store, cli, report, finish, sweep>>

(* Ten minutes without a check-in.                                         *)
Quieten ==
  /\ ~quiet /\ ~beat
  /\ quiet' = TRUE
  /\ welcome' = FALSE
  /\ UNCHANGED <<batch, run, trial, expired, machine, slot, result, tries, handlers>>

(* Nobody checks in for a machine that is gone.                            *)
GoneQuiet == machine = "gone" /\ Quieten /\ UNCHANGED faults

(* The machine sleeps, or has no network.                                  *)
CutOff == machine # "gone" /\ Breaks /\ Quieten

---------------------------------------------------------------------------
(* The sweep.                                                              *)

(* Mutant: a batch whose runs are over is left alone.                      *)
SweepReadsOpen(s) ==
  /\ sweep[s].step = "idle"
  /\ batch = "running" /\ quiet /\ run = "running"
  /\ sweep' = [sweep EXCEPT ![s] = [step |-> "read", missing |-> Missing]]
  /\ UNCHANGED <<store, cli, report, beat, finish, faults>>

(* failQuietLocalBatches, its reads.                                       *)
SweepReads(s) ==
  /\ sweep[s].step = "idle"
  /\ batch = "running" /\ quiet
  /\ sweep' = [sweep EXCEPT ![s] = [step |-> "read", missing |-> Missing]]
  /\ UNCHANGED <<store, cli, report, beat, finish, faults>>

(* Mutant: the UPDATE names the batches that were read.                    *)
SweepClosesAnyway(s) ==
  /\ sweep[s].step = "read"
  /\ IF batch = "running"
       THEN /\ batch' = "failed"
            /\ trial' = Voided(sweep[s].missing)
            /\ run' = RunClosed(run, "failed")
       ELSE UNCHANGED <<batch, run, trial>>
  /\ sweep' = [sweep EXCEPT ![s] = Idle]
  /\ UNCHANGED <<quiet, expired, cli, report, beat, finish, faults>>

(* Mutant: the trials are not voided.                                      *)
SweepForgets(s) ==
  /\ sweep[s].step = "read"
  /\ IF batch = "running" /\ quiet
       THEN batch' = "failed" /\ run' = RunClosed(run, "failed")
       ELSE UNCHANGED <<batch, run>>
  /\ sweep' = [sweep EXCEPT ![s] = Idle]
  /\ UNCHANGED <<trial, quiet, expired, cli, report, beat, finish, faults>>

(* Its transaction: the UPDATE asks again whether the batch is running and *)
(* quiet, and the rest is done for the batches it returns.                 *)
SweepCloses(s) ==
  /\ sweep[s].step = "read"
  /\ IF batch = "running" /\ quiet
       THEN /\ batch' = "failed"
            /\ trial' = Voided(sweep[s].missing)
            /\ run' = RunClosed(run, "failed")
       ELSE UNCHANGED <<batch, run, trial>>
  /\ sweep' = [sweep EXCEPT ![s] = Idle]
  /\ UNCHANGED <<quiet, expired, cli, report, beat, finish, faults>>

SweepBreaks(s) ==
  /\ sweep[s].step = "read"
  /\ Breaks
  /\ sweep' = [sweep EXCEPT ![s] = Idle]
  /\ UNCHANGED <<store, cli, report, beat, finish>>

(* voidTrialsRunningSince: six hours are longer than any report takes, with*)
(* its retries.                                                            *)
SweepVoids(t) ==
  /\ trial[t].status = "running"
  /\ report[t] \notin {"sent", "looked", "opened"}
  /\ ~(machine = "working" /\ slot[t] = "waiting")
  /\ trial' = [trial EXCEPT ![t] = Swept(@)]
  /\ UNCHANGED <<batch, run, quiet, expired, cli, handlers, faults>>

(* failRunsSince and failBatchesSince: six hours after the batch was       *)
(* created, whether or not its machine checks in.                          *)
RunExpires ==
  /\ SixHours
  /\ run = "running"
  /\ run' = RunClosed(run, "failed")
  /\ expired' = TRUE
  /\ UNCHANGED <<batch, trial, quiet, cli, handlers, faults>>

BatchExpires ==
  /\ SixHours
  /\ batch = "running"
  /\ batch' = BatchClosed(batch, "failed")
  /\ expired' = TRUE
  /\ UNCHANGED <<run, trial, quiet, cli, handlers, faults>>

---------------------------------------------------------------------------
Reporting(t) == Look(t) \/ OpenTrial(t) \/ Land(t)

Finishing == FinishLooks \/ FinishReads \/ FinishSettles \/ FinishCloses \/ FinishAnswers

CheckingIn == BeatLooks \/ BeatTouches

Next ==
  \/ \E t \in Trial : Send(t) \/ Reporting(t) \/ ReportBreaks(t) \/ Told(t) \/ Noted(t)
  \/ AllReported \/ Stopped \/ Gone
  \/ Finishing \/ FinishBreaks
  \/ CheckingIn \/ BeatBreaks \/ GoneQuiet \/ CutOff
  \/ \E s \in Server : SweepReads(s) \/ SweepCloses(s) \/ SweepBreaks(s)
  \/ \E t \in Trial : SweepVoids(t)
  \/ RunExpires \/ BatchExpires

Spec == Init /\ [][Next]_vars

(* A machine that is there checks in every minute, time passes for one that*)
(* is gone, a check-in and finish do not hang, and every server sweeps.    *)
(* Nothing says that a trial ends, that a report is handled, or that a     *)
(* machine comes back.                                                     *)
Fairness ==
  /\ WF_vars(BeatLooks) /\ WF_vars(BeatTouches) /\ WF_vars(GoneQuiet)
  /\ WF_vars(Finishing)
  /\ \A s \in Server : WF_vars(SweepReads(s)) /\ WF_vars(SweepCloses(s))

FairSpec == Spec /\ Fairness

---------------------------------------------------------------------------
Outcome(t) == IF result[t] = "failed" THEN "void" ELSE result[t]

(* A report the machine was told has landed stays as it was reported,      *)
(* whoever closes the batch and whatever he had read of it before          *)
(* (unreported-trials.ts: ON CONFLICT DO NOTHING).                         *)
LandedReportStands ==
  \A t \in Trial : slot[t] = "told" => trial[t].status = Outcome(t)

(* A closed batch has a row for each of its trials: one that was not       *)
(* reported shows as void, not missing (local.mdx), although those who     *)
(* close the batch insert what they found missing some time ago.  The six  *)
(* hour rule closes batches without that.                                  *)
ClosedBatchIsWhole ==
  batch # "running" /\ ~expired => \A t \in Trial : trial[t].status # "absent"

(* A finished batch has finished runs, though a sweep may come between the *)
(* two transactions of finish, and finish may die between them.            *)
FinishedBatchFinishedItsRun ==
  batch = "finished" /\ ~expired => run = "finished"

(* The sweep does not fail the batch of a machine whose check-in was       *)
(* answered in the last ten minutes, although it picked the batch earlier. *)
CheckedInIsSpared ==
  [][batch = "running" /\ batch' = "failed" /\ ~expired' => ~welcome]_vars

(* Whoever reports, closes and sweeps, a trial is voided only while nobody *)
(* is between opening and settling it, and what was reported of it stands. *)
Row == [t \in Trial |-> trial[t].status]
AtHand == [t \in Trial |-> IF report[t] = "opened" THEN {"handler"} ELSE {}]

Life ==
  INSTANCE TrialLife
    WITH Worker <- {"handler"}, Verdict <- {"scored", "void"},
         row <- Row, owners <- AtHand, doomed <- {}

ReportsImplementTrialLife == Life!Spec

(* A machine that goes for good leaves no batch running.                   *)
GoneMachineIsClosed == machine = "gone" ~> batch # "running"

(* A machine whose batch is closed under it, and that can be reached, stops*)
(* its work (local.mdx: the CLI stops the run).                            *)
ClosedStopsMachine == batch # "running" ~> machine = "gone"

(* A trial of which the machine says that it "was not recorded, so it      *)
(* shows as void" (recorded-run.ts), and local.mdx that it "shows as void, *)
(* not missing", is not still running once its batch is closed.            *)
NotedTrialIsSettled ==
  batch # "running" =>
    \A t \in Trial : slot[t] = "noted" /\ report[t] = "broken" => Settled(trial[t])
=============================================================================
