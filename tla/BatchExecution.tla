-------------------------- MODULE BatchExecution --------------------------
(***************************************************************************)
(* One hosted batch from the moment its rows are committed: the hand-off   *)
(* to the runner, the deliveries of the eval-run task that execute it, and *)
(* the reconciler that closes what no process finished.                    *)
(*                                                                         *)
(* A delivery is one attempt of the task: Trigger.dev's, or the fiber the  *)
(* in-process runner forks.  Every step is one statement on the database,  *)
(* or one read of it, because that is where deliveries, the launching      *)
(* server and the sweep interleave.  A statement can fail in two ways, not *)
(* applied, or applied and the answer lost; MaxFaults bounds how many do.  *)
(*                                                                         *)
(* Four things are parameters besides the servers, each with a reconciler  *)
(* of its own, the first three because they are the runner's and the       *)
(* driver's to promise and not this code's:                                *)
(*   Overlap   two deliveries of the batch may be alive at once (the task  *)
(*             is triggered without an idempotency key);                   *)
(*   Outlives  a delivery may work on one trial for longer than            *)
(*             ABANDONED_AFTER (the in-process runner has no maxDuration); *)
(*   Orphans   a statement whose fiber was interrupted may reach the row   *)
(*             after the statement its finalizer sends;                    *)
(*   RunsAtOnce  RUNS_AT_ONCE of execute-batch.ts.                         *)
(***************************************************************************)
EXTENDS EvalRows, Naturals, FiniteSets

CONSTANTS Run, Trial, RunOf, Delivery, Server, RunsAtOnce, MaxFaults,
          Overlap, Outlives, Orphans

ASSUME BatchAssumption ==
  /\ RunOf \in [Trial -> Run]
  /\ RunsAtOnce \in Nat \ {0}
  /\ MaxFaults \in Nat
  /\ Overlap \in BOOLEAN
  /\ Outlives \in BOOLEAN
  /\ Orphans \in BOOLEAN

(* A run asks for at least one trial, and a batch holds at least one run.  *)
ASSUME TrialCountAssumption ==
  /\ Run # {}
  /\ \A r \in Run : \E t \in Trial : RunOf[t] = r

VARIABLES
  batch,   \* eval_batch.status
  run,     \* eval_run.status, per run
  trial,   \* the eval_trial row, per (run, ordinal)
  launch,  \* what the launching server knows of the hand-off
  pc,      \* where execute is, per delivery
  leg,     \* where runOne is, per delivery and run
  task,    \* where runTrial is, per delivery and trial
  aged,    \* the batch was created before the sweep's cutoff
  stale,   \* running trials started before the sweep's cutoff
  sweep,   \* where the reconciler of each server is
  found,   \* the trials its SELECT found
  faults   \* statements that failed so far

rows == <<batch, run, trial>>
work == <<pc, leg, task>>
clock == <<aged, stale>>
sweeper == <<sweep, found>>
vars == <<rows, launch, work, clock, sweeper, faults>>

Status == {"idle", "checking", "reopening", "executing", "dying", "failing",
           "refused", "done", "aborted", "errored", "stopped"}
Leg == {"queued", "going", "unbound", "cut", "ok", "failed"}
Task == {"idle", "working", "closing", "settled", "broken"}

TypeOK ==
  /\ batch \in BatchStatus
  /\ run \in [Run -> RunStatus]
  /\ trial \in [Trial -> TrialRow]
  /\ launch \in {"dispatching", "answered"}
  /\ pc \in [Delivery -> Status]
  /\ leg \in [Delivery -> [Run -> Leg]]
  /\ task \in [Delivery -> [Trial -> Task]]
  /\ aged \in BOOLEAN
  /\ stale \in SUBSET Trial
  /\ sweep \in [Server -> {"rest", "void", "runs", "batches"}]
  /\ found \in [Server -> SUBSET Trial]
  /\ faults \in 0..MaxFaults

NoLegs == [r \in Run |-> "queued"]
NoTasks == [t \in Trial |-> "idle"]

Init ==
  /\ batch = "running"
  /\ run = [r \in Run |-> "running"]
  /\ trial = [t \in Trial |-> NoTrial]
  /\ launch = "dispatching"
  /\ pc = [d \in Delivery |-> "idle"]
  /\ leg = [d \in Delivery |-> NoLegs]
  /\ task = [d \in Delivery |-> NoTasks]
  /\ aged = FALSE
  /\ stale = {}
  /\ sweep = [s \in Server |-> "rest"]
  /\ found = [s \in Server |-> {}]
  /\ faults = 0

TrialsOf(r) == {t \in Trial : RunOf[t] = r}

AtWork(d) == pc[d] \in {"executing", "dying"}

Live(d) == AtWork(d) \/ pc[d] \in {"checking", "reopening", "failing", "refused"}

WorkedOn(t) == \E d \in Delivery : task[d][t] \in {"working", "closing"}

Fault == faults < MaxFaults /\ faults' = faults + 1

Goto(d, to) == pc' = [pc EXCEPT ![d] = to]

(* What an attempt held in memory goes with it.                            *)
End(d, as) ==
  /\ Goto(d, as)
  /\ leg' = [leg EXCEPT ![d] = NoLegs]
  /\ task' = [task EXCEPT ![d] = NoTasks]

Task1(d, t, to) == task' = [task EXCEPT ![d][t] = to]

---------------------------------------------------------------------------
(* The launching server.                                                   *)

Dispatched ==
  /\ launch = "dispatching"
  /\ launch' = "answered"
  /\ UNCHANGED <<rows, work, clock, sweeper, faults>>

(* The hand-off failed and so the batch is; its runs are left running.  The
   runner may have taken the task all the same.                            *)
DispatchFails ==
  /\ launch = "dispatching"
  /\ Fault
  /\ launch' = "answered"
  /\ batch' = BatchClosed(batch, "failed")
  /\ UNCHANGED <<run, trial, work, clock, sweeper>>

---------------------------------------------------------------------------
(* One delivery: execute.                                                  *)

(* A new attempt follows one that ended in an error or was killed; a task that
   was aborted or succeeded has no other.                                  *)
Deliver(d) ==
  /\ pc[d] = "idle"
  /\ Overlap \/ \A e \in Delivery \ {d} : pc[e] \in {"idle", "errored", "stopped"}
  /\ Goto(d, "checking")
  /\ UNCHANGED <<rows, launch, leg, task, clock, sweeper, faults>>

(* active(batch) > 0: somebody's trial of this batch is still running.     *)
CheckActive(d) ==
  /\ pc[d] = "checking"
  /\ IF \E t \in Trial : trial[t].status = "running"
       THEN Goto(d, "refused")
       ELSE Goto(d, "reopening")
  /\ UNCHANGED <<rows, launch, leg, task, clock, sweeper, faults>>

(* The batch alone is reopened: its runs keep the status they have.        *)
Reopen(d) ==
  /\ pc[d] = "reopening"
  /\ batch' = Reopened(batch)
  /\ Goto(d, "executing")
  /\ UNCHANGED <<run, trial, launch, leg, task, clock, sweeper, faults>>

(* A read or statement of execute itself failed before any run was begun.  *)
PreludeErrs(d) ==
  /\ \/ pc[d] \in {"checking", "reopening"}
     \/ pc[d] = "executing" /\ \A r \in Run : leg[d][r] = "queued"
  /\ Fault
  /\ Goto(d, "failing")
  /\ UNCHANGED <<rows, launch, leg, task, clock, sweeper>>

(* Every run was tried: the batch is finished, or failed if any run was.   *)
Outcome(d) == IF \E r \in Run : leg[d][r] = "failed" THEN "failed" ELSE "finished"

AllTried(d) ==
  /\ pc[d] = "executing"
  /\ \A r \in Run : leg[d][r] \in {"ok", "failed"}

FinishBatch(d) ==
  /\ AllTried(d)
  /\ batch' = BatchClosed(batch, Outcome(d))
  /\ End(d, "done")
  /\ UNCHANGED <<run, trial, launch, clock, sweeper, faults>>

FinishErrs(d) ==
  /\ AllTried(d)
  /\ Fault
  /\ batch' \in {batch, BatchClosed(batch, Outcome(d))}
  /\ End(d, "failing")
  /\ UNCHANGED <<run, trial, launch, clock, sweeper>>

(* A defect: the store refused a validation record, onValidation turned that
   into a defect, and a defect is not one of the failures that runOne and
   execute collect.  Every trial and run under way is interrupted.         *)
TrialDies(d, t) ==
  /\ pc[d] = "executing"
  /\ task[d][t] = "working"
  /\ Fault
  /\ Goto(d, "dying")
  /\ leg' = [leg EXCEPT ![d] = [r \in Run |->
       IF leg[d][r] = "going" /\ \E u \in TrialsOf(r) : task[d][u] \notin {"settled", "broken"}
         THEN "cut" ELSE leg[d][r]]]
  /\ Task1(d, t, "closing")
  /\ UNCHANGED <<rows, launch, clock, sweeper>>

(* Every finalizer has run.                                                *)
Died(d) ==
  /\ pc[d] = "dying"
  /\ \A r \in Run : leg[d][r] \in {"queued", "ok", "failed"}
  /\ End(d, "failing")
  /\ UNCHANGED <<rows, launch, clock, sweeper, faults>>

(* tapErrorCause: whatever went wrong, being told that another delivery is
   at work included, the batch is failed.  The error then ends the attempt; a
   refusal is to abort the task, if the runner knows the abort for one inside
   the rejection of the promise.                                           *)
Ends(d) == IF pc[d] = "refused" THEN {"aborted", "errored"} ELSE {"errored"}

FailBatch(d) ==
  /\ pc[d] \in {"failing", "refused"}
  /\ batch' = BatchClosed(batch, "failed")
  /\ \E end \in Ends(d) : Goto(d, end)
  /\ UNCHANGED <<run, trial, launch, leg, task, clock, sweeper, faults>>

FailBatchLost(d) ==
  /\ pc[d] \in {"failing", "refused"}
  /\ Fault
  /\ \E end \in Ends(d) : Goto(d, end)
  /\ UNCHANGED <<rows, launch, leg, task, clock, sweeper>>

(* The process dies, or maxDuration kills it.                              *)
Stop(d) ==
  /\ Live(d)
  /\ End(d, "stopped")
  /\ UNCHANGED <<rows, launch, clock, sweeper, faults>>

---------------------------------------------------------------------------
(* One run of a delivery: runOne.                                          *)

(* A permit of RUNS_AT_ONCE and the credentials of the run.                *)
StartRun(d, r) ==
  /\ pc[d] = "executing"
  /\ leg[d][r] = "queued"
  /\ Cardinality({q \in Run : leg[d][q] \in {"going", "unbound"}}) < RunsAtOnce
  /\ leg' = [leg EXCEPT ![d][r] = "going"]
  /\ UNCHANGED <<rows, launch, pc, task, clock, sweeper, faults>>

(* No credential is bound, or it cannot be read: no trial is opened.       *)
Uncredentialed(d, r) ==
  /\ pc[d] = "executing"
  /\ leg[d][r] = "going"
  /\ \A t \in TrialsOf(r) : task[d][t] = "idle"
  /\ leg' = [leg EXCEPT ![d][r] = "unbound"]
  /\ UNCHANGED <<rows, launch, pc, task, clock, sweeper, faults>>

(* Mutant: only the credentials can fail a run.                            *)
RunOutcomeOfCredentials(d, r) ==
  IF leg[d][r] \in {"unbound", "cut"} THEN "failed" ELSE "finished"

(* onExit: the run is failed when its credentials could not be had, when it was
   interrupted, or when every one of its trials broke.                     *)
RunOutcome(d, r) ==
  IF leg[d][r] \in {"unbound", "cut"} \/ \A t \in TrialsOf(r) : task[d][t] = "broken"
    THEN "failed" ELSE "finished"

RunOver(d, r) ==
  /\ AtWork(d)
  /\ \/ leg[d][r] = "unbound"
     \/ /\ leg[d][r] = "cut"
        /\ \A t \in TrialsOf(r) : task[d][t] \notin {"working", "closing"}
     \/ /\ leg[d][r] = "going"
        /\ \A t \in TrialsOf(r) : task[d][t] \in {"settled", "broken"}

(* Mutant: the status of the run is what execute collects.                 *)
LegOfStatus(outcome) == outcome

LegOf(outcome) == IF outcome = "finished" THEN "ok" ELSE "failed"

SettleRun(d, r) ==
  /\ RunOver(d, r)
  /\ run' = [run EXCEPT ![r] = RunClosed(@, RunOutcome(d, r))]
  /\ leg' = [leg EXCEPT ![d][r] = LegOf(RunOutcome(d, r))]
  /\ UNCHANGED <<batch, trial, launch, pc, task, clock, sweeper, faults>>

(* The statement failed; that is logged and ignored.                       *)
SettleRunLost(d, r) ==
  /\ RunOver(d, r)
  /\ Fault
  /\ leg' = [leg EXCEPT ![d][r] = LegOf(RunOutcome(d, r))]
  /\ UNCHANGED <<rows, launch, pc, task, clock, sweeper>>

---------------------------------------------------------------------------
(* One trial of a delivery: runTrial.                                      *)

Startable(d, t) ==
  /\ pc[d] = "executing"
  /\ leg[d][RunOf[t]] = "going"
  /\ task[d][t] = "idle"

OpenTrial(d, t) ==
  /\ Startable(d, t)
  /\ trial' = [trial EXCEPT ![t] = Opened(@)]
  /\ stale' = stale \ {t}
  /\ Task1(d, t, "working")
  /\ UNCHANGED <<batch, run, launch, pc, leg, aged, sweeper, faults>>

(* The finalizer that abandons is only added once open has returned.       *)
OpenErrs(d, t) ==
  /\ Startable(d, t)
  /\ Fault
  /\ \/ /\ trial' = [trial EXCEPT ![t] = Opened(@)]
        /\ stale' = stale \ {t}
     \/ UNCHANGED <<trial, stale>>
  /\ Task1(d, t, "broken")
  /\ UNCHANGED <<batch, run, launch, pc, leg, aged, sweeper>>

(* The agent ran and the scorer gave an outcome, which may itself be void. *)
SettleTrial(d, t) ==
  /\ pc[d] = "executing"
  /\ task[d][t] = "working"
  /\ \E verdict \in {"scored", "void"} :
       trial' = [trial EXCEPT ![t] = SettledAs(@, verdict)]
  /\ stale' = stale \ {t}
  /\ Task1(d, t, "settled")
  /\ UNCHANGED <<batch, run, launch, pc, leg, aged, sweeper, faults>>

SettleErrs(d, t) ==
  /\ pc[d] = "executing"
  /\ task[d][t] = "working"
  /\ Fault
  /\ \/ /\ \E verdict \in {"scored", "void"} :
             trial' = [trial EXCEPT ![t] = SettledAs(@, verdict)]
        /\ stale' = stale \ {t}
     \/ UNCHANGED <<trial, stale>>
  /\ Task1(d, t, "closing")
  /\ UNCHANGED <<batch, run, launch, pc, leg, aged, sweeper>>

(* The sandbox, the harness, the simulated user, or the store broke the
   trial: its finalizer abandons the row.                                  *)
AbandonTrial(d, t) ==
  /\ AtWork(d)
  /\ task[d][t] \in {"working", "closing"}
  /\ trial' = [trial EXCEPT ![t] = Abandoned(@)]
  /\ stale' = stale \ {t}
  /\ Task1(d, t, "broken")
  /\ UNCHANGED <<batch, run, launch, pc, leg, aged, sweeper, faults>>

(* Effect.ignore: the row stays running.                                   *)
AbandonLost(d, t) ==
  /\ AtWork(d)
  /\ task[d][t] \in {"working", "closing"}
  /\ Fault
  /\ Task1(d, t, "broken")
  /\ UNCHANGED <<rows, launch, pc, leg, clock, sweeper>>

(* Interrupted while the statement was on its way: a promise cannot be
   interrupted, so the row is opened all the same, and no finalizer was added. *)
OpenInterrupted(d, t) ==
  /\ pc[d] = "dying"
  /\ leg[d][RunOf[t]] = "cut"
  /\ task[d][t] = "idle"
  /\ trial' = [trial EXCEPT ![t] = Opened(@)]
  /\ stale' = stale \ {t}
  /\ Task1(d, t, "broken")
  /\ UNCHANGED <<batch, run, launch, pc, leg, aged, sweeper, faults>>

SettleInterrupted(d, t) ==
  /\ pc[d] = "dying"
  /\ task[d][t] = "working"
  /\ \E verdict \in {"scored", "void"} :
       trial' = [trial EXCEPT ![t] = SettledAs(@, verdict)]
  /\ stale' = stale \ {t}
  /\ Task1(d, t, "closing")
  /\ UNCHANGED <<batch, run, launch, pc, leg, aged, sweeper, faults>>

(* The same, when the finalizer's statement gets there first.              *)
SettleOvertaken(d, t) ==
  /\ Orphans
  /\ pc[d] = "dying"
  /\ task[d][t] = "working"
  /\ \E verdict \in {"scored", "void"} :
       trial' = [trial EXCEPT ![t] = SettledAs(Abandoned(@), verdict)]
  /\ stale' = stale \ {t}
  /\ Task1(d, t, "broken")
  /\ UNCHANGED <<batch, run, launch, pc, leg, aged, sweeper, faults>>

---------------------------------------------------------------------------
(* The reconciler: four statements, each a transaction of its own, of which
   three concern a hosted batch.  voidTrialsRunningSince reads, then writes
   by id.  Every server has a reconciler, and nothing keeps two apart.     *)

(* Mutant: the SELECT joins the run and asks for one still running.        *)
SweepReadsOpenRuns(s) ==
  /\ sweep[s] = "rest"
  /\ found' = [found EXCEPT ![s] = {t \in stale : trial[t].status = "running" /\ run[RunOf[t]] = "running"}]
  /\ sweep' = [sweep EXCEPT ![s] = "void"]
  /\ UNCHANGED <<rows, launch, work, clock, faults>>

SweepReads(s) ==
  /\ sweep[s] = "rest"
  /\ found' = [found EXCEPT ![s] = {t \in stale : trial[t].status = "running"}]
  /\ sweep' = [sweep EXCEPT ![s] = "void"]
  /\ UNCHANGED <<rows, launch, work, clock, faults>>

SweepVoids(s) ==
  /\ sweep[s] = "void"
  /\ trial' = [t \in Trial |-> IF t \in found[s] THEN Swept(trial[t]) ELSE trial[t]]
  /\ stale' = stale \ found[s]
  /\ found' = [found EXCEPT ![s] = {}]
  /\ sweep' = [sweep EXCEPT ![s] = "runs"]
  /\ UNCHANGED <<batch, run, launch, work, aged, faults>>

(* Mutant: only the runs of a batch still running.                         *)
SweepFailsRunsOfOpenBatch(s) ==
  /\ sweep[s] = "runs"
  /\ run' = IF aged /\ batch = "running"
              THEN [r \in Run |-> RunClosed(run[r], "failed")] ELSE run
  /\ sweep' = [sweep EXCEPT ![s] = "batches"]
  /\ UNCHANGED <<batch, trial, launch, work, clock, found, faults>>

SweepFailsRuns(s) ==
  /\ sweep[s] = "runs"
  /\ run' = IF aged THEN [r \in Run |-> RunClosed(run[r], "failed")] ELSE run
  /\ sweep' = [sweep EXCEPT ![s] = "batches"]
  /\ UNCHANGED <<batch, trial, launch, work, clock, found, faults>>

(* Mutant: only a batch with a run still running, after those were failed. *)
SweepFailsBatchOfOpenRuns(s) ==
  /\ sweep[s] = "batches"
  /\ batch' = IF aged /\ \E r \in Run : run[r] = "running"
                THEN BatchClosed(batch, "failed") ELSE batch
  /\ sweep' = [sweep EXCEPT ![s] = "rest"]
  /\ UNCHANGED <<run, trial, launch, work, clock, found, faults>>

SweepFailsBatch(s) ==
  /\ sweep[s] = "batches"
  /\ batch' = IF aged THEN BatchClosed(batch, "failed") ELSE batch
  /\ sweep' = [sweep EXCEPT ![s] = "rest"]
  /\ UNCHANGED <<run, trial, launch, work, clock, found, faults>>

(* One statement failed, or the server went away: the sweep is over until
   the next one.                                                           *)
SweepErrs(s) ==
  /\ sweep[s] # "rest"
  /\ Fault
  /\ sweep' = [sweep EXCEPT ![s] = "rest"]
  /\ found' = [found EXCEPT ![s] = {}]
  /\ UNCHANGED <<rows, launch, work, clock>>

---------------------------------------------------------------------------
(* Six hours pass: since the batch was created, however long it was queued
   for; since a trial was opened, which a delivery that maxDuration stops
   never sees.                                                             *)

AgeBatch ==
  /\ ~aged
  /\ aged' = TRUE
  /\ UNCHANGED <<rows, launch, work, stale, sweeper, faults>>

(* Mutant: a cutoff shorter than a trial may take.                         *)
AgeTrialEarly(t) ==
  /\ trial[t].status = "running"
  /\ t \notin stale
  /\ stale' = stale \cup {t}
  /\ UNCHANGED <<rows, launch, work, aged, sweeper, faults>>

AgeTrial(t) ==
  /\ trial[t].status = "running"
  /\ t \notin stale
  /\ Outlives \/ ~WorkedOn(t)
  /\ stale' = stale \cup {t}
  /\ UNCHANGED <<rows, launch, work, aged, sweeper, faults>>

---------------------------------------------------------------------------
TrialStep(d, t) ==
  \/ OpenTrial(d, t) \/ OpenErrs(d, t)
  \/ SettleTrial(d, t) \/ SettleErrs(d, t)
  \/ AbandonTrial(d, t) \/ AbandonLost(d, t)
  \/ TrialDies(d, t) \/ OpenInterrupted(d, t)
  \/ SettleInterrupted(d, t) \/ SettleOvertaken(d, t)

RunStep(d, r) ==
  StartRun(d, r) \/ SettleRun(d, r) \/ SettleRunLost(d, r) \/ Uncredentialed(d, r)

ExecuteStep(d) ==
  \/ Deliver(d) \/ CheckActive(d) \/ Reopen(d) \/ PreludeErrs(d)
  \/ FinishBatch(d) \/ FinishErrs(d) \/ Died(d)
  \/ FailBatch(d) \/ FailBatchLost(d) \/ Stop(d)

SweepStep(s) ==
  \/ SweepReads(s) \/ SweepVoids(s)
  \/ SweepFailsRuns(s) \/ SweepFailsBatch(s) \/ SweepErrs(s)

Next ==
  \/ Dispatched \/ DispatchFails
  \/ \E d \in Delivery :
       \/ ExecuteStep(d)
       \/ \E r \in Run : RunStep(d, r)
       \/ \E t \in Trial : TrialStep(d, t)
  \/ \E s \in Server : SweepStep(s)
  \/ AgeBatch
  \/ \E t \in Trial : AgeTrial(t)

Spec == Init /\ [][Next]_vars

(* Time passes, the sweep repeats on a schedule as long as a server is up,
   and no delivery lives for ever: it ends or maxDuration ends it.         *)
Fairness ==
  /\ \A s \in Server :
       /\ WF_vars(SweepReads(s)) /\ WF_vars(SweepVoids(s))
       /\ WF_vars(SweepFailsRuns(s)) /\ WF_vars(SweepFailsBatch(s))
  /\ WF_vars(AgeBatch)
  /\ \A t \in Trial : WF_vars(AgeTrial(t))
  /\ \A d \in Delivery : WF_vars(Stop(d))

FairSpec == Spec /\ Fairness

---------------------------------------------------------------------------
(* Properties.                                                             *)

(* results.mdx: a trial that was scored has no failure.  settle does not clear
   the column, so this rests on opening to clear it, and two ways are known
   round that: a verdict given by a delivery whose row was voided under its
   hands, by the id another server had found, and one that reaches the row
   after the finalizer of its own trial.  There is no third.               *)
VerdictsAreClean ==
  [][\A t \in Trial :
       trial'[t].status = "scored" /\ trial'[t].failure =>
         \/ trial[t].status = "scored" /\ trial[t].failure
         \/ trial[t].status = "void" /\ \E d \in Delivery : task[d][t] = "working"
         \/ \E d \in Delivery : SettleOvertaken(d, t)]_vars

(* No delivery works on a trial of a batch whose row says it is finished,
   even when an earlier attempt wrote that and was retried because it never
   heard so.                                                               *)
NoWorkUnderFinishedBatch ==
  batch = "finished" =>
    \A d \in Delivery, t \in Trial : task[d][t] # "working"

(* The status a run is closed with is the one it keeps, whichever of the
   deliveries and the sweep close it, and however often the batch is reopened. *)
RunStatusFinal ==
  [][\A r \in Run : run[r] # "running" => run'[r] = run[r]]_vars

(* A run is only called finished on the evidence of a trial that this attempt
   settled or that some attempt left settled.                              *)
FinishedRunHasEvidence ==
  [][\A r \in Run :
       run[r] = "running" /\ run'[r] = "finished" =>
         \E t \in TrialsOf(r) : Settled(trial[t])]_vars

TrialsSettle ==
  \A t \in Trial : (trial[t].status = "running") ~> Settled(trial[t])

RunsClose == \A r \in Run : <>[](run[r] # "running")

BatchCloses == (batch = "running") ~> (batch # "running")

(* Whatever crashes, is lost or is refused, the sweep leaves no trial running,
   no run open and no batch open.                                          *)
EverythingCloses == TrialsSettle /\ RunsClose /\ BatchCloses

(* Whoever delivers, kills and sweeps, and from however many servers, a trial
   is opened by one delivery, and is its own while it is at work on it unless
   a sweep had it in hand when it was opened.  Rests on the runner to deliver
   once at a time and to end a delivery before the sweep's cutoff.         *)
Row == [t \in Trial |-> trial[t].status]
AtHand == [t \in Trial |-> {d \in Delivery : task[d][t] = "working"}]
InHand == UNION {found[s] : s \in Server}

Life ==
  INSTANCE TrialLife
    WITH Worker <- Delivery, Verdict <- {"scored", "void"},
         row <- Row, owners <- AtHand, doomed <- InHand

ImplementsTrialLife == Life!Spec

(* A test of the reconciler: it spares live work.  The statement that voids a
   trial goes by what another statement found.                             *)
SweepSparesLiveTrials ==
  [][\A s \in Server : SweepVoids(s) =>
       \A d \in Delivery, t \in found[s] : task[d][t] # "working"]_vars
---------------------------------------------------------------------------
(* Why these hold, in layers, each with the premises it needs.             *)

(* One delivery is alive at a time.                                        *)
OneAtATime == \A d, e \in Delivery : Live(d) /\ Live(e) => d = e

OnlyExecutingWorks ==
  \A d \in Delivery, t \in Trial :
    task[d][t] # "idle" => AtWork(d) /\ leg[d][RunOf[t]] # "queued"

(* Past its check, a delivery finds no trial running that it has not begun. *)
CheckStillHolds ==
  \A d \in Delivery, t \in Trial :
    pc[d] \in {"reopening", "executing", "dying"} /\ task[d][t] = "idle" =>
      trial[t].status # "running"

FinishedIsAtRest ==
  batch = "finished" => \A d \in Delivery : ~AtWork(d)

SettledHasItsVerdict ==
  \A d \in Delivery, t \in Trial : task[d][t] = "settled" => Settled(trial[t])

DeliveryInv ==
  /\ OneAtATime
  /\ OnlyExecutingWorks
  /\ CheckStillHolds
  /\ FinishedIsAtRest
  /\ SettledHasItsVerdict

(* That no delivery outlives the cutoff: what has grown old is nobody's work. *)
SweepInv ==
  \A d \in Delivery, t \in Trial :
    task[d][t] \in {"working", "closing"} => t \notin stale

(* Nothing at all: a row with a failure is over.                           *)
FailureIsOver ==
  \A t \in Trial : trial[t].failure => trial[t].status \in {"scored", "void"}
===========================================================================
