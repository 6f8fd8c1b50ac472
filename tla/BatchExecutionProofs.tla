----------------------- MODULE BatchExecutionProofs -----------------------
(***************************************************************************)
(* Proofs about BatchExecution for every set of runs, trials and           *)
(* deliveries and every bound on faults.                                   *)
(***************************************************************************)
EXTENDS BatchExecution, TLAPS

(* A trial that has no row, and what each statement makes of a row, is a row. *)
LEMMA NoTrialType == NoTrial \in TrialRow
  BY DEF NoTrial, TrialRow, TrialStatus

LEMMA OpenedType ==
  ASSUME NEW row \in TrialRow
  PROVE  Opened(row) \in TrialRow
  BY DEF Opened, TrialRow, TrialStatus

LEMMA SettledAsType ==
  ASSUME NEW row \in TrialRow, NEW verdict \in {"scored", "void"}
  PROVE  SettledAs(row, verdict) \in TrialRow
  BY DEF SettledAs, TrialRow, TrialStatus

LEMMA AbandonedType ==
  ASSUME NEW row \in TrialRow
  PROVE  Abandoned(row) \in TrialRow
  BY DEF Abandoned, TrialRow, TrialStatus

LEMMA SweptType ==
  ASSUME NEW row \in TrialRow
  PROVE  Swept(row) \in TrialRow
  BY DEF Swept, TrialRow, TrialStatus

(* The state always has the types TypeOK gives it, whichever deliveries
   overlap and however long they live.                                     *)
THEOREM TypeCorrect == Spec => []TypeOK
<1>1. Init => TypeOK
  <2> SUFFICES ASSUME Init PROVE TypeOK
    OBVIOUS
  <2>1. trial \in [Trial -> TrialRow]
    BY NoTrialType DEF Init
  <2>2. leg \in [Delivery -> [Run -> Leg]] /\ task \in [Delivery -> [Trial -> Task]]
    BY DEF Init, NoLegs, NoTasks, Leg, Task
  <2>3. run \in [Run -> RunStatus] /\ pc \in [Delivery -> Status]
    BY DEF Init, RunStatus, Status
  <2>4. aged \in BOOLEAN
    BY DEF Init
  <2>5. QED
    BY <2>1, <2>2, <2>3, <2>4, BatchAssumption DEF Init, TypeOK, BatchStatus
<1>2. TypeOK /\ [Next]_vars => TypeOK'
  <2> SUFFICES ASSUME TypeOK, [Next]_vars PROVE TypeOK'
    OBVIOUS
  <2> USE BatchAssumption DEF TypeOK, rows, work, clock, sweeper
  <2>1. CASE Dispatched
    BY <2>1 DEF Dispatched
  <2>2. CASE DispatchFails
    BY <2>2 DEF DispatchFails, Fault, BatchClosed, BatchStatus
  <2>3. ASSUME NEW d \in Delivery, Deliver(d) PROVE TypeOK'
    BY <2>3 DEF Deliver, Goto, Status
  <2>4. ASSUME NEW d \in Delivery, CheckActive(d) PROVE TypeOK'
    BY <2>4 DEF CheckActive, Goto, Status
  <2>5. ASSUME NEW d \in Delivery, Reopen(d) PROVE TypeOK'
    BY <2>5 DEF Reopen, Reopened, Goto, BatchStatus, Status
  <2>6. ASSUME NEW d \in Delivery, PreludeErrs(d) PROVE TypeOK'
    BY <2>6 DEF PreludeErrs, Goto, Fault, Status
  <2>7. ASSUME NEW d \in Delivery, FinishBatch(d) PROVE TypeOK'
    BY <2>7 DEF FinishBatch, AllTried, BatchClosed, Outcome, End, Goto,
    NoLegs, NoTasks, BatchStatus, Status, Leg, Task
  <2>8. ASSUME NEW d \in Delivery, FinishErrs(d) PROVE TypeOK'
    BY <2>8 DEF FinishErrs, AllTried, BatchClosed, Outcome, End, Goto,
    NoLegs, NoTasks, Fault, BatchStatus, Status, Leg, Task
  <2>9. ASSUME NEW d \in Delivery, Died(d) PROVE TypeOK'
    BY <2>9 DEF Died, End, Goto, NoLegs, NoTasks, Status, Leg, Task
  <2>10. ASSUME NEW d \in Delivery, FailBatch(d) PROVE TypeOK'
    BY <2>10 DEF FailBatch, BatchClosed, Ends, Goto, BatchStatus, Status
  <2>11. ASSUME NEW d \in Delivery, FailBatchLost(d) PROVE TypeOK'
    BY <2>11 DEF FailBatchLost, Ends, Goto, Fault, Status
  <2>12. ASSUME NEW d \in Delivery, Stop(d) PROVE TypeOK'
    BY <2>12 DEF Stop, End, Goto, NoLegs, NoTasks, Status, Leg, Task
  <2>13. ASSUME NEW d \in Delivery, NEW r \in Run, StartRun(d, r) PROVE TypeOK'
    BY <2>13 DEF StartRun, Leg
  <2>14. ASSUME NEW d \in Delivery, NEW r \in Run, SettleRun(d, r) PROVE TypeOK'
    BY <2>14 DEF SettleRun, RunOver, RunClosed, RunOutcome, LegOf,
    RunStatus, Leg
  <2>15. ASSUME NEW d \in Delivery, NEW r \in Run, SettleRunLost(d, r) PROVE TypeOK'
    BY <2>15 DEF SettleRunLost, RunOver, RunOutcome, LegOf, Fault, Leg
  <2>16. ASSUME NEW d \in Delivery, NEW r \in Run, Uncredentialed(d, r) PROVE TypeOK'
    BY <2>16 DEF Uncredentialed, Leg
  <2>17. ASSUME NEW d \in Delivery, NEW t \in Trial, OpenTrial(d, t) PROVE TypeOK'
    BY <2>17, OpenedType DEF OpenTrial, Startable, Task1, Task
  <2>18. ASSUME NEW d \in Delivery, NEW t \in Trial, OpenErrs(d, t) PROVE TypeOK'
    <3>1. trial' \in [Trial -> TrialRow]
      <4>1. CASE UNCHANGED trial
        BY <4>1
      <4>2. CASE trial' = [trial EXCEPT ![t] = Opened(@)]
        BY <4>2, OpenedType
      <4>3. QED
        BY <2>18, <4>1, <4>2 DEF OpenErrs
    <3>2. stale' \in SUBSET Trial
      BY <2>18 DEF OpenErrs
    <3>3. QED
      BY <2>18, <3>1, <3>2 DEF OpenErrs, Task1, Fault, Task
  <2>19. ASSUME NEW d \in Delivery, NEW t \in Trial, SettleTrial(d, t) PROVE TypeOK'
    BY <2>19, SettledAsType DEF SettleTrial, Task1, Task
  <2>20. ASSUME NEW d \in Delivery, NEW t \in Trial, SettleErrs(d, t) PROVE TypeOK'
    <3>1. trial' \in [Trial -> TrialRow]
      <4>1. CASE UNCHANGED trial
        BY <4>1
      <4>2. CASE \E verdict \in {"scored", "void"} :
                   trial' = [trial EXCEPT ![t] = SettledAs(@, verdict)]
        BY <4>2, SettledAsType
      <4>3. QED
        BY <2>20, <4>1, <4>2 DEF SettleErrs
    <3>2. stale' \in SUBSET Trial
      BY <2>20 DEF SettleErrs
    <3>3. QED
      BY <2>20, <3>1, <3>2 DEF SettleErrs, Task1, Fault, Task
  <2>21. ASSUME NEW d \in Delivery, NEW t \in Trial, AbandonTrial(d, t) PROVE TypeOK'
    BY <2>21, AbandonedType DEF AbandonTrial, Task1, Task
  <2>22. ASSUME NEW d \in Delivery, NEW t \in Trial, AbandonLost(d, t) PROVE TypeOK'
    BY <2>22 DEF AbandonLost, Task1, Fault, Task
  <2>23. ASSUME NEW d \in Delivery, NEW t \in Trial, TrialDies(d, t) PROVE TypeOK'
    BY <2>23 DEF TrialDies, Goto, Task1, Fault, Status, Task, Leg
  <2>24. ASSUME NEW d \in Delivery, NEW t \in Trial, OpenInterrupted(d, t) PROVE TypeOK'
    BY <2>24, OpenedType DEF OpenInterrupted, Task1, Task
  <2>25. ASSUME NEW d \in Delivery, NEW t \in Trial, SettleInterrupted(d, t) PROVE TypeOK'
    BY <2>25, SettledAsType DEF SettleInterrupted, Task1, Task
  <2>26. ASSUME NEW d \in Delivery, NEW t \in Trial, SettleOvertaken(d, t) PROVE TypeOK'
    BY <2>26, SettledAsType, AbandonedType DEF SettleOvertaken, Task1, Task
  <2>27. ASSUME NEW s \in Server, SweepReads(s) PROVE TypeOK'
    BY <2>27 DEF SweepReads
  <2>28. ASSUME NEW s \in Server, SweepVoids(s) PROVE TypeOK'
    BY <2>28, SweptType DEF SweepVoids
  <2>29. ASSUME NEW s \in Server, SweepFailsRuns(s) PROVE TypeOK'
    BY <2>29 DEF SweepFailsRuns, RunClosed, RunStatus
  <2>30. ASSUME NEW s \in Server, SweepFailsBatch(s) PROVE TypeOK'
    BY <2>30 DEF SweepFailsBatch, BatchClosed, BatchStatus
  <2>31. ASSUME NEW s \in Server, SweepErrs(s) PROVE TypeOK'
    BY <2>31 DEF SweepErrs, Fault
  <2>32. CASE AgeBatch
    BY <2>32 DEF AgeBatch
  <2>33. ASSUME NEW t \in Trial, AgeTrial(t) PROVE TypeOK'
    BY <2>33 DEF AgeTrial
  <2>34. CASE UNCHANGED vars
    BY <2>34 DEF vars
  <2>35. QED
    BY <2>1, <2>2, <2>3, <2>4, <2>5, <2>6, <2>7, <2>8, <2>9, <2>10, <2>11,
    <2>12, <2>13, <2>14, <2>15, <2>16, <2>17, <2>18, <2>19, <2>20, <2>21,
    <2>22, <2>23, <2>24, <2>25, <2>26, <2>27, <2>28, <2>29, <2>30, <2>31,
    <2>32, <2>33, <2>34 DEF Next, ExecuteStep, RunStep, TrialStep,
    SweepStep
<1>3. QED
  BY <1>1, <1>2, PTL DEF Spec

---------------------------------------------------------------------------
(* The layers of the strengthening.                                        *)

(* When deliveries do not overlap, one delivery is alive at a time, it alone
   works, what its check of the rows saw stays so, and a batch it has called
   finished is left alone.  Any number of servers may sweep, a delivery may
   live as long as it likes, and a statement may be overtaken.             *)
THEOREM DeliveryInvariant ==
  ASSUME ~Overlap
  PROVE  Spec => []DeliveryInv
<1>1. Init => DeliveryInv
  BY DEF Init, DeliveryInv, OneAtATime, OnlyExecutingWorks, CheckStillHolds,
    FinishedIsAtRest, SettledHasItsVerdict, Live, AtWork, NoTasks, NoTrial
<1>2. TypeOK /\ DeliveryInv /\ [Next]_vars => DeliveryInv'
  <2> SUFFICES ASSUME TypeOK, DeliveryInv, [Next]_vars PROVE DeliveryInv'
    OBVIOUS
  <2> USE BatchAssumption DEF TypeOK, DeliveryInv, rows, work, clock, sweeper
  <2>1. CASE Dispatched
    BY <2>1 DEF Dispatched, OneAtATime, OnlyExecutingWorks, CheckStillHolds,
      FinishedIsAtRest, SettledHasItsVerdict, AtWork, Live, Settled
  <2>2. CASE DispatchFails
    <3>1. FinishedIsAtRest'
      BY <2>2 DEF DispatchFails, BatchClosed, FinishedIsAtRest, OneAtATime,
        Live, AtWork
    <3>2. OneAtATime' /\ OnlyExecutingWorks' /\ CheckStillHolds' /\ SettledHasItsVerdict'
      BY <2>2 DEF DispatchFails, BatchClosed, OneAtATime, OnlyExecutingWorks,
        CheckStillHolds, SettledHasItsVerdict, AtWork, Live, Settled
    <3>3. QED
      BY <3>1, <3>2
  <2>3. ASSUME NEW d \in Delivery, Deliver(d) PROVE DeliveryInv'
    <3>1. OneAtATime'
      <4>1. \A e \in Delivery \ {d} : ~Live(e)
        BY <2>3 DEF Deliver, Live, AtWork
      <4>2. \A e \in Delivery \ {d} : ~Live(e)'
        BY <2>3, <4>1 DEF Deliver, Goto, Live, AtWork
      <4>3. QED
        BY <4>2 DEF OneAtATime
    <3>2. OnlyExecutingWorks'
      BY <2>3 DEF Deliver, Goto, OnlyExecutingWorks, AtWork
    <3>3. CheckStillHolds'
      BY <2>3 DEF Deliver, Goto, CheckStillHolds, OneAtATime,
        OnlyExecutingWorks, Live, AtWork
    <3>4. FinishedIsAtRest'
      BY <2>3 DEF Deliver, Goto, FinishedIsAtRest, OneAtATime, Live, AtWork
    <3>5. SettledHasItsVerdict'
      BY <2>3 DEF Deliver, Goto, SettledHasItsVerdict, AtWork, Live, Settled
    <3>6. QED
      BY <3>1, <3>2, <3>3, <3>4, <3>5
  <2>4. ASSUME NEW d \in Delivery, CheckActive(d) PROVE DeliveryInv'
    <3>1. OneAtATime'
      BY <2>4 DEF CheckActive, Goto, OneAtATime, Live, AtWork
    <3>2. OnlyExecutingWorks'
      <4>1. ~AtWork(d) /\ \A e \in Delivery : AtWork(e) => AtWork(e)'
        BY <2>4 DEF CheckActive, Goto, AtWork
      <4>2. QED
        BY <2>4, <4>1 DEF CheckActive, OnlyExecutingWorks
    <3>3. CheckStillHolds'
      BY <2>4 DEF CheckActive, Goto, CheckStillHolds, OneAtATime,
        OnlyExecutingWorks, Live, AtWork
    <3>4. FinishedIsAtRest'
      BY <2>4 DEF CheckActive, Goto, FinishedIsAtRest, OneAtATime, Live,
        AtWork
    <3>5. SettledHasItsVerdict'
      BY <2>4 DEF CheckActive, Goto, SettledHasItsVerdict, AtWork, Live,
        Settled
    <3>6. QED
      BY <3>1, <3>2, <3>3, <3>4, <3>5
  <2>5. ASSUME NEW d \in Delivery, Reopen(d) PROVE DeliveryInv'
    <3>1. OneAtATime'
      BY <2>5 DEF Reopen, Reopened, Goto, OneAtATime, Live, AtWork
    <3>2. OnlyExecutingWorks'
      BY <2>5 DEF Reopen, Reopened, Goto, OnlyExecutingWorks, AtWork
    <3>3. CheckStillHolds'
      BY <2>5 DEF Reopen, Reopened, Goto, CheckStillHolds, OneAtATime,
        OnlyExecutingWorks, Live, AtWork
    <3>4. FinishedIsAtRest'
      BY <2>5 DEF Reopen, Reopened, Goto, FinishedIsAtRest, OneAtATime, Live,
        AtWork
    <3>5. SettledHasItsVerdict'
      BY <2>5 DEF Reopen, Reopened, Goto, SettledHasItsVerdict, AtWork, Live,
        Settled
    <3>6. QED
      BY <3>1, <3>2, <3>3, <3>4, <3>5
  <2>6. ASSUME NEW d \in Delivery, PreludeErrs(d) PROVE DeliveryInv'
    <3>1. OneAtATime'
      BY <2>6 DEF PreludeErrs, Goto, OneAtATime, Live, AtWork
    <3>2. OnlyExecutingWorks'
      BY <2>6 DEF PreludeErrs, Goto, OnlyExecutingWorks, AtWork
    <3>3. CheckStillHolds'
      BY <2>6 DEF PreludeErrs, Goto, CheckStillHolds, OneAtATime,
        OnlyExecutingWorks, Live, AtWork
    <3>4. FinishedIsAtRest'
      BY <2>6 DEF PreludeErrs, Goto, FinishedIsAtRest, OneAtATime, Live,
        AtWork
    <3>5. SettledHasItsVerdict'
      BY <2>6 DEF PreludeErrs, Goto, SettledHasItsVerdict, AtWork, Live,
        Settled
    <3>6. QED
      BY <3>1, <3>2, <3>3, <3>4, <3>5
  <2>7. ASSUME NEW d \in Delivery, FinishBatch(d) PROVE DeliveryInv'
    <3>1. OneAtATime'
      BY <2>7 DEF FinishBatch, AllTried, End, Goto, NoTasks, OneAtATime, Live,
        AtWork
    <3>2. OnlyExecutingWorks'
      BY <2>7 DEF FinishBatch, AllTried, End, Goto, NoTasks,
        OnlyExecutingWorks, AtWork
    <3>3. CheckStillHolds'
      BY <2>7 DEF FinishBatch, AllTried, End, Goto, NoTasks, CheckStillHolds,
        OneAtATime, OnlyExecutingWorks, Live, AtWork
    <3>4. FinishedIsAtRest'
      BY <2>7 DEF FinishBatch, AllTried, End, Goto, NoTasks, FinishedIsAtRest,
        OneAtATime, Live, AtWork
    <3>5. SettledHasItsVerdict'
      BY <2>7 DEF FinishBatch, AllTried, End, Goto, NoTasks,
        SettledHasItsVerdict, Settled, OneAtATime, OnlyExecutingWorks, Live,
        AtWork
    <3>6. QED
      BY <3>1, <3>2, <3>3, <3>4, <3>5
  <2>8. ASSUME NEW d \in Delivery, FinishErrs(d) PROVE DeliveryInv'
    <3>1. OneAtATime'
      BY <2>8 DEF FinishErrs, AllTried, End, Goto, NoTasks, OneAtATime, Live,
        AtWork
    <3>2. OnlyExecutingWorks'
      BY <2>8 DEF FinishErrs, AllTried, End, Goto, NoTasks,
        OnlyExecutingWorks, AtWork
    <3>3. CheckStillHolds'
      BY <2>8 DEF FinishErrs, AllTried, End, Goto, NoTasks, CheckStillHolds,
        OneAtATime, OnlyExecutingWorks, Live, AtWork
    <3>4. FinishedIsAtRest'
      BY <2>8 DEF FinishErrs, AllTried, End, Goto, NoTasks, FinishedIsAtRest,
        OneAtATime, Live, AtWork
    <3>5. SettledHasItsVerdict'
      BY <2>8 DEF FinishErrs, AllTried, End, Goto, NoTasks,
        SettledHasItsVerdict, Settled, OneAtATime, OnlyExecutingWorks, Live,
        AtWork
    <3>6. QED
      BY <3>1, <3>2, <3>3, <3>4, <3>5
  <2>9. ASSUME NEW d \in Delivery, Died(d) PROVE DeliveryInv'
    <3>1. OneAtATime'
      BY <2>9 DEF Died, End, Goto, NoTasks, OneAtATime, Live, AtWork
    <3>2. OnlyExecutingWorks'
      BY <2>9 DEF Died, End, Goto, NoTasks, OnlyExecutingWorks, AtWork
    <3>3. CheckStillHolds'
      BY <2>9 DEF Died, End, Goto, NoTasks, CheckStillHolds, OneAtATime,
        OnlyExecutingWorks, Live, AtWork
    <3>4. FinishedIsAtRest'
      BY <2>9 DEF Died, End, Goto, NoTasks, FinishedIsAtRest, OneAtATime,
        Live, AtWork
    <3>5. SettledHasItsVerdict'
      BY <2>9 DEF Died, End, Goto, NoTasks, SettledHasItsVerdict, Settled,
        OneAtATime, OnlyExecutingWorks, Live, AtWork
    <3>6. QED
      BY <3>1, <3>2, <3>3, <3>4, <3>5
  <2>10. ASSUME NEW d \in Delivery, FailBatch(d) PROVE DeliveryInv'
    <3>1. OneAtATime'
      BY <2>10 DEF FailBatch, Goto, Ends, BatchClosed, OneAtATime, Live,
        AtWork
    <3>2. OnlyExecutingWorks'
      BY <2>10 DEF FailBatch, Goto, Ends, BatchClosed, OnlyExecutingWorks,
        AtWork
    <3>3. CheckStillHolds'
      BY <2>10 DEF FailBatch, Goto, Ends, BatchClosed, CheckStillHolds,
        OneAtATime, OnlyExecutingWorks, Live, AtWork
    <3>4. FinishedIsAtRest'
      BY <2>10 DEF FailBatch, Goto, Ends, BatchClosed, FinishedIsAtRest,
        OneAtATime, Live, AtWork
    <3>5. SettledHasItsVerdict'
      BY <2>10 DEF FailBatch, Goto, Ends, BatchClosed, SettledHasItsVerdict,
        AtWork, Live, Settled
    <3>6. QED
      BY <3>1, <3>2, <3>3, <3>4, <3>5
  <2>11. ASSUME NEW d \in Delivery, FailBatchLost(d) PROVE DeliveryInv'
    <3>1. OneAtATime'
      BY <2>11 DEF FailBatchLost, Goto, Ends, OneAtATime, Live, AtWork
    <3>2. OnlyExecutingWorks'
      BY <2>11 DEF FailBatchLost, Goto, Ends, OnlyExecutingWorks, AtWork
    <3>3. CheckStillHolds'
      BY <2>11 DEF FailBatchLost, Goto, Ends, CheckStillHolds, OneAtATime,
        OnlyExecutingWorks, Live, AtWork
    <3>4. FinishedIsAtRest'
      BY <2>11 DEF FailBatchLost, Goto, Ends, FinishedIsAtRest, OneAtATime,
        Live, AtWork
    <3>5. SettledHasItsVerdict'
      BY <2>11 DEF FailBatchLost, Goto, Ends, SettledHasItsVerdict, AtWork,
        Live, Settled
    <3>6. QED
      BY <3>1, <3>2, <3>3, <3>4, <3>5
  <2>12. ASSUME NEW d \in Delivery, Stop(d) PROVE DeliveryInv'
    <3>1. OneAtATime'
      BY <2>12 DEF Stop, End, Goto, NoTasks, OneAtATime, Live, AtWork
    <3>2. OnlyExecutingWorks'
      BY <2>12 DEF Stop, End, Goto, NoTasks, OnlyExecutingWorks, AtWork
    <3>3. CheckStillHolds'
      BY <2>12 DEF Stop, End, Goto, NoTasks, CheckStillHolds, OneAtATime,
        OnlyExecutingWorks, Live, AtWork
    <3>4. FinishedIsAtRest'
      BY <2>12 DEF Stop, End, Goto, NoTasks, FinishedIsAtRest, OneAtATime,
        Live, AtWork
    <3>5. SettledHasItsVerdict'
      BY <2>12 DEF Stop, End, Goto, NoTasks, SettledHasItsVerdict, Settled,
        OneAtATime, OnlyExecutingWorks, Live, AtWork
    <3>6. QED
      BY <3>1, <3>2, <3>3, <3>4, <3>5
  <2>13. ASSUME NEW d \in Delivery, NEW r \in Run, StartRun(d, r) PROVE DeliveryInv'
    <3>1. OnlyExecutingWorks'
      BY <2>13 DEF StartRun, OnlyExecutingWorks, AtWork
    <3>2. OneAtATime' /\ CheckStillHolds' /\ FinishedIsAtRest' /\ SettledHasItsVerdict'
      BY <2>13 DEF StartRun, OneAtATime, CheckStillHolds, FinishedIsAtRest,
        SettledHasItsVerdict, AtWork, Live, Settled
    <3>3. QED
      BY <3>1, <3>2
  <2>14. ASSUME NEW d \in Delivery, NEW r \in Run, SettleRun(d, r) PROVE DeliveryInv'
    <3>1. OnlyExecutingWorks'
      BY <2>14 DEF SettleRun, RunOver, RunOutcome, LegOf, OnlyExecutingWorks,
        AtWork
    <3>2. OneAtATime' /\ CheckStillHolds' /\ FinishedIsAtRest' /\ SettledHasItsVerdict'
      BY <2>14 DEF SettleRun, RunOver, RunOutcome, LegOf, OneAtATime,
        CheckStillHolds, FinishedIsAtRest, SettledHasItsVerdict, AtWork, Live,
        Settled
    <3>3. QED
      BY <3>1, <3>2
  <2>15. ASSUME NEW d \in Delivery, NEW r \in Run, SettleRunLost(d, r) PROVE DeliveryInv'
    <3>1. OnlyExecutingWorks'
      BY <2>15 DEF SettleRunLost, RunOver, RunOutcome, LegOf,
        OnlyExecutingWorks, AtWork
    <3>2. OneAtATime' /\ CheckStillHolds' /\ FinishedIsAtRest' /\ SettledHasItsVerdict'
      BY <2>15 DEF SettleRunLost, RunOver, RunOutcome, LegOf, OneAtATime,
        CheckStillHolds, FinishedIsAtRest, SettledHasItsVerdict, AtWork, Live,
        Settled
    <3>3. QED
      BY <3>1, <3>2
  <2>16. ASSUME NEW d \in Delivery, NEW r \in Run, Uncredentialed(d, r) PROVE DeliveryInv'
    <3>1. OnlyExecutingWorks'
      BY <2>16 DEF Uncredentialed, OnlyExecutingWorks, AtWork
    <3>2. OneAtATime' /\ CheckStillHolds' /\ FinishedIsAtRest' /\ SettledHasItsVerdict'
      BY <2>16 DEF Uncredentialed, OneAtATime, CheckStillHolds,
        FinishedIsAtRest, SettledHasItsVerdict, AtWork, Live, Settled
    <3>3. QED
      BY <3>1, <3>2
  <2>17. ASSUME NEW d \in Delivery, NEW t \in Trial, OpenTrial(d, t) PROVE DeliveryInv'
    <3>1. OnlyExecutingWorks'
      BY <2>17 DEF OpenTrial, Startable, Task1, Opened, OnlyExecutingWorks,
        AtWork
    <3>2. CheckStillHolds'
      BY <2>17 DEF OpenTrial, Startable, Task1, Opened, CheckStillHolds,
        OneAtATime, OnlyExecutingWorks, Live, AtWork
    <3>3. SettledHasItsVerdict'
      BY <2>17 DEF OpenTrial, Startable, Task1, Opened, SettledHasItsVerdict,
        Settled, OneAtATime, OnlyExecutingWorks, Live, AtWork
    <3>4. OneAtATime' /\ FinishedIsAtRest'
      BY <2>17 DEF OpenTrial, Startable, Task1, Opened, OneAtATime,
        FinishedIsAtRest, AtWork, Live
    <3>5. QED
      BY <3>1, <3>2, <3>3, <3>4
  <2>18. ASSUME NEW d \in Delivery, NEW t \in Trial, OpenErrs(d, t) PROVE DeliveryInv'
    <3>1. OnlyExecutingWorks'
      BY <2>18 DEF OpenErrs, Startable, Task1, Opened, OnlyExecutingWorks,
        AtWork
    <3>2. CheckStillHolds'
      BY <2>18 DEF OpenErrs, Startable, Task1, Opened, CheckStillHolds,
        OneAtATime, OnlyExecutingWorks, Live, AtWork
    <3>3. SettledHasItsVerdict'
      BY <2>18 DEF OpenErrs, Startable, Task1, Opened, SettledHasItsVerdict,
        Settled, OneAtATime, OnlyExecutingWorks, Live, AtWork
    <3>4. OneAtATime' /\ FinishedIsAtRest'
      BY <2>18 DEF OpenErrs, Startable, Task1, Opened, OneAtATime,
        FinishedIsAtRest, AtWork, Live
    <3>5. QED
      BY <3>1, <3>2, <3>3, <3>4
  <2>19. ASSUME NEW d \in Delivery, NEW t \in Trial, SettleTrial(d, t) PROVE DeliveryInv'
    <3>1. OnlyExecutingWorks'
      BY <2>19 DEF SettleTrial, Task1, SettledAs, TrialRow,
        OnlyExecutingWorks, AtWork
    <3>2. CheckStillHolds'
      BY <2>19 DEF SettleTrial, Task1, SettledAs, TrialRow, CheckStillHolds,
        OneAtATime, OnlyExecutingWorks, Live, AtWork
    <3>3. SettledHasItsVerdict'
      BY <2>19 DEF SettleTrial, Task1, SettledAs, TrialRow,
        SettledHasItsVerdict, Settled, OneAtATime, OnlyExecutingWorks, Live,
        AtWork
    <3>4. OneAtATime' /\ FinishedIsAtRest'
      BY <2>19 DEF SettleTrial, Task1, SettledAs, TrialRow, OneAtATime,
        FinishedIsAtRest, AtWork, Live
    <3>5. QED
      BY <3>1, <3>2, <3>3, <3>4
  <2>20. ASSUME NEW d \in Delivery, NEW t \in Trial, SettleErrs(d, t) PROVE DeliveryInv'
    <3>1. OnlyExecutingWorks'
      BY <2>20 DEF SettleErrs, Task1, SettledAs, TrialRow, OnlyExecutingWorks,
        AtWork
    <3>2. CheckStillHolds'
      BY <2>20 DEF SettleErrs, Task1, SettledAs, TrialRow, CheckStillHolds,
        OneAtATime, OnlyExecutingWorks, Live, AtWork
    <3>3. SettledHasItsVerdict'
      BY <2>20 DEF SettleErrs, Task1, SettledAs, TrialRow,
        SettledHasItsVerdict, Settled, OneAtATime, OnlyExecutingWorks, Live,
        AtWork
    <3>4. OneAtATime' /\ FinishedIsAtRest'
      BY <2>20 DEF SettleErrs, Task1, SettledAs, TrialRow, OneAtATime,
        FinishedIsAtRest, AtWork, Live
    <3>5. QED
      BY <3>1, <3>2, <3>3, <3>4
  <2>21. ASSUME NEW d \in Delivery, NEW t \in Trial, AbandonTrial(d, t) PROVE DeliveryInv'
    <3>1. OnlyExecutingWorks'
      BY <2>21 DEF AbandonTrial, Task1, Abandoned, OnlyExecutingWorks, AtWork
    <3>2. CheckStillHolds'
      BY <2>21 DEF AbandonTrial, Task1, Abandoned, CheckStillHolds,
        OneAtATime, OnlyExecutingWorks, Live, AtWork
    <3>3. SettledHasItsVerdict'
      BY <2>21 DEF AbandonTrial, Task1, Abandoned, SettledHasItsVerdict,
        Settled, OneAtATime, OnlyExecutingWorks, Live, AtWork
    <3>4. OneAtATime' /\ FinishedIsAtRest'
      BY <2>21 DEF AbandonTrial, Task1, Abandoned, OneAtATime,
        FinishedIsAtRest, AtWork, Live
    <3>5. QED
      BY <3>1, <3>2, <3>3, <3>4
  <2>22. ASSUME NEW d \in Delivery, NEW t \in Trial, AbandonLost(d, t) PROVE DeliveryInv'
    <3>1. OnlyExecutingWorks'
      BY <2>22 DEF AbandonLost, Task1, OnlyExecutingWorks, AtWork
    <3>2. CheckStillHolds'
      BY <2>22 DEF AbandonLost, Task1, CheckStillHolds, OneAtATime,
        OnlyExecutingWorks, Live, AtWork
    <3>3. SettledHasItsVerdict'
      BY <2>22 DEF AbandonLost, Task1, SettledHasItsVerdict, Settled,
        OneAtATime, OnlyExecutingWorks, Live, AtWork
    <3>4. OneAtATime' /\ FinishedIsAtRest'
      BY <2>22 DEF AbandonLost, Task1, OneAtATime, FinishedIsAtRest, AtWork,
        Live
    <3>5. QED
      BY <3>1, <3>2, <3>3, <3>4
  <2>23. ASSUME NEW d \in Delivery, NEW t \in Trial, TrialDies(d, t) PROVE DeliveryInv'
    <3>1. OneAtATime'
      BY <2>23 DEF TrialDies, Goto, Task1, OneAtATime, Live, AtWork
    <3>2. OnlyExecutingWorks'
      BY <2>23 DEF TrialDies, Goto, Task1, OnlyExecutingWorks, AtWork
    <3>3. CheckStillHolds'
      BY <2>23 DEF TrialDies, Goto, Task1, CheckStillHolds, OneAtATime,
        OnlyExecutingWorks, Live, AtWork
    <3>4. FinishedIsAtRest'
      BY <2>23 DEF TrialDies, Goto, Task1, FinishedIsAtRest, OneAtATime, Live,
        AtWork
    <3>5. SettledHasItsVerdict'
      BY <2>23 DEF TrialDies, Goto, Task1, SettledHasItsVerdict, Settled,
        OneAtATime, OnlyExecutingWorks, Live, AtWork
    <3>6. QED
      BY <3>1, <3>2, <3>3, <3>4, <3>5
  <2>24. ASSUME NEW d \in Delivery, NEW t \in Trial, OpenInterrupted(d, t) PROVE DeliveryInv'
    <3>1. OnlyExecutingWorks'
      BY <2>24 DEF OpenInterrupted, Task1, Opened, OnlyExecutingWorks, AtWork
    <3>2. CheckStillHolds'
      BY <2>24 DEF OpenInterrupted, Task1, Opened, CheckStillHolds,
        OneAtATime, OnlyExecutingWorks, Live, AtWork
    <3>3. SettledHasItsVerdict'
      BY <2>24 DEF OpenInterrupted, Task1, Opened, SettledHasItsVerdict,
        Settled, OneAtATime, OnlyExecutingWorks, Live, AtWork
    <3>4. OneAtATime' /\ FinishedIsAtRest'
      BY <2>24 DEF OpenInterrupted, Task1, Opened, OneAtATime,
        FinishedIsAtRest, AtWork, Live
    <3>5. QED
      BY <3>1, <3>2, <3>3, <3>4
  <2>25. ASSUME NEW d \in Delivery, NEW t \in Trial, SettleInterrupted(d, t) PROVE DeliveryInv'
    <3>1. OnlyExecutingWorks'
      BY <2>25 DEF SettleInterrupted, Task1, SettledAs, TrialRow,
        OnlyExecutingWorks, AtWork
    <3>2. CheckStillHolds'
      BY <2>25 DEF SettleInterrupted, Task1, SettledAs, TrialRow,
        CheckStillHolds, OneAtATime, OnlyExecutingWorks, Live, AtWork
    <3>3. SettledHasItsVerdict'
      BY <2>25 DEF SettleInterrupted, Task1, SettledAs, TrialRow,
        SettledHasItsVerdict, Settled, OneAtATime, OnlyExecutingWorks, Live,
        AtWork
    <3>4. OneAtATime' /\ FinishedIsAtRest'
      BY <2>25 DEF SettleInterrupted, Task1, SettledAs, TrialRow, OneAtATime,
        FinishedIsAtRest, AtWork, Live
    <3>5. QED
      BY <3>1, <3>2, <3>3, <3>4
  <2>26. ASSUME NEW d \in Delivery, NEW t \in Trial, SettleOvertaken(d, t) PROVE DeliveryInv'
    <3>1. OnlyExecutingWorks'
      BY <2>26 DEF SettleOvertaken, Task1, SettledAs, Abandoned, TrialRow,
        OnlyExecutingWorks, AtWork
    <3>2. CheckStillHolds'
      BY <2>26 DEF SettleOvertaken, Task1, SettledAs, Abandoned, TrialRow,
        CheckStillHolds, OneAtATime, OnlyExecutingWorks, Live, AtWork
    <3>3. SettledHasItsVerdict'
      BY <2>26 DEF SettleOvertaken, Task1, SettledAs, Abandoned, TrialRow,
        SettledHasItsVerdict, Settled, OneAtATime, OnlyExecutingWorks, Live,
        AtWork
    <3>4. OneAtATime' /\ FinishedIsAtRest'
      BY <2>26 DEF SettleOvertaken, Task1, SettledAs, Abandoned, TrialRow,
        OneAtATime, FinishedIsAtRest, AtWork, Live
    <3>5. QED
      BY <3>1, <3>2, <3>3, <3>4
  <2>27. ASSUME NEW s \in Server, SweepReads(s) PROVE DeliveryInv'
    BY <2>27 DEF SweepReads, OneAtATime, OnlyExecutingWorks, CheckStillHolds,
      FinishedIsAtRest, SettledHasItsVerdict, AtWork, Live, Settled
  <2>28. ASSUME NEW s \in Server, SweepVoids(s) PROVE DeliveryInv'
    <3>1. CheckStillHolds'
      BY <2>28 DEF SweepVoids, Swept, CheckStillHolds, OneAtATime,
        OnlyExecutingWorks, Live, AtWork
    <3>2. SettledHasItsVerdict'
      BY <2>28 DEF SweepVoids, Swept, SettledHasItsVerdict, Settled,
        OneAtATime, OnlyExecutingWorks, Live, AtWork
    <3>3. OneAtATime' /\ OnlyExecutingWorks' /\ FinishedIsAtRest'
      BY <2>28 DEF SweepVoids, Swept, OneAtATime, OnlyExecutingWorks,
        FinishedIsAtRest, AtWork, Live
    <3>4. QED
      BY <3>1, <3>2, <3>3
  <2>29. ASSUME NEW s \in Server, SweepFailsRuns(s) PROVE DeliveryInv'
    BY <2>29 DEF SweepFailsRuns, OneAtATime, OnlyExecutingWorks,
      CheckStillHolds, FinishedIsAtRest, SettledHasItsVerdict, AtWork, Live,
      Settled
  <2>30. ASSUME NEW s \in Server, SweepFailsBatch(s) PROVE DeliveryInv'
    <3>1. FinishedIsAtRest'
      BY <2>30 DEF SweepFailsBatch, BatchClosed, FinishedIsAtRest, OneAtATime,
        Live, AtWork
    <3>2. OneAtATime' /\ OnlyExecutingWorks' /\ CheckStillHolds' /\ SettledHasItsVerdict'
      BY <2>30 DEF SweepFailsBatch, BatchClosed, OneAtATime,
        OnlyExecutingWorks, CheckStillHolds, SettledHasItsVerdict, AtWork,
        Live, Settled
    <3>3. QED
      BY <3>1, <3>2
  <2>31. ASSUME NEW s \in Server, SweepErrs(s) PROVE DeliveryInv'
    BY <2>31 DEF SweepErrs, OneAtATime, OnlyExecutingWorks, CheckStillHolds,
      FinishedIsAtRest, SettledHasItsVerdict, AtWork, Live, Settled
  <2>32. CASE AgeBatch
    BY <2>32 DEF AgeBatch, OneAtATime, OnlyExecutingWorks, CheckStillHolds,
      FinishedIsAtRest, SettledHasItsVerdict, AtWork, Live, Settled
  <2>33. ASSUME NEW t \in Trial, AgeTrial(t) PROVE DeliveryInv'
    BY <2>33 DEF AgeTrial, WorkedOn, OneAtATime, OnlyExecutingWorks,
      CheckStillHolds, FinishedIsAtRest, SettledHasItsVerdict, AtWork, Live,
      Settled
  <2>34. CASE UNCHANGED vars
    BY <2>34 DEF vars, OneAtATime, OnlyExecutingWorks, CheckStillHolds,
      FinishedIsAtRest, SettledHasItsVerdict, AtWork, Live, Settled
  <2>35. QED
    BY <2>1, <2>2, <2>3, <2>4, <2>5, <2>6, <2>7, <2>8, <2>9, <2>10, <2>11,
      <2>12, <2>13, <2>14, <2>15, <2>16, <2>17, <2>18, <2>19, <2>20, <2>21,
      <2>22, <2>23, <2>24, <2>25, <2>26, <2>27, <2>28, <2>29, <2>30, <2>31,
      <2>32, <2>33, <2>34 DEF Next, ExecuteStep, RunStep, TrialStep, SweepStep
<1>3. QED
  BY <1>1, <1>2, TypeCorrect, PTL DEF Spec

(* What has been running for longer than the cutoff is nobody's work, when no
   delivery works on one trial for so long: whoever opens the trial again makes
   it young.  However many deliveries overlap, and however many servers sweep. *)
THEOREM SweepInvariant ==
  ASSUME ~Outlives
  PROVE  Spec => []SweepInv
<1>1. Init => SweepInv
  BY DEF Init, SweepInv, NoTasks
<1>2. TypeOK /\ SweepInv /\ [Next]_vars => SweepInv'
  <2> SUFFICES ASSUME TypeOK, SweepInv, [Next]_vars PROVE SweepInv'
    OBVIOUS
  <2> USE DEF TypeOK, SweepInv, rows, work, clock, sweeper
  <2>1. CASE Dispatched
    BY <2>1 DEF Dispatched
  <2>2. CASE DispatchFails
    BY <2>2 DEF DispatchFails
  <2>3. ASSUME NEW d \in Delivery, Deliver(d) PROVE SweepInv'
    BY <2>3 DEF Deliver
  <2>4. ASSUME NEW d \in Delivery, CheckActive(d) PROVE SweepInv'
    BY <2>4 DEF CheckActive
  <2>5. ASSUME NEW d \in Delivery, Reopen(d) PROVE SweepInv'
    BY <2>5 DEF Reopen
  <2>6. ASSUME NEW d \in Delivery, PreludeErrs(d) PROVE SweepInv'
    BY <2>6 DEF PreludeErrs
  <2>7. ASSUME NEW d \in Delivery, FinishBatch(d) PROVE SweepInv'
    BY <2>7 DEF FinishBatch, End, NoTasks
  <2>8. ASSUME NEW d \in Delivery, FinishErrs(d) PROVE SweepInv'
    BY <2>8 DEF FinishErrs, End, NoTasks
  <2>9. ASSUME NEW d \in Delivery, Died(d) PROVE SweepInv'
    BY <2>9 DEF Died, End, NoTasks
  <2>10. ASSUME NEW d \in Delivery, FailBatch(d) PROVE SweepInv'
    BY <2>10 DEF FailBatch
  <2>11. ASSUME NEW d \in Delivery, FailBatchLost(d) PROVE SweepInv'
    BY <2>11 DEF FailBatchLost
  <2>12. ASSUME NEW d \in Delivery, Stop(d) PROVE SweepInv'
    BY <2>12 DEF Stop, End, NoTasks
  <2>13. ASSUME NEW d \in Delivery, NEW r \in Run, StartRun(d, r) PROVE SweepInv'
    BY <2>13 DEF StartRun
  <2>14. ASSUME NEW d \in Delivery, NEW r \in Run, SettleRun(d, r) PROVE SweepInv'
    BY <2>14 DEF SettleRun
  <2>15. ASSUME NEW d \in Delivery, NEW r \in Run, SettleRunLost(d, r) PROVE SweepInv'
    BY <2>15 DEF SettleRunLost
  <2>16. ASSUME NEW d \in Delivery, NEW r \in Run, Uncredentialed(d, r) PROVE SweepInv'
    BY <2>16 DEF Uncredentialed
  <2>17. ASSUME NEW d \in Delivery, NEW t \in Trial, OpenTrial(d, t) PROVE SweepInv'
    BY <2>17 DEF OpenTrial, Task1
  <2>18. ASSUME NEW d \in Delivery, NEW t \in Trial, OpenErrs(d, t) PROVE SweepInv'
    BY <2>18 DEF OpenErrs, Task1
  <2>19. ASSUME NEW d \in Delivery, NEW t \in Trial, SettleTrial(d, t) PROVE SweepInv'
    BY <2>19 DEF SettleTrial, Task1
  <2>20. ASSUME NEW d \in Delivery, NEW t \in Trial, SettleErrs(d, t) PROVE SweepInv'
    BY <2>20 DEF SettleErrs, Task1
  <2>21. ASSUME NEW d \in Delivery, NEW t \in Trial, AbandonTrial(d, t) PROVE SweepInv'
    BY <2>21 DEF AbandonTrial, Task1
  <2>22. ASSUME NEW d \in Delivery, NEW t \in Trial, AbandonLost(d, t) PROVE SweepInv'
    BY <2>22 DEF AbandonLost, Task1
  <2>23. ASSUME NEW d \in Delivery, NEW t \in Trial, TrialDies(d, t) PROVE SweepInv'
    BY <2>23 DEF TrialDies, Task1
  <2>24. ASSUME NEW d \in Delivery, NEW t \in Trial, OpenInterrupted(d, t) PROVE SweepInv'
    BY <2>24 DEF OpenInterrupted, Task1
  <2>25. ASSUME NEW d \in Delivery, NEW t \in Trial, SettleInterrupted(d, t) PROVE SweepInv'
    BY <2>25 DEF SettleInterrupted, Task1
  <2>26. ASSUME NEW d \in Delivery, NEW t \in Trial, SettleOvertaken(d, t) PROVE SweepInv'
    BY <2>26 DEF SettleOvertaken, Task1
  <2>27. ASSUME NEW s \in Server, SweepReads(s) PROVE SweepInv'
    BY <2>27 DEF SweepReads
  <2>28. ASSUME NEW s \in Server, SweepVoids(s) PROVE SweepInv'
    BY <2>28 DEF SweepVoids
  <2>29. ASSUME NEW s \in Server, SweepFailsRuns(s) PROVE SweepInv'
    BY <2>29 DEF SweepFailsRuns
  <2>30. ASSUME NEW s \in Server, SweepFailsBatch(s) PROVE SweepInv'
    BY <2>30 DEF SweepFailsBatch
  <2>31. ASSUME NEW s \in Server, SweepErrs(s) PROVE SweepInv'
    BY <2>31 DEF SweepErrs
  <2>32. CASE AgeBatch
    BY <2>32 DEF AgeBatch
  <2>33. ASSUME NEW t \in Trial, AgeTrial(t) PROVE SweepInv'
    BY <2>33 DEF AgeTrial, WorkedOn
  <2>34. CASE UNCHANGED vars
    BY <2>34 DEF vars
  <2>35. QED
    BY <2>1, <2>2, <2>3, <2>4, <2>5, <2>6, <2>7, <2>8, <2>9, <2>10, <2>11,
      <2>12, <2>13, <2>14, <2>15, <2>16, <2>17, <2>18, <2>19, <2>20, <2>21,
      <2>22, <2>23, <2>24, <2>25, <2>26, <2>27, <2>28, <2>29, <2>30, <2>31,
      <2>32, <2>33, <2>34 DEF Next, ExecuteStep, RunStep, TrialStep, SweepStep
<1>3. QED
  BY <1>1, <1>2, TypeCorrect, PTL DEF Spec

(* A row with a failure has a verdict, whatever overlaps, outlives or
   overtakes: opening clears the failure.                                  *)
THEOREM FailureInvariant == Spec => []FailureIsOver
<1>1. Init => FailureIsOver
  BY DEF Init, FailureIsOver, NoTrial
<1>2. TypeOK /\ FailureIsOver /\ [Next]_vars => FailureIsOver'
  <2> SUFFICES ASSUME TypeOK, FailureIsOver, [Next]_vars PROVE FailureIsOver'
    OBVIOUS
  <2> USE DEF FailureIsOver, rows, work, clock, sweeper
  <2>1. CASE Dispatched
    BY <2>1 DEF Dispatched
  <2>2. CASE DispatchFails
    BY <2>2 DEF DispatchFails
  <2>3. ASSUME NEW d \in Delivery, Deliver(d) PROVE FailureIsOver'
    BY <2>3 DEF Deliver
  <2>4. ASSUME NEW d \in Delivery, CheckActive(d) PROVE FailureIsOver'
    BY <2>4 DEF CheckActive
  <2>5. ASSUME NEW d \in Delivery, Reopen(d) PROVE FailureIsOver'
    BY <2>5 DEF Reopen
  <2>6. ASSUME NEW d \in Delivery, PreludeErrs(d) PROVE FailureIsOver'
    BY <2>6 DEF PreludeErrs
  <2>7. ASSUME NEW d \in Delivery, FinishBatch(d) PROVE FailureIsOver'
    BY <2>7 DEF FinishBatch
  <2>8. ASSUME NEW d \in Delivery, FinishErrs(d) PROVE FailureIsOver'
    BY <2>8 DEF FinishErrs
  <2>9. ASSUME NEW d \in Delivery, Died(d) PROVE FailureIsOver'
    BY <2>9 DEF Died
  <2>10. ASSUME NEW d \in Delivery, FailBatch(d) PROVE FailureIsOver'
    BY <2>10 DEF FailBatch
  <2>11. ASSUME NEW d \in Delivery, FailBatchLost(d) PROVE FailureIsOver'
    BY <2>11 DEF FailBatchLost
  <2>12. ASSUME NEW d \in Delivery, Stop(d) PROVE FailureIsOver'
    BY <2>12 DEF Stop
  <2>13. ASSUME NEW d \in Delivery, NEW r \in Run, StartRun(d, r) PROVE FailureIsOver'
    BY <2>13 DEF StartRun
  <2>14. ASSUME NEW d \in Delivery, NEW r \in Run, SettleRun(d, r) PROVE FailureIsOver'
    BY <2>14 DEF SettleRun
  <2>15. ASSUME NEW d \in Delivery, NEW r \in Run, SettleRunLost(d, r) PROVE FailureIsOver'
    BY <2>15 DEF SettleRunLost
  <2>16. ASSUME NEW d \in Delivery, NEW r \in Run, Uncredentialed(d, r) PROVE FailureIsOver'
    BY <2>16 DEF Uncredentialed
  <2>17. ASSUME NEW d \in Delivery, NEW t \in Trial, OpenTrial(d, t) PROVE FailureIsOver'
    BY <2>17 DEF OpenTrial, Opened, TypeOK, TrialRow
  <2>18. ASSUME NEW d \in Delivery, NEW t \in Trial, OpenErrs(d, t) PROVE FailureIsOver'
    <3>1. CASE UNCHANGED trial
      BY <3>1
    <3>2. CASE trial' = [trial EXCEPT ![t] = Opened(@)]
      BY <3>2 DEF Opened, TypeOK, TrialRow
    <3>3. QED
      BY <2>18, <3>1, <3>2 DEF OpenErrs
  <2>19. ASSUME NEW d \in Delivery, NEW t \in Trial, SettleTrial(d, t) PROVE FailureIsOver'
    BY <2>19 DEF SettleTrial, SettledAs, TypeOK, TrialRow
  <2>20. ASSUME NEW d \in Delivery, NEW t \in Trial, SettleErrs(d, t) PROVE FailureIsOver'
    <3>1. CASE UNCHANGED trial
      BY <3>1
    <3>2. CASE \E verdict \in {"scored", "void"} :
                 trial' = [trial EXCEPT ![t] = SettledAs(@, verdict)]
      BY <3>2 DEF SettledAs, TypeOK, TrialRow
    <3>3. QED
      BY <2>20, <3>1, <3>2 DEF SettleErrs
  <2>21. ASSUME NEW d \in Delivery, NEW t \in Trial, AbandonTrial(d, t) PROVE FailureIsOver'
    BY <2>21 DEF AbandonTrial, Abandoned, TypeOK, TrialRow
  <2>22. ASSUME NEW d \in Delivery, NEW t \in Trial, AbandonLost(d, t) PROVE FailureIsOver'
    BY <2>22 DEF AbandonLost
  <2>23. ASSUME NEW d \in Delivery, NEW t \in Trial, TrialDies(d, t) PROVE FailureIsOver'
    BY <2>23 DEF TrialDies
  <2>24. ASSUME NEW d \in Delivery, NEW t \in Trial, OpenInterrupted(d, t) PROVE FailureIsOver'
    BY <2>24 DEF OpenInterrupted, Opened, TypeOK, TrialRow
  <2>25. ASSUME NEW d \in Delivery, NEW t \in Trial, SettleInterrupted(d, t) PROVE FailureIsOver'
    BY <2>25 DEF SettleInterrupted, SettledAs, TypeOK, TrialRow
  <2>26. ASSUME NEW d \in Delivery, NEW t \in Trial, SettleOvertaken(d, t) PROVE FailureIsOver'
    BY <2>26 DEF SettleOvertaken, SettledAs, Abandoned, TypeOK, TrialRow
  <2>27. ASSUME NEW s \in Server, SweepReads(s) PROVE FailureIsOver'
    BY <2>27 DEF SweepReads
  <2>28. ASSUME NEW s \in Server, SweepVoids(s) PROVE FailureIsOver'
    BY <2>28 DEF SweepVoids, Swept, TypeOK, TrialRow
  <2>29. ASSUME NEW s \in Server, SweepFailsRuns(s) PROVE FailureIsOver'
    BY <2>29 DEF SweepFailsRuns
  <2>30. ASSUME NEW s \in Server, SweepFailsBatch(s) PROVE FailureIsOver'
    BY <2>30 DEF SweepFailsBatch
  <2>31. ASSUME NEW s \in Server, SweepErrs(s) PROVE FailureIsOver'
    BY <2>31 DEF SweepErrs
  <2>32. CASE AgeBatch
    BY <2>32 DEF AgeBatch
  <2>33. ASSUME NEW t \in Trial, AgeTrial(t) PROVE FailureIsOver'
    BY <2>33 DEF AgeTrial
  <2>34. CASE UNCHANGED vars
    BY <2>34 DEF vars
  <2>35. QED
    BY <2>1, <2>2, <2>3, <2>4, <2>5, <2>6, <2>7, <2>8, <2>9, <2>10, <2>11,
      <2>12, <2>13, <2>14, <2>15, <2>16, <2>17, <2>18, <2>19, <2>20, <2>21,
      <2>22, <2>23, <2>24, <2>25, <2>26, <2>27, <2>28, <2>29, <2>30, <2>31,
      <2>32, <2>33, <2>34 DEF Next, ExecuteStep, RunStep, TrialStep, SweepStep
<1>3. QED
  BY <1>1, <1>2, TypeCorrect, PTL DEF Spec

---------------------------------------------------------------------------
(* What follows.                                                           *)

(* No verdict comes to stand beside a failure but in the two ways that
   VerdictsAreClean names, with any number of servers and whatever overlaps,
   outlives or overtakes.                                                  *)
THEOREM ScoredIsClean == Spec => VerdictsAreClean
<1> DEFINE Clean == \A t \in Trial :
      trial'[t].status = "scored" /\ trial'[t].failure =>
        \/ trial[t].status = "scored" /\ trial[t].failure
        \/ trial[t].status = "void" /\ \E d \in Delivery : task[d][t] = "working"
        \/ \E d \in Delivery : SettleOvertaken(d, t)
<1>1. TypeOK /\ FailureIsOver /\ [Next]_vars => [Clean]_vars
  <2> SUFFICES ASSUME TypeOK, FailureIsOver, [Next]_vars PROVE Clean
    OBVIOUS
  <2> USE DEF rows, work, clock, sweeper
  <2>1. CASE Dispatched
    BY <2>1 DEF Dispatched
  <2>2. CASE DispatchFails
    BY <2>2 DEF DispatchFails
  <2>3. ASSUME NEW d \in Delivery, Deliver(d) PROVE Clean
    BY <2>3 DEF Deliver
  <2>4. ASSUME NEW d \in Delivery, CheckActive(d) PROVE Clean
    BY <2>4 DEF CheckActive
  <2>5. ASSUME NEW d \in Delivery, Reopen(d) PROVE Clean
    BY <2>5 DEF Reopen
  <2>6. ASSUME NEW d \in Delivery, PreludeErrs(d) PROVE Clean
    BY <2>6 DEF PreludeErrs
  <2>7. ASSUME NEW d \in Delivery, FinishBatch(d) PROVE Clean
    BY <2>7 DEF FinishBatch
  <2>8. ASSUME NEW d \in Delivery, FinishErrs(d) PROVE Clean
    BY <2>8 DEF FinishErrs
  <2>9. ASSUME NEW d \in Delivery, Died(d) PROVE Clean
    BY <2>9 DEF Died
  <2>10. ASSUME NEW d \in Delivery, FailBatch(d) PROVE Clean
    BY <2>10 DEF FailBatch
  <2>11. ASSUME NEW d \in Delivery, FailBatchLost(d) PROVE Clean
    BY <2>11 DEF FailBatchLost
  <2>12. ASSUME NEW d \in Delivery, Stop(d) PROVE Clean
    BY <2>12 DEF Stop
  <2>13. ASSUME NEW d \in Delivery, NEW r \in Run, StartRun(d, r) PROVE Clean
    BY <2>13 DEF StartRun
  <2>14. ASSUME NEW d \in Delivery, NEW r \in Run, SettleRun(d, r) PROVE Clean
    BY <2>14 DEF SettleRun
  <2>15. ASSUME NEW d \in Delivery, NEW r \in Run, SettleRunLost(d, r) PROVE Clean
    BY <2>15 DEF SettleRunLost
  <2>16. ASSUME NEW d \in Delivery, NEW r \in Run, Uncredentialed(d, r) PROVE Clean
    BY <2>16 DEF Uncredentialed
  <2>17. ASSUME NEW d \in Delivery, NEW t \in Trial, OpenTrial(d, t) PROVE Clean
    BY <2>17 DEF OpenTrial, Opened, TypeOK, TrialRow
  <2>18. ASSUME NEW d \in Delivery, NEW t \in Trial, OpenErrs(d, t) PROVE Clean
    <3>1. CASE UNCHANGED trial
      BY <3>1
    <3>2. CASE trial' = [trial EXCEPT ![t] = Opened(@)]
      BY <3>2 DEF Opened, TypeOK, TrialRow
    <3>3. QED
      BY <2>18, <3>1, <3>2 DEF OpenErrs
  <2>19. ASSUME NEW d \in Delivery, NEW t \in Trial, SettleTrial(d, t) PROVE Clean
    <3>1. task[d][t] = "working"
      BY <2>19 DEF SettleTrial
    <3>2. QED
      BY <2>19, <3>1 DEF SettleTrial, SettledAs, TypeOK, TrialRow, FailureIsOver
  <2>20. ASSUME NEW d \in Delivery, NEW t \in Trial, SettleErrs(d, t) PROVE Clean
    <3>1. task[d][t] = "working"
      BY <2>20 DEF SettleErrs
    <3>2. CASE UNCHANGED trial
      BY <3>2
    <3>3. CASE \E verdict \in {"scored", "void"} :
                 trial' = [trial EXCEPT ![t] = SettledAs(@, verdict)]
      BY <3>1, <3>3 DEF SettledAs, TypeOK, TrialRow, FailureIsOver
    <3>4. QED
      BY <2>20, <3>2, <3>3 DEF SettleErrs
  <2>21. ASSUME NEW d \in Delivery, NEW t \in Trial, AbandonTrial(d, t) PROVE Clean
    BY <2>21 DEF AbandonTrial, Abandoned, TypeOK, TrialRow
  <2>22. ASSUME NEW d \in Delivery, NEW t \in Trial, AbandonLost(d, t) PROVE Clean
    BY <2>22 DEF AbandonLost
  <2>23. ASSUME NEW d \in Delivery, NEW t \in Trial, TrialDies(d, t) PROVE Clean
    BY <2>23 DEF TrialDies
  <2>24. ASSUME NEW d \in Delivery, NEW t \in Trial, OpenInterrupted(d, t) PROVE Clean
    BY <2>24 DEF OpenInterrupted, Opened, TypeOK, TrialRow
  <2>25. ASSUME NEW d \in Delivery, NEW t \in Trial, SettleInterrupted(d, t) PROVE Clean
    <3>1. task[d][t] = "working"
      BY <2>25 DEF SettleInterrupted
    <3>2. QED
      BY <2>25, <3>1 DEF SettleInterrupted, SettledAs, TypeOK, TrialRow, FailureIsOver
  <2>26. ASSUME NEW d \in Delivery, NEW t \in Trial, SettleOvertaken(d, t) PROVE Clean
    <3>1. \A u \in Trial \ {t} : trial'[u] = trial[u]
      BY <2>26 DEF SettleOvertaken, TypeOK
    <3>2. QED
      BY <2>26, <3>1
  <2>27. ASSUME NEW s \in Server, SweepReads(s) PROVE Clean
    BY <2>27 DEF SweepReads
  <2>28. ASSUME NEW s \in Server, SweepVoids(s) PROVE Clean
    BY <2>28 DEF SweepVoids, Swept, TypeOK, TrialRow
  <2>29. ASSUME NEW s \in Server, SweepFailsRuns(s) PROVE Clean
    BY <2>29 DEF SweepFailsRuns
  <2>30. ASSUME NEW s \in Server, SweepFailsBatch(s) PROVE Clean
    BY <2>30 DEF SweepFailsBatch
  <2>31. ASSUME NEW s \in Server, SweepErrs(s) PROVE Clean
    BY <2>31 DEF SweepErrs
  <2>32. CASE AgeBatch
    BY <2>32 DEF AgeBatch
  <2>33. ASSUME NEW t \in Trial, AgeTrial(t) PROVE Clean
    BY <2>33 DEF AgeTrial
  <2>34. CASE UNCHANGED vars
    BY <2>34 DEF vars
  <2>35. QED
    BY <2>1, <2>2, <2>3, <2>4, <2>5, <2>6, <2>7, <2>8, <2>9, <2>10, <2>11,
      <2>12, <2>13, <2>14, <2>15, <2>16, <2>17, <2>18, <2>19, <2>20, <2>21,
      <2>22, <2>23, <2>24, <2>25, <2>26, <2>27, <2>28, <2>29, <2>30, <2>31,
      <2>32, <2>33, <2>34 DEF Next, ExecuteStep, RunStep, TrialStep, SweepStep
<1>2. QED
  BY <1>1, TypeCorrect, FailureInvariant, PTL DEF Spec, VerdictsAreClean

(* No delivery works on a trial of a batch whose row says it is finished, for
   no other reason than that deliveries do not overlap.                    *)
THEOREM FinishedBatchRests ==
  ASSUME ~Overlap
  PROVE  Spec => []NoWorkUnderFinishedBatch
<1>1. DeliveryInv => NoWorkUnderFinishedBatch
  BY DEF DeliveryInv, OnlyExecutingWorks, FinishedIsAtRest, NoWorkUnderFinishedBatch
<1>2. QED
  BY <1>1, DeliveryInvariant, PTL

(* Whatever overlaps, outlives or overtakes, the status a run is closed with is
   the one it keeps.                                                       *)
THEOREM RunStatusesFinal == Spec => RunStatusFinal
<1> DEFINE Final == \A r \in Run : run[r] # "running" => run'[r] = run[r]
<1>1. TypeOK /\ [Next]_vars => [Final]_vars
  <2> SUFFICES ASSUME TypeOK, [Next]_vars PROVE Final
    OBVIOUS
  <2> USE DEF rows, work, clock, sweeper
  <2>1. CASE Dispatched
    BY <2>1 DEF Dispatched
  <2>2. CASE DispatchFails
    BY <2>2 DEF DispatchFails
  <2>3. ASSUME NEW d \in Delivery, Deliver(d) PROVE Final
    BY <2>3 DEF Deliver
  <2>4. ASSUME NEW d \in Delivery, CheckActive(d) PROVE Final
    BY <2>4 DEF CheckActive
  <2>5. ASSUME NEW d \in Delivery, Reopen(d) PROVE Final
    BY <2>5 DEF Reopen
  <2>6. ASSUME NEW d \in Delivery, PreludeErrs(d) PROVE Final
    BY <2>6 DEF PreludeErrs
  <2>7. ASSUME NEW d \in Delivery, FinishBatch(d) PROVE Final
    BY <2>7 DEF FinishBatch
  <2>8. ASSUME NEW d \in Delivery, FinishErrs(d) PROVE Final
    BY <2>8 DEF FinishErrs
  <2>9. ASSUME NEW d \in Delivery, Died(d) PROVE Final
    BY <2>9 DEF Died
  <2>10. ASSUME NEW d \in Delivery, FailBatch(d) PROVE Final
    BY <2>10 DEF FailBatch
  <2>11. ASSUME NEW d \in Delivery, FailBatchLost(d) PROVE Final
    BY <2>11 DEF FailBatchLost
  <2>12. ASSUME NEW d \in Delivery, Stop(d) PROVE Final
    BY <2>12 DEF Stop
  <2>13. ASSUME NEW d \in Delivery, NEW r \in Run, StartRun(d, r) PROVE Final
    BY <2>13 DEF StartRun
  <2>14. ASSUME NEW d \in Delivery, NEW r \in Run, SettleRun(d, r) PROVE Final
    BY <2>14 DEF SettleRun, TypeOK, RunClosed
  <2>15. ASSUME NEW d \in Delivery, NEW r \in Run, SettleRunLost(d, r) PROVE Final
    BY <2>15 DEF SettleRunLost
  <2>16. ASSUME NEW d \in Delivery, NEW r \in Run, Uncredentialed(d, r) PROVE Final
    BY <2>16 DEF Uncredentialed
  <2>17. ASSUME NEW d \in Delivery, NEW t \in Trial, OpenTrial(d, t) PROVE Final
    BY <2>17 DEF OpenTrial
  <2>18. ASSUME NEW d \in Delivery, NEW t \in Trial, OpenErrs(d, t) PROVE Final
    BY <2>18 DEF OpenErrs
  <2>19. ASSUME NEW d \in Delivery, NEW t \in Trial, SettleTrial(d, t) PROVE Final
    BY <2>19 DEF SettleTrial
  <2>20. ASSUME NEW d \in Delivery, NEW t \in Trial, SettleErrs(d, t) PROVE Final
    BY <2>20 DEF SettleErrs
  <2>21. ASSUME NEW d \in Delivery, NEW t \in Trial, AbandonTrial(d, t) PROVE Final
    BY <2>21 DEF AbandonTrial
  <2>22. ASSUME NEW d \in Delivery, NEW t \in Trial, AbandonLost(d, t) PROVE Final
    BY <2>22 DEF AbandonLost
  <2>23. ASSUME NEW d \in Delivery, NEW t \in Trial, TrialDies(d, t) PROVE Final
    BY <2>23 DEF TrialDies
  <2>24. ASSUME NEW d \in Delivery, NEW t \in Trial, OpenInterrupted(d, t) PROVE Final
    BY <2>24 DEF OpenInterrupted
  <2>25. ASSUME NEW d \in Delivery, NEW t \in Trial, SettleInterrupted(d, t) PROVE Final
    BY <2>25 DEF SettleInterrupted
  <2>26. ASSUME NEW d \in Delivery, NEW t \in Trial, SettleOvertaken(d, t) PROVE Final
    BY <2>26 DEF SettleOvertaken
  <2>27. ASSUME NEW s \in Server, SweepReads(s) PROVE Final
    BY <2>27 DEF SweepReads
  <2>28. ASSUME NEW s \in Server, SweepVoids(s) PROVE Final
    BY <2>28 DEF SweepVoids
  <2>29. ASSUME NEW s \in Server, SweepFailsRuns(s) PROVE Final
    BY <2>29 DEF SweepFailsRuns, TypeOK, RunClosed
  <2>30. ASSUME NEW s \in Server, SweepFailsBatch(s) PROVE Final
    BY <2>30 DEF SweepFailsBatch
  <2>31. ASSUME NEW s \in Server, SweepErrs(s) PROVE Final
    BY <2>31 DEF SweepErrs
  <2>32. CASE AgeBatch
    BY <2>32 DEF AgeBatch
  <2>33. ASSUME NEW t \in Trial, AgeTrial(t) PROVE Final
    BY <2>33 DEF AgeTrial
  <2>34. CASE UNCHANGED vars
    BY <2>34 DEF vars
  <2>35. QED
    BY <2>1, <2>2, <2>3, <2>4, <2>5, <2>6, <2>7, <2>8, <2>9, <2>10, <2>11,
    <2>12, <2>13, <2>14, <2>15, <2>16, <2>17, <2>18, <2>19, <2>20, <2>21,
    <2>22, <2>23, <2>24, <2>25, <2>26, <2>27, <2>28, <2>29, <2>30, <2>31,
    <2>32, <2>33, <2>34 DEF Next, ExecuteStep, RunStep, TrialStep,
    SweepStep
<1>2. QED
  BY <1>1, TypeCorrect, PTL DEF Spec, RunStatusFinal

(* A run is only called finished when one of its trials has a verdict.     *)
THEOREM FinishedRunsHaveEvidence ==
  ASSUME ~Overlap
  PROVE  Spec => FinishedRunHasEvidence
<1> DEFINE Evidence == \A r \in Run :
      run[r] = "running" /\ run'[r] = "finished" =>
        \E t \in TrialsOf(r) : Settled(trial[t])
<1>1. TypeOK /\ SettledHasItsVerdict /\ [Next]_vars => [Evidence]_vars
  <2> SUFFICES ASSUME TypeOK, SettledHasItsVerdict, [Next]_vars PROVE Evidence
    OBVIOUS
  <2> USE DEF TypeOK, rows, work, clock, sweeper
  <2>1. CASE Dispatched
    BY <2>1 DEF Dispatched
  <2>2. CASE DispatchFails
    BY <2>2 DEF DispatchFails
  <2>3. ASSUME NEW d \in Delivery, Deliver(d) PROVE Evidence
    BY <2>3 DEF Deliver
  <2>4. ASSUME NEW d \in Delivery, CheckActive(d) PROVE Evidence
    BY <2>4 DEF CheckActive
  <2>5. ASSUME NEW d \in Delivery, Reopen(d) PROVE Evidence
    BY <2>5 DEF Reopen
  <2>6. ASSUME NEW d \in Delivery, PreludeErrs(d) PROVE Evidence
    BY <2>6 DEF PreludeErrs
  <2>7. ASSUME NEW d \in Delivery, FinishBatch(d) PROVE Evidence
    BY <2>7 DEF FinishBatch
  <2>8. ASSUME NEW d \in Delivery, FinishErrs(d) PROVE Evidence
    BY <2>8 DEF FinishErrs
  <2>9. ASSUME NEW d \in Delivery, Died(d) PROVE Evidence
    BY <2>9 DEF Died
  <2>10. ASSUME NEW d \in Delivery, FailBatch(d) PROVE Evidence
    BY <2>10 DEF FailBatch
  <2>11. ASSUME NEW d \in Delivery, FailBatchLost(d) PROVE Evidence
    BY <2>11 DEF FailBatchLost
  <2>12. ASSUME NEW d \in Delivery, Stop(d) PROVE Evidence
    BY <2>12 DEF Stop
  <2>13. ASSUME NEW d \in Delivery, NEW r \in Run, StartRun(d, r) PROVE Evidence
    BY <2>13 DEF StartRun
  <2>14. ASSUME NEW d \in Delivery, NEW r \in Run, SettleRun(d, r) PROVE Evidence
    <3>1. CASE RunOutcome(d, r) = "finished"
      <4>1. leg[d][r] = "going"
        BY <2>14, <3>1 DEF SettleRun, RunOver, RunOutcome
      <4>2. PICK t \in TrialsOf(r) : task[d][t] # "broken"
        BY <3>1 DEF RunOutcome
      <4>3. task[d][t] = "settled"
        BY <2>14, <4>1, <4>2 DEF SettleRun, RunOver
      <4>4. QED
        BY <2>14, <4>3 DEF SettleRun, SettledHasItsVerdict, TrialsOf
    <3>2. CASE RunOutcome(d, r) # "finished"
      BY <2>14, <3>2 DEF SettleRun, RunClosed
    <3>3. QED
      BY <3>1, <3>2
  <2>15. ASSUME NEW d \in Delivery, NEW r \in Run, SettleRunLost(d, r) PROVE Evidence
    BY <2>15 DEF SettleRunLost
  <2>16. ASSUME NEW d \in Delivery, NEW r \in Run, Uncredentialed(d, r) PROVE Evidence
    BY <2>16 DEF Uncredentialed
  <2>17. ASSUME NEW d \in Delivery, NEW t \in Trial, OpenTrial(d, t) PROVE Evidence
    BY <2>17 DEF OpenTrial
  <2>18. ASSUME NEW d \in Delivery, NEW t \in Trial, OpenErrs(d, t) PROVE Evidence
    BY <2>18 DEF OpenErrs
  <2>19. ASSUME NEW d \in Delivery, NEW t \in Trial, SettleTrial(d, t) PROVE Evidence
    BY <2>19 DEF SettleTrial
  <2>20. ASSUME NEW d \in Delivery, NEW t \in Trial, SettleErrs(d, t) PROVE Evidence
    BY <2>20 DEF SettleErrs
  <2>21. ASSUME NEW d \in Delivery, NEW t \in Trial, AbandonTrial(d, t) PROVE Evidence
    BY <2>21 DEF AbandonTrial
  <2>22. ASSUME NEW d \in Delivery, NEW t \in Trial, AbandonLost(d, t) PROVE Evidence
    BY <2>22 DEF AbandonLost
  <2>23. ASSUME NEW d \in Delivery, NEW t \in Trial, TrialDies(d, t) PROVE Evidence
    BY <2>23 DEF TrialDies
  <2>24. ASSUME NEW d \in Delivery, NEW t \in Trial, OpenInterrupted(d, t) PROVE Evidence
    BY <2>24 DEF OpenInterrupted
  <2>25. ASSUME NEW d \in Delivery, NEW t \in Trial, SettleInterrupted(d, t) PROVE Evidence
    BY <2>25 DEF SettleInterrupted
  <2>26. ASSUME NEW d \in Delivery, NEW t \in Trial, SettleOvertaken(d, t) PROVE Evidence
    BY <2>26 DEF SettleOvertaken
  <2>27. ASSUME NEW s \in Server, SweepReads(s) PROVE Evidence
    BY <2>27 DEF SweepReads
  <2>28. ASSUME NEW s \in Server, SweepVoids(s) PROVE Evidence
    BY <2>28 DEF SweepVoids
  <2>29. ASSUME NEW s \in Server, SweepFailsRuns(s) PROVE Evidence
    BY <2>29 DEF SweepFailsRuns, RunClosed
  <2>30. ASSUME NEW s \in Server, SweepFailsBatch(s) PROVE Evidence
    BY <2>30 DEF SweepFailsBatch
  <2>31. ASSUME NEW s \in Server, SweepErrs(s) PROVE Evidence
    BY <2>31 DEF SweepErrs
  <2>32. CASE AgeBatch
    BY <2>32 DEF AgeBatch
  <2>33. ASSUME NEW t \in Trial, AgeTrial(t) PROVE Evidence
    BY <2>33 DEF AgeTrial
  <2>34. CASE UNCHANGED vars
    BY <2>34 DEF vars
  <2>35. QED
    BY <2>1, <2>2, <2>3, <2>4, <2>5, <2>6, <2>7, <2>8, <2>9, <2>10, <2>11,
    <2>12, <2>13, <2>14, <2>15, <2>16, <2>17, <2>18, <2>19, <2>20, <2>21,
    <2>22, <2>23, <2>24, <2>25, <2>26, <2>27, <2>28, <2>29, <2>30, <2>31,
    <2>32, <2>33, <2>34 DEF Next, ExecuteStep, RunStep, TrialStep, SweepStep
<1>2. QED
  BY <1>1, TypeCorrect, DeliveryInvariant, PTL DEF Spec, DeliveryInv, FinishedRunHasEvidence

---------------------------------------------------------------------------
(* The life of a trial.                                                    *)

(* While one delivery is at work no other is at any trial.                 *)
LEMMA OthersIdle ==
  ASSUME TypeOK, DeliveryInv, NEW d \in Delivery, AtWork(d)
  PROVE  \A e \in Delivery, t \in Trial : task[e][t] # "idle" => e = d
  BY DEF DeliveryInv, OneAtATime, OnlyExecutingWorks, Live

(* The rows of the trials, what each delivery is at and what the sweeps have
   found tell how far a trial has come.                                    *)
LEMMA LifeStutters ==
  ASSUME UNCHANGED <<trial, task, found>>
  PROVE  UNCHANGED Life!vars
  BY DEF Life!vars, Row, AtHand, InHand

(* Opening a trial that its delivery has not begun.                        *)
LEMMA OpenIsOpen ==
  ASSUME TypeOK, DeliveryInv, NEW d \in Delivery, NEW t \in Trial,
         AtWork(d), task[d][t] = "idle",
         trial' = [trial EXCEPT ![t] = Opened(@)],
         NEW to \in {"working", "broken"}, task' = [task EXCEPT ![d][t] = to],
         UNCHANGED found
  PROVE  Life!Next
<1>1. AtHand[t] = {}
  BY OthersIdle DEF AtHand
<1>2. Row' = [Row EXCEPT ![t] = "running"]
  BY DEF Row, Opened, TypeOK, TrialRow
<1>3. CASE to = "working"
  <2>1. AtHand' = [AtHand EXCEPT ![t] = {d}]
    <3>1. \A u \in Trial \ {t} : AtHand'[u] = AtHand[u]
      BY DEF AtHand, TypeOK
    <3>2. AtHand'[t] = {d}
      BY <1>1, <1>3 DEF AtHand, TypeOK
    <3>. QED
      BY <3>1, <3>2 DEF AtHand
  <2>. QED
    BY <1>1, <1>2, <2>1 DEF Life!Next, Life!Open, InHand
<1>4. CASE to = "broken"
  <2>1. AtHand' = AtHand
    <3>1. \A u \in Trial : AtHand'[u] = AtHand[u]
      BY <1>4 DEF AtHand, TypeOK
    <3>. QED
      BY <3>1 DEF AtHand
  <2>. QED
    BY <1>1, <1>2, <2>1 DEF Life!Next, Life!Open, InHand
<1>. QED
  BY <1>3, <1>4

(* A trial whose delivery is no longer at work on it has no other.         *)
LEMMA Dropped ==
  ASSUME TypeOK, DeliveryInv, NEW d \in Delivery, NEW t \in Trial, AtWork(d),
         NEW to \in {"settled", "closing", "broken"}, task' = [task EXCEPT ![d][t] = to]
  PROVE  /\ AtHand' = [u \in Trial |-> IF u \in {t} THEN {} ELSE AtHand[u]]
         /\ AtHand' = [AtHand EXCEPT ![t] = {}]
<1>1. \A u \in Trial \ {t} : AtHand'[u] = AtHand[u]
  BY DEF AtHand, TypeOK
<1>2. AtHand'[t] = {}
  <2>1. \A e \in Delivery : e # d => task'[e][t] # "working"
    BY OthersIdle DEF TypeOK
  <2>2. task'[d][t] # "working"
    BY DEF TypeOK
  <2>. QED
    BY <2>1, <2>2 DEF AtHand
<1>. QED
  BY <1>1, <1>2 DEF AtHand

(* It may have said nothing.                                               *)
LEMMA DropIsLose ==
  ASSUME TypeOK, DeliveryInv, NEW d \in Delivery, NEW t \in Trial, AtWork(d), UNCHANGED trial,
         NEW to \in {"settled", "closing", "broken"}, task' = [task EXCEPT ![d][t] = to],
         UNCHANGED found
  PROVE  Life!Next
<1>1. UNCHANGED <<Row, InHand>>
  BY DEF Row, InHand
<1>2. AtHand' = [u \in Trial |-> IF u \in {t} THEN {} ELSE AtHand[u]]
  BY Dropped
<1>3. Life!Lose({t})
  BY <1>1, <1>2 DEF Life!Lose
<1>. QED
  BY <1>3 DEF Life!Next

(* Or it has given the trial a verdict.                                    *)
LEMMA WorkEnds ==
  ASSUME TypeOK, DeliveryInv, NEW d \in Delivery, NEW t \in Trial, AtWork(d),
         task[d][t] = "working",
         NEW verdict \in {"scored", "void"}, Row' = [Row EXCEPT ![t] = verdict],
         NEW to \in {"settled", "closing", "broken"}, task' = [task EXCEPT ![d][t] = to],
         UNCHANGED found
  PROVE  Life!Next
<1>1. AtHand[t] # {} /\ UNCHANGED InHand
  BY DEF AtHand, InHand
<1>2. AtHand' = [AtHand EXCEPT ![t] = {}]
  BY Dropped
<1>. QED
  BY <1>1, <1>2 DEF Life!Next, Life!Conclude

(* As settle does.                                                         *)
LEMMA SettleIsConclude ==
  ASSUME TypeOK, DeliveryInv, NEW d \in Delivery, NEW t \in Trial, AtWork(d),
         task[d][t] = "working",
         \E verdict \in {"scored", "void"} : trial' = [trial EXCEPT ![t] = SettledAs(@, verdict)],
         NEW to \in {"settled", "closing", "broken"}, task' = [task EXCEPT ![d][t] = to],
         UNCHANGED found
  PROVE  Life!Next
<1>1. PICK verdict \in {"scored", "void"} : trial' = [trial EXCEPT ![t] = SettledAs(@, verdict)]
  OBVIOUS
<1>2. \A u \in Trial : Row'[u] = IF u = t THEN verdict ELSE Row[u]
  BY <1>1 DEF Row, SettledAs, TypeOK, TrialRow
<1>3. Row' = [Row EXCEPT ![t] = verdict]
  BY <1>2 DEF Row
<1>. QED
  BY <1>3, WorkEnds

(* A delivery that is over, or was killed, has let go of its trials.       *)
LEMMA DeliveryGoes ==
  ASSUME TypeOK, DeliveryInv, NEW d \in Delivery, UNCHANGED trial,
         task' = [task EXCEPT ![d] = NoTasks],
         UNCHANGED found
  PROVE  Life!Next
<1>. DEFINE T == {t \in Trial : task[d][t] = "working"}
<1>1. \A t \in T, e \in Delivery : e # d => task[e][t] # "working"
  BY DEF DeliveryInv, OneAtATime, OnlyExecutingWorks, Live
<1>2. \A t \in Trial : AtHand'[t] = IF t \in T THEN {} ELSE AtHand[t]
  <2>. TAKE t \in Trial
  <2>1. \A e \in Delivery : task'[e][t] = IF e = d THEN "idle" ELSE task[e][t]
    BY DEF TypeOK, NoTasks
  <2>. QED
    BY <1>1, <2>1 DEF AtHand
<1>3. AtHand' = [t \in Trial |-> IF t \in T THEN {} ELSE AtHand[t]]
  BY <1>2 DEF AtHand
<1>4. Life!Lose(T)
  BY <1>3 DEF Life!Lose, Row, InHand
<1>. QED
  BY <1>4 DEF Life!Next

(* What a sweep has found are trials.                                      *)
LEMMA FoundAreTrials ==
  ASSUME TypeOK'
  PROVE  InHand' \in SUBSET Trial
  BY DEF TypeOK, InHand

(* When deliveries do not overlap and none outlives the cutoff, each step of the
   deliveries and of the sweeps, on however many servers, is one in the life of
   the trials, or none.                                                    *)
THEOREM BatchImplementsTrialLife ==
  ASSUME ~Overlap, ~Outlives
  PROVE  Spec => ImplementsTrialLife
<1>1. Init => Life!Init
  BY DEF Init, Life!Init, Row, AtHand, InHand, NoTrial, NoTasks
<1>2. TypeOK /\ TypeOK' /\ DeliveryInv /\ SweepInv /\ [Next]_vars => [Life!Next]_(Life!vars)
  <2> SUFFICES ASSUME TypeOK, TypeOK', DeliveryInv, SweepInv, [Next]_vars
               PROVE  Life!Next \/ UNCHANGED Life!vars
    OBVIOUS
  <2> USE DEF AtWork, rows, work, sweeper
  <2>1. CASE Dispatched
    BY <2>1, LifeStutters DEF Dispatched
  <2>2. CASE DispatchFails
    BY <2>2, LifeStutters DEF DispatchFails
  <2>3. ASSUME NEW d \in Delivery, Deliver(d) PROVE Life!Next \/ UNCHANGED Life!vars
    BY <2>3, LifeStutters DEF Deliver
  <2>4. ASSUME NEW d \in Delivery, CheckActive(d) PROVE Life!Next \/ UNCHANGED Life!vars
    BY <2>4, LifeStutters DEF CheckActive
  <2>5. ASSUME NEW d \in Delivery, Reopen(d) PROVE Life!Next \/ UNCHANGED Life!vars
    BY <2>5, LifeStutters DEF Reopen
  <2>6. ASSUME NEW d \in Delivery, PreludeErrs(d) PROVE Life!Next \/ UNCHANGED Life!vars
    BY <2>6, LifeStutters DEF PreludeErrs
  <2>7. ASSUME NEW d \in Delivery, FinishBatch(d) PROVE Life!Next \/ UNCHANGED Life!vars
    BY <2>7, DeliveryGoes DEF FinishBatch, End
  <2>8. ASSUME NEW d \in Delivery, FinishErrs(d) PROVE Life!Next \/ UNCHANGED Life!vars
    BY <2>8, DeliveryGoes DEF FinishErrs, End
  <2>9. ASSUME NEW d \in Delivery, Died(d) PROVE Life!Next \/ UNCHANGED Life!vars
    BY <2>9, DeliveryGoes DEF Died, End
  <2>10. ASSUME NEW d \in Delivery, FailBatch(d) PROVE Life!Next \/ UNCHANGED Life!vars
    BY <2>10, LifeStutters DEF FailBatch
  <2>11. ASSUME NEW d \in Delivery, FailBatchLost(d) PROVE Life!Next \/ UNCHANGED Life!vars
    BY <2>11, LifeStutters DEF FailBatchLost
  <2>12. ASSUME NEW d \in Delivery, Stop(d) PROVE Life!Next \/ UNCHANGED Life!vars
    BY <2>12, DeliveryGoes DEF Stop, End
  <2>13. ASSUME NEW d \in Delivery, NEW r \in Run, StartRun(d, r) PROVE Life!Next \/ UNCHANGED Life!vars
    BY <2>13, LifeStutters DEF StartRun
  <2>14. ASSUME NEW d \in Delivery, NEW r \in Run, SettleRun(d, r) PROVE Life!Next \/ UNCHANGED Life!vars
    BY <2>14, LifeStutters DEF SettleRun
  <2>15. ASSUME NEW d \in Delivery, NEW r \in Run, SettleRunLost(d, r) PROVE Life!Next \/ UNCHANGED Life!vars
    BY <2>15, LifeStutters DEF SettleRunLost
  <2>16. ASSUME NEW d \in Delivery, NEW r \in Run, Uncredentialed(d, r) PROVE Life!Next \/ UNCHANGED Life!vars
    BY <2>16, LifeStutters DEF Uncredentialed
  <2>17. ASSUME NEW d \in Delivery, NEW t \in Trial, OpenTrial(d, t) PROVE Life!Next \/ UNCHANGED Life!vars
    BY <2>17, OpenIsOpen DEF OpenTrial, Startable, Task1
  <2>18. ASSUME NEW d \in Delivery, NEW t \in Trial, OpenErrs(d, t) PROVE Life!Next \/ UNCHANGED Life!vars
    <3>1. CASE UNCHANGED trial
      BY <2>18, <3>1, DropIsLose DEF OpenErrs, Startable, Task1
    <3>2. CASE trial' = [trial EXCEPT ![t] = Opened(@)]
      BY <2>18, <3>2, OpenIsOpen DEF OpenErrs, Startable, Task1
    <3>3. QED
      BY <2>18, <3>1, <3>2 DEF OpenErrs
  <2>19. ASSUME NEW d \in Delivery, NEW t \in Trial, SettleTrial(d, t) PROVE Life!Next \/ UNCHANGED Life!vars
    BY <2>19, SettleIsConclude DEF SettleTrial, Task1
  <2>20. ASSUME NEW d \in Delivery, NEW t \in Trial, SettleErrs(d, t) PROVE Life!Next \/ UNCHANGED Life!vars
    <3>1. CASE UNCHANGED trial
      BY <2>20, <3>1, DropIsLose DEF SettleErrs, Task1
    <3>2. CASE \E verdict \in {"scored", "void"} :
                 trial' = [trial EXCEPT ![t] = SettledAs(@, verdict)]
      BY <2>20, <3>2, SettleIsConclude DEF SettleErrs, Task1
    <3>3. QED
      BY <2>20, <3>1, <3>2 DEF SettleErrs
  <2>21. ASSUME NEW d \in Delivery, NEW t \in Trial, AbandonTrial(d, t) PROVE Life!Next \/ UNCHANGED Life!vars
    <3>1. CASE trial[t].status = "running" /\ task[d][t] = "working"
      <4>1. Row' = [Row EXCEPT ![t] = "void"]
        BY <2>21, <3>1 DEF AbandonTrial, Row, Abandoned, TypeOK, TrialRow
      <4>2. QED
        BY <2>21, <3>1, <4>1, WorkEnds DEF AbandonTrial, Task1
    <3>2. CASE trial[t].status = "running" /\ task[d][t] = "closing"
      <4>1. AtHand' = AtHand /\ AtHand[t] = {}
        BY <2>21, <3>2, OthersIdle DEF AbandonTrial, Task1, AtHand, TypeOK,
          AtWork
      <4>2. Row' = [u \in Trial |-> IF u \in {t} THEN "void" ELSE Row[u]]
        BY <2>21, <3>2 DEF AbandonTrial, Row, Abandoned, TypeOK, TrialRow
      <4>3. Life!Void({t})
        BY <2>21, <3>2, <4>1, <4>2 DEF AbandonTrial, Life!Void, Row, InHand
      <4>4. QED
        BY <4>3 DEF Life!Next
    <3>3. CASE trial[t].status # "running"
      <4>1. UNCHANGED trial
        BY <2>21, <3>3 DEF AbandonTrial, Abandoned, TypeOK
      <4>2. QED
        BY <2>21, <4>1, DropIsLose DEF AbandonTrial, Task1
    <3>4. QED
      BY <2>21, <3>1, <3>2, <3>3 DEF AbandonTrial
  <2>22. ASSUME NEW d \in Delivery, NEW t \in Trial, AbandonLost(d, t) PROVE Life!Next \/ UNCHANGED Life!vars
    BY <2>22, DropIsLose DEF AbandonLost, Task1
  <2>23. ASSUME NEW d \in Delivery, NEW t \in Trial, TrialDies(d, t) PROVE Life!Next \/ UNCHANGED Life!vars
    BY <2>23, DropIsLose DEF TrialDies, Task1
  <2>24. ASSUME NEW d \in Delivery, NEW t \in Trial, OpenInterrupted(d, t) PROVE Life!Next \/ UNCHANGED Life!vars
    BY <2>24, OpenIsOpen DEF OpenInterrupted, Task1
  <2>25. ASSUME NEW d \in Delivery, NEW t \in Trial, SettleInterrupted(d, t) PROVE Life!Next \/ UNCHANGED Life!vars
    BY <2>25, SettleIsConclude DEF SettleInterrupted, Task1
  <2>26. ASSUME NEW d \in Delivery, NEW t \in Trial, SettleOvertaken(d, t) PROVE Life!Next \/ UNCHANGED Life!vars
    <3>1. PICK verdict \in {"scored", "void"} :
                 trial' = [trial EXCEPT ![t] = SettledAs(Abandoned(@), verdict)]
      BY <2>26 DEF SettleOvertaken
    <3>2. \A u \in Trial : Row'[u] = IF u = t THEN verdict ELSE Row[u]
      BY <3>1 DEF Row, SettledAs, Abandoned, TypeOK, TrialRow
    <3>3. Row' = [Row EXCEPT ![t] = verdict]
      BY <3>2 DEF Row
    <3>4. QED
      BY <2>26, <3>3, WorkEnds DEF SettleOvertaken, Task1
  <2>27. ASSUME NEW s \in Server, SweepReads(s) PROVE Life!Next \/ UNCHANGED Life!vars
    <3>1. \A t \in InHand' \ InHand : AtHand[t] = {} /\ Row[t] = "running"
      BY <2>27 DEF SweepReads, TypeOK, SweepInv, InHand, AtHand, Row
    <3>2. Life!Find(InHand')
      BY <2>27, <3>1 DEF SweepReads, Life!Find, Row, AtHand
    <3>3. QED
      BY <2>27, <3>2, FoundAreTrials DEF SweepReads, Life!Next
  <2>28. ASSUME NEW s \in Server, SweepVoids(s) PROVE Life!Next \/ UNCHANGED Life!vars
    <3>1. found[s] \subseteq InHand /\ InHand' \subseteq InHand
      BY <2>28 DEF SweepVoids, TypeOK, InHand
    <3>2. AtHand' = AtHand
      BY <2>28 DEF SweepVoids, AtHand
    <3>3. Row' = [t \in Trial |-> IF t \in found[s] THEN "void" ELSE Row[t]]
      BY <2>28 DEF SweepVoids, Row, Swept, TypeOK
    <3>4. Life!Void(found[s])
      BY <3>1, <3>2, <3>3 DEF Life!Void
    <3>5. QED
      BY <3>4 DEF Life!Next, TypeOK
  <2>29. ASSUME NEW s \in Server, SweepFailsRuns(s) PROVE Life!Next \/ UNCHANGED Life!vars
    BY <2>29, LifeStutters DEF SweepFailsRuns
  <2>30. ASSUME NEW s \in Server, SweepFailsBatch(s) PROVE Life!Next \/ UNCHANGED Life!vars
    BY <2>30, LifeStutters DEF SweepFailsBatch
  <2>31. ASSUME NEW s \in Server, SweepErrs(s) PROVE Life!Next \/ UNCHANGED Life!vars
    <3>1. InHand' \subseteq InHand
      BY <2>31 DEF SweepErrs, TypeOK, InHand
    <3>2. Life!Find(InHand')
      BY <2>31, <3>1 DEF SweepErrs, Life!Find, Row, AtHand
    <3>3. QED
      BY <2>31, <3>2, FoundAreTrials DEF Life!Next
  <2>32. CASE AgeBatch
    BY <2>32, LifeStutters DEF AgeBatch
  <2>33. ASSUME NEW t \in Trial, AgeTrial(t) PROVE Life!Next \/ UNCHANGED Life!vars
    BY <2>33, LifeStutters DEF AgeTrial
  <2>34. CASE UNCHANGED vars
    BY <2>34, LifeStutters DEF vars
  <2>35. QED
    BY <2>1, <2>2, <2>3, <2>4, <2>5, <2>6, <2>7, <2>8, <2>9, <2>10, <2>11,
      <2>12, <2>13, <2>14, <2>15, <2>16, <2>17, <2>18, <2>19, <2>20, <2>21,
      <2>22, <2>23, <2>24, <2>25, <2>26, <2>27, <2>28, <2>29, <2>30, <2>31,
      <2>32, <2>33, <2>34 DEF Next, ExecuteStep, RunStep, TrialStep, SweepStep
<1>3. QED
  BY <1>1, <1>2, TypeCorrect, DeliveryInvariant, SweepInvariant, PTL
  DEF Spec, ImplementsTrialLife, Life!Spec

(* For whoever waits for a verdict.                                        *)
Lives ==
  INSTANCE TrialLifeProofs
    WITH Worker <- Delivery, Verdict <- {"scored", "void"},
         row <- Row, owners <- AtHand, doomed <- InHand

(* So on any number of servers, and though statements be overtaken, a trial is
   at one delivery's hands at most; it is left alone while it is at work there,
   and its verdict stands until a retry opens it, unless some sweep had found
   it and not voided it yet.                                               *)
THEOREM TrialsAreLeftAlone ==
  ASSUME ~Overlap, ~Outlives
  PROVE  Spec => []Lives!OneWorker /\ Lives!LeftAlone /\ Lives!LastWord
<1>1. Life!Init => Lives!Init
  BY DEF Life!Init, Lives!Init
<1>2. [Life!Next]_(Life!vars) => [Lives!Next]_(Lives!vars)
  BY DEF Life!Next, Lives!Next, Life!vars, Lives!vars, Life!Open, Lives!Open,
    Life!Conclude, Lives!Conclude, Life!Lose, Lives!Lose, Life!Find, Lives!Find,
    Life!Void, Lives!Void
<1>3. Lives!Spec => []Lives!OneWorker
  BY Lives!TrialsHaveOneWorker
<1>4. Lives!Spec => Lives!LeftAlone
  BY Lives!WorkersAreLeftAlone
<1>5. Lives!Spec => Lives!LastWord
  BY Lives!VerdictsAreTheLastWord
<1>6. QED
  BY <1>1, <1>2, <1>3, <1>4, <1>5, BatchImplementsTrialLife, PTL
    DEF ImplementsTrialLife, Life!Spec, Lives!Spec
===========================================================================
