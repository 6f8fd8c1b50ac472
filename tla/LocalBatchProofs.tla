-------------------------- MODULE LocalBatchProofs --------------------------
(***************************************************************************)
(* Proofs about LocalBatch, for any trials, servers, tries and faults, and *)
(* with the six hour rule or without.                                      *)
(***************************************************************************)
EXTENDS LocalBatch, TLAPS

(* Voiding what is missing leaves alone the trials that have a row.        *)
LEMMA VoidedRows ==
  ASSUME TypeOK, NEW missing \in SUBSET Trial, NEW t \in Trial
  PROVE  /\ Voided(missing)[t] \in TrialRow
         /\ trial[t].status # "absent" => Voided(missing)[t] = trial[t]
         /\ t \in missing => Voided(missing)[t].status # "absent"
         /\ Voided(missing)[t].status = "absent" => trial[t].status = "absent"
  BY DEF TypeOK, Voided, Unreported, TrialRow, TrialStatus

(* Rows, what the machine knows and where each handler is keep their types,*)
(* and nothing is reported of a trial before the machine has sent it.      *)
THEOREM TypeCorrect == Spec => []TypeOK
<1>1. Init => TypeOK
  <2>. SUFFICES ASSUME Init PROVE TypeOK
    OBVIOUS
  <2>1. trial \in [Trial -> TrialRow] /\ batch \in BatchStatus /\ run \in RunStatus
    BY DEF Init, NoTrial, TrialRow, TrialStatus, BatchStatus, RunStatus
  <2>2. quiet \in BOOLEAN /\ expired \in BOOLEAN /\ welcome \in BOOLEAN /\ beat \in BOOLEAN
    BY DEF Init
  <2>3. faults \in 0..MaxFaults
    BY LocalBatchAssumption DEF Init
  <2>4. /\ finish \in [step : {"idle", "looked", "read", "settled", "done"}, missing : SUBSET Trial]
        /\ sweep \in [Server -> [step : {"idle", "read"}, missing : SUBSET Trial]]
    BY DEF Init, Idle
  <2>5. /\ machine \in {"working", "finishing", "leaving", "gone"}
        /\ slot \in [Trial -> {"todo", "waiting", "told", "noted"}]
        /\ result \in [Trial -> {"scored", "failed"}]
        /\ tries \in [Trial -> Nat]
        /\ report \in [Trial -> {"none", "sent", "looked", "opened", "landed", "refused", "broken"}]
        /\ \A t \in Trial : slot[t] = "todo" <=> report[t] = "none"
    BY DEF Init
  <2>. QED
    BY <2>1, <2>2, <2>3, <2>4, <2>5 DEF TypeOK
<1>2. TypeOK /\ [Next]_vars => TypeOK'
  <2>. SUFFICES ASSUME TypeOK, [Next]_vars PROVE TypeOK'
    OBVIOUS
  <2>0. \A m \in SUBSET Trial : Voided(m) \in [Trial -> TrialRow]
    BY DEF TypeOK, Voided, Unreported, TrialRow, TrialStatus
  <2>. USE LocalBatchAssumption, <2>0
       DEF TypeOK, BatchStatus, RunStatus, TrialRow, TrialStatus, store, cli, handlers, Idle
  <2>1. ASSUME NEW t \in Trial, Send(t) PROVE TypeOK'
    BY <2>1 DEF Send
  <2>2. ASSUME NEW t \in Trial, Look(t) PROVE TypeOK'
    BY <2>2 DEF Look
  <2>3. ASSUME NEW t \in Trial, OpenTrial(t) PROVE TypeOK'
    BY <2>3 DEF OpenTrial, Opened
  <2>4. ASSUME NEW t \in Trial, Land(t) PROVE TypeOK'
    BY <2>4 DEF Land, SettledAs, Abandoned
  <2>5. ASSUME NEW t \in Trial, ReportBreaks(t) PROVE TypeOK'
    BY <2>5 DEF ReportBreaks, Breaks
  <2>6. ASSUME NEW t \in Trial, Told(t) PROVE TypeOK'
    BY <2>6 DEF Told
  <2>7. ASSUME NEW t \in Trial, Noted(t) PROVE TypeOK'
    BY <2>7 DEF Noted
  <2>8. ASSUME AllReported PROVE TypeOK'
    BY <2>8 DEF AllReported
  <2>9. ASSUME Stopped PROVE TypeOK'
    BY <2>9 DEF Stopped
  <2>10. ASSUME Gone PROVE TypeOK'
    BY <2>10 DEF Gone
  <2>11. ASSUME FinishLooks PROVE TypeOK'
    BY <2>11 DEF FinishLooks
  <2>12. ASSUME FinishReads PROVE TypeOK'
    BY <2>12 DEF FinishReads, Missing
  <2>13. ASSUME FinishSettles PROVE TypeOK'
    BY <2>13 DEF FinishSettles, RunClosed
  <2>14. ASSUME FinishCloses PROVE TypeOK'
    BY <2>14 DEF FinishCloses, BatchClosed
  <2>15. ASSUME FinishAnswers PROVE TypeOK'
    BY <2>15 DEF FinishAnswers
  <2>16. ASSUME FinishBreaks PROVE TypeOK'
    BY <2>16 DEF FinishBreaks, Breaks
  <2>17. ASSUME BeatLooks PROVE TypeOK'
    BY <2>17 DEF BeatLooks
  <2>18. ASSUME BeatTouches PROVE TypeOK'
    BY <2>18 DEF BeatTouches
  <2>19. ASSUME BeatBreaks PROVE TypeOK'
    <3>1. faults' \in 0..MaxFaults
      BY <2>19 DEF BeatBreaks, Breaks
    <3>2. beat' \in BOOLEAN
      BY <2>19 DEF BeatBreaks
    <3>. QED
      BY <2>19, <3>1, <3>2 DEF BeatBreaks
  <2>20. ASSUME GoneQuiet PROVE TypeOK'
    BY <2>20 DEF GoneQuiet, Quieten
  <2>21. ASSUME CutOff PROVE TypeOK'
    <3>1. faults' \in 0..MaxFaults
      BY <2>21 DEF CutOff, Breaks
    <3>2. quiet' \in BOOLEAN /\ welcome' \in BOOLEAN
      BY <2>21 DEF CutOff, Quieten
    <3>. QED
      BY <2>21, <3>1, <3>2 DEF CutOff, Quieten
  <2>22. ASSUME NEW s \in Server, SweepReads(s) PROVE TypeOK'
    BY <2>22 DEF SweepReads, Missing
  <2>23. ASSUME NEW s \in Server, SweepCloses(s) PROVE TypeOK'
    BY <2>23 DEF SweepCloses, RunClosed
  <2>24. ASSUME NEW s \in Server, SweepBreaks(s) PROVE TypeOK'
    BY <2>24 DEF SweepBreaks, Breaks
  <2>25. ASSUME NEW t \in Trial, SweepVoids(t) PROVE TypeOK'
    BY <2>25 DEF SweepVoids, Swept
  <2>26. ASSUME RunExpires PROVE TypeOK'
    BY <2>26 DEF RunExpires, RunClosed
  <2>27. ASSUME BatchExpires PROVE TypeOK'
    BY <2>27 DEF BatchExpires, BatchClosed
  <2>28. CASE UNCHANGED vars
    BY <2>28 DEF vars
  <2>. QED
    BY <2>1, <2>2, <2>3, <2>4, <2>5, <2>6, <2>7, <2>8, <2>9, <2>10, <2>11,
       <2>12, <2>13, <2>14, <2>15, <2>16, <2>17, <2>18, <2>19, <2>20, <2>21,
       <2>22, <2>23, <2>24, <2>25, <2>26, <2>27, <2>28
       DEF Next, Reporting, Finishing, CheckingIn
<1>. QED
  BY <1>1, <1>2, PTL DEF Spec

---------------------------------------------------------------------------
(* What a handler has done so far shows in the row of its trial.           *)
ReportsInv ==
  \A t \in Trial :
    /\ slot[t] = "told" => report[t] = "landed"
    /\ report[t] = "opened" => trial[t].status = "running"
    /\ report[t] = "landed" => trial[t].status = Outcome(t)

(* It does, at every step.                                                 *)
LEMMA ReportsInvariant == Spec => []ReportsInv
<1>1. Init => ReportsInv
  BY DEF Init, ReportsInv
<1>2. TypeOK /\ ReportsInv /\ [Next]_vars => ReportsInv'
  <2>. SUFFICES ASSUME TypeOK, ReportsInv, [Next]_vars PROVE ReportsInv'
    OBVIOUS
  <2>. USE DEF TypeOK, ReportsInv, TrialRow, TrialStatus, store, cli, handlers, Outcome
  <2>1. ASSUME NEW t \in Trial, Send(t) PROVE ReportsInv'
    BY <2>1 DEF Send
  <2>2. ASSUME NEW t \in Trial, Look(t) PROVE ReportsInv'
    BY <2>2 DEF Look
  <2>3. ASSUME NEW t \in Trial, OpenTrial(t) PROVE ReportsInv'
    BY <2>3 DEF OpenTrial, Opened
  <2>4. ASSUME NEW t \in Trial, Land(t) PROVE ReportsInv'
    BY <2>4 DEF Land, SettledAs, Abandoned
  <2>5. ASSUME NEW t \in Trial, ReportBreaks(t) PROVE ReportsInv'
    BY <2>5 DEF ReportBreaks, Breaks
  <2>6. ASSUME NEW t \in Trial, Told(t) PROVE ReportsInv'
    BY <2>6 DEF Told
  <2>7. ASSUME NEW t \in Trial, Noted(t) PROVE ReportsInv'
    BY <2>7 DEF Noted
  <2>8. ASSUME AllReported PROVE ReportsInv'
    BY <2>8 DEF AllReported
  <2>9. ASSUME Stopped PROVE ReportsInv'
    BY <2>9 DEF Stopped
  <2>10. ASSUME Gone PROVE ReportsInv'
    BY <2>10 DEF Gone
  <2>11. ASSUME FinishLooks PROVE ReportsInv'
    BY <2>11 DEF FinishLooks
  <2>12. ASSUME FinishReads PROVE ReportsInv'
    BY <2>12 DEF FinishReads, Missing
  <2>13. ASSUME FinishSettles PROVE ReportsInv'
    BY <2>13, VoidedRows DEF FinishSettles
  <2>14. ASSUME FinishCloses PROVE ReportsInv'
    BY <2>14 DEF FinishCloses
  <2>15. ASSUME FinishAnswers PROVE ReportsInv'
    BY <2>15 DEF FinishAnswers
  <2>16. ASSUME FinishBreaks PROVE ReportsInv'
    BY <2>16 DEF FinishBreaks, Breaks
  <2>17. ASSUME BeatLooks PROVE ReportsInv'
    BY <2>17 DEF BeatLooks
  <2>18. ASSUME BeatTouches PROVE ReportsInv'
    BY <2>18 DEF BeatTouches
  <2>19. ASSUME BeatBreaks PROVE ReportsInv'
    BY <2>19 DEF BeatBreaks, Breaks
  <2>20. ASSUME GoneQuiet PROVE ReportsInv'
    BY <2>20 DEF GoneQuiet, Quieten
  <2>21. ASSUME CutOff PROVE ReportsInv'
    BY <2>21 DEF CutOff, Quieten, Breaks
  <2>22. ASSUME NEW s \in Server, SweepReads(s) PROVE ReportsInv'
    BY <2>22 DEF SweepReads, Missing
  <2>23. ASSUME NEW s \in Server, SweepCloses(s) PROVE ReportsInv'
    BY <2>23, VoidedRows DEF SweepCloses
  <2>24. ASSUME NEW s \in Server, SweepBreaks(s) PROVE ReportsInv'
    BY <2>24 DEF SweepBreaks, Breaks
  <2>25. ASSUME NEW t \in Trial, SweepVoids(t) PROVE ReportsInv'
    BY <2>25 DEF SweepVoids, Swept
  <2>26. ASSUME RunExpires PROVE ReportsInv'
    BY <2>26 DEF RunExpires
  <2>27. ASSUME BatchExpires PROVE ReportsInv'
    BY <2>27 DEF BatchExpires
  <2>28. CASE UNCHANGED vars
    BY <2>28 DEF vars
  <2>. QED
    BY <2>1, <2>2, <2>3, <2>4, <2>5, <2>6, <2>7, <2>8, <2>9, <2>10, <2>11,
       <2>12, <2>13, <2>14, <2>15, <2>16, <2>17, <2>18, <2>19, <2>20, <2>21,
       <2>22, <2>23, <2>24, <2>25, <2>26, <2>27, <2>28
       DEF Next, Reporting, Finishing, CheckingIn
<1>. QED
  BY <1>1, <1>2, TypeCorrect, PTL DEF Spec

(* A report the machine was told has landed stays as it was reported,      *)
(* whoever closes the batch and whenever he looked for what is missing.    *)
THEOREM LandedReportsStand == Spec => []LandedReportStands
<1>1. ReportsInv => LandedReportStands
  BY DEF ReportsInv, LandedReportStands
<1>. QED
  BY <1>1, ReportsInvariant, PTL

---------------------------------------------------------------------------
(* Who is about to close the batch has seen every trial that has no row:   *)
(* rows never go away.                                                     *)
ClosingInv ==
  ~expired =>
    /\ run # "running" => \A t \in Trial : trial[t].status # "absent"
    /\ \A s \in Server : sweep[s].step = "read" =>
         \A t \in Trial : trial[t].status = "absent" => t \in sweep[s].missing
    /\ finish.step = "read" =>
         \A t \in Trial : trial[t].status = "absent" => t \in finish.missing
    /\ finish.step = "settled" => run # "running"
    /\ batch # "running" => run # "running"
    /\ batch = "running" => run # "failed"
    /\ batch = "finished" => run = "finished"

(* It has, with every interleaving of reports, finish and sweeps.          *)
LEMMA ClosingInvariant == Spec => []ClosingInv
<1>1. Init => ClosingInv
  BY DEF Init, ClosingInv, Idle, NoTrial
<1>2. TypeOK /\ ClosingInv /\ [Next]_vars => ClosingInv'
  <2>. SUFFICES ASSUME TypeOK, ClosingInv, [Next]_vars PROVE ClosingInv'
    OBVIOUS
  <2>. USE DEF TypeOK, ClosingInv, TrialRow, TrialStatus, RunStatus, BatchStatus, Idle,
               store, cli, handlers
  <2>1. ASSUME NEW t \in Trial, Send(t) PROVE ClosingInv'
    BY <2>1 DEF Send
  <2>2. ASSUME NEW t \in Trial, Look(t) PROVE ClosingInv'
    BY <2>2 DEF Look
  <2>3. ASSUME NEW t \in Trial, OpenTrial(t) PROVE ClosingInv'
    BY <2>3 DEF OpenTrial, Opened
  <2>4. ASSUME NEW t \in Trial, Land(t) PROVE ClosingInv'
    BY <2>4 DEF Land, SettledAs, Abandoned
  <2>5. ASSUME NEW t \in Trial, ReportBreaks(t) PROVE ClosingInv'
    BY <2>5 DEF ReportBreaks, Breaks
  <2>6. ASSUME NEW t \in Trial, Told(t) PROVE ClosingInv'
    BY <2>6 DEF Told
  <2>7. ASSUME NEW t \in Trial, Noted(t) PROVE ClosingInv'
    BY <2>7 DEF Noted
  <2>8. ASSUME AllReported PROVE ClosingInv'
    BY <2>8 DEF AllReported
  <2>9. ASSUME Stopped PROVE ClosingInv'
    BY <2>9 DEF Stopped
  <2>10. ASSUME Gone PROVE ClosingInv'
    BY <2>10 DEF Gone
  <2>11. ASSUME FinishLooks PROVE ClosingInv'
    BY <2>11 DEF FinishLooks
  <2>12. ASSUME FinishReads PROVE ClosingInv'
    BY <2>12 DEF FinishReads, Missing
  <2>13. ASSUME FinishSettles PROVE ClosingInv'
    <3>1. \A t \in Trial : ~expired => trial'[t].status # "absent"
      BY <2>13, VoidedRows DEF FinishSettles
    <3>. QED
      BY <2>13, <3>1 DEF FinishSettles, RunClosed
  <2>14. ASSUME FinishCloses PROVE ClosingInv'
    BY <2>14 DEF FinishCloses, BatchClosed
  <2>15. ASSUME FinishAnswers PROVE ClosingInv'
    BY <2>15 DEF FinishAnswers
  <2>16. ASSUME FinishBreaks PROVE ClosingInv'
    BY <2>16 DEF FinishBreaks, Breaks
  <2>17. ASSUME BeatLooks PROVE ClosingInv'
    BY <2>17 DEF BeatLooks
  <2>18. ASSUME BeatTouches PROVE ClosingInv'
    BY <2>18 DEF BeatTouches
  <2>19. ASSUME BeatBreaks PROVE ClosingInv'
    BY <2>19 DEF BeatBreaks, Breaks
  <2>20. ASSUME GoneQuiet PROVE ClosingInv'
    BY <2>20 DEF GoneQuiet, Quieten
  <2>21. ASSUME CutOff PROVE ClosingInv'
    BY <2>21 DEF CutOff, Quieten, Breaks
  <2>22. ASSUME NEW s \in Server, SweepReads(s) PROVE ClosingInv'
    BY <2>22 DEF SweepReads, Missing
  <2>23. ASSUME NEW s \in Server, SweepCloses(s) PROVE ClosingInv'
    <3>1. CASE batch = "running" /\ quiet
      <4>1. \A t \in Trial : ~expired => trial'[t].status # "absent"
        BY <2>23, <3>1, VoidedRows DEF SweepCloses
      <4>. QED
        BY <2>23, <3>1, <4>1 DEF SweepCloses, RunClosed
    <3>2. CASE ~(batch = "running" /\ quiet)
      BY <2>23, <3>2 DEF SweepCloses
    <3>. QED
      BY <3>1, <3>2
  <2>24. ASSUME NEW s \in Server, SweepBreaks(s) PROVE ClosingInv'
    BY <2>24 DEF SweepBreaks, Breaks
  <2>25. ASSUME NEW t \in Trial, SweepVoids(t) PROVE ClosingInv'
    BY <2>25 DEF SweepVoids, Swept
  <2>26. ASSUME RunExpires PROVE ClosingInv'
    BY <2>26 DEF RunExpires, RunClosed
  <2>27. ASSUME BatchExpires PROVE ClosingInv'
    BY <2>27 DEF BatchExpires, BatchClosed
  <2>28. CASE UNCHANGED vars
    BY <2>28 DEF vars
  <2>. QED
    BY <2>1, <2>2, <2>3, <2>4, <2>5, <2>6, <2>7, <2>8, <2>9, <2>10, <2>11,
       <2>12, <2>13, <2>14, <2>15, <2>16, <2>17, <2>18, <2>19, <2>20, <2>21,
       <2>22, <2>23, <2>24, <2>25, <2>26, <2>27, <2>28
       DEF Next, Reporting, Finishing, CheckingIn
<1>. QED
  BY <1>1, <1>2, TypeCorrect, PTL DEF Spec

(* A closed batch has a row for each of its trials.                        *)
THEOREM ClosedBatchesAreWhole == Spec => []ClosedBatchIsWhole
<1>1. ClosingInv => ClosedBatchIsWhole
  BY DEF ClosingInv, ClosedBatchIsWhole
<1>. QED
  BY <1>1, ClosingInvariant, PTL

(* A finished batch has finished runs.                                     *)
THEOREM FinishedBatchesFinishedTheirRuns == Spec => []FinishedBatchFinishedItsRun
<1>1. ClosingInv => FinishedBatchFinishedItsRun
  BY DEF ClosingInv, FinishedBatchFinishedItsRun
<1>. QED
  BY <1>1, ClosingInvariant, PTL

---------------------------------------------------------------------------
(* A machine that was answered in the last ten minutes is not quiet.       *)
WelcomeInv == welcome => ~quiet

(* The sweep does not fail the batch of a machine whose check-in was       *)
(* answered in the last ten minutes.                                       *)
THEOREM CheckedInAreSpared == Spec => CheckedInIsSpared
<1>1. Init => WelcomeInv
  BY DEF Init, WelcomeInv
<1>2. WelcomeInv /\ [Next]_vars =>
        WelcomeInv' /\ (batch = "running" /\ batch' = "failed" /\ ~expired' => ~welcome)
  <2>. SUFFICES ASSUME WelcomeInv, [Next]_vars
                PROVE  /\ WelcomeInv'
                       /\ batch = "running" /\ batch' = "failed" /\ ~expired' => ~welcome
    OBVIOUS
  <2>. DEFINE Goal == WelcomeInv' /\ (batch = "running" /\ batch' = "failed" /\ ~expired' => ~welcome)
  <2>. USE DEF WelcomeInv, store, cli, handlers
  <2>1. ASSUME NEW t \in Trial, Send(t) PROVE Goal
    BY <2>1 DEF Send
  <2>2. ASSUME NEW t \in Trial, Look(t) PROVE Goal
    BY <2>2 DEF Look
  <2>3. ASSUME NEW t \in Trial, OpenTrial(t) PROVE Goal
    BY <2>3 DEF OpenTrial
  <2>4. ASSUME NEW t \in Trial, Land(t) PROVE Goal
    BY <2>4 DEF Land
  <2>5. ASSUME NEW t \in Trial, ReportBreaks(t) PROVE Goal
    BY <2>5 DEF ReportBreaks, Breaks
  <2>6. ASSUME NEW t \in Trial, Told(t) PROVE Goal
    BY <2>6 DEF Told
  <2>7. ASSUME NEW t \in Trial, Noted(t) PROVE Goal
    BY <2>7 DEF Noted
  <2>8. ASSUME AllReported PROVE Goal
    BY <2>8 DEF AllReported
  <2>9. ASSUME Stopped PROVE Goal
    BY <2>9 DEF Stopped
  <2>10. ASSUME Gone PROVE Goal
    BY <2>10 DEF Gone
  <2>11. ASSUME FinishLooks PROVE Goal
    BY <2>11 DEF FinishLooks
  <2>12. ASSUME FinishReads PROVE Goal
    BY <2>12 DEF FinishReads, Missing
  <2>13. ASSUME FinishSettles PROVE Goal
    BY <2>13 DEF FinishSettles
  <2>14. ASSUME FinishCloses PROVE Goal
    BY <2>14 DEF FinishCloses, BatchClosed
  <2>15. ASSUME FinishAnswers PROVE Goal
    BY <2>15 DEF FinishAnswers
  <2>16. ASSUME FinishBreaks PROVE Goal
    BY <2>16 DEF FinishBreaks, Breaks
  <2>17. ASSUME BeatLooks PROVE Goal
    BY <2>17 DEF BeatLooks
  <2>18. ASSUME BeatTouches PROVE Goal
    BY <2>18 DEF BeatTouches
  <2>19. ASSUME BeatBreaks PROVE Goal
    BY <2>19 DEF BeatBreaks, Breaks
  <2>20. ASSUME GoneQuiet PROVE Goal
    BY <2>20 DEF GoneQuiet, Quieten
  <2>21. ASSUME CutOff PROVE Goal
    BY <2>21 DEF CutOff, Quieten, Breaks
  <2>22. ASSUME NEW s \in Server, SweepReads(s) PROVE Goal
    BY <2>22 DEF SweepReads, Missing
  <2>23. ASSUME NEW s \in Server, SweepCloses(s) PROVE Goal
    BY <2>23 DEF SweepCloses
  <2>24. ASSUME NEW s \in Server, SweepBreaks(s) PROVE Goal
    BY <2>24 DEF SweepBreaks, Breaks
  <2>25. ASSUME NEW t \in Trial, SweepVoids(t) PROVE Goal
    BY <2>25 DEF SweepVoids
  <2>26. ASSUME RunExpires PROVE Goal
    BY <2>26 DEF RunExpires
  <2>27. ASSUME BatchExpires PROVE Goal
    BY <2>27 DEF BatchExpires
  <2>28. CASE UNCHANGED vars
    BY <2>28 DEF vars
  <2>. QED
    BY <2>1, <2>2, <2>3, <2>4, <2>5, <2>6, <2>7, <2>8, <2>9, <2>10, <2>11,
       <2>12, <2>13, <2>14, <2>15, <2>16, <2>17, <2>18, <2>19, <2>20, <2>21,
       <2>22, <2>23, <2>24, <2>25, <2>26, <2>27, <2>28
       DEF Next, Reporting, Finishing, CheckingIn
<1>3. WelcomeInv /\ [Next]_vars =>
        [batch = "running" /\ batch' = "failed" /\ ~expired' => ~welcome]_vars
  BY <1>2
<1>. QED
  BY <1>1, <1>2, <1>3, PTL DEF Spec, CheckedInIsSpared
---------------------------------------------------------------------------
(* The life of a trial.                                                    *)

(* The rows, and which of them a handler has opened, tell how far a trial  *)
(* has come.                                                               *)
LEMMA LifeStutters ==
  ASSUME UNCHANGED trial,
         \A t \in Trial : report[t] = "opened" <=> report'[t] = "opened"
  PROVE  UNCHANGED Life!vars
  BY DEF Life!vars, Row, AtHand

(* What nobody has reported is voided while no handler has it open.        *)
LEMMA VoidedIsVoid ==
  ASSUME TypeOK, ReportsInv, NEW missing \in SUBSET Trial,
         trial' = Voided(missing), UNCHANGED report
  PROVE  Life!Next
<1>. DEFINE T == {t \in missing : trial[t].status = "absent"}
<1>1. \A t \in T : AtHand[t] = {} /\ Row[t] = "absent"
  BY DEF AtHand, Row, ReportsInv
<1>2. Row' = [t \in Trial |-> IF t \in T THEN "void" ELSE Row[t]]
  BY DEF Row, Voided, Unreported
<1>3. UNCHANGED AtHand
  BY DEF AtHand
<1>4. Life!Void(T)
  BY <1>1, <1>2, <1>3 DEF Life!Void
<1>. QED
  BY <1>4 DEF Life!Next

(* Each step of the machine, the handlers and the sweeps is one in the     *)
(* life of the trials, or none.                                            *)
THEOREM LocalImplementsTrialLife == Spec => ReportsImplementTrialLife
<1>1. Init => Life!Init
  BY DEF Init, Life!Init, Row, AtHand, NoTrial
<1>2. TypeOK /\ ReportsInv /\ [Next]_vars => [Life!Next]_(Life!vars)
  <2>. SUFFICES ASSUME TypeOK, ReportsInv, [Next]_vars
                PROVE  Life!Next \/ UNCHANGED Life!vars
    OBVIOUS
  <2>. USE DEF TypeOK
  <2>1. ASSUME NEW t \in Trial, Send(t) PROVE Life!Next \/ UNCHANGED Life!vars
    <3>1. UNCHANGED trial /\ \A u \in Trial : report[u] = "opened" <=> report'[u] = "opened"
      BY <2>1 DEF Send, store, handlers
    <3>. QED
      BY <3>1, LifeStutters
  <2>2. ASSUME NEW t \in Trial, Look(t) PROVE Life!Next \/ UNCHANGED Life!vars
    <3>1. UNCHANGED trial /\ \A u \in Trial : report[u] = "opened" <=> report'[u] = "opened"
      BY <2>2 DEF Look, store, handlers
    <3>. QED
      BY <3>1, LifeStutters
  <2>3. ASSUME NEW t \in Trial, OpenTrial(t) PROVE Life!Next \/ UNCHANGED Life!vars
    <3>1. AtHand[t] = {} /\ AtHand' = [AtHand EXCEPT ![t] = {"handler"}]
      BY <2>3 DEF OpenTrial, AtHand
    <3>2. Row' = [Row EXCEPT ![t] = "running"]
      BY <2>3 DEF OpenTrial, Row, Opened
    <3>3. Life!Open(t)
      BY <3>1, <3>2 DEF Life!Open
    <3>. QED
      BY <3>3 DEF Life!Next
  <2>4. ASSUME NEW t \in Trial, Land(t) PROVE Life!Next \/ UNCHANGED Life!vars
    <3>1. AtHand[t] # {} /\ AtHand' = [AtHand EXCEPT ![t] = {}]
      BY <2>4 DEF Land, AtHand
    <3>2. PICK v \in {"scored", "void"} : trial'[t].status = v
      BY <2>4 DEF Land, ReportsInv, Abandoned, SettledAs, TrialRow, TrialStatus
    <3>3. Row' = [Row EXCEPT ![t] = v]
      BY <2>4, <3>2 DEF Land, Row
    <3>4. Life!Conclude(t)
      BY <3>1, <3>3 DEF Life!Conclude
    <3>. QED
      BY <3>4 DEF Life!Next
  <2>5. ASSUME NEW t \in Trial, ReportBreaks(t) PROVE Life!Next \/ UNCHANGED Life!vars
    <3>1. AtHand' = [u \in Trial |-> IF u \in {t} THEN {} ELSE AtHand[u]]
      BY <2>5 DEF ReportBreaks, AtHand
    <3>2. Life!Lose({t})
      BY <2>5, <3>1 DEF ReportBreaks, Life!Lose, Row, store
    <3>. QED
      BY <3>2 DEF Life!Next
  <2>6. ASSUME NEW t \in Trial, Told(t) PROVE Life!Next \/ UNCHANGED Life!vars
    <3>1. UNCHANGED trial /\ \A u \in Trial : report[u] = "opened" <=> report'[u] = "opened"
      BY <2>6 DEF Told, store, handlers
    <3>. QED
      BY <3>1, LifeStutters
  <2>7. ASSUME NEW t \in Trial, Noted(t) PROVE Life!Next \/ UNCHANGED Life!vars
    <3>1. UNCHANGED trial /\ \A u \in Trial : report[u] = "opened" <=> report'[u] = "opened"
      BY <2>7 DEF Noted, store, handlers
    <3>. QED
      BY <3>1, LifeStutters
  <2>8. ASSUME AllReported PROVE Life!Next \/ UNCHANGED Life!vars
    BY <2>8, LifeStutters DEF AllReported, store, cli, handlers
  <2>9. ASSUME Stopped PROVE Life!Next \/ UNCHANGED Life!vars
    BY <2>9, LifeStutters DEF Stopped, store, cli, handlers
  <2>10. ASSUME Gone PROVE Life!Next \/ UNCHANGED Life!vars
    BY <2>10, LifeStutters DEF Gone, store, cli, handlers
  <2>11. ASSUME FinishLooks PROVE Life!Next \/ UNCHANGED Life!vars
    BY <2>11, LifeStutters DEF FinishLooks, store, cli, handlers
  <2>12. ASSUME FinishReads PROVE Life!Next \/ UNCHANGED Life!vars
    BY <2>12, LifeStutters DEF FinishReads, store, cli, handlers
  <2>13. ASSUME FinishSettles PROVE Life!Next \/ UNCHANGED Life!vars
    <3>1. finish.missing \in SUBSET Trial
      OBVIOUS
    <3>. QED
      BY <2>13, <3>1, VoidedIsVoid DEF FinishSettles
  <2>14. ASSUME FinishCloses PROVE Life!Next \/ UNCHANGED Life!vars
    BY <2>14, LifeStutters DEF FinishCloses, store, cli, handlers
  <2>15. ASSUME FinishAnswers PROVE Life!Next \/ UNCHANGED Life!vars
    BY <2>15, LifeStutters DEF FinishAnswers, store, cli, handlers
  <2>16. ASSUME FinishBreaks PROVE Life!Next \/ UNCHANGED Life!vars
    BY <2>16, LifeStutters DEF FinishBreaks, store, cli, handlers
  <2>17. ASSUME BeatLooks PROVE Life!Next \/ UNCHANGED Life!vars
    BY <2>17, LifeStutters DEF BeatLooks, store, cli, handlers
  <2>18. ASSUME BeatTouches PROVE Life!Next \/ UNCHANGED Life!vars
    BY <2>18, LifeStutters DEF BeatTouches, store, cli, handlers
  <2>19. ASSUME BeatBreaks PROVE Life!Next \/ UNCHANGED Life!vars
    BY <2>19, LifeStutters DEF BeatBreaks, store, cli, handlers
  <2>20. ASSUME GoneQuiet PROVE Life!Next \/ UNCHANGED Life!vars
    BY <2>20, LifeStutters DEF GoneQuiet, Quieten, store, cli, handlers
  <2>21. ASSUME CutOff PROVE Life!Next \/ UNCHANGED Life!vars
    BY <2>21, LifeStutters DEF CutOff, Quieten, store, cli, handlers
  <2>22. ASSUME NEW s \in Server, SweepReads(s) PROVE Life!Next \/ UNCHANGED Life!vars
    BY <2>22, LifeStutters DEF SweepReads, store, cli, handlers
  <2>23. ASSUME NEW s \in Server, SweepCloses(s) PROVE Life!Next \/ UNCHANGED Life!vars
    <3>1. sweep[s].missing \in SUBSET Trial
      OBVIOUS
    <3>2. CASE batch = "running" /\ quiet
      BY <2>23, <3>1, <3>2, VoidedIsVoid DEF SweepCloses
    <3>3. CASE ~(batch = "running" /\ quiet)
      BY <2>23, <3>3, LifeStutters DEF SweepCloses
    <3>. QED
      BY <3>2, <3>3
  <2>24. ASSUME NEW s \in Server, SweepBreaks(s) PROVE Life!Next \/ UNCHANGED Life!vars
    BY <2>24, LifeStutters DEF SweepBreaks, store, cli, handlers
  <2>25. ASSUME NEW t \in Trial, SweepVoids(t) PROVE Life!Next \/ UNCHANGED Life!vars
    <3>1. AtHand[t] = {} /\ UNCHANGED AtHand /\ Row[t] = "running"
      BY <2>25 DEF SweepVoids, AtHand, Row, handlers
    <3>2. Row' = [u \in Trial |-> IF u \in {t} THEN "void" ELSE Row[u]]
      BY <2>25 DEF SweepVoids, Row, Swept
    <3>3. Life!Void({t})
      BY <3>1, <3>2 DEF Life!Void
    <3>. QED
      BY <3>3 DEF Life!Next
  <2>26. ASSUME RunExpires PROVE Life!Next \/ UNCHANGED Life!vars
    BY <2>26, LifeStutters DEF RunExpires, store, cli, handlers
  <2>27. ASSUME BatchExpires PROVE Life!Next \/ UNCHANGED Life!vars
    BY <2>27, LifeStutters DEF BatchExpires, store, cli, handlers
  <2>28. CASE UNCHANGED vars
    BY <2>28, LifeStutters DEF vars, store, cli, handlers
  <2>. QED
    BY <2>1, <2>2, <2>3, <2>4, <2>5, <2>6, <2>7, <2>8, <2>9, <2>10,
       <2>11, <2>12, <2>13, <2>14, <2>15, <2>16, <2>17, <2>18, <2>19,
       <2>20, <2>21, <2>22, <2>23, <2>24, <2>25, <2>26, <2>27, <2>28
       DEF Next, Reporting, Finishing, CheckingIn
<1>. QED
  BY <1>1, <1>2, TypeCorrect, ReportsInvariant, PTL DEF Spec, ReportsImplementTrialLife, Life!Spec

(* The theorems about TrialLife, for the trials of a local batch.          *)
Lives ==
  INSTANCE TrialLifeProofs
    WITH Worker <- {"handler"}, Verdict <- {"scored", "void"},
         row <- Row, owners <- AtHand, doomed <- {}

(* A trial that a handler has opened runs until that handler settles it,   *)
(* and a verdict stands until the trial is reported again: neither those   *)
(* who close the batch nor the sweep void it meanwhile.                    *)
THEOREM ReportsAreLeftAlone ==
  Spec => []Lives!OneWorker /\ []Lives!RunsAtWork /\ Lives!LeftAlone /\ Lives!LastWord
<1>1. Life!Init => Lives!Init
  BY DEF Life!Init, Lives!Init
<1>2. [Life!Next]_(Life!vars) => [Lives!Next]_(Lives!vars)
  BY DEF Life!Next, Lives!Next, Life!vars, Lives!vars, Life!Open, Lives!Open,
         Life!Conclude, Lives!Conclude, Life!Lose, Lives!Lose, Life!Find, Lives!Find,
         Life!Void, Lives!Void
<1>3. Spec => Lives!Spec
  BY <1>1, <1>2, LocalImplementsTrialLife, PTL DEF ReportsImplementTrialLife, Life!Spec, Lives!Spec
<1>4. Lives!Spec => []Lives!OneWorker
  BY Lives!TrialsHaveOneWorker
<1>5. Lives!Spec => []Lives!RunsAtWork
  <2>1. {} = {}
    OBVIOUS
  <2>. QED
    BY <2>1, Lives!WorkersRunTheirTrials, PTL
<1>6. Lives!Spec => Lives!LeftAlone /\ Lives!LastWord
  BY Lives!WorkersAreLeftAlone, Lives!VerdictsAreTheLastWord
<1>. QED
  BY <1>3, <1>4, <1>5, <1>6, PTL
============================================================================
