-------------------------- MODULE TrialLifeProofs --------------------------
(***************************************************************************)
(* What the abstract life of a trial comes to, for any trials, workers and *)
(* verdicts: whatever implements it has these for nothing.                 *)
(***************************************************************************)
EXTENDS TrialLife, TLAPS

(* Rows, owners and what was found keep their types.                       *)
THEOREM TypeCorrect == Spec => []TypeOK
<1>1. Init => TypeOK
  BY DEF Init, TypeOK
<1>2. TypeOK /\ [Next]_vars => TypeOK'
  <2>. SUFFICES ASSUME TypeOK, [Next]_vars PROVE TypeOK'
    OBVIOUS
  <2>. USE DEF TypeOK
  <2>1. ASSUME NEW t \in Trial, Open(t) PROVE TypeOK'
    BY <2>1 DEF Open
  <2>2. ASSUME NEW t \in Trial, Conclude(t) PROVE TypeOK'
    BY <2>2 DEF Conclude
  <2>3. ASSUME NEW T \in SUBSET Trial, Lose(T) PROVE TypeOK'
    BY <2>3 DEF Lose
  <2>4. ASSUME NEW T \in SUBSET Trial, Find(T) PROVE TypeOK'
    BY <2>4 DEF Find
  <2>5. ASSUME NEW T \in SUBSET Trial, Void(T) PROVE TypeOK'
    BY <2>5 DEF Void
  <2>6. CASE UNCHANGED vars
    BY <2>6 DEF vars
  <2>. QED
    BY <2>1, <2>2, <2>3, <2>4, <2>5, <2>6 DEF Next
<1>. QED
  BY <1>1, <1>2, PTL DEF Spec

(* No trial is opened by two workers, whoever may be about to void it.     *)
THEOREM TrialsHaveOneWorker == Spec => []OneWorker
<1>1. Init => OneWorker
  BY DEF Init, OneWorker
<1>2. TypeOK /\ OneWorker /\ [Next]_vars => OneWorker'
  <2>. SUFFICES ASSUME TypeOK, OneWorker, [Next]_vars PROVE OneWorker'
    OBVIOUS
  <2>. USE DEF TypeOK, OneWorker
  <2>1. ASSUME NEW t \in Trial, Open(t) PROVE OneWorker'
    <3>1. \A u \in Trial \ {t} : owners'[u] = owners[u]
      BY <2>1 DEF Open
    <3>2. \A v, w \in owners'[t] : v = w
      BY <2>1 DEF Open
    <3>. QED
      BY <3>1, <3>2
  <2>2. ASSUME NEW t \in Trial, Conclude(t) PROVE OneWorker'
    BY <2>2 DEF Conclude
  <2>3. ASSUME NEW T \in SUBSET Trial, Lose(T) PROVE OneWorker'
    BY <2>3 DEF Lose
  <2>4. ASSUME NEW T \in SUBSET Trial, Find(T) \/ Void(T) PROVE OneWorker'
    BY <2>4 DEF Find, Void
  <2>5. CASE UNCHANGED vars
    BY <2>5 DEF vars
  <2>. QED
    BY <2>1, <2>2, <2>3, <2>4, <2>5 DEF Next
<1>. QED
  BY <1>1, <1>2, TypeCorrect, PTL DEF Spec

(* Who voids what he finds in one statement leaves every worker's row      *)
(* running.                                                                *)
THEOREM WorkersRunTheirTrials == Spec /\ [](doomed = {}) => []RunsAtWork
<1>1. Init => RunsAtWork
  BY DEF Init, RunsAtWork
<1>2. TypeOK /\ doomed = {} /\ RunsAtWork /\ [Next]_vars => RunsAtWork'
  <2>. SUFFICES ASSUME TypeOK, doomed = {}, RunsAtWork, [Next]_vars PROVE RunsAtWork'
    OBVIOUS
  <2>. USE DEF TypeOK, RunsAtWork
  <2>1. ASSUME NEW t \in Trial, Open(t) PROVE RunsAtWork'
    <3>1. \A u \in Trial \ {t} : row'[u] = row[u] /\ owners'[u] = owners[u]
      BY <2>1 DEF Open
    <3>2. row'[t] = "running"
      BY <2>1 DEF Open
    <3>. QED
      BY <3>1, <3>2
  <2>2. ASSUME NEW t \in Trial, Conclude(t) PROVE RunsAtWork'
    BY <2>2 DEF Conclude
  <2>3. ASSUME NEW T \in SUBSET Trial, Lose(T) PROVE RunsAtWork'
    BY <2>3 DEF Lose
  <2>4. ASSUME NEW T \in SUBSET Trial, Find(T) PROVE RunsAtWork'
    BY <2>4 DEF Find
  <2>5. ASSUME NEW T \in SUBSET Trial, Void(T) PROVE RunsAtWork'
    BY <2>5 DEF Void
  <2>6. CASE UNCHANGED vars
    BY <2>6 DEF vars
  <2>. QED
    BY <2>1, <2>2, <2>3, <2>4, <2>5, <2>6 DEF Next
<1>. QED
  BY <1>1, <1>2, TypeCorrect, PTL DEF Spec

(* Once opened out of everybody's hands, a trial is its worker's until that
   worker concludes it or is lost.                                         *)
THEOREM WorkersAreLeftAlone == Spec => LeftAlone
<1>. DEFINE Left == \A t \in Trial :
       owners[t] # {} /\ row[t] = "running" /\ t \notin doomed =>
         /\ t \notin doomed'
         /\ owners'[t] = {} \/ (owners'[t] = owners[t] /\ row'[t] = "running")
<1>1. TypeOK /\ [Next]_vars => [Left]_vars
  <2>. SUFFICES ASSUME TypeOK, Next PROVE Left
    OBVIOUS
  <2>. USE DEF TypeOK
  <2>1. ASSUME NEW t \in Trial, Open(t) PROVE Left
    BY <2>1 DEF Open
  <2>2. ASSUME NEW t \in Trial, Conclude(t) PROVE Left
    <3>1. \A u \in Trial \ {t} : row'[u] = row[u] /\ owners'[u] = owners[u]
      BY <2>2 DEF Conclude
    <3>2. owners'[t] = {} /\ doomed' = doomed
      BY <2>2 DEF Conclude
    <3>. QED
      BY <3>1, <3>2
  <2>3. ASSUME NEW T \in SUBSET Trial, Lose(T) PROVE Left
    BY <2>3 DEF Lose
  <2>4. ASSUME NEW T \in SUBSET Trial, Find(T) PROVE Left
    BY <2>4 DEF Find
  <2>5. ASSUME NEW T \in SUBSET Trial, Void(T) PROVE Left
    BY <2>5 DEF Void
  <2>. QED
    BY <2>1, <2>2, <2>3, <2>4, <2>5 DEF Next
<1>. QED
  BY <1>1, TypeCorrect, PTL DEF Spec, LeftAlone

(* A verdict out of everybody's hands stands until the trial is opened     *)
(* again, and other than a void it is its worker's.                        *)
THEOREM VerdictsAreTheLastWord == Spec => LastWord
<1>. DEFINE Last == \A t \in Trial :
       /\ row[t] \notin {"absent", "running"} /\ owners[t] = {} /\ t \notin doomed =>
            row'[t] \in {row[t], "running"} /\ t \notin doomed'
       /\ row'[t] \notin {row[t], "running", "void"} => owners[t] # {}
<1>1. TypeOK /\ [Next]_vars => [Last]_vars
  <2>. SUFFICES ASSUME TypeOK, Next PROVE Last
    OBVIOUS
  <2>. USE DEF TypeOK
  <2>1. ASSUME NEW t \in Trial, Open(t) PROVE Last
    BY <2>1 DEF Open
  <2>2. ASSUME NEW t \in Trial, Conclude(t) PROVE Last
    BY <2>2 DEF Conclude
  <2>3. ASSUME NEW T \in SUBSET Trial, Lose(T) PROVE Last
    BY <2>3 DEF Lose
  <2>4. ASSUME NEW T \in SUBSET Trial, Find(T) PROVE Last
    BY <2>4 DEF Find
  <2>5. ASSUME NEW T \in SUBSET Trial, Void(T) PROVE Last
    BY <2>5 DEF Void
  <2>. QED
    BY <2>1, <2>2, <2>3, <2>4, <2>5 DEF Next
<1>. QED
  BY <1>1, TypeCorrect, PTL DEF Spec, LastWord
===========================================================================
