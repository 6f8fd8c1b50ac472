------------------------ MODULE SandboxLedgerProofs ------------------------
(***************************************************************************)
(* Proofs about SandboxLedger, for any numbers of attempts, sandboxes and  *)
(* servers.  SparesInv is inductive when no attempt lives past             *)
(* LEAKED_AFTER; with it, AccountedInv is inductive as well.                *)
(***************************************************************************)
EXTENDS SandboxLedger, TLAPS

(* Every step keeps the columns, the fibers and the provider's sandboxes to
   their types; in particular neither a reaper nor an attempt acts on no sandbox.         *)
THEOREM TypeCorrect == Spec => []TypeOK
<1>1. Init => TypeOK
  BY LedgerAssumption DEF Init, TypeOK, Id
<1>2. TypeOK /\ [Next]_vars => TypeOK'
  <2>. SUFFICES ASSUME TypeOK, [Next]_vars PROVE TypeOK'
    OBVIOUS
  <2>. USE LedgerAssumption DEF TypeOK, Id, row, provider, attempts, reapers, Goto
  <2>1. ASSUME NEW a \in Attempt, Open(a) PROVE TypeOK'
    BY <2>1 DEF Open
  <2>2. ASSUME NEW a \in Attempt, DestroyPrior(a) PROVE TypeOK'
    BY <2>2 DEF DestroyPrior
  <2>3. ASSUME NEW a \in Attempt, PriorLeft(a) PROVE TypeOK'
    BY <2>3 DEF PriorLeft
  <2>4. ASSUME NEW a \in Attempt, Rent(a) PROVE TypeOK'
    BY <2>4 DEF Rent
  <2>5. ASSUME NEW a \in Attempt, RentFails(a) PROVE TypeOK'
    BY <2>5 DEF RentFails
  <2>6. ASSUME NEW a \in Attempt, Attach(a) PROVE TypeOK'
    BY <2>6 DEF Attach
  <2>7. ASSUME NEW a \in Attempt, AttachLost(a) PROVE TypeOK'
    BY <2>7 DEF AttachLost
  <2>8. ASSUME NEW a \in Attempt, Release(a) PROVE TypeOK'
    BY <2>8 DEF Release
  <2>9. ASSUME NEW a \in Attempt, ReleaseFails(a) PROVE TypeOK'
    BY <2>9 DEF ReleaseFails
  <2>10. ASSUME NEW a \in Attempt, Settle(a) PROVE TypeOK'
    BY <2>10 DEF Settle
  <2>11. ASSUME NEW a \in Attempt, SettleErrs(a) PROVE TypeOK'
    BY <2>11 DEF SettleErrs
  <2>12. ASSUME NEW a \in Attempt, Abandon(a) PROVE TypeOK'
    BY <2>12 DEF Abandon
  <2>13. ASSUME NEW a \in Attempt, AbandonLost(a) PROVE TypeOK'
    BY <2>13 DEF AbandonLost
  <2>14. ASSUME NEW a \in Attempt, Stop(a) PROVE TypeOK'
    BY <2>14 DEF Stop
  <2>15. ASSUME NEW s \in Server, ReapReads(s) PROVE TypeOK'
    BY <2>15 DEF ReapReads
  <2>16. ASSUME NEW s \in Server, ReapDestroys(s) PROVE TypeOK'
    BY <2>16 DEF ReapDestroys
  <2>17. ASSUME NEW s \in Server, ReapFails(s) PROVE TypeOK'
    BY <2>17 DEF ReapFails
  <2>18. ASSUME NEW s \in Server, ReapImpossible(s) PROVE TypeOK'
    BY <2>18 DEF ReapImpossible
  <2>19. ASSUME NEW s \in Server, ReapClears(s) PROVE TypeOK'
    BY <2>19 DEF ReapClears
  <2>20. ASSUME NEW s \in Server, ReapStops(s) PROVE TypeOK'
    BY <2>20 DEF ReapStops
  <2>21. ASSUME SweepVoids PROVE TypeOK'
    BY <2>21 DEF SweepVoids
  <2>22. ASSUME Grow PROVE TypeOK'
    BY <2>22 DEF Grow
  <2>23. CASE UNCHANGED vars
    BY <2>23 DEF vars
  <2>. QED
    BY <2>1, <2>2, <2>3, <2>4, <2>5, <2>6, <2>7, <2>8, <2>9, <2>10, <2>11, <2>12, <2>13, <2>14, <2>15, <2>16, <2>17, <2>18, <2>19, <2>20, <2>21, <2>22, <2>23
    DEF Next, AttemptStep, ReapStep
<1>. QED
  BY <1>1, <1>2, PTL DEF Spec

(* Reading a row nobody has touched for LEAKED_AFTER finds no attempt under
   way, and an id read before is one no later attempt is given.            *)
THEOREM SparesInvariant ==
  ASSUME ~Outlives
  PROVE  Spec => []SparesInv
<1>1. Init => SparesInv
  BY LedgerAssumption
  DEF Init, SparesInv, OneAtATime, WorkIsYoung, IdsAreUsed, ReaperSparesWork, Under, Holds
<1>2. TypeOK /\ SparesInv /\ [Next]_vars => SparesInv'
  <2>. SUFFICES ASSUME TypeOK, SparesInv, [Next]_vars PROVE SparesInv'
    OBVIOUS
  <2>. USE ~Outlives, LedgerAssumption
       DEF TypeOK, SparesInv, OneAtATime, WorkIsYoung, IdsAreUsed, ReaperSparesWork,
           Under, Holds, NoAttempt, Id, row, provider, attempts, reapers, Goto
  <2>1. ASSUME NEW a \in Attempt, Open(a) PROVE SparesInv'
    BY <2>1 DEF Open
  <2>2. ASSUME NEW a \in Attempt, DestroyPrior(a) PROVE SparesInv'
    BY <2>2 DEF DestroyPrior
  <2>3. ASSUME NEW a \in Attempt, PriorLeft(a) PROVE SparesInv'
    BY <2>3 DEF PriorLeft
  <2>4. ASSUME NEW a \in Attempt, Rent(a) PROVE SparesInv'
    BY <2>4 DEF Rent
  <2>5. ASSUME NEW a \in Attempt, RentFails(a) PROVE SparesInv'
    BY <2>5 DEF RentFails
  <2>6. ASSUME NEW a \in Attempt, Attach(a) PROVE SparesInv'
    BY <2>6 DEF Attach
  <2>7. ASSUME NEW a \in Attempt, AttachLost(a) PROVE SparesInv'
    BY <2>7 DEF AttachLost
  <2>8. ASSUME NEW a \in Attempt, Release(a) PROVE SparesInv'
    BY <2>8 DEF Release
  <2>9. ASSUME NEW a \in Attempt, ReleaseFails(a) PROVE SparesInv'
    BY <2>9 DEF ReleaseFails
  <2>10. ASSUME NEW a \in Attempt, Settle(a) PROVE SparesInv'
    BY <2>10 DEF Settle
  <2>11. ASSUME NEW a \in Attempt, SettleErrs(a) PROVE SparesInv'
    BY <2>11 DEF SettleErrs
  <2>12. ASSUME NEW a \in Attempt, Abandon(a) PROVE SparesInv'
    BY <2>12 DEF Abandon
  <2>13. ASSUME NEW a \in Attempt, AbandonLost(a) PROVE SparesInv'
    BY <2>13 DEF AbandonLost
  <2>14. ASSUME NEW a \in Attempt, Stop(a) PROVE SparesInv'
    BY <2>14 DEF Stop
  <2>15. ASSUME NEW s \in Server, ReapReads(s) PROVE SparesInv'
    BY <2>15 DEF ReapReads
  <2>16. ASSUME NEW s \in Server, ReapDestroys(s) PROVE SparesInv'
    BY <2>16 DEF ReapDestroys
  <2>17. ASSUME NEW s \in Server, ReapFails(s) PROVE SparesInv'
    BY <2>17 DEF ReapFails
  <2>18. ASSUME NEW s \in Server, ReapImpossible(s) PROVE SparesInv'
    BY <2>18 DEF ReapImpossible
  <2>19. ASSUME NEW s \in Server, ReapClears(s) PROVE SparesInv'
    BY <2>19 DEF ReapClears
  <2>20. ASSUME NEW s \in Server, ReapStops(s) PROVE SparesInv'
    BY <2>20 DEF ReapStops
  <2>21. ASSUME SweepVoids PROVE SparesInv'
    BY <2>21 DEF SweepVoids
  <2>22. ASSUME Grow PROVE SparesInv'
    BY <2>22 DEF Grow
  <2>23. CASE UNCHANGED vars
    BY <2>23 DEF vars
  <2>. QED
    BY <2>1, <2>2, <2>3, <2>4, <2>5, <2>6, <2>7, <2>8, <2>9, <2>10, <2>11, <2>12, <2>13, <2>14, <2>15, <2>16, <2>17, <2>18, <2>19, <2>20, <2>21, <2>22, <2>23
    DEF Next, AttemptStep, ReapStep
<1>. QED
  BY <1>1, <1>2, TypeCorrect, PTL DEF Spec

(* The reaper never destroys a sandbox an attempt is at work in.           *)
THEOREM ReaperSparesAttempts ==
  ASSUME ~Outlives
  PROVE  Spec => []ReaperSparesWork
<1>1. SparesInv => ReaperSparesWork
  BY DEF SparesInv
<1>. QED
  BY <1>1, SparesInvariant, PTL

(* What an attempt writes over or clears is gone from the provider, and so is
   what a reaper is about to clear.                                        *)
THEOREM AccountedInvariant ==
  ASSUME ~Outlives
  PROVE  Spec => []AccountedInv
<1>1. Init => AccountedInv
  BY DEF Init, AccountedInv, ReaperKeepsAway, RowKeepsUp, Accounted
<1>2. TypeOK /\ SparesInv /\ AccountedInv /\ [Next]_vars => AccountedInv'
  <2>. SUFFICES ASSUME TypeOK, SparesInv, AccountedInv, [Next]_vars PROVE AccountedInv'
    OBVIOUS
  <2>. USE ~Outlives, LedgerAssumption
       DEF TypeOK, SparesInv, OneAtATime, WorkIsYoung, IdsAreUsed, AccountedInv,
           ReaperKeepsAway, RowKeepsUp, Accounted, Under, Holds, NoAttempt,
           Id, row, provider, attempts, reapers, Goto
  <2>1. ASSUME NEW a \in Attempt, Open(a) PROVE AccountedInv'
    BY <2>1 DEF Open
  <2>2. ASSUME NEW a \in Attempt, DestroyPrior(a) PROVE AccountedInv'
    BY <2>2 DEF DestroyPrior
  <2>3. ASSUME NEW a \in Attempt, PriorLeft(a) PROVE AccountedInv'
    BY <2>3 DEF PriorLeft
  <2>4. ASSUME NEW a \in Attempt, Rent(a) PROVE AccountedInv'
    BY <2>4 DEF Rent
  <2>5. ASSUME NEW a \in Attempt, RentFails(a) PROVE AccountedInv'
    BY <2>5 DEF RentFails
  <2>6. ASSUME NEW a \in Attempt, Attach(a) PROVE AccountedInv'
    BY <2>6 DEF Attach
  <2>7. ASSUME NEW a \in Attempt, AttachLost(a) PROVE AccountedInv'
    BY <2>7 DEF AttachLost
  <2>8. ASSUME NEW a \in Attempt, Release(a) PROVE AccountedInv'
    BY <2>8 DEF Release
  <2>9. ASSUME NEW a \in Attempt, ReleaseFails(a) PROVE AccountedInv'
    BY <2>9 DEF ReleaseFails
  <2>10. ASSUME NEW a \in Attempt, Settle(a) PROVE AccountedInv'
    BY <2>10 DEF Settle
  <2>11. ASSUME NEW a \in Attempt, SettleErrs(a) PROVE AccountedInv'
    <3>1. CASE excused \/ held[a] \in left
      BY <2>11, <3>1 DEF SettleErrs
    <3>2. CASE ~excused /\ held[a] \notin left
      <4>1. alive = {}
        BY <2>11, <3>2 DEF SettleErrs
      <4>2. \A s \in Server : reap[s] = "rest"
        BY <2>11, <3>2 DEF SettleErrs
      <4>. QED
        BY <2>11, <3>2, <4>1, <4>2 DEF SettleErrs
    <3>. QED
      BY <3>1, <3>2
  <2>12. ASSUME NEW a \in Attempt, Abandon(a) PROVE AccountedInv'
    BY <2>12 DEF Abandon
  <2>13. ASSUME NEW a \in Attempt, AbandonLost(a) PROVE AccountedInv'
    BY <2>13 DEF AbandonLost
  <2>14. ASSUME NEW a \in Attempt, Stop(a) PROVE AccountedInv'
    <3>1. CASE excused \/ pc[a] = "attaching"
      BY <2>14, <3>1 DEF Stop
    <3>2. CASE ~excused /\ pc[a] # "attaching"
      <4>1. alive \subseteq {recorded}
        BY <2>14, <3>2 DEF Stop
      <4>2. \A s \in Server : reap[s] = "rest"
        BY <2>14, <3>2 DEF Stop
      <4>3. \A b \in Attempt : pc'[b] \in {"idle", "over"}
        BY <2>14, <3>2 DEF Stop
      <4>. QED
        BY <2>14, <3>2, <4>1, <4>2, <4>3 DEF Stop
    <3>. QED
      BY <3>1, <3>2
  <2>15. ASSUME NEW s \in Server, ReapReads(s) PROVE AccountedInv'
    BY <2>15 DEF ReapReads
  <2>16. ASSUME NEW s \in Server, ReapDestroys(s) PROVE AccountedInv'
    BY <2>16 DEF ReapDestroys
  <2>17. ASSUME NEW s \in Server, ReapFails(s) PROVE AccountedInv'
    BY <2>17 DEF ReapFails
  <2>18. ASSUME NEW s \in Server, ReapImpossible(s) PROVE AccountedInv'
    BY <2>18 DEF ReapImpossible
  <2>19. ASSUME NEW s \in Server, ReapClears(s) PROVE AccountedInv'
    BY <2>19 DEF ReapClears
  <2>20. ASSUME NEW s \in Server, ReapStops(s) PROVE AccountedInv'
    BY <2>20 DEF ReapStops
  <2>21. ASSUME SweepVoids PROVE AccountedInv'
    BY <2>21 DEF SweepVoids
  <2>22. ASSUME Grow PROVE AccountedInv'
    BY <2>22 DEF Grow
  <2>23. CASE UNCHANGED vars
    BY <2>23 DEF vars
  <2>. QED
    BY <2>1, <2>2, <2>3, <2>4, <2>5, <2>6, <2>7, <2>8, <2>9, <2>10, <2>11, <2>12, <2>13, <2>14, <2>15, <2>16, <2>17, <2>18, <2>19, <2>20, <2>21, <2>22, <2>23
    DEF Next, AttemptStep, ReapStep
<1>. QED
  BY <1>1, <1>2, TypeCorrect, SparesInvariant, PTL DEF Spec

(* Unless excused, every sandbox the provider has is held, about to be
   destroyed, or named by the row.                                         *)
THEOREM SandboxesAccountedFor ==
  ASSUME ~Outlives
  PROVE  Spec => []Accounted
<1>1. AccountedInv => Accounted
  BY DEF AccountedInv, Accounted
<1>. QED
  BY <1>1, AccountedInvariant, PTL
---------------------------------------------------------------------------
(* The life of a trial.                                                    *)

(* Attempts follow one another, however long they last.                    *)
LEMMA AttemptsFollow == Spec => []OneAtATime
<1>1. Init => OneAtATime
  BY DEF Init, OneAtATime, Under
<1>2. TypeOK /\ OneAtATime /\ [Next]_vars => OneAtATime'
  <2>. SUFFICES ASSUME TypeOK, OneAtATime, [Next]_vars PROVE OneAtATime'
    OBVIOUS
  <2>. USE DEF TypeOK, OneAtATime, Under, NoAttempt
  <2>1. ASSUME NEW a \in Attempt, Open(a) PROVE OneAtATime'
    BY <2>1 DEF Open, Goto
  <2>2. ASSUME NEW a \in Attempt, DestroyPrior(a) PROVE OneAtATime'
    BY <2>2 DEF DestroyPrior, Goto
  <2>3. ASSUME NEW a \in Attempt, PriorLeft(a) PROVE OneAtATime'
    BY <2>3 DEF PriorLeft, Goto
  <2>4. ASSUME NEW a \in Attempt, Rent(a) PROVE OneAtATime'
    BY <2>4 DEF Rent, Goto
  <2>5. ASSUME NEW a \in Attempt, RentFails(a) PROVE OneAtATime'
    BY <2>5 DEF RentFails, Goto
  <2>6. ASSUME NEW a \in Attempt, Attach(a) PROVE OneAtATime'
    BY <2>6 DEF Attach, Goto
  <2>7. ASSUME NEW a \in Attempt, AttachLost(a) PROVE OneAtATime'
    BY <2>7 DEF AttachLost, Goto
  <2>8. ASSUME NEW a \in Attempt, Release(a) PROVE OneAtATime'
    BY <2>8 DEF Release, Goto
  <2>9. ASSUME NEW a \in Attempt, ReleaseFails(a) PROVE OneAtATime'
    BY <2>9 DEF ReleaseFails, Goto
  <2>10. ASSUME NEW a \in Attempt, Settle(a) PROVE OneAtATime'
    BY <2>10 DEF Settle, Goto
  <2>11. ASSUME NEW a \in Attempt, SettleErrs(a) PROVE OneAtATime'
    BY <2>11 DEF SettleErrs, Goto
  <2>12. ASSUME NEW a \in Attempt, Abandon(a) PROVE OneAtATime'
    BY <2>12 DEF Abandon, Goto
  <2>13. ASSUME NEW a \in Attempt, AbandonLost(a) PROVE OneAtATime'
    BY <2>13 DEF AbandonLost, Goto
  <2>14. ASSUME NEW a \in Attempt, Stop(a) PROVE OneAtATime'
    BY <2>14 DEF Stop, Goto
  <2>15. ASSUME NEW s \in Server, ReapReads(s) PROVE OneAtATime'
    BY <2>15 DEF ReapReads, attempts
  <2>16. ASSUME NEW s \in Server, ReapDestroys(s) PROVE OneAtATime'
    BY <2>16 DEF ReapDestroys, attempts
  <2>17. ASSUME NEW s \in Server, ReapFails(s) PROVE OneAtATime'
    BY <2>17 DEF ReapFails, attempts
  <2>18. ASSUME NEW s \in Server, ReapImpossible(s) PROVE OneAtATime'
    BY <2>18 DEF ReapImpossible, attempts
  <2>19. ASSUME NEW s \in Server, ReapClears(s) PROVE OneAtATime'
    BY <2>19 DEF ReapClears, attempts
  <2>20. ASSUME NEW s \in Server, ReapStops(s) PROVE OneAtATime'
    BY <2>20 DEF ReapStops, attempts
  <2>21. ASSUME SweepVoids PROVE OneAtATime'
    BY <2>21 DEF SweepVoids, attempts
  <2>22. ASSUME Grow PROVE OneAtATime'
    BY <2>22 DEF Grow, attempts
  <2>23. CASE UNCHANGED vars
    BY <2>23 DEF vars, attempts
  <2>. QED
    BY <2>1, <2>2, <2>3, <2>4, <2>5, <2>6, <2>7, <2>8, <2>9, <2>10,
       <2>11, <2>12, <2>13, <2>14, <2>15, <2>16, <2>17, <2>18, <2>19,
       <2>20, <2>21, <2>22, <2>23
       DEF Next, AttemptStep, ReapStep
<1>. QED
  BY <1>1, <1>2, TypeCorrect, PTL DEF Spec

(* Who is at the trial and what its row says tell how far it has come.     *)
LEMMA LifeStutters ==
  ASSUME UNCHANGED <<status, AtHand>>
  PROVE  UNCHANGED Life!vars
  BY DEF Life!vars

(* An attempt that is at the trial is there alone.                         *)
LEMMA AloneAtHand ==
  ASSUME OneAtATime, NEW a \in Attempt, pc[a] = "settling"
  PROVE  AtHand = {a}
  BY DEF OneAtATime, Under, AtHand

(* An attempt may let go of its trial without a word, and a trial that has *)
(* no attempt may be voided.                                               *)
LEMMA LetGo ==
  ASSUME AtHand' = {}, UNCHANGED status
  PROVE  Life!Next
<1>1. Life!Lose({"trial"})
  BY DEF Life!Lose
<1>. QED
  BY <1>1 DEF Life!Next

(* Nobody is at it, and nothing was said of it.                            *)
LEMMA Voids ==
  ASSUME AtHand = {}, AtHand' = {}, status = "running", status' = "void"
  PROVE  Life!Next
<1>1. Life!Void({"trial"})
  BY DEF Life!Void
<1>. QED
  BY <1>1 DEF Life!Next

(* Each step of the attempts, the reapers and the sweep is one in the life *)
(* of the trial, or none, whether or not an attempt outlives LEAKED_AFTER. *)
THEOREM LedgerImplementsTrialLife == Spec => ImplementsTrialLife
<1>1. Init => Life!Init
  BY DEF Init, Life!Init, AtHand
<1>2. TypeOK /\ OneAtATime /\ [Next]_vars => [Life!Next]_(Life!vars)
  <2>. SUFFICES ASSUME TypeOK, OneAtATime, [Next]_vars
                PROVE  Life!Next \/ UNCHANGED Life!vars
    OBVIOUS
  <2>. USE DEF TypeOK
  <2>1. ASSUME NEW a \in Attempt, Open(a) PROVE Life!Next \/ UNCHANGED Life!vars
    <3>1. AtHand = {}
      BY <2>1 DEF Open, NoAttempt, Under, AtHand
    <3>2. AtHand' = {a}
      BY <2>1, <3>1 DEF Open, Goto, AtHand
    <3>. QED
      BY <2>1, <3>1, <3>2 DEF Open, Life!Next, Life!Open
  <2>2. ASSUME NEW a \in Attempt, DestroyPrior(a) PROVE Life!Next \/ UNCHANGED Life!vars
    <3>1. AtHand' = AtHand
      BY <2>2 DEF DestroyPrior, Goto, AtHand
    <3>. QED
      BY <2>2, <3>1, LifeStutters DEF DestroyPrior, row
  <2>3. ASSUME NEW a \in Attempt, PriorLeft(a) PROVE Life!Next \/ UNCHANGED Life!vars
    <3>1. AtHand' = AtHand
      BY <2>3 DEF PriorLeft, Goto, AtHand
    <3>. QED
      BY <2>3, <3>1, LifeStutters DEF PriorLeft, row
  <2>4. ASSUME NEW a \in Attempt, Rent(a) PROVE Life!Next \/ UNCHANGED Life!vars
    <3>1. AtHand' = AtHand
      BY <2>4 DEF Rent, Goto, AtHand
    <3>. QED
      BY <2>4, <3>1, LifeStutters DEF Rent, row
  <2>5. ASSUME NEW a \in Attempt, RentFails(a) PROVE Life!Next \/ UNCHANGED Life!vars
    <3>1. AtHand' \in {AtHand, {}}
      BY <2>5 DEF RentFails, Goto, AtHand, OneAtATime, Under
    <3>. QED
      BY <2>5, <3>1, LetGo, LifeStutters DEF RentFails, row
  <2>6. ASSUME NEW a \in Attempt, Attach(a) PROVE Life!Next \/ UNCHANGED Life!vars
    <3>1. AtHand' = AtHand
      BY <2>6 DEF Attach, Goto, AtHand
    <3>. QED
      BY <2>6, <3>1, LifeStutters DEF Attach, row
  <2>7. ASSUME NEW a \in Attempt, AttachLost(a) PROVE Life!Next \/ UNCHANGED Life!vars
    <3>1. AtHand' = AtHand
      BY <2>7 DEF AttachLost, Goto, AtHand
    <3>. QED
      BY <2>7, <3>1, LifeStutters DEF AttachLost, row
  <2>8. ASSUME NEW a \in Attempt, Release(a) PROVE Life!Next \/ UNCHANGED Life!vars
    <3>1. AtHand' \in {AtHand, {}}
      BY <2>8 DEF Release, Goto, AtHand, OneAtATime, Under
    <3>. QED
      BY <2>8, <3>1, LetGo, LifeStutters DEF Release, row
  <2>9. ASSUME NEW a \in Attempt, ReleaseFails(a) PROVE Life!Next \/ UNCHANGED Life!vars
    <3>1. AtHand' \in {AtHand, {}}
      BY <2>9 DEF ReleaseFails, Goto, AtHand, OneAtATime, Under
    <3>. QED
      BY <2>9, <3>1, LetGo, LifeStutters DEF ReleaseFails, row
  <2>10. ASSUME NEW a \in Attempt, Settle(a) PROVE Life!Next \/ UNCHANGED Life!vars
    <3>1. a \in AtHand /\ AtHand' = {}
      BY <2>10, AloneAtHand DEF Settle, Goto, AtHand
    <3>. QED
      BY <2>10, <3>1 DEF Settle, Life!Next, Life!Conclude
  <2>11. ASSUME NEW a \in Attempt, SettleErrs(a) PROVE Life!Next \/ UNCHANGED Life!vars
    <3>1. a \in AtHand /\ AtHand' = {}
      BY <2>11, AloneAtHand DEF SettleErrs, Goto, AtHand
    <3>2. CASE status' = "settled"
      BY <3>1, <3>2 DEF Life!Next, Life!Conclude
    <3>3. CASE UNCHANGED status
      BY <3>1, <3>3, LetGo
    <3>. QED
      BY <2>11, <3>2, <3>3 DEF SettleErrs
  <2>12. ASSUME NEW a \in Attempt, Abandon(a) PROVE Life!Next \/ UNCHANGED Life!vars
    <3>1. AtHand = {} /\ AtHand' = {}
      BY <2>12 DEF Abandon, Goto, AtHand, OneAtATime, Under
    <3>2. CASE status = "running"
      BY <2>12, <3>1, <3>2, Voids DEF Abandon
    <3>3. CASE status # "running"
      BY <2>12, <3>1, <3>3, LifeStutters DEF Abandon
    <3>. QED
      BY <3>2, <3>3
  <2>13. ASSUME NEW a \in Attempt, AbandonLost(a) PROVE Life!Next \/ UNCHANGED Life!vars
    <3>1. AtHand' = AtHand
      BY <2>13 DEF AbandonLost, Goto, AtHand
    <3>. QED
      BY <2>13, <3>1, LifeStutters DEF AbandonLost, row
  <2>14. ASSUME NEW a \in Attempt, Stop(a) PROVE Life!Next \/ UNCHANGED Life!vars
    <3>1. AtHand' \in {AtHand, {}}
      BY <2>14 DEF Stop, Goto, AtHand, OneAtATime, Under
    <3>. QED
      BY <2>14, <3>1, LetGo, LifeStutters DEF Stop, row
  <2>15. ASSUME NEW s \in Server, ReapReads(s) PROVE Life!Next \/ UNCHANGED Life!vars
    BY <2>15, LifeStutters DEF ReapReads, row, attempts, AtHand
  <2>16. ASSUME NEW s \in Server, ReapDestroys(s) PROVE Life!Next \/ UNCHANGED Life!vars
    BY <2>16, LifeStutters DEF ReapDestroys, row, attempts, AtHand
  <2>17. ASSUME NEW s \in Server, ReapFails(s) PROVE Life!Next \/ UNCHANGED Life!vars
    BY <2>17, LifeStutters DEF ReapFails, row, attempts, AtHand
  <2>18. ASSUME NEW s \in Server, ReapImpossible(s) PROVE Life!Next \/ UNCHANGED Life!vars
    BY <2>18, LifeStutters DEF ReapImpossible, row, attempts, AtHand
  <2>19. ASSUME NEW s \in Server, ReapClears(s) PROVE Life!Next \/ UNCHANGED Life!vars
    BY <2>19, LifeStutters DEF ReapClears, row, attempts, AtHand
  <2>20. ASSUME NEW s \in Server, ReapStops(s) PROVE Life!Next \/ UNCHANGED Life!vars
    BY <2>20, LifeStutters DEF ReapStops, row, attempts, AtHand
  <2>21. ASSUME SweepVoids PROVE Life!Next \/ UNCHANGED Life!vars
    <3>1. AtHand = {} /\ AtHand' = {}
      BY <2>21 DEF SweepVoids, NoAttempt, Under, AtHand, attempts
    <3>. QED
      BY <2>21, <3>1, Voids DEF SweepVoids
  <2>22. ASSUME Grow PROVE Life!Next \/ UNCHANGED Life!vars
    BY <2>22, LifeStutters DEF Grow, row, attempts, AtHand
  <2>23. CASE UNCHANGED vars
    BY <2>23, LifeStutters DEF vars, row, attempts, AtHand
  <2>. QED
    BY <2>1, <2>2, <2>3, <2>4, <2>5, <2>6, <2>7, <2>8, <2>9, <2>10,
       <2>11, <2>12, <2>13, <2>14, <2>15, <2>16, <2>17, <2>18, <2>19,
       <2>20, <2>21, <2>22, <2>23
       DEF Next, AttemptStep, ReapStep
<1>. QED
  BY <1>1, <1>2, TypeCorrect, AttemptsFollow, PTL DEF Spec, ImplementsTrialLife, Life!Spec
===========================================================================
