-------------------------- MODULE AdmissionProofs --------------------------
(***************************************************************************)
(* Proofs about Admission, for every set of requests, every assignment of  *)
(* keys and bodies to them and every limit.  The argument is in            *)
(* AdmissionInv: the lock makes what a transaction has read stay so until  *)
(* it inserts, and batches are never deleted.  Each conjunct is kept by a  *)
(* lemma of its own, one step per action.                                  *)
(***************************************************************************)
EXTENDS Admission, FiniteSetTheorems, TLAPS

(* Batches are counted in finite sets.                                     *)
LEMMA CountsAreNumbers ==
  /\ Cardinality(Counted) \in Nat
  /\ Cardinality(InFlight) \in Nat
  /\ Cardinality(Counted) <= Cardinality(InFlight)
<1>1. IsFiniteSet(Request)
  BY AdmissionAssumption
<1>2. InFlight \subseteq Request /\ Counted \subseteq InFlight
  BY AdmissionAssumption DEF InFlight, Counted
<1>3. IsFiniteSet(InFlight)
  BY <1>1, <1>2, FS_Subset
<1>4. IsFiniteSet(Counted) /\ Cardinality(Counted) <= Cardinality(InFlight)
  BY <1>2, <1>3, FS_Subset
<1>. QED
  BY <1>3, <1>4, FS_CardinalityType

(* No more batches count than before when none joins them, and one more
   at most when one may.                                                   *)
LEMMA CountedShrinks ==
  ASSUME Counted' \subseteq Counted
  PROVE  Cardinality(Counted') \in Nat /\ Cardinality(Counted') <= Cardinality(Counted)
<1>1. IsFiniteSet(Counted)
  BY AdmissionAssumption, FS_Subset DEF Counted
<1>. QED
  BY <1>1, FS_Subset, FS_CardinalityType

LEMMA CountedGrows ==
  ASSUME NEW r, Counted' \subseteq Counted \cup {r}
  PROVE  Cardinality(Counted') \in Nat /\ Cardinality(Counted') <= Cardinality(Counted) + 1
<1>1. IsFiniteSet(Counted)
  BY AdmissionAssumption, FS_Subset DEF Counted
<1>2. /\ IsFiniteSet(Counted \cup {r})
      /\ Cardinality(Counted \cup {r}) <= Cardinality(Counted) + 1
  <2>1. Cardinality(Counted) \in Nat
    BY <1>1, FS_CardinalityType
  <2>. QED
    BY <1>1, <2>1, FS_AddElement
<1>3. /\ IsFiniteSet(Counted')
      /\ Cardinality(Counted') <= Cardinality(Counted \cup {r})
  BY <1>2, FS_Subset
<1>. QED
  BY <1>1, <1>2, <1>3, FS_CardinalityType

(* The initial states satisfy the invariant.                               *)
LEMMA InitInv == Init => AdmissionInv
<1>. SUFFICES ASSUME Init PROVE AdmissionInv
  OBVIOUS
<1>1. Counted = {}
  BY AdmissionAssumption DEF Init, Counted
<1>2. Cardinality(Counted) = 0
  BY <1>1, FS_EmptySet
<1>. QED
  BY <1>2, AdmissionAssumption
  DEF Init, AdmissionInv, TypeOK, LockHeld, OwnBatch, KeyStaysFree, RoomStays, RaceLost,
      Holders, OneStartPerKey, AnswerStands, RaceFindsItsBatch, AdmittedWithinLimit

(* The types.                                                              *)
LEMMA TypeKept == TypeOK /\ [Next]_vars => TypeOK'
<1>. SUFFICES ASSUME TypeOK, [Next]_vars PROVE TypeOK'
  OBVIOUS
<1>. USE AdmissionAssumption DEF TypeOK
<1>1. ASSUME NEW r \in Request, Look(r) PROVE TypeOK'
  BY <1>1 DEF Look, Replay, Answer, Goto, rows, answer, Holders
<1>2. ASSUME NEW r \in Request, Admit(r) PROVE TypeOK'
  BY <1>2 DEF Admit, Answer, Goto, rows, answer
<1>3. ASSUME NEW r \in Request, Lock(r) PROVE TypeOK'
  BY <1>3 DEF Lock, Goto, rows, answer
<1>4. ASSUME NEW r \in Request, CheckKey(r) PROVE TypeOK'
  BY <1>4 DEF CheckKey, Unlock, Goto, rows, answer
<1>5. ASSUME NEW r \in Request, Count(r) PROVE TypeOK'
  BY <1>5 DEF Count, Unlock, Answer, Goto, rows, answer
<1>6. ASSUME NEW r \in Request, Insert(r) PROVE TypeOK'
  BY <1>6 DEF Insert, Unlock, Goto, answer
<1>7. ASSUME NEW r \in Request, Race(r) PROVE TypeOK'
  BY <1>7 DEF Race, Replay, Answer, Goto, rows, answer, Holders
<1>8. ASSUME NEW r \in Request, Dispatch(r) PROVE TypeOK'
  BY <1>8 DEF Dispatch, Answer, Goto
<1>9. ASSUME NEW r \in Request, DispatchFails(r) PROVE TypeOK'
  BY <1>9 DEF DispatchFails, Goto, answer
<1>10. ASSUME NEW r \in Request, FailBatch(r) PROVE TypeOK'
  BY <1>10 DEF FailBatch, Goto, answer
<1>11. ASSUME NEW r \in Request, InsertErrs(r) PROVE TypeOK'
  BY <1>11 DEF InsertErrs, Unlock, Goto, answer
<1>12. ASSUME NEW r \in Request, Fail(r) PROVE TypeOK'
  BY <1>12 DEF Fail, Unlock, Answer, Goto, rows, answer
<1>13. ASSUME NEW r \in Request, Close(r) PROVE TypeOK'
  BY <1>13 DEF Close, answer
<1>14. ASSUME NEW r \in Request, Reopen(r) PROVE TypeOK'
  BY <1>14 DEF Reopen, answer
<1>15. CASE UNCHANGED vars
  BY <1>15 DEF vars, rows, answer
<1>. QED
  BY <1>1, <1>2, <1>3, <1>4, <1>5, <1>6, <1>7, <1>8, <1>9, <1>10, <1>11, <1>12, <1>13, <1>14, <1>15 DEF Next, Handle

(* The lock is held through the transaction, by one.                      *)
LEMMA LockKept == TypeOK /\ LockHeld /\ [Next]_vars => LockHeld'
<1>. SUFFICES ASSUME TypeOK /\ LockHeld, [Next]_vars PROVE LockHeld'
  OBVIOUS
<1>. USE AdmissionAssumption DEF TypeOK, LockHeld
<1>1. ASSUME NEW r \in Request, Look(r) PROVE LockHeld'
  BY <1>1 DEF Look, Replay, Answer, Goto, rows, answer
<1>2. ASSUME NEW r \in Request, Admit(r) PROVE LockHeld'
  BY <1>2 DEF Admit, Answer, Goto, rows, answer
<1>3. ASSUME NEW r \in Request, Lock(r) PROVE LockHeld'
  BY <1>3 DEF Lock, Goto, rows, answer
<1>4. ASSUME NEW r \in Request, CheckKey(r) PROVE LockHeld'
  BY <1>4 DEF CheckKey, Unlock, Goto, rows, answer
<1>5. ASSUME NEW r \in Request, Count(r) PROVE LockHeld'
  BY <1>5 DEF Count, Unlock, Answer, Goto, rows, answer
<1>6. ASSUME NEW r \in Request, Insert(r) PROVE LockHeld'
  BY <1>6 DEF Insert, Unlock, Goto, answer
<1>7. ASSUME NEW r \in Request, Race(r) PROVE LockHeld'
  BY <1>7 DEF Race, Replay, Answer, Goto, rows, answer
<1>8. ASSUME NEW r \in Request, Dispatch(r) PROVE LockHeld'
  BY <1>8 DEF Dispatch, Answer, Goto
<1>9. ASSUME NEW r \in Request, DispatchFails(r) PROVE LockHeld'
  BY <1>9 DEF DispatchFails, Goto, answer
<1>10. ASSUME NEW r \in Request, FailBatch(r) PROVE LockHeld'
  BY <1>10 DEF FailBatch, Goto, answer
<1>11. ASSUME NEW r \in Request, InsertErrs(r) PROVE LockHeld'
  BY <1>11 DEF InsertErrs, Unlock, Goto, answer
<1>12. ASSUME NEW r \in Request, Fail(r) PROVE LockHeld'
  BY <1>12 DEF Fail, Unlock, Answer, Goto, rows, answer
<1>13. ASSUME NEW r \in Request, Close(r) PROVE LockHeld'
  BY <1>13 DEF Close, answer
<1>14. ASSUME NEW r \in Request, Reopen(r) PROVE LockHeld'
  BY <1>14 DEF Reopen, answer
<1>15. CASE UNCHANGED vars
  BY <1>15 DEF vars, rows, answer
<1>. QED
  BY <1>1, <1>2, <1>3, <1>4, <1>5, <1>6, <1>7, <1>8, <1>9, <1>10, <1>11, <1>12, <1>13, <1>14, <1>15 DEF Next, Handle

(* Where a handler is says whether its batch is there.                     *)
LEMMA OwnKept == TypeOK /\ OwnBatch /\ [Next]_vars => OwnBatch'
<1>. SUFFICES ASSUME TypeOK /\ OwnBatch, [Next]_vars PROVE OwnBatch'
  OBVIOUS
<1>. USE AdmissionAssumption DEF TypeOK, OwnBatch
<1>1. ASSUME NEW r \in Request, Look(r) PROVE OwnBatch'
  BY <1>1 DEF Look, Replay, Answer, Goto, rows, answer, Holders
<1>2. ASSUME NEW r \in Request, Admit(r) PROVE OwnBatch'
  BY <1>2 DEF Admit, Answer, Goto, rows, answer
<1>3. ASSUME NEW r \in Request, Lock(r) PROVE OwnBatch'
  BY <1>3 DEF Lock, Goto, rows, answer
<1>4. ASSUME NEW r \in Request, CheckKey(r) PROVE OwnBatch'
  BY <1>4 DEF CheckKey, Unlock, Goto, rows, answer
<1>5. ASSUME NEW r \in Request, Count(r) PROVE OwnBatch'
  BY <1>5 DEF Count, Unlock, Answer, Goto, rows, answer
<1>6. ASSUME NEW r \in Request, Insert(r) PROVE OwnBatch'
  BY <1>6 DEF Insert, Unlock, Goto, answer
<1>7. ASSUME NEW r \in Request, Race(r) PROVE OwnBatch'
  BY <1>7 DEF Race, Replay, Answer, Goto, rows, answer, Holders
<1>8. ASSUME NEW r \in Request, Dispatch(r) PROVE OwnBatch'
  BY <1>8 DEF Dispatch, Answer, Goto
<1>9. ASSUME NEW r \in Request, DispatchFails(r) PROVE OwnBatch'
  BY <1>9 DEF DispatchFails, Goto, answer
<1>10. ASSUME NEW r \in Request, FailBatch(r) PROVE OwnBatch'
  BY <1>10 DEF FailBatch, Goto, answer
<1>11. ASSUME NEW r \in Request, InsertErrs(r) PROVE OwnBatch'
  BY <1>11 DEF InsertErrs, Unlock, Goto, answer
<1>12. ASSUME NEW r \in Request, Fail(r) PROVE OwnBatch'
  BY <1>12 DEF Fail, Unlock, Answer, Goto, rows, answer
<1>13. ASSUME NEW r \in Request, Close(r) PROVE OwnBatch'
  BY <1>13 DEF Close, answer
<1>14. ASSUME NEW r \in Request, Reopen(r) PROVE OwnBatch'
  BY <1>14 DEF Reopen, answer
<1>15. CASE UNCHANGED vars
  BY <1>15 DEF vars, rows, answer
<1>. QED
  BY <1>1, <1>2, <1>3, <1>4, <1>5, <1>6, <1>7, <1>8, <1>9, <1>10, <1>11, <1>12, <1>13, <1>14, <1>15 DEF Next, Handle

(* No second batch of a key: between the look for the key and the insert,
   only the holder of the lock could have inserted one.                    *)
LEMMA KeyKept == AdmissionInv /\ [Next]_vars => (OneStartPerKey /\ KeyStaysFree)'
<1>. SUFFICES ASSUME AdmissionInv, [Next]_vars PROVE (OneStartPerKey /\ KeyStaysFree)'
  OBVIOUS
<1>. USE AdmissionAssumption DEF AdmissionInv, TypeOK, LockHeld, OwnBatch, OneStartPerKey, KeyStaysFree, Holders
<1>1. ASSUME NEW r \in Request, Look(r) PROVE (OneStartPerKey /\ KeyStaysFree)'
  BY <1>1 DEF Look, Replay, Answer, Goto, rows, answer
<1>2. ASSUME NEW r \in Request, Admit(r) PROVE (OneStartPerKey /\ KeyStaysFree)'
  BY <1>2 DEF Admit, Answer, Goto, rows, answer
<1>3. ASSUME NEW r \in Request, Lock(r) PROVE (OneStartPerKey /\ KeyStaysFree)'
  BY <1>3 DEF Lock, Goto, rows, answer
<1>4. ASSUME NEW r \in Request, CheckKey(r) PROVE (OneStartPerKey /\ KeyStaysFree)'
  BY <1>4 DEF CheckKey, Unlock, Goto, rows, answer
<1>5. ASSUME NEW r \in Request, Count(r) PROVE (OneStartPerKey /\ KeyStaysFree)'
  BY <1>5 DEF Count, Unlock, Answer, Goto, rows, answer
<1>6. ASSUME NEW r \in Request, Insert(r) PROVE (OneStartPerKey /\ KeyStaysFree)'
  BY <1>6 DEF Insert, Unlock, Goto, answer
<1>7. ASSUME NEW r \in Request, Race(r) PROVE (OneStartPerKey /\ KeyStaysFree)'
  BY <1>7 DEF Race, Replay, Answer, Goto, rows, answer
<1>8. ASSUME NEW r \in Request, Dispatch(r) PROVE (OneStartPerKey /\ KeyStaysFree)'
  BY <1>8 DEF Dispatch, Answer, Goto
<1>9. ASSUME NEW r \in Request, DispatchFails(r) PROVE (OneStartPerKey /\ KeyStaysFree)'
  BY <1>9 DEF DispatchFails, Goto, answer
<1>10. ASSUME NEW r \in Request, FailBatch(r) PROVE (OneStartPerKey /\ KeyStaysFree)'
  BY <1>10 DEF FailBatch, Goto, answer
<1>11. ASSUME NEW r \in Request, InsertErrs(r) PROVE (OneStartPerKey /\ KeyStaysFree)'
  BY <1>11 DEF InsertErrs, Unlock, Goto, answer
<1>12. ASSUME NEW r \in Request, Fail(r) PROVE (OneStartPerKey /\ KeyStaysFree)'
  BY <1>12 DEF Fail, Unlock, Answer, Goto, rows, answer
<1>13. ASSUME NEW r \in Request, Close(r) PROVE (OneStartPerKey /\ KeyStaysFree)'
  BY <1>13 DEF Close, answer
<1>14. ASSUME NEW r \in Request, Reopen(r) PROVE (OneStartPerKey /\ KeyStaysFree)'
  BY <1>14 DEF Reopen, answer
<1>15. CASE UNCHANGED vars
  BY <1>15 DEF vars, rows, answer
<1>. QED
  BY <1>1, <1>2, <1>3, <1>4, <1>5, <1>6, <1>7, <1>8, <1>9, <1>10, <1>11, <1>12, <1>13, <1>14, <1>15 DEF Next, Handle

(* A key once taken stays taken, so a lost race finds its batch.           *)
LEMMA RaceKept == AdmissionInv /\ [Next]_vars => (RaceLost /\ RaceFindsItsBatch)'
<1>. SUFFICES ASSUME AdmissionInv, [Next]_vars PROVE (RaceLost /\ RaceFindsItsBatch)'
  OBVIOUS
<1>. USE AdmissionAssumption DEF AdmissionInv, TypeOK, OwnBatch, RaceLost, RaceFindsItsBatch, Holders
<1>1. ASSUME NEW r \in Request, Look(r) PROVE (RaceLost /\ RaceFindsItsBatch)'
  BY <1>1 DEF Look, Replay, Answer, Goto, rows, answer
<1>2. ASSUME NEW r \in Request, Admit(r) PROVE (RaceLost /\ RaceFindsItsBatch)'
  BY <1>2 DEF Admit, Answer, Goto, rows, answer
<1>3. ASSUME NEW r \in Request, Lock(r) PROVE (RaceLost /\ RaceFindsItsBatch)'
  BY <1>3 DEF Lock, Goto, rows, answer
<1>4. ASSUME NEW r \in Request, CheckKey(r) PROVE (RaceLost /\ RaceFindsItsBatch)'
  BY <1>4 DEF CheckKey, Unlock, Goto, rows, answer
<1>5. ASSUME NEW r \in Request, Count(r) PROVE (RaceLost /\ RaceFindsItsBatch)'
  BY <1>5 DEF Count, Unlock, Answer, Goto, rows, answer
<1>6. ASSUME NEW r \in Request, Insert(r) PROVE (RaceLost /\ RaceFindsItsBatch)'
  BY <1>6 DEF Insert, Unlock, Goto, answer
<1>7. ASSUME NEW r \in Request, Race(r) PROVE (RaceLost /\ RaceFindsItsBatch)'
  BY <1>7 DEF Race, Replay, Answer, Goto, rows, answer
<1>8. ASSUME NEW r \in Request, Dispatch(r) PROVE (RaceLost /\ RaceFindsItsBatch)'
  BY <1>8 DEF Dispatch, Answer, Goto
<1>9. ASSUME NEW r \in Request, DispatchFails(r) PROVE (RaceLost /\ RaceFindsItsBatch)'
  BY <1>9 DEF DispatchFails, Goto, answer
<1>10. ASSUME NEW r \in Request, FailBatch(r) PROVE (RaceLost /\ RaceFindsItsBatch)'
  BY <1>10 DEF FailBatch, Goto, answer
<1>11. ASSUME NEW r \in Request, InsertErrs(r) PROVE (RaceLost /\ RaceFindsItsBatch)'
  BY <1>11 DEF InsertErrs, Unlock, Goto, answer
<1>12. ASSUME NEW r \in Request, Fail(r) PROVE (RaceLost /\ RaceFindsItsBatch)'
  BY <1>12 DEF Fail, Unlock, Answer, Goto, rows, answer
<1>13. ASSUME NEW r \in Request, Close(r) PROVE (RaceLost /\ RaceFindsItsBatch)'
  BY <1>13 DEF Close, answer
<1>14. ASSUME NEW r \in Request, Reopen(r) PROVE (RaceLost /\ RaceFindsItsBatch)'
  BY <1>14 DEF Reopen, answer
<1>15. CASE UNCHANGED vars
  BY <1>15 DEF vars, rows, answer
<1>. QED
  BY <1>1, <1>2, <1>3, <1>4, <1>5, <1>6, <1>7, <1>8, <1>9, <1>10, <1>11, <1>12, <1>13, <1>14, <1>15 DEF Next, Handle

(* What a request was answered stays true: no batch is ever deleted.       *)
LEMMA AnswerKept == AdmissionInv /\ [Next]_vars => AnswerStands'
<1>. SUFFICES ASSUME AdmissionInv, [Next]_vars PROVE AnswerStands'
  OBVIOUS
<1>. USE AdmissionAssumption DEF AdmissionInv, TypeOK, OwnBatch, AnswerStands
<1>1. ASSUME NEW r \in Request, Look(r) PROVE AnswerStands'
  BY <1>1 DEF Look, Replay, Answer, Goto, rows, answer, Holders
<1>2. ASSUME NEW r \in Request, Admit(r) PROVE AnswerStands'
  BY <1>2 DEF Admit, Answer, Goto, rows, answer
<1>3. ASSUME NEW r \in Request, Lock(r) PROVE AnswerStands'
  BY <1>3 DEF Lock, Goto, rows, answer
<1>4. ASSUME NEW r \in Request, CheckKey(r) PROVE AnswerStands'
  BY <1>4 DEF CheckKey, Unlock, Goto, rows, answer
<1>5. ASSUME NEW r \in Request, Count(r) PROVE AnswerStands'
  BY <1>5 DEF Count, Unlock, Answer, Goto, rows, answer
<1>6. ASSUME NEW r \in Request, Insert(r) PROVE AnswerStands'
  BY <1>6 DEF Insert, Unlock, Goto, answer
<1>7. ASSUME NEW r \in Request, Race(r) PROVE AnswerStands'
  BY <1>7 DEF Race, Replay, Answer, Goto, rows, answer, Holders
<1>8. ASSUME NEW r \in Request, Dispatch(r) PROVE AnswerStands'
  BY <1>8 DEF Dispatch, Answer, Goto
<1>9. ASSUME NEW r \in Request, DispatchFails(r) PROVE AnswerStands'
  BY <1>9 DEF DispatchFails, Goto, answer
<1>10. ASSUME NEW r \in Request, FailBatch(r) PROVE AnswerStands'
  BY <1>10 DEF FailBatch, Goto, answer
<1>11. ASSUME NEW r \in Request, InsertErrs(r) PROVE AnswerStands'
  BY <1>11 DEF InsertErrs, Unlock, Goto, answer
<1>12. ASSUME NEW r \in Request, Fail(r) PROVE AnswerStands'
  BY <1>12 DEF Fail, Unlock, Answer, Goto, rows, answer
<1>13. ASSUME NEW r \in Request, Close(r) PROVE AnswerStands'
  BY <1>13 DEF Close, answer
<1>14. ASSUME NEW r \in Request, Reopen(r) PROVE AnswerStands'
  BY <1>14 DEF Reopen, answer
<1>15. CASE UNCHANGED vars
  BY <1>15 DEF vars, rows, answer
<1>. QED
  BY <1>1, <1>2, <1>3, <1>4, <1>5, <1>6, <1>7, <1>8, <1>9, <1>10, <1>11, <1>12, <1>13, <1>14, <1>15 DEF Next, Handle

(* The room that was counted is still there at the insert: what happens
   meanwhile can close batches or reopen them, not start one.              *)
LEMMA RoomKept == AdmissionInv /\ [Next]_vars => (RoomStays /\ AdmittedWithinLimit)'
<1>. SUFFICES ASSUME AdmissionInv, [Next]_vars PROVE (RoomStays /\ AdmittedWithinLimit)'
  OBVIOUS
<1>. USE AdmissionAssumption DEF AdmissionInv, RoomStays, AdmittedWithinLimit
<1>1. ASSUME NEW r \in Request, Look(r) PROVE (RoomStays /\ AdmittedWithinLimit)'
  <2>1. Counted' = Counted
    BY <1>1 DEF Look, Replay, Answer, Goto, rows, answer, Counted
  <2>2. \A s \in Request : pc'[s] = "inserting" => pc[s] = "inserting"
    BY <1>1 DEF Look, Replay, Answer, Goto, rows, answer, TypeOK
  <2>. QED
    BY <2>1, <2>2
<1>2. ASSUME NEW r \in Request, Admit(r) PROVE (RoomStays /\ AdmittedWithinLimit)'
  <2>1. Counted' = Counted
    BY <1>2 DEF Admit, Answer, Goto, rows, answer, Counted
  <2>2. \A s \in Request : pc'[s] = "inserting" => pc[s] = "inserting"
    BY <1>2 DEF Admit, Answer, Goto, rows, answer, TypeOK
  <2>. QED
    BY <2>1, <2>2
<1>3. ASSUME NEW r \in Request, Lock(r) PROVE (RoomStays /\ AdmittedWithinLimit)'
  <2>1. Counted' = Counted
    BY <1>3 DEF Lock, Goto, rows, answer, Counted
  <2>2. \A s \in Request : pc'[s] = "inserting" => pc[s] = "inserting"
    BY <1>3 DEF Lock, Goto, rows, answer, TypeOK
  <2>. QED
    BY <2>1, <2>2
<1>4. ASSUME NEW r \in Request, CheckKey(r) PROVE (RoomStays /\ AdmittedWithinLimit)'
  <2>1. Counted' = Counted
    BY <1>4 DEF CheckKey, Unlock, Goto, rows, answer, Counted
  <2>2. \A s \in Request : pc'[s] = "inserting" => pc[s] = "inserting"
    BY <1>4 DEF CheckKey, Unlock, Goto, rows, answer, TypeOK
  <2>. QED
    BY <2>1, <2>2
<1>5. ASSUME NEW r \in Request, Count(r) PROVE (RoomStays /\ AdmittedWithinLimit)'
  <2>1. Counted' = Counted
    BY <1>5 DEF Count, Unlock, Answer, Goto, rows, answer, Counted
  <2>2. \A s \in Request :
          pc'[s] = "inserting" => pc[s] = "inserting" \/ (s \in Limited => Cardinality(InFlight) < Limit)
    BY <1>5, CountsAreNumbers DEF Count, Unlock, Answer, Goto, rows, answer, TypeOK
  <2>. QED
    BY <2>1, <2>2, CountsAreNumbers
<1>6. ASSUME NEW r \in Request, Insert(r) PROVE (RoomStays /\ AdmittedWithinLimit)'
  <2>0. \A s \in Request : pc'[s] = "inserting" => s \notin Request
    BY <1>6 DEF Insert, Unlock, Goto, answer, TypeOK, LockHeld
  <2>1. CASE Counted' \subseteq Counted
    BY <2>0, <2>1, CountedShrinks, CountsAreNumbers
  <2>2. CASE ~ Counted' \subseteq Counted
    <3>1. r \in Limited /\ Counted' \subseteq Counted \cup {r}
      BY <1>6, <2>2 DEF Insert, Unlock, Goto, answer, TypeOK, Counted
    <3>2. Cardinality(Counted) < Limit
      BY <1>6, <3>1 DEF Insert, Unlock, Goto, answer
    <3>. QED
      BY <2>0, <3>1, <3>2, CountedGrows, CountsAreNumbers
  <2>. QED
    BY <2>1, <2>2
<1>7. ASSUME NEW r \in Request, Race(r) PROVE (RoomStays /\ AdmittedWithinLimit)'
  <2>1. Counted' = Counted
    BY <1>7 DEF Race, Replay, Answer, Goto, rows, answer, Counted
  <2>2. \A s \in Request : pc'[s] = "inserting" => pc[s] = "inserting"
    BY <1>7 DEF Race, Replay, Answer, Goto, rows, answer, TypeOK
  <2>. QED
    BY <2>1, <2>2
<1>8. ASSUME NEW r \in Request, Dispatch(r) PROVE (RoomStays /\ AdmittedWithinLimit)'
  <2>1. Counted' = Counted
    BY <1>8 DEF Dispatch, Answer, Goto, Counted
  <2>2. \A s \in Request : pc'[s] = "inserting" => pc[s] = "inserting"
    BY <1>8 DEF Dispatch, Answer, Goto, TypeOK
  <2>. QED
    BY <2>1, <2>2
<1>9. ASSUME NEW r \in Request, DispatchFails(r) PROVE (RoomStays /\ AdmittedWithinLimit)'
  <2>1. Counted' = Counted
    BY <1>9 DEF DispatchFails, Goto, answer, Counted
  <2>2. \A s \in Request : pc'[s] = "inserting" => pc[s] = "inserting"
    BY <1>9 DEF DispatchFails, Goto, answer, TypeOK
  <2>. QED
    BY <2>1, <2>2
<1>10. ASSUME NEW r \in Request, FailBatch(r) PROVE (RoomStays /\ AdmittedWithinLimit)'
  <2>1. Counted' \subseteq Counted
    BY <1>10 DEF FailBatch, Goto, answer, TypeOK, Counted
  <2>2. \A s \in Request : pc'[s] = "inserting" => pc[s] = "inserting"
    BY <1>10 DEF FailBatch, Goto, answer, TypeOK
  <2>. QED
    BY <2>1, <2>2, CountedShrinks, CountsAreNumbers
<1>11. ASSUME NEW r \in Request, InsertErrs(r) PROVE (RoomStays /\ AdmittedWithinLimit)'
  <2>0. \A s \in Request : pc'[s] = "inserting" => s \notin Request
    BY <1>11 DEF InsertErrs, Unlock, Goto, answer, TypeOK, LockHeld
  <2>1. CASE Counted' \subseteq Counted
    BY <2>0, <2>1, CountedShrinks, CountsAreNumbers
  <2>2. CASE ~ Counted' \subseteq Counted
    <3>1. r \in Limited /\ Counted' \subseteq Counted \cup {r}
      BY <1>11, <2>2 DEF InsertErrs, Unlock, Goto, answer, TypeOK, Counted
    <3>2. Cardinality(Counted) < Limit
      BY <1>11, <3>1 DEF InsertErrs, Unlock, Goto, answer
    <3>. QED
      BY <2>0, <3>1, <3>2, CountedGrows, CountsAreNumbers
  <2>. QED
    BY <2>1, <2>2
<1>12. ASSUME NEW r \in Request, Fail(r) PROVE (RoomStays /\ AdmittedWithinLimit)'
  <2>1. Counted' = Counted
    BY <1>12 DEF Fail, Unlock, Answer, Goto, rows, answer, Counted
  <2>2. \A s \in Request : pc'[s] = "inserting" => pc[s] = "inserting"
    BY <1>12 DEF Fail, Unlock, Answer, Goto, rows, answer, TypeOK
  <2>. QED
    BY <2>1, <2>2
<1>13. ASSUME NEW r \in Request, Close(r) PROVE (RoomStays /\ AdmittedWithinLimit)'
  <2>1. Counted' \subseteq Counted
    BY <1>13 DEF Close, answer, TypeOK, Counted
  <2>2. \A s \in Request : pc'[s] = "inserting" => pc[s] = "inserting"
    BY <1>13 DEF Close, answer, TypeOK
  <2>. QED
    BY <2>1, <2>2, CountedShrinks, CountsAreNumbers
<1>14. ASSUME NEW r \in Request, Reopen(r) PROVE (RoomStays /\ AdmittedWithinLimit)'
  <2>1. Counted' \subseteq Counted
    BY <1>14 DEF Reopen, answer, TypeOK, Counted
  <2>2. \A s \in Request : pc'[s] = "inserting" => pc[s] = "inserting"
    BY <1>14 DEF Reopen, answer, TypeOK
  <2>. QED
    BY <2>1, <2>2, CountedShrinks, CountsAreNumbers
<1>15. CASE UNCHANGED vars
  BY <1>15 DEF vars, rows, answer, Counted
<1>. QED
  BY <1>1, <1>2, <1>3, <1>4, <1>5, <1>6, <1>7, <1>8, <1>9, <1>10, <1>11, <1>12, <1>13, <1>14, <1>15 DEF Next, Handle

(* AdmissionInv holds in every reachable state.                            *)
THEOREM AdmissionInvariant == Spec => []AdmissionInv
<1>1. AdmissionInv /\ [Next]_vars => AdmissionInv'
  BY TypeKept, LockKept, OwnKept, KeyKept, RaceKept, AnswerKept, RoomKept DEF AdmissionInv
<1>. QED
  BY <1>1, InitInv, PTL DEF Spec

(* Every variable keeps its type.                                          *)
THEOREM TypeCorrect == Spec => []TypeOK
BY AdmissionInvariant, PTL DEF AdmissionInv

(* An idempotency key starts one batch, on any number of servers.          *)
THEOREM KeyStartsOnce == Spec => []OneStartPerKey
BY AdmissionInvariant, PTL DEF AdmissionInv

(* A key has one batch, so its answers are one.                            *)
LEMMA AnswersFollow ==
  ASSUME given \in [Request -> Request], OneStartPerKey, AnswerStands
  PROVE  AnswersAgree
<1>. SUFFICES ASSUME NEW r \in Request, outcome[r] \in {"created", "replayed"},
                     NEW s \in Request, outcome[s] \in {"created", "replayed"},
                     KeyOf[s] = KeyOf[r], KeyOf[r] # NoKey
              PROVE  given[s] = given[r]
  BY DEF AnswersAgree, AnswerStands
<1>. QED
  BY DEF AnswerStands, OneStartPerKey

(* Two requests of a key that were answered with a batch were answered
   with the same one, started by a request of the same body.               *)
THEOREM SameKeySameAnswer == Spec => []AnswersAgree
<1>1. AdmissionInv => AnswersAgree
  BY AnswersFollow DEF AdmissionInv, TypeOK
<1>. QED
  BY <1>1, AdmissionInvariant, PTL

(* A start that lost the race for its key always has a batch to replay.    *)
THEOREM RacesAreReplayed == Spec => []RaceFindsItsBatch
BY AdmissionInvariant, PTL DEF AdmissionInv

(* Starts do not exceed the limit between them, however they interleave.   *)
THEOREM StartsKeepTheLimit == Spec => []AdmittedWithinLimit
BY AdmissionInvariant, PTL DEF AdmissionInv

(* StartOnce counts as Admission does.                                     *)
LEMMA SameCardinality == ASSUME NEW Q PROVE S!Cardinality(Q) = Cardinality(Q)
BY DEF S!Cardinality, Cardinality

(* Every step of a start is a step of StartOnce or none.                   *)
THEOREM PromiseKept == Spec => Promise
<1>1. Init => S!Init
  BY DEF Init, S!Init
<1>2. AdmissionInv /\ [Next]_vars => [S!Next]_(S!vars)
  <2>. SUFFICES ASSUME AdmissionInv, [Next]_vars PROVE [S!Next]_(S!vars)
    OBVIOUS
  <2>. USE DEF S!vars
  <2>1. ASSUME NEW r \in Request, Look(r) PROVE [S!Next]_(S!vars)
    <3>1. CASE Holders(r) # {}
      <4>1. PICK b \in Holders(r) :
              IF BodyOf[b] = BodyOf[r] THEN Answer(r, "replayed", b) ELSE Answer(r, "conflict", r)
        BY <2>1, <3>1 DEF Look, Replay
      <4>2. outcome[r] = "none" /\ given[r] = given[r] /\ UNCHANGED rows
        BY <2>1 DEF Look, AdmissionInv, OwnBatch
      <4>3. S!Replayed(r) \/ S!Conflicts(r)
        BY <4>1, <4>2 DEF S!Replayed, S!Conflicts, S!Answer, S!Holders, Holders, Answer, rows
      <4>. QED
        BY <4>3 DEF S!Next
    <3>2. CASE Holders(r) = {}
      BY <2>1, <3>2 DEF Look, rows, answer
    <3>. QED
      BY <3>1, <3>2
  <2>2. ASSUME NEW r \in Request, Admit(r) PROVE [S!Next]_(S!vars)
    <3>1. CASE Cardinality(InFlight) >= Limit
      <4>1. S!Cardinality(S!InFlight) = Cardinality(InFlight)
        BY SameCardinality DEF S!InFlight, InFlight
      <4>2. outcome[r] = "none" /\ r \in Limited
        BY <2>2, <3>1 DEF Admit, AdmissionInv, OwnBatch
      <4>3. S!Busy(r)
        BY <2>2, <3>1, <4>1, <4>2 DEF Admit, Answer, rows, S!Busy, S!Answer
      <4>. QED
        BY <4>3 DEF S!Next
    <3>2. CASE ~ Cardinality(InFlight) >= Limit
      BY <2>2, <3>2 DEF Admit, rows, answer
    <3>. QED
      BY <3>1, <3>2
  <2>3. ASSUME NEW r \in Request, Lock(r) PROVE [S!Next]_(S!vars)
    BY <2>3 DEF Lock, Goto, rows, answer
  <2>4. ASSUME NEW r \in Request, CheckKey(r) PROVE [S!Next]_(S!vars)
    BY <2>4 DEF CheckKey, Unlock, Goto, rows, answer
  <2>5. ASSUME NEW r \in Request, Count(r) PROVE [S!Next]_(S!vars)
    <3>1. CASE (r \in Limited /\ Cardinality(InFlight) >= Limit)
      <4>1. S!Cardinality(S!InFlight) = Cardinality(InFlight)
        BY SameCardinality DEF S!InFlight, InFlight
      <4>2. outcome[r] = "none" /\ r \in Limited
        BY <2>5, <3>1 DEF Count, AdmissionInv, OwnBatch
      <4>3. S!Busy(r)
        BY <2>5, <3>1, <4>1, <4>2 DEF Count, Answer, rows, S!Busy, S!Answer
      <4>. QED
        BY <4>3 DEF S!Next
    <3>2. CASE ~ (r \in Limited /\ Cardinality(InFlight) >= Limit)
      BY <2>5, <3>2 DEF Count, rows, answer
    <3>. QED
      BY <3>1, <3>2
  <2>6. ASSUME NEW r \in Request, Insert(r) PROVE [S!Next]_(S!vars)
    <3>1. CASE Holders(r) # {}
      BY <2>6, <3>1 DEF Insert, answer
    <3>2. CASE Holders(r) = {}
      <4>1. S!Holders(r) = Holders(r) /\ S!Cardinality(S!Counted) = Cardinality(Counted)
        BY SameCardinality DEF S!Holders, Holders, S!Counted, Counted
      <4>2. /\ outcome[r] = "none" /\ status[r] = "absent"
            /\ r \in Limited => Cardinality(Counted) < Limit
        BY <2>6 DEF Insert, AdmissionInv, OwnBatch, RoomStays
      <4>3. S!Create(r)
        BY <2>6, <3>2, <4>1, <4>2 DEF Insert, answer, S!Create
      <4>. QED
        BY <4>3 DEF S!Next
    <3>. QED
      BY <3>1, <3>2
  <2>7. ASSUME NEW r \in Request, Race(r) PROVE [S!Next]_(S!vars)
    <3>1. CASE Holders(r) # {}
      <4>1. PICK b \in Holders(r) :
              IF BodyOf[b] = BodyOf[r] THEN Answer(r, "replayed", b) ELSE Answer(r, "conflict", r)
        BY <2>7, <3>1 DEF Race, Replay
      <4>2. outcome[r] = "none" /\ given[r] = given[r] /\ UNCHANGED rows
        BY <2>7 DEF Race, AdmissionInv, OwnBatch
      <4>3. S!Replayed(r) \/ S!Conflicts(r)
        BY <4>1, <4>2 DEF S!Replayed, S!Conflicts, S!Answer, S!Holders, Holders, Answer, rows
      <4>. QED
        BY <4>3 DEF S!Next
    <3>2. CASE Holders(r) = {}
      BY <2>7, <3>2 DEF Race, AdmissionInv, RaceLost
    <3>. QED
      BY <3>1, <3>2
  <2>8. ASSUME NEW r \in Request, Dispatch(r) PROVE [S!Next]_(S!vars)
    <3>1. S!Created(r)
      BY <2>8 DEF Dispatch, Answer, Goto, S!Created, S!Answer, AdmissionInv, OwnBatch
    <3>. QED
      BY <3>1 DEF S!Next
  <2>9. ASSUME NEW r \in Request, DispatchFails(r) PROVE [S!Next]_(S!vars)
    BY <2>9 DEF DispatchFails, Goto, answer
  <2>10. ASSUME NEW r \in Request, FailBatch(r) PROVE [S!Next]_(S!vars)
    <3>1. CASE status[r] = "running"
      <4>1. S!Close(r)
        BY <2>10, <3>1 DEF FailBatch, Goto, answer, S!Close
      <4>. QED
        BY <4>1 DEF S!Next
    <3>2. CASE status[r] # "running"
      <4>1. status[r] = "closed"
        BY <2>10, <3>2 DEF FailBatch, AdmissionInv, OwnBatch, TypeOK
      <4>. QED
        BY <2>10, <4>1 DEF FailBatch, Goto, answer, AdmissionInv, TypeOK
    <3>. QED
      BY <3>1, <3>2
  <2>11. ASSUME NEW r \in Request, InsertErrs(r) PROVE [S!Next]_(S!vars)
    <3>1. CASE Holders(r) # {}
      BY <2>11, <3>1 DEF InsertErrs, answer
    <3>2. CASE Holders(r) = {}
      <4>1. S!Holders(r) = Holders(r) /\ S!Cardinality(S!Counted) = Cardinality(Counted)
        BY SameCardinality DEF S!Holders, Holders, S!Counted, Counted
      <4>2. /\ outcome[r] = "none" /\ status[r] = "absent"
            /\ r \in Limited => Cardinality(Counted) < Limit
        BY <2>11 DEF InsertErrs, AdmissionInv, OwnBatch, RoomStays
      <4>3. S!Create(r)
        BY <2>11, <3>2, <4>1, <4>2 DEF InsertErrs, answer, S!Create
      <4>. QED
        BY <4>3 DEF S!Next
    <3>. QED
      BY <3>1, <3>2
  <2>12. ASSUME NEW r \in Request, Fail(r) PROVE [S!Next]_(S!vars)
    <3>1. S!Errs(r)
      BY <2>12 DEF Fail, Unlock, Answer, Goto, rows, answer, S!Errs, S!Answer, AdmissionInv, OwnBatch
    <3>. QED
      BY <3>1 DEF S!Next
  <2>13. ASSUME NEW r \in Request, Close(r) PROVE [S!Next]_(S!vars)
    <3>1. S!Close(r)
      BY <2>13 DEF Close, answer, S!Close
    <3>. QED
      BY <3>1 DEF S!Next
  <2>14. ASSUME NEW r \in Request, Reopen(r) PROVE [S!Next]_(S!vars)
    <3>1. S!Reopen(r)
      BY <2>14 DEF Reopen, answer, S!Reopen, AdmissionInv, OwnBatch
    <3>. QED
      BY <3>1 DEF S!Next
  <2>15. CASE UNCHANGED vars
    BY <2>15 DEF vars, rows, answer
  <2>. QED
    BY <2>1, <2>2, <2>3, <2>4, <2>5, <2>6, <2>7, <2>8, <2>9, <2>10, <2>11, <2>12, <2>13, <2>14, <2>15 DEF Next, Handle
<1>. QED
  BY <1>1, <1>2, AdmissionInvariant, PTL DEF Spec, Promise, S!Spec

---------------------------------------------------------------------------
(* What the promise is worth: the properties follow from it alone.         *)

AnswerTypes ==
  /\ status \in [Request -> {"absent", "running", "closed"}]
  /\ outcome \in [Request -> {"none", "created", "replayed", "conflict", "busy", "error"}]
  /\ given \in [Request -> Request]

PromiseInv == AnswerTypes /\ OneStartPerKey /\ AnswerStands /\ AdmittedWithinLimit

(* Whatever keeps the promise starts a batch once per key, gives the same
   answer to the same request and keeps the limit, however many steps it
   takes to.                                                               *)
THEOREM PromiseSuffices == Promise => [](OneStartPerKey /\ AnswersAgree /\ AdmittedWithinLimit)
<1>1. S!Init => PromiseInv
  <2>. SUFFICES ASSUME S!Init PROVE PromiseInv
    OBVIOUS
  <2>1. Counted = {}
    BY AdmissionAssumption DEF S!Init, Counted
  <2>2. Cardinality(Counted) = 0
    BY <2>1, FS_EmptySet
  <2>. QED
    BY <2>2, AdmissionAssumption
    DEF S!Init, PromiseInv, AnswerTypes, OneStartPerKey, AnswerStands, AdmittedWithinLimit
<1>2. PromiseInv /\ [S!Next]_(S!vars) => PromiseInv'
  <2>. SUFFICES ASSUME PromiseInv, [S!Next]_(S!vars) PROVE PromiseInv'
    OBVIOUS
  <2>. USE DEF PromiseInv, AnswerTypes, OneStartPerKey, AnswerStands
  <2>1. ASSUME NEW r \in Request, S!Create(r) PROVE PromiseInv'
    <3>1. (AnswerTypes /\ OneStartPerKey /\ AnswerStands)'
      BY <2>1 DEF S!Create, S!Holders
    <3>2. AdmittedWithinLimit'
      <4>1. CASE r \in Limited
        <5>1. Counted' \subseteq Counted \cup {r}
          BY <2>1 DEF S!Create, Counted
        <5>2. Cardinality(Counted) < Limit
          BY <2>1, <4>1, SameCardinality DEF S!Create, S!Counted, Counted
        <5>. QED
          BY <5>1, <5>2, CountedGrows, CountsAreNumbers, AdmissionAssumption DEF AdmittedWithinLimit
      <4>2. CASE r \notin Limited
        <5>1. Counted' \subseteq Counted
          BY <2>1, <4>2 DEF S!Create, Counted
        <5>. QED
          BY <5>1, CountedShrinks, CountsAreNumbers, AdmissionAssumption DEF AdmittedWithinLimit
      <4>. QED
        BY <4>1, <4>2
    <3>. QED
      BY <3>1, <3>2
  <2>2. ASSUME NEW r \in Request, S!Created(r) PROVE PromiseInv'
    <3>1. (AnswerTypes /\ OneStartPerKey /\ AnswerStands)'
      BY <2>2 DEF S!Created, S!Answer
    <3>2. AdmittedWithinLimit'
      <4>1. Counted' \subseteq Counted
        BY <2>2 DEF S!Created, S!Answer, Counted
      <4>. QED
        BY <4>1, CountedShrinks, CountsAreNumbers, AdmissionAssumption DEF AdmittedWithinLimit
    <3>. QED
      BY <3>1, <3>2
  <2>3. ASSUME NEW r \in Request, S!Replayed(r) PROVE PromiseInv'
    <3>1. (AnswerTypes /\ OneStartPerKey /\ AnswerStands)'
      BY <2>3 DEF S!Replayed, S!Answer, S!Holders
    <3>2. AdmittedWithinLimit'
      <4>1. Counted' \subseteq Counted
        BY <2>3 DEF S!Replayed, S!Answer, S!Holders, Counted
      <4>. QED
        BY <4>1, CountedShrinks, CountsAreNumbers, AdmissionAssumption DEF AdmittedWithinLimit
    <3>. QED
      BY <3>1, <3>2
  <2>4. ASSUME NEW r \in Request, S!Conflicts(r) PROVE PromiseInv'
    <3>1. (AnswerTypes /\ OneStartPerKey /\ AnswerStands)'
      BY <2>4 DEF S!Conflicts, S!Answer, S!Holders
    <3>2. AdmittedWithinLimit'
      <4>1. Counted' \subseteq Counted
        BY <2>4 DEF S!Conflicts, S!Answer, S!Holders, Counted
      <4>. QED
        BY <4>1, CountedShrinks, CountsAreNumbers, AdmissionAssumption DEF AdmittedWithinLimit
    <3>. QED
      BY <3>1, <3>2
  <2>5. ASSUME NEW r \in Request, S!Busy(r) PROVE PromiseInv'
    <3>1. (AnswerTypes /\ OneStartPerKey /\ AnswerStands)'
      BY <2>5 DEF S!Busy, S!Answer
    <3>2. AdmittedWithinLimit'
      <4>1. Counted' \subseteq Counted
        BY <2>5 DEF S!Busy, S!Answer, Counted
      <4>. QED
        BY <4>1, CountedShrinks, CountsAreNumbers, AdmissionAssumption DEF AdmittedWithinLimit
    <3>. QED
      BY <3>1, <3>2
  <2>6. ASSUME NEW r \in Request, S!Errs(r) PROVE PromiseInv'
    <3>1. (AnswerTypes /\ OneStartPerKey /\ AnswerStands)'
      BY <2>6 DEF S!Errs, S!Answer
    <3>2. AdmittedWithinLimit'
      <4>1. Counted' \subseteq Counted
        BY <2>6 DEF S!Errs, S!Answer, Counted
      <4>. QED
        BY <4>1, CountedShrinks, CountsAreNumbers, AdmissionAssumption DEF AdmittedWithinLimit
    <3>. QED
      BY <3>1, <3>2
  <2>7. ASSUME NEW r \in Request, S!Close(r) PROVE PromiseInv'
    <3>1. (AnswerTypes /\ OneStartPerKey /\ AnswerStands)'
      BY <2>7 DEF S!Close
    <3>2. AdmittedWithinLimit'
      <4>1. Counted' \subseteq Counted
        BY <2>7 DEF S!Close, Counted
      <4>. QED
        BY <4>1, CountedShrinks, CountsAreNumbers, AdmissionAssumption DEF AdmittedWithinLimit
    <3>. QED
      BY <3>1, <3>2
  <2>8. ASSUME NEW r \in Request, S!Reopen(r) PROVE PromiseInv'
    <3>1. (AnswerTypes /\ OneStartPerKey /\ AnswerStands)'
      BY <2>8 DEF S!Reopen
    <3>2. AdmittedWithinLimit'
      <4>1. Counted' \subseteq Counted
        BY <2>8 DEF S!Reopen, Counted
      <4>. QED
        BY <4>1, CountedShrinks, CountsAreNumbers, AdmissionAssumption DEF AdmittedWithinLimit
    <3>. QED
      BY <3>1, <3>2
  <2>9. CASE UNCHANGED S!vars
    BY <2>9 DEF S!vars, AdmittedWithinLimit, Counted
  <2>. QED
    BY <2>1, <2>2, <2>3, <2>4, <2>5, <2>6, <2>7, <2>8, <2>9 DEF S!Next
<1>3. PromiseInv => OneStartPerKey /\ AnswersAgree /\ AdmittedWithinLimit
  BY AnswersFollow DEF PromiseInv, AnswerTypes
<1>. QED
  BY <1>1, <1>2, <1>3, PTL DEF Promise, S!Spec
===========================================================================
