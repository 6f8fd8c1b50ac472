--------------------------- MODULE PromptsProofs ---------------------------
(***************************************************************************)
(* Proofs about Prompts, for any writers, clients, keys, versions and      *)
(* faults.                                                                 *)
(***************************************************************************)
EXTENDS Prompts, TLAPS

(* What Postgres answers is a version that has been written, or nothing.   *)
LEMMA CurrentIsAnAnswer ==
  ASSUME TypeOK, NEW k \in Key PROVE Current(k) \in Answer
<1>1. \A n \in 0..MaxVersions : Saying(n) \in Answer
  BY PromptsAssumption DEF TypeOK, Saying, Answer, NoAnswer, Number
<1>2. placed \in 0..MaxVersions /\ written \in 0..MaxVersions /\ 1 \in 0..MaxVersions
  BY PromptsAssumption DEF TypeOK, Number
<1>. QED
  BY <1>1, <1>2 DEF Current

(* A fetch that goes on stays a fetch.                                     *)
LEMMA FetchGoesOn ==
  ASSUME TypeOK, NEW c \in Client, NEW k \in Key,
         NEW step \in {"idle", "asked", "missed", "read", "answering"},
         NEW answer \in Answer, To(c, k, step, answer)
  PROVE  fetch' \in [Client -> [Key -> [step : {"idle", "asked", "missed", "read", "answering"},
                                        answer : Answer]]]
  BY DEF TypeOK, To

(* Rows, caches and where each request is keep their types; no channel     *)
(* leads to a version that was not saved, and no request is about to make  *)
(* it.                                                                     *)
THEOREM TypeCorrect == Spec => []TypeOK
<1>1. Init => TypeOK
  <2>. SUFFICES ASSUME Init PROVE TypeOK
    OBVIOUS
  <2>1. /\ written \in Number /\ text \in [Number -> Nat] /\ placed \in 0..written
    BY PromptsAssumption DEF Init, Number
  <2>2. events \in SUBSET Event
    BY PromptsAssumption DEF Init, Event, Number
  <2>3. /\ pc \in [Writer -> {"idle", "saving", "reading", "moving", "announcing", "telling", "done"}]
        /\ saves \in [Writer -> BOOLEAN]
        /\ \A w \in Writer : pc[w] \in {"reading", "moving"} => number[w] \in 1..written
    BY DEF Init
  <2>4. /\ seen \in [Writer -> 0..MaxVersions] /\ number \in [Writer -> 0..MaxVersions]
        /\ left \in [Writer -> SUBSET Key]
    BY PromptsAssumption DEF Init
  <2>5. NoAnswer \in Answer
    BY PromptsAssumption DEF NoAnswer, Answer
  <2>6. /\ redis \in [Key -> Answer] /\ excused \in SUBSET Key
        /\ memory \in [Client -> [Key -> Answer]]
        /\ age \in [Client -> [Key -> {"fresh", "old", "ancient"}]]
    BY <2>5 DEF Init
  <2>7. fetch \in [Client -> [Key -> [step : {"idle", "asked", "missed", "read", "answering"},
                                     answer : Answer]]]
    BY <2>5 DEF Init, Idle
  <2>8. faults \in 0..MaxFaults
    BY PromptsAssumption DEF Init
  <2>. QED
    BY <2>1, <2>2, <2>3, <2>4, <2>6, <2>7, <2>8 DEF TypeOK
<1>2. TypeOK /\ [Next]_vars => TypeOK'
  <2>. SUFFICES ASSUME TypeOK, [Next]_vars PROVE TypeOK'
    OBVIOUS
  <2>0. NoAnswer \in Answer /\ \A k \in Key : Current(k) \in Answer
    BY PromptsAssumption, CurrentIsAnAnswer DEF NoAnswer, Answer
  <2>. USE PromptsAssumption, <2>0
       DEF TypeOK, Number, store, writer, kept, client
  <2>1. ASSUME NEW w \in Writer, Save(w) PROVE TypeOK'
    <3>1. seen' \in [Writer -> 0..MaxVersions]
      BY <2>1 DEF Save
    <3>2. /\ pc' \in [Writer -> {"idle", "saving", "reading", "moving", "announcing", "telling", "done"}]
          /\ saves' \in [Writer -> BOOLEAN]
      BY <2>1 DEF Save
    <3>3. \A v \in Writer : pc'[v] = pc[v] \/ pc'[v] \notin {"reading", "moving"}
      BY <2>1 DEF Save
    <3>. QED
      BY <2>1, <3>1, <3>2, <3>3 DEF Save
  <2>2. ASSUME NEW w \in Writer, SaveInserts(w) PROVE TypeOK'
    BY <2>2 DEF SaveInserts
  <2>3. ASSUME NEW w \in Writer, SaveConflicts(w) PROVE TypeOK'
    <3>1. seen' \in [Writer -> 0..MaxVersions]
      <4>1. CASE seen' = [seen EXCEPT ![w] = written]
        BY <4>1
      <4>2. CASE UNCHANGED seen
        BY <4>2
      <4>. QED
        BY <2>3, <4>1, <4>2 DEF SaveConflicts
    <3>2. /\ pc' \in [Writer -> {"idle", "saving", "reading", "moving", "announcing", "telling", "done"}]
          /\ saves' \in [Writer -> BOOLEAN]
      BY <2>3 DEF SaveConflicts
    <3>3. \A v \in Writer : pc'[v] = pc[v] \/ pc'[v] \notin {"reading", "moving"}
      BY <2>3 DEF SaveConflicts
    <3>. QED
      BY <2>3, <3>1, <3>2, <3>3 DEF SaveConflicts
  <2>4. ASSUME NEW w \in Writer, NEW n \in Number, Overwrite(w, n) PROVE TypeOK'
    BY <2>4 DEF Overwrite
  <2>5. ASSUME NEW w \in Writer, NEW n \in Number, Promote(w, n) PROVE TypeOK'
    BY <2>5 DEF Promote
  <2>6. ASSUME NEW w \in Writer, MoveReads(w) PROVE TypeOK'
    BY <2>6 DEF MoveReads
  <2>7. ASSUME NEW w \in Writer, MoveWrites(w) PROVE TypeOK'
    <3>1. [by |-> w, from |-> seen[w], to |-> number[w]] \in Event
      BY <2>7 DEF MoveWrites, Event
    <3>2. events' \in SUBSET Event
      BY <2>7, <3>1 DEF MoveWrites
    <3>. QED
      BY <2>7, <3>2 DEF MoveWrites
  <2>8. ASSUME NEW w \in Writer, MoveCollides(w) PROVE TypeOK'
    BY <2>8 DEF MoveCollides, Leaves
  <2>9. ASSUME NEW w \in Writer, NEW k \in Key, Tell(w, k) PROVE TypeOK'
    BY <2>9 DEF Tell
  <2>10. ASSUME NEW w \in Writer, ToldAll(w) PROVE TypeOK'
    <3>1. left' \in [Writer -> SUBSET Key]
      <4>1. left' = [left EXCEPT ![w] = Key] \/ left' = left
        BY <2>10 DEF ToldAll
      <4>2. left \in [Writer -> SUBSET Key]
        OBVIOUS
      <4>. HIDE DEF TypeOK
      <4>. QED
        BY <4>1, <4>2
    <3>2. /\ pc' \in [Writer -> {"idle", "saving", "reading", "moving", "announcing", "telling", "done"}]
          /\ \A v \in Writer : pc'[v] = pc[v] \/ pc'[v] \notin {"reading", "moving"}
      <4>1. pc' = [pc EXCEPT ![w] = "telling"] \/ pc' = [pc EXCEPT ![w] = "done"]
        BY <2>10 DEF ToldAll
      <4>2. pc \in [Writer -> {"idle", "saving", "reading", "moving", "announcing", "telling", "done"}]
        OBVIOUS
      <4>. HIDE DEF TypeOK
      <4>. QED
        BY <4>1, <4>2
    <3>. QED
      BY <2>10, <3>1, <3>2 DEF ToldAll
  <2>11. ASSUME NEW w \in Writer, WriterBreaks(w) PROVE TypeOK'
    <3>1. faults' \in 0..MaxFaults
      BY <2>11 DEF WriterBreaks, Breaks
    <3>. QED
      BY <2>11, <3>1 DEF WriterBreaks, Leaves
  <2>12. ASSUME NEW c \in Client, NEW k \in Key, Ask(c, k) PROVE TypeOK'
    BY <2>12 DEF Ask, To
  <2>13. ASSUME NEW c \in Client, NEW k \in Key, Refresh(c, k) PROVE TypeOK'
    BY <2>13 DEF Refresh, To
  <2>14. ASSUME NEW c \in Client, NEW k \in Key, LookUp(c, k) PROVE TypeOK'
    <3>1. redis[k] \in Answer
      OBVIOUS
    <3>2. fetch' \in [Client -> [Key -> [step : {"idle", "asked", "missed", "read", "answering"},
                                        answer : Answer]]]
      BY <2>14, <3>1, FetchGoesOn DEF LookUp
    <3>. QED
      BY <2>14, <3>2 DEF LookUp
  <2>15. ASSUME NEW c \in Client, NEW k \in Key, Read(c, k) PROVE TypeOK'
    <3>1. redis[k] \in Answer
      OBVIOUS
    <3>2. fetch' \in [Client -> [Key -> [step : {"idle", "asked", "missed", "read", "answering"},
                                        answer : Answer]]]
      BY <2>15, <3>1, FetchGoesOn DEF Read
    <3>. QED
      BY <2>15, <3>2 DEF Read
  <2>16. ASSUME NEW c \in Client, NEW k \in Key, Fill(c, k) PROVE TypeOK'
    BY <2>16 DEF Fill, To
  <2>17. ASSUME NEW c \in Client, NEW k \in Key, Arrive(c, k) PROVE TypeOK'
    BY <2>17 DEF Arrive, To
  <2>18. ASSUME NEW c \in Client, NEW k \in Key, FillFails(c, k) PROVE TypeOK'
    <3>1. faults' \in 0..MaxFaults
      BY <2>18 DEF FillFails, Breaks
    <3>. QED
      BY <2>18, <3>1 DEF FillFails, To
  <2>19. ASSUME NEW c \in Client, NEW k \in Key, AskFails(c, k) PROVE TypeOK'
    <3>1. faults' \in 0..MaxFaults
      BY <2>19 DEF AskFails, Breaks
    <3>2. fetch' \in [Client -> [Key -> [step : {"idle", "asked", "missed", "read", "answering"},
                                        answer : Answer]]]
      BY <2>19, FetchGoesOn DEF AskFails
    <3>3. CASE UNCHANGED <<memory, age>>
      BY <2>19, <3>1, <3>2, <3>3 DEF AskFails
    <3>4. CASE /\ memory' = [memory EXCEPT ![c][k] = NoAnswer]
               /\ age' = [age EXCEPT ![c][k] = "fresh"]
      <4>1. memory' \in [Client -> [Key -> Answer]]
        BY <3>4
      <4>2. age' \in [Client -> [Key -> {"fresh", "old", "ancient"}]]
        BY <3>4
      <4>. QED
        BY <2>19, <3>1, <3>2, <4>1, <4>2 DEF AskFails
    <3>. QED
      BY <2>19, <3>3, <3>4 DEF AskFails
  <2>20. ASSUME NEW c \in Client, NEW k \in Key, GrowOld(c, k) PROVE TypeOK'
    BY <2>20 DEF GrowOld
  <2>21. ASSUME NEW c \in Client, NEW k \in Key, Age(c, k) PROVE TypeOK'
    BY <2>21 DEF Age
  <2>22. ASSUME NEW c \in Client, Forget(c) PROVE TypeOK'
    BY <2>22 DEF Forget
  <2>23. ASSUME NEW k \in Key, Expire(k) PROVE TypeOK'
    BY <2>23 DEF Expire
  <2>24. CASE UNCHANGED vars
    BY <2>24 DEF vars
  <2>. QED
    BY <2>1, <2>2, <2>3, <2>4, <2>5, <2>6, <2>7, <2>8, <2>9, <2>10, <2>11,
       <2>12, <2>13, <2>14, <2>15, <2>16, <2>17, <2>18, <2>19, <2>20, <2>21,
       <2>22, <2>23, <2>24
       DEF Next, Writing, Asking
<1>. QED
  BY <1>1, <1>2, PTL DEF Spec

---------------------------------------------------------------------------
(* The moves that have happened, and that are about to: there is an event  *)
(* when the default channel leads anywhere, one of them leads to where it  *)
(* does, and who is about to move it read a version it led to, or none.    *)
MovesInv ==
  /\ placed = 0 => events = {}
  /\ placed # 0 => \E e \in events : e.to = placed
  /\ \A w \in Writer :
       pc[w] = "moving" /\ seen[w] # 0 => \E e \in events : e.to = seen[w]
  /\ MovesStartOnce

(* However moves interleave, one is the first and no other starts from a   *)
(* version that was never on the channel.                                  *)
THEOREM ChannelsMoveFromSomewhere == Spec => []MovesStartOnce
<1>1. Init => MovesInv
  <2>. SUFFICES ASSUME Init PROVE MovesInv
    OBVIOUS
  <2>0. \A w \in Writer : pc[w] # "moving"
    BY DEF Init
  <2>1. CASE placed = 0 /\ events = {}
    BY <2>0, <2>1 DEF MovesInv, MovesStartOnce
  <2>2. CASE placed = 1 /\ events = {[by |-> "creation", from |-> 0, to |-> 1]}
    BY <2>0, <2>2 DEF MovesInv, MovesStartOnce
  <2>. QED
    BY <2>1, <2>2 DEF Init
<1>2. TypeOK /\ MovesInv /\ [Next]_vars => MovesInv'
  <2>. SUFFICES ASSUME TypeOK, MovesInv, [Next]_vars
                PROVE  MovesInv'
    OBVIOUS
  <2>. USE DEF TypeOK, MovesInv, MovesStartOnce, store, writer, kept, client
  <2>1. ASSUME NEW w \in Writer, Save(w) PROVE MovesInv'
    BY <2>1 DEF Save
  <2>2. ASSUME NEW w \in Writer, SaveInserts(w) PROVE MovesInv'
    BY <2>2 DEF SaveInserts
  <2>3. ASSUME NEW w \in Writer, SaveConflicts(w) PROVE MovesInv'
    BY <2>3 DEF SaveConflicts
  <2>4. ASSUME NEW w \in Writer, NEW n \in Number, Overwrite(w, n) PROVE MovesInv'
    BY <2>4 DEF Overwrite
  <2>5. ASSUME NEW w \in Writer, NEW n \in Number, Promote(w, n) PROVE MovesInv'
    BY <2>5 DEF Promote
  <2>6. ASSUME NEW w \in Writer, MoveReads(w) PROVE MovesInv'
    BY <2>6 DEF MoveReads
  <2>7. ASSUME NEW w \in Writer, MoveWrites(w) PROVE MovesInv'
    <3>. DEFINE moved == [by |-> w, from |-> seen[w], to |-> number[w]]
    <3>1. /\ events' = events \cup {moved} /\ moved.from = seen[w] /\ moved.to = number[w]
          /\ placed' = moved.to /\ placed' # 0
      BY <2>7 DEF MoveWrites, Number
    <3>. HIDE DEF moved
    <3>2. \A v \in Writer : pc'[v] = "moving" => pc[v] = "moving" /\ seen'[v] = seen[v]
      BY <2>7 DEF MoveWrites
    <3>3. MovesStartOnce'
      <4>1. CASE seen[w] = 0
        <5>1. events = {}
          BY <2>7, <4>1 DEF MoveWrites
        <5>. QED
          BY <3>1, <4>1, <5>1
      <4>2. CASE seen[w] # 0
        <5>1. \E e \in events : e.to = moved.from
          BY <2>7, <3>1, <4>2 DEF MoveWrites
        <5>. QED
          BY <3>1, <4>2, <5>1
      <4>. QED
        BY <4>1, <4>2
    <3>. QED
      BY <3>1, <3>2, <3>3
  <2>8. ASSUME NEW w \in Writer, MoveCollides(w) PROVE MovesInv'
    BY <2>8 DEF MoveCollides, Leaves
  <2>9. ASSUME NEW w \in Writer, NEW k \in Key, Tell(w, k) PROVE MovesInv'
    BY <2>9 DEF Tell
  <2>10. ASSUME NEW w \in Writer, ToldAll(w) PROVE MovesInv'
    BY <2>10 DEF ToldAll
  <2>11. ASSUME NEW w \in Writer, WriterBreaks(w) PROVE MovesInv'
    BY <2>11 DEF WriterBreaks, Breaks, Leaves
  <2>12. ASSUME NEW c \in Client, NEW k \in Key, Ask(c, k) PROVE MovesInv'
    BY <2>12 DEF Ask, To
  <2>13. ASSUME NEW c \in Client, NEW k \in Key, Refresh(c, k) PROVE MovesInv'
    BY <2>13 DEF Refresh, To
  <2>14. ASSUME NEW c \in Client, NEW k \in Key, LookUp(c, k) PROVE MovesInv'
    BY <2>14 DEF LookUp, To
  <2>15. ASSUME NEW c \in Client, NEW k \in Key, Read(c, k) PROVE MovesInv'
    BY <2>15 DEF Read, To
  <2>16. ASSUME NEW c \in Client, NEW k \in Key, Fill(c, k) PROVE MovesInv'
    BY <2>16 DEF Fill, To
  <2>17. ASSUME NEW c \in Client, NEW k \in Key, Arrive(c, k) PROVE MovesInv'
    BY <2>17 DEF Arrive, To
  <2>18. ASSUME NEW c \in Client, NEW k \in Key, FillFails(c, k) PROVE MovesInv'
    BY <2>18 DEF FillFails, Breaks, To
  <2>19. ASSUME NEW c \in Client, NEW k \in Key, AskFails(c, k) PROVE MovesInv'
    BY <2>19 DEF AskFails, Breaks, To
  <2>20. ASSUME NEW c \in Client, NEW k \in Key, GrowOld(c, k) PROVE MovesInv'
    BY <2>20 DEF GrowOld
  <2>21. ASSUME NEW c \in Client, NEW k \in Key, Age(c, k) PROVE MovesInv'
    BY <2>21 DEF Age
  <2>22. ASSUME NEW c \in Client, Forget(c) PROVE MovesInv'
    BY <2>22 DEF Forget
  <2>23. ASSUME NEW k \in Key, Expire(k) PROVE MovesInv'
    BY <2>23 DEF Expire
  <2>24. CASE UNCHANGED vars
    BY <2>24 DEF vars
  <2>. QED
    BY <2>1, <2>2, <2>3, <2>4, <2>5, <2>6, <2>7, <2>8, <2>9, <2>10, <2>11,
       <2>12, <2>13, <2>14, <2>15, <2>16, <2>17, <2>18, <2>19, <2>20, <2>21,
       <2>22, <2>23, <2>24
       DEF Next, Writing, Asking
<1>3. MovesInv => MovesStartOnce
  BY DEF MovesInv
<1>. QED
  BY <1>1, <1>2, <1>3, TypeCorrect, PTL DEF Spec

---------------------------------------------------------------------------
(* A request saves once, and what it saved is not above the newest.        *)
SavesInv ==
  /\ \A w \in Writer : pc[w] = "idle" => ~saves[w] /\ number[w] = 0
  /\ \A w \in Writer : saves[w] => number[w] <= written
  /\ SavesGetTheirOwnNumber

(* It does, at every step.                                                 *)
LEMMA SavesInvariant == Spec => []SavesInv
<1>1. Init => SavesInv
  BY DEF Init, SavesInv, SavesGetTheirOwnNumber
<1>2. TypeOK /\ SavesInv /\ [Next]_vars => SavesInv'
  <2>. SUFFICES ASSUME TypeOK, SavesInv, [Next]_vars PROVE SavesInv'
    OBVIOUS
  <2>. USE PromptsAssumption
       DEF TypeOK, Number, SavesInv, SavesGetTheirOwnNumber, store, writer, kept, client
  <2>1. ASSUME NEW w \in Writer, Save(w) PROVE SavesInv'
    <3>1. \A v \in Writer : v # w => saves'[v] = saves[v] /\ pc'[v] = pc[v]
      BY <2>1 DEF Save
    <3>. QED
      BY <2>1, <3>1 DEF Save
  <2>2. ASSUME NEW w \in Writer, SaveInserts(w) PROVE SavesInv'
    BY <2>2 DEF SaveInserts
  <2>3. ASSUME NEW w \in Writer, SaveConflicts(w) PROVE SavesInv'
    BY <2>3 DEF SaveConflicts
  <2>4. ASSUME NEW w \in Writer, NEW n \in Number, Overwrite(w, n) PROVE SavesInv'
    BY <2>4 DEF Overwrite
  <2>5. ASSUME NEW w \in Writer, NEW n \in Number, Promote(w, n) PROVE SavesInv'
    BY <2>5 DEF Promote
  <2>6. ASSUME NEW w \in Writer, MoveReads(w) PROVE SavesInv'
    BY <2>6 DEF MoveReads
  <2>7. ASSUME NEW w \in Writer, MoveWrites(w) PROVE SavesInv'
    BY <2>7 DEF MoveWrites
  <2>8. ASSUME NEW w \in Writer, MoveCollides(w) PROVE SavesInv'
    BY <2>8 DEF MoveCollides, Leaves
  <2>9. ASSUME NEW w \in Writer, NEW k \in Key, Tell(w, k) PROVE SavesInv'
    BY <2>9 DEF Tell
  <2>10. ASSUME NEW w \in Writer, ToldAll(w) PROVE SavesInv'
    BY <2>10 DEF ToldAll
  <2>11. ASSUME NEW w \in Writer, WriterBreaks(w) PROVE SavesInv'
    BY <2>11 DEF WriterBreaks, Breaks, Leaves
  <2>12. ASSUME NEW c \in Client, NEW k \in Key, Ask(c, k) PROVE SavesInv'
    BY <2>12 DEF Ask, To
  <2>13. ASSUME NEW c \in Client, NEW k \in Key, Refresh(c, k) PROVE SavesInv'
    BY <2>13 DEF Refresh, To
  <2>14. ASSUME NEW c \in Client, NEW k \in Key, LookUp(c, k) PROVE SavesInv'
    BY <2>14 DEF LookUp, To
  <2>15. ASSUME NEW c \in Client, NEW k \in Key, Read(c, k) PROVE SavesInv'
    BY <2>15 DEF Read, To
  <2>16. ASSUME NEW c \in Client, NEW k \in Key, Fill(c, k) PROVE SavesInv'
    BY <2>16 DEF Fill, To
  <2>17. ASSUME NEW c \in Client, NEW k \in Key, Arrive(c, k) PROVE SavesInv'
    BY <2>17 DEF Arrive, To
  <2>18. ASSUME NEW c \in Client, NEW k \in Key, FillFails(c, k) PROVE SavesInv'
    BY <2>18 DEF FillFails, Breaks, To
  <2>19. ASSUME NEW c \in Client, NEW k \in Key, AskFails(c, k) PROVE SavesInv'
    BY <2>19 DEF AskFails, Breaks, To
  <2>20. ASSUME NEW c \in Client, NEW k \in Key, GrowOld(c, k) PROVE SavesInv'
    BY <2>20 DEF GrowOld
  <2>21. ASSUME NEW c \in Client, NEW k \in Key, Age(c, k) PROVE SavesInv'
    BY <2>21 DEF Age
  <2>22. ASSUME NEW c \in Client, Forget(c) PROVE SavesInv'
    BY <2>22 DEF Forget
  <2>23. ASSUME NEW k \in Key, Expire(k) PROVE SavesInv'
    BY <2>23 DEF Expire
  <2>24. CASE UNCHANGED vars
    BY <2>24 DEF vars
  <2>. QED
    BY <2>1, <2>2, <2>3, <2>4, <2>5, <2>6, <2>7, <2>8, <2>9, <2>10, <2>11,
       <2>12, <2>13, <2>14, <2>15, <2>16, <2>17, <2>18, <2>19, <2>20, <2>21,
       <2>22, <2>23, <2>24
       DEF Next, Writing, Asking
<1>. QED
  BY <1>1, <1>2, TypeCorrect, PTL DEF Spec

(* Two requests that save never get the same version, however their reads  *)
(* of the newest number interleave.                                        *)
THEOREM SavesAreNumberedApart == Spec => []SavesGetTheirOwnNumber
<1>1. SavesInv => SavesGetTheirOwnNumber
  BY DEF SavesInv
<1>. QED
  BY <1>1, SavesInvariant, PTL

---------------------------------------------------------------------------
(* Redis keeps nothing stale, but for a deletion still owed, one that did  *)
(* not happen, or an answer kept after the deletion that should have       *)
(* covered it.                                                             *)
THEOREM StaleAnswersAreExcused == Spec => []StaleIsExcused
<1>1. Init => StaleIsExcused
  BY DEF Init, StaleIsExcused
<1>2. TypeOK /\ StaleIsExcused /\ [Next]_vars => StaleIsExcused'
  <2>. SUFFICES ASSUME TypeOK, StaleIsExcused, [Next]_vars PROVE StaleIsExcused'
    OBVIOUS
  <2>0. UNCHANGED store => \A k \in Key : Current(k)' = Current(k)
    BY DEF store, Current, Saying
  <2>. USE <2>0 DEF TypeOK, StaleIsExcused, writer, kept, client
  <2>1. ASSUME NEW w \in Writer, Save(w) PROVE StaleIsExcused'
    BY <2>1 DEF Save
  <2>2. ASSUME NEW w \in Writer, SaveInserts(w) PROVE StaleIsExcused'
    <3>1. left'[w] = Key
      BY <2>2 DEF SaveInserts
    <3>. QED
      BY <3>1
  <2>3. ASSUME NEW w \in Writer, SaveConflicts(w) PROVE StaleIsExcused'
    BY <2>3 DEF SaveConflicts
  <2>4. ASSUME NEW w \in Writer, NEW n \in Number, Overwrite(w, n) PROVE StaleIsExcused'
    <3>1. left'[w] = Key
      BY <2>4 DEF Overwrite
    <3>. QED
      BY <3>1
  <2>5. ASSUME NEW w \in Writer, NEW n \in Number, Promote(w, n) PROVE StaleIsExcused'
    BY <2>5 DEF Promote
  <2>6. ASSUME NEW w \in Writer, MoveReads(w) PROVE StaleIsExcused'
    BY <2>6 DEF MoveReads
  <2>7. ASSUME NEW w \in Writer, MoveWrites(w) PROVE StaleIsExcused'
    <3>1. left'[w] = Key
      BY <2>7 DEF MoveWrites
    <3>. QED
      BY <3>1
  <2>8. ASSUME NEW w \in Writer, MoveCollides(w) PROVE StaleIsExcused'
    BY <2>8 DEF MoveCollides, Leaves
  <2>9. ASSUME NEW w \in Writer, NEW k \in Key, Tell(w, k) PROVE StaleIsExcused'
    BY <2>9 DEF Tell
  <2>10. ASSUME NEW w \in Writer, ToldAll(w) PROVE StaleIsExcused'
    BY <2>10 DEF ToldAll
  <2>11. ASSUME NEW w \in Writer, WriterBreaks(w) PROVE StaleIsExcused'
    BY <2>11 DEF WriterBreaks, Breaks, Leaves
  <2>12. ASSUME NEW c \in Client, NEW k \in Key, Ask(c, k) PROVE StaleIsExcused'
    BY <2>12 DEF Ask, To
  <2>13. ASSUME NEW c \in Client, NEW k \in Key, Refresh(c, k) PROVE StaleIsExcused'
    BY <2>13 DEF Refresh, To
  <2>14. ASSUME NEW c \in Client, NEW k \in Key, LookUp(c, k) PROVE StaleIsExcused'
    BY <2>14 DEF LookUp, To
  <2>15. ASSUME NEW c \in Client, NEW k \in Key, Read(c, k) PROVE StaleIsExcused'
    BY <2>15 DEF Read, To
  <2>16. ASSUME NEW c \in Client, NEW k \in Key, Fill(c, k) PROVE StaleIsExcused'
    BY <2>16 DEF Fill, To
  <2>17. ASSUME NEW c \in Client, NEW k \in Key, Arrive(c, k) PROVE StaleIsExcused'
    BY <2>17 DEF Arrive, To
  <2>18. ASSUME NEW c \in Client, NEW k \in Key, FillFails(c, k) PROVE StaleIsExcused'
    BY <2>18 DEF FillFails, Breaks, To
  <2>19. ASSUME NEW c \in Client, NEW k \in Key, AskFails(c, k) PROVE StaleIsExcused'
    BY <2>19 DEF AskFails, Breaks, To
  <2>20. ASSUME NEW c \in Client, NEW k \in Key, GrowOld(c, k) PROVE StaleIsExcused'
    BY <2>20 DEF GrowOld
  <2>21. ASSUME NEW c \in Client, NEW k \in Key, Age(c, k) PROVE StaleIsExcused'
    BY <2>21 DEF Age
  <2>22. ASSUME NEW c \in Client, Forget(c) PROVE StaleIsExcused'
    BY <2>22 DEF Forget
  <2>23. ASSUME NEW k \in Key, Expire(k) PROVE StaleIsExcused'
    BY <2>23 DEF Expire
  <2>24. CASE UNCHANGED vars
    BY <2>24 DEF vars
  <2>. QED
    BY <2>1, <2>2, <2>3, <2>4, <2>5, <2>6, <2>7, <2>8, <2>9, <2>10, <2>11,
       <2>12, <2>13, <2>14, <2>15, <2>16, <2>17, <2>18, <2>19, <2>20, <2>21,
       <2>22, <2>23, <2>24
       DEF Next, Writing, Asking
<1>. QED
  BY <1>1, <1>2, TypeCorrect, PTL DEF Spec

---------------------------------------------------------------------------
(* What is served was published.                                           *)

(* A placement was recorded as an event, and a version that was saved says *)
(* something.                                                              *)
PlacedByEvent ==
  placed # 0 => \E e \in events : e.to = placed

WrittenSay == \A n \in 1..written : text[n] > 0

PublishedInv == PlacedByEvent /\ WrittenSay /\ ServedWasPublished

(* Versions and events are added, and what a version says is written over, *)
(* but nothing of what was is unsaid.                                      *)
Grew ==
  /\ written <= written'
  /\ \A n \in 1..written : text[n] <= text'[n]
  /\ events \subseteq events'

(* The versions that are written and what they say, for arithmetic.        *)
LEMMA Written ==
  ASSUME TypeOK
  PROVE  /\ MaxVersions \in Nat /\ written \in 1..MaxVersions
         /\ \A n \in 1..MaxVersions : text[n] \in Nat
         /\ text \in [1..MaxVersions -> Nat]
  BY PromptsAssumption DEF TypeOK, Number

(* What Postgres answers now is genuine.                                   *)
LEMMA CurrentIsGenuine ==
  ASSUME TypeOK, PublishedInv, NEW k \in Key
  PROVE  Genuine(k, Current(k))
<1>1. ASSUME NEW n \in 0..written,
             n # 0 /\ k = "default" => \E e \in events : e.to = n,
             n # 0 /\ k = "pinned" => n = 1
      PROVE  Genuine(k, Saying(n))
  <2>1. CASE n = 0
    BY <2>1 DEF Saying, Genuine
  <2>2. CASE n # 0
    <3>1. Saying(n)[1] = n /\ Saying(n)[2] = text[n]
      BY <2>2 DEF Saying
    <3>2. n \in 1..written /\ n \in Number
      BY <2>2, Written DEF Number
    <3>3. text[n] \in Nat /\ text[n] > 0
      BY <3>2, Written DEF Number, PublishedInv, WrittenSay
    <3>. QED
      BY <1>1, <2>2, <3>1, <3>2, <3>3 DEF Genuine
  <2>. QED
    BY <2>1, <2>2
<1>2. placed \in 0..written /\ written \in 0..written /\ 1 \in 0..written
  BY DEF TypeOK, Number
<1>3. CASE k = "default"
  <2>1. Current(k) = Saying(placed)
    BY <1>3 DEF Current
  <2>. QED
    BY <1>1, <1>2, <1>3, <2>1 DEF PublishedInv, PlacedByEvent
<1>4. CASE k = "latest"
  <2>1. Current(k) = Saying(written)
    BY <1>4 DEF Current
  <2>. QED
    BY <1>1, <1>2, <1>4, <2>1
<1>5. CASE k = "pinned"
  <2>1. Current(k) = Saying(1)
    BY <1>5 DEF Current
  <2>. QED
    BY <1>1, <1>2, <1>5, <2>1
<1>. QED
  BY <1>3, <1>4, <1>5, PromptsAssumption

(* And what was genuine stays so.                                          *)
LEMMA GenuineStays ==
  ASSUME TypeOK, TypeOK', Grew, NEW k \in Key, NEW answer \in Answer, Genuine(k, answer)
  PROVE  Genuine(k, answer)'
<1>1. SUFFICES ASSUME answer # NoAnswer
               PROVE  /\ answer[1] \in 1..written'
                      /\ answer[2] \in 1..text'[answer[1]]
                      /\ k = "default" => \E e \in events' : e.to = answer[1]
                      /\ k = "pinned" => answer[1] = 1
  BY DEF Genuine
<1>2. /\ answer[1] \in 1..written' /\ answer[2] \in 1..text'[answer[1]]
      /\ k = "pinned" => answer[1] = 1
  <2>1. /\ answer[1] \in 1..written /\ answer[2] \in 1..text[answer[1]]
        /\ k = "pinned" => answer[1] = 1
    BY <1>1 DEF Genuine
  <2>2. /\ written \in Number /\ written' \in Number /\ written <= written'
        /\ text[answer[1]] \in Nat /\ text'[answer[1]] \in Nat
        /\ text[answer[1]] <= text'[answer[1]]
    <3>1. answer[1] \in Number
      BY <2>1, Written DEF Number
    <3>2. text[answer[1]] <= text'[answer[1]] /\ written <= written'
      BY <2>1 DEF Grew
    <3>. QED
      BY <3>1, <3>2 DEF TypeOK
  <2>. QED
    BY <2>1, <2>2 DEF Number
<1>3. ASSUME k = "default" PROVE \E e \in events' : e.to = answer[1]
  <2>1. PICK e \in events : e.to = answer[1]
    BY <1>1, <1>3 DEF Genuine
  <2>. QED
    BY <2>1 DEF Grew
<1>. QED
  BY <1>2, <1>3

(* In every place where an answer is kept.                                 *)
LEMMA ServedStays ==
  ASSUME TypeOK, TypeOK', Grew, ServedWasPublished, UNCHANGED <<redis, fetch, memory>>
  PROVE  ServedWasPublished'
<1>1. ASSUME NEW k \in Key PROVE Genuine(k, redis[k])'
  BY <1>1, GenuineStays DEF ServedWasPublished, TypeOK
<1>2. ASSUME NEW k \in Key, NEW c \in Client
      PROVE  Genuine(k, fetch[c][k].answer)' /\ Genuine(k, memory[c][k])'
  <2>1. fetch[c][k].answer \in Answer /\ memory[c][k] \in Answer
    BY <1>2 DEF TypeOK
  <2>. QED
    BY <1>2, <2>1, GenuineStays DEF ServedWasPublished
<1>. QED
  BY <1>1, <1>2 DEF ServedWasPublished

(* A step of a request changes no other.                                   *)
LEMMA AnswerOfFetch ==
  ASSUME TypeOK, NEW c \in Client, NEW k \in Key, NEW step, NEW answer,
         To(c, k, step, answer), NEW e \in Client, NEW q \in Key
  PROVE  fetch'[e][q].answer = IF e = c /\ q = k THEN answer ELSE fetch[e][q].answer
  BY DEF TypeOK, To

(* What a step passes on, from Postgres, Redis, a request or a memory, was
   genuine before it.                                                      *)
LEMMA PassedOn ==
  ASSUME TypeOK, PublishedInv, UNCHANGED <<written, text, events>>,
         \A k \in Key :
           /\ \/ redis'[k] \in {redis[k], NoAnswer}
              \/ \E c \in Client : redis'[k] = fetch[c][k].answer
           /\ \A c \in Client :
                /\ fetch'[c][k].answer \in {fetch[c][k].answer, redis[k], Current(k), NoAnswer}
                /\ memory'[c][k] \in {memory[c][k], fetch[c][k].answer, NoAnswer}
  PROVE  ServedWasPublished'
<1>1. ServedWasPublished' <=>
        \A k \in Key :
          /\ Genuine(k, redis'[k])
          /\ \A c \in Client : Genuine(k, fetch'[c][k].answer) /\ Genuine(k, memory'[c][k])
  BY DEF ServedWasPublished, Genuine
<1>2. \A k \in Key : Genuine(k, NoAnswer) /\ Genuine(k, Current(k))
  BY CurrentIsGenuine DEF Genuine
<1>. QED
  BY <1>1, <1>2 DEF PublishedInv, ServedWasPublished

(* What is kept or on its way under the default channel was published at   *)
(* some time, and whatever is served was said: through every race of the   *)
(* caches with the moves, whatever is lost and whatever breaks off.        *)
THEOREM ServedVersionsWerePublished == Spec => []ServedWasPublished
<1>1. Init => PublishedInv
  <2>. SUFFICES ASSUME Init PROVE PublishedInv
    OBVIOUS
  <2>1. PlacedByEvent
    <3>1. CASE placed = 0
      BY <3>1 DEF PlacedByEvent
    <3>2. CASE placed = 1 /\ events = {[by |-> "creation", from |-> 0, to |-> 1]}
      BY <3>2 DEF PlacedByEvent
    <3>. QED
      BY <3>1, <3>2 DEF Init
  <2>2. WrittenSay
    BY PromptsAssumption DEF Init, WrittenSay, Number
  <2>3. ServedWasPublished
    BY DEF Init, ServedWasPublished, Genuine, Idle
  <2>. QED
    BY <2>1, <2>2, <2>3 DEF PublishedInv
<1>2. TypeOK /\ TypeOK' /\ PublishedInv /\ [Next]_vars => PublishedInv'
  <2>. SUFFICES ASSUME TypeOK, TypeOK', PublishedInv, [Next]_vars PROVE PublishedInv'
    OBVIOUS
  <2>. USE DEF PublishedInv, store, kept, client
  <2>1. ASSUME NEW w \in Writer, Save(w) PROVE PublishedInv'
    <3>1. PlacedByEvent' /\ WrittenSay'
      BY <2>1 DEF Save, PlacedByEvent, WrittenSay
    <3>. QED
      BY <2>1, <3>1 DEF Save, ServedWasPublished, Genuine
  <2>2. ASSUME NEW w \in Writer, SaveInserts(w) PROVE PublishedInv'
    <3>1. UNCHANGED <<placed, events, redis, fetch, memory>>
      BY <2>2 DEF SaveInserts
    <3>2. written \in Nat /\ written <= written' /\ written' \in 1..MaxVersions
      BY <2>2 DEF SaveInserts, TypeOK, Number
    <3>3. text \in [1..MaxVersions -> Nat] /\ MaxVersions \in Nat /\ written <= MaxVersions
      BY Written
    <3>4. \A m \in 1..written : text[m] <= text'[m] /\ text'[m] > 0
      <4>1. \A m \in 1..written : text'[m] = text[m]
        BY <2>2, <3>2, <3>3 DEF SaveInserts
      <4>2. \A m \in 1..written : text[m] \in Nat /\ text[m] > 0
        BY <3>2, <3>3 DEF WrittenSay
      <4>. QED
        BY <4>1, <4>2
    <3>5. \A m \in 1..written' : m \notin 1..written => text'[m] > 0
      BY <2>2, <3>2, <3>3 DEF SaveInserts
    <3>6. WrittenSay'
      BY <3>2, <3>4, <3>5 DEF WrittenSay
    <3>7. Grew
      BY <3>1, <3>2, <3>4 DEF Grew
    <3>8. PlacedByEvent'
      BY <3>1 DEF PlacedByEvent
    <3>. QED
      BY <3>1, <3>6, <3>7, <3>8, ServedStays
  <2>3. ASSUME NEW w \in Writer, SaveConflicts(w) PROVE PublishedInv'
    <3>1. PlacedByEvent' /\ WrittenSay'
      BY <2>3 DEF SaveConflicts, PlacedByEvent, WrittenSay
    <3>. QED
      BY <2>3, <3>1 DEF SaveConflicts, ServedWasPublished, Genuine
  <2>4. ASSUME NEW w \in Writer, NEW n \in Number, Overwrite(w, n) PROVE PublishedInv'
    <3>1. UNCHANGED <<placed, events, redis, fetch, memory>>
      BY <2>4 DEF Overwrite
    <3>2. written \in Nat /\ written <= written' /\ written' \in 1..MaxVersions
      BY <2>4 DEF Overwrite, TypeOK, Number
    <3>3. text \in [1..MaxVersions -> Nat] /\ MaxVersions \in Nat /\ written <= MaxVersions
      BY Written
    <3>4. \A m \in 1..written : text[m] <= text'[m] /\ text'[m] > 0
      <4>1. \A m \in 1..written : text'[m] \in {text[m], text[m] + 1}
        BY <2>4, <3>2, <3>3 DEF Overwrite
      <4>2. \A m \in 1..written : text[m] \in Nat /\ text[m] > 0
        BY <3>2, <3>3 DEF WrittenSay
      <4>. QED
        BY <4>1, <4>2
    <3>5. written' = written
      BY <2>4 DEF Overwrite
    <3>6. WrittenSay'
      BY <3>2, <3>4, <3>5 DEF WrittenSay
    <3>7. Grew
      BY <3>1, <3>2, <3>4 DEF Grew
    <3>8. PlacedByEvent'
      BY <3>1 DEF PlacedByEvent
    <3>. QED
      BY <3>1, <3>6, <3>7, <3>8, ServedStays
  <2>5. ASSUME NEW w \in Writer, NEW n \in Number, Promote(w, n) PROVE PublishedInv'
    <3>1. PlacedByEvent' /\ WrittenSay'
      BY <2>5 DEF Promote, PlacedByEvent, WrittenSay
    <3>. QED
      BY <2>5, <3>1 DEF Promote, ServedWasPublished, Genuine
  <2>6. ASSUME NEW w \in Writer, MoveReads(w) PROVE PublishedInv'
    <3>1. PlacedByEvent' /\ WrittenSay'
      BY <2>6 DEF MoveReads, PlacedByEvent, WrittenSay
    <3>. QED
      BY <2>6, <3>1 DEF MoveReads, ServedWasPublished, Genuine
  <2>7. ASSUME NEW w \in Writer, MoveWrites(w) PROVE PublishedInv'
    <3>1. UNCHANGED <<written, text, redis, fetch, memory>>
      BY <2>7 DEF MoveWrites
    <3>2. Grew
      <4>1. written \in Nat /\ \A n \in 1..written : text[n] \in Nat
        BY Written
      <4>2. events \subseteq events'
        BY <2>7 DEF MoveWrites
      <4>. QED
        BY <3>1, <4>1, <4>2 DEF Grew
    <3>3. PlacedByEvent'
      <4>. DEFINE moved == [by |-> w, from |-> seen[w], to |-> number[w]]
      <4>1. moved \in events' /\ placed' = moved.to
        BY <2>7 DEF MoveWrites
      <4>. HIDE DEF moved
      <4>. QED
        BY <4>1 DEF PlacedByEvent
    <3>4. WrittenSay'
      BY <2>7 DEF MoveWrites, WrittenSay
    <3>. QED
      BY <3>1, <3>2, <3>3, <3>4, ServedStays
  <2>8. ASSUME NEW w \in Writer, MoveCollides(w) PROVE PublishedInv'
    <3>1. PlacedByEvent' /\ WrittenSay'
      BY <2>8 DEF MoveCollides, Leaves, PlacedByEvent, WrittenSay
    <3>. QED
      BY <2>8, <3>1 DEF MoveCollides, Leaves, ServedWasPublished, Genuine
  <2>9. ASSUME NEW w \in Writer, NEW k \in Key, Tell(w, k) PROVE PublishedInv'
    <3>1. UNCHANGED <<written, text, placed, events>>
      BY <2>9 DEF Tell
    <3>2. PlacedByEvent' /\ WrittenSay'
      BY <3>1 DEF PlacedByEvent, WrittenSay
    <3>3. \A q \in Key :
          /\ \/ redis'[q] \in {redis[q], NoAnswer}
             \/ \E e \in Client : redis'[q] = fetch[e][q].answer
      BY <2>9 DEF Tell, TypeOK
    <3>4. \A q \in Key, e \in Client :
          fetch'[e][q].answer \in {fetch[e][q].answer, redis[q], Current(q), NoAnswer}
      BY <2>9 DEF Tell, TypeOK
    <3>5. \A q \in Key, e \in Client :
          memory'[e][q] \in {memory[e][q], fetch[e][q].answer, NoAnswer}
      BY <2>9 DEF Tell, TypeOK
    <3>6. ServedWasPublished'
      BY <3>1, <3>3, <3>4, <3>5, PassedOn DEF PublishedInv
    <3>. QED
      BY <3>2, <3>6
  <2>10. ASSUME NEW w \in Writer, ToldAll(w) PROVE PublishedInv'
    <3>1. PlacedByEvent' /\ WrittenSay'
      BY <2>10 DEF ToldAll, PlacedByEvent, WrittenSay
    <3>. QED
      BY <2>10, <3>1 DEF ToldAll, ServedWasPublished, Genuine
  <2>11. ASSUME NEW w \in Writer, WriterBreaks(w) PROVE PublishedInv'
    <3>1. PlacedByEvent' /\ WrittenSay'
      BY <2>11 DEF WriterBreaks, Leaves, PlacedByEvent, WrittenSay
    <3>. QED
      BY <2>11, <3>1 DEF WriterBreaks, Leaves, ServedWasPublished, Genuine
  <2>12. ASSUME NEW c \in Client, NEW k \in Key, Ask(c, k) PROVE PublishedInv'
    <3>1. UNCHANGED <<written, text, placed, events>>
      BY <2>12 DEF Ask, To
    <3>2. PlacedByEvent' /\ WrittenSay'
      BY <3>1 DEF PlacedByEvent, WrittenSay
    <3>3. \A q \in Key :
          /\ \/ redis'[q] \in {redis[q], NoAnswer}
             \/ \E e \in Client : redis'[q] = fetch[e][q].answer
      BY <2>12 DEF Ask, To, TypeOK
    <3>4. \A q \in Key, e \in Client :
          fetch'[e][q].answer \in {fetch[e][q].answer, redis[q], Current(q), NoAnswer}
      BY <2>12 DEF Ask, To, TypeOK
    <3>5. \A q \in Key, e \in Client :
          memory'[e][q] \in {memory[e][q], fetch[e][q].answer, NoAnswer}
      BY <2>12 DEF Ask, To, TypeOK
    <3>6. ServedWasPublished'
      BY <3>1, <3>3, <3>4, <3>5, PassedOn DEF PublishedInv
    <3>. QED
      BY <3>2, <3>6
  <2>13. ASSUME NEW c \in Client, NEW k \in Key, Refresh(c, k) PROVE PublishedInv'
    <3>1. UNCHANGED <<written, text, placed, events>>
      BY <2>13 DEF Refresh, To
    <3>2. PlacedByEvent' /\ WrittenSay'
      BY <3>1 DEF PlacedByEvent, WrittenSay
    <3>3. \A q \in Key :
          /\ \/ redis'[q] \in {redis[q], NoAnswer}
             \/ \E e \in Client : redis'[q] = fetch[e][q].answer
      BY <2>13 DEF Refresh, To, TypeOK
    <3>4. \A q \in Key, e \in Client :
          fetch'[e][q].answer \in {fetch[e][q].answer, redis[q], Current(q), NoAnswer}
      BY <2>13 DEF Refresh, To, TypeOK
    <3>5. \A q \in Key, e \in Client :
          memory'[e][q] \in {memory[e][q], fetch[e][q].answer, NoAnswer}
      BY <2>13 DEF Refresh, To, TypeOK
    <3>6. ServedWasPublished'
      BY <3>1, <3>3, <3>4, <3>5, PassedOn DEF PublishedInv
    <3>. QED
      BY <3>2, <3>6
  <2>14. ASSUME NEW c \in Client, NEW k \in Key, LookUp(c, k) PROVE PublishedInv'
    <3>1. UNCHANGED <<written, text, placed, events>>
      BY <2>14 DEF LookUp, To
    <3>2. PlacedByEvent' /\ WrittenSay'
      BY <3>1 DEF PlacedByEvent, WrittenSay
    <3>3. \A q \in Key :
          /\ \/ redis'[q] \in {redis[q], NoAnswer}
             \/ \E e \in Client : redis'[q] = fetch[e][q].answer
      BY <2>14 DEF LookUp, To, TypeOK
    <3>4. \A q \in Key, e \in Client :
          fetch'[e][q].answer \in {fetch[e][q].answer, redis[q], Current(q), NoAnswer}
      <4>1. CASE redis[k] = NoAnswer
        BY <2>14, <4>1, AnswerOfFetch DEF LookUp
      <4>2. CASE ~(redis[k] = NoAnswer)
        BY <2>14, <4>2, AnswerOfFetch DEF LookUp
      <4>. QED
        BY <4>1, <4>2
    <3>5. \A q \in Key, e \in Client :
          memory'[e][q] \in {memory[e][q], fetch[e][q].answer, NoAnswer}
      BY <2>14 DEF LookUp, To, TypeOK
    <3>6. ServedWasPublished'
      BY <3>1, <3>3, <3>4, <3>5, PassedOn DEF PublishedInv
    <3>. QED
      BY <3>2, <3>6
  <2>15. ASSUME NEW c \in Client, NEW k \in Key, Read(c, k) PROVE PublishedInv'
    <3>1. UNCHANGED <<written, text, placed, events>>
      BY <2>15 DEF Read
    <3>2. PlacedByEvent' /\ WrittenSay'
      BY <3>1 DEF PlacedByEvent, WrittenSay
    <3>3. \A q \in Key :
          /\ \/ redis'[q] \in {redis[q], NoAnswer}
             \/ \E e \in Client : redis'[q] = fetch[e][q].answer
      BY <2>15 DEF Read, TypeOK
    <3>4. \A q \in Key, e \in Client :
          fetch'[e][q].answer \in {fetch[e][q].answer, redis[q], Current(q), NoAnswer}
      <4>1. CASE Current(k) = NoAnswer
        BY <2>15, <4>1, AnswerOfFetch DEF Read
      <4>2. CASE ~(Current(k) = NoAnswer)
        BY <2>15, <4>2, AnswerOfFetch DEF Read
      <4>. QED
        BY <4>1, <4>2
    <3>5. \A q \in Key, e \in Client :
          memory'[e][q] \in {memory[e][q], fetch[e][q].answer, NoAnswer}
      BY <2>15 DEF Read, TypeOK
    <3>6. ServedWasPublished'
      BY <3>1, <3>3, <3>4, <3>5, PassedOn DEF PublishedInv
    <3>. QED
      BY <3>2, <3>6
  <2>16. ASSUME NEW c \in Client, NEW k \in Key, Fill(c, k) PROVE PublishedInv'
    <3>1. UNCHANGED <<written, text, placed, events>>
      BY <2>16 DEF Fill, To
    <3>2. PlacedByEvent' /\ WrittenSay'
      BY <3>1 DEF PlacedByEvent, WrittenSay
    <3>3. \A q \in Key :
          /\ \/ redis'[q] \in {redis[q], NoAnswer}
             \/ \E e \in Client : redis'[q] = fetch[e][q].answer
      BY <2>16 DEF Fill, To, TypeOK
    <3>4. \A q \in Key, e \in Client :
          fetch'[e][q].answer \in {fetch[e][q].answer, redis[q], Current(q), NoAnswer}
      BY <2>16 DEF Fill, To, TypeOK
    <3>5. \A q \in Key, e \in Client :
          memory'[e][q] \in {memory[e][q], fetch[e][q].answer, NoAnswer}
      BY <2>16 DEF Fill, To, TypeOK
    <3>6. ServedWasPublished'
      BY <3>1, <3>3, <3>4, <3>5, PassedOn DEF PublishedInv
    <3>. QED
      BY <3>2, <3>6
  <2>17. ASSUME NEW c \in Client, NEW k \in Key, FillFails(c, k) PROVE PublishedInv'
    <3>1. UNCHANGED <<written, text, placed, events>>
      BY <2>17 DEF FillFails, To
    <3>2. PlacedByEvent' /\ WrittenSay'
      BY <3>1 DEF PlacedByEvent, WrittenSay
    <3>3. \A q \in Key :
          /\ \/ redis'[q] \in {redis[q], NoAnswer}
             \/ \E e \in Client : redis'[q] = fetch[e][q].answer
      BY <2>17 DEF FillFails, To, TypeOK
    <3>4. \A q \in Key, e \in Client :
          fetch'[e][q].answer \in {fetch[e][q].answer, redis[q], Current(q), NoAnswer}
      BY <2>17 DEF FillFails, To, TypeOK
    <3>5. \A q \in Key, e \in Client :
          memory'[e][q] \in {memory[e][q], fetch[e][q].answer, NoAnswer}
      BY <2>17 DEF FillFails, To, TypeOK
    <3>6. ServedWasPublished'
      BY <3>1, <3>3, <3>4, <3>5, PassedOn DEF PublishedInv
    <3>. QED
      BY <3>2, <3>6
  <2>18. ASSUME NEW c \in Client, NEW k \in Key, Arrive(c, k) PROVE PublishedInv'
    <3>1. UNCHANGED <<written, text, placed, events>>
      BY <2>18 DEF Arrive, To
    <3>2. PlacedByEvent' /\ WrittenSay'
      BY <3>1 DEF PlacedByEvent, WrittenSay
    <3>3. \A q \in Key :
          /\ \/ redis'[q] \in {redis[q], NoAnswer}
             \/ \E e \in Client : redis'[q] = fetch[e][q].answer
      BY <2>18 DEF Arrive, To, TypeOK
    <3>4. \A q \in Key, e \in Client :
          fetch'[e][q].answer \in {fetch[e][q].answer, redis[q], Current(q), NoAnswer}
      BY <2>18 DEF Arrive, To, TypeOK
    <3>5. \A q \in Key, e \in Client :
          memory'[e][q] \in {memory[e][q], fetch[e][q].answer, NoAnswer}
      BY <2>18 DEF Arrive, To, TypeOK
    <3>6. ServedWasPublished'
      BY <3>1, <3>3, <3>4, <3>5, PassedOn DEF PublishedInv
    <3>. QED
      BY <3>2, <3>6
  <2>19. ASSUME NEW c \in Client, NEW k \in Key, AskFails(c, k) PROVE PublishedInv'
    <3>1. UNCHANGED <<written, text, placed, events>>
      BY <2>19 DEF AskFails, To
    <3>2. PlacedByEvent' /\ WrittenSay'
      BY <3>1 DEF PlacedByEvent, WrittenSay
    <3>3. \A q \in Key :
          /\ \/ redis'[q] \in {redis[q], NoAnswer}
             \/ \E e \in Client : redis'[q] = fetch[e][q].answer
      BY <2>19 DEF AskFails, To, TypeOK
    <3>4. \A q \in Key, e \in Client :
          fetch'[e][q].answer \in {fetch[e][q].answer, redis[q], Current(q), NoAnswer}
      BY <2>19 DEF AskFails, To, TypeOK
    <3>5. \A q \in Key, e \in Client :
          memory'[e][q] \in {memory[e][q], fetch[e][q].answer, NoAnswer}
      BY <2>19 DEF AskFails, To, TypeOK
    <3>6. ServedWasPublished'
      BY <3>1, <3>3, <3>4, <3>5, PassedOn DEF PublishedInv
    <3>. QED
      BY <3>2, <3>6
  <2>20. ASSUME NEW c \in Client, NEW k \in Key, GrowOld(c, k) PROVE PublishedInv'
    <3>1. PlacedByEvent' /\ WrittenSay'
      BY <2>20 DEF GrowOld, PlacedByEvent, WrittenSay
    <3>. QED
      BY <2>20, <3>1 DEF GrowOld, ServedWasPublished, Genuine
  <2>21. ASSUME NEW c \in Client, NEW k \in Key, Age(c, k) PROVE PublishedInv'
    <3>1. PlacedByEvent' /\ WrittenSay'
      BY <2>21 DEF Age, PlacedByEvent, WrittenSay
    <3>. QED
      BY <2>21, <3>1 DEF Age, ServedWasPublished, Genuine
  <2>22. ASSUME NEW c \in Client, Forget(c) PROVE PublishedInv'
    <3>1. UNCHANGED <<written, text, placed, events>>
      BY <2>22 DEF Forget
    <3>2. PlacedByEvent' /\ WrittenSay'
      BY <3>1 DEF PlacedByEvent, WrittenSay
    <3>3. \A q \in Key :
          /\ \/ redis'[q] \in {redis[q], NoAnswer}
             \/ \E e \in Client : redis'[q] = fetch[e][q].answer
      BY <2>22 DEF Forget, TypeOK
    <3>4. \A q \in Key, e \in Client :
          fetch'[e][q].answer \in {fetch[e][q].answer, redis[q], Current(q), NoAnswer}
      BY <2>22 DEF Forget, TypeOK
    <3>5. \A q \in Key, e \in Client :
          memory'[e][q] \in {memory[e][q], fetch[e][q].answer, NoAnswer}
      BY <2>22 DEF Forget, TypeOK
    <3>6. ServedWasPublished'
      BY <3>1, <3>3, <3>4, <3>5, PassedOn DEF PublishedInv
    <3>. QED
      BY <3>2, <3>6
  <2>23. ASSUME NEW k \in Key, Expire(k) PROVE PublishedInv'
    <3>1. UNCHANGED <<written, text, placed, events>>
      BY <2>23 DEF Expire
    <3>2. PlacedByEvent' /\ WrittenSay'
      BY <3>1 DEF PlacedByEvent, WrittenSay
    <3>3. \A q \in Key :
          /\ \/ redis'[q] \in {redis[q], NoAnswer}
             \/ \E e \in Client : redis'[q] = fetch[e][q].answer
      BY <2>23 DEF Expire, TypeOK
    <3>4. \A q \in Key, e \in Client :
          fetch'[e][q].answer \in {fetch[e][q].answer, redis[q], Current(q), NoAnswer}
      BY <2>23 DEF Expire, TypeOK
    <3>5. \A q \in Key, e \in Client :
          memory'[e][q] \in {memory[e][q], fetch[e][q].answer, NoAnswer}
      BY <2>23 DEF Expire, TypeOK
    <3>6. ServedWasPublished'
      BY <3>1, <3>3, <3>4, <3>5, PassedOn DEF PublishedInv
    <3>. QED
      BY <3>2, <3>6
  <2>24. CASE UNCHANGED vars
    <3>1. PlacedByEvent' /\ WrittenSay'
      BY <2>24 DEF vars, vars, PlacedByEvent, WrittenSay
    <3>. QED
      BY <2>24, <3>1 DEF vars, vars, ServedWasPublished, Genuine
  <2>. QED
    BY <2>1, <2>2, <2>3, <2>4, <2>5, <2>6, <2>7, <2>8, <2>9, <2>10,
       <2>11, <2>12, <2>13, <2>14, <2>15, <2>16, <2>17, <2>18, <2>19,
       <2>20, <2>21, <2>22, <2>23, <2>24
       DEF Next, Writing, Asking
<1>. QED
  BY <1>1, <1>2, TypeCorrect, PTL DEF Spec, PublishedInv
=============================================================================
