--------------------------- MODULE AgentTrialProofs ---------------------------
(***************************************************************************)
(* Proofs about AgentTrial, for a command of any length, any time limit,   *)
(* any number of turns and any number of polls that fail.                  *)
(***************************************************************************)
EXTENDS AgentTrial, TLAPS

(* A turn that has begun is one the case has.                              *)
TurnsInv == phase \in {"preparing", "talking"} /\ agent # "listening" => turns < MaxTurns

(* The poll, the turns and the clocks keep their types: no turn is begun   *)
(* without time, and none beyond those a case has.                         *)
THEOREM TypeCorrect == Spec => []TypeOK
<1>1. Init => TypeOK /\ TurnsInv
  <2>. SUFFICES ASSUME Init PROVE TypeOK /\ TurnsInv
    OBVIOUS
  <2>1. CommandOK /\ phase \in Phase
    BY AgentTrialAssumption DEF Init, CommandOK, Exit, Phase
  <2>2. TalkOK /\ TurnsInv
    BY AgentTrialAssumption DEF Init, TalkOK, TurnsInv
  <2>3. PollOK
    <3>1. heard \in [Piece -> Nat] /\ got \in SUBSET {"status", "log"}
      BY DEF Init
    <3>2. fails \in 0..3 /\ read \in 0..Pieces /\ reported \in 0..Pieces /\ faults \in 0..MaxFaults
      BY AgentTrialAssumption DEF Init
    <3>3. /\ reason = "none" /\ step = "checking" /\ status \in Exit
          /\ first \in BOOLEAN /\ late \in BOOLEAN /\ blank \in BOOLEAN
      BY DEF Init, Exit
    <3>. QED
      BY <3>1, <3>2, <3>3 DEF PollOK
  <2>. QED
    BY <2>1, <2>2, <2>3 DEF TypeOK
<1>2. CommandOK /\ [Next]_vars => CommandOK'
  <2>. SUFFICES ASSUME CommandOK, [Next]_vars PROVE CommandOK'
    OBVIOUS
  <2>. USE AgentTrialAssumption DEF CommandOK, Exit, command
  <2>1. ASSUME Prints PROVE CommandOK'
    BY <2>1 DEF Prints
  <2>2. ASSUME Exits PROVE CommandOK'
    BY <2>2 DEF Exits
  <2>3. ASSUME ReadsStatus PROVE CommandOK'
    BY <2>3 DEF ReadsStatus, Checking
  <2>4. ASSUME ReadsLog PROVE CommandOK'
    BY <2>4 DEF ReadsLog, Checking, Breaks
  <2>5. ASSUME FirstChecked PROVE CommandOK'
    BY <2>5 DEF FirstChecked, Checked, Checking, Concludes, Waits, PrepareFails
  <2>6. ASSUME LoopChecked PROVE CommandOK'
    BY <2>6 DEF LoopChecked, Checked, Checking, Concludes, Waits, PrepareFails, Report
  <2>7. ASSUME Wakes PROVE CommandOK'
    BY <2>7 DEF Wakes
  <2>8. ASSUME CheckFails PROVE CommandOK'
    BY <2>8 DEF CheckFails, Checking, Breaks
  <2>9. ASSUME DeadlinePasses PROVE CommandOK'
    BY <2>9 DEF DeadlinePasses
  <2>10. ASSUME TurnStarts PROVE CommandOK'
    BY <2>10 DEF TurnStarts, Talking
  <2>11. ASSUME OutOfTime PROVE CommandOK'
    BY <2>11 DEF OutOfTime, Talking
  <2>12. ASSUME AgentWorks PROVE CommandOK'
    BY <2>12 DEF AgentWorks, Talking
  <2>13. ASSUME TimerFires PROVE CommandOK'
    BY <2>13 DEF TimerFires, Talking
  <2>14. ASSUME TurnFails PROVE CommandOK'
    BY <2>14 DEF TurnFails, Talking
  <2>15. ASSUME TurnEnds PROVE CommandOK'
    BY <2>15 DEF TurnEnds, Talking
  <2>16. ASSUME PersonThinks PROVE CommandOK'
    BY <2>16 DEF PersonThinks, Listening, Talking
  <2>17. ASSUME PersonReplies PROVE CommandOK'
    BY <2>17 DEF PersonReplies, Listening, Talking
  <2>18. ASSUME ConversationEnds PROVE CommandOK'
    BY <2>18 DEF ConversationEnds, Listening, Talking
  <2>19. ASSUME PersonAbsent PROVE CommandOK'
    BY <2>19 DEF PersonAbsent, Listening, Talking
  <2>20. ASSUME Scores PROVE CommandOK'
    BY <2>20 DEF Scores
  <2>21. CASE UNCHANGED vars
    BY <2>21 DEF vars
  <2>. QED
    BY <2>1, <2>2, <2>3, <2>4, <2>5, <2>6, <2>7, <2>8, <2>9, <2>10, <2>11,
       <2>12, <2>13, <2>14, <2>15, <2>16, <2>17, <2>18, <2>19, <2>20, <2>21
       DEF Next, Polling, AgentTurn, Person
<1>3. CommandOK /\ PollOK /\ [Next]_vars => PollOK'
  <2>. SUFFICES ASSUME CommandOK, PollOK, [Next]_vars PROVE PollOK'
    OBVIOUS
  <2>. USE AgentTrialAssumption DEF CommandOK, PollOK, Exit, Piece, check, watcher, poll
  <2>1. ASSUME Prints PROVE PollOK'
    BY <2>1 DEF Prints
  <2>2. ASSUME Exits PROVE PollOK'
    BY <2>2 DEF Exits
  <2>3. ASSUME ReadsStatus PROVE PollOK'
    BY <2>3 DEF ReadsStatus, Checking
  <2>4. ASSUME ReadsLog PROVE PollOK'
    <3>1. CASE read' = log /\ UNCHANGED <<blank, faults>>
      BY <2>4, <3>1 DEF ReadsLog
    <3>2. CASE read' = 0 /\ log > 0 /\ blank' = TRUE /\ Breaks
      <4>1. faults' \in 0..MaxFaults
        BY <3>2 DEF Breaks
      <4>. QED
        BY <2>4, <3>2, <4>1 DEF ReadsLog
    <3>. QED
      BY <2>4, <3>1, <3>2 DEF ReadsLog
  <2>5. ASSUME FirstChecked PROVE PollOK'
    BY <2>5 DEF FirstChecked, Checked, Checking, Concludes, Waits, PrepareFails
  <2>6. ASSUME LoopChecked PROVE PollOK'
    BY <2>6 DEF LoopChecked, Checked, Checking, Concludes, Waits, PrepareFails, Report
  <2>7. ASSUME Wakes PROVE PollOK'
    <3>1. got' \in SUBSET {"status", "log"} /\ fails' \in 0..3
      BY <2>7 DEF Wakes
    <3>. QED
      BY <2>7, <3>1 DEF Wakes
  <2>8. ASSUME CheckFails PROVE PollOK'
    <3>1. faults' \in 0..MaxFaults
      BY <2>8 DEF CheckFails, Breaks
    <3>2. CASE fails < 3
      BY <2>8, <3>1, <3>2 DEF CheckFails
    <3>3. CASE ~(fails < 3)
      BY <2>8, <3>1, <3>3 DEF CheckFails
    <3>. QED
      BY <3>2, <3>3
  <2>9. ASSUME DeadlinePasses PROVE PollOK'
    BY <2>9 DEF DeadlinePasses
  <2>10. ASSUME TurnStarts PROVE PollOK'
    BY <2>10 DEF TurnStarts, Talking
  <2>11. ASSUME OutOfTime PROVE PollOK'
    BY <2>11 DEF OutOfTime, Talking
  <2>12. ASSUME AgentWorks PROVE PollOK'
    BY <2>12 DEF AgentWorks, Talking
  <2>13. ASSUME TimerFires PROVE PollOK'
    BY <2>13 DEF TimerFires, Talking
  <2>14. ASSUME TurnFails PROVE PollOK'
    BY <2>14 DEF TurnFails, Talking
  <2>15. ASSUME TurnEnds PROVE PollOK'
    BY <2>15 DEF TurnEnds, Talking
  <2>16. ASSUME PersonThinks PROVE PollOK'
    BY <2>16 DEF PersonThinks, Listening, Talking
  <2>17. ASSUME PersonReplies PROVE PollOK'
    BY <2>17 DEF PersonReplies, Listening, Talking
  <2>18. ASSUME ConversationEnds PROVE PollOK'
    BY <2>18 DEF ConversationEnds, Listening, Talking
  <2>19. ASSUME PersonAbsent PROVE PollOK'
    BY <2>19 DEF PersonAbsent, Listening, Talking
  <2>20. ASSUME Scores PROVE PollOK'
    BY <2>20 DEF Scores
  <2>21. CASE UNCHANGED vars
    BY <2>21 DEF vars
  <2>. QED
    BY <2>1, <2>2, <2>3, <2>4, <2>5, <2>6, <2>7, <2>8, <2>9, <2>10, <2>11,
       <2>12, <2>13, <2>14, <2>15, <2>16, <2>17, <2>18, <2>19, <2>20, <2>21
       DEF Next, Polling, AgentTurn, Person
<1>4. TalkOK /\ TurnsInv /\ phase \in Phase /\ [Next]_vars => (TalkOK /\ TurnsInv /\ phase \in Phase)'
  <2>. SUFFICES ASSUME TalkOK, TurnsInv, phase \in Phase, [Next]_vars
                PROVE  (TalkOK /\ TurnsInv /\ phase \in Phase)'
    OBVIOUS
  <2>. USE AgentTrialAssumption DEF TalkOK, TurnsInv, Phase, Over, talk
  <2>1. ASSUME Prints PROVE (TalkOK /\ TurnsInv /\ phase \in Phase)'
    BY <2>1 DEF Prints
  <2>2. ASSUME Exits PROVE (TalkOK /\ TurnsInv /\ phase \in Phase)'
    BY <2>2 DEF Exits
  <2>3. ASSUME ReadsStatus PROVE (TalkOK /\ TurnsInv /\ phase \in Phase)'
    BY <2>3 DEF ReadsStatus, Checking
  <2>4. ASSUME ReadsLog PROVE (TalkOK /\ TurnsInv /\ phase \in Phase)'
    BY <2>4 DEF ReadsLog, Checking, Breaks
  <2>5. ASSUME FirstChecked PROVE (TalkOK /\ TurnsInv /\ phase \in Phase)'
    BY <2>5 DEF FirstChecked, Checked, Checking, Concludes, Waits, PrepareFails
  <2>6. ASSUME LoopChecked PROVE (TalkOK /\ TurnsInv /\ phase \in Phase)'
    BY <2>6 DEF LoopChecked, Checked, Checking, Concludes, Waits, PrepareFails, Report
  <2>7. ASSUME Wakes PROVE (TalkOK /\ TurnsInv /\ phase \in Phase)'
    BY <2>7 DEF Wakes
  <2>8. ASSUME CheckFails PROVE (TalkOK /\ TurnsInv /\ phase \in Phase)'
    BY <2>8 DEF CheckFails, Checking, Breaks
  <2>9. ASSUME DeadlinePasses PROVE (TalkOK /\ TurnsInv /\ phase \in Phase)'
    BY <2>9 DEF DeadlinePasses
  <2>10. ASSUME TurnStarts PROVE (TalkOK /\ TurnsInv /\ phase \in Phase)'
    BY <2>10 DEF TurnStarts, Talking
  <2>11. ASSUME OutOfTime PROVE (TalkOK /\ TurnsInv /\ phase \in Phase)'
    BY <2>11 DEF OutOfTime, Talking
  <2>12. ASSUME AgentWorks PROVE (TalkOK /\ TurnsInv /\ phase \in Phase)'
    BY <2>12 DEF AgentWorks, Talking
  <2>13. ASSUME TimerFires PROVE (TalkOK /\ TurnsInv /\ phase \in Phase)'
    BY <2>13 DEF TimerFires, Talking
  <2>14. ASSUME TurnFails PROVE (TalkOK /\ TurnsInv /\ phase \in Phase)'
    BY <2>14 DEF TurnFails, Talking
  <2>15. ASSUME TurnEnds PROVE (TalkOK /\ TurnsInv /\ phase \in Phase)'
    BY <2>15 DEF TurnEnds, Talking
  <2>16. ASSUME PersonThinks PROVE (TalkOK /\ TurnsInv /\ phase \in Phase)'
    BY <2>16 DEF PersonThinks, Listening, Talking
  <2>17. ASSUME PersonReplies PROVE (TalkOK /\ TurnsInv /\ phase \in Phase)'
    BY <2>17 DEF PersonReplies, Listening, Talking
  <2>18. ASSUME ConversationEnds PROVE (TalkOK /\ TurnsInv /\ phase \in Phase)'
    BY <2>18 DEF ConversationEnds, Listening, Talking
  <2>19. ASSUME PersonAbsent PROVE (TalkOK /\ TurnsInv /\ phase \in Phase)'
    BY <2>19 DEF PersonAbsent, Listening, Talking
  <2>20. ASSUME Scores PROVE (TalkOK /\ TurnsInv /\ phase \in Phase)'
    BY <2>20 DEF Scores
  <2>21. CASE UNCHANGED vars
    BY <2>21 DEF vars
  <2>. QED
    BY <2>1, <2>2, <2>3, <2>4, <2>5, <2>6, <2>7, <2>8, <2>9, <2>10, <2>11,
       <2>12, <2>13, <2>14, <2>15, <2>16, <2>17, <2>18, <2>19, <2>20, <2>21
       DEF Next, Polling, AgentTurn, Person
<1>. QED
  BY <1>1, <1>2, <1>3, <1>4, PTL DEF Spec, TypeOK

---------------------------------------------------------------------------
(* Where the exit code is read first, a log that goes with an exit code of *)
(* 0 holds everything.                                                     *)
ResultInv ==
  /\ exit = "ok" => log = Pieces
  /\ "log" \in got => "status" \in got
  /\ "status" \in got /\ status = "ok" => exit = "ok"
  /\ "log" \in got /\ status = "ok" => read = Pieces \/ blank
  /\ ResultIsRead

(* A provider that reads the exit code before the log never costs a        *)
(* prepare its result.                                                     *)
THEOREM ResultsAreRead == StatusFirst /\ Spec => []ResultIsRead
<1>. SUFFICES ASSUME StatusFirst PROVE Spec => []ResultIsRead
  OBVIOUS
<1>1. Init => ResultInv
  BY AgentTrialAssumption DEF Init, ResultInv, ResultIsRead
<1>2. TypeOK /\ ResultInv /\ [Next]_vars => ResultInv'
  <2>. SUFFICES ASSUME TypeOK, ResultInv, [Next]_vars PROVE ResultInv'
    OBVIOUS
  <2>. USE AgentTrialAssumption
       DEF TypeOK, CommandOK, PollOK, ResultInv, ResultIsRead, Exit, Piece, command, check, watcher, poll
  <2>1. ASSUME Prints PROVE ResultInv'
    BY <2>1 DEF Prints
  <2>2. ASSUME Exits PROVE ResultInv'
    BY <2>2 DEF Exits
  <2>3. ASSUME ReadsStatus PROVE ResultInv'
    BY <2>3 DEF ReadsStatus, Checking
  <2>4. ASSUME ReadsLog PROVE ResultInv'
    <3>1. CASE read' = log /\ UNCHANGED <<blank, faults>>
      BY <2>4, <3>1 DEF ReadsLog, Checking
    <3>2. CASE read' = 0 /\ log > 0 /\ blank' = TRUE /\ Breaks
      BY <2>4, <3>2 DEF ReadsLog, Checking
    <3>. QED
      BY <2>4, <3>1, <3>2 DEF ReadsLog
  <2>5. ASSUME FirstChecked PROVE ResultInv'
    <3>1. UNCHANGED <<command, check, blank>> /\ got = {"status", "log"}
      BY <2>5 DEF FirstChecked, Checked
    <3>2. reason' = reason \/ reason' # "noResult" \/ (status = "ok" /\ read < Pieces)
      BY <2>5 DEF FirstChecked, Concludes, Waits, PrepareFails
    <3>. QED
      BY <3>1, <3>2
  <2>6. ASSUME LoopChecked PROVE ResultInv'
    <3>1. UNCHANGED <<command, check, blank>> /\ got = {"status", "log"}
      BY <2>6 DEF LoopChecked, Checked
    <3>2. reason' = reason \/ reason' # "noResult" \/ (status = "ok" /\ read < Pieces)
      BY <2>6 DEF LoopChecked, Concludes, Waits, PrepareFails
    <3>. QED
      BY <3>1, <3>2
  <2>7. ASSUME Wakes PROVE ResultInv'
    BY <2>7 DEF Wakes
  <2>8. ASSUME CheckFails PROVE ResultInv'
    BY <2>8 DEF CheckFails, Checking, Breaks
  <2>9. ASSUME DeadlinePasses PROVE ResultInv'
    BY <2>9 DEF DeadlinePasses
  <2>10. ASSUME TurnStarts PROVE ResultInv'
    BY <2>10 DEF TurnStarts, Talking
  <2>11. ASSUME OutOfTime PROVE ResultInv'
    BY <2>11 DEF OutOfTime, Talking
  <2>12. ASSUME AgentWorks PROVE ResultInv'
    BY <2>12 DEF AgentWorks, Talking
  <2>13. ASSUME TimerFires PROVE ResultInv'
    BY <2>13 DEF TimerFires, Talking
  <2>14. ASSUME TurnFails PROVE ResultInv'
    BY <2>14 DEF TurnFails, Talking
  <2>15. ASSUME TurnEnds PROVE ResultInv'
    BY <2>15 DEF TurnEnds, Talking
  <2>16. ASSUME PersonThinks PROVE ResultInv'
    BY <2>16 DEF PersonThinks, Listening, Talking
  <2>17. ASSUME PersonReplies PROVE ResultInv'
    BY <2>17 DEF PersonReplies, Listening, Talking
  <2>18. ASSUME ConversationEnds PROVE ResultInv'
    BY <2>18 DEF ConversationEnds, Listening, Talking
  <2>19. ASSUME PersonAbsent PROVE ResultInv'
    BY <2>19 DEF PersonAbsent, Listening, Talking
  <2>20. ASSUME Scores PROVE ResultInv'
    BY <2>20 DEF Scores
  <2>21. CASE UNCHANGED vars
    BY <2>21 DEF vars
  <2>. QED
    BY <2>1, <2>2, <2>3, <2>4, <2>5, <2>6, <2>7, <2>8, <2>9, <2>10, <2>11,
       <2>12, <2>13, <2>14, <2>15, <2>16, <2>17, <2>18, <2>19, <2>20, <2>21
       DEF Next, Polling, AgentTurn, Person
<1>3. ResultInv => ResultIsRead
  BY DEF ResultInv
<1>. QED
  BY <1>1, <1>2, <1>3, TypeCorrect, PTL DEF Spec

---------------------------------------------------------------------------
(* What has been reported is a part of what a check reads, which is a part *)
(* of the log there is.                                                    *)
HeardInv ==
  /\ ~blank => reported <= log
  /\ ~blank /\ "log" \in got => reported <= read /\ read <= log
  /\ PiecesAreHeardOnce

(* However polls fall and fail, the watcher hears each piece once.         *)
THEOREM EachPieceIsHeardOnce == Spec => []PiecesAreHeardOnce
<1>1. Init => HeardInv
  BY AgentTrialAssumption DEF Init, HeardInv, PiecesAreHeardOnce, Piece
<1>2. TypeOK /\ HeardInv /\ [Next]_vars => HeardInv'
  <2>. SUFFICES ASSUME TypeOK, HeardInv, [Next]_vars PROVE HeardInv'
    OBVIOUS
  <2>. USE AgentTrialAssumption
       DEF TypeOK, CommandOK, PollOK, HeardInv, PiecesAreHeardOnce, Exit, Piece, command, check, watcher, poll
  <2>1. ASSUME Prints PROVE HeardInv'
    <3>1. log' = log + 1 /\ UNCHANGED <<blank, reported, heard, got, read>>
      BY <2>1 DEF Prints
    <3>. QED
      BY <3>1
  <2>2. ASSUME Exits PROVE HeardInv'
    BY <2>2 DEF Exits
  <2>3. ASSUME ReadsStatus PROVE HeardInv'
    BY <2>3 DEF ReadsStatus, Checking
  <2>4. ASSUME ReadsLog PROVE HeardInv'
    <3>1. CASE read' = log /\ UNCHANGED <<blank, faults>>
      BY <2>4, <3>1 DEF ReadsLog, Checking
    <3>2. CASE read' = 0 /\ log > 0 /\ blank' = TRUE /\ Breaks
      BY <2>4, <3>2 DEF ReadsLog, Checking
    <3>. QED
      BY <2>4, <3>1, <3>2 DEF ReadsLog
  <2>5. ASSUME FirstChecked PROVE HeardInv'
    BY <2>5 DEF FirstChecked, Checked, Checking, Concludes, Waits, PrepareFails
  <2>6. ASSUME LoopChecked PROVE HeardInv'
    <3>1. "log" \in got /\ reported' = read /\ UNCHANGED <<blank, log, got, read>>
      BY <2>6 DEF LoopChecked, Checked, Report
    <3>2. ~blank => \A i \in Piece : heard'[i] = IF i <= read THEN 1 ELSE 0
      BY <2>6, <3>1 DEF LoopChecked, Report
    <3>. QED
      BY <3>1, <3>2
  <2>7. ASSUME Wakes PROVE HeardInv'
    BY <2>7 DEF Wakes
  <2>8. ASSUME CheckFails PROVE HeardInv'
    BY <2>8 DEF CheckFails, Checking, Breaks
  <2>9. ASSUME DeadlinePasses PROVE HeardInv'
    BY <2>9 DEF DeadlinePasses
  <2>10. ASSUME TurnStarts PROVE HeardInv'
    BY <2>10 DEF TurnStarts, Talking
  <2>11. ASSUME OutOfTime PROVE HeardInv'
    BY <2>11 DEF OutOfTime, Talking
  <2>12. ASSUME AgentWorks PROVE HeardInv'
    BY <2>12 DEF AgentWorks, Talking
  <2>13. ASSUME TimerFires PROVE HeardInv'
    BY <2>13 DEF TimerFires, Talking
  <2>14. ASSUME TurnFails PROVE HeardInv'
    BY <2>14 DEF TurnFails, Talking
  <2>15. ASSUME TurnEnds PROVE HeardInv'
    BY <2>15 DEF TurnEnds, Talking
  <2>16. ASSUME PersonThinks PROVE HeardInv'
    BY <2>16 DEF PersonThinks, Listening, Talking
  <2>17. ASSUME PersonReplies PROVE HeardInv'
    BY <2>17 DEF PersonReplies, Listening, Talking
  <2>18. ASSUME ConversationEnds PROVE HeardInv'
    BY <2>18 DEF ConversationEnds, Listening, Talking
  <2>19. ASSUME PersonAbsent PROVE HeardInv'
    BY <2>19 DEF PersonAbsent, Listening, Talking
  <2>20. ASSUME Scores PROVE HeardInv'
    BY <2>20 DEF Scores
  <2>21. CASE UNCHANGED vars
    BY <2>21 DEF vars
  <2>. QED
    BY <2>1, <2>2, <2>3, <2>4, <2>5, <2>6, <2>7, <2>8, <2>9, <2>10, <2>11,
       <2>12, <2>13, <2>14, <2>15, <2>16, <2>17, <2>18, <2>19, <2>20, <2>21
       DEF Next, Polling, AgentTurn, Person
<1>3. HeardInv => PiecesAreHeardOnce
  BY DEF HeardInv
<1>. QED
  BY <1>1, <1>2, <1>3, TypeCorrect, PTL DEF Spec

---------------------------------------------------------------------------
(* Between turns what turnBudget has added up is what the agent worked; in *)
(* a turn, that and what it was given make up the time of the case.        *)
BudgetInv ==
  /\ phase = "preparing" => agent = "silent" /\ worked = 0 /\ spent = 0
  /\ phase = "talking" =>
       /\ agent \in {"silent", "listening"} => worked = spent
       /\ agent = "working" =>
            /\ elapsed <= remaining /\ spent + remaining = Timeout
            /\ worked = spent + elapsed
       /\ agent = "stopping" => elapsed >= remaining /\ worked = Timeout
  /\ BudgetIsTheAgents

(* The agent works for timeoutMs across all of its turns and no longer,    *)
(* and a trial has timed out only when it did.                             *)
THEOREM BudgetsAreKept == Spec => []BudgetIsTheAgents
<1>1. Init => BudgetInv
  BY AgentTrialAssumption DEF Init, BudgetInv, BudgetIsTheAgents
<1>2. TypeOK /\ BudgetInv /\ [Next]_vars => BudgetInv'
  <2>. SUFFICES ASSUME TypeOK, BudgetInv, [Next]_vars PROVE BudgetInv'
    OBVIOUS
  <2>. USE AgentTrialAssumption
       DEF TypeOK, TalkOK, BudgetInv, BudgetIsTheAgents, talk
  <2>1. ASSUME Prints PROVE BudgetInv'
    BY <2>1 DEF Prints
  <2>2. ASSUME Exits PROVE BudgetInv'
    BY <2>2 DEF Exits
  <2>3. ASSUME ReadsStatus PROVE BudgetInv'
    BY <2>3 DEF ReadsStatus, Checking
  <2>4. ASSUME ReadsLog PROVE BudgetInv'
    BY <2>4 DEF ReadsLog, Checking, Breaks
  <2>5. ASSUME FirstChecked PROVE BudgetInv'
    BY <2>5 DEF FirstChecked, Checked, Checking, Concludes, Waits, PrepareFails
  <2>6. ASSUME LoopChecked PROVE BudgetInv'
    BY <2>6 DEF LoopChecked, Checked, Checking, Concludes, Waits, PrepareFails, Report
  <2>7. ASSUME Wakes PROVE BudgetInv'
    BY <2>7 DEF Wakes
  <2>8. ASSUME CheckFails PROVE BudgetInv'
    BY <2>8 DEF CheckFails, Checking, Breaks
  <2>9. ASSUME DeadlinePasses PROVE BudgetInv'
    BY <2>9 DEF DeadlinePasses
  <2>10. ASSUME TurnStarts PROVE BudgetInv'
    BY <2>10 DEF TurnStarts, Talking
  <2>11. ASSUME OutOfTime PROVE BudgetInv'
    <3>1. phase' = "timedOut" /\ UNCHANGED worked
      BY <2>11 DEF OutOfTime
    <3>2. worked = Timeout
      BY <2>11 DEF OutOfTime, Talking
    <3>. QED
      BY <3>1, <3>2
  <2>12. ASSUME AgentWorks PROVE BudgetInv'
    BY <2>12 DEF AgentWorks, Talking
  <2>13. ASSUME TimerFires PROVE BudgetInv'
    BY <2>13 DEF TimerFires, Talking
  <2>14. ASSUME TurnFails PROVE BudgetInv'
    <3>1. phase' \in {"timedOut", "harnessFailed"} /\ UNCHANGED worked
      BY <2>14 DEF TurnFails
    <3>2. phase' = "timedOut" => worked = Timeout
      BY <2>14 DEF TurnFails, Talking
    <3>. QED
      BY <3>1, <3>2
  <2>15. ASSUME TurnEnds PROVE BudgetInv'
    BY <2>15 DEF TurnEnds, Talking
  <2>16. ASSUME PersonThinks PROVE BudgetInv'
    BY <2>16 DEF PersonThinks, Listening, Talking
  <2>17. ASSUME PersonReplies PROVE BudgetInv'
    BY <2>17 DEF PersonReplies, Listening, Talking
  <2>18. ASSUME ConversationEnds PROVE BudgetInv'
    BY <2>18 DEF ConversationEnds, Listening, Talking
  <2>19. ASSUME PersonAbsent PROVE BudgetInv'
    BY <2>19 DEF PersonAbsent, Listening, Talking
  <2>20. ASSUME Scores PROVE BudgetInv'
    BY <2>20 DEF Scores
  <2>21. CASE UNCHANGED vars
    BY <2>21 DEF vars
  <2>. QED
    BY <2>1, <2>2, <2>3, <2>4, <2>5, <2>6, <2>7, <2>8, <2>9, <2>10, <2>11,
       <2>12, <2>13, <2>14, <2>15, <2>16, <2>17, <2>18, <2>19, <2>20, <2>21
       DEF Next, Polling, AgentTurn, Person
<1>3. BudgetInv => BudgetIsTheAgents
  BY DEF BudgetInv
<1>. QED
  BY <1>1, <1>2, <1>3, TypeCorrect, PTL DEF Spec
=============================================================================
