----------------------------- MODULE AgentTrial -----------------------------
(***************************************************************************)
(* One attempt at a trial, from its prepare command to its verdict.  The   *)
(* command runs detached in the sandbox and is polled until it has ended   *)
(* or its deadline has passed.  Then the agent and the person of the case  *)
(* take turns; the agent's turns share one budget of time, and what the    *)
(* person takes is not charged to it.  What was said is scored.            *)
(*                                                                         *)
(* A log is the number of pieces the command has printed, of which the     *)
(* last, before it succeeds, is its result line.  Who owns the sandbox is  *)
(* the matter of SandboxLedger, what becomes of the journal that of        *)
(* Journal, and a worker that dies that of BatchExecution.                 *)
(***************************************************************************)
EXTENDS Naturals

CONSTANTS
  StatusFirst,  \* a poll reads the exit code before the log, as localDetached
                \* does; detachedCommands (Daytona) asks for both at once
  Pieces,       \* what the command prints before it succeeds
  Timeout,      \* timeoutMs of the case
  MaxTurns,
  MaxFaults     \* bound: polls that fail or come back empty

ASSUME AgentTrialAssumption ==
  /\ StatusFirst \in BOOLEAN
  /\ Pieces \in Nat \ {0} /\ Timeout \in Nat \ {0} /\ MaxTurns \in Nat \ {0}
  /\ MaxFaults \in Nat

VARIABLES
  log, exit,    \* the command: what it has printed, how it ended
  phase,        \* of the trial
  reason,       \* why the prepare failed
  step,         \* of the poll
  first,        \* is this the check that precedes the loop?
  got,          \* which of the status and the log this check has read
  status, read, \* and what they were
  fails,        \* tries of this check that failed
  late,         \* has giveUpAt passed?
  reported,     \* how much of the log has been sent to the watcher
  heard,        \* history: how often each piece was sent
  blank,        \* history: has a log come back empty that was not?
  faults,
  user,         \* does the case state a person?
  agent,        \* whose turn it is
  turns,        \* the agent's turns that are over
  elapsed,      \* since the turn's clock was started
  remaining,    \* what this turn was given
  spent,        \* what turnBudget has added up
  worked        \* history: how long the agent was let work

command == <<log, exit>>
check == <<got, status, read, fails>>
watcher == <<reported, heard>>
poll == <<reason, step, first, check, late, watcher, blank, faults>>
talk == <<user, agent, turns, elapsed, remaining, spent, worked>>

vars == <<command, phase, poll, talk>>

Exit == {"none", "ok", "bad"}
Piece == 1..Pieces
Over == {"scored", "unscored", "timedOut", "noUser", "harnessFailed",
         "prepareFailed", "sandboxGone"}

Phase == {"preparing", "talking", "scoring"} \cup Over

CommandOK == log \in 0..Pieces /\ exit \in Exit

PollOK ==
  /\ reason \in {"none", "exit", "timedOut", "noResult"}
  /\ step \in {"checking", "waiting"}
  /\ first \in BOOLEAN
  /\ got \in SUBSET {"status", "log"}
  /\ status \in Exit /\ read \in 0..Pieces
  /\ fails \in 0..3
  /\ late \in BOOLEAN
  /\ reported \in 0..Pieces /\ heard \in [Piece -> Nat]
  /\ blank \in BOOLEAN /\ faults \in 0..MaxFaults

TalkOK ==
  /\ user \in BOOLEAN
  /\ agent \in {"silent", "working", "stopping", "listening"}
  /\ turns \in 0..MaxTurns
  /\ elapsed \in Nat /\ remaining \in 1..Timeout /\ spent \in Nat /\ worked \in Nat

TypeOK == CommandOK /\ PollOK /\ TalkOK /\ phase \in Phase

(* The command has been started; giveUpAt is set and the first check made. *)
Init ==
  /\ log = 0 /\ exit = "none"
  /\ phase = "preparing" /\ reason = "none"
  /\ step = "checking" /\ first = TRUE
  /\ got = {} /\ status = "none" /\ read = 0 /\ fails = 0
  /\ late = FALSE
  /\ reported = 0 /\ heard = [i \in Piece |-> 0]
  /\ blank = FALSE /\ faults = 0
  /\ user \in BOOLEAN
  /\ agent = "silent" /\ turns = 0
  /\ elapsed = 0 /\ remaining = Timeout /\ spent = 0 /\ worked = 0

Breaks == faults < MaxFaults /\ faults' = faults + 1

---------------------------------------------------------------------------
(* The command in the sandbox, whose last word is its result.              *)

Prints ==
  /\ phase = "preparing" /\ exit = "none"
  /\ log < Pieces
  /\ log' = log + 1
  /\ UNCHANGED <<exit, phase, poll, talk>>

Exits ==
  /\ phase = "preparing" /\ exit = "none"
  /\ \/ log = Pieces /\ exit' = "ok"
     \/ exit' = "bad"
  /\ UNCHANGED <<log, phase, poll, talk>>

---------------------------------------------------------------------------
(* ResumableCommands.progress                                              *)

Checking == phase = "preparing" /\ step = "checking"

ReadsStatus ==
  /\ Checking /\ "status" \notin got
  /\ got' = got \cup {"status"} /\ status' = exit
  /\ UNCHANGED <<command, phase, reason, step, first, read, fails, late, watcher, blank, faults, talk>>

(* Mutant: the log is read before the exit code.                           *)
ReadsLogEarly ==
  /\ Checking /\ "log" \notin got
  /\ got' = got \cup {"log"}
  /\ read' = log /\ UNCHANGED <<blank, faults>>
  /\ UNCHANGED <<command, phase, reason, step, first, status, fails, late, watcher, talk>>

(* A log that cannot be read or decoded is taken for an empty one.         *)
ReadsLog ==
  /\ Checking /\ "log" \notin got
  /\ StatusFirst => "status" \in got
  /\ got' = got \cup {"log"}
  /\ \/ read' = log /\ UNCHANGED <<blank, faults>>
     \/ read' = 0 /\ log > 0 /\ blank' = TRUE /\ Breaks
  /\ UNCHANGED <<command, phase, reason, step, first, status, fails, late, watcher, talk>>

(* CHECK_RETRY: both are read again, three times.                          *)
CheckFails ==
  /\ Checking
  /\ Breaks
  /\ IF fails < 3
       THEN fails' = fails + 1 /\ got' = {} /\ UNCHANGED phase
       ELSE phase' = "sandboxGone" /\ UNCHANGED <<fails, got>>
  /\ UNCHANGED <<command, reason, step, first, status, read, late, watcher, blank, talk>>

---------------------------------------------------------------------------
(* pollUntilDone and runPrepare                                            *)

(* What runPrepare makes of the outcome: it fails, or its result is read   *)
(* from the end of its output and the agent is given its first turn.       *)
PrepareFails(why) ==
  phase' = "prepareFailed" /\ reason' = why

Concludes ==
  \/ status = "ok" /\ read = Pieces /\ phase' = "talking" /\ UNCHANGED reason
  \/ status = "ok" /\ read < Pieces /\ PrepareFails("noResult")
  \/ status = "bad" /\ PrepareFails("exit")
  \/ status = "none" /\ PrepareFails("timedOut")

Waits == step' = "waiting" /\ UNCHANGED <<phase, reason>>

Checked == Checking /\ got = {"status", "log"}

(* The check before the loop, of which the watcher is not told.            *)
FirstChecked ==
  /\ Checked /\ first
  /\ IF status = "none" THEN Waits ELSE Concludes /\ UNCHANGED step
  /\ UNCHANGED <<command, first, check, late, watcher, blank, faults, talk>>

(* Mutant: the whole log is sent.                                          *)
ReportAll ==
  /\ reported' = read
  /\ heard' = [i \in Piece |-> IF i <= read THEN heard[i] + 1 ELSE heard[i]]

(* Only the new tail is sent.                                              *)
Report ==
  /\ reported' = read
  /\ heard' = [i \in Piece |-> IF reported < i /\ i <= read THEN heard[i] + 1 ELSE heard[i]]

(* Mutant: the deadline is the provider's to keep.                         *)
LoopCheckedForEver ==
  /\ Checked /\ ~first
  /\ Report
  /\ IF status = "none" THEN Waits ELSE Concludes /\ UNCHANGED step
  /\ UNCHANGED <<command, first, check, late, blank, faults, talk>>

(* A check in the loop; the clock is read after it.                        *)
LoopChecked ==
  /\ Checked /\ ~first
  /\ Report
  /\ IF status = "none" /\ ~late THEN Waits ELSE Concludes /\ UNCHANGED step
  /\ UNCHANGED <<command, first, check, late, blank, faults, talk>>

(* The gap is over, or the provider says that the command has settled.     *)
Wakes ==
  /\ phase = "preparing" /\ step = "waiting"
  /\ step' = "checking" /\ first' = FALSE
  /\ got' = {} /\ fails' = 0
  /\ UNCHANGED <<command, phase, reason, status, read, late, watcher, blank, faults, talk>>

DeadlinePasses ==
  /\ phase = "preparing" /\ ~late
  /\ late' = TRUE
  /\ UNCHANGED <<command, phase, reason, step, first, check, watcher, blank, faults, talk>>

---------------------------------------------------------------------------
(* turnBudget and converse                                                 *)

Talking == phase = "talking"

(* Mutant: each turn is given all of the time.                             *)
TurnStartsAfresh ==
  /\ Talking /\ agent = "silent"
  /\ spent < Timeout
  /\ agent' = "working"
  /\ remaining' = Timeout
  /\ elapsed' = 0
  /\ UNCHANGED <<command, phase, poll, user, turns, spent, worked>>

(* Mutant: a turn that nothing is left for is begun.                       *)
TurnStartsAnyway ==
  /\ Talking /\ agent = "silent"
  /\ agent' = "working"
  /\ remaining' = IF spent < Timeout THEN Timeout - spent ELSE 0
  /\ elapsed' = 0
  /\ UNCHANGED <<command, phase, poll, user, turns, spent, worked>>

(* The harness is run with what is left of the time.                       *)
TurnStarts ==
  /\ Talking /\ agent = "silent"
  /\ spent < Timeout
  /\ agent' = "working"
  /\ remaining' = Timeout - spent
  /\ elapsed' = 0
  /\ UNCHANGED <<command, phase, poll, user, turns, spent, worked>>

(* There is nothing left.                                                  *)
OutOfTime ==
  /\ Talking /\ agent = "silent"
  /\ spent >= Timeout
  /\ phase' = "timedOut"
  /\ UNCHANGED <<command, poll, talk>>

(* The agent works, or waits for a provider that has no capacity.          *)
AgentWorks ==
  /\ Talking /\ agent = "working"
  /\ elapsed < remaining
  /\ elapsed' = elapsed + 1 /\ worked' = worked + 1
  /\ UNCHANGED <<command, phase, poll, user, agent, turns, remaining, spent>>

(* timeoutFail: the turn is interrupted, which takes a while.              *)
TimerFires ==
  /\ Talking /\ agent = "working"
  /\ elapsed = remaining
  /\ agent' = "stopping"
  /\ \E grace \in 0..1 : elapsed' = elapsed + grace
  /\ UNCHANGED <<command, phase, poll, user, turns, remaining, spent, worked>>

(* A turn that fails in its last moment has timed out.                     *)
TurnFails ==
  /\ Talking /\ agent \in {"working", "stopping"}
  /\ spent' = spent + elapsed
  /\ phase' = IF elapsed >= remaining THEN "timedOut" ELSE "harnessFailed"
  /\ UNCHANGED <<command, poll, user, agent, turns, elapsed, remaining, worked>>

(* A turn that is over.  A case without a person has one, and so has one   *)
(* whose harness reports no session to resume.                             *)
TurnEnds ==
  /\ Talking /\ agent = "working"
  /\ spent' = spent + elapsed
  /\ turns' = turns + 1
  /\ \E session \in BOOLEAN :
       IF user /\ (turns > 0 \/ session)
         THEN agent' = "listening" /\ UNCHANGED phase
         ELSE phase' = "scoring" /\ UNCHANGED agent
  /\ UNCHANGED <<command, poll, user, elapsed, remaining, worked>>

Listening == Talking /\ agent = "listening"

(* The person thinks; the clock is only looked at again by the next turn.  *)
PersonThinks ==
  /\ Listening
  /\ elapsed < Timeout
  /\ elapsed' = elapsed + 1
  /\ UNCHANGED <<command, phase, poll, user, agent, turns, remaining, spent, worked>>

(* The person replies; is done, or has used up the turns there are; or     *)
(* could not be reached, of which joining the conversation is a part.      *)
PersonReplies ==
  /\ Listening
  /\ turns < MaxTurns
  /\ agent' = "silent"
  /\ UNCHANGED <<command, phase, poll, user, turns, elapsed, remaining, spent, worked>>

ConversationEnds ==
  /\ Listening
  /\ phase' = "scoring"
  /\ UNCHANGED <<command, poll, talk>>

PersonAbsent ==
  /\ Listening
  /\ turns = 1 \/ turns < MaxTurns
  /\ phase' = "noUser"
  /\ UNCHANGED <<command, poll, talk>>

(* The scorer gives a verdict, or something the score rests on fails.      *)
Scores ==
  /\ phase = "scoring"
  /\ phase' \in {"scored", "unscored"}
  /\ UNCHANGED <<command, poll, talk>>

---------------------------------------------------------------------------
Polling ==
  ReadsStatus \/ ReadsLog \/ FirstChecked \/ LoopChecked \/ Wakes

AgentTurn == TurnStarts \/ OutOfTime \/ AgentWorks \/ TimerFires \/ TurnFails \/ TurnEnds

Person == PersonReplies \/ ConversationEnds \/ PersonAbsent

Next ==
  \/ Prints \/ Exits
  \/ Polling \/ CheckFails \/ DeadlinePasses
  \/ AgentTurn
  \/ PersonThinks \/ Person
  \/ Scores

Spec == Init /\ [][Next]_vars

(* Time passes, the trial goes on when it can, and whoever is asked to     *)
(* reply or to score does, if only with an error.  Nothing says that the   *)
(* command or the agent ever comes to an end.                              *)
Fairness ==
  /\ WF_vars(Polling) /\ WF_vars(DeadlinePasses)
  /\ WF_vars(TurnStarts \/ OutOfTime \/ AgentWorks \/ TimerFires)
  /\ WF_vars(agent = "stopping" /\ TurnFails)
  /\ WF_vars(Person) /\ WF_vars(Scores)

FairSpec == Spec /\ Fairness

---------------------------------------------------------------------------
(* A prepare that succeeded is not failed for want of the result it has    *)
(* printed (a test of long commands: "reports what the command finally     *)
(* wrote"), unless its log could not be read.  Holds when the exit code is *)
(* read first.                                                             *)
ResultIsRead == reason = "noResult" => blank

(* The watcher is sent each piece of the log at most once, and none before *)
(* those it follows, however the polls fall and fail; a log that comes     *)
(* back empty is sent again from its beginning.                            *)
PiecesAreHeardOnce ==
  ~blank => \A i \in Piece : heard[i] = IF i <= reported THEN 1 ELSE 0

(* cases.mdx: timeoutMs is how long the agent may work across all of a     *)
(* trial's turns, the person's time does not count, and past it the trial  *)
(* has timed out.  No agent works longer, and no trial is called timed out *)
(* whose agent could have gone on.                                         *)
BudgetIsTheAgents ==
  /\ worked <= Timeout
  /\ phase = "timedOut" => worked = Timeout

(* A trial comes to an end, whatever the command and the agent do.         *)
TrialConcludes == <>(phase \in Over)
=============================================================================
