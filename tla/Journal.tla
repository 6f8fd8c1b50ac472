------------------------------ MODULE Journal ------------------------------
(***************************************************************************)
(* The journal of one trial.  An attempt at the trial hears events from    *)
(* its harness and its mock APIs and appends them, in chunks, to eval_event*)
(* under consecutive seqs; when it ends it looks at whether a chunk was    *)
(* lost, and a trial with a lost chunk is void.  Cold journals are folded  *)
(* into one eval_trial_journal row by every server; a reader asks for the  *)
(* rows and, when there are none, for the archive.                         *)
(*                                                                         *)
(* The attempts at a trial are taken one after the other: that two servers *)
(* may be at the same trial is BatchExecution's subject.                   *)
(***************************************************************************)
EXTENDS EvalRows, Naturals, Sequences

CONSTANTS
  Server,         \* each sweeps for cold journals
  Reader,
  MaxAttempts,    \* bound: how often the trial is opened
  MaxEvents,      \* bound: what one attempt hears
  MaxChunk,       \* PROGRESS_BATCH, 32 in the code
  Tries,          \* how often a chunk is sent, 5 in the code
  MaxFaults,      \* bound: lost answers, refusals and rolled back sweeps
  Races           \* may a trial be opened while it is being compacted?

ASSUME JournalAssumption ==
  /\ MaxAttempts \in Nat /\ MaxEvents \in Nat /\ MaxChunk \in Nat
  /\ Tries \in Nat /\ MaxFaults \in Nat
  /\ Races \in BOOLEAN

(* The n-th event an attempt hears.                                        *)
Event == [attempt : 1..MaxAttempts, n : 1..MaxEvents]

(* The place of a seq no row has, below one that a row has.                *)
Hole == [attempt |-> 0, n |-> 0]

VARIABLES
  trial,        \* the row in eval_trial
  rows,         \* eval_event: the row of seq n is at place n + 1
  archive,      \* eval_trial_journal; empty: no row
  aged,         \* is every row older than the hot window?
  attempt,      \* how often the trial was opened
  phase,        \* of the attempt: none, running, closing
  heard,        \* what has come through the sink
  chunk,        \* what the sink is about to record
  tried,        \* how often it was sent
  reported,     \* the sink's offset
  lost,         \* was a chunk given up?
  verdict,      \* of a closing attempt: scored, void, failed
  stood,        \* history: what had been heard when the verdict was reached
  compaction,   \* per server, its transaction
  asking,       \* per reader: is it between its two statements?
  floor,        \* history: what it is not to be answered less than
  answer,       \* per reader, what listByTrials returned
  faults

store == <<trial, rows, archive, aged>>
sink == <<heard, chunk, tried, reported, lost>>
ending == <<phase, verdict, stood>>
reading == <<asking, floor, answer>>

vars == <<store, sink, ending, attempt, compaction, reading, faults>>

Idle == [step |-> "idle", copy |-> <<>>]

TypeOK ==
  /\ trial \in TrialRow
  /\ rows \in Seq(Event \cup {Hole})
  /\ archive \in Seq(Event \cup {Hole})
  /\ aged \in BOOLEAN
  /\ attempt \in 0..MaxAttempts
  /\ phase \in {"none", "running", "closing"}
  /\ phase # "none" => attempt > 0
  /\ phase = "closing" => verdict # "none"
  /\ heard \in Seq(Event)
  /\ chunk \in Seq(Event)
  /\ chunk # <<>> => phase # "none"
  /\ tried \in Nat
  /\ reported \in Nat
  /\ lost \in BOOLEAN
  /\ verdict \in {"none", "scored", "void", "failed"}
  /\ stood \in Seq(Event)
  /\ compaction \in [Server -> [step : {"idle", "chosen", "copied"},
                                copy : Seq(Event \cup {Hole})]]
  /\ asking \in [Reader -> BOOLEAN]
  /\ floor \in [Reader -> Nat]
  /\ answer \in [Reader -> Seq(Event \cup {Hole})]
  /\ faults \in 0..MaxFaults

Init ==
  /\ trial = NoTrial
  /\ rows = <<>> /\ archive = <<>> /\ aged = FALSE
  /\ attempt = 0
  /\ phase = "none" /\ verdict = "none" /\ stood = <<>>
  /\ heard = <<>> /\ chunk = <<>> /\ tried = 0 /\ reported = 0 /\ lost = FALSE
  /\ compaction = [s \in Server |-> Idle]
  /\ asking = [r \in Reader |-> FALSE]
  /\ floor = [r \in Reader |-> 0]
  /\ answer = [r \in Reader |-> <<>>]
  /\ faults = 0

(* What the trial has journalled.                                          *)
Log == IF rows # <<>> THEN rows ELSE archive

(* The rows or the archive, as one log.                                    *)
TL ==
  INSTANCE TrialLog
    WITH log <- Log, asked <- {r \in Reader : asking[r]}, Event <- Event \cup {Hole}

---------------------------------------------------------------------------
(* The attempt.                                                            *)

Compacting == \E s \in Server : compaction[s].step # "idle"

(* Mutant: the archive of an earlier attempt is not deleted.               *)
OpenKeepingArchive ==
  /\ phase = "none"
  /\ attempt < MaxAttempts
  /\ Races \/ ~Compacting
  /\ trial' = Opened(trial)
  /\ rows' = <<>> /\ aged' = FALSE
  /\ attempt' = attempt + 1
  /\ phase' = "running" /\ verdict' = "none" /\ stood' = <<>>
  /\ heard' = <<>> /\ chunk' = <<>> /\ tried' = 0 /\ reported' = 0 /\ lost' = FALSE
  /\ floor' = [r \in Reader |-> 0]
  /\ UNCHANGED <<archive, compaction, asking, answer, faults>>

(* TrialRecorder.open, one transaction: the trial runs, and what an        *)
(* earlier attempt left of a journal is deleted.                           *)
Open ==
  /\ phase = "none"
  /\ attempt < MaxAttempts
  /\ Races \/ ~Compacting
  /\ trial' = Opened(trial)
  /\ rows' = <<>> /\ archive' = <<>> /\ aged' = FALSE
  /\ attempt' = attempt + 1
  /\ phase' = "running" /\ verdict' = "none" /\ stood' = <<>>
  /\ heard' = <<>> /\ chunk' = <<>> /\ tried' = 0 /\ reported' = 0 /\ lost' = FALSE
  /\ floor' = [r \in Reader |-> 0]
  /\ UNCHANGED <<compaction, asking, answer, faults>>

(* Stream.groupedWithin: the next few events the harness emits, or the     *)
(* calls the mock APIs have recorded, reach the sink together.  The        *)
(* finalizer of the attempt still collects calls once the verdict is       *)
(* reached.                                                                *)
Hear(k) ==
  /\ phase # "none"
  /\ chunk = <<>>
  /\ Len(heard) + k <= MaxEvents
  /\ chunk' = [i \in 1..k |-> [attempt |-> attempt, n |-> Len(heard) + i]]
  /\ tried' = 0
  /\ UNCHANGED <<store, heard, reported, lost, ending, attempt, compaction, reading, faults>>

Larger(m, n) == IF m > n THEN m ELSE n

(* TrialRecorder.append: INSERT ... ON CONFLICT (trial, seq) DO NOTHING.   *)
Inserted(from, events) ==
  [i \in 1..Larger(Len(rows), from + Len(events)) |->
     IF i <= Len(rows) /\ rows[i] # Hole THEN rows[i]
     ELSE IF i > from /\ i <= from + Len(events) THEN events[i - from] ELSE Hole]

Insert ==
  /\ rows' = Inserted(reported, chunk)
  /\ aged' = (aged /\ rows' = rows)
  /\ UNCHANGED <<trial, archive>>

(* The stream goes on to the harness' reader with the chunk, recorded or   *)
(* not.                                                                    *)
PassOn ==
  /\ heard' = heard \o chunk
  /\ chunk' = <<>>
  /\ tried' = 0

(* Mutant: the offset stays where it was.                                  *)
RecordedInPlace ==
  /\ chunk # <<>>
  /\ Insert
  /\ PassOn
  /\ UNCHANGED <<reported, lost, ending, attempt, compaction, reading, faults>>

(* record: the append is answered.                                         *)
Recorded ==
  /\ chunk # <<>>
  /\ Insert
  /\ PassOn
  /\ reported' = reported + Len(chunk)
  /\ UNCHANGED <<lost, ending, attempt, compaction, reading, faults>>

(* The append fails, whether the store refused it or only its answer was   *)
(* lost.                                                                   *)
Fails ==
  /\ chunk # <<>>
  /\ faults < MaxFaults
  /\ faults' = faults + 1
  /\ Insert \/ UNCHANGED store

(* It is sent again, from the same offset.                                 *)
Retries ==
  /\ Fails
  /\ tried + 1 < Tries
  /\ tried' = tried + 1
  /\ UNCHANGED <<heard, chunk, reported, lost, ending, attempt, compaction, reading>>

(* Mutant: a chunk is given up and the journal is not marked.              *)
GivesUpQuietly ==
  /\ Fails
  /\ tried + 1 >= Tries
  /\ PassOn
  /\ UNCHANGED <<lost, reported, ending, attempt, compaction, reading>>

(* It was sent often enough: the journal is lost, the offset stays where   *)
(* it was.                                                                 *)
GivesUp ==
  /\ Fails
  /\ tried + 1 >= Tries
  /\ PassOn
  /\ lost' = TRUE
  /\ UNCHANGED <<reported, ending, attempt, compaction, reading>>

(* The scorer has reached a verdict and the last calls are collected; then *)
(* `lost` is read.                                                         *)
Score ==
  /\ phase = "running"
  /\ chunk = <<>>
  /\ phase' = "closing"
  /\ \E v \in {"scored", "void"} : verdict' = IF lost THEN "void" ELSE v
  /\ stood' = heard
  /\ UNCHANGED <<store, sink, attempt, compaction, reading, faults>>

(* The attempt fails, in a turn, with a chunk at hand or not, which is then*)
(* not reported, recorded or not.                                          *)
Fail ==
  /\ phase = "running"
  /\ phase' = "closing"
  /\ verdict' = "failed"
  /\ PassOn
  /\ UNCHANGED <<store, reported, lost, stood, attempt, compaction, reading, faults>>

(* TrialRecorder.settle, or abandon when the attempt failed.               *)
Settle ==
  /\ phase = "closing"
  /\ chunk = <<>>
  /\ trial' = IF verdict = "failed" THEN Abandoned(trial) ELSE SettledAs(trial, verdict)
  /\ phase' = "none"
  /\ UNCHANGED <<rows, archive, aged, sink, verdict, stood, attempt, compaction, reading, faults>>

(* The server dies, or cannot reach the store at the end.                  *)
Crash ==
  /\ phase # "none"
  /\ phase' = "none" /\ verdict' = "none" /\ stood' = <<>>
  /\ heard' = <<>> /\ chunk' = <<>> /\ tried' = 0 /\ reported' = 0 /\ lost' = FALSE
  /\ UNCHANGED <<store, attempt, compaction, reading, faults>>

(* The sweep takes up a trial whose server died: six hours are longer than *)
(* an attempt.                                                             *)
Sweep ==
  /\ trial.status = "running"
  /\ phase = "none"
  /\ trial' = Swept(trial)
  /\ UNCHANGED <<rows, archive, aged, sink, ending, attempt, compaction, reading, faults>>

---------------------------------------------------------------------------
(* Compaction, one READ COMMITTED transaction per server and sweep.  Its   *)
(* statements each see what is committed when they run; what they write is *)
(* seen by others at once, at its end.                                     *)

Age ==
  /\ rows # <<>>
  /\ ~aged
  /\ aged' = TRUE
  /\ UNCHANGED <<trial, rows, archive, sink, ending, attempt, compaction, reading, faults>>

(* Mutant: a trial still running is a candidate.                           *)
ChooseAny(s) ==
  /\ compaction[s].step = "idle"
  /\ rows # <<>> /\ aged
  /\ compaction' = [compaction EXCEPT ![s].step = "chosen"]
  /\ UNCHANGED <<store, sink, ending, attempt, reading, faults>>

(* Mutant: only a trial with a verdict is a candidate.                     *)
ChooseScored(s) ==
  /\ compaction[s].step = "idle"
  /\ trial.status = "scored"
  /\ rows # <<>> /\ aged
  /\ compaction' = [compaction EXCEPT ![s].step = "chosen"]
  /\ UNCHANGED <<store, sink, ending, attempt, reading, faults>>

(* The candidates: settled, and no event inside the hot window.            *)
Choose(s) ==
  /\ compaction[s].step = "idle"
  /\ Settled(trial)
  /\ rows # <<>> /\ aged
  /\ compaction' = [compaction EXCEPT ![s].step = "chosen"]
  /\ UNCHANGED <<store, sink, ending, attempt, reading, faults>>

(* The rows of the candidates.  Another server may have moved them: the    *)
(* trial is then left out.                                                 *)
Copy(s) ==
  /\ compaction[s].step = "chosen"
  /\ compaction' = [compaction EXCEPT ![s] =
                      IF rows = <<>> THEN Idle ELSE [step |-> "copied", copy |-> rows]]
  /\ UNCHANGED <<store, sink, ending, attempt, reading, faults>>

(* The upsert of the archive and the DELETE of every row of the trial.     *)
Replace(s) ==
  /\ compaction[s].step = "copied"
  /\ archive' = compaction[s].copy
  /\ rows' = <<>> /\ aged' = FALSE
  /\ compaction' = [compaction EXCEPT ![s] = Idle]
  /\ UNCHANGED <<trial, sink, ending, attempt, reading, faults>>

RollBack(s) ==
  /\ compaction[s].step # "idle"
  /\ faults < MaxFaults
  /\ faults' = faults + 1
  /\ compaction' = [compaction EXCEPT ![s] = Idle]
  /\ UNCHANGED <<store, sink, ending, attempt, reading>>

---------------------------------------------------------------------------
(* EventRepository.listByTrials, two statements.                           *)

(* Mutant: the archive is not asked.                                       *)
ReadRowsOnly(r) ==
  /\ ~asking[r]
  /\ answer' = [answer EXCEPT ![r] = rows]
  /\ UNCHANGED <<store, sink, ending, attempt, compaction, asking, floor, faults>>

(* The rows, and they are the answer when there are any.                   *)
ReadRows(r) ==
  /\ ~asking[r]
  /\ IF rows # <<>>
       THEN /\ answer' = [answer EXCEPT ![r] = rows]
            /\ UNCHANGED <<asking, floor>>
       ELSE /\ asking' = [asking EXCEPT ![r] = TRUE]
            /\ floor' = [floor EXCEPT ![r] = Len(Log)]
            /\ UNCHANGED answer
  /\ UNCHANGED <<store, sink, ending, attempt, compaction, faults>>

(* The archive.                                                            *)
ReadArchive(r) ==
  /\ asking[r]
  /\ answer' = [answer EXCEPT ![r] = archive]
  /\ asking' = [asking EXCEPT ![r] = FALSE]
  /\ UNCHANGED <<store, sink, ending, attempt, compaction, floor, faults>>

---------------------------------------------------------------------------
Next ==
  \/ Open \/ Recorded \/ Retries \/ GivesUp
  \/ \E k \in 1..MaxChunk : Hear(k)
  \/ Score \/ Fail \/ Settle \/ Crash \/ Sweep \/ Age
  \/ \E s \in Server : Choose(s) \/ Copy(s) \/ Replace(s) \/ RollBack(s)
  \/ \E r \in Reader : ReadRows(r) \/ ReadArchive(r)

Spec == Init /\ [][Next]_vars

(* Time passes and every server sweeps, each half hour, whatever became of *)
(* the last sweep.                                                         *)
Fairness ==
  /\ WF_vars(Age)
  /\ \A s \in Server : WF_vars(Choose(s)) /\ WF_vars(Copy(s)) /\ WF_vars(Replace(s))

FairSpec == Spec /\ Fairness

---------------------------------------------------------------------------
(* A verdict that counts rests on a journal that holds all the attempt     *)
(* heard before it was reached, in the order it was heard: whatever was    *)
(* refused, retried, recorded without an answer, or archived since         *)
(* (agent-trial.ts: a journal with a hole in it cannot support a verdict). *)
VerdictStandsOnJournal ==
  trial.status = "scored" => TL!Begins(stood, Log)

(* Whatever was given up, sent twice, dropped by a failure or archived     *)
(* since, what the journal shows is of the last attempt alone, in the      *)
(* order it was heard, and nothing of it twice: seqs are handed out again  *)
(* when a chunk is given up, and ON CONFLICT DO NOTHING keeps the first.   *)
LogIsTheAttempts ==
  \A i \in 1..Len(Log) :
    /\ Log[i].attempt = attempt
    /\ \A j \in 1..Len(Log) : i < j => Log[i].n < Log[j].n

(* A trial has rows or an archive and never both, or a reader would be     *)
(* shown the archive of an earlier attempt (event-repository.ts: a hot     *)
(* journal never has an archive).                                          *)
HotJournalHasNoArchive == rows = <<>> \/ archive = <<>>

(* Rows or archive, the journal is one log that only grows until the trial *)
(* is opened again, and a reader whose two statements have a compaction    *)
(* between them is answered with no less than was there when it asked.     *)
ImplementsTrialLog == TL!Spec

(* Who asks again sees all he has seen of this attempt and perhaps more,   *)
(* wherever the journal was moved between or in the middle of his reads.   *)
ReadersLoseNothing ==
  [][\A r \in Reader :
       answer[r] # <<>> /\ answer[r][1].attempt = attempt => TL!Begins(answer[r], answer'[r])]_vars

(* Each attempt is the only one at the trial, and gives it its verdict,    *)
(* whatever becomes of its journal.                                        *)
AtHand == IF phase = "none" THEN {} ELSE {attempt}

Life ==
  INSTANCE TrialLife
    WITH Trial <- {"trial"}, Worker <- 1..MaxAttempts, Verdict <- {"scored", "void"},
         row <- [t \in {"trial"} |-> trial.status], owners <- [t \in {"trial"} |-> AtHand],
         doomed <- {}

ImplementsTrialLife == Life!Spec

(* The rows of a settled trial do not stay in eval_event for good: with    *)
(* sweeps that fail and two servers at the same trial they are archived,   *)
(* unless the trial is opened again.                                       *)
ColdJournalIsArchived ==
  (Settled(trial) /\ rows # <<>>) ~> (rows = <<>>)
=============================================================================
