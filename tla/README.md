# Sphynx: a verification of its eval platform

Sphynx runs coding agents against cases a team has written, in sandboxes it rents, scores what they did and keeps
the record. This directory holds TLA+ specifications of the parts in which several processes write the same rows,
the TLC configurations that check them on small instances, and theorems that hold for every instance, proved with
TLAPS. Paths below are relative to `src/`; those without a directory are in `packages/eval/src`.

## 1. The system

| Component | State | Operations | Shares state with |
| --- | --- | --- | --- |
| Batch admission: `batch/start-batch.ts`, `batch/in-flight.ts`, `batch/launch.ts`, `repositories/batch-admission.ts` | `eval_batch` rows, an advisory lock per organization | start, run a case, re-run a suite | every server; the runner |
| Batch execution: `batch/execute-batch.ts`, `batch/trial.ts`, `repositories/trial-record.ts`, `repositories/batch-repository.ts` | status and failure of batch, run and trial rows | execute, run a trial, finish | worker processes; reconciler |
| Runner: `adapters/runner/*`, `apps/worker` | the task queue of Trigger.dev (external) or forked fibers | dispatch; deliver, retry, kill after an hour | admission, execution |
| Reconciler: `services/reconciler.ts`, `repositories/abandoned-work.ts` | none of its own | void stale trials, fail stale runs, fail stale batches, fail quiet local batches | all of the rows |
| Sandbox lifecycle: `services/sandbox-provider.ts`, `services/agent-trial.ts` | what a provider has rented out (external), `eval_trial.sandbox_id` | open, attach, tear down, leave | reaper |
| Sandbox reaper: `services/sandbox-reaper.ts`, `repositories/live-sandboxes.ts` | none of its own | read, destroy, clear | lifecycle |
| Local batches: `batch/report.ts`, `packages/sdk/src/cli` | the same rows, `last_seen_at` | report a trial, finish, beat, lease credentials | a developer's machine; reconciler |
| Trial journal: `services/trial-progress-sink.ts`, `repositories/event-repository.ts`, `repositories/journal-archive.ts` | `eval_event`, `eval_trial_journal` | append from an offset, compact, read | execution, readers |
| Trial outcome: `domain/trial.ts`, `domain/validation-plan.ts` | none (pure) | which evidence makes a trial passed, failed or void | execution |
| Conversation: `services/conversation.ts`, `services/turn-budget.ts`, `services/polled-command.ts`, `adapters/sandbox/*-detached.ts` | deadlines, what was spent | polls, turns | sandboxes, the person of a case |
| Prompts: `packages/prompts` | versions, channels and their revisions | author, publish, move a channel | cache |
| Prompt resolution and cache: `packages/prompts/src/services/prompt-resolution.ts`, `packages/cache`, `packages/sdk/src/client/cache` | Redis keys, a client's memory | read through, invalidate, revalidate | publishing |
| The rest: auth, billing, notifications, ids, templates, db, server, MCP server, web, docs | | thin layers, schema, routing, user interface | |

Everything an instance shares with another is a row of Postgres, and nearly every write is a statement of its own.
The hard behaviour is therefore in what happens between two statements: a server (`DEPLOY.md` runs two or more) and
a worker, a worker and the sweep of a server, two starts of one organization, a killed attempt and its retry. `PROJECT.json` lists these hazards at
the line where each bites; those that no property covers carry a note.

What makes each component correct, in one line: *admission*, a key starts one batch and starts respect the limit;
*execution*, who works on a row is who the row says, verdicts and terminal statuses stand, and everything is
closed in the end; *lifecycle and reaper*, no sandbox at work is destroyed and none that is rented is forgotten;
*local batches*, what was reported stays, what was not shows as void, and machine and server each learn that the other
is gone; *journal*, a verdict rests on all the attempt heard and readers see one growing log; *conversation*, a result that
was printed is read, and only the agent's time is charged; *prompts*, versions are numbered once, a channel has one first move
and every other comes from a version it was at, and a published version is what a client soon sees.

## 2. The modules

| Module | What it is |
| --- | --- |
| `EvalRows` | The batch, run and trial rows, and what each statement makes of one, as operators on a row |
| `BatchExecution` | One hosted batch: hand-over, deliveries of the task, the reconciler of every server |
| `SandboxLedger` | One trial's sandboxes: attempts, the provider, the reaper of every server |
| `StartOnce` | Abstract: what a start promises, in single steps |
| `Admission` | The start of a batch as the servers carry it out; implements `StartOnce` |
| `TrialLog` | Abstract: what a trial's journal promises its readers |
| `TrialLife` | Abstract: what becomes of a trial, whoever runs it |
| `Journal` | Appends, verdict, compaction on every server and readers of one trial's journal; implements `TrialLog` |
| `LocalBatch` | A batch run by a developer's machine, the handlers it calls, and the sweep of quiet batches |
| `Prompts` | One prompt: writers, the channel's placement, Redis, and the clients' caches |
| `AgentTrial` | One attempt at a trial: the polled prepare command, the turns on their budget, the score |
| `MC*` | Values of the constants for TLC |
| `*Proofs` | The theorems about a module |

`BatchExecution`, `LocalBatch` and `Journal` extend `EvalRows`, so they agree about what `open`, `settle`, `abandon`, `settleRun`,
`finish` and the sweep do to a row. `SandboxLedger`, `Journal` and `AgentTrial` look at one attempt from three sides and take from
`BatchExecution` that the attempts at a trial follow one another.

**TrialLife.** The one abstraction all of them share. A trial has a status and those at work on it. A worker opens a trial nobody is at work on, and only
that worker concludes it; a worker may be lost without a word, and a trial without worker and verdict may be voided. Who voids finds the trial first and may write it
later, whatever has become of it: until then the trial is `doomed`, and promised nothing. A trial gets there only while it is running and nobody is at work on it. From this follow, as theorems of
`TrialLifeProofs`, that a trial has one worker at most (`OneWorker`) and is running while it has one if nothing is ever found (`RunsAtWork`); that a running trial at work which is not doomed stays so, and is left to its worker until that
worker concludes it or is lost (`LeftAlone`); and that the verdict of a trial that is not doomed stands until it is opened again and, unless it is a void, is its worker's (`LastWord`). Four modules map to it:

| Module | the trial | at work on it | found and not yet voided |
| --- | --- | --- | --- |
| `BatchExecution` | `trial[t].status` | the deliveries whose fiber is past `open` and not yet over (`task[d][t] = "working"`) | what the sweep of any server has found (`found[s]`) |
| `LocalBatch` | `trial[t].status` | the handler of a report between its `open` and its `settle` (`report[t] = "opened"`) | never |
| `SandboxLedger` | `status` | the attempt from `open` until it settles or fails | never |
| `Journal` | `trial.status` | the attempt under way | never |

What a step of these modules does besides is a stutter of `TrialLife`: a retried statement, a check-in, a sandbox, a chunk. In `SandboxLedger` and `Journal` that attempts follow one another is
a guard, taken from `BatchExecution`. These two and `LocalBatch` have the two statements of the reconciler in one step: what comes between them is left to `BatchExecution`, where each is a step of its own. For the ledger and the journal the mapping says that neither the reaper, nor a compaction, nor what an attempt leaves behind disturbs this.

**BatchExecution.** A delivery is one attempt of the `eval-run` task. `pc[d]` is the place in `execute`, `leg[d][r]`
the place in `runOne`, `task[d][t]` the place in `runTrial`; `leg` and `task` are the memory of the attempt and go
with it. Each action is one statement on the database, because that is where processes interleave: `CheckActive`
and `Reopen` are separate, so are `SweepReads` and `SweepVoids`. A statement may fail unapplied or fail after it was
applied (the `...Errs` and `...Lost` actions, at most `MaxFaults`), a delivery may be killed anywhere (`Stop`), a trial
may die of a defect (`TrialDies`) and take its siblings with it, and a settle may arrive after the finalizer that followed
it (`SettleOvertaken`, under `Orphans`). What a sweep has found it voids by id, whatever the row is by then, and each server has a sweep of its own. The second delivery that `CheckActive` refuses fails the batch through
`tapErrorCause`, as the code does. It ends aborted, or errored and tried again: `AbortTaskRunError` may be wrapped by then.

**SandboxLedger.** `recorded` is `eval_trial.sandbox_id`, `alive` what the provider really has. `Rent` and `Attach` are
two steps with a crash between them; `Release` may fail, which leaves the sandbox for the reaper. The reaper's read,
destroy and clear are three steps, and `clear` writes whatever trial row it read, even one that was opened again. `excused` is a history
variable: it remembers that something happened for which the design offers no remedy (a refusal to destroy when an
attempt starts or gives up, a failed attach, a crash between rent and attach, an attempt that opens while a reaper is busy
with its row). `Accounted` says that short of those nothing is lost.

**Admission.** `pc[r]` walks through `start-batch.ts`: `Look` for the key, the first count (`Admit`), then the transaction:
`Lock`, `CheckKey`, `Count` and `Insert`, each read with a snapshot of its own as under READ COMMITTED. Postgres releases
the advisory lock after the commit, so the insert and the release are one step. `Race` is `replayRaced`. `Dispatch` hands
the batch over, `DispatchFails` and `FailBatch` are `launch.ts`'s error path, and `Fail` is any error or death of the server. Every
request may be on a server of its own. Requests outside `Limited` are `evals.cases.run`, which passes no limit; those outside
`Hosted` start a local batch, which is inserted but not handed over. `Close` and
`Reopen` are what BatchExecution does to the batch. A collision of `hashtext` between two organizations only makes them wait for each other
and is left out, and so is a key whose row has no hash, from before hashes were stored.

**Journal.** `rows` is `eval_event`, the row of seq *n* at place *n* + 1 and `Hole` where there is none; `archive` is the
`eval_trial_journal` row. `Hear` is a chunk that `groupedWithin` hands to the sink. The sink (`trial-progress-sink.ts`) sends it
from its offset: `Recorded`, or `Retries` and at last `GivesUp`, each failure with the insert applied or not, which is how a lost answer and a
refusal differ. `ON CONFLICT DO NOTHING` is in `Inserted`: a row that is there stays. A statement the sender has given up on is assumed to have been applied
by then or not at all. `Score` reads `lost` once the last calls are collected; what a finalizer appends after that is outside the verdict, and `stood`
remembers what was inside. `Choose`, `Copy` and `Replace` are the three statements of a compaction, on every server. `Age` may come at any time: an attempt may be quiet for
longer than the hot window, and only the status of the trial keeps its journal hot. A trial is not opened between the statements of a
compaction unless `Races` says so; the hot window is 30 days by default, so this takes a retry of a batch that is a month old.

**LocalBatch.** `machine`, `slot` and `result` are the CLI's (`recorded-run.ts`), `report`, `beat` and `finish` are the places of the
handlers in `batch/report.ts`, `sweep` is the transaction of `failQuietLocalBatches`. A handler breaks off between any two
statements (`...Breaks`), whether its server dies or its client hangs up. The client sends a report again when it was not answered, and
an older handler of the same report is assumed over by then. `FinishLooks` to `FinishCloses` are the statements of `finish`, of which the run and the unreported trials are one
transaction and the batch another. `finish` is answered with success even if the sweep failed the batch in between, as in the code. The
runs of a batch open and close in the same statements, so one run stands for all. `CutOff` is a machine without a network, `Stopped` a Ctrl+C,
`Gone` a crash or a client that gave up. `SweepVoids`, `RunExpires` and `BatchExpires` are the other three statements of the reconciler, of which the last two
close a batch after six hours whether or not its machine checks in (`SixHours`).

**Prompts.** `Save` and `SaveInserts` are the read of the newest number and the insert under the unique index; `MoveReads` and
`MoveWrites` are `movePromptChannel`, whose read takes no lock and whose writes are one transaction; `MoveCollides` is the second of two first
placements, which meets the index. `left` is what a writer still has to delete from Redis, key by key as `SCAN` finds them. A reader is a
client's request: `LookUp`, `Read`, `Fill`, `Arrive`. What a client keeps grows old after 15 seconds, when it is still used and
asked for again, and ancient after a day. `text` counts how often a version was written, because `updateVersion` overwrites one. `excused` names
the keys that Redis may keep wrongly: a deletion was not made (the writer broke off, or Redis could not be reached, or the move collided after the version was
saved), or an answer was read before a change and kept after its deletion. What the library behind the client's cache does with a held entry when a
refresh fails is left open: it stays or it goes. The transaction is placed at the statement that takes its lock.
The `events` are a set: the log is read by `createdAt` (`prompt-event-list-query.ts:76`), which `publishVersion` takes from the clock before its transaction, so the order of the commits is not in it, and no property relies on one.

**AgentTrial.** `Prints` and `Exits` are the command in the sandbox; its last piece is the result line. `ReadsStatus` and `ReadsLog` are the two reads of a
poll, in order in `local-detached.ts` and both at once in `daytona-detached.ts` (`StatusFirst`). `CheckFails` is `CHECK_RETRY`. A log that cannot be read comes
back empty (`blank`), after which the watcher is sent the log again from its beginning. `late` is the clock that has passed `giveUpAt`. A command that is over at the first
check is never sent to the watcher. The agent's turns are ticks of one budget; the wait for a provider without capacity, up to four tries, is the
agent's time; `stopping` is a turn that `timeoutFail` is interrupting, which may take longer than was left. A harness that reports no session is scored after its
first turn even when the case states a person. The person and the scorer are external: they answer, or fail.

## 3. What is checked

| Run | Question | Answer |
| --- | --- | --- |
| `batch_exclusive` | Deliveries one after another, a failing statement, overtaken statements, a defect, kills and the sweeps of two servers | refines TrialLife: only what a sweep had in hand is taken from a worker; a verdict beside a failure has one of two causes; a finished batch rests, a finished run has a verdict |
| `batch_closes` | Kills, losses, refusals and overtaken statements anywhere | trials, runs and batch close, terminal statuses are final |
| `batch_servers` | Does the sweep of two servers spare live trials? | no (see 5) |
| `ledger_kept` | Two attempts, two reapers, every refusal | no sandbox at work destroyed, none lost unexcused, every row drains |
| `ledger_left` | Is a sandbox left for the reaper found by it? | no |
| `admission_start` | A request, its retry, a reuse of its key, a keyless start | one batch per key, one answer, the limit kept by the starts it is for, all answered, refines StartOnce |
| `journal_kept` | Two attempts, refused and lost appends, two compacting servers, a reader | verdicts rest on what was heard, a journal shows the last attempt in order, readers lose nothing they saw, refines TrialLog, cold journals are archived |
| `local_kept` | Two reports, check-ins, finish and a sweep, with everything broken off | reports stand, closed batches are whole, both sides learn of the other, refines TrialLife |
| `local_shown` | Is a trial said to be void not running once its batch is closed? | no |
| `prompts_reach` | Two writers, one reader, both caches, failing deletions | numbers unique, no draft served, one first move, staleness excused and passing |
| `trial_kept` | A polled command and a conversation, nothing of which need ever end | result read, pieces sent once, budget the agent's, the trial ends |
| `trial_torn` | Is the result read when status and log are asked for at once? | no |

Each property of a passing run has a mutant in its module, an operator with a plausible bug that the run must catch.
The type invariants of all modules are proved for every instance, and checked in the runs
where they say more than types, as that a turn has time left.

**Bounds.** *Batch*: two deliveries (a kill and its retry), two trials, in two runs or in one, one fault; two servers in `batch_exclusive`, so that one voids what the other has voided already and a retry has opened.
Every interaction here is between two writers of one row plus one lost statement, and the second trial is there to see
damage spread. `batch_exclusive` has room for both runs and comes to 828,000 states; `batch_closes` has one run of two trials, so that one trial is waiting or over when the other dies. Deliveries that overlap
are left to the theorem `RunStatusesFinal`. *Ledger*: two attempts of one trial, a sandbox each, two servers; rows are independent of each other. *Admission*: four
requests at a limit of 1, which is where two starts can both see room; a start that is not limited is left to the theorem `StartsKeepTheLimit`. *Journal*: two attempts, which is when an
old archive could be taken for a new journal; three events in chunks of up to two, so that a chunk is lost in the middle and a later one falls on its place; two tries and three
faults, so that a chunk is given up and a sweep fails besides. *Local*: two trials, so that one is reported while another is not; two tries and one break, because each property
is about one thing that goes wrong. *Prompts*: two writers and three versions, which is a save, a save that conflicts and a publish of either; one key, the default channel's, which is where a draft could be served and where placement and version both move (the theorems have all
three); two faults, for a deletion and a fill. *Trial*: three pieces, so that a poll sees none, some or all but the result; four ticks and three turns, so that a turn starts with
part of the budget, with one tick or with nothing; four faults, which is one more than a check is tried again. `Symmetry` is used in runs without liveness properties only.

**Deadlock.** `CHECK_DEADLOCK FALSE` appears in the configurations of all modules but BatchExecution, whose sweep repeats for ever. Elsewhere the instance comes to
rest: both attempts over, requests all answered and batches closed, nothing left to journal or read, the batch closed and the machine gone, a verdict.

**Fairness.** *BatchExecution*: the sweep (`Effect.repeat` on a schedule on every server), the passing of time, and the end of
every delivery, by `maxDuration` at the latest. Nothing says a trial ever finishes. *SandboxLedger*: time, an attempt that goes on
or is stopped, the reaper's read, and strongly its destroy and clear: a store that is down now and then answers some time.
*Admission*: weak fairness of each handler once it has started; not of `Look` (a request need not arrive), `Close` or `Reopen`.
A wait for the lock ends because a request takes it once and each holder's statements are few. *Journal*: time, and the three statements of each server's
sweep, which repeats every half hour; nothing of an attempt. *LocalBatch*: a machine that is there checks in (a forked fiber, every minute), a machine that is gone grows quiet,
a check-in and `finish` do not hang, servers sweep; not that a trial is over, is reported, that its report is handled, or that a machine comes back. *Prompts*: keys expire (`EX`), what a client
keeps grows old, and a client that is used goes on asking; nothing of a writer. *AgentTrial*: the poll goes on, time passes, a turn that is being stopped stops, the person and the scorer
answer with something; not that the command exits or the agent ends its turn.

## 4. What is proved

All for any sets of runs, trials, deliveries, servers, attempts, sandboxes, requests, readers, writers and clients, and any bounds.

*BatchExecution*, in layers, each with no more assumed than it needs, and none with a bound on the servers that sweep or on what is overtaken. What is assumed is written in each theorem.

| Assumed | Invariant | What follows |
| --- | --- | --- |
| nothing | `TypeOK`, `FailureIsOver` | `TypeCorrect`, `FailureInvariant`, `RunStatusesFinal`: `settleRun` writes only a running run; `ScoredIsClean` |
| `~Overlap`: deliveries of the task do not overlap | `DeliveryInv` | `FinishedBatchRests`, `FinishedRunsHaveEvidence` |
| `~Outlives`: no delivery outlives the sweep's six hours | `SweepInv` | |
| both | | `BatchImplementsTrialLife`, `TrialsAreLeftAlone` |

Neither is a statement about the database: the task is given out once at a time and ended after an hour by the runner (`eval-run.ts:10`), whose code is not in `src/`. `DeliveryInv` says that one delivery is alive at a time and it alone has fibers, that past its check it finds no trial
running that it did not start, that what it has settled has a verdict, and that a finished batch has no delivery at work, since only the one alive finishes it and the next reopens it first. `SweepInv` says that a trial at work is not old enough for a sweep
to find. Each is inductive by itself, together with the types. With both, a sweep finds only trials nobody is at work on, and this is as far as it goes: a retry may open a trial between a sweep's two statements, and then the sweep voids it at work (`batch_servers`). What is promised is therefore
`TrialsAreLeftAlone`, through the theorems about TrialLife: a trial that no sweep had in hand when it was opened is its delivery's until the delivery settles it or is lost, no sweep finds it meanwhile, and its verdict stands until a retry opens it.
`ScoredIsClean` assumes nothing. `results.mdx:47` has a scored trial's failure null, and this is not quite so: settling does not clear the column. `VerdictsAreClean` says that a verdict and a failure come together in two ways, namely when the row was voided at work and its delivery settles it after all, and when a
settle is overtaken by its finalizer; there is no third, as opening clears the failure (`FailureIsOver`).

*SandboxLedger*: `TypeCorrect`; and, when attempts end before `LEAKED_AFTER`, `ReaperSparesAttempts` from `SparesInv` (an id that a
reaper has read was given out before any sandbox rented since) and `SandboxesAccountedFor` from `AccountedInv` (the row
keeps up with the attempt at each of its places, and no reaper is busy under one). `LedgerImplementsTrialLife` needs neither: attempts follow one another (`AttemptsFollow`)
however long they last.

*Admission*: `AdmissionInvariant`, and from it `KeyStartsOnce`, `SameKeySameAnswer`, `RacesAreReplayed`, `StartsKeepTheLimit` and
`PromiseKept`: every step of Admission is a step of StartOnce or none. The argument is the lock: while a request holds it no other inserts, so
the key it saw free stays free (`KeyStaysFree`) and the room it counted stays there (`RoomStays`): batches meanwhile close, which makes
room, or reopen, which StartOnce does not count.
`PromiseSuffices` is about StartOnce alone: whatever keeps its promise starts a batch once per key, gives one answer and keeps the limit, so nothing of the three rests on how the servers go about it.

*Journal*: `TypeCorrect`; and, when no trial is opened in the middle of its compaction (`~Races`), `VerdictsStand`, `HotJournalsAreAlone` and
`JournalImplementsTrialLog`. `JournalInv` has four parts: a copy is of the rows there are or of the archive they went to (`MovedWhole`), as long as no chunk is lost the rows are what was heard and perhaps part of the chunk
at hand (`SinkInv`), a journal has no hole (`NoHoles`), and what the verdict stood on is the beginning of the log (`StoodInv`). For the refinement a reader between its two statements is owed no more than the archive has
(`OwedInv`), because a journal that was archived has no rows, and its archive does not change, until the trial is opened again, where the abstract log starts over as well. `JournalsShowTheAttempt` is about the journals that `VerdictsStand` says nothing of, where chunks were given up or dropped: the offset then stays behind what was heard, and
seqs are handed out twice. `OrderInv` has that a row is either of an event the sink has passed on or the very one the chunk at hand has for that seq, so what is appended above is later than all that is there. `ReadersKeepWhatTheySaw` is what a viewer that
polls relies on: `AnsweredInv` has that an answer of this attempt is the beginning of the journal, and that a reader who found no rows and has such an answer is owed as much of the archive.
`JournalImplementsTrialLife` holds with `Races` too.

*LocalBatch*: `TypeCorrect`, `LandedReportsStand`, `ClosedBatchesAreWhole`, `FinishedBatchesFinishedTheirRuns` and `CheckedInAreSpared`, with no further assumption. A trial
once it has a row never loses it, and while the run is running those missing when the batch was read cover those missing when it is closed; a run that is closed by `finish` is closed together with its trials. `LocalImplementsTrialLife` needs no assumption either: those who
close a batch insert rows only where there is none, and that the sweep of running trials finds none whose report is under way is in the model, in the guard of `SweepVoids`: six hours are longer than a report and its retries. `ReportsAreLeftAlone` draws the conclusion with the
theorems about TrialLife: neither `finish` nor a sweep of the batch voids a trial while it is reported, and a verdict stands until the trial is reported again.

*Prompts*: `TypeCorrect`, `ChannelsMoveFromSomewhere` (two moves may read the same placement, so the version an event starts from may not be the one its move replaced; but it was there, and the index on
placements lets one move alone find nothing there), `SavesAreNumberedApart`, `StaleAnswersAreExcused` and `ServedVersionsWerePublished`: whatever is kept, on its way or served under the default channel is a version
that was deployed some time, with a text it had, because a read takes both from one statement and everything after it only copies.

*AgentTrial*: `TypeCorrect`, `ResultsAreRead`, which assumes `StatusFirst` (an exit code of success that was read means the log was complete before it was asked for),
`EachPieceIsHeardOnce` and `BudgetsAreKept` (what is spent and what this turn has taken never let the agent work longer than `Timeout`, and a turn that is late has used up what was left).

Only model-checked: all liveness (`EverythingCloses`, `LedgerDrains`, `Answered`, `ColdJournalIsArchived`, `GoneMachineIsClosed`, `ClosedStopsMachine`,
`PublishReachesClients`, `TrialConcludes`), which is out of the prover's reach. Every other property of a passing run is proved.

**What the assumptions carry.** Without `~Overlap`, two deliveries pass the check together and work the same trials; the task is
triggered without an idempotency key, so only the runner prevents it. Without `~Outlives` the sweep voids
trials at work; the in-process runner has no time limit. The age of a batch is that of its row, so
a batch that is retried late is failed by the sweep while it is being executed. With `Races`, a trial opened between `Choose` and `Replace` has its new rows
deleted, or an archive beside them.

## 5. Where the code and its documents differ

Decided by a run:

1. `batch_servers`: a test says the sweep spares live work (`tests/services/reconciler.test.ts:167`). It writes a trial by id, without its status, after another read.
2. `ledger_left`: the reaper is called the backstop of a failed teardown (`services/sandbox-provider.ts:29`). `abandon` clears the id it would need.
3. `local_shown`: a trial whose report does not land shows as void, says `local.mdx:87` and the CLI. One that broke off after `open` has a row, so `finish` does not void it: it stays
   running in a finished run until the sweep, six hours later.
4. `trial_torn`: a long command reports what it finally wrote (`tests/services/long-command.test.ts:75`). `daytona-detached.ts` asks for status and log at once, and a command that ends between the two answers has printed no result.

Met while reading, and not decided by a run:

- `results.mdx:19`: every run of a finished batch completed. A retry reopens the batch, not its runs, and finishes it with a run that failed earlier.
- `results.mdx:47`: the failure of a trial that was scored is null. It is not in the two ways of `VerdictsAreClean`.
- `batches.test.ts:394`: a broken run does not fail its siblings. `Effect.orDie` on a validation does.
- `introduction.mdx:76`: at most 3 batches at once. `reopen` does not count, so an organization that has filled the place of a closed batch exceeds the limit when that batch is executed again (`AdmittedWithinLimit` leaves such batches out), and `evals.cases.run` has no limit. A test has local batches start past the ceiling, and indeed they are not counted, but
  `refuseWhenBusy` refuses a local start when three hosted batches run; `local.mdx` says local batches count.
- A batch whose server died between the commit and the hand-over is replayed to every retry of its key although nobody will execute it, until the sweep fails it.
- `repositories/event-repository.ts`: a hot journal never has an archive. One opened again between the statements of its compaction has.
- `packages/sdk/src/client/cache/prompt-cache.ts:67`: a pinned version cannot change, and is kept for a day. `updateVersion` overwrites one.
- `packages/db/src/schema/prompts/prompt-events.ts:21`: a move is from somewhere unless it is the first. It need not be from the version it replaced: `movePromptChannel` reads that without a lock, so of two moves at once both name the same one. And the log is read by `createdAt`, from before the transaction:
  it may end at the move that committed first, whose version is not the one on the channel.
- `services/agent-trial.ts:306`: a case with a person has a conversation. A harness that reports no session is scored after one turn.

## 6. Not modelled, and why

Of the modelled parts: a trial's cost rows (recorded best effort after the verdict), the runs the plan query drops, the semaphore per provider, the stopping of idle sandboxes by their provider, the checks of
a start that read no shared state, leases of credentials (the server keeps nothing of them), the shrinking of a report that is too large, redaction and decoding of events, further channels and the catalog of
prompts, the cache of a prepare, artifacts and mock APIs, and the streaming fallback of a provider that cannot detach a command.

`outcomeOf` and the validation plan are a table over the patterns of a validator, without state, and the scorer runs commands and models: what can go wrong in them is a wrong entry, which a unit test reaches.
Pricing is arithmetic on decimals from an external list. Credentials are encryption and third-party sign-in, of which a batch sees that there are none (`Uncredentialed`). The expiry sweeps delete rows past
a date. The server and the MCP server are routing and translation, the database package is a schema, and auth, billing, notifications, ids and templates are thin layers over services or pure formatting.

The models cover a small share of the repository's lines. By far the most of those are React components, presets and styles (`packages/ui`, `apps/web`), documents, typed schemas of an HTTP API and the client over them (`packages/schema`, `packages/sdk`), adapters that
translate the output of a harness or a provider line by line, and fixtures. They keep no state that another process changes; a model of them would be their text. What is mapped is where several processes write the same rows.

## 7. What is left

- The prepare cache of a case, and a provider that stops an idle sandbox while the person thinks: both meet SandboxLedger.
- The composition of LocalBatch with Admission: a local batch is inserted by one and closed by the other.
- Trials whose reports carry events, over Journal: `open` and `append` are two statements of one report.
- That no trial at all is voided at work, should the UPDATE of `voidTrialsRunningSince` come to ask again for the status and the age: a trial opened again is young, `doomed` is then not needed, and `RunsAtWork` follows.
