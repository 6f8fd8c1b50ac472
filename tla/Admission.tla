----------------------------- MODULE Admission -----------------------------
(***************************************************************************)
(* How a server starts a batch: the look for an earlier start with the     *)
(* same idempotency key, the first count, and the transaction that, under  *)
(* an advisory lock of the organization, looks for the key again, counts   *)
(* again and inserts.  Only then is a hosted batch handed to the runner.   *)
(*                                                                         *)
(* Request is what one organization sends: starts, re-runs of a suite,     *)
(* which carry no key, and runs of a case, which carry no key and are not  *)
(* Limited.  Every request may be on a server of its own.  A retry is      *)
(* another request, with the key and the body of the first.  A batch goes  *)
(* by the request that started it.  What becomes of a batch is reduced to  *)
(* whether it is running: Close and Reopen are BatchExecution's.           *)
(*                                                                         *)
(* An advisory lock is released after its transaction has committed, so    *)
(* the insert and the release are one step; each read is a step of its     *)
(* own.  Batches are never deleted here.                                   *)
(***************************************************************************)
EXTENDS Naturals, FiniteSets

CONSTANTS Request, KeyOf, BodyOf, NoKey, Limited, Hosted, Limit, Nobody

ASSUME AdmissionAssumption ==
  /\ IsFiniteSet(Request)
  /\ Nobody \notin Request
  /\ Limited \subseteq Request
  /\ Hosted \subseteq Request
  /\ Limit \in Nat \ {0}
  /\ \A r \in Request : KeyOf[r] # NoKey => r \in Limited
  /\ Request \ Limited \subseteq Hosted

VARIABLES
  status,    \* eval_batch.status of the batch a request started
  reopened,  \* the batches executed again after they were closed
  sent,      \* the batches handed to the runner
  lock,      \* who holds the advisory lock of the organization
  pc,        \* where the handler of a request is
  outcome,   \* what the request was answered
  given      \* the batch it was answered with

rows == <<status, reopened, sent>>
answer == <<outcome, given>>
vars == <<rows, lock, pc, answer>>

(* Every variable keeps its type.                                          *)
TypeOK ==
  /\ status \in [Request -> {"absent", "running", "closed"}]
  /\ reopened \in SUBSET Request
  /\ sent \in SUBSET Request
  /\ lock \in Request \cup {Nobody}
  /\ pc \in [Request -> {"idle", "admitting", "locking", "checking", "counting", "inserting",
                         "racing", "dispatching", "undispatched", "failed", "done"}]
  /\ outcome \in [Request -> {"none", "created", "replayed", "conflict", "busy", "error", "died"}]
  /\ given \in [Request -> Request]

Init ==
  /\ status = [r \in Request |-> "absent"]
  /\ reopened = {}
  /\ sent = {}
  /\ lock = Nobody
  /\ pc = [r \in Request |-> "idle"]
  /\ outcome = [r \in Request |-> "none"]
  /\ given = [r \in Request |-> r]

Goto(r, to) == pc' = [pc EXCEPT ![r] = to]

Answer(r, as, b) ==
  /\ outcome' = [outcome EXCEPT ![r] = as]
  /\ given' = [given EXCEPT ![r] = b]
  /\ Goto(r, "done")

(* Mutant: a key is only held against the same request.                    *)
HoldersOfBody(r) ==
  {b \in Request : /\ KeyOf[r] # NoKey /\ KeyOf[b] = KeyOf[r] /\ BodyOf[b] = BodyOf[r]
                   /\ status[b] # "absent"}

(* Mutant: only a running batch holds its key.                             *)
HoldersRunning(r) ==
  {b \in Request : KeyOf[r] # NoKey /\ KeyOf[b] = KeyOf[r] /\ status[b] = "running"}

(* The batches of the organization that hold the key of the request.       *)
Holders(r) ==
  {b \in Request : KeyOf[r] # NoKey /\ KeyOf[b] = KeyOf[r] /\ status[b] # "absent"}

(* runningHosted: local batches do not count.                              *)
InFlight == {b \in Hosted : status[b] = "running"}

---------------------------------------------------------------------------
(* Mutant: the body of the request is not compared.                        *)
ReplayUnchecked(r) == \E b \in Holders(r) : Answer(r, "replayed", b)

(* `earlier': the answer when a batch holds the key.                       *)
Replay(r) ==
  \E b \in Holders(r) :
    IF BodyOf[b] = BodyOf[r] THEN Answer(r, "replayed", b) ELSE Answer(r, "conflict", r)

(* The first step of a handler.  A request without a key looks for nothing. *)
Look(r) ==
  /\ pc[r] = "idle"
  /\ IF Holders(r) # {}
       THEN Replay(r)
       ELSE Goto(r, IF r \in Limited THEN "admitting" ELSE "locking") /\ UNCHANGED answer
  /\ UNCHANGED <<rows, lock>>

(* refuseWhenBusy, outside the transaction.                                *)
Admit(r) ==
  /\ pc[r] = "admitting"
  /\ IF Cardinality(InFlight) >= Limit
       THEN Answer(r, "busy", r)
       ELSE Goto(r, "locking") /\ UNCHANGED answer
  /\ UNCHANGED <<rows, lock>>

(* Only then do the reads of the transaction begin, each with a snapshot of
   its own.  Whatever the limit, the lock is taken.                        *)
Lock(r) ==
  /\ pc[r] = "locking"
  /\ lock = Nobody
  /\ lock' = r
  /\ Goto(r, "checking")
  /\ UNCHANGED <<rows, answer>>

Unlock(r) == lock' = IF lock = r THEN Nobody ELSE lock

(* Mutant: the transaction of a taken key is left open.                    *)
CheckKeyOpen(r) ==
  /\ pc[r] = "checking"
  /\ Goto(r, IF Holders(r) # {} THEN "racing" ELSE "counting")
  /\ UNCHANGED <<rows, lock, answer>>

CheckKey(r) ==
  /\ pc[r] = "checking"
  /\ IF Holders(r) # {}
       THEN Unlock(r) /\ Goto(r, "racing")
       ELSE UNCHANGED lock /\ Goto(r, "counting")
  /\ UNCHANGED <<rows, answer>>

(* Mutant: one more than the limit.                                        *)
CountOneMore(r) ==
  /\ pc[r] = "counting"
  /\ IF r \in Limited /\ Cardinality(InFlight) > Limit
       THEN Unlock(r) /\ Answer(r, "busy", r)
       ELSE Goto(r, "inserting") /\ UNCHANGED <<lock, answer>>
  /\ UNCHANGED rows

Count(r) ==
  /\ pc[r] = "counting"
  /\ IF r \in Limited /\ Cardinality(InFlight) >= Limit
       THEN Unlock(r) /\ Answer(r, "busy", r)
       ELSE Goto(r, "inserting") /\ UNCHANGED <<lock, answer>>
  /\ UNCHANGED rows

(* writeBatch, with the unique index on the key, and the commit.           *)
Insert(r) ==
  /\ pc[r] = "inserting"
  /\ IF Holders(r) # {}
       THEN Goto(r, "racing") /\ UNCHANGED status
       ELSE Goto(r, "dispatching") /\ status' = [status EXCEPT ![r] = "running"]
  /\ Unlock(r)
  /\ UNCHANGED <<reopened, sent, answer>>

(* Committed, and the server never heard: nothing will hand the batch over. *)
InsertErrs(r) ==
  /\ pc[r] = "inserting"
  /\ Holders(r) = {}
  /\ status' = [status EXCEPT ![r] = "running"]
  /\ Unlock(r)
  /\ Goto(r, "failed")
  /\ UNCHANGED <<reopened, sent, answer>>

(* replayRaced: the start that found its key taken reads the batch it lost
   to, and dies when there is none.                                        *)
Race(r) ==
  /\ pc[r] = "racing"
  /\ IF Holders(r) # {} THEN Replay(r) ELSE Answer(r, "died", r)
  /\ UNCHANGED <<rows, lock>>

Dispatch(r) ==
  /\ pc[r] = "dispatching"
  /\ sent' = IF r \in Hosted THEN sent \cup {r} ELSE sent
  /\ Answer(r, "created", r)
  /\ UNCHANGED <<status, reopened, lock>>

(* The runner may have taken the task all the same.                        *)
DispatchFails(r) ==
  /\ pc[r] = "dispatching"
  /\ r \in Hosted
  /\ sent' \in {sent, sent \cup {r}}
  /\ Goto(r, "undispatched")
  /\ UNCHANGED <<status, reopened, lock, answer>>

FailBatch(r) ==
  /\ pc[r] = "undispatched"
  /\ status' = [status EXCEPT ![r] = "closed"]
  /\ Goto(r, "failed")
  /\ UNCHANGED <<reopened, sent, lock, answer>>

(* A statement failed, or the server died: the transaction is rolled back. *)
Fail(r) ==
  /\ pc[r] \notin {"idle", "done"}
  /\ Unlock(r)
  /\ Answer(r, "error", r)
  /\ UNCHANGED rows

---------------------------------------------------------------------------
(* What BatchExecution does to a batch, and, to a local one, its own CLI.  *)

Close(b) ==
  /\ status[b] = "running"
  /\ status' = [status EXCEPT ![b] = "closed"]
  /\ UNCHANGED <<reopened, sent, lock, pc, answer>>

Reopen(b) ==
  /\ b \in sent
  /\ status[b] = "closed"
  /\ status' = [status EXCEPT ![b] = "running"]
  /\ reopened' = reopened \cup {b}
  /\ UNCHANGED <<sent, lock, pc, answer>>

---------------------------------------------------------------------------
(* What a handler does once it runs.                                       *)
Handle(r) ==
  \/ Admit(r) \/ Lock(r) \/ CheckKey(r) \/ Count(r) \/ Insert(r)
  \/ Race(r) \/ Dispatch(r) \/ DispatchFails(r) \/ FailBatch(r)
  \/ pc[r] = "failed" /\ Fail(r)

Next ==
  \E r \in Request :
    Look(r) \/ Handle(r) \/ InsertErrs(r) \/ Fail(r) \/ Close(r) \/ Reopen(r)

Spec == Init /\ [][Next]_vars

(* A handler goes on until it answers, and a wait for the lock ends: each
   holder has a bounded number of statements left, and a request takes the
   lock at most once.                                                      *)
FairSpec == Spec /\ \A r \in Request : WF_vars(Handle(r))

---------------------------------------------------------------------------
(* Requests that carry the same idempotency key start one batch between
   them, on however many servers and in whatever order they arrive.        *)
OneStartPerKey ==
  \A r, s \in Request :
    (KeyOf[r] = KeyOf[s] /\ KeyOf[r] # NoKey /\ status[r] # "absent" /\ status[s] # "absent")
      => r = s

(* A request that is answered with a batch is answered with a batch of its
   own key that was asked for in the same words, and two requests of a key
   that were answered with batches were answered with the same.            *)
AnswersAgree ==
  \A r \in Request :
    outcome[r] \in {"created", "replayed"} =>
      /\ status[given[r]] # "absent"
      /\ KeyOf[given[r]] = KeyOf[r]
      /\ BodyOf[given[r]] = BodyOf[r]
      /\ \A s \in Request :
           (outcome[s] \in {"created", "replayed"} /\ KeyOf[s] = KeyOf[r] /\ KeyOf[r] # NoKey)
             => given[s] = given[r]

(* A start that lost the race for its key finds the batch it lost to,
   whatever has become of that batch since: replayRaced does not die.      *)
RaceFindsItsBatch == \A r \in Request : outcome[r] # "died"

(* The batches a limited start put in flight.                              *)
Counted == {b \in Hosted \cap Limited : status[b] = "running" /\ b \notin reopened}

(* Starts that count at the same instant do not all pass: between them
   they never put more batches in flight than the limit, though each has
   counted twice and waited in between.                                    *)
AdmittedWithinLimit == Cardinality(Counted) <= Limit

(* A request that is being handled is answered: none waits for the lock
   for ever.                                                               *)
Answered == \A r \in Request : pc[r] # "idle" ~> outcome[r] # "none"

(* All the steps of a start come down to the single ones of StartOnce.     *)
S == INSTANCE StartOnce
Promise == S!Spec

---------------------------------------------------------------------------
(* Why.                                                                    *)

(* The lock is held through the transaction, and by one of them.           *)
LockHeld ==
  \A r \in Request : pc[r] \in {"checking", "counting", "inserting"} <=> lock = r

(* A batch is there when its request has passed the insert, and a request
   that has not is not answered with one.  Local batches are not sent.     *)
OwnBatch ==
  /\ sent \subseteq Hosted
  /\ \A r \in Request :
       /\ pc[r] \in {"idle", "admitting", "locking", "checking", "counting", "inserting", "racing"}
            => status[r] = "absent"
       /\ pc[r] = "admitting" => r \in Limited
       /\ pc[r] \in {"dispatching", "undispatched"} => status[r] # "absent"
       /\ outcome[r] = "none" <=> pc[r] # "done"
       /\ outcome[r] = "created" => given[r] = r

(* What the transaction has read stays so until it ends.                   *)
KeyStaysFree == \A r \in Request : pc[r] \in {"counting", "inserting"} => Holders(r) = {}

RoomStays ==
  \A r \in Request : pc[r] = "inserting" /\ r \in Limited => Cardinality(Counted) < Limit

(* The batch a start lost to is never deleted.                             *)
RaceLost == \A r \in Request : pc[r] = "racing" => Holders(r) # {}

AnswerStands ==
  \A r \in Request :
    outcome[r] \in {"created", "replayed"} =>
      /\ status[given[r]] # "absent"
      /\ KeyOf[given[r]] = KeyOf[r]
      /\ BodyOf[given[r]] = BodyOf[r]
      /\ KeyOf[r] = NoKey => given[r] = r

(* The inductive invariant.                                                *)
AdmissionInv ==
  /\ TypeOK
  /\ LockHeld
  /\ OwnBatch
  /\ KeyStaysFree
  /\ RoomStays
  /\ RaceLost
  /\ OneStartPerKey
  /\ AnswerStands
  /\ RaceFindsItsBatch
  /\ AdmittedWithinLimit
===========================================================================
