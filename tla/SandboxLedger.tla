--------------------------- MODULE SandboxLedger ---------------------------
(***************************************************************************)
(* One hosted trial and the sandboxes its attempts rent: what the provider *)
(* has alive, against the one column, eval_trial.sandbox_id, from which    *)
(* the next attempt and the reaper learn of a sandbox nobody tore down.    *)
(*                                                                         *)
(* An attempt is runTrial with the agent trial inside it.  The attempts of *)
(* a trial follow one another, as BatchExecution has it when deliveries do *)
(* not overlap.  The reaper of every server walks the rows on a schedule;  *)
(* the trial here is one of those it walks, each on a fiber of its own.    *)
(*                                                                         *)
(* Much can go wrong that no row could make good: a provider refuses to    *)
(* destroy, the store refuses the attach, a process dies in the moment     *)
(* between renting a sandbox and recording it, an attempt opens while a    *)
(* reaper is busy with its row.  All of it happens here, and `excused'     *)
(* remembers that some of it did.  Outlives lets an attempt live for       *)
(* longer than LEAKED_AFTER.                                               *)
(* That a provider stops an idle sandbox by itself is left out: what is    *)
(* asked here is what Sphynx still knows of.                               *)
(***************************************************************************)
EXTENDS Naturals

CONSTANTS Attempt, Sandbox, Server, NoSandbox, Outlives

ASSUME LedgerAssumption ==
  /\ NoSandbox \notin Sandbox
  /\ Outlives \in BOOLEAN

VARIABLES
  status,    \* eval_trial.status
  recorded,  \* eval_trial.sandbox_id
  age,       \* since started_at: "young", past LEAKED_AFTER, past GIVE_UP_AFTER
  alive,     \* the sandboxes the provider has
  used,      \* the ids it has given out
  left,      \* those of which "sandbox left for the reaper" was logged
  pc,        \* where an attempt is
  held,      \* the sandbox of an attempt
  prior,     \* the sandbox an attempt was told of when it opened
  reap,      \* where the reaper of a server is
  target,    \* the sandbox it read
  late,      \* it read it past GIVE_UP_AFTER
  excused    \* something happened that may lose a sandbox

row == <<status, recorded, age>>
provider == <<alive, used, left>>
attempts == <<pc, held, prior>>
reapers == <<reap, target, late>>
vars == <<row, provider, attempts, reapers, excused>>

Id == Sandbox \cup {NoSandbox}

(* A reaper always has a sandbox to destroy, and an attempt at work one to
   work in: neither asks its provider about no sandbox.                    *)
TypeOK ==
  /\ status \in {"absent", "running", "settled", "void"}
  /\ recorded \in Id
  /\ age \in {"young", "leaked", "hopeless"}
  /\ alive \in SUBSET Sandbox
  /\ used \in SUBSET Sandbox
  /\ left \in SUBSET Sandbox
  /\ pc \in [Attempt -> {"idle", "opened", "renting", "attaching", "working",
                         "settling", "abandoning", "over"}]
  /\ held \in [Attempt -> Id]
  /\ prior \in [Attempt -> Id]
  /\ reap \in [Server -> {"rest", "destroying", "clearing"}]
  /\ target \in [Server -> Id]
  /\ late \in [Server -> BOOLEAN]
  /\ excused \in BOOLEAN
  /\ \A a \in Attempt : pc[a] \in {"attaching", "working"} => held[a] \in Sandbox
  /\ \A s \in Server : reap[s] # "rest" => target[s] \in Sandbox

Init ==
  /\ status = "absent"
  /\ recorded = NoSandbox
  /\ age = "young"
  /\ alive = {}
  /\ used = {}
  /\ left = {}
  /\ pc = [a \in Attempt |-> "idle"]
  /\ held = [a \in Attempt |-> NoSandbox]
  /\ prior = [a \in Attempt |-> NoSandbox]
  /\ reap = [s \in Server |-> "rest"]
  /\ target = [s \in Server |-> NoSandbox]
  /\ late = [s \in Server |-> FALSE]
  /\ excused = FALSE

Under(a) == pc[a] \notin {"idle", "over"}

Holds(a) == pc[a] \in {"attaching", "working"}

NoAttempt == \A a \in Attempt : ~Under(a)

Goto(a, to) == pc' = [pc EXCEPT ![a] = to]

---------------------------------------------------------------------------
(* An attempt.                                                             *)

(* Mutant: the upsert sets sandbox_id to null.                             *)
OpenForgetting(a) ==
  /\ pc[a] = "idle"
  /\ NoAttempt
  /\ status # "running"
  /\ status' = "running"
  /\ age' = "young"
  /\ recorded' = NoSandbox
  /\ prior' = [prior EXCEPT ![a] = NoSandbox]
  /\ Goto(a, "opened")
  /\ excused' = (excused \/ \E s \in Server : reap[s] # "rest")
  /\ UNCHANGED <<provider, held, reapers>>

(* The upsert leaves sandbox_id alone and returns it.                      *)
Open(a) ==
  /\ pc[a] = "idle"
  /\ NoAttempt
  /\ status # "running"
  /\ status' = "running"
  /\ age' = "young"
  /\ prior' = [prior EXCEPT ![a] = recorded]
  /\ Goto(a, "opened")
  /\ excused' = (excused \/ \E s \in Server : reap[s] # "rest")
  /\ UNCHANGED <<recorded, provider, held, reapers>>

DestroyPrior(a) ==
  /\ pc[a] = "opened"
  /\ alive' = alive \ {prior[a]}
  /\ Goto(a, "renting")
  /\ UNCHANGED <<row, used, left, held, prior, reapers, excused>>

(* destroyPrior's failure is logged and ignored.                           *)
PriorLeft(a) ==
  /\ pc[a] = "opened"
  /\ prior[a] # NoSandbox
  /\ Goto(a, "renting")
  /\ excused' = TRUE
  /\ UNCHANGED <<row, provider, held, prior, reapers>>

Rent(a) ==
  /\ pc[a] = "renting"
  /\ \E b \in Sandbox \ used :
       /\ alive' = alive \cup {b}
       /\ used' = used \cup {b}
       /\ held' = [held EXCEPT ![a] = b]
  /\ Goto(a, "attaching")
  /\ UNCHANGED <<row, left, prior, reapers, excused>>

(* The provider has none to give, or it has but the workspace could not be
   made in it and the discard of it failed as well.                        *)
RentFails(a) ==
  /\ pc[a] = "renting"
  /\ \/ UNCHANGED <<alive, used, excused>>
     \/ /\ \E b \in Sandbox \ used :
             alive' = alive \cup {b} /\ used' = used \cup {b}
        /\ excused' = TRUE
  /\ Goto(a, "abandoning")
  /\ UNCHANGED <<row, left, held, prior, reapers>>

Attach(a) ==
  /\ pc[a] = "attaching"
  /\ recorded' = held[a]
  /\ Goto(a, "working")
  /\ UNCHANGED <<status, age, provider, held, prior, reapers, excused>>

(* onSandbox: a refused attach is logged and ignored.                      *)
AttachLost(a) ==
  /\ pc[a] = "attaching"
  /\ Goto(a, "working")
  /\ excused' = TRUE
  /\ UNCHANGED <<row, provider, held, prior, reapers>>

(* The scope of the agent trial closes, with a result or without one, before
   that of runTrial does.                                                  *)
Release(a) ==
  /\ pc[a] = "working"
  /\ alive' = alive \ {held[a]}
  /\ \E next \in {"settling", "abandoning"} : Goto(a, next)
  /\ UNCHANGED <<row, used, left, held, prior, reapers, excused>>

(* TEARDOWN is exhausted.  A result keeps the id in the row; a failure does not. *)
ReleaseFails(a) ==
  /\ pc[a] = "working"
  /\ left' = left \cup {held[a]}
  /\ \/ Goto(a, "settling") /\ UNCHANGED excused
     \/ Goto(a, "abandoning") /\ excused' = TRUE
  /\ UNCHANGED <<row, alive, used, held, prior, reapers>>

(* settle writes sandbox_id again, whether or not the sandbox is gone.     *)
Settle(a) ==
  /\ pc[a] = "settling"
  /\ status' = "settled"
  /\ recorded' = held[a]
  /\ Goto(a, "over")
  /\ UNCHANGED <<age, provider, held, prior, reapers, excused>>

SettleErrs(a) ==
  /\ pc[a] = "settling"
  /\ Goto(a, "abandoning")
  /\ \/ UNCHANGED <<status, recorded>>
     \/ status' = "settled" /\ recorded' = held[a]
  /\ excused' = (excused \/ held[a] \in left)
  /\ UNCHANGED <<age, provider, held, prior, reapers>>

(* abandon clears sandbox_id along with the status.                        *)
Abandon(a) ==
  /\ pc[a] = "abandoning"
  /\ IF status = "running"
       THEN status' = "void" /\ recorded' = NoSandbox
       ELSE UNCHANGED <<status, recorded>>
  /\ Goto(a, "over")
  /\ UNCHANGED <<age, provider, held, prior, reapers, excused>>

AbandonLost(a) ==
  /\ pc[a] = "abandoning"
  /\ Goto(a, "over")
  /\ UNCHANGED <<row, provider, held, prior, reapers, excused>>

(* The process dies, or the task is killed.                                *)
Stop(a) ==
  /\ Under(a)
  /\ Goto(a, "over")
  /\ excused' = (excused \/ pc[a] = "attaching")
  /\ UNCHANGED <<row, provider, held, prior, reapers>>

---------------------------------------------------------------------------
(* The reaper of a server: reapOne.                                        *)

(* Mutant: the cutoff is not applied.                                      *)
ReapReadsAnyAge(s) ==
  /\ reap[s] = "rest"
  /\ recorded # NoSandbox
  /\ reap' = [reap EXCEPT ![s] = "destroying"]
  /\ target' = [target EXCEPT ![s] = recorded]
  /\ late' = [late EXCEPT ![s] = age = "hopeless"]
  /\ UNCHANGED <<row, provider, attempts, excused>>

(* startedBefore asks for no status.                                       *)
ReapReads(s) ==
  /\ reap[s] = "rest"
  /\ recorded # NoSandbox
  /\ age # "young"
  /\ reap' = [reap EXCEPT ![s] = "destroying"]
  /\ target' = [target EXCEPT ![s] = recorded]
  /\ late' = [late EXCEPT ![s] = age = "hopeless"]
  /\ UNCHANGED <<row, provider, attempts, excused>>

ReapDestroys(s) ==
  /\ reap[s] = "destroying"
  /\ alive' = alive \ {target[s]}
  /\ left' = left \ {target[s]}
  /\ reap' = [reap EXCEPT ![s] = "clearing"]
  /\ UNCHANGED <<row, used, attempts, target, late, excused>>

(* Mutant: settleFailure has no GIVE_UP_AFTER.                             *)
ReapFailsForEver(s) ==
  /\ reap[s] = "destroying"
  /\ reap' = [reap EXCEPT ![s] = "rest"]
  /\ UNCHANGED <<left, excused>>
  /\ UNCHANGED <<row, alive, used, attempts, target, late>>

(* The provider cannot be reached: "retrying", or "gave-up" after a day.   *)
ReapFails(s) ==
  /\ reap[s] = "destroying"
  /\ reap' = [reap EXCEPT ![s] = IF late[s] THEN "clearing" ELSE "rest"]
  /\ left' = IF late[s] THEN left \ {target[s]} ELSE left
  /\ excused' = (excused \/ late[s])
  /\ UNCHANGED <<row, alive, used, attempts, target, late>>

(* "abandoned": the credential is gone or unreadable, or the provider is
   unknown.                                                                *)
ReapImpossible(s) ==
  /\ reap[s] = "destroying"
  /\ reap' = [reap EXCEPT ![s] = "clearing"]
  /\ left' = left \ {target[s]}
  /\ excused' = TRUE
  /\ UNCHANGED <<row, alive, used, attempts, target, late>>

(* clear names the trial, and not the sandbox that was read.               *)
ReapClears(s) ==
  /\ reap[s] = "clearing"
  /\ recorded' = NoSandbox
  /\ reap' = [reap EXCEPT ![s] = "rest"]
  /\ UNCHANGED <<status, age, provider, attempts, target, late, excused>>

(* The store refuses the clear, or the server goes away.                   *)
ReapStops(s) ==
  /\ reap[s] # "rest"
  /\ reap' = [reap EXCEPT ![s] = "rest"]
  /\ UNCHANGED <<row, provider, attempts, target, late, excused>>

---------------------------------------------------------------------------
(* The reconciler, and time.                                               *)

SweepVoids ==
  /\ status = "running"
  /\ age # "young"
  /\ NoAttempt
  /\ status' = "void"
  /\ UNCHANGED <<recorded, age, provider, attempts, reapers, excused>>

Grow ==
  /\ status # "absent"
  /\ Outlives \/ NoAttempt
  /\ \/ age = "young" /\ age' = "leaked"
     \/ age = "leaked" /\ age' = "hopeless"
  /\ UNCHANGED <<status, recorded, provider, attempts, reapers, excused>>

---------------------------------------------------------------------------
AttemptStep(a) ==
  \/ Open(a) \/ DestroyPrior(a) \/ PriorLeft(a) \/ Rent(a) \/ RentFails(a)
  \/ Attach(a) \/ AttachLost(a) \/ Release(a) \/ ReleaseFails(a)
  \/ Settle(a) \/ SettleErrs(a) \/ Abandon(a) \/ AbandonLost(a) \/ Stop(a)

ReapStep(s) ==
  \/ ReapReads(s) \/ ReapDestroys(s) \/ ReapFails(s) \/ ReapImpossible(s)
  \/ ReapClears(s) \/ ReapStops(s)

Next ==
  \/ \E a \in Attempt : AttemptStep(a)
  \/ \E s \in Server : ReapStep(s)
  \/ SweepVoids
  \/ Grow

Spec == Init /\ [][Next]_vars

(* Time passes, no attempt lasts for ever, the reaper repeats on a schedule,
   and neither the servers nor the store are down for good.                *)
Fairness ==
  /\ WF_vars(Grow) /\ WF_vars(SweepVoids)
  /\ \A a \in Attempt : WF_vars(\/ Release(a) \/ Abandon(a) \/ Settle(a) \/ Stop(a))
  /\ \A s \in Server :
       /\ WF_vars(ReapReads(s))
       /\ SF_vars(ReapDestroys(s) \/ ReapFails(s) \/ ReapImpossible(s))
       /\ SF_vars(ReapClears(s))

FairSpec == Spec /\ Fairness

---------------------------------------------------------------------------
(* Properties.                                                             *)

(* The reaper, which asks for no status and acts on what it read earlier, never
   destroys a sandbox an attempt is at work in, as long as no attempt lives
   past LEAKED_AFTER.                                                      *)
ReaperSparesWork ==
  \A s \in Server, a \in Attempt :
    reap[s] = "destroying" /\ Holds(a) => target[s] # held[a]

(* One attempt at a time is at the trial, and the sweep voids what no attempt
   is at, whatever becomes of the sandboxes.                               *)
AtHand == {a \in Attempt : pc[a] \in {"opened", "renting", "attaching", "working", "settling"}}

Life ==
  INSTANCE TrialLife
    WITH Trial <- {"trial"}, Worker <- Attempt, Verdict <- {"settled", "void"},
         row <- [t \in {"trial"} |-> status], owners <- [t \in {"trial"} |-> AtHand],
         doomed <- {}

ImplementsTrialLife == Life!Spec

(* Whatever is alive is known: an attempt holds it, or has been told to destroy
   it, or the row still names it.  A killed attempt, a lost abandon and a
   retry lose nothing, and nor does a reaper, unless excused.  A test of the
   recorder says as much: the next attempt is handed the sandbox the last one
   left behind.                                                            *)
Accounted ==
  ~excused => alive \subseteq
    {recorded} \cup {held[a] : a \in {x \in Attempt : Holds(x)}}
               \cup {prior[a] : a \in {x \in Attempt : pc[x] = "opened"}}

(* A row does not keep a sandbox's id for ever, however the provider answers. *)
LedgerDrains == (recorded # NoSandbox) ~> (recorded = NoSandbox)

(* SandboxProvider.open: the sandbox that could not be torn down is left for
   the reaper, which is the backstop.                                      *)
LeftIsFound ==
  NoAttempt => \A b \in left \cap alive : recorded = b

---------------------------------------------------------------------------
(* Why the first two hold.                                                 *)

OneAtATime == \A a, b \in Attempt : Under(a) /\ Under(b) => a = b

WorkIsYoung == \A a \in Attempt : Under(a) => age = "young"

(* An id the reaper has read was given out before any id rented since.     *)
IdsAreUsed ==
  /\ recorded \in used \cup {NoSandbox}
  /\ \A a \in Attempt : pc[a] \in {"attaching", "working", "settling"} => held[a] \in used
  /\ \A s \in Server : reap[s] # "rest" => target[s] \in used

SparesInv ==
  /\ OneAtATime
  /\ WorkIsYoung
  /\ IdsAreUsed
  /\ ReaperSparesWork

(* No reaper is busy with the row under an attempt, and one that is busy will
   clear the sandbox it has destroyed.                                     *)
ReaperKeepsAway ==
  \A s \in Server : reap[s] # "rest" =>
    /\ NoAttempt
    /\ recorded \in {target[s], NoSandbox}
    /\ reap[s] = "clearing" => target[s] \notin alive

(* What an attempt writes over or clears is gone, or was left.             *)
RowKeepsUp ==
  \A a \in Attempt :
    /\ pc[a] = "opened" => prior[a] = recorded
    /\ pc[a] \in {"working", "settling"} => held[a] = recorded
    /\ pc[a] = "settling" => recorded \notin alive \/ recorded \in left
    /\ pc[a] \in {"renting", "attaching", "abandoning"} => recorded \notin alive

AccountedInv ==
  \/ excused
  \/ ReaperKeepsAway /\ RowKeepsUp /\ Accounted
===========================================================================
