------------------------------ MODULE Prompts ------------------------------
(***************************************************************************)
(* One prompt: its versions, the placement of its default channel, the     *)
(* answers the servers keep in Redis and those each client keeps in its    *)
(* memory.  A server that changes the prompt writes to Postgres and then   *)
(* deletes what Redis keeps of it, key by key as SCAN finds them.  A       *)
(* server that is asked looks in Redis, reads Postgres when there is       *)
(* nothing, and keeps what it read.  A client answers from its memory, and *)
(* asks again in the background, after 15 seconds, or before it answers,   *)
(* after a day.                                                            *)
(*                                                                         *)
(* A transaction is the statement that takes its row lock or meets its     *)
(* unique index, which is where it commits or fails; what it read earlier  *)
(* is a step of its own.  The organization has a default channel           *)
(* throughout.  What a version says is reduced to how often it was         *)
(* written.                                                                *)
(***************************************************************************)
EXTENDS Naturals

CONSTANTS
  Writer,        \* requests that change the prompt, each on a server
  Client,
  Key,           \* what a client asks for
  MaxVersions,   \* bound
  MaxFaults      \* bound: requests that break off, answers not kept

ASSUME PromptsAssumption ==
  /\ Key \subseteq {"default", "latest", "pinned"}
  /\ MaxVersions \in Nat \ {0} /\ MaxFaults \in Nat

Number == 1..MaxVersions

(* A version and what it says; NoAnswer is a miss, or a prompt that the    *)
(* key does not lead to.                                                   *)
Answer == (0..MaxVersions) \X Nat
NoAnswer == <<0, 0>>

VARIABLES
  written,   \* how many versions there are
  text,      \* per version, how often it was written
  placed,    \* the version on the default channel, or 0
  events,    \* the deployed events, and whose they are
  pc,        \* per writer
  saves,     \* per writer, is it addVersion?
  seen,      \* per writer, what its transaction has read
  number,    \* per writer, the version it has saved, or will place
  left,      \* per writer, the keys it still owes a deletion
  redis,     \* per key
  excused,   \* history: keys filled late, or never deleted
  fetch,     \* per client and key, the request under way
  memory,    \* per client and key, the answer it keeps
  age,       \* and how old that is: fresh, old, ancient
  faults

store == <<written, text, placed, events>>
writer == <<pc, saves, seen, number, left>>
kept == <<redis, excused>>
client == <<fetch, memory, age>>

vars == <<store, writer, kept, client, faults>>

Idle == [step |-> "idle", answer |-> NoAnswer]

(* From no version, for a first move.  The events are a set: they are read *)
(* by createdAt, which publishVersion takes from the clock before its      *)
(* transaction, so the order they are committed in is not to be seen.      *)
Event == [by : Writer \cup {"creation"}, from : 0..MaxVersions, to : Number]

TypeOK ==
  /\ written \in Number
  /\ text \in [Number -> Nat]
  /\ placed \in 0..written
  /\ events \in SUBSET Event
  /\ pc \in [Writer -> {"idle", "saving", "reading", "moving", "announcing", "telling", "done"}]
  /\ saves \in [Writer -> BOOLEAN]
  /\ seen \in [Writer -> 0..MaxVersions]
  /\ number \in [Writer -> 0..MaxVersions]
  /\ \A w \in Writer : pc[w] \in {"reading", "moving"} => number[w] \in 1..written
  /\ left \in [Writer -> SUBSET Key]
  /\ redis \in [Key -> Answer]
  /\ excused \in SUBSET Key
  /\ fetch \in [Client -> [Key -> [step : {"idle", "asked", "missed", "read", "answering"},
                                   answer : Answer]]]
  /\ memory \in [Client -> [Key -> Answer]]
  /\ age \in [Client -> [Key -> {"fresh", "old", "ancient"}]]
  /\ faults \in 0..MaxFaults

(* The prompt has been created with its first version, published or not.   *)
Init ==
  /\ written = 1 /\ text = [n \in Number |-> IF n = 1 THEN 1 ELSE 0]
  /\ \/ placed = 0 /\ events = {}
     \/ placed = 1 /\ events = {[by |-> "creation", from |-> 0, to |-> 1]}
  /\ pc = [w \in Writer |-> "idle"]
  /\ saves = [w \in Writer |-> FALSE]
  /\ seen = [w \in Writer |-> 0]
  /\ number = [w \in Writer |-> 0]
  /\ left = [w \in Writer |-> {}]
  /\ redis = [k \in Key |-> NoAnswer] /\ excused = {}
  /\ fetch = [c \in Client |-> [k \in Key |-> Idle]]
  /\ memory = [c \in Client |-> [k \in Key |-> NoAnswer]]
  /\ age = [c \in Client |-> [k \in Key |-> "fresh"]]
  /\ faults = 0

Saying(n) == IF n = 0 THEN NoAnswer ELSE <<n, text[n]>>

(* Mutant: a prompt that was never published answers with its newest.      *)
CurrentOrNewest(k) ==
  CASE k = "default" -> Saying(IF placed = 0 THEN written ELSE placed)
    [] k = "latest"  -> Saying(written)
    [] OTHER         -> Saying(1)

(* What Postgres answers: the version on the default channel, never the    *)
(* newest one; the newest; the first version by its number.                *)
Current(k) ==
  CASE k = "default" -> Saying(placed)
    [] k = "latest"  -> Saying(written)
    [] OTHER         -> Saying(1)

Breaks ==
  /\ faults < MaxFaults
  /\ faults' = faults + 1

---------------------------------------------------------------------------
(* addVersion                                                              *)

(* versions.append reads the newest number.                                *)
Save(w) ==
  /\ pc[w] = "idle"
  /\ pc' = [pc EXCEPT ![w] = "saving"]
  /\ saves' = [saves EXCEPT ![w] = TRUE]
  /\ seen' = [seen EXCEPT ![w] = written]
  /\ UNCHANGED <<store, number, left, kept, client, faults>>

(* Mutant: the insert is an upsert.                                        *)
SaveUpserts(w) ==
  /\ pc[w] = "saving"
  /\ seen[w] < MaxVersions
  /\ written' = IF seen[w] = written THEN written + 1 ELSE written
  /\ text' = [text EXCEPT ![seen[w] + 1] = @ + 1]
  /\ number' = [number EXCEPT ![w] = seen[w] + 1]
  /\ left' = [left EXCEPT ![w] = Key]
  /\ \E publish \in BOOLEAN :
       pc' = [pc EXCEPT ![w] = IF publish THEN "reading" ELSE "telling"]
  /\ UNCHANGED <<placed, events, saves, seen, kept, client, faults>>

(* It inserts the next; then the version is published or not.              *)
SaveInserts(w) ==
  /\ pc[w] = "saving"
  /\ seen[w] = written
  /\ written < MaxVersions
  /\ written' = written + 1
  /\ text' = [text EXCEPT ![written + 1] = 1]
  /\ number' = [number EXCEPT ![w] = written + 1]
  /\ left' = [left EXCEPT ![w] = Key]
  /\ \E publish \in BOOLEAN :
       pc' = [pc EXCEPT ![w] = IF publish THEN "reading" ELSE "telling"]
  /\ UNCHANGED <<placed, events, saves, seen, kept, client, faults>>

(* Another has taken the number: it starts over, three times, and is       *)
(* refused with VersionConflict after that.                                *)
SaveConflicts(w) ==
  /\ pc[w] = "saving"
  /\ seen[w] < written
  /\ \/ seen' = [seen EXCEPT ![w] = written] /\ UNCHANGED pc
     \/ pc' = [pc EXCEPT ![w] = "done"] /\ UNCHANGED seen
  /\ UNCHANGED <<store, saves, number, left, kept, client, faults>>

(* Mutant: what is kept is left alone.                                     *)
OverwriteUntold(w, n) ==
  /\ pc[w] = "idle"
  /\ n <= written
  /\ text' = [text EXCEPT ![n] = @ + 1]
  /\ pc' = [pc EXCEPT ![w] = "done"]
  /\ UNCHANGED <<written, placed, events, saves, seen, number, left, kept, client, faults>>

(* updateVersion overwrites what a version says.                           *)
Overwrite(w, n) ==
  /\ pc[w] = "idle"
  /\ n <= written
  /\ text' = [text EXCEPT ![n] = @ + 1]
  /\ left' = [left EXCEPT ![w] = Key]
  /\ pc' = [pc EXCEPT ![w] = "telling"]
  /\ UNCHANGED <<written, placed, events, saves, seen, number, kept, client, faults>>

---------------------------------------------------------------------------
(* publishVersion                                                          *)

(* setChannel finds the version.                                           *)
Promote(w, n) ==
  /\ pc[w] = "idle"
  /\ n <= written
  /\ number' = [number EXCEPT ![w] = n]
  /\ pc' = [pc EXCEPT ![w] = "reading"]
  /\ UNCHANGED <<store, saves, seen, left, kept, client, faults>>

(* movePromptChannel reads the placement; no lock is taken.                *)
MoveReads(w) ==
  /\ pc[w] = "reading"
  /\ seen' = [seen EXCEPT ![w] = placed]
  /\ pc' = [pc EXCEPT ![w] = "moving"]
  /\ UNCHANGED <<store, saves, number, left, kept, client, faults>>

(* Mutant: a first placement that is there already is moved.               *)
MoveUpserts(w) ==
  /\ pc[w] = "moving"
  /\ placed' = number[w]
  /\ events' = events \cup {[by |-> w, from |-> seen[w], to |-> number[w]]}
  /\ left' = [left EXCEPT ![w] = Key]
  /\ pc' = [pc EXCEPT ![w] = "announcing"]
  /\ UNCHANGED <<written, text, saves, seen, number, kept, client, faults>>

(* It updates the placement, by its id, or inserts the first one, and      *)
(* records the event in the same transaction, from the version it read.    *)
MoveWrites(w) ==
  /\ pc[w] = "moving"
  /\ seen[w] = 0 => placed = 0
  /\ placed' = number[w]
  /\ events' = events \cup {[by |-> w, from |-> seen[w], to |-> number[w]]}
  /\ left' = [left EXCEPT ![w] = Key]
  /\ pc' = [pc EXCEPT ![w] = "announcing"]
  /\ UNCHANGED <<written, text, saves, seen, number, kept, client, faults>>

(* The request ends with keys it has not deleted.                          *)
Leaves(w) ==
  /\ pc' = [pc EXCEPT ![w] = "done"]
  /\ left' = [left EXCEPT ![w] = {}]
  /\ excused' = excused \cup left[w]
  /\ UNCHANGED <<store, saves, seen, number, redis, client>>

(* Two first placements: the second meets the unique index, and its        *)
(* request fails, after the version was saved or not.                      *)
MoveCollides(w) ==
  /\ pc[w] = "moving"
  /\ seen[w] = 0 /\ placed # 0
  /\ Leaves(w)
  /\ UNCHANGED faults

---------------------------------------------------------------------------
(* promptCache.invalidate                                                  *)

Tell(w, k) ==
  /\ pc[w] \in {"announcing", "telling"}
  /\ k \in left[w]
  /\ left' = [left EXCEPT ![w] = @ \ {k}]
  /\ redis' = [redis EXCEPT ![k] = NoAnswer]
  /\ excused' = excused \ {k}
  /\ UNCHANGED <<store, pc, saves, seen, number, client, faults>>

(* addVersion deletes them a second time.                                  *)
ToldAll(w) ==
  /\ pc[w] \in {"announcing", "telling"}
  /\ left[w] = {}
  /\ IF pc[w] = "announcing" /\ saves[w]
       THEN pc' = [pc EXCEPT ![w] = "telling"] /\ left' = [left EXCEPT ![w] = Key]
       ELSE pc' = [pc EXCEPT ![w] = "done"] /\ UNCHANGED left
  /\ UNCHANGED <<store, saves, seen, number, kept, client, faults>>

(* The server dies, the store fails, or Redis cannot be reached, which is  *)
(* only logged.                                                            *)
WriterBreaks(w) ==
  /\ pc[w] \notin {"idle", "done"}
  /\ Breaks
  /\ Leaves(w)

(* EX ttlSeconds                                                           *)
Expire(k) ==
  /\ redis[k] # NoAnswer
  /\ redis' = [redis EXCEPT ![k] = NoAnswer]
  /\ excused' = excused \ {k}
  /\ UNCHANGED <<store, writer, client, faults>>

---------------------------------------------------------------------------
(* PromptResolution.get, for a client that asks.                           *)

To(c, k, step, answer) ==
  fetch' = [fetch EXCEPT ![c][k] = [step |-> step, answer |-> answer]]

(* The client has nothing, or nothing younger than a day: load.            *)
Ask(c, k) ==
  /\ fetch[c][k].step = "idle"
  /\ memory[c][k] = NoAnswer \/ age[c][k] = "ancient"
  /\ To(c, k, "asked", NoAnswer)
  /\ UNCHANGED <<store, writer, kept, memory, age, faults>>

(* Mutant: what is used is kept, and counts as new.                        *)
RefreshRenews(c, k) ==
  /\ memory[c][k] # NoAnswer /\ age[c][k] = "old"
  /\ age' = [age EXCEPT ![c][k] = "fresh"]
  /\ UNCHANGED <<store, writer, kept, fetch, memory, faults>>

(* It has answered with what is old, unless that is a pinned version:      *)
(* revalidate.                                                             *)
Refresh(c, k) ==
  /\ fetch[c][k].step = "idle"
  /\ memory[c][k] # NoAnswer /\ age[c][k] = "old"
  /\ k # "pinned"
  /\ To(c, k, "asked", NoAnswer)
  /\ UNCHANGED <<store, writer, kept, memory, age, faults>>

(* cache.get                                                               *)
LookUp(c, k) ==
  /\ fetch[c][k].step = "asked"
  /\ IF redis[k] = NoAnswer
       THEN To(c, k, "missed", NoAnswer)
       ELSE To(c, k, "answering", redis[k])
  /\ UNCHANGED <<store, writer, kept, memory, age, faults>>

(* The statement that reads the version; a prompt that is not there is an  *)
(* error.                                                                  *)
Read(c, k) ==
  /\ fetch[c][k].step = "missed"
  /\ IF Current(k) = NoAnswer
       THEN To(c, k, "idle", NoAnswer)
       ELSE To(c, k, "read", Current(k))
  /\ UNCHANGED <<store, writer, kept, memory, age, faults>>

(* cache.set                                                               *)
Fill(c, k) ==
  /\ fetch[c][k].step = "read"
  /\ redis' = [redis EXCEPT ![k] = fetch[c][k].answer]
  /\ excused' = IF fetch[c][k].answer = Current(k) THEN excused \ {k} ELSE excused \cup {k}
  /\ To(c, k, "answering", fetch[c][k].answer)
  /\ UNCHANGED <<store, writer, memory, age, faults>>

(* A set that fails is only logged.                                        *)
FillFails(c, k) ==
  /\ fetch[c][k].step = "read"
  /\ Breaks
  /\ To(c, k, "answering", fetch[c][k].answer)
  /\ UNCHANGED <<store, writer, kept, memory, age>>

(* The client keeps the answer.                                            *)
Arrive(c, k) ==
  /\ fetch[c][k].step = "answering"
  /\ memory' = [memory EXCEPT ![c][k] = fetch[c][k].answer]
  /\ age' = [age EXCEPT ![c][k] = "fresh"]
  /\ To(c, k, "idle", NoAnswer)
  /\ UNCHANGED <<store, writer, kept, faults>>

(* The API cannot be reached.  A refresh that fails may cost the client    *)
(* what it had, which is for the library's cache to say.                   *)
AskFails(c, k) ==
  /\ fetch[c][k].step # "idle"
  /\ Breaks
  /\ To(c, k, "idle", NoAnswer)
  /\ \/ UNCHANGED <<memory, age>>
     \/ /\ age[c][k] = "old"
        /\ memory' = [memory EXCEPT ![c][k] = NoAnswer]
        /\ age' = [age EXCEPT ![c][k] = "fresh"]
  /\ UNCHANGED <<store, writer, kept>>

(* A promote or an update by this client has been answered: forget.        *)
Forget(c) ==
  /\ \E k \in Key : memory[c][k] # NoAnswer
  /\ memory' = [memory EXCEPT ![c] = [k \in Key |-> NoAnswer]]
  /\ age' = [age EXCEPT ![c] = [k \in Key |-> "fresh"]]
  /\ UNCHANGED <<store, writer, kept, fetch, faults>>

(* Fifteen seconds, ttlMs.                                                 *)
GrowOld(c, k) ==
  /\ memory[c][k] # NoAnswer
  /\ age[c][k] = "fresh"
  /\ age' = [age EXCEPT ![c][k] = "old"]
  /\ UNCHANGED <<store, writer, kept, fetch, memory, faults>>

(* A day, maxStaleMs.                                                      *)
Age(c, k) ==
  /\ memory[c][k] # NoAnswer
  /\ age[c][k] = "old"
  /\ age' = [age EXCEPT ![c][k] = "ancient"]
  /\ UNCHANGED <<store, writer, kept, fetch, memory, faults>>

---------------------------------------------------------------------------
Writing(w) ==
  \/ Save(w) \/ SaveInserts(w) \/ SaveConflicts(w)
  \/ \E n \in Number : Overwrite(w, n) \/ Promote(w, n)
  \/ MoveReads(w) \/ MoveWrites(w) \/ MoveCollides(w)
  \/ \E k \in Key : Tell(w, k)
  \/ ToldAll(w) \/ WriterBreaks(w)

Asking(c, k) ==
  Ask(c, k) \/ Refresh(c, k) \/ LookUp(c, k) \/ Read(c, k) \/ Fill(c, k) \/ Arrive(c, k)

Next ==
  \/ \E w \in Writer : Writing(w)
  \/ \E c \in Client, k \in Key :
       \/ Asking(c, k) \/ FillFails(c, k) \/ AskFails(c, k)
       \/ GrowOld(c, k) \/ Age(c, k)
  \/ \E c \in Client : Forget(c)
  \/ \E k \in Key : Expire(k)

Spec == Init /\ [][Next]_vars

(* Time passes, for Redis and in the clients, and a client that is used    *)
(* goes on asking.                                                         *)
Fairness ==
  /\ \A k \in Key : WF_vars(Expire(k))
  /\ \A c \in Client, k \in Key :
       WF_vars(Asking(c, k)) /\ WF_vars(GrowOld(c, k)) /\ WF_vars(Age(c, k))

FairSpec == Spec /\ Fairness

---------------------------------------------------------------------------
(* What Redis keeps is what Postgres says, unless someone who has just     *)
(* changed the prompt will delete it, or one of two things went wrong: a   *)
(* deletion did not happen, or the answer was read before a change and     *)
(* kept after its deletion.                                                *)
StaleIsExcused ==
  \A k \in Key :
    redis[k] \in {NoAnswer, Current(k)} \/ k \in excused \/ \E w \in Writer : k \in left[w]

(* A channel has one first move, the only one from nowhere, and every other *)
(* starts from a version that a move brought there, whichever moves read   *)
(* the placement before the others wrote it (prompt-events.ts: null on a   *)
(* channel's first move).                                                  *)
MovesStartOnce ==
  \A e \in events :
    IF e.from = 0
      THEN \A f \in events : f.from = 0 => f = e
      ELSE \E f \in events : f.to = e.from

(* An answer under this key is a version the prompt had when it was read,  *)
(* saying what it said at some time: on the default channel one that was   *)
(* published, and a pinned one the one that was asked for.                 *)
Genuine(k, answer) ==
  answer # NoAnswer =>
    /\ answer[1] \in 1..written
    /\ answer[2] \in 1..text[answer[1]]
    /\ k = "default" => \E e \in events : e.to = answer[1]
    /\ k = "pinned" => answer[1] = 1

(* Whatever is kept too late, not deleted, overtaken or refused, what is   *)
(* served on the default channel was published at some time: a draft never *)
(* reaches a client, from Postgres, from Redis or from its memory          *)
(* (prompt-resolution.ts: "answering with the newest would ship every      *)
(* draft the moment it was written").                                      *)
ServedWasPublished ==
  \A k \in Key :
    /\ Genuine(k, redis[k])
    /\ \A c \in Client : Genuine(k, fetch[c][k].answer) /\ Genuine(k, memory[c][k])

(* Two saves never get the same version.                                   *)
SavesGetTheirOwnNumber ==
  \A v, w \in Writer :
    v # w /\ saves[v] /\ saves[w] /\ number[v] # 0 => number[v] # number[w]

(* Once nobody changes the prompt any more, what a client keeps comes to   *)
(* be what Postgres says, through both caches, whatever was kept too late  *)
(* or not deleted.                                                         *)
PublishReachesClients ==
  \A c \in Client, k \in Key : <>[](memory[c][k] \in {NoAnswer, Current(k)})
=============================================================================
