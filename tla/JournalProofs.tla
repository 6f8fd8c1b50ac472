--------------------------- MODULE JournalProofs ---------------------------
(***************************************************************************)
(* Proofs about Journal, for any numbers of attempts, events, servers and  *)
(* readers, and however often an append fails, when no trial is opened     *)
(* while it is being compacted.                                            *)
(***************************************************************************)
EXTENDS Journal, SequenceTheorems, TLAPS

(* What an append leaves is a journal, and it keeps every row there was.   *)
LEMMA InsertedKeeps ==
  ASSUME rows \in Seq(Event \cup {Hole}), NEW from \in Nat, NEW events \in Seq(Event)
  PROVE  /\ Inserted(from, events) \in Seq(Event \cup {Hole})
         /\ Len(Inserted(from, events)) = Larger(Len(rows), from + Len(events))
         /\ Len(rows) <= Len(Inserted(from, events))
         /\ from + Len(events) <= Len(Inserted(from, events))
         /\ \A i \in 1..Len(Inserted(from, events)) :
              Inserted(from, events)[i] =
                IF i <= Len(rows) /\ rows[i] # Hole THEN rows[i]
                ELSE IF i > from /\ i <= from + Len(events) THEN events[i - from] ELSE Hole
<1>. DEFINE n == Larger(Len(rows), from + Len(events))
<1>1. n \in Nat /\ Len(rows) <= n /\ from + Len(events) <= n
  BY DEF Larger
<1>2. \A i \in 1..n :
        (IF i <= Len(rows) /\ rows[i] # Hole THEN rows[i]
         ELSE IF i > from /\ i <= from + Len(events) THEN events[i - from] ELSE Hole)
        \in Event \cup {Hole}
  OBVIOUS
<1>3. Inserted(from, events) \in [1..n -> Event \cup {Hole}]
  BY <1>2 DEF Inserted
<1>4. Inserted(from, events) \in Seq(Event \cup {Hole})
  BY <1>1, <1>3, IsASeq
<1>5. Len(Inserted(from, events)) = n
  BY <1>1, <1>3, <1>4, LenProperties
<1>. QED
  BY <1>1, <1>4, <1>5 DEF Inserted

(* The rows, the sink, the transactions of the servers and the answers of  *)
(* the readers keep their types; an attempt that is under way was opened.  *)
THEOREM TypeCorrect == Spec => []TypeOK
<1>0. <<>> \in Seq(Event) /\ <<>> \in Seq(Event \cup {Hole})
  BY EmptySeq
<1>1. Init => TypeOK
  <2>. SUFFICES ASSUME Init PROVE TypeOK
    OBVIOUS
  <2>1. compaction \in [Server -> [step : {"idle", "chosen", "copied"},
                                copy : Seq(Event \cup {Hole})]]
    BY <1>0 DEF Init, Idle
  <2>2. answer \in [Reader -> Seq(Event \cup {Hole})] /\ floor \in [Reader -> Nat]
        /\ asking \in [Reader -> BOOLEAN]
    BY <1>0 DEF Init
  <2>3. trial \in TrialRow
    BY DEF Init, TrialRow, TrialStatus, NoTrial
  <2>4. /\ attempt \in 0..MaxAttempts /\ faults \in 0..MaxFaults
        /\ tried \in Nat /\ reported \in Nat
        /\ phase = "none" /\ verdict = "none" /\ chunk = <<>>
    BY JournalAssumption DEF Init
  <2>6. aged \in BOOLEAN /\ lost \in BOOLEAN
    BY DEF Init
  <2>5. /\ rows \in Seq(Event \cup {Hole}) /\ archive \in Seq(Event \cup {Hole})
        /\ heard \in Seq(Event) /\ chunk \in Seq(Event) /\ stood \in Seq(Event)
    BY <1>0 DEF Init
  <2>. QED
    BY <2>1, <2>2, <2>3, <2>4, <2>5, <2>6 DEF TypeOK
<1>2. TypeOK /\ [Next]_vars => TypeOK'
  <2>. SUFFICES ASSUME TypeOK, [Next]_vars PROVE TypeOK'
    OBVIOUS
  <2>. USE JournalAssumption, <1>0 DEF TypeOK, TrialRow, TrialStatus, store, sink, ending, reading
  <2>1. ASSUME Open PROVE TypeOK'
    <3>1. attempt + 1 \in 0..MaxAttempts /\ attempt + 1 > 0
      BY <2>1 DEF Open
    <3>2. trial' \in TrialRow
      BY <2>1 DEF Open, Opened
    <3>. QED
      BY <2>1, <3>1, <3>2 DEF Open
  <2>2. ASSUME Recorded PROVE TypeOK'
    <3>1. rows' \in Seq(Event \cup {Hole})
      BY <2>2, InsertedKeeps DEF Recorded, Insert
    <3>. QED
      BY <2>2, <3>1 DEF Recorded, Insert, PassOn
  <2>3. ASSUME Retries PROVE TypeOK'
    <3>1. rows' \in Seq(Event \cup {Hole})
      <4>1. CASE Insert
        BY <2>3, <4>1, InsertedKeeps DEF Insert
      <4>2. CASE UNCHANGED store
        BY <4>2
      <4>. QED
        BY <2>3, <4>1, <4>2 DEF Retries, Fails
    <3>2. aged' \in BOOLEAN /\ archive' = archive /\ trial' = trial
      BY <2>3 DEF Retries, Fails, Insert
    <3>. QED
      BY <2>3, <3>1, <3>2 DEF Retries, Fails, PassOn
  <2>4. ASSUME GivesUp PROVE TypeOK'
    <3>1. rows' \in Seq(Event \cup {Hole})
      <4>1. CASE Insert
        BY <2>4, <4>1, InsertedKeeps DEF Insert
      <4>2. CASE UNCHANGED store
        BY <4>2
      <4>. QED
        BY <2>4, <4>1, <4>2 DEF GivesUp, Fails
    <3>2. aged' \in BOOLEAN /\ archive' = archive /\ trial' = trial
      BY <2>4 DEF GivesUp, Fails, Insert
    <3>. QED
      BY <2>4, <3>1, <3>2 DEF GivesUp, Fails, PassOn
  <2>5. ASSUME NEW k \in 1..MaxChunk, Hear(k) PROVE TypeOK'
    <3>1. \A i \in 1..k : [attempt |-> attempt, n |-> Len(heard) + i] \in Event
      BY <2>5 DEF Hear, Event
    <3>2. chunk' \in [1..k -> Event]
      BY <2>5, <3>1 DEF Hear
    <3>3. chunk' \in Seq(Event)
      BY <3>2, SeqDef
    <3>. QED
      BY <2>5, <3>3 DEF Hear
  <2>6. ASSUME Score PROVE TypeOK'
    BY <2>6 DEF Score
  <2>7. ASSUME Fail PROVE TypeOK'
    <3>1. heard' \in Seq(Event)
      BY <2>7 DEF Fail, PassOn
    <3>. QED
      BY <2>7, <3>1 DEF Fail, PassOn
  <2>8. ASSUME Settle PROVE TypeOK'
    BY <2>8 DEF Settle, Abandoned, SettledAs
  <2>9. ASSUME Crash PROVE TypeOK'
    BY <2>9 DEF Crash
  <2>10. ASSUME Sweep PROVE TypeOK'
    BY <2>10 DEF Sweep, Swept
  <2>11. ASSUME Age PROVE TypeOK'
    BY <2>11 DEF Age
  <2>12. ASSUME NEW s \in Server, Choose(s) PROVE TypeOK'
    BY <2>12 DEF Choose
  <2>13. ASSUME NEW s \in Server, Copy(s) PROVE TypeOK'
    BY <2>13 DEF Copy, Idle
  <2>14. ASSUME NEW s \in Server, Replace(s) PROVE TypeOK'
    BY <2>14 DEF Replace, Idle
  <2>15. ASSUME NEW s \in Server, RollBack(s) PROVE TypeOK'
    BY <2>15 DEF RollBack, Idle
  <2>16. ASSUME NEW r \in Reader, ReadRows(r) PROVE TypeOK'
    <3>1. CASE rows # <<>>
      BY <2>16, <3>1 DEF ReadRows
    <3>2. CASE rows = <<>>
      <4>1. Len(Log) \in Nat
        BY LenProperties DEF Log
      <4>. QED
        BY <2>16, <3>2, <4>1 DEF ReadRows
    <3>. QED
      BY <3>1, <3>2
  <2>17. ASSUME NEW r \in Reader, ReadArchive(r) PROVE TypeOK'
    BY <2>17 DEF ReadArchive
  <2>18. CASE UNCHANGED vars
    BY <2>18 DEF vars
  <2>. QED
    BY <2>1, <2>2, <2>3, <2>4, <2>5, <2>6, <2>7, <2>8, <2>9, <2>10, <2>11, <2>12, <2>13, <2>14, <2>15, <2>16, <2>17, <2>18 DEF Next
<1>. QED
  BY <1>1, <1>2, PTL DEF Spec

---------------------------------------------------------------------------
(* The n-th event of this attempt.                                         *)
Nth(n) == [attempt |-> attempt, n |-> n]

(* Only a settled trial is compacted, and what a transaction has copied is *)
(* what is in the rows, or what another server has archived meanwhile.     *)
MovedWhole ==
  /\ Compacting => Settled(trial)
  /\ archive # <<>> => rows = <<>> /\ Settled(trial)
  /\ \A s \in Server :
       compaction[s].step = "copied" => compaction[s].copy = Log

(* No chunk was given up, nor dropped when the attempt failed.             *)
Whole == ~lost /\ verdict # "failed"

(* While none was, the offset says how much was heard, and                 *)
(* the rows are what was heard and perhaps some of the chunk at hand.      *)
SinkInv ==
  phase # "none" =>
    /\ trial.status = "running"
    /\ \A i \in 1..Len(heard) : heard[i] = Nth(i)
    /\ \A i \in 1..Len(chunk) : chunk[i] = Nth(Len(heard) + i)
    /\ reported <= Len(rows)
    /\ phase = "running" => verdict = "none"
    /\ Whole =>
         /\ reported = Len(heard)
         /\ \A i \in 1..Len(rows) : rows[i] = Nth(i)

(* No seq is left out.                                                     *)
NoHoles ==
  /\ \A i \in 1..Len(rows) : rows[i] # Hole
  /\ \A i \in 1..Len(archive) : archive[i] # Hole

(* What a verdict rests on.                                                *)
StoodInv ==
  (phase = "closing" /\ verdict = "scored") \/ trial.status = "scored" =>
    /\ Len(stood) <= Len(Log)
    /\ \A i \in 1..Len(stood) : stood[i] = Log[i]

JournalInv == MovedWhole /\ SinkInv /\ NoHoles /\ StoodInv

(* What an attempt reports is never the mark of a missing event.           *)
LEMMA EventIsNoHole == \A e \in Event : e # Hole
  BY DEF Event, Hole

(* An append of the chunk at the sink's offset keeps what the invariant    *)
(* says of the rows.                                                       *)
LEMMA InsertPreserves ==
  ASSUME TypeOK, SinkInv, NoHoles, phase # "none", chunk # <<>>, Insert
  PROVE  /\ rows' # <<>>
         /\ Len(rows) <= Len(rows')
         /\ \A i \in 1..Len(rows) : rows'[i] = rows[i]
         /\ \A i \in 1..Len(rows') : rows'[i] # Hole
         /\ reported + Len(chunk) <= Len(rows')
         /\ Whole => \A i \in 1..Len(rows') : rows'[i] = Nth(i)
<1>. USE DEF TypeOK
<1>1. /\ rows' \in Seq(Event \cup {Hole})
      /\ Len(rows') = Larger(Len(rows), reported + Len(chunk))
      /\ Len(rows) <= Len(rows')
      /\ reported + Len(chunk) <= Len(rows')
      /\ \A i \in 1..Len(rows') :
           rows'[i] = IF i <= Len(rows) /\ rows[i] # Hole THEN rows[i]
                      ELSE IF i > reported /\ i <= reported + Len(chunk)
                             THEN chunk[i - reported] ELSE Hole
  BY InsertedKeeps DEF Insert
<1>2. Len(chunk) \in Nat \ {0} /\ Len(rows) \in Nat /\ Len(heard) \in Nat
  BY EmptySeq, LenProperties
<1>3. rows' # <<>>
  BY <1>1, <1>2, EmptySeq
<1>4. \A i \in 1..Len(rows) : rows'[i] = rows[i]
  BY <1>1, <1>2 DEF NoHoles
<1>5. \A i \in 1..Len(rows') : i > Len(rows) =>
        /\ i - reported \in 1..Len(chunk)
        /\ rows'[i] = chunk[i - reported]
  BY <1>1, <1>2 DEF SinkInv, Larger
<1>6. \A i \in 1..Len(rows') : rows'[i] # Hole
  <2>1. TAKE i \in 1..Len(rows')
  <2>2. CASE i <= Len(rows)
    <3>1. i \in 1..Len(rows)
      BY <1>1, <1>2, <2>2, LenProperties
    <3>. QED
      BY <1>4, <3>1 DEF NoHoles
  <2>3. CASE i > Len(rows)
    <3>1. chunk[i - reported] \in Event
      BY <1>5, <2>3, LenProperties
    <3>. QED
      BY <1>5, <2>3, <3>1, EventIsNoHole
  <2>. QED
    BY <1>1, <1>2, <2>2, <2>3, LenProperties
<1>7. ASSUME Whole PROVE \A i \in 1..Len(rows') : rows'[i] = Nth(i)
  <2>1. TAKE i \in 1..Len(rows')
  <2>2. CASE i <= Len(rows)
    <3>1. i \in 1..Len(rows)
      BY <1>1, <1>2, <2>2, LenProperties
    <3>. QED
      BY <1>4, <1>7, <3>1 DEF SinkInv
  <2>3. CASE i > Len(rows)
    <3>1. chunk[i - reported] = Nth(Len(heard) + (i - reported)) /\ reported = Len(heard)
      BY <1>5, <1>7, <2>3 DEF SinkInv
    <3>2. Len(heard) + (i - reported) = i
      BY <1>2, <3>1
    <3>. QED
      BY <1>5, <2>3, <3>1, <3>2
  <2>. QED
    BY <1>1, <1>2, <2>2, <2>3, LenProperties
<1>. QED
  BY <1>1, <1>3, <1>4, <1>6, <1>7

(* What was heard and the chunk after it, as one.                          *)
LEMMA PassOnPreserves ==
  ASSUME TypeOK, SinkInv, phase # "none", PassOn, attempt' = attempt
  PROVE  /\ Len(heard') = Len(heard) + Len(chunk)
         /\ \A i \in 1..Len(heard') : heard'[i] = Nth(i)'
         /\ Len(chunk') = 0
<1>. USE DEF TypeOK
<1>1. /\ Len(heard') = Len(heard) + Len(chunk)
      /\ \A i \in 1..Len(heard') :
           heard'[i] = IF i <= Len(heard) THEN heard[i] ELSE chunk[i - Len(heard)]
  BY ConcatProperties DEF PassOn
<1>2. Len(chunk) \in Nat /\ Len(heard) \in Nat
  BY LenProperties
<1>3. \A i \in 1..Len(heard') : heard'[i] = Nth(i)
  <2>1. TAKE i \in 1..Len(heard')
  <2>2. CASE i <= Len(heard)
    <3>1. i \in 1..Len(heard)
      BY <1>1, <1>2, <2>2
    <3>. QED
      BY <1>1, <2>2, <3>1 DEF SinkInv
  <2>3. CASE i > Len(heard)
    <3>1. i - Len(heard) \in 1..Len(chunk) /\ Len(heard) + (i - Len(heard)) = i
      BY <1>1, <1>2, <2>3
    <3>2. chunk[i - Len(heard)] = Nth(Len(heard) + (i - Len(heard)))
      BY <3>1 DEF SinkInv
    <3>. QED
      BY <1>1, <1>2, <2>3, <3>1, <3>2
  <2>. QED
    BY <1>1, <1>2, <2>2, <2>3
<1>4. Len(chunk') = 0
  BY EmptySeq DEF PassOn
<1>. QED
  BY <1>1, <1>3, <1>4 DEF Nth

(* While an attempt is under way nobody moves the journal.                 *)
LEMMA Unmoved ==
  ASSUME TypeOK, JournalInv, phase # "none"
  PROVE  archive = <<>> /\ ~Compacting /\ Log = rows /\ trial.status = "running"
<1>1. trial.status = "running"
  BY DEF JournalInv, SinkInv
<1>2. ~Settled(trial)
  BY <1>1 DEF Settled
<1>. QED
  BY <1>1, <1>2 DEF JournalInv, MovedWhole, Log

(* An attempt to append, whether it reaches the store or not.              *)
LEMMA AppendPreserves ==
  ASSUME TypeOK, JournalInv, phase # "none", chunk # <<>>,
         Insert \/ UNCHANGED store,
         UNCHANGED <<phase, verdict, stood, compaction>>
  PROVE  MovedWhole' /\ NoHoles' /\ StoodInv' /\ trial' = trial
<1>1. trial' = trial /\ archive' = archive
  BY DEF Insert, store
<1>2. archive = <<>> /\ ~Compacting /\ Log = rows /\ trial.status = "running"
  BY Unmoved
<1>3. \A s \in Server : compaction[s].step = "idle"
  BY <1>2 DEF Compacting
<1>4. MovedWhole'
  BY <1>1, <1>2, <1>3 DEF MovedWhole, Compacting
<1>5. /\ Len(rows) <= Len(rows')
      /\ \A i \in 1..Len(rows) : rows'[i] = rows[i]
      /\ \A i \in 1..Len(rows') : rows'[i] # Hole
      /\ Log' = rows'
  <2>1. CASE Insert
    BY <1>1, <1>2, <2>1, InsertPreserves DEF JournalInv, Log
  <2>2. CASE UNCHANGED store
    BY <1>1, <1>2, <2>2, LenProperties DEF JournalInv, NoHoles, store, Log, TypeOK
  <2>. QED
    BY <2>1, <2>2
<1>6. NoHoles'
  BY <1>1, <1>5, <1>2, EmptySeq DEF NoHoles, JournalInv
<1>7. StoodInv'
  <2>1. SUFFICES ASSUME phase = "closing", verdict = "scored" PROVE StoodInv'
    BY <1>1, <1>2 DEF StoodInv
  <2>2. Len(stood) <= Len(rows) /\ \A i \in 1..Len(stood) : stood[i] = rows[i]
    BY <1>2, <2>1 DEF JournalInv, StoodInv
  <2>3. Len(stood) \in Nat /\ Len(rows) \in Nat /\ Len(stood) <= Len(rows')
    BY <1>5, <2>2, LenProperties DEF TypeOK
  <2>4. \A i \in 1..Len(stood) : stood[i] = rows'[i]
    BY <1>5, <2>2, <2>3
  <2>. QED
    BY <1>5, <2>3, <2>4 DEF StoodInv
<1>. QED
  BY <1>1, <1>4, <1>6, <1>7

(* Nothing is lost on the way from the harness to the journal, and from    *)
(* the rows to the archive.                                                *)
LEMMA JournalInvariant == ~Races => (Spec => []JournalInv)
<1>. SUFFICES ASSUME ~Races PROVE Spec => []JournalInv
  OBVIOUS
<1>1. Init => JournalInv
  <2>. SUFFICES ASSUME Init PROVE JournalInv
    OBVIOUS
  <2>1. Len(rows) = 0 /\ Len(archive) = 0
    BY EmptySeq DEF Init
  <2>. QED
    BY <2>1 DEF Init, JournalInv, MovedWhole, SinkInv, NoHoles, StoodInv, Compacting, Idle,
                NoTrial
<1>2. TypeOK /\ TypeOK' /\ JournalInv /\ [Next]_vars => JournalInv'
  <2>. SUFFICES ASSUME TypeOK, TypeOK', JournalInv, [Next]_vars PROVE JournalInv'
    OBVIOUS
  <2>. USE DEF TypeOK, JournalInv, store, sink, ending, reading
  <2>0. /\ Len(<<>>) = 0
        /\ Len(rows) \in Nat /\ Len(archive) \in Nat /\ Len(stood) \in Nat
        /\ Len(heard) \in Nat /\ Len(chunk) \in Nat /\ Len(Log) \in Nat
        /\ (rows = <<>> <=> Len(rows) = 0)
    BY EmptySeq, LenProperties DEF Log
  <2>1. ASSUME Open PROVE JournalInv'
    <3>1. ~Compacting /\ ~Compacting'
      BY <2>1 DEF Open, Compacting
    <3>2. MovedWhole'
      BY <2>1, <3>1 DEF Open, MovedWhole, Compacting
    <3>3. SinkInv'
      BY <2>0, <2>1 DEF Open, SinkInv, Whole, Opened
    <3>4. NoHoles' /\ StoodInv'
      BY <2>0, <2>1 DEF Open, NoHoles, StoodInv, Opened
    <3>. QED
      BY <3>2, <3>3, <3>4
  <2>2. ASSUME Recorded PROVE JournalInv'
    <3>1. phase # "none" /\ chunk # <<>>
      BY <2>2 DEF Recorded
    <3>2. MovedWhole' /\ NoHoles' /\ StoodInv' /\ trial' = trial
      BY <2>2, <3>1, AppendPreserves DEF Recorded
    <3>3. /\ Len(rows) <= Len(rows')
          /\ Whole => \A i \in 1..Len(rows') : rows'[i] = Nth(i)
      <4>1. CASE Insert
        BY <3>1, <4>1, InsertPreserves
      <4>2. CASE UNCHANGED store
        BY <2>0, <3>1, <4>2 DEF SinkInv
      <4>. QED
        BY <2>2, <4>1, <4>2 DEF Recorded
    <3>4. /\ Len(heard') = Len(heard) + Len(chunk)
          /\ \A i \in 1..Len(heard') : heard'[i] = Nth(i)'
          /\ Len(chunk') = 0
      BY <2>2, <3>1, PassOnPreserves DEF Recorded
    <3>6. reported + Len(chunk) <= Len(rows')
      BY <2>2, <3>1, InsertPreserves DEF Recorded
    <3>5. SinkInv'
      <4>1. UNCHANGED <<lost, attempt, phase, verdict>> /\ reported' = reported + Len(chunk)
        BY <2>2 DEF Recorded
      <4>2. Whole => reported' = Len(heard')
        BY <3>1, <3>4, <4>1 DEF SinkInv
      <4>. QED
        BY <3>1, <3>2, <3>3, <3>4, <3>6, <4>1, <4>2 DEF SinkInv, Whole, Nth
    <3>. QED
      BY <3>2, <3>5
  <2>3. ASSUME Retries PROVE JournalInv'
    <3>1. phase # "none" /\ chunk # <<>>
      BY <2>3 DEF Retries, Fails
    <3>2. MovedWhole' /\ NoHoles' /\ StoodInv' /\ trial' = trial
      BY <2>3, <3>1, AppendPreserves DEF Retries, Fails
    <3>3. /\ Len(rows) <= Len(rows')
          /\ Whole => \A i \in 1..Len(rows') : rows'[i] = Nth(i)
      <4>1. CASE Insert
        BY <3>1, <4>1, InsertPreserves
      <4>2. CASE UNCHANGED store
        BY <2>0, <3>1, <4>2 DEF SinkInv
      <4>. QED
        BY <2>3, <4>1, <4>2 DEF Retries, Fails
    <3>5. SinkInv'
      BY <2>0, <2>3, <3>1, <3>2, <3>3 DEF Retries, Fails, SinkInv, Whole, Nth
    <3>. QED
      BY <3>2, <3>5
  <2>4. ASSUME GivesUp PROVE JournalInv'
    <3>1. phase # "none" /\ chunk # <<>>
      BY <2>4 DEF GivesUp, Fails
    <3>2. MovedWhole' /\ NoHoles' /\ StoodInv' /\ trial' = trial
      BY <2>4, <3>1, AppendPreserves DEF GivesUp, Fails
    <3>3. /\ Len(rows) <= Len(rows')
          /\ Whole => \A i \in 1..Len(rows') : rows'[i] = Nth(i)
      <4>1. CASE Insert
        BY <3>1, <4>1, InsertPreserves
      <4>2. CASE UNCHANGED store
        BY <2>0, <3>1, <4>2 DEF SinkInv
      <4>. QED
        BY <2>4, <4>1, <4>2 DEF GivesUp, Fails
    <3>4. /\ Len(heard') = Len(heard) + Len(chunk)
          /\ \A i \in 1..Len(heard') : heard'[i] = Nth(i)'
          /\ Len(chunk') = 0
      BY <2>4, <3>1, PassOnPreserves DEF GivesUp
    <3>5. SinkInv'
      BY <2>0, <2>4, <3>1, <3>2, <3>3, <3>4 DEF GivesUp, Fails, SinkInv, Whole, Nth
    <3>. QED
      BY <3>2, <3>5
  <2>5. ASSUME NEW k \in 1..MaxChunk, Hear(k) PROVE JournalInv'
    <3>1. Len(chunk') = k /\ \A i \in 1..k : chunk'[i] = Nth(Len(heard) + i)
      BY <2>5, JournalAssumption DEF Hear, Nth
    <3>2. SinkInv'
      BY <2>0, <2>5, <3>1 DEF Hear, SinkInv, Whole, Nth
    <3>3. MovedWhole' /\ NoHoles' /\ StoodInv'
      BY <2>5 DEF Hear, MovedWhole, Compacting, NoHoles, StoodInv, Log
    <3>. QED
      BY <3>2, <3>3
  <2>6. ASSUME Score PROVE JournalInv'
    <3>0. archive = <<>> /\ ~Compacting /\ Log = rows /\ trial.status = "running"
      BY <2>6, Unmoved DEF Score
    <3>1. MovedWhole' /\ NoHoles' /\ SinkInv'
      BY <2>6 DEF Score, MovedWhole, Compacting, NoHoles, SinkInv, Whole, Log, Nth
    <3>2. ASSUME ~lost PROVE StoodInv'
      <4>1. Len(heard) <= Len(rows) /\ \A i \in 1..Len(heard) : heard[i] = Nth(i) /\ rows[i] = Nth(i)
        BY <2>0, <2>6, <3>2 DEF Score, SinkInv, Whole
      <4>. QED
        BY <2>6, <3>0, <4>1 DEF Score, StoodInv, Log
    <3>3. ASSUME lost PROVE StoodInv'
      BY <2>6, <3>0, <3>3 DEF Score, StoodInv
    <3>. QED
      BY <3>1, <3>2, <3>3
  <2>7. ASSUME Fail PROVE JournalInv'
    <3>1. MovedWhole'
      BY <2>7 DEF Fail, MovedWhole, Compacting, Log
    <3>2. /\ Len(heard') = Len(heard) + Len(chunk)
          /\ \A i \in 1..Len(heard') : heard'[i] = Nth(i)'
          /\ Len(chunk') = 0
      BY <2>7, PassOnPreserves DEF Fail
    <3>4. SinkInv'
      BY <2>0, <2>7, <3>2 DEF Fail, SinkInv, Whole, Nth
    <3>3. NoHoles' /\ StoodInv'
      BY <2>0, <2>7 DEF Fail, NoHoles, StoodInv, Log
    <3>. QED
      BY <3>1, <3>3, <3>4
  <2>8. ASSUME Settle PROVE JournalInv'
    <3>0. archive = <<>> /\ ~Compacting /\ Log = rows /\ trial.status = "running"
      BY <2>8, Unmoved DEF Settle
    <3>1. MovedWhole'
      BY <2>8, <3>0 DEF Settle, MovedWhole, Compacting, Log
    <3>2. SinkInv' /\ NoHoles'
      BY <2>8 DEF Settle, SinkInv, Whole, NoHoles
    <3>3. trial'.status = "scored" => phase = "closing" /\ verdict = "scored"
      BY <2>8, <3>0 DEF Settle, Abandoned, SettledAs, TrialRow
    <3>4. StoodInv'
      BY <2>8, <3>3 DEF Settle, StoodInv, Log
    <3>. QED
      BY <3>1, <3>2, <3>4
  <2>9. ASSUME Crash PROVE JournalInv'
    <3>1. MovedWhole'
      BY <2>9 DEF Crash, MovedWhole, Compacting, Log
    <3>2. SinkInv'
      BY <2>0, <2>9 DEF Crash, SinkInv, Whole, Nth
    <3>3. NoHoles' /\ StoodInv'
      BY <2>0, <2>9 DEF Crash, NoHoles, StoodInv, Log
    <3>. QED
      BY <3>1, <3>2, <3>3
  <2>10. ASSUME Sweep PROVE JournalInv'
    <3>1. MovedWhole'
      BY <2>10 DEF Sweep, MovedWhole, Compacting, Log, Swept, Settled
    <3>2. SinkInv'
      BY <2>0, <2>10 DEF Sweep, SinkInv, Whole, Nth, Swept, Settled
    <3>3. NoHoles' /\ StoodInv'
      BY <2>0, <2>10 DEF Sweep, NoHoles, StoodInv, Log, Swept, Settled
    <3>. QED
      BY <3>1, <3>2, <3>3
  <2>11. ASSUME Age PROVE JournalInv'
    <3>1. MovedWhole'
      BY <2>11 DEF Age, MovedWhole, Compacting, Log
    <3>2. SinkInv'
      BY <2>0, <2>11 DEF Age, SinkInv, Whole, Nth
    <3>3. NoHoles' /\ StoodInv'
      BY <2>0, <2>11 DEF Age, NoHoles, StoodInv, Log
    <3>. QED
      BY <3>1, <3>2, <3>3
  <2>12. ASSUME NEW s \in Server, Choose(s) PROVE JournalInv'
    <3>1. MovedWhole'
      BY <2>12 DEF Choose, MovedWhole, Compacting, Log, Idle, Settled
    <3>2. SinkInv'
      BY <2>0, <2>12 DEF Choose, SinkInv, Whole, Nth, Idle, Settled
    <3>3. NoHoles' /\ StoodInv'
      BY <2>0, <2>12 DEF Choose, NoHoles, StoodInv, Log, Idle, Settled
    <3>. QED
      BY <3>1, <3>2, <3>3
  <2>13. ASSUME NEW s \in Server, Copy(s) PROVE JournalInv'
    <3>1. MovedWhole'
      BY <2>13 DEF Copy, MovedWhole, Compacting, Log, Idle, Settled
    <3>2. SinkInv'
      BY <2>0, <2>13 DEF Copy, SinkInv, Whole, Nth, Idle, Settled
    <3>3. NoHoles' /\ StoodInv'
      BY <2>0, <2>13 DEF Copy, NoHoles, StoodInv, Log, Idle, Settled
    <3>. QED
      BY <3>1, <3>2, <3>3
  <2>14. ASSUME NEW s \in Server, Replace(s) PROVE JournalInv'
    <3>1. Settled(trial) /\ phase = "none" /\ compaction[s].copy = Log
      BY <2>14 DEF Replace, MovedWhole, Compacting, SinkInv, Settled
    <3>2. rows' = <<>> /\ archive' = Log /\ Log' = Log /\ trial' = trial
      BY <2>14, <3>1 DEF Replace, Log
    <3>3. \A t \in Server : compaction'[t].step # "idle" => compaction'[t] = compaction[t]
      BY <2>14 DEF Replace, Idle
    <3>4. MovedWhole'
      BY <3>1, <3>2, <3>3 DEF MovedWhole, Settled
    <3>5. SinkInv'
      BY <2>14, <3>1 DEF Replace, SinkInv
    <3>6. NoHoles' /\ StoodInv'
      BY <2>0, <2>14, <3>2 DEF Replace, NoHoles, StoodInv, Log
    <3>. QED
      BY <3>4, <3>5, <3>6
  <2>15. ASSUME NEW s \in Server, RollBack(s) PROVE JournalInv'
    <3>1. MovedWhole'
      BY <2>15 DEF RollBack, MovedWhole, Compacting, Log, Idle, Settled
    <3>2. SinkInv'
      BY <2>0, <2>15 DEF RollBack, SinkInv, Whole, Nth, Idle, Settled
    <3>3. NoHoles' /\ StoodInv'
      BY <2>0, <2>15 DEF RollBack, NoHoles, StoodInv, Log, Idle, Settled
    <3>. QED
      BY <3>1, <3>2, <3>3
  <2>16. ASSUME NEW r \in Reader, ReadRows(r) \/ ReadArchive(r) PROVE JournalInv'
    <3>1. UNCHANGED <<store, sink, ending, attempt, compaction>>
      BY <2>16 DEF ReadRows, ReadArchive
    <3>2. MovedWhole' /\ NoHoles' /\ StoodInv'
      BY <3>1 DEF MovedWhole, Compacting, NoHoles, StoodInv, Log
    <3>3. SinkInv'
      BY <3>1 DEF SinkInv, Whole, Nth
    <3>. QED
      BY <3>2, <3>3
  <2>17. CASE UNCHANGED vars
    BY <2>17 DEF vars, MovedWhole, Compacting, SinkInv, Whole, NoHoles, StoodInv, Log, Nth
  <2>. QED
    BY <2>1, <2>2, <2>3, <2>4, <2>5, <2>6, <2>7, <2>8, <2>9, <2>10, <2>11, <2>12, <2>13,
       <2>14, <2>15, <2>16, <2>17 DEF Next
<1>. QED
  BY <1>1, <1>2, TypeCorrect, PTL DEF Spec

(* Whatever was refused, retried, recorded without an answer or archived   *)
(* since, the journal of a trial with a verdict that counts holds what was *)
(* heard before the verdict, in order.                                     *)
THEOREM VerdictsStand == ~Races => (Spec => []VerdictStandsOnJournal)
<1>1. StoodInv => VerdictStandsOnJournal
  BY DEF StoodInv, VerdictStandsOnJournal, TL!Begins
<1>. QED
  BY <1>1, JournalInvariant, PTL DEF JournalInv

(* No trial has both rows and an archive.                                  *)
THEOREM HotJournalsAreAlone == ~Races => (Spec => []HotJournalHasNoArchive)
<1>1. MovedWhole => HotJournalHasNoArchive
  BY DEF MovedWhole, HotJournalHasNoArchive
<1>. QED
  BY <1>1, JournalInvariant, PTL DEF JournalInv

---------------------------------------------------------------------------
(* The order of the events in the journal.                                 *)

(* A row below the offset has an event the sink has passed on, and one     *)
(* above it at most the event the chunk at hand has for its seq.           *)
RowsAreBehind ==
  \A i \in 1..Len(rows) :
    rows[i].n <= Len(heard) \/ rows[i].n <= Len(heard) + (i - reported)

OrderInv ==
  /\ LogIsTheAttempts
  /\ phase # "none" => RowsAreBehind

(* Every row, a hole among them, has the number of an event.               *)
LEMMA RowsAreNumbered ==
  ASSUME TypeOK
  PROVE  \A i \in 1..Len(rows) : rows[i].n \in Nat
<1>1. rows \in Seq(Event \cup {Hole})
  BY DEF TypeOK
<1>2. \A i \in 1..Len(rows) : rows[i] \in Event \cup {Hole}
  BY <1>1, ElementOfSeq
<1>3. \A e \in Event \cup {Hole} : e.n \in Nat
  BY DEF Event, Hole
<1>. QED
  BY <1>2, <1>3

(* An append puts later events behind the ones that are there.             *)
LEMMA InsertKeepsOrder ==
  ASSUME TypeOK, TypeOK', JournalInv, OrderInv, phase # "none", chunk # <<>>,
         Insert \/ UNCHANGED store, attempt' = attempt
  PROVE  /\ LogIsTheAttempts'
         /\ \A i \in 1..Len(rows') :
              rows'[i].n <= Len(heard) \/ rows'[i].n <= Len(heard) + (i - reported)
<1>1. archive = <<>> /\ Log = rows /\ archive' = archive
  BY Unmoved DEF Insert, store
<1>2. Log' = rows'
  BY <1>1 DEF Log
<1>3. /\ Len(rows) \in Nat /\ Len(rows') \in Nat /\ Len(heard) \in Nat /\ Len(chunk) \in Nat
      /\ reported \in Nat /\ reported <= Len(rows)
  BY LenProperties DEF TypeOK, JournalInv, SinkInv
<1>4. \A i \in 1..Len(rows) : rows[i].n \in Nat
  BY RowsAreNumbered
<1>5. /\ \A i \in 1..Len(rows) : rows[i].attempt = attempt
      /\ \A i \in 1..Len(rows) : \A j \in 1..Len(rows) : i < j => rows[i].n < rows[j].n
      /\ \A i \in 1..Len(rows) :
           rows[i].n <= Len(heard) \/ rows[i].n <= Len(heard) + (i - reported)
  BY <1>1 DEF OrderInv, LogIsTheAttempts, RowsAreBehind
<1>6. CASE UNCHANGED store
  BY <1>1, <1>2, <1>5, <1>6 DEF store, LogIsTheAttempts
<1>7. CASE Insert
  <2>1. \A i \in 1..Len(rows') : i <= Len(rows) => rows'[i] = rows[i]
    BY <1>3, <1>7, InsertPreserves DEF JournalInv
  <2>2. \A i \in 1..Len(rows') : i > Len(rows) =>
          rows'[i].attempt = attempt /\ rows'[i].n = Len(heard) + (i - reported)
    <3>1. SUFFICES ASSUME NEW i \in 1..Len(rows'), i > Len(rows)
                   PROVE  rows'[i].attempt = attempt /\ rows'[i].n = Len(heard) + (i - reported)
      OBVIOUS
    <3>2. /\ Len(rows') = Larger(Len(rows), reported + Len(chunk))
          /\ rows'[i] = IF i <= Len(rows) /\ rows[i] # Hole THEN rows[i]
                        ELSE IF i > reported /\ i <= reported + Len(chunk)
                               THEN chunk[i - reported] ELSE Hole
      <4>1. rows \in Seq(Event \cup {Hole}) /\ reported \in Nat /\ chunk \in Seq(Event)
        BY DEF TypeOK
      <4>2. rows' = Inserted(reported, chunk)
        BY <1>7 DEF Insert
      <4>3. i \in 1..Len(Inserted(reported, chunk))
        BY <3>1, <4>2
      <4>. QED
        BY <4>1, <4>2, <4>3, InsertedKeeps
    <3>3. i - reported \in 1..Len(chunk) /\ rows'[i] = chunk[i - reported]
      BY <1>3, <3>1, <3>2 DEF Larger
    <3>4. chunk[i - reported] = Nth(Len(heard) + (i - reported))
      BY <3>3 DEF JournalInv, SinkInv
    <3>. QED
      BY <3>3, <3>4 DEF Nth
  <2>3. \A i \in 1..Len(rows') : rows'[i].attempt = attempt
    BY <1>3, <1>5, <2>1, <2>2
  <2>4. \A i \in 1..Len(rows') :
          rows'[i].n <= Len(heard) \/ rows'[i].n <= Len(heard) + (i - reported)
    <3>1. TAKE i \in 1..Len(rows')
    <3>2. CASE i <= Len(rows)
      <4>1. i \in 1..Len(rows) /\ rows'[i] = rows[i]
        BY <1>3, <2>1, <3>2
      <4>. QED
        BY <1>5, <4>1
    <3>3. CASE i > Len(rows)
      BY <1>3, <2>2, <3>3
    <3>. QED
      BY <1>3, <3>2, <3>3
  <2>5. ASSUME NEW i \in 1..Len(rows'), NEW j \in 1..Len(rows'), i < j
        PROVE  rows'[i].n < rows'[j].n
    <3>1. CASE j <= Len(rows)
      <4>1. i \in 1..Len(rows) /\ j \in 1..Len(rows)
        BY <1>3, <2>5, <3>1
      <4>2. rows'[i] = rows[i] /\ rows'[j] = rows[j]
        BY <2>1, <4>1
      <4>. QED
        BY <1>5, <2>5, <4>1, <4>2
    <3>2. CASE j > Len(rows) /\ i <= Len(rows)
      <4>1. i \in 1..Len(rows) /\ rows'[i] = rows[i]
        BY <1>3, <2>1, <3>2
      <4>2. rows[i].n \in Nat
            /\ (rows[i].n <= Len(heard) \/ rows[i].n <= Len(heard) + (i - reported))
        BY <1>4, <1>5, <4>1
      <4>3. rows'[j].n = Len(heard) + (j - reported)
        BY <2>2, <3>2
      <4>. QED
        BY <1>3, <2>5, <3>2, <4>1, <4>2, <4>3
    <3>3. CASE j > Len(rows) /\ i > Len(rows)
      <4>1. rows'[i].n = Len(heard) + (i - reported) /\ rows'[j].n = Len(heard) + (j - reported)
        BY <2>2, <3>3
      <4>. QED
        BY <1>3, <2>5, <4>1
    <3>. QED
      BY <1>3, <3>1, <3>2, <3>3
  <2>6. LogIsTheAttempts'
    BY <1>2, <2>3, <2>5, <1>7 DEF LogIsTheAttempts
  <2>. QED
    BY <2>4, <2>6
<1>. QED
  BY <1>6, <1>7

(* What is given up, dropped or sent twice leaves the order as it was.     *)
LEMMA OrderInvariant == ~Races => (Spec => []OrderInv)
<1>. SUFFICES ASSUME ~Races PROVE Spec => []OrderInv
  OBVIOUS
<1>1. Init => OrderInv
  <2>1. Len(<<>>) = 0
    BY EmptySeq
  <2>. QED
    BY <2>1 DEF Init, OrderInv, LogIsTheAttempts, Log
<1>2. TypeOK /\ TypeOK' /\ JournalInv /\ OrderInv /\ [Next]_vars => OrderInv'
  <2>. SUFFICES ASSUME TypeOK, TypeOK', JournalInv, OrderInv, [Next]_vars PROVE OrderInv'
    OBVIOUS
  <2>0. Len(<<>>) = 0
    BY EmptySeq
  <2>1. ASSUME Open PROVE OrderInv'
    BY <2>0, <2>1 DEF Open, OrderInv, LogIsTheAttempts, Log, RowsAreBehind
  <2>2. ASSUME phase # "none", chunk # <<>>, Insert \/ UNCHANGED store, attempt' = attempt,
               phase' = phase,
               \/ heard' = heard /\ reported' = reported
               \/ /\ PassOn
                  /\ reported' = reported \/ reported' = reported + Len(chunk)
        PROVE  OrderInv'
    <3>1. /\ LogIsTheAttempts'
          /\ \A i \in 1..Len(rows') :
               rows'[i].n <= Len(heard) \/ rows'[i].n <= Len(heard) + (i - reported)
      BY <2>2, InsertKeepsOrder
    <3>2. /\ Len(heard) \in Nat /\ Len(chunk) \in Nat /\ Len(rows') \in Nat
          /\ reported \in Nat
      BY LenProperties DEF TypeOK
    <3>3. \A i \in 1..Len(rows') : rows'[i].n \in Nat
      <4>1. \A e \in Event \cup {Hole} : e.n \in Nat
        BY DEF Event, Hole
      <4>2. rows' \in Seq(Event \cup {Hole})
        BY DEF TypeOK
      <4>3. \A i \in 1..Len(rows') : rows'[i] \in Event \cup {Hole}
        BY <4>2, ElementOfSeq
      <4>. QED
        BY <4>1, <4>3
    <3>4. \/ Len(heard') = Len(heard) /\ reported' = reported
          \/ /\ Len(heard') = Len(heard) + Len(chunk)
             /\ reported' = reported \/ reported' = reported + Len(chunk)
      BY <2>2, PassOnPreserves DEF JournalInv
    <3>5. RowsAreBehind'
      <4>1. SUFFICES ASSUME NEW i \in 1..Len(rows')
                     PROVE  rows'[i].n <= Len(heard') \/ rows'[i].n <= Len(heard') + (i - reported')
        BY DEF RowsAreBehind
      <4>2. rows'[i].n \in Nat
            /\ (rows'[i].n <= Len(heard) \/ rows'[i].n <= Len(heard) + (i - reported))
        BY <3>1, <3>3
      <4>. QED
        BY <3>2, <3>4, <4>2
    <3>. QED
      BY <3>1, <3>5 DEF OrderInv
  <2>3. ASSUME Recorded PROVE OrderInv'
    <3>1. phase # "none" /\ chunk # <<>> /\ Insert /\ attempt' = attempt /\ phase' = phase
          /\ PassOn /\ reported' = reported + Len(chunk)
      BY <2>3 DEF Recorded, ending, TypeOK
    <3>. QED
      BY <2>2, <3>1
  <2>4. ASSUME Retries PROVE OrderInv'
    <3>1. phase # "none" /\ chunk # <<>> /\ (Insert \/ UNCHANGED store) /\ attempt' = attempt
          /\ phase' = phase /\ heard' = heard /\ reported' = reported
      BY <2>4 DEF Retries, Fails, ending, TypeOK
    <3>. QED
      BY <2>2, <3>1
  <2>5. ASSUME GivesUp PROVE OrderInv'
    <3>1. phase # "none" /\ chunk # <<>> /\ (Insert \/ UNCHANGED store) /\ attempt' = attempt
          /\ phase' = phase /\ PassOn /\ reported' = reported
      BY <2>5 DEF GivesUp, Fails, ending, TypeOK
    <3>. QED
      BY <2>2, <3>1
  <2>6. ASSUME UNCHANGED <<rows, archive, attempt, heard, reported>>,
               phase' # "none" => phase # "none"
        PROVE  OrderInv'
    BY <2>6 DEF OrderInv, LogIsTheAttempts, Log, RowsAreBehind
  <2>7. ASSUME NEW k \in 1..MaxChunk, Hear(k) PROVE OrderInv'
    BY <2>6, <2>7 DEF Hear, store, ending
  <2>8. ASSUME Score \/ Settle \/ Sweep \/ Age PROVE OrderInv'
    BY <2>6, <2>8 DEF Score, Settle, Sweep, Age, store, sink, ending
  <2>9. ASSUME Fail PROVE OrderInv'
    <3>1. LogIsTheAttempts' /\ UNCHANGED <<rows, reported>> /\ phase # "none"
      BY <2>9 DEF Fail, OrderInv, LogIsTheAttempts, Log, store
    <3>2. Len(heard') = Len(heard) + Len(chunk)
      BY <2>9, <3>1, PassOnPreserves DEF Fail, JournalInv
    <3>3. Len(heard) \in Nat /\ Len(chunk) \in Nat /\ Len(rows) \in Nat /\ reported \in Nat
      BY LenProperties DEF TypeOK
    <3>4. \A i \in 1..Len(rows) : rows[i].n \in Nat
      BY RowsAreNumbered
    <3>5. RowsAreBehind
      BY <3>1 DEF OrderInv
    <3>6. RowsAreBehind'
      <4>1. SUFFICES ASSUME NEW i \in 1..Len(rows)
                     PROVE  rows[i].n <= Len(heard') \/ rows[i].n <= Len(heard') + (i - reported)
        BY <3>1 DEF RowsAreBehind
      <4>2. rows[i].n \in Nat
            /\ (rows[i].n <= Len(heard) \/ rows[i].n <= Len(heard) + (i - reported))
        BY <3>4, <3>5 DEF RowsAreBehind
      <4>. QED
        BY <3>2, <3>3, <4>2
    <3>. QED
      BY <3>1, <3>6 DEF OrderInv
  <2>10. ASSUME Crash PROVE OrderInv'
    BY <2>10 DEF Crash, OrderInv, LogIsTheAttempts, Log, store
  <2>11. ASSUME NEW s \in Server, Choose(s) \/ Copy(s) \/ RollBack(s) PROVE OrderInv'
    BY <2>6, <2>11 DEF Choose, Copy, RollBack, store, sink, ending
  <2>12. ASSUME NEW s \in Server, Replace(s) PROVE OrderInv'
    <3>1. compaction[s].copy = Log /\ phase = "none"
      BY <2>12 DEF Replace, JournalInv, MovedWhole, SinkInv, Compacting, Settled
    <3>2. Log' = Log /\ attempt' = attempt /\ phase' = phase
      BY <2>12, <3>1 DEF Replace, Log, ending
    <3>. QED
      BY <3>1, <3>2 DEF OrderInv, LogIsTheAttempts
  <2>13. ASSUME NEW r \in Reader, ReadRows(r) \/ ReadArchive(r) PROVE OrderInv'
    BY <2>6, <2>13 DEF ReadRows, ReadArchive, store, sink, ending
  <2>14. CASE UNCHANGED vars
    BY <2>6, <2>14 DEF vars, store, sink, ending
  <2>. QED
    BY <2>1, <2>3, <2>4, <2>5, <2>7, <2>8, <2>9, <2>10, <2>11, <2>12, <2>13, <2>14 DEF Next
<1>. QED
  BY <1>1, <1>2, TypeCorrect, JournalInvariant, PTL DEF Spec

(* Whatever became of its chunks, a journal shows events of the last       *)
(* attempt only, in the order they were heard and none of them twice.      *)
THEOREM JournalsShowTheAttempt == ~Races => (Spec => []LogIsTheAttempts)
<1>1. OrderInv => LogIsTheAttempts
  BY DEF OrderInv
<1>. QED
  BY <1>1, OrderInvariant, PTL

---------------------------------------------------------------------------
(* A reader that waits for its second statement is owed no more than there *)
(* is.                                                                     *)
OwedInv ==
  \A r \in Reader : asking[r] =>
    /\ floor[r] <= Len(Log)
    /\ rows # <<>> => floor[r] = 0

(* What the log is after an append.                                        *)
LEMMA AppendGrowsLog ==
  ASSUME TypeOK, TypeOK', JournalInv, phase # "none", chunk # <<>>,
         Insert \/ UNCHANGED store
  PROVE  /\ Log' \in Seq(Event \cup {Hole})
         /\ TL!Begins(Log, Log')
<1>1. archive = <<>> /\ Log = rows /\ archive' = archive
  BY Unmoved DEF Insert, store
<1>2. Log' = rows'
  BY <1>1 DEF Log
<1>3. Len(rows) <= Len(rows') /\ \A i \in 1..Len(rows) : rows'[i] = rows[i]
  <2>1. CASE Insert
    BY <2>1, InsertPreserves DEF JournalInv
  <2>2. CASE UNCHANGED store
    BY <2>2, LenProperties DEF store, TypeOK
  <2>. QED
    BY <2>1, <2>2
<1>. QED
  BY <1>1, <1>2, <1>3 DEF TL!Begins, TypeOK

(* Between the two statements of a read the journal may be archived or     *)
(* opened again, but it is not cut short.                                  *)
LEMMA OwedInvariant == ~Races => (Spec => []OwedInv)
<1>. SUFFICES ASSUME ~Races PROVE Spec => []OwedInv
  OBVIOUS
<1>1. Init => OwedInv
  BY DEF Init, OwedInv
<1>2. TypeOK /\ TypeOK' /\ JournalInv /\ JournalInv' /\ OwedInv /\ [Next]_vars => OwedInv'
  <2>. SUFFICES ASSUME TypeOK, TypeOK', JournalInv, JournalInv', OwedInv, [Next]_vars
                PROVE  OwedInv'
    OBVIOUS
  <2>. USE DEF TypeOK, sink, ending, reading
  <2>0. /\ Len(<<>>) = 0 /\ Len(Log) \in Nat /\ Len(Log') \in Nat
        /\ (rows # <<>> => Log = rows)
    BY EmptySeq, LenProperties DEF Log
  <2>1. ASSUME Open PROVE OwedInv'
    BY <2>0, <2>1 DEF Open, OwedInv
  <2>2. ASSUME Recorded \/ Retries \/ GivesUp PROVE OwedInv'
    <3>1. phase # "none" /\ chunk # <<>> /\ (Insert \/ UNCHANGED store)
          /\ UNCHANGED <<asking, floor>>
      BY <2>2 DEF Recorded, Retries, GivesUp, Fails
    <3>2. Len(Log) <= Len(Log')
      BY <3>1, AppendGrowsLog DEF TL!Begins
    <3>3. ASSUME NEW r \in Reader, asking[r] PROVE floor[r] = 0
      <4>1. Log = rows
        BY <3>1, Unmoved
      <4>2. floor[r] \in Nat /\ floor[r] <= Len(Log) /\ (rows # <<>> => floor[r] = 0)
        BY <3>3 DEF OwedInv
      <4>. QED
        BY <2>0, <4>1, <4>2
    <3>4. 0 <= Len(Log')
      BY <2>0
    <3>. QED
      BY <3>1, <3>3, <3>4 DEF OwedInv
  <2>3. ASSUME UNCHANGED <<rows, archive, asking, floor>> PROVE OwedInv'
    BY <2>3 DEF OwedInv, Log
  <2>4. ASSUME NEW s \in Server, Replace(s) PROVE OwedInv'
    <3>1. compaction[s].copy = Log
      BY <2>4 DEF Replace, JournalInv, MovedWhole
    <3>2. rows' = <<>> /\ Log' = Log /\ UNCHANGED <<asking, floor>>
      BY <2>4, <3>1 DEF Replace, Log
    <3>. QED
      BY <3>2 DEF OwedInv
  <2>5. ASSUME NEW r \in Reader, ReadRows(r) PROVE OwedInv'
    <3>1. UNCHANGED <<rows, archive>> /\ Log' = Log
      BY <2>5 DEF ReadRows, Log, store
    <3>2. CASE rows # <<>>
      BY <2>5, <3>1, <3>2 DEF ReadRows, OwedInv
    <3>3. CASE rows = <<>>
      <4>1. floor' = [floor EXCEPT ![r] = Len(Log)] /\ asking' = [asking EXCEPT ![r] = TRUE]
        BY <2>5, <3>3 DEF ReadRows
      <4>2. ASSUME NEW q \in Reader, asking'[q] PROVE floor'[q] <= Len(Log)
        <5>1. CASE q = r
          BY <2>0, <4>1, <5>1
        <5>2. CASE q # r
          BY <4>1, <4>2, <5>2 DEF OwedInv
        <5>. QED
          BY <5>1, <5>2
      <4>. QED
        BY <3>1, <3>3, <4>2 DEF OwedInv
    <3>. QED
      BY <3>2, <3>3
  <2>6. ASSUME NEW r \in Reader, ReadArchive(r) PROVE OwedInv'
    BY <2>6 DEF ReadArchive, OwedInv, Log, store
  <2>7. ASSUME NEW k \in 1..MaxChunk, Hear(k) PROVE OwedInv'
    BY <2>3, <2>7 DEF Hear, store
  <2>8. ASSUME Score \/ Fail \/ Settle \/ Crash \/ Sweep \/ Age PROVE OwedInv'
    BY <2>3, <2>8 DEF Score, Fail, Settle, Crash, Sweep, Age, store
  <2>9. ASSUME NEW s \in Server, Choose(s) \/ Copy(s) \/ RollBack(s) PROVE OwedInv'
    BY <2>3, <2>9 DEF Choose, Copy, RollBack, store
  <2>10. CASE UNCHANGED vars
    BY <2>3, <2>10 DEF vars, store
  <2>. QED
    BY <2>1, <2>2, <2>4, <2>5, <2>6, <2>7, <2>8, <2>9, <2>10 DEF Next
<1>. QED
  BY <1>1, <1>2, TypeCorrect, JournalInvariant, PTL DEF Spec

(* The rows and the archive, written by attempts, moved by servers and     *)
(* asked one after the other by readers, are the one growing log of        *)
(* TrialLog.                                                               *)
THEOREM JournalImplementsTrialLog == ~Races => (Spec => ImplementsTrialLog)
<1>. SUFFICES ASSUME ~Races PROVE Spec => ImplementsTrialLog
  OBVIOUS
<1>1. Init => TL!Init
  BY DEF Init, TL!Init, Log
<1>2. TypeOK /\ TypeOK' /\ JournalInv /\ OwedInv /\ [Next]_vars => [TL!Next]_TL!vars
  <2>. SUFFICES ASSUME TypeOK, TypeOK', JournalInv, OwedInv, [Next]_vars
                PROVE  [TL!Next]_TL!vars
    OBVIOUS
  <2>. USE DEF TypeOK, sink, ending, reading
  <2>0. /\ Log \in Seq(Event \cup {Hole}) /\ Len(Log) \in Nat /\ Len(<<>>) = 0
        /\ SubSeq(Log, 1, 0) = <<>> /\ SubSeq(Log, 1, Len(Log)) = Log
    <3>1. Log \in Seq(Event \cup {Hole})
      BY DEF Log
    <3>. QED
      BY <3>1, EmptySeq, LenProperties, SubSeqEmpty, SubSeqFull
  <2>1. ASSUME Open PROVE TL!Restart
    BY <2>1 DEF Open, TL!Restart, Log
  <2>2. ASSUME Recorded \/ Retries \/ GivesUp PROVE TL!Record
    <3>1. phase # "none" /\ chunk # <<>> /\ (Insert \/ UNCHANGED store)
          /\ UNCHANGED <<asking, floor, answer>>
      BY <2>2 DEF Recorded, Retries, GivesUp, Fails
    <3>2. Log' \in Seq(Event \cup {Hole}) /\ TL!Begins(Log, Log')
      BY <3>1, AppendGrowsLog
    <3>. QED
      BY <3>1, <3>2 DEF TL!Record
  <2>3. ASSUME UNCHANGED <<rows, archive, asking, floor, answer>> PROVE UNCHANGED TL!vars
    BY <2>3 DEF TL!vars, Log
  <2>4. ASSUME NEW s \in Server, Replace(s) PROVE UNCHANGED TL!vars
    <3>1. compaction[s].copy = Log
      BY <2>4 DEF Replace, JournalInv, MovedWhole
    <3>. QED
      BY <2>4, <3>1 DEF Replace, Log, TL!vars
  <2>5. ASSUME NEW r \in Reader, ReadRows(r) PROVE TL!Next
    <3>1. CASE rows # <<>>
      <4>1. TL!Read(r)
        BY <2>5, <3>1 DEF ReadRows, TL!Read, Log, store
      <4>. QED
        BY <4>1 DEF TL!Next
    <3>2. CASE rows = <<>>
      <4>1. {q \in Reader : asking'[q]} = {q \in Reader : asking[q]} \cup {r}
        BY <2>5, <3>2 DEF ReadRows
      <4>2. TL!Ask(r)
        BY <2>5, <3>2, <4>1 DEF ReadRows, TL!Ask, Log, store
      <4>. QED
        BY <4>2 DEF TL!Next
    <3>. QED
      BY <3>1, <3>2
  <2>6. ASSUME NEW r \in Reader, ReadArchive(r) PROVE TL!Next
    <3>1. {q \in Reader : asking'[q]} = {q \in Reader : asking[q]} \ {r}
      BY <2>6 DEF ReadArchive
    <3>2. archive = Log \/ (archive = <<>> /\ rows # <<>>)
      BY DEF JournalInv, MovedWhole, Log
    <3>3. floor[r] \in Nat /\ floor[r] <= Len(Log) /\ (rows # <<>> => floor[r] = 0)
      BY <2>6 DEF ReadArchive, OwedInv
    <3>4. \E n \in floor[r]..Len(Log) : archive = SubSeq(Log, 1, n)
      <4>1. CASE archive = Log
        <5>1. Len(Log) \in floor[r]..Len(Log)
          BY <2>0, <3>3
        <5>. QED
          BY <2>0, <4>1, <5>1
      <4>2. CASE archive = <<>> /\ rows # <<>>
        <5>1. 0 \in floor[r]..Len(Log)
          BY <2>0, <3>3, <4>2
        <5>. QED
          BY <2>0, <4>2, <5>1
      <4>. QED
        BY <3>2, <4>1, <4>2
    <3>5. TL!Answer(r)
      BY <2>6, <3>1, <3>4 DEF ReadArchive, TL!Answer, Log, store
    <3>. QED
      BY <3>5 DEF TL!Next
  <2>7. ASSUME NEW k \in 1..MaxChunk, Hear(k) PROVE UNCHANGED TL!vars
    BY <2>3, <2>7 DEF Hear, store
  <2>8. ASSUME Score \/ Fail \/ Settle \/ Crash \/ Sweep \/ Age PROVE UNCHANGED TL!vars
    BY <2>3, <2>8 DEF Score, Fail, Settle, Crash, Sweep, Age, store
  <2>9. ASSUME NEW s \in Server, Choose(s) \/ Copy(s) \/ RollBack(s) PROVE UNCHANGED TL!vars
    BY <2>3, <2>9 DEF Choose, Copy, RollBack, store
  <2>10. CASE UNCHANGED vars
    BY <2>3, <2>10 DEF vars, store
  <2>. QED
    BY <2>1, <2>2, <2>4, <2>5, <2>6, <2>7, <2>8, <2>9, <2>10 DEF Next, TL!Next
<1>. QED
  BY <1>1, <1>2, TypeCorrect, JournalInvariant, OwedInvariant, PTL
  DEF Spec, ImplementsTrialLog, TL!Spec
---------------------------------------------------------------------------
(* What readers have been answered.                                        *)

(* An answer of this attempt is the beginning of the journal, and a reader *)
(* who has it is owed as much.                                             *)
AnsweredInv ==
  \A r \in Reader : answer[r] # <<>> =>
    /\ answer[r][1].attempt <= attempt
    /\ answer[r][1].attempt = attempt =>
         /\ TL!Begins(answer[r], Log)
         /\ asking[r] => Len(answer[r]) <= floor[r]

(* The journal, when there is one, is of this attempt from its first event.*)
LEMMA LogBegins ==
  ASSUME TypeOK, OrderInv
  PROVE  /\ Log \in Seq(Event \cup {Hole}) /\ Len(Log) \in Nat
         /\ TL!Begins(Log, Log)
         /\ Log # <<>> => Log[1].attempt = attempt
<1>1. Log \in Seq(Event \cup {Hole})
  BY DEF Log, TypeOK
<1>2. Len(Log) \in Nat /\ (Log # <<>> => Len(Log) > 0)
  BY <1>1, EmptySeq, LenProperties
<1>3. TL!Begins(Log, Log)
  BY <1>2 DEF TL!Begins
<1>4. ASSUME Log # <<>> PROVE Log[1].attempt = attempt
  BY <1>2, <1>4 DEF OrderInv, LogIsTheAttempts
<1>. QED
  BY <1>1, <1>2, <1>3, <1>4

(* Appends only add to what has been answered.                             *)
LEMMA AnsweredInvariant == ~Races => (Spec => []AnsweredInv)
<1>. SUFFICES ASSUME ~Races PROVE Spec => []AnsweredInv
  OBVIOUS
<1>1. Init => AnsweredInv
  BY DEF Init, AnsweredInv
<1>2. TypeOK /\ TypeOK' /\ JournalInv /\ OrderInv /\ AnsweredInv /\ [Next]_vars => AnsweredInv'
  <2>. SUFFICES ASSUME TypeOK, TypeOK', JournalInv, OrderInv, AnsweredInv, [Next]_vars
                PROVE  AnsweredInv'
    OBVIOUS
  <2>0. /\ attempt \in Nat
        /\ \A r \in Reader : /\ Len(answer[r]) \in Nat
                             /\ answer[r] # <<>> => answer[r][1].attempt \in Nat
    <3>1. \A e \in Event \cup {Hole} : e.attempt \in Nat
      BY DEF Event, Hole
    <3>2. ASSUME NEW r \in Reader
          PROVE  Len(answer[r]) \in Nat /\ (answer[r] # <<>> => answer[r][1].attempt \in Nat)
      <4>1. answer[r] \in Seq(Event \cup {Hole})
        BY DEF TypeOK
      <4>2. answer[r] # <<>> => answer[r][1] \in Event \cup {Hole}
        BY <4>1, EmptySeq, LenProperties, ElementOfSeq
      <4>. QED
        BY <3>1, <4>1, <4>2, LenProperties
    <3>3. attempt \in Nat
      BY JournalAssumption DEF TypeOK
    <3>. QED
      BY <3>2, <3>3
  <2>1. ASSUME Open PROVE AnsweredInv'
    <3>1. attempt' = attempt + 1 /\ answer' = answer
      BY <2>1 DEF Open
    <3>. QED
      BY <2>0, <3>1 DEF AnsweredInv
  <2>2. ASSUME Recorded \/ Retries \/ GivesUp PROVE AnsweredInv'
    <3>1. phase # "none" /\ chunk # <<>> /\ (Insert \/ UNCHANGED store)
          /\ UNCHANGED <<attempt, asking, floor, answer>>
      BY <2>2 DEF Recorded, Retries, GivesUp, Fails, reading, TypeOK
    <3>2. TL!Begins(Log, Log')
      BY <3>1, AppendGrowsLog
    <3>3. Len(Log) \in Nat /\ Len(Log') \in Nat
      BY LenProperties DEF Log, TypeOK
    <3>4. ASSUME NEW r \in Reader, TL!Begins(answer[r], Log) PROVE TL!Begins(answer[r], Log')
      BY <2>0, <3>2, <3>3, <3>4 DEF TL!Begins
    <3>. QED
      BY <3>1, <3>4 DEF AnsweredInv
  <2>3. ASSUME Log' = Log, UNCHANGED <<attempt, asking, floor, answer>> PROVE AnsweredInv'
    BY <2>3 DEF AnsweredInv, TL!Begins
  <2>4. ASSUME NEW s \in Server, Replace(s) PROVE AnsweredInv'
    <3>1. compaction[s].copy = Log
      BY <2>4 DEF Replace, JournalInv, MovedWhole
    <3>. QED
      BY <2>3, <2>4, <3>1 DEF Replace, Log, reading
  <2>5. ASSUME NEW r \in Reader, ReadRows(r) PROVE AnsweredInv'
    <3>1. Log' = Log /\ attempt' = attempt
      BY <2>5 DEF ReadRows, Log, store
    <3>2. CASE rows # <<>>
      <4>1. /\ answer' = [answer EXCEPT ![r] = Log]
            /\ UNCHANGED <<asking, floor>> /\ ~asking[r]
        BY <2>5, <3>2 DEF ReadRows, Log
      <4>2. ASSUME NEW q \in Reader, answer'[q] # <<>>
            PROVE  /\ answer'[q][1].attempt <= attempt
                   /\ answer'[q][1].attempt = attempt =>
                        /\ TL!Begins(answer'[q], Log)
                        /\ asking[q] => Len(answer'[q]) <= floor[q]
        <5>1. CASE q = r
          <6>1. answer'[q] = Log
            BY <4>1, <5>1 DEF TypeOK
          <6>. QED
            BY <2>0, <4>1, <4>2, <5>1, <6>1, LogBegins
        <5>2. CASE q # r
          <6>1. answer'[q] = answer[q]
            BY <4>1, <5>2 DEF TypeOK
          <6>. QED
            BY <4>2, <6>1 DEF AnsweredInv
        <5>. QED
          BY <5>1, <5>2
      <4>. QED
        BY <3>1, <4>1, <4>2 DEF AnsweredInv, TL!Begins
    <3>3. CASE rows = <<>>
      <4>1. /\ floor' = [floor EXCEPT ![r] = Len(Log)] /\ asking' = [asking EXCEPT ![r] = TRUE]
            /\ answer' = answer
        BY <2>5, <3>3 DEF ReadRows
      <4>2. ASSUME NEW q \in Reader, answer[q] # <<>>, answer[q][1].attempt = attempt, asking'[q]
            PROVE  Len(answer[q]) <= floor'[q]
        <5>0. TL!Begins(answer[q], Log) /\ (asking[q] => Len(answer[q]) <= floor[q])
          BY <4>2 DEF AnsweredInv
        <5>1. CASE q = r
          <6>1. floor'[q] = Len(Log)
            BY <4>1, <5>1 DEF TypeOK
          <6>. QED
            BY <5>0, <6>1 DEF TL!Begins
        <5>2. CASE q # r
          <6>1. floor'[q] = floor[q] /\ asking[q]
            BY <4>1, <4>2, <5>2 DEF TypeOK
          <6>. QED
            BY <5>0, <6>1
        <5>. QED
          BY <5>1, <5>2
      <4>. QED
        BY <3>1, <4>1, <4>2 DEF AnsweredInv, TL!Begins
    <3>. QED
      BY <3>2, <3>3
  <2>6. ASSUME NEW r \in Reader, ReadArchive(r) PROVE AnsweredInv'
    <3>1. /\ Log' = Log /\ attempt' = attempt /\ floor' = floor
          /\ answer' = [answer EXCEPT ![r] = archive] /\ asking' = [asking EXCEPT ![r] = FALSE]
      BY <2>6 DEF ReadArchive, Log, store
    <3>2. archive # <<>> => archive = Log
      BY DEF JournalInv, MovedWhole, Log
    <3>3. ASSUME NEW q \in Reader, answer'[q] # <<>>
          PROVE  /\ answer'[q][1].attempt <= attempt
                 /\ answer'[q][1].attempt = attempt =>
                      /\ TL!Begins(answer'[q], Log)
                      /\ asking'[q] => Len(answer'[q]) <= floor[q]
      <4>1. CASE q = r
        <5>1. answer'[q] = archive /\ ~asking'[q]
          BY <3>1, <4>1 DEF TypeOK
        <5>. QED
          BY <2>0, <3>2, <3>3, <5>1, LogBegins
      <4>2. CASE q # r
        <5>1. answer'[q] = answer[q] /\ asking'[q] = asking[q]
          BY <3>1, <4>2 DEF TypeOK
        <5>. QED
          BY <3>3, <5>1 DEF AnsweredInv
      <4>. QED
        BY <4>1, <4>2
    <3>. QED
      BY <3>1, <3>3 DEF AnsweredInv, TL!Begins
  <2>7. ASSUME NEW k \in 1..MaxChunk, Hear(k) PROVE AnsweredInv'
    BY <2>3, <2>7 DEF Hear, store, reading, Log
  <2>8. ASSUME Score \/ Fail \/ Settle \/ Crash \/ Sweep \/ Age PROVE AnsweredInv'
    BY <2>3, <2>8 DEF Score, Fail, Settle, Crash, Sweep, Age, store, reading, Log
  <2>9. ASSUME NEW s \in Server, Choose(s) \/ Copy(s) \/ RollBack(s) PROVE AnsweredInv'
    BY <2>3, <2>9 DEF Choose, Copy, RollBack, store, reading, Log
  <2>10. CASE UNCHANGED vars
    BY <2>3, <2>10 DEF vars, store, reading, Log
  <2>. QED
    BY <2>1, <2>2, <2>4, <2>5, <2>6, <2>7, <2>8, <2>9, <2>10 DEF Next
<1>. QED
  BY <1>1, <1>2, TypeCorrect, JournalInvariant, OrderInvariant, PTL DEF Spec

(* Whoever asks for a journal again is shown all he was shown of the       *)
(* attempt, though it be archived under his eyes.                          *)
THEOREM ReadersKeepWhatTheySaw == ~Races => (Spec => ReadersLoseNothing)
<1>. SUFFICES ASSUME ~Races PROVE Spec => ReadersLoseNothing
  OBVIOUS
<1> DEFINE Grow == \A r \in Reader :
       answer[r] # <<>> /\ answer[r][1].attempt = attempt => TL!Begins(answer[r], answer'[r])
<1>1. TypeOK /\ JournalInv /\ OwedInv /\ AnsweredInv /\ [Next]_vars => [Grow]_vars
  <2>. SUFFICES ASSUME TypeOK, JournalInv, OwedInv, AnsweredInv, [Next]_vars,
                       NEW r \in Reader, answer[r] # <<>>, answer[r][1].attempt = attempt
                PROVE  TL!Begins(answer[r], answer'[r])
    OBVIOUS
  <2>0. /\ Len(answer[r]) \in Nat /\ Len(answer[r]) > 0 /\ floor[r] \in Nat
        /\ TL!Begins(answer[r], Log)
        /\ asking[r] => Len(answer[r]) <= floor[r]
    <3>1. answer[r] \in Seq(Event \cup {Hole}) /\ floor[r] \in Nat
      BY DEF TypeOK
    <3>2. Len(answer[r]) \in Nat /\ Len(answer[r]) > 0
      BY <3>1, EmptySeq, LenProperties
    <3>. QED
      BY <3>1, <3>2 DEF AnsweredInv
  <2>1. ASSUME answer'[r] = answer[r] PROVE TL!Begins(answer[r], answer'[r])
    BY <2>0, <2>1 DEF TL!Begins
  <2>2. ASSUME NEW q \in Reader, ReadRows(q) PROVE TL!Begins(answer[r], answer'[r])
    <3>1. CASE q = r /\ rows # <<>>
      <4>1. answer'[r] = Log
        BY <2>2, <3>1 DEF ReadRows, Log, TypeOK
      <4>. QED
        BY <2>0, <4>1 DEF TL!Begins
    <3>2. CASE q # r \/ rows = <<>>
      <4>1. answer'[r] = answer[r]
        BY <2>2, <3>2 DEF ReadRows, TypeOK
      <4>. QED
        BY <2>1, <4>1
    <3>. QED
      BY <3>1, <3>2
  <2>3. ASSUME NEW q \in Reader, ReadArchive(q) PROVE TL!Begins(answer[r], answer'[r])
    <3>1. CASE q = r
      <4>1. answer'[r] = archive /\ asking[r]
        BY <2>3, <3>1 DEF ReadArchive, TypeOK
      <4>2. rows = <<>>
        BY <2>0, <4>1 DEF OwedInv
      <4>3. archive = Log
        BY <4>2 DEF Log
      <4>. QED
        BY <2>0, <4>1, <4>3 DEF TL!Begins
    <3>2. CASE q # r
      <4>1. answer'[r] = answer[r]
        BY <2>3, <3>2 DEF ReadArchive, TypeOK
      <4>. QED
        BY <2>1, <4>1
    <3>. QED
      BY <3>1, <3>2
  <2>4. ASSUME UNCHANGED answer PROVE TL!Begins(answer[r], answer'[r])
    BY <2>1, <2>4
  <2>5. ASSUME Open \/ Recorded \/ Retries \/ GivesUp \/ Score \/ Fail \/ Settle \/ Crash
               \/ Sweep \/ Age
        PROVE  TL!Begins(answer[r], answer'[r])
    BY <2>4, <2>5 DEF Open, Recorded, Retries, GivesUp, Score, Fail, Settle, Crash, Sweep, Age,
                      reading
  <2>6. ASSUME NEW k \in 1..MaxChunk, Hear(k) PROVE TL!Begins(answer[r], answer'[r])
    BY <2>4, <2>6 DEF Hear, reading
  <2>7. ASSUME NEW s \in Server, Choose(s) \/ Copy(s) \/ Replace(s) \/ RollBack(s)
        PROVE  TL!Begins(answer[r], answer'[r])
    BY <2>4, <2>7 DEF Choose, Copy, Replace, RollBack, reading
  <2>8. CASE UNCHANGED vars
    BY <2>4, <2>8 DEF vars, reading
  <2>. QED
    BY <2>2, <2>3, <2>5, <2>6, <2>7, <2>8 DEF Next
<1>. QED
  BY <1>1, TypeCorrect, JournalInvariant, OwedInvariant, AnsweredInvariant, PTL
  DEF Spec, ReadersLoseNothing

---------------------------------------------------------------------------
(* The life of a trial.                                                    *)

(* Who has opened the trial finds it running until he settles it.           *)
RunsAtHand == phase # "none" => trial.status = "running"

(* Under an attempt the row says running: the sweep waits until it is gone.*)
LEMMA RowsRunAtHand == Spec => []RunsAtHand
<1>1. Init => RunsAtHand
  BY DEF Init, RunsAtHand
<1>2. TypeOK /\ RunsAtHand /\ [Next]_vars => RunsAtHand'
  <2>. SUFFICES ASSUME TypeOK, RunsAtHand, [Next]_vars PROVE RunsAtHand'
    OBVIOUS
  <2>. USE DEF TypeOK, RunsAtHand, TrialRow, store, sink, ending, vars
  <2>1. ASSUME Open PROVE RunsAtHand'
    BY <2>1 DEF Open, Opened
  <2>2. ASSUME Recorded PROVE RunsAtHand'
    BY <2>2 DEF Recorded, Insert
  <2>3. ASSUME Retries PROVE RunsAtHand'
    BY <2>3 DEF Retries, Fails, Insert
  <2>4. ASSUME GivesUp PROVE RunsAtHand'
    BY <2>4 DEF GivesUp, Fails, Insert
  <2>5. ASSUME NEW k \in 1..MaxChunk, Hear(k) PROVE RunsAtHand'
    BY <2>5 DEF Hear
  <2>6. ASSUME Score PROVE RunsAtHand'
    BY <2>6 DEF Score
  <2>7. ASSUME Fail PROVE RunsAtHand'
    BY <2>7 DEF Fail
  <2>8. ASSUME Settle PROVE RunsAtHand'
    BY <2>8 DEF Settle
  <2>9. ASSUME Crash PROVE RunsAtHand'
    BY <2>9 DEF Crash
  <2>10. ASSUME Sweep PROVE RunsAtHand'
    BY <2>10 DEF Sweep
  <2>11. ASSUME Age PROVE RunsAtHand'
    BY <2>11 DEF Age
  <2>12. ASSUME NEW s \in Server, Choose(s) PROVE RunsAtHand'
    BY <2>12 DEF Choose
  <2>13. ASSUME NEW s \in Server, Copy(s) PROVE RunsAtHand'
    BY <2>13 DEF Copy
  <2>14. ASSUME NEW s \in Server, Replace(s) PROVE RunsAtHand'
    BY <2>14 DEF Replace
  <2>15. ASSUME NEW s \in Server, RollBack(s) PROVE RunsAtHand'
    BY <2>15 DEF RollBack
  <2>16. ASSUME NEW r \in Reader, ReadRows(r) PROVE RunsAtHand'
    BY <2>16 DEF ReadRows
  <2>17. ASSUME NEW r \in Reader, ReadArchive(r) PROVE RunsAtHand'
    BY <2>17 DEF ReadArchive
  <2>18. CASE UNCHANGED vars
    BY <2>18 DEF vars
  <2>. QED
    BY <2>1, <2>2, <2>3, <2>4, <2>5, <2>6, <2>7, <2>8, <2>9, <2>10,
       <2>11, <2>12, <2>13, <2>14, <2>15, <2>16, <2>17, <2>18
       DEF Next
<1>. QED
  BY <1>1, <1>2, TypeCorrect, PTL DEF Spec

(* Each step of the attempts, the sweeps and the readers is one in the     *)
(* life of the trial, or none, whether or not a compaction is under way    *)
(* when the trial is opened again.                                         *)
THEOREM JournalImplementsTrialLife == Spec => ImplementsTrialLife
<1>1. Init => Life!Init
  BY DEF Init, Life!Init, AtHand, NoTrial
<1>2. TypeOK /\ RunsAtHand /\ [Next]_vars => [Life!Next]_(Life!vars)
  <2>. SUFFICES ASSUME TypeOK, RunsAtHand, [Next]_vars
                PROVE  Life!Next \/ UNCHANGED Life!vars
    OBVIOUS
  <2>. USE JournalAssumption DEF TypeOK, store, sink, ending, vars
  <2>1. ASSUME Open PROVE Life!Next \/ UNCHANGED Life!vars
    <3>1. attempt' \in 1..MaxAttempts
      BY <2>1 DEF Open
    <3>2. Life!Open("trial")
      BY <2>1, <3>1 DEF Open, Opened, AtHand, Life!Open
    <3>. QED
      BY <3>2 DEF Life!Next
  <2>2. ASSUME Recorded PROVE Life!Next \/ UNCHANGED Life!vars
    BY <2>2 DEF Recorded, Insert, AtHand, Life!vars
  <2>3. ASSUME Retries PROVE Life!Next \/ UNCHANGED Life!vars
    BY <2>3 DEF Retries, Fails, Insert, AtHand, Life!vars
  <2>4. ASSUME GivesUp PROVE Life!Next \/ UNCHANGED Life!vars
    BY <2>4 DEF GivesUp, Fails, Insert, AtHand, Life!vars
  <2>5. ASSUME NEW k \in 1..MaxChunk, Hear(k) PROVE Life!Next \/ UNCHANGED Life!vars
    BY <2>5 DEF Hear, AtHand, Life!vars
  <2>6. ASSUME Score PROVE Life!Next \/ UNCHANGED Life!vars
    BY <2>6 DEF Score, AtHand, Life!vars
  <2>7. ASSUME Fail PROVE Life!Next \/ UNCHANGED Life!vars
    BY <2>7 DEF Fail, AtHand, Life!vars
  <2>8. ASSUME Settle PROVE Life!Next \/ UNCHANGED Life!vars
    <3>1. trial'.status \in {"scored", "void"}
      BY <2>8 DEF Settle, RunsAtHand, Abandoned, SettledAs, TrialRow
    <3>2. Life!Conclude("trial")
      BY <2>8, <3>1 DEF Settle, AtHand, Life!Conclude
    <3>. QED
      BY <3>2 DEF Life!Next
  <2>9. ASSUME Crash PROVE Life!Next \/ UNCHANGED Life!vars
    <3>1. Life!Lose({"trial"})
      BY <2>9 DEF Crash, AtHand, Life!Lose
    <3>. QED
      BY <3>1 DEF Life!Next
  <2>10. ASSUME Sweep PROVE Life!Next \/ UNCHANGED Life!vars
    <3>1. Life!Void({"trial"})
      BY <2>10 DEF Sweep, Swept, AtHand, Life!Void
    <3>. QED
      BY <3>1 DEF Life!Next
  <2>11. ASSUME Age PROVE Life!Next \/ UNCHANGED Life!vars
    BY <2>11 DEF Age, AtHand, Life!vars
  <2>12. ASSUME NEW s \in Server, Choose(s) PROVE Life!Next \/ UNCHANGED Life!vars
    BY <2>12 DEF Choose, AtHand, Life!vars
  <2>13. ASSUME NEW s \in Server, Copy(s) PROVE Life!Next \/ UNCHANGED Life!vars
    BY <2>13 DEF Copy, AtHand, Life!vars
  <2>14. ASSUME NEW s \in Server, Replace(s) PROVE Life!Next \/ UNCHANGED Life!vars
    BY <2>14 DEF Replace, AtHand, Life!vars
  <2>15. ASSUME NEW s \in Server, RollBack(s) PROVE Life!Next \/ UNCHANGED Life!vars
    BY <2>15 DEF RollBack, AtHand, Life!vars
  <2>16. ASSUME NEW r \in Reader, ReadRows(r) PROVE Life!Next \/ UNCHANGED Life!vars
    BY <2>16 DEF ReadRows, AtHand, Life!vars
  <2>17. ASSUME NEW r \in Reader, ReadArchive(r) PROVE Life!Next \/ UNCHANGED Life!vars
    BY <2>17 DEF ReadArchive, AtHand, Life!vars
  <2>18. CASE UNCHANGED vars
    BY <2>18 DEF vars, AtHand, Life!vars
  <2>. QED
    BY <2>1, <2>2, <2>3, <2>4, <2>5, <2>6, <2>7, <2>8, <2>9, <2>10,
       <2>11, <2>12, <2>13, <2>14, <2>15, <2>16, <2>17, <2>18
       DEF Next
<1>. QED
  BY <1>1, <1>2, TypeCorrect, RowsRunAtHand, PTL DEF Spec, ImplementsTrialLife, Life!Spec
=============================================================================
