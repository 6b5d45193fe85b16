---------------------------- MODULE MailJobProofs ----------------------------
(***************************************************************************)
(* Proofs about MailJob for any number of recipients, any size of a slice  *)
(* and any number of attempts.                                             *)
(***************************************************************************)
EXTENDS MailJob, FiniteSetTheorems, WellFoundedInduction, TLAPS

Active == worker.pc \in {"loop", "chunk"}
First(r) == r \in worker.chunk /\ \A q \in worker.chunk : r <= q

\* The job and its task exist one after the other.
Stages ==
    /\ status = "none" => (\A r \in Recipients : mail[r] = "none") /\ ~queued
    /\ queued => worker = Gone
    /\ status = "none" \/ queued => (\A r \in Recipients : mail[r] \notin {"sent", "failed"})
                                      /\ counts = [sent |-> 0, failed |-> 0]
    /\ status = "none" => worker = Gone
    /\ Active => status = "running"
    /\ queued => status = "pending"

\* The rows of the slice in hand are pending, and only the first was tried.
HandOK ==
    /\ worker.pc = "chunk" =>
          /\ worker.chunk \subseteq With("pending")
          /\ worker.attempt < MaxAttempts
          /\ worker.chunk = {} => worker.attempt = 0
    /\ worker.pc = "loop" => worker.chunk = {} /\ worker.attempt = 0

\* Whoever waits has been tried as often as the task remembers.
Waiting ==
    worker # Dead =>
        \A r \in Recipients :
            mail[r] \in {"none", "pending"} =>
                attempts[r] = IF worker.pc = "chunk" /\ First(r) THEN worker.attempt ELSE 0

\* The counters in memory and in the row.
Counting ==
    /\ Active => /\ worker.sent = Cardinality(With("sent"))
                 /\ worker.failed = Cardinality(With("failed"))
    /\ worker.pc = "loop" => counts = [sent |-> worker.sent, failed |-> worker.failed]

MailInv == /\ TypeOK /\ Stages /\ HandOK /\ Waiting /\ Counting
           /\ CountsMatch /\ ReportsHonest
-----------------------------------------------------------------------------
(* Facts about memory and counting                                         *)

\* The task goes on to the next attempt.
LEMMA AttemptCounted ==
    ASSUME NEW w \in Memory, NEW a \in 0 .. MaxAttempts, NEW v,
           v = [w EXCEPT !.attempt = a]
    PROVE  /\ v \in Memory /\ v.pc = w.pc /\ v.chunk = w.chunk /\ v.attempt = a
           /\ v.sent = w.sent /\ v.failed = w.failed
  BY MailAssumption DEF Memory

LEMMA ActiveTyped ==
    ASSUME TypeOK, Active
    PROVE  /\ worker \in Memory
           /\ worker.pc \in {"loop", "chunk"}
           /\ worker.chunk \subseteq Recipients /\ worker.attempt \in 0 .. MaxAttempts
           /\ worker.sent \in Nat /\ worker.failed \in Nat /\ worker.offset \in Nat
  <1>1. worker \in Memory
    BY DEF TypeOK, Active, Gone, Dead
  <1>2. QED
    BY <1>1 DEF Memory

LEMMA WithFinite ==
    ASSUME NEW st
    PROVE  IsFiniteSet(With(st)) /\ Cardinality(With(st)) \in Nat
  <1>1. IsFiniteSet(Recipients)
    BY MailAssumption, FS_Interval DEF Recipients
  <1>2. With(st) \subseteq Recipients
    BY DEF With
  <1>3. QED
    BY <1>1, <1>2, FS_Subset, FS_CardinalityType

LEMMA NobodySettled ==
    ASSUME \A r \in Recipients : mail[r] \notin {"sent", "failed"}
    PROVE  Cardinality(With("sent")) = 0 /\ Cardinality(With("failed")) = 0
  <1>1. With("sent") = {} /\ With("failed") = {}
    BY DEF With
  <1>2. QED
    BY <1>1, FS_EmptySet

\* One recipient leaves PENDING.
LEMMA OneSettled ==
    ASSUME mail \in [Recipients -> MailStatus], NEW r \in Recipients, mail[r] = "pending",
           NEW st \in {"sent", "failed"}, mail' = [mail EXCEPT ![r] = st]
    PROVE  /\ Cardinality(With(st)') = Cardinality(With(st)) + 1
           /\ \A other \in {"sent", "failed"} \ {st} : With(other)' = With(other)
           /\ With("pending")' = With("pending") \ {r}
  <1>1. With(st)' = With(st) \cup {r} /\ r \notin With(st)
    BY DEF With
  <1>2. /\ \A other \in {"sent", "failed"} \ {st} : With(other)' = With(other)
        /\ With("pending")' = With("pending") \ {r}
    BY DEF With
  <1>3. QED
    BY <1>1, <1>2, WithFinite, FS_AddElement

-----------------------------------------------------------------------------
(* Attempts                                                                *)

\* What holds while a recipient is in hand.
LEMMA SendingFacts ==
    ASSUME MailInv, NEW r \in Recipients, Sending(r)
    PROVE  /\ Active /\ worker.pc = "chunk" /\ status = "running" /\ ~queued
           /\ First(r) /\ mail[r] = "pending"
           /\ attempts[r] = worker.attempt /\ inbox[r] <= worker.attempt
           /\ worker.attempt \in Nat /\ worker.attempt < MaxAttempts
           /\ \A q \in Recipients \ {r} :
                 /\ attempts'[q] = attempts[q]
                 /\ mail[q] \in {"none", "pending"} => attempts[q] = 0
           /\ attempts' \in [Recipients -> 0 .. MaxAttempts]
           /\ attempts'[r] = worker.attempt + 1
  <1>1. Active /\ worker.pc = "chunk" /\ First(r) /\ worker # Dead
    BY DEF Sending, Active, First, Dead
  <1>2. /\ worker.chunk \subseteq Recipients /\ worker.attempt \in 0 .. MaxAttempts
        /\ attempts \in [Recipients -> 0 .. MaxAttempts]
    BY <1>1, ActiveTyped DEF MailInv, TypeOK
  <1>3. status = "running" /\ ~queued
    BY <1>1 DEF MailInv, Stages
  <1>4. mail[r] = "pending" /\ worker.attempt < MaxAttempts
    BY <1>1 DEF MailInv, HandOK, First, With
  <1>5. attempts[r] = worker.attempt
    BY <1>1, <1>4 DEF MailInv, Waiting
  <1>6. inbox[r] <= worker.attempt
    BY <1>5 DEF MailInv, ReportsHonest
  <1>7. \A q \in Recipients \ {r} : ~First(q)
    BY <1>1, MailAssumption DEF First, Recipients
  <1>8. \A q \in Recipients \ {r} : mail[q] \in {"none", "pending"} => attempts[q] = 0
    BY <1>1, <1>7 DEF MailInv, Waiting
  <1>9. attempts' = [attempts EXCEPT ![r] = worker.attempt + 1]
    BY DEF Sending
  <1>10. QED
    BY <1>1, <1>2, <1>3, <1>4, <1>5, <1>6, <1>8, <1>9, MailAssumption

\* A recipient is settled as sent or as failed.
LEMMA SettleStep ==
    ASSUME MailInv, NEW r \in Recipients, Sending(r),
           NEW st \in {"sent", "failed"}, NEW accepted \in {0, 1},
           st = "sent" => accepted = 1,
           st = "failed" => worker.attempt + 1 >= MaxAttempts,
           mail' = [mail EXCEPT ![r] = st],
           inbox' = [inbox EXCEPT ![r] = inbox[r] + accepted],
           worker' = IF st = "sent"
                       THEN [worker EXCEPT !.chunk = worker.chunk \ {r}, !.attempt = 0,
                                           !.sent = worker.sent + 1]
                       ELSE [worker EXCEPT !.chunk = worker.chunk \ {r}, !.attempt = 0,
                                           !.failed = worker.failed + 1],
           UNCHANGED <<status, counts, queued>>
    PROVE  MailInv'
  <1>1. /\ Active /\ worker.pc = "chunk" /\ status = "running" /\ ~queued
        /\ mail[r] = "pending" /\ inbox[r] <= worker.attempt
        /\ worker.attempt \in Nat /\ worker.attempt < MaxAttempts
        /\ \A q \in Recipients \ {r} :
              /\ attempts'[q] = attempts[q]
              /\ mail[q] \in {"none", "pending"} => attempts[q] = 0
        /\ attempts' \in [Recipients -> 0 .. MaxAttempts]
        /\ attempts'[r] = worker.attempt + 1
    BY SendingFacts
  <1>2. /\ worker \in Memory /\ worker.chunk \subseteq Recipients
        /\ worker.sent \in Nat /\ worker.failed \in Nat
    BY <1>1, ActiveTyped DEF MailInv
  <1>3. /\ worker' \in Memory /\ worker'.pc = "chunk" /\ worker'.chunk = worker.chunk \ {r}
        /\ worker'.attempt = 0
        /\ worker'.sent = worker.sent + (IF st = "sent" THEN 1 ELSE 0)
        /\ worker'.failed = worker.failed + (IF st = "failed" THEN 1 ELSE 0)
    <2> DEFINE rest == worker.chunk \ {r}
               more == worker.sent + 1
               lost == worker.failed + 1
    <2>1. worker \in Memory /\ rest \in SUBSET Recipients /\ more \in Nat /\ lost \in Nat
      BY <1>2
    <2>2. CASE st = "sent"
      <3>1. worker' = [worker EXCEPT !.chunk = rest, !.attempt = 0, !.sent = more]
        BY <2>2
      <3>2. /\ worker' \in Memory /\ worker'.pc = worker.pc
            /\ worker'.chunk = rest /\ worker'.attempt = 0
            /\ worker'.sent = more /\ worker'.failed = worker.failed
        <4> HIDE DEF rest, more, lost
        <4>1. 0 \in 0 .. MaxAttempts
          BY MailAssumption
        <4>2. \A v : v = [worker EXCEPT !.chunk = rest, !.attempt = 0, !.sent = more]
                   => /\ v \in Memory /\ v.pc = worker.pc /\ v.chunk = rest /\ v.attempt = 0
                      /\ v.sent = more /\ v.failed = worker.failed
          BY <2>1, <4>1 DEF Memory
        <4>3. QED
          BY <3>1, <4>2, Zenon
      <3>3. QED
        BY <1>1, <1>2, <2>2, <3>2
    <2>3. CASE st = "failed"
      <3>1. worker' = [worker EXCEPT !.chunk = rest, !.attempt = 0, !.failed = lost]
        BY <2>3
      <3>2. /\ worker' \in Memory /\ worker'.pc = worker.pc
            /\ worker'.chunk = rest /\ worker'.attempt = 0
            /\ worker'.sent = worker.sent /\ worker'.failed = lost
        <4> HIDE DEF rest, more, lost
        <4>1. 0 \in 0 .. MaxAttempts
          BY MailAssumption
        <4>2. \A v : v = [worker EXCEPT !.chunk = rest, !.attempt = 0, !.failed = lost]
                   => /\ v \in Memory /\ v.pc = worker.pc /\ v.chunk = rest /\ v.attempt = 0
                      /\ v.sent = worker.sent /\ v.failed = lost
          BY <2>1, <4>1 DEF Memory
        <4>3. QED
          BY <3>1, <4>2, Zenon
      <3>3. QED
        BY <1>1, <1>2, <2>3, <3>2
    <2>4. QED
      BY <2>2, <2>3
  <1>4. /\ mail \in [Recipients -> MailStatus] /\ inbox \in [Recipients -> Nat]
        /\ mail' \in [Recipients -> MailStatus] /\ inbox' \in [Recipients -> Nat]
    BY DEF MailInv, TypeOK, MailStatus
  <1>5. TypeOK'
    BY <1>1, <1>3, <1>4 DEF MailInv, TypeOK
  <1>6. /\ Cardinality(With(st)') = Cardinality(With(st)) + 1
        /\ \A other \in {"sent", "failed"} \ {st} : With(other)' = With(other)
        /\ With("pending")' = With("pending") \ {r}
    BY <1>1, <1>4, OneSettled
  <1>7. Stages'
    BY <1>1, <1>3 DEF Stages, Active
  <1>8. HandOK'
    BY <1>1, <1>3, <1>6, MailAssumption DEF MailInv, HandOK
  <1>9. Waiting'
    <2>1. \A q \in Recipients : mail'[q] \in {"none", "pending"} => attempts'[q] = 0
      BY <1>1, <1>4
    <2>2. QED
      BY <2>1, <1>3 DEF Waiting
  <1>10. Counting'
    <2>1. worker.sent = Cardinality(With("sent")) /\ worker.failed = Cardinality(With("failed"))
      BY <1>1 DEF MailInv, Counting
    <2>2. CASE st = "sent"
      BY <1>2, <1>3, <1>6, <2>1, <2>2 DEF Counting
    <2>3. CASE st = "failed"
      BY <1>2, <1>3, <1>6, <2>1, <2>3 DEF Counting
    <2>4. QED
      BY <2>2, <2>3
  <1>11. CountsMatch'
    BY <1>1 DEF CountsMatch
  <1>12. ReportsHonest'
    BY <1>1, <1>4, MailAssumption DEF MailInv, ReportsHonest
  <1>13. QED
    BY <1>5, <1>7, <1>8, <1>9, <1>10, <1>11, <1>12 DEF MailInv

\* An attempt settles nobody: the task goes on, or it dies.
LEMMA RetryStep ==
    ASSUME MailInv, NEW r \in Recipients, Sending(r), NEW accepted \in {0, 1},
           inbox' = [inbox EXCEPT ![r] = inbox[r] + accepted],
           \/ worker' = Dead
           \/ /\ worker.attempt + 1 < MaxAttempts
              /\ worker' = [worker EXCEPT !.attempt = worker.attempt + 1],
           UNCHANGED <<status, counts, queued, mail>>
    PROVE  MailInv'
  <1>1. /\ Active /\ worker.pc = "chunk" /\ status = "running" /\ ~queued /\ First(r)
        /\ mail[r] = "pending" /\ inbox[r] <= worker.attempt
        /\ worker.attempt \in Nat /\ worker.attempt < MaxAttempts
        /\ \A q \in Recipients \ {r} :
              /\ attempts'[q] = attempts[q]
              /\ mail[q] \in {"none", "pending"} => attempts[q] = 0
        /\ attempts' \in [Recipients -> 0 .. MaxAttempts]
        /\ attempts'[r] = worker.attempt + 1
    BY SendingFacts
  <1>2. worker \in Memory /\ worker.chunk \subseteq Recipients
    BY <1>1, ActiveTyped DEF MailInv
  <1>3. \/ worker' = Dead
        \/ /\ worker' \in Memory /\ worker'.pc = "chunk" /\ worker'.chunk = worker.chunk
           /\ worker'.attempt = worker.attempt + 1 /\ worker'.attempt < MaxAttempts
           /\ worker'.sent = worker.sent /\ worker'.failed = worker.failed
    <2>1. CASE worker' = Dead
      BY <2>1
    <2>2. CASE /\ worker.attempt + 1 < MaxAttempts
               /\ worker' = [worker EXCEPT !.attempt = worker.attempt + 1]
      <3>1. worker.attempt + 1 \in 0 .. MaxAttempts
        BY <1>1, <2>2, MailAssumption
      <3>2. QED
        BY <1>1, <1>2, <2>2, <3>1, AttemptCounted
    <2>3. QED
      BY <2>1, <2>2
  <1>4. /\ mail \in [Recipients -> MailStatus] /\ inbox \in [Recipients -> Nat]
        /\ inbox' \in [Recipients -> Nat]
    BY DEF MailInv, TypeOK
  <1>5. TypeOK'
    BY <1>1, <1>3, <1>4 DEF MailInv, TypeOK
  <1>6. \A st : With(st)' = With(st)
    BY DEF With
  <1>7. Stages'
    BY <1>1 DEF Stages, Active
  <1>8. HandOK'
    BY <1>1, <1>3, <1>6, MailAssumption DEF MailInv, HandOK, Dead, First
  <1>9. Waiting'
    <2>1. CASE worker' = Dead
      BY <2>1 DEF Waiting
    <2>2. CASE worker'.pc = "chunk" /\ worker'.chunk = worker.chunk
                 /\ worker'.attempt = worker.attempt + 1
      <3>1. First(r)' /\ \A q \in Recipients \ {r} : ~First(q)'
        BY <1>1, <1>2, <2>2, MailAssumption DEF First, Recipients
      <3>2. QED
        BY <1>1, <2>2, <3>1 DEF Waiting
    <2>3. QED
      BY <1>3, <2>1, <2>2
  <1>10. Counting'
    BY <1>1, <1>3, <1>6 DEF MailInv, Counting, Active, Dead
  <1>11. CountsMatch'
    BY <1>1 DEF CountsMatch
  <1>12. ReportsHonest'
    BY <1>1, <1>4, MailAssumption DEF MailInv, ReportsHonest
  <1>13. QED
    BY <1>5, <1>7, <1>8, <1>9, <1>10, <1>11, <1>12 DEF MailInv

LEMMA AttemptStep ==
    ASSUME MailInv, NEW r \in Recipients, Delivered(r) \/ Raised(r) \/ DiesSending(r)
    PROVE  MailInv'
  <1>1. CASE Delivered(r)
    <2>1. Sending(r)
      BY <1>1 DEF Delivered
    <2>2. QED
      BY <1>1, <2>1, SettleStep DEF Delivered
  <1>2. CASE Raised(r)
    <2>1. Sending(r)
      BY <1>2 DEF Raised
    <2>2. PICK accepted \in {0, 1} : inbox' = [inbox EXCEPT ![r] = inbox[r] + accepted]
      BY <1>2 DEF Raised
    <2>3. CASE worker.attempt + 1 < MaxAttempts /\ UNCHANGED mail
                 /\ worker' = [worker EXCEPT !.attempt = worker.attempt + 1]
      BY <1>2, <2>1, <2>2, <2>3, RetryStep DEF Raised
    <2>4. CASE /\ worker.attempt + 1 >= MaxAttempts
               /\ mail' = [mail EXCEPT ![r] = "failed"]
               /\ worker' = [worker EXCEPT !.chunk = worker.chunk \ {r}, !.attempt = 0,
                                           !.failed = worker.failed + 1]
      BY <1>2, <2>1, <2>2, <2>4, SettleStep DEF Raised
    <2>5. QED
      BY <1>2, <2>3, <2>4 DEF Raised
  <1>3. CASE DiesSending(r)
    <2>1. Sending(r)
      BY <1>3 DEF DiesSending
    <2>2. PICK accepted \in {0, 1} : inbox' = [inbox EXCEPT ![r] = inbox[r] + accepted]
      BY <1>3 DEF DiesSending
    <2>3. QED
      BY <1>3, <2>1, <2>2, RetryStep DEF DiesSending
  <1>4. QED
    BY <1>1, <1>2, <1>3

-----------------------------------------------------------------------------
(* The other steps                                                         *)

LEMMA RequestStep ==
    ASSUME MailInv, NEW n \in 0 .. N, Request(n)
    PROVE  MailInv'
  <1>1. /\ status = "none" /\ status' = "pending" /\ worker = Gone /\ worker' = Gone
        /\ \A r \in Recipients : mail'[r] \in {"none", "pending"} /\ mail[r] = "none"
        /\ mail' \in [Recipients -> MailStatus]
        /\ queued' \in BOOLEAN /\ attempts' = attempts /\ counts' = counts /\ inbox' = inbox
    BY DEF Request, MailInv, TypeOK, Stages, MailStatus
  <1>2. TypeOK'
    BY <1>1 DEF MailInv, TypeOK, JobStatus
  <1>3. counts = [sent |-> 0, failed |-> 0]
    BY <1>1 DEF MailInv, Stages
  <1>4. Stages'
    BY <1>1, <1>3 DEF Stages, Active, Gone
  <1>5. HandOK' /\ Counting' /\ CountsMatch'
    BY <1>1 DEF HandOK, Counting, CountsMatch, Active, Gone
  <1>6. Waiting'
    BY <1>1 DEF MailInv, Waiting, Gone, Dead
  <1>7. ReportsHonest'
    BY <1>1 DEF MailInv, ReportsHonest
  <1>8. QED
    BY <1>2, <1>4, <1>5, <1>6, <1>7 DEF MailInv

LEMMA StartStep ==
    ASSUME MailInv, Start
    PROVE  MailInv'
  <1>1. /\ queued /\ ~queued' /\ queued' \in BOOLEAN
        /\ mail' = mail /\ attempts' = attempts /\ counts' = counts /\ inbox' = inbox
        /\ status = "pending" /\ worker = Gone
        /\ \A r \in Recipients : mail[r] \notin {"sent", "failed"}
        /\ counts = [sent |-> 0, failed |-> 0]
    BY DEF Start, MailInv, Stages
  <1>2. \A st : With(st)' = With(st)
    BY <1>1 DEF With
  <1>3. Cardinality(With("sent")) = 0 /\ Cardinality(With("failed")) = 0
    BY <1>1, NobodySettled
  <1>4. \/ status' = "failed" /\ worker' = Gone
        \/ /\ status' = "running"
           /\ worker' \in Memory /\ worker'.pc = "loop" /\ worker'.chunk = {}
           /\ worker'.attempt = 0 /\ worker'.sent = 0 /\ worker'.failed = 0
    <2>1. 0 \in 0 .. MaxAttempts /\ Cardinality(With("pending")) \in Nat
      BY MailAssumption, WithFinite
    <2>2. CASE /\ status' = "running"
               /\ worker' = [pc |-> "loop", offset |-> 0, end |-> Cardinality(With("pending")),
                             chunk |-> {}, attempt |-> 0,
                             sent |-> counts.sent, failed |-> counts.failed]
      BY <1>1, <2>1, <2>2 DEF Memory
    <2>3. QED
      BY <1>1, <2>2 DEF Start
  <1>5. TypeOK'
    BY <1>1, <1>4 DEF MailInv, TypeOK, JobStatus
  <1>6. Stages' /\ CountsMatch'
    BY <1>1, <1>4 DEF Stages, CountsMatch, Active, Gone
  <1>7. HandOK' /\ Counting'
    BY <1>1, <1>2, <1>3, <1>4 DEF HandOK, Counting, Active, Gone
  <1>8. Waiting'
    BY <1>1, <1>4 DEF MailInv, Waiting, Gone, Dead
  <1>9. ReportsHonest'
    BY <1>1 DEF MailInv, ReportsHonest
  <1>10. QED
    BY <1>5, <1>6, <1>7, <1>8, <1>9 DEF MailInv

\* The task fetches a slice, or saves its counters and goes on.
LEMMA ChunkStep ==
    ASSUME MailInv, NextChunk \/ EndChunk
    PROVE  MailInv'
  <1>1. /\ Active /\ status' = status /\ mail' = mail /\ attempts' = attempts
        /\ queued' = queued /\ inbox' = inbox
        /\ worker.pc = "loop" \/ worker.chunk = {}
    BY DEF NextChunk, EndChunk, Active, rows
  <1>2. worker \in Memory /\ worker # Dead
    BY <1>1, ActiveTyped DEF MailInv, Active, Dead
  <1>3. status = "running" /\ ~queued /\ worker.chunk = {} /\ worker.attempt = 0
    BY <1>1 DEF MailInv, Stages, HandOK, Active
  <1>4. \A st : With(st)' = With(st)
    BY <1>1 DEF With
  <1>5. \A r \in Recipients : mail[r] \in {"none", "pending"} => attempts[r] = 0
    BY <1>1, <1>2, <1>3 DEF MailInv, Waiting
  <1>6. /\ worker' \in Memory /\ worker'.attempt = 0
        /\ worker'.sent = worker.sent /\ worker'.failed = worker.failed
        /\ counts' \in [sent : Nat, failed : Nat]
        /\ \/ worker'.pc = "chunk" /\ worker'.chunk \subseteq With("pending")
           \/ /\ worker'.pc = "loop" /\ worker'.chunk = {}
              /\ counts' = [sent |-> worker'.sent, failed |-> worker'.failed]
    <2>1. CASE NextChunk
      <3> DEFINE S == Slice(worker.offset)
      <3>1. S \subseteq With("pending")
        BY DEF Slice
      <3>2. worker' = [worker EXCEPT !.pc = "chunk", !.chunk = S] /\ counts' = counts
        BY <2>1 DEF NextChunk, rows
      <3> HIDE DEF S
      <3>3. /\ worker' \in Memory /\ worker'.pc = "chunk" /\ worker'.chunk = S
            /\ worker'.attempt = worker.attempt
            /\ worker'.sent = worker.sent /\ worker'.failed = worker.failed
        <4>1. S \in SUBSET Recipients
          BY <3>1 DEF With
        <4>2. \A v : v = [worker EXCEPT !.pc = "chunk", !.chunk = S]
                   => /\ v \in Memory /\ v.pc = "chunk" /\ v.chunk = S
                      /\ v.attempt = worker.attempt
                      /\ v.sent = worker.sent /\ v.failed = worker.failed
          BY <1>2, <4>1, MailAssumption DEF Memory
        <4>3. QED
          BY <3>2, <4>2
      <3>4. QED
        BY <1>3, <3>1, <3>2, <3>3 DEF MailInv, TypeOK
    <2>2. CASE EndChunk
      <3> DEFINE n == worker.offset + ChunkSize
      <3>1. n \in Nat /\ worker.sent \in Nat /\ worker.failed \in Nat
        BY <1>1, ActiveTyped, MailAssumption DEF MailInv
      <3>2. /\ worker' = [worker EXCEPT !.pc = "loop", !.offset = n]
            /\ counts' = [sent |-> worker.sent, failed |-> worker.failed]
        BY <2>2 DEF EndChunk
      <3> HIDE DEF n
      <3>3. /\ worker' \in Memory /\ worker'.pc = "loop" /\ worker'.chunk = worker.chunk
            /\ worker'.attempt = worker.attempt
            /\ worker'.sent = worker.sent /\ worker'.failed = worker.failed
        <4>1. \A v : v = [worker EXCEPT !.pc = "loop", !.offset = n]
                   => /\ v \in Memory /\ v.pc = "loop" /\ v.chunk = worker.chunk
                      /\ v.attempt = worker.attempt
                      /\ v.sent = worker.sent /\ v.failed = worker.failed
          BY <1>2, <3>1 DEF Memory
        <4>2. QED
          BY <3>2, <4>1
      <3>4. QED
        BY <1>3, <3>1, <3>2, <3>3
    <2>3. QED
      BY <2>1, <2>2
  <1>7. TypeOK'
    BY <1>1, <1>6 DEF MailInv, TypeOK
  <1>8. Stages' /\ CountsMatch'
    BY <1>1, <1>3 DEF Stages, CountsMatch
  <1>9. HandOK'
    BY <1>4, <1>6, MailAssumption DEF HandOK
  <1>10. Waiting'
    BY <1>1, <1>5, <1>6 DEF Waiting
  <1>11. Counting'
    BY <1>1, <1>4, <1>6 DEF MailInv, Counting, Active
  <1>12. ReportsHonest'
    BY <1>1 DEF MailInv, ReportsHonest
  <1>13. QED
    BY <1>7, <1>8, <1>9, <1>10, <1>11, <1>12 DEF MailInv

\* The task ends: it says so, or it dies between two recipients.
LEMMA EndStep ==
    ASSUME MailInv, Finish \/ Dies
    PROVE  MailInv'
  <1>1. /\ Active /\ counts' = counts /\ mail' = mail /\ attempts' = attempts
        /\ queued' = queued /\ inbox' = inbox
        /\ \/ worker' = Dead /\ status' = status
           \/ worker.pc = "loop" /\ worker' = Gone /\ status' = "completed"
    BY DEF Finish, Dies, Active, rows
  <1>2. status = "running" /\ ~queued /\ worker # Dead
    BY <1>1 DEF MailInv, Stages, Active, Dead
  <1>3. \A st : With(st)' = With(st)
    BY <1>1 DEF With
  <1>4. TypeOK'
    BY <1>1 DEF MailInv, TypeOK, JobStatus
  <1>5. HandOK' /\ Counting' /\ ~Active' /\ status' # "none" /\ ~queued'
    BY <1>1, <1>2 DEF HandOK, Counting, Active, Gone, Dead
  <1>6. CountsMatch'
    BY <1>1, <1>2, <1>3 DEF MailInv, CountsMatch, Counting
  <1>7. Waiting'
    BY <1>1, <1>2 DEF MailInv, Waiting, Gone, Dead
  <1>8. ReportsHonest'
    BY <1>1 DEF MailInv, ReportsHonest
  <1>9. Stages'
    BY <1>5 DEF Stages
  <1>10. QED
    BY <1>4, <1>5, <1>6, <1>7, <1>8, <1>9 DEF MailInv

-----------------------------------------------------------------------------
(* The theorems                                                            *)

LEMMA MailInvInit == Init => MailInv
  <1> SUFFICES ASSUME Init PROVE MailInv
    OBVIOUS
  <1>1. /\ status = "none" /\ worker = Gone /\ ~queued /\ queued \in BOOLEAN
        /\ counts = [sent |-> 0, failed |-> 0]
        /\ \A r \in Recipients : mail[r] = "none" /\ attempts[r] = 0 /\ inbox[r] = 0
    BY DEF Init
  <1>2. TypeOK
    <2>1. mail \in [Recipients -> MailStatus]
      BY DEF Init, MailStatus
    <2>2. attempts \in [Recipients -> 0 .. MaxAttempts] /\ inbox \in [Recipients -> Nat]
      BY MailAssumption DEF Init
    <2>3. QED
      BY <1>1, <2>1, <2>2 DEF TypeOK, JobStatus
  <1>3. Stages /\ HandOK /\ Counting /\ CountsMatch
    BY <1>1 DEF Stages, HandOK, Counting, CountsMatch, Active, Gone
  <1>4. Waiting /\ ReportsHonest
    BY <1>1 DEF Waiting, ReportsHonest, Gone, Dead
  <1>5. QED
    BY <1>2, <1>3, <1>4 DEF MailInv

LEMMA MailInvNext == MailInv /\ [Next]_vars => MailInv'
  <1> SUFFICES ASSUME MailInv, [Next]_vars PROVE MailInv'
    OBVIOUS
  <1>1. CASE \E n \in 0 .. N : Request(n)
    BY <1>1, RequestStep
  <1>2. CASE Works
    BY <1>2, StartStep, ChunkStep, EndStep, AttemptStep DEF Works
  <1>3. CASE Dies \/ \E r \in Recipients : DiesSending(r)
    BY <1>3, EndStep, AttemptStep
  <1>4. CASE UNCHANGED vars
    BY <1>4 DEF vars, MailInv, TypeOK, Stages, HandOK, Waiting, Counting, CountsMatch,
                ReportsHonest, Active, First, With
  <1>5. QED
    BY <1>1, <1>2, <1>3, <1>4 DEF Next

LEMMA MailInvariant == Spec => []MailInv
  BY MailInvInit, MailInvNext, PTL DEF Spec

\* Rows and memory keep their types: no attempt beyond MAX_ATTEMPTS is counted.
THEOREM MailTyped == Spec => []TypeOK
  BY MailInvariant, PTL DEF MailInv

\* Of any number of recipients in slices of any size, a completed job has counted
\* those it sent to and those it gave up, each once.
THEOREM CountsAlwaysMatch == Spec => []CountsMatch
  BY MailInvariant, PTL DEF MailInv

\* What a row says of its recipient is true of the mail server, at every moment.
THEOREM ReportsAlwaysHonest == Spec => []ReportsHonest
  BY MailInvariant, PTL DEF MailInv

\* A step mails and marks a recipient only while the row is pending.
LEMMA SettledStep ==
    ASSUME MailInv, [Next]_vars, NEW r \in Recipients, mail[r] \in {"sent", "failed"}
    PROVE  inbox'[r] = inbox[r] /\ mail'[r] = mail[r]
  <1>1. status # "none"
    BY DEF MailInv, Stages
  <1>2. mail \in [Recipients -> MailStatus] /\ inbox \in [Recipients -> Nat]
    BY DEF MailInv, TypeOK
  <1>3. CASE \E q \in Recipients : Delivered(q) \/ Raised(q) \/ DiesSending(q)
    <2>1. PICK q \in Recipients : Delivered(q) \/ Raised(q) \/ DiesSending(q)
      BY <1>3
    <2>2. Sending(q)
      BY <2>1 DEF Delivered, Raised, DiesSending
    <2>3. r # q
      BY <2>2, SendingFacts
    <2>4. CASE Delivered(q)
      BY <1>2, <2>3, <2>4 DEF Delivered
    <2>5. CASE Raised(q)
      BY <1>2, <2>3, <2>5 DEF Raised
    <2>6. CASE DiesSending(q)
      BY <1>2, <2>3, <2>6 DEF DiesSending
    <2>7. QED
      BY <2>1, <2>4, <2>5, <2>6
  <1>4. CASE Start \/ NextChunk \/ EndChunk \/ Finish \/ Dies \/ UNCHANGED vars
    BY <1>4 DEF Start, NextChunk, EndChunk, Finish, Dies, rows, vars
  <1>5. QED
    BY <1>1, <1>3, <1>4 DEF Next, Works, Request

\* Whoever was settled is left alone, although every slice is a fresh query over
\* rows that are leaving PENDING.
THEOREM SettledAlwaysLeftAlone == Spec => SettledLeftAlone
  <1>1. MailInv /\ [Next]_vars
          => [\A r \in Recipients :
                mail[r] \in {"sent", "failed"} => inbox'[r] = inbox[r] /\ mail'[r] = mail[r]]_vars
    BY SettledStep
  <1>2. QED
    BY <1>1, MailInvariant, PTL DEF Spec, SettledLeftAlone

-----------------------------------------------------------------------------
(* What the slices skip                                                    *)

\* A set of numbers has a least element. The library's induction principles take a
\* predicate; this says the same of a set, from which an induction can be read off.
LEMMA LeastElement ==
    ASSUME NEW T, T \subseteq Nat, T # {}
    PROVE  \E x \in T : \A y \in T : x <= y
  <1> DEFINE R == {p \in Nat \X Nat : p[1] < p[2]}
  <1>1. IsWellFoundedOn(R, Nat)
    BY NatLessThanWellFounded DEF OpToRel
  <1>2. \A x, y \in Nat : y < x => <<y, x>> \in R
    OBVIOUS
  <1> HIDE DEF R
  <1>3. PICK x \in T : \A y \in T : <<y, x>> \notin R
    BY <1>1, WFMin
  <1>4. ASSUME NEW y \in T
        PROVE  x <= y
    <2>1. x \in Nat /\ y \in Nat /\ ~(y < x)
      BY <1>2, <1>3
    <2>2. QED
      BY <2>1
  <1>5. QED
    BY <1>4

\* A set of recipients has a last one.
LEMMA LastRecipient ==
    ASSUME NEW T, T \subseteq Recipients, T # {}
    PROVE  \E x \in T : \A y \in T : y <= x
  <1> DEFINE D == {N - x : x \in T}
  <1>1. \A x \in T : x \in Nat /\ N - x \in Nat
    BY MailAssumption DEF Recipients
  <1>2. D \subseteq Nat /\ D # {}
    BY <1>1
  <1>3. PICK d \in D : \A e \in D : d <= e
    <2> HIDE DEF D
    <2> QED BY <1>2, LeastElement
  <1>4. PICK x \in T : d = N - x
    OBVIOUS
  <1>5. ASSUME NEW y \in T
        PROVE  y <= x
    <2>1. N - x <= N - y
      BY <1>3, <1>4
    <2>2. QED
      BY <1>1, <2>1, MailAssumption
  <1>6. QED
    BY <1>5

\* How many pending rows the query returns before row r.
Rank(r) == Cardinality({q \in With("pending") : q < r})

LEMMA RankType == \A r : Rank(r) \in Nat
  <1> SUFFICES ASSUME NEW r PROVE Rank(r) \in Nat
    OBVIOUS
  <1>1. {q \in With("pending") : q < r} \subseteq With("pending")
    OBVIOUS
  <1>2. QED
    BY <1>1, WithFinite, FS_Subset, FS_CardinalityType DEF Rank

LEMMA UnionBound ==
    ASSUME NEW A, NEW B, NEW C, IsFiniteSet(A), IsFiniteSet(B), C \subseteq A \cup B
    PROVE  Cardinality(C) <= Cardinality(A) + Cardinality(B)
  <1>1. /\ IsFiniteSet(A \cup B)
        /\ Cardinality(A \cup B) = Cardinality(A) + Cardinality(B) - Cardinality(A \cap B)
    BY FS_Union
  <1>2. /\ Cardinality(A) \in Nat /\ Cardinality(B) \in Nat /\ Cardinality(A \cap B) \in Nat
    BY FS_CardinalityType, FS_Intersection
  <1>3. Cardinality(C) \in Nat /\ Cardinality(C) <= Cardinality(A \cup B)
    BY <1>1, FS_Subset, FS_CardinalityType
  <1>4. QED
    BY <1>1, <1>2, <1>3

\* No more than n rows have fewer than n rows before them.
LEMMA FewBefore ==
    ASSUME NEW n \in Nat
    PROVE  LET A == {r \in With("pending") : Rank(r) < n}
           IN  IsFiniteSet(A) /\ Cardinality(A) \in Nat /\ Cardinality(A) <= n
  <1> DEFINE A == {r \in With("pending") : Rank(r) < n}
  <1>1. IsFiniteSet(A) /\ Cardinality(A) \in Nat
    BY WithFinite, FS_Subset, FS_CardinalityType
  <1>2. CASE A = {}
    BY <1>2, FS_EmptySet
  <1>3. CASE A # {}
    <2>1. A \subseteq Recipients
      BY DEF With
    <2>2. PICK x \in A : \A y \in A : y <= x
      <3> HIDE DEF A
      <3> QED BY <1>3, <2>1, LastRecipient
    <2> DEFINE L == {q \in With("pending") : q < x}
    <2>3. A \subseteq L \cup {x}
      <3>1. ASSUME NEW y \in A, y # x
            PROVE  y < x
        <4>1. y \in Nat /\ x \in Nat /\ y <= x
          BY <2>1, <2>2, MailAssumption DEF Recipients
        <4>2. QED
          BY <3>1, <4>1
      <3>2. QED
        BY <3>1
    <2>4. IsFiniteSet(L) /\ Cardinality(L) = Rank(x)
      BY WithFinite, FS_Subset DEF Rank
    <2>5. IsFiniteSet({x}) /\ Cardinality({x}) = 1
      BY FS_Singleton
    <2>6. Cardinality(A) <= Rank(x) + 1
      <3> HIDE DEF A, L
      <3> QED BY <2>3, <2>4, <2>5, UnionBound
    <2>7. Rank(x) < n /\ Rank(x) \in Nat
      BY RankType
    <2>8. Cardinality(A) <= n
      <3> HIDE DEF A
      <3> QED BY <1>1, <2>6, <2>7
    <2>9. QED
      BY <1>1, <2>8
  <1>4. QED
    BY <1>1, <1>2, <1>3

\* A slice is full, or no more pending rows are left out of it than it skipped.
LEMMA SliceFull ==
    ASSUME NEW n \in Nat
    PROVE  /\ Cardinality(Slice(n)) \in Nat
           /\ \/ Cardinality(Slice(n)) >= ChunkSize
              \/ Cardinality(With("pending")) <= n + Cardinality(Slice(n))
  <1> DEFINE A == {r \in With("pending") : Rank(r) < n}
             B == {r \in With("pending") : Rank(r) >= n + ChunkSize}
  <1>1. IsFiniteSet(A) /\ Cardinality(A) \in Nat /\ Cardinality(A) <= n
    BY FewBefore
  <1>2. Slice(n) = {r \in With("pending") : n <= Rank(r) /\ Rank(r) < n + ChunkSize}
    BY DEF Slice, Rank
  <1>3. IsFiniteSet(Slice(n)) /\ Cardinality(Slice(n)) \in Nat
    <2>1. Slice(n) \subseteq With("pending")
      BY <1>2
    <2>2. QED
      BY <2>1, WithFinite, FS_Subset, FS_CardinalityType
  <1>4. \A r \in With("pending") : r \in A \/ r \in B \/ r \in Slice(n)
    BY <1>2, RankType, MailAssumption
  <1>5. CASE B = {}
    <2>1. With("pending") \subseteq A \cup Slice(n)
      BY <1>4, <1>5
    <2>2. Cardinality(With("pending")) <= Cardinality(A) + Cardinality(Slice(n))
      <3> HIDE DEF A
      <3> QED BY <1>1, <1>3, <2>1, UnionBound
    <2>3. QED
      <3> HIDE DEF A
      <3> QED BY <1>1, <1>3, <2>2, WithFinite
  <1>6. CASE B # {}
    <2>1. B \subseteq Nat
      BY DEF With, Recipients
    <2>2. PICK b \in B : \A y \in B : b <= y
      <3> HIDE DEF B
      <3> QED BY <1>6, <2>1, LeastElement
    <2> DEFINE L == {q \in With("pending") : q < b}
    <2>3. L \subseteq A \cup Slice(n)
      <3>1. ASSUME NEW q \in L
            PROVE  q \notin B
        <4>1. q \in Nat /\ b \in Nat /\ q < b
          BY <2>1, MailAssumption DEF With, Recipients
        <4>2. QED
          BY <2>2, <4>1
      <3>2. QED
        BY <1>4, <3>1
    <2>4. Rank(b) <= Cardinality(A) + Cardinality(Slice(n))
      <3>1. Cardinality(L) <= Cardinality(A) + Cardinality(Slice(n))
        <4> HIDE DEF A, L
        <4> QED BY <1>1, <1>3, <2>3, UnionBound
      <3>2. QED
        BY <3>1 DEF Rank
    <2>5. Rank(b) >= n + ChunkSize /\ Rank(b) \in Nat
      BY RankType
    <2>6. QED
      <3> HIDE DEF A, B
      <3> QED BY <1>1, <1>3, <2>4, <2>5, MailAssumption
  <1>7. QED
    BY <1>3, <1>5, <1>6

Pending == Cardinality(With("pending"))
InHand  == Cardinality(worker.chunk)
Settled == worker.sent + worker.failed

\* Where the slices have come to: the rows of the slice in hand counted as done, either
\* as many are done as are left, or none of the offset was skipped in vain.
Progress ==
    Active =>
        /\ Settled + Pending = worker.end /\ worker.end <= N
        /\ \/ Settled + InHand >= Pending - InHand
           \/ worker.pc = "loop" /\ Settled >= worker.offset
           \/ worker.pc = "chunk" /\ Settled + InHand >= worker.offset + ChunkSize

SkipInv == MailInv /\ Progress /\ HalfServed

LEMMA ProgressTyped ==
    ASSUME MailInv, Active
    PROVE  /\ Pending \in Nat /\ InHand \in Nat /\ Settled \in Nat /\ worker.end \in Nat
           /\ worker.offset \in Nat /\ IsFiniteSet(worker.chunk)
           /\ worker.pc = "loop" => InHand = 0
  <1>1. /\ worker \in Memory /\ worker.chunk \subseteq Recipients
        /\ worker.sent \in Nat /\ worker.failed \in Nat /\ worker.offset \in Nat
    BY ActiveTyped DEF MailInv
  <1>2. worker.end \in Nat
    BY <1>1 DEF Memory
  <1>3. IsFiniteSet(worker.chunk)
    <2>1. IsFiniteSet(Recipients)
      BY MailAssumption, FS_Interval DEF Recipients
    <2>2. QED
      BY <1>1, <2>1, FS_Subset
  <1>4. worker.pc = "loop" => worker.chunk = {}
    BY DEF MailInv, HandOK
  <1>5. QED
    BY <1>1, <1>2, <1>3, <1>4, WithFinite, FS_CardinalityType, FS_EmptySet
    DEF Pending, InHand, Settled

LEMMA StartProgress ==
    ASSUME MailInv, Start
    PROVE  Progress'
  <1>1. CASE worker' = worker
    <2>1. worker' = Gone
      BY <1>1 DEF Start, MailInv, Stages
    <2>2. QED
      BY <2>1 DEF Progress, Active, Gone
  <1>2. CASE worker' = [pc |-> "loop", offset |-> 0, end |-> Cardinality(With("pending")),
                        chunk |-> {}, attempt |-> 0,
                        sent |-> counts.sent, failed |-> counts.failed]
    <2>1. counts = [sent |-> 0, failed |-> 0] /\ mail' = mail
      BY DEF Start, MailInv, Stages
    <2>2. Pending' = Pending /\ Pending \in Nat
      BY <2>1, WithFinite DEF Pending, With
    <2>3. Pending <= N
      <3>1. IsFiniteSet(Recipients) /\ Cardinality(Recipients) = N
        BY MailAssumption, FS_Interval DEF Recipients
      <3>2. With("pending") \subseteq Recipients
        BY DEF With
      <3>3. QED
        BY <3>1, <3>2, FS_Subset DEF Pending
    <2>4. /\ worker'.sent = 0 /\ worker'.failed = 0 /\ worker'.end = Pending
          /\ worker'.offset = 0 /\ worker'.pc = "loop"
      BY <1>2, <2>1 DEF Pending
    <2>5. Settled' = 0
      BY <2>4 DEF Settled
    <2>6. QED
      BY <2>2, <2>3, <2>4, <2>5 DEF Progress
  <1>3. QED
    BY <1>1, <1>2 DEF Start

LEMMA ChunkProgress ==
    ASSUME SkipInv, NextChunk \/ EndChunk
    PROVE  Progress'
  <1>1. Active /\ mail' = mail
    BY DEF NextChunk, EndChunk, Active, rows
  <1>2. /\ Pending \in Nat /\ InHand \in Nat /\ Settled \in Nat /\ worker.end \in Nat
        /\ worker.offset \in Nat /\ (worker.pc = "loop" => InHand = 0)
    BY <1>1, ProgressTyped DEF SkipInv
  <1>3. Pending' = Pending /\ worker \in Memory
    BY <1>1, ActiveTyped DEF Pending, With, SkipInv, MailInv
  <1>4. CASE NextChunk
    <2> DEFINE S == Slice(worker.offset)
    <2>1. worker.pc = "loop" /\ worker' = [worker EXCEPT !.pc = "chunk", !.chunk = S]
      BY <1>4 DEF NextChunk
    <2>2. /\ Cardinality(S) \in Nat
          /\ \/ Cardinality(S) >= ChunkSize
             \/ Pending <= worker.offset + Cardinality(S)
      BY <1>2, SliceFull DEF Pending
    <2> HIDE DEF S
    <2>3. /\ worker'.pc = "chunk" /\ worker'.chunk = S /\ worker'.sent = worker.sent
          /\ worker'.failed = worker.failed /\ worker'.end = worker.end
          /\ worker'.offset = worker.offset
      <3>1. \A v : v = [worker EXCEPT !.pc = "chunk", !.chunk = S] =>
                /\ v.pc = "chunk" /\ v.chunk = S /\ v.sent = worker.sent
                /\ v.failed = worker.failed /\ v.end = worker.end
                /\ v.offset = worker.offset
        BY <1>3 DEF Memory
      <3>2. QED
        BY <2>1, <3>1
    <2>4. InHand' = Cardinality(S) /\ Settled' = Settled
      BY <2>3 DEF InHand, Settled
    <2>5. /\ Settled + Pending = worker.end /\ worker.end <= N
          /\ Settled >= Pending \/ Settled >= worker.offset
      BY <1>1, <1>2, <2>1 DEF SkipInv, Progress
    <2>6. \/ Settled + Cardinality(S) >= Pending - Cardinality(S)
          \/ Settled + Cardinality(S) >= worker.offset + ChunkSize
      BY <1>2, <2>2, <2>5, MailAssumption
    <2>7. QED
      BY <1>3, <2>3, <2>4, <2>5, <2>6 DEF Progress
  <1>5. CASE EndChunk
    <2> DEFINE n == worker.offset + ChunkSize
    <2>1. /\ worker.pc = "chunk" /\ worker.chunk = {}
          /\ worker' = [worker EXCEPT !.pc = "loop", !.offset = n]
      BY <1>5 DEF EndChunk
    <2>2. InHand = 0
      BY <2>1, FS_EmptySet DEF InHand
    <2>3. /\ Settled + Pending = worker.end /\ worker.end <= N
          /\ Settled >= Pending \/ Settled >= n
      BY <1>1, <1>2, <2>1, <2>2, MailAssumption DEF SkipInv, Progress
    <2> HIDE DEF n
    <2>4. /\ worker'.pc = "loop" /\ worker'.chunk = {} /\ worker'.sent = worker.sent
          /\ worker'.failed = worker.failed /\ worker'.end = worker.end
          /\ worker'.offset = n
      <3>1. \A v : v = [worker EXCEPT !.pc = "loop", !.offset = n] =>
                /\ v.pc = "loop" /\ v.chunk = worker.chunk /\ v.sent = worker.sent
                /\ v.failed = worker.failed /\ v.end = worker.end /\ v.offset = n
        BY <1>3 DEF Memory
      <3>2. QED
        BY <2>1, <3>1
    <2>5. InHand' = 0 /\ Settled' = Settled
      BY <2>2, <2>1, <2>4 DEF InHand, Settled
    <2>6. QED
      BY <1>2, <1>3, <2>3, <2>4, <2>5 DEF Progress
  <1>6. QED
    BY <1>4, <1>5

\* One row less is pending and in hand, and one more is settled.
LEMMA SettleProgress ==
    ASSUME SkipInv, NEW r \in Recipients, Sending(r), NEW st \in {"sent", "failed"},
           mail' = [mail EXCEPT ![r] = st],
           worker' = IF st = "sent"
                       THEN [worker EXCEPT !.chunk = worker.chunk \ {r}, !.attempt = 0,
                                           !.sent = worker.sent + 1]
                       ELSE [worker EXCEPT !.chunk = worker.chunk \ {r}, !.attempt = 0,
                                           !.failed = worker.failed + 1]
    PROVE  Progress'
  <1>1. /\ Active /\ worker.pc = "chunk" /\ mail[r] = "pending" /\ r \in worker.chunk
    BY SendingFacts DEF SkipInv, First
  <1>2. /\ worker \in Memory /\ worker.sent \in Nat /\ worker.failed \in Nat
        /\ mail \in [Recipients -> MailStatus]
    BY <1>1, ActiveTyped DEF SkipInv, MailInv, TypeOK
  <1>3. /\ Pending \in Nat /\ InHand \in Nat /\ Settled \in Nat /\ worker.end \in Nat
        /\ worker.offset \in Nat /\ IsFiniteSet(worker.chunk)
    BY <1>1, ProgressTyped DEF SkipInv
  <1>4. Pending' = Pending - 1
    <2>1. With("pending")' = With("pending") \ {r} /\ r \in With("pending")
      BY <1>1, <1>2, OneSettled DEF With
    <2>2. QED
      BY <2>1, WithFinite, FS_RemoveElement DEF Pending
  <1>5. /\ worker'.pc = "chunk" /\ worker'.chunk = worker.chunk \ {r}
        /\ worker'.sent + worker'.failed = worker.sent + worker.failed + 1
        /\ worker'.end = worker.end /\ worker'.offset = worker.offset
    <2> DEFINE rest == worker.chunk \ {r}
               more == worker.sent + 1
               lost == worker.failed + 1
    <2>1. CASE st = "sent"
      <3>1. worker' = [worker EXCEPT !.chunk = rest, !.attempt = 0, !.sent = more]
        BY <2>1
      <3> HIDE DEF rest, more
      <3>2. \A v : v = [worker EXCEPT !.chunk = rest, !.attempt = 0, !.sent = more] =>
                /\ v.pc = worker.pc /\ v.chunk = rest /\ v.sent = more
                /\ v.failed = worker.failed /\ v.end = worker.end /\ v.offset = worker.offset
        BY <1>2 DEF Memory
      <3>3. /\ worker'.pc = "chunk" /\ worker'.chunk = rest /\ worker'.sent = more
            /\ worker'.failed = worker.failed /\ worker'.end = worker.end
            /\ worker'.offset = worker.offset
        BY <1>1, <3>1, <3>2
      <3>4. QED
        BY <1>2, <3>3 DEF rest, more
    <2>2. CASE st = "failed"
      <3>1. worker' = [worker EXCEPT !.chunk = rest, !.attempt = 0, !.failed = lost]
        BY <2>2
      <3> HIDE DEF rest, lost
      <3>2. \A v : v = [worker EXCEPT !.chunk = rest, !.attempt = 0, !.failed = lost] =>
                /\ v.pc = worker.pc /\ v.chunk = rest /\ v.sent = worker.sent
                /\ v.failed = lost /\ v.end = worker.end /\ v.offset = worker.offset
        BY <1>2 DEF Memory
      <3>3. /\ worker'.pc = "chunk" /\ worker'.chunk = rest /\ worker'.sent = worker.sent
            /\ worker'.failed = lost /\ worker'.end = worker.end
            /\ worker'.offset = worker.offset
        BY <1>1, <3>1, <3>2
      <3>4. QED
        BY <1>2, <3>3 DEF rest, lost
    <2>3. QED
      BY <2>1, <2>2
  <1>6. Settled' = Settled + 1 /\ InHand' = InHand - 1
    <2>1. Cardinality(worker.chunk \ {r}) = Cardinality(worker.chunk) - 1
      BY <1>1, <1>3, FS_RemoveElement
    <2>2. QED
      BY <1>5, <2>1 DEF Settled, InHand
  <1>7. /\ Settled + Pending = worker.end /\ worker.end <= N
        /\ \/ Settled + InHand >= Pending - InHand
           \/ Settled + InHand >= worker.offset + ChunkSize
    BY <1>1 DEF SkipInv, Progress
  <1>8. /\ Settled' + Pending' = worker'.end
        /\ Settled' + InHand' = Settled + InHand
        /\ Pending' - InHand' = Pending - InHand
    BY <1>3, <1>4, <1>5, <1>6, <1>7
  <1>9. QED
    BY <1>5, <1>7, <1>8 DEF Progress

\* The task keeps its slice, or is gone.
LEMMA IdleProgress ==
    ASSUME SkipInv, mail' = mail,
           \/ worker' \in {Gone, Dead, worker}
           \/ Active /\ \E a \in 0 .. MaxAttempts : worker' = [worker EXCEPT !.attempt = a]
    PROVE  Progress'
  <1>1. CASE worker' \in {Gone, Dead}
    BY <1>1 DEF Progress, Active, Gone, Dead
  <1>2. Pending' = Pending
    BY DEF Pending, With
  <1>3. CASE worker' = worker
    BY <1>2, <1>3 DEF SkipInv, Progress, Active, Settled, InHand
  <1>4. CASE Active /\ \E a \in 0 .. MaxAttempts : worker' = [worker EXCEPT !.attempt = a]
    <2>1. worker \in Memory
      BY <1>4, ActiveTyped DEF SkipInv, MailInv
    <2>2. \A a, v : v = [worker EXCEPT !.attempt = a] =>
              /\ v.pc = worker.pc /\ v.chunk = worker.chunk /\ v.sent = worker.sent
              /\ v.failed = worker.failed /\ v.end = worker.end /\ v.offset = worker.offset
      BY <2>1 DEF Memory
    <2>3. /\ worker'.pc = worker.pc /\ worker'.chunk = worker.chunk
          /\ worker'.sent = worker.sent /\ worker'.failed = worker.failed
          /\ worker'.end = worker.end /\ worker'.offset = worker.offset
      BY <1>4, <2>2
    <2>4. Settled' = Settled /\ InHand' = InHand
      BY <2>3 DEF Settled, InHand
    <2>5. QED
      BY <1>2, <1>4, <2>3, <2>4 DEF SkipInv, Progress
  <1>5. QED
    BY <1>1, <1>3, <1>4

LEMMA AttemptProgress ==
    ASSUME SkipInv, NEW r \in Recipients, Delivered(r) \/ Raised(r) \/ DiesSending(r)
    PROVE  Progress'
  <1>1. Sending(r)
    BY DEF Delivered, Raised, DiesSending
  <1>2. CASE Delivered(r)
    BY <1>1, <1>2, SettleProgress DEF Delivered
  <1>3. CASE Raised(r)
    <2>1. CASE worker.attempt + 1 < MaxAttempts /\ UNCHANGED mail
                 /\ worker' = [worker EXCEPT !.attempt = worker.attempt + 1]
      <3>1. Active /\ worker.attempt \in Nat
        BY <1>1, SendingFacts DEF SkipInv
      <3>2. worker.attempt + 1 \in 0 .. MaxAttempts
        BY <2>1, <3>1, MailAssumption
      <3>3. QED
        BY <2>1, <3>1, <3>2, IdleProgress
    <2>2. CASE /\ mail' = [mail EXCEPT ![r] = "failed"]
               /\ worker' = [worker EXCEPT !.chunk = worker.chunk \ {r}, !.attempt = 0,
                                           !.failed = worker.failed + 1]
      BY <1>1, <2>2, SettleProgress
    <2>3. QED
      BY <1>3, <2>1, <2>2 DEF Raised
  <1>4. CASE DiesSending(r)
    BY <1>4, IdleProgress DEF DiesSending
  <1>5. QED
    BY <1>2, <1>3, <1>4

\* A job that completes has worked through the offsets of all its rows.
LEMMA FinishServed ==
    ASSUME SkipInv, Finish
    PROVE  HalfServed'
  <1>1. Active /\ worker.pc = "loop" /\ worker.offset >= worker.end /\ mail' = mail
    BY DEF Finish, Active
  <1>2. /\ Pending \in Nat /\ Settled \in Nat /\ worker.end \in Nat
        /\ worker.offset \in Nat /\ InHand = 0
    BY <1>1, ProgressTyped DEF SkipInv
  <1>3. /\ Settled + Pending = worker.end /\ worker.end <= N
        /\ Settled >= Pending \/ Settled >= worker.offset
    BY <1>1, <1>2 DEF SkipInv, Progress
  <1>4. 2 * Pending <= N
    BY <1>1, <1>2, <1>3, MailAssumption
  <1>5. Cardinality(With("pending"))' = Pending
    BY <1>1 DEF Pending, With
  <1>6. QED
    BY <1>4, <1>5 DEF HalfServed

LEMMA SkipNext == SkipInv /\ [Next]_vars => SkipInv'
  <1> SUFFICES ASSUME SkipInv, [Next]_vars PROVE SkipInv'
    OBVIOUS
  <1>1. MailInv'
    BY MailInvNext DEF SkipInv
  <1>2. Progress'
    <2>1. CASE \E n \in 0 .. N : Request(n)
      <3>1. worker' = Gone
        BY <2>1 DEF Request, SkipInv, MailInv, Stages
      <3>2. QED
        BY <3>1 DEF Progress, Active, Gone
    <2>2. CASE Start \/ NextChunk \/ EndChunk
      BY <2>2, StartProgress, ChunkProgress DEF SkipInv
    <2>3. CASE Finish \/ Dies \/ UNCHANGED vars
      BY <2>3, IdleProgress DEF Finish, Dies, rows, vars
    <2>4. CASE \E r \in Recipients : Delivered(r) \/ Raised(r) \/ DiesSending(r)
      BY <2>4, AttemptProgress
    <2>5. QED
      BY <2>1, <2>2, <2>3, <2>4 DEF Next, Works
  <1>3. HalfServed'
    <2>1. CASE Finish
      BY <2>1, FinishServed
    <2>2. CASE status' = "completed" /\ ~Finish
      <3>1. status = "completed" /\ status # "running"
        BY <2>2 DEF Next, Works, Request, Start, NextChunk, EndChunk, Dies, Delivered, Raised,
                    DiesSending, rows, vars
      <3>2. ~Active /\ ~queued
        BY <3>1 DEF SkipInv, MailInv, Stages
      <3>3. mail' = mail
        BY <2>2, <3>1, <3>2
        DEF Next, Works, Request, Start, NextChunk, EndChunk, Dies, Delivered, Raised,
            DiesSending, Sending, Active, rows, vars
      <3>4. QED
        BY <3>1, <3>3 DEF SkipInv, HalfServed, With
    <2>3. QED
      BY <2>1, <2>2 DEF HalfServed
  <1>4. QED
    BY <1>1, <1>2, <1>3 DEF SkipInv

\* Whatever the number of recipients and the size of the slices: although every slice
\* skips rows, a job that completes has settled at least half of them.
THEOREM HalfAlwaysServed == Spec => []HalfServed
  <1>1. Init => SkipInv
    <2>1. Init => MailInv
      BY MailInvInit
    <2>2. Init => Progress /\ HalfServed
      BY DEF Init, Progress, Active, Gone, HalfServed
    <2>3. QED
      BY <2>1, <2>2 DEF SkipInv
  <1>2. SkipInv => HalfServed
    BY DEF SkipInv
  <1>3. QED
    BY <1>1, <1>2, SkipNext, PTL DEF Spec
=============================================================================
