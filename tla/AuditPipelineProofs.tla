------------------------ MODULE AuditPipelineProofs ------------------------
(***************************************************************************)
(* The safety properties of AuditPipeline, for every number of events,     *)
(* starts and attempts. The inductive invariant adds to them where the     *)
(* consumer stands: at most one message beyond the newest one handled, and *)
(* at none beyond it while it waits for a message.                         *)
(***************************************************************************)
EXTENDS AuditPipeline, TLAPS

\* The message in hand is handled in these phases, or there is none.
Position ==
    /\ consumer.current <= frontier + 1
    /\ consumer.phase \in {"WAITING", "HANDLED"} => consumer.current <= frontier
    /\ consumer.phase \in {"INDEXING", "DEAD"} => consumer.current >= 1

StoredInReach == \A o \in 1 .. stored : o <= frontier \/ o \in cut

\* Letters are of events handled before.
LettersHandled == DeadLetters \subseteq 1 .. frontier /\ listed \subseteq 1 .. frontier

IInv == TypeOK /\ NothingSkipped /\ Position /\ StoredInReach /\ LettersHandled

-----------------------------------------------------------------------------
(* The dead letter queue, and the record of the consumer                   *)

\* A letter appended is found in the queue, and none is lost by it.
LEMMA Letters ==
    ASSUME NEW o \in Offsets, dlq \in Seq(Offsets), dlq' = Append(dlq, o)
    PROVE  DeadLetters' = DeadLetters \cup {o}
<1>1. Len(dlq') = Len(dlq) + 1 /\ Len(dlq) \in Nat
  OBVIOUS
<1>2. \A i \in 1 .. Len(dlq) : dlq'[i] = dlq[i]
  OBVIOUS
<1>3. dlq'[Len(dlq) + 1] = o
  OBVIOUS
<1> QED
  BY <1>1, <1>2, <1>3 DEF DeadLetters

\* The assignments the actions make to the record of the consumer.
LEMMA Phased ==
    ASSUME NEW c \in ConsumerRecord, NEW p \in {"DOWN", "WAITING", "INDEXING", "DEAD", "HANDLED"},
           NEW v, v = [c EXCEPT !.phase = p]
    PROVE  v \in ConsumerRecord /\ v.phase = p /\ v.current = c.current
  BY DEF ConsumerRecord

LEMMA Retried ==
    ASSUME NEW c \in ConsumerRecord, NEW a \in 1 .. MaxAttempts, NEW v, v = [c EXCEPT !.attempt = a]
    PROVE  v \in ConsumerRecord /\ v.phase = c.phase /\ v.current = c.current
  BY DEF ConsumerRecord

LEMMA Closing ==
    ASSUME NEW c \in ConsumerRecord, NEW v, v = [c EXCEPT !.closing = TRUE]
    PROVE  v \in ConsumerRecord /\ v.phase = c.phase /\ v.current = c.current
  BY DEF ConsumerRecord

LEMMA CountedTyped ==
    ASSUME NEW c \in ConsumerRecord, NEW v, v = Counted(c)
    PROVE  v \in ConsumerRecord /\ v.phase = c.phase /\ v.current = c.current
<1> DEFINE n == (c.processed + 1) % BatchSize
<1>1. n \in 0 .. BatchSize - 1
  BY AuditAssumption DEF ConsumerRecord
<1>2. v = [c EXCEPT !.processed = n]
  BY DEF Counted
<1> HIDE DEF n
<1> QED
  BY <1>1, <1>2 DEF ConsumerRecord

LEMMA NewTyped ==
    NewConsumer \in ConsumerRecord /\ NewConsumer.current = 0
  BY AuditAssumption DEF NewConsumer, ConsumerRecord

\* A commit moves no position and stores the current offset or nothing.
LEMMA Commits ==
    ASSUME NEW c \in ConsumerRecord, CommitOffset(c)
    PROVE  /\ consumer' \in ConsumerRecord
           /\ consumer'.phase = c.phase /\ consumer'.current = c.current
           /\ stored' = stored \/ stored' = c.current
<1>1. ASSUME NEW o \in 0 .. MaxEvents, NEW v, v = [c EXCEPT !.committed = o]
      PROVE  v \in ConsumerRecord /\ v.phase = c.phase /\ v.current = c.current
  BY <1>1 DEF ConsumerRecord
<1>2. c.current \in 0 .. MaxEvents
  BY DEF ConsumerRecord
<1> QED
  BY <1>1, <1>2 DEF CommitOffset

LEMMA LaterOf ==
    ASSUME NEW n \in Nat, frontier \in Nat
    PROVE  /\ Later(n) \in Nat /\ Later(n) >= frontier /\ Later(n) >= n
           /\ Later(n) = n \/ Later(n) = frontier
  BY DEF Later

\* What the invariant says of the positions, in numbers.
LEMMA Positions ==
    ASSUME TypeOK
    PROVE  /\ consumer.current \in Nat /\ frontier \in Nat /\ published \in Nat
           /\ stored \in Nat /\ MaxEvents \in Nat
           /\ consumer.current <= published /\ frontier <= published /\ published <= MaxEvents
  BY AuditAssumption DEF TypeOK, ConsumerRecord

-----------------------------------------------------------------------------
(* The inductive invariant                                                 *)

LEMMA StartsSafe == Init => IInv
<1> SUFFICES ASSUME Init PROVE IInv
  OBVIOUS
<1>1. consumer \in ConsumerRecord /\ consumer.current = 0 /\ consumer.phase = "DOWN"
  BY NewTyped, Phased DEF Init
<1>2. TypeOK
  BY <1>1, AuditAssumption DEF Init, TypeOK, Offsets
<1> QED
  BY <1>1, <1>2 DEF IInv, Init, NothingSkipped, StoredInReach, Position, LettersHandled, DeadLetters

\* A step that settles nothing: the records are as they were or grow.
LEMMA Quiet ==
    ASSUME IInv, TypeOK', frontier' = frontier, cut \subseteq cut',
           DeadLetters' \cup dropped' = DeadLetters \cup dropped,
           DeadLetters' \subseteq DeadLetters, listed' \subseteq listed \cup DeadLetters, indexed \subseteq indexed',
           \/ stored' = stored
           \/ stored' \in 0 .. MaxEvents
                /\ (stored' <= frontier \/ (stored' = frontier + 1 /\ stored' \in cut'))
    PROVE  NothingSkipped' /\ StoredInReach' /\ LettersHandled'
<1>1. NothingSkipped'
  BY DEF IInv, NothingSkipped, Settled
<1>2. StoredInReach'
  BY Positions DEF IInv, StoredInReach
<1>3. LettersHandled'
  BY DEF IInv, LettersHandled
<1> QED
  BY <1>1, <1>2, <1>3

\* A step that settles the message in hand.
LEMMA Settles ==
    ASSUME IInv, TypeOK', frontier' = Later(consumer.current),
           indexed \subseteq indexed', DeadLetters \cup dropped \subseteq DeadLetters' \cup dropped',
           DeadLetters' \subseteq DeadLetters \cup {consumer.current}, listed' = listed,
           consumer.current \in Offsets,
           consumer.current \in indexed' \cup DeadLetters' \cup dropped',
           stored' = stored, cut' = cut
    PROVE  NothingSkipped' /\ StoredInReach' /\ LettersHandled'
<1>1. /\ consumer.current \in Nat /\ frontier \in Nat /\ consumer.current <= frontier + 1
      /\ frontier' \in Nat /\ frontier' >= frontier /\ frontier' <= frontier + 1
      /\ frontier' = frontier \/ frontier' = consumer.current
      /\ consumer.current \in 1 .. frontier'
  BY Positions, LaterOf DEF IInv, Position, Offsets
<1>2. NothingSkipped'
  <2> SUFFICES ASSUME NEW o \in 1 .. frontier' PROVE Settled(o)'
    BY DEF NothingSkipped
  <2>1. CASE o \in 1 .. frontier
    BY <2>1 DEF IInv, NothingSkipped, Settled
  <2>2. CASE o = consumer.current
    BY <2>2 DEF Settled
  <2> QED
    BY <1>1, <2>1, <2>2
<1>3. StoredInReach'
  BY <1>1, Positions DEF IInv, StoredInReach
<1>4. LettersHandled'
  BY <1>1 DEF IInv, LettersHandled
<1> QED
  BY <1>2, <1>3, <1>4

LEMMA KeepsSafe == IInv /\ [Next]_vars => IInv'
<1> SUFFICES ASSUME IInv, [Next]_vars PROVE IInv'
  OBVIOUS
<1>0. TypeOK /\ Position /\ consumer \in ConsumerRecord
  BY DEF IInv, TypeOK
<1> USE DEF Position
<1>1. CASE Publish
  <2>1. TypeOK' /\ Position' /\ DeadLetters' = DeadLetters
    BY <1>0, <1>1, Positions DEF Publish, TypeOK, DeadLetters
  <2> QED
    BY <1>1, <2>1, Quiet DEF Publish, IInv
<1>2. CASE Start
  <2>1. consumer' \in ConsumerRecord /\ consumer'.current = 0 /\ consumer'.phase = "WAITING"
    BY <1>2, NewTyped DEF Start, NewConsumer
  <2>2. TypeOK' /\ Position' /\ DeadLetters' = DeadLetters
    BY <1>0, <1>2, <2>1, Positions, AuditAssumption DEF Start, TypeOK, DeadLetters
  <2> QED
    BY <1>2, <2>2, Quiet DEF Start, IInv
<1>3. CASE Take
  <2>1. /\ consumer' \in ConsumerRecord
        /\ consumer'.current = consumer.current + 1 /\ consumer'.phase = "INDEXING"
    <3> DEFINE n == consumer.current + 1
               a == 1
    <3>1. n \in 0 .. MaxEvents
      BY <1>0, <1>3, Positions DEF Take
    <3>2. consumer' = [consumer EXCEPT !.phase = "INDEXING", !.attempt = a, !.current = n]
      BY <1>3 DEF Take
    <3>3. a \in 1 .. MaxAttempts
      BY AuditAssumption
    <3> HIDE DEF n, a
    <3>4. \A v : v = [consumer EXCEPT !.phase = "INDEXING", !.attempt = a, !.current = n]
                   => v \in ConsumerRecord /\ v.phase = "INDEXING" /\ v.current = n
      BY <1>0, <3>1, <3>3 DEF ConsumerRecord
    <3>5. consumer' \in ConsumerRecord /\ consumer'.phase = "INDEXING" /\ consumer'.current = n
      BY <3>2, <3>4
    <3> QED
      BY <3>5 DEF n
  <2>2. TypeOK' /\ Position' /\ DeadLetters' = DeadLetters
    BY <1>0, <1>3, <2>1, Positions DEF Take, TypeOK, DeadLetters
  <2> QED
    BY <1>3, <2>2, Quiet DEF Take, IInv
<1>4. CASE Index
  <2>1. consumer' \in ConsumerRecord /\ consumer'.current = consumer.current
        /\ consumer'.phase = "HANDLED"
    BY <1>0, <1>4, CountedTyped, Phased DEF Index
  <2>2. consumer.current \in Offsets
    BY <1>0, <1>4, Positions DEF Offsets, Index
  <2>3. /\ consumer.current <= frontier' /\ frontier <= frontier' /\ frontier' <= published
        /\ frontier' \in Nat
    BY <1>0, <1>4, Positions, LaterOf DEF Index
  <2>4. TypeOK' /\ Position' /\ DeadLetters' = DeadLetters
    BY <1>0, <1>4, <2>1, <2>2, <2>3, Positions DEF Index, TypeOK, DeadLetters
  <2> QED
    BY <1>4, <2>2, <2>4, Settles DEF Index, IInv
<1>5. CASE Fail
  <2>1. /\ consumer' \in ConsumerRecord /\ consumer'.current = consumer.current
        /\ consumer'.phase \in {"INDEXING", "DEAD"}
    <3>1. CASE consumer.attempt < MaxAttempts
      <4> DEFINE a == consumer.attempt + 1
      <4>1. a \in 1 .. MaxAttempts
        BY <1>0, <3>1, AuditAssumption DEF ConsumerRecord
      <4>2. consumer' = [consumer EXCEPT !.attempt = a]
        BY <1>5, <3>1 DEF Fail
      <4> HIDE DEF a
      <4> QED
        BY <1>0, <1>5, <4>1, <4>2, Retried DEF Fail
    <3>2. CASE ~(consumer.attempt < MaxAttempts)
      BY <1>0, <1>5, <3>2, CountedTyped, Phased DEF Fail
    <3> QED
      BY <3>1, <3>2
  <2>2. TypeOK' /\ Position' /\ DeadLetters' = DeadLetters
    BY <1>0, <1>5, <2>1, Positions DEF Fail, TypeOK, DeadLetters
  <2> QED
    BY <1>5, <2>2, Quiet DEF Fail, IInv
<1>6. CASE SendToDlq
  <2>1. consumer' \in ConsumerRecord /\ consumer'.current = consumer.current
        /\ consumer'.phase = "HANDLED"
    BY <1>0, <1>6, Phased DEF SendToDlq
  <2>2. consumer.current \in Offsets
    BY <1>0, <1>6, Positions DEF Offsets, SendToDlq
  <2>3. /\ consumer.current <= frontier' /\ frontier <= frontier' /\ frontier' <= published
        /\ frontier' \in Nat
    BY <1>0, <1>6, Positions, LaterOf DEF SendToDlq
  <2>4. /\ DeadLetters \subseteq DeadLetters' /\ dropped \subseteq dropped'
        /\ consumer.current \in DeadLetters' \cup dropped'
        /\ DeadLetters' \subseteq DeadLetters \cup {consumer.current}
        /\ dlq' \in Seq(Offsets) /\ dropped' \subseteq Offsets
    <3>1. CASE dlq' = Append(dlq, consumer.current) /\ UNCHANGED dropped
      BY <1>0, <2>2, <3>1, Letters DEF TypeOK
    <3>2. CASE dropped' = dropped \cup {consumer.current} /\ UNCHANGED dlq
      BY <1>0, <2>2, <3>2 DEF TypeOK, DeadLetters
    <3> QED
      BY <1>6, <3>1, <3>2 DEF SendToDlq
  <2>5. TypeOK' /\ Position'
    BY <1>0, <1>6, <2>1, <2>2, <2>3, <2>4, Positions DEF SendToDlq, TypeOK
  <2> QED
    BY <1>6, <2>2, <2>4, <2>5, Settles DEF SendToDlq, IInv
<1>7. CASE Finish
  <2> DEFINE c == [consumer EXCEPT !.phase = "WAITING"]
  <2>1. c \in ConsumerRecord /\ c.current = consumer.current /\ c.phase = "WAITING"
    BY <1>0, Phased
  <2>2. CommitOffset(c) \/ (consumer' = c /\ stored' = stored)
    BY <1>7 DEF Finish
  <2> HIDE DEF c
  <2>3. /\ consumer' \in ConsumerRecord /\ consumer'.current = consumer.current
        /\ consumer'.phase = "WAITING"
        /\ stored' = stored \/ stored' = consumer.current
    BY <2>1, <2>2, Commits
  <2>4. consumer.current <= frontier
    BY <1>0, <1>7 DEF Finish
  <2>5. TypeOK' /\ Position' /\ DeadLetters' = DeadLetters
    BY <1>0, <1>7, <2>3, <2>4, Positions DEF Finish, TypeOK, DeadLetters
  <2>6. stored' \in 0 .. MaxEvents
    BY <2>5 DEF TypeOK
  <2> QED
    BY <1>7, <2>3, <2>4, <2>5, <2>6, Quiet DEF Finish, IInv
<1>8. CASE StopCommits
  <2> DEFINE c == [consumer EXCEPT !.closing = TRUE]
  <2>1. c \in ConsumerRecord /\ c.current = consumer.current /\ c.phase = consumer.phase
    BY <1>0, Closing
  <2>2. CommitOffset(c)
    BY <1>8 DEF StopCommits
  <2> HIDE DEF c
  <2>3. /\ consumer' \in ConsumerRecord /\ consumer'.current = consumer.current
        /\ consumer'.phase = consumer.phase
        /\ stored' = stored \/ stored' = consumer.current
    BY <2>1, <2>2, Commits
  <2>4. /\ consumer.phase \in {"INDEXING", "DEAD"} => consumer.current \in Offsets
        /\ stored' = consumer.current =>
             stored' <= frontier \/ (stored' = frontier + 1 /\ stored' \in cut')
    BY <1>0, <1>8, Positions DEF StopCommits, Suspended, Offsets
  <2>5. cut \subseteq cut' /\ cut' \subseteq Offsets
    BY <1>0, <1>8, <2>4 DEF StopCommits, TypeOK
  <2>6. TypeOK' /\ Position' /\ DeadLetters' = DeadLetters
    BY <1>0, <1>8, <2>3, <2>5, Positions DEF StopCommits, TypeOK, DeadLetters
  <2>7. stored' \in 0 .. MaxEvents
    BY <2>6 DEF TypeOK
  <2> QED
    BY <1>8, <2>3, <2>4, <2>5, <2>6, <2>7, Quiet DEF StopCommits, IInv
<1>9. CASE StopCloses \/ Crash
  <2>1. /\ consumer' \in ConsumerRecord /\ consumer'.current = consumer.current
        /\ consumer'.phase = "DOWN"
    BY <1>0, <1>9, Phased DEF StopCloses, Crash
  <2>2. TypeOK' /\ Position' /\ DeadLetters' = DeadLetters
    BY <1>0, <1>9, <2>1, Positions DEF StopCloses, Crash, TypeOK, DeadLetters
  <2> QED
    BY <1>9, <2>2, Quiet DEF StopCloses, Crash, IInv
<1>10. CASE ListDlq
  <2>1. DeadLetters \subseteq Offsets
    BY <1>0 DEF TypeOK, DeadLetters
  <2>2. TypeOK' /\ Position' /\ DeadLetters' = DeadLetters
    BY <1>0, <1>10, <2>1 DEF ListDlq, TypeOK, DeadLetters
  <2>3. listed' \subseteq DeadLetters
    BY <1>10 DEF ListDlq, DeadLetters
  <2> QED
    BY <1>10, <2>2, <2>3, Quiet DEF ListDlq, IInv
<1>11. CASE Reprocess
  <2>1. TypeOK' /\ Position' /\ DeadLetters' = DeadLetters /\ indexed \subseteq indexed'
    BY <1>0, <1>11 DEF Reprocess, TypeOK, DeadLetters
  <2> QED
    BY <1>11, <2>1, Quiet DEF Reprocess, IInv
<1>12. CASE Purge
  <2>1. DeadLetters \subseteq Offsets
    BY <1>0 DEF TypeOK, DeadLetters
  <2>2. dlq' \in Seq(Offsets) /\ DeadLetters' = {}
    BY <1>12 DEF Purge, DeadLetters
  <2>3. TypeOK' /\ Position'
    BY <1>0, <1>12, <2>1, <2>2 DEF Purge, TypeOK
  <2> QED
    BY <1>12, <2>2, <2>3, Quiet DEF Purge, IInv
<1>13. CASE UNCHANGED vars
  <2>1. TypeOK' /\ Position' /\ DeadLetters' = DeadLetters
    BY <1>0, <1>13 DEF vars, TypeOK, DeadLetters
  <2> QED
    BY <1>13, <2>1, Quiet DEF vars, IInv
<1> QED
  BY <1>1, <1>2, <1>3, <1>4, <1>5, <1>6, <1>7, <1>8, <1>9, <1>10, <1>11, <1>12, <1>13
     DEF Next, Handle, Operator

\* The inductive invariant holds in every state.
LEMMA Invariant == Spec => []IInv
<1> QED
  BY StartsSafe, KeepsSafe, PTL DEF Spec

-----------------------------------------------------------------------------
(* The theorems                                                            *)

\* Types, and how far the consumer can be ahead.
THEOREM Typed == Spec => []TypeOK
<1>1. IInv => TypeOK
  BY DEF IInv
<1> QED
  BY <1>1, Invariant, PTL

\* No event between the first and the newest one handled is without a fate,
\* however often the consumer stopped, crashed or failed.
THEOREM NoneSkipped == Spec => []NothingSkipped
<1>1. IInv => NothingSkipped
  BY DEF IInv
<1> QED
  BY <1>1, Invariant, PTL

\* The offset at the broker vouches for all but what stop() cut short.
THEOREM StoredVouches == Spec => []StoredIsSettled
<1>1. IInv => StoredIsSettled
  <2> SUFFICES ASSUME IInv, NEW o \in 1 .. stored PROVE Settled(o) \/ o \in cut
    BY DEF StoredIsSettled
  <2>1. CASE o <= frontier
    <3>1. o \in 1 .. frontier
      BY <2>1, Positions DEF IInv
    <3> QED
      BY <3>1 DEF IInv, NothingSkipped
  <2> QED
    BY <2>1 DEF IInv, StoredInReach
<1> QED
  BY <1>1, Invariant, PTL

\* Every step of the pipeline is a step of the audit trail or changes nothing
\* the auditor sees.
THEOREM Implements == Spec => TrailRefined
<1>1. Init => Trail!Init
  BY DEF Init, Trail!Init
<1>2. IInv /\ [Next]_vars => [Trail!Next]_(Trail!trail)
  <2> SUFFICES ASSUME IInv, [Next]_vars PROVE Trail!Next \/ UNCHANGED Trail!trail
    OBVIOUS
  <2> USE DEF Trail!Next, Trail!Publish, Trail!SettleNext, Trail!Reindex, Trail!trail
  <2>0. TypeOK /\ Position /\ consumer \in ConsumerRecord
    BY DEF IInv, TypeOK
  <2>1. CASE Publish
    BY <2>1 DEF Publish
  <2>2. CASE Index
    <3>1. /\ consumer.current \in 1 .. frontier \/ consumer.current = frontier + 1
          /\ consumer.current <= published
          /\ frontier' = IF consumer.current > frontier THEN consumer.current ELSE frontier
      BY <2>0, <2>2, Positions DEF Index, Position, Later
    <3>2. indexed' = indexed \cup {consumer.current} /\ published' = published
      BY <2>2 DEF Index
    <3>3. frontier \in Nat /\ published \in Nat
      BY <2>0, Positions
    <3> QED
      BY <3>1, <3>2, <3>3
  <2>3. CASE SendToDlq
    <3>1. /\ consumer.current \in 1 .. frontier \/ consumer.current = frontier + 1
          /\ consumer.current <= published
          /\ frontier' = IF consumer.current > frontier THEN consumer.current ELSE frontier
      BY <2>0, <2>3, Positions DEF SendToDlq, Position, Later
    <3>2. indexed' = indexed /\ published' = published
      BY <2>3 DEF SendToDlq
    <3>3. frontier \in Nat /\ published \in Nat
      BY <2>0, Positions
    <3> QED
      BY <3>1, <3>2, <3>3
  <2>4. CASE Reprocess
    <3>1. PICK o \in listed : indexed' = indexed \/ indexed' = indexed \cup {o}
      BY <2>4 DEF Reprocess
    <3>2. listed \subseteq 1 .. frontier
      BY DEF IInv, LettersHandled
    <3> QED
      BY <2>4, <3>1, <3>2 DEF Reprocess
  <2>5. CASE Start \/ Take \/ Fail \/ Finish \/ StopCommits \/ StopCloses \/ Crash
                \/ ListDlq \/ Purge \/ UNCHANGED vars
    BY <2>5 DEF Start, Take, Fail, Finish, StopCommits, StopCloses, Crash, ListDlq, Purge, vars
  <2> QED
    BY <2>1, <2>2, <2>3, <2>4, <2>5 DEF Next, Handle, Operator
<1> QED
  BY <1>1, <1>2, Invariant, PTL DEF Spec, TrailRefined, Trail!Spec
=============================================================================
