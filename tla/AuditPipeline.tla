--------------------------- MODULE AuditPipeline ---------------------------
(***************************************************************************)
(* Audit logging: the application appends events to a RabbitMQ stream, one *)
(* consumer process indexes them in OpenSearch and puts what it cannot     *)
(* index on a second stream, the dead letter queue, from which an operator *)
(* indexes them again.                                                     *)
(*                                                                         *)
(* An event is its offset in the stream, counted from 1; 0 stands for the  *)
(* offset -1 of the code. The client library hands over one message at a   *)
(* time, and stop() runs beside the handler of the message in hand.        *)
(***************************************************************************)
EXTENDS Naturals, Sequences

CONSTANTS
    MaxEvents,      \* bound on the events published
    Rejected,       \* the events that OpenSearch refuses: they do not fit its mapping
    BatchSize,      \* AUDIT_LOG_CONSUMER_BATCH_SIZE: messages between two commits
    MaxAttempts,    \* max_retries: 3
    ListLimit,      \* the dead letters that one reprocess_all looks at: 100
    MaxStarts       \* bound on starts of the consumer

Offsets == 1 .. MaxEvents

ConsumerRecord ==
    [phase     : {"DOWN", "WAITING", "INDEXING", "DEAD", "HANDLED"},
     closing   : BOOLEAN,               \* stop() committed and closes the connection
     current   : 0 .. MaxEvents,        \* current_offset
     committed : 0 .. MaxEvents,        \* last_committed_offset
     attempt   : 1 .. MaxAttempts,
     processed : 0 .. BatchSize - 1]    \* processed_count, modulo BatchSize

VARIABLES
    published,  \* the length of the stream
    consumer,   \* the AuditLogConsumer object
    starts,     \* how often the process was started
    stored,     \* the offset stored at the broker under the consumer's name
    indexed,    \* the documents in OpenSearch
    dlq,        \* the dead letter stream
    listed,     \* what a reprocess_all under way read and did not try yet
    dropped,    \* history: events whose dead letter could not be sent or was purged
    frontier,   \* history: the newest event ever indexed or given up
    cut         \* history: events in hand when stop() committed their offset

vars == <<published, consumer, starts, stored, indexed, dlq, listed, dropped, frontier, cut>>

ASSUME AuditAssumption ==
    /\ MaxEvents \in Nat
    /\ Rejected \subseteq Offsets
    /\ BatchSize \in Nat \ {0}
    /\ MaxAttempts \in Nat \ {0}
    /\ ListLimit \in Nat
    /\ MaxStarts \in Nat

-----------------------------------------------------------------------------
DeadLetters == {dlq[i] : i \in 1 .. Len(dlq)}

\* What is known of an event that was handled: it can be searched, or a dead
\* letter holds it, or it is lost but for the local file.
Settled(o) == o \in indexed \/ o \in DeadLetters \/ o \in dropped

Up == consumer.phase # "DOWN"

\* Where the handler awaits something, so that stop() can run: it sleeps between
\* two attempts, sends a dead letter or stores an offset.
Suspended ==
    \/ consumer.phase \in {"WAITING", "DEAD", "HANDLED"}
    \/ consumer.phase = "INDEXING" /\ consumer.attempt > 1

Later(n) == IF n > frontier THEN n ELSE frontier

-----------------------------------------------------------------------------
(* The application                                                         *)

\* log_event() whose message reaches the stream. One that fails leaves the event
\* in the local file only: the signal handlers swallow the exception.
Publish ==
    /\ published < MaxEvents
    /\ published' = published + 1
    /\ UNCHANGED <<consumer, starts, stored, indexed, dlq, listed, dropped, frontier, cut>>

-----------------------------------------------------------------------------
(* The consumer                                                            *)

\* The object a start creates.
NewConsumer ==
    [phase |-> "WAITING", closing |-> FALSE, current |-> 0, committed |-> 0,
     attempt |-> 1, processed |-> 0]

\* Mutant: start() subscribes behind the stored offset.
StartBehindStored ==
    /\ consumer.phase = "DOWN" /\ starts < MaxStarts
    /\ starts' = starts + 1
    /\ consumer' = [NewConsumer EXCEPT !.current = stored]
    /\ UNCHANGED <<published, stored, indexed, dlq, listed, dropped, frontier, cut>>

\* start(): a new object subscribes from the first message of the stream.
Start ==
    /\ consumer.phase = "DOWN" /\ starts < MaxStarts
    /\ starts' = starts + 1
    /\ consumer' = NewConsumer
    /\ UNCHANGED <<published, stored, indexed, dlq, listed, dropped, frontier, cut>>

\* Mutant: the offset is stored when the message arrives.
TakeAndCommit ==
    /\ consumer.phase = "WAITING" /\ consumer.current < published
    /\ consumer' = [consumer EXCEPT !.phase = "INDEXING", !.attempt = 1,
                                    !.current = @ + 1]
    /\ stored' = consumer'.current
    /\ UNCHANGED <<published, starts, indexed, dlq, listed, dropped, frontier, cut>>

\* _message_handler() is given the next message.
Take ==
    /\ consumer.phase = "WAITING" /\ consumer.current < published
    /\ consumer' = [consumer EXCEPT !.phase = "INDEXING", !.attempt = 1,
                                    !.current = @ + 1]
    /\ UNCHANGED <<published, starts, stored, indexed, dlq, listed, dropped, frontier, cut>>

\* record_success() or record_failure(): the message counts as processed.
Counted(c) == [c EXCEPT !.processed = (@ + 1) % BatchSize]

\* An attempt of _index_to_opensearch() that OpenSearch accepts. The document is
\* stored under the id of the event: a second time changes nothing.
Index ==
    /\ consumer.phase = "INDEXING" /\ consumer.current \notin Rejected
    /\ indexed' = indexed \cup {consumer.current}
    /\ consumer' = [Counted(consumer) EXCEPT !.phase = "HANDLED"]
    /\ frontier' = Later(consumer.current)
    /\ UNCHANGED <<published, starts, stored, dlq, listed, dropped, cut>>

\* Mutant: the last attempt is not told from the others and the loop ends.
FailSilently ==
    /\ consumer.phase = "INDEXING"
    /\ IF consumer.attempt < MaxAttempts
         THEN /\ consumer' = [consumer EXCEPT !.attempt = @ + 1]
              /\ UNCHANGED frontier
         ELSE /\ consumer' = [Counted(consumer) EXCEPT !.phase = "HANDLED"]
              /\ frontier' = Later(consumer.current)
    /\ UNCHANGED <<published, starts, stored, indexed, dlq, listed, dropped, cut>>

\* Mutant: one attempt too many.
FailOnceMore ==
    /\ consumer.phase = "INDEXING"
    /\ IF consumer.attempt <= MaxAttempts
         THEN consumer' = [consumer EXCEPT !.attempt = @ + 1]
         ELSE consumer' = [Counted(consumer) EXCEPT !.phase = "DEAD"]
    /\ UNCHANGED <<published, starts, stored, indexed, dlq, listed, dropped, frontier, cut>>

\* Mutant: the attempts are not counted.
FailForever ==
    /\ consumer.phase = "INDEXING"
    /\ consumer' = [consumer EXCEPT !.attempt = MaxAttempts]
    /\ UNCHANGED <<published, starts, stored, indexed, dlq, listed, dropped, frontier, cut>>

\* ... and one that fails: OpenSearch is away, or it refuses the event. index_log()
\* makes one exception of both, so both are tried MaxAttempts times.
Fail ==
    /\ consumer.phase = "INDEXING"
    /\ IF consumer.attempt < MaxAttempts
         THEN consumer' = [consumer EXCEPT !.attempt = @ + 1]
         ELSE consumer' = [Counted(consumer) EXCEPT !.phase = "DEAD"]
    /\ UNCHANGED <<published, starts, stored, indexed, dlq, listed, dropped, frontier, cut>>

\* _send_to_dlq(), which swallows its own failure.
SendToDlq ==
    /\ consumer.phase = "DEAD"
    /\ \/ dlq' = Append(dlq, consumer.current) /\ UNCHANGED dropped
       \/ dropped' = dropped \cup {consumer.current} /\ UNCHANGED dlq
    /\ consumer' = [consumer EXCEPT !.phase = "HANDLED"]
    /\ frontier' = Later(consumer.current)
    /\ UNCHANGED <<published, starts, stored, indexed, listed, cut>>

\* _commit_offset(): stores an offset newer than the last this object stored; a
\* failure is logged. The variables it may change are stored and committed.
CommitOffset(c) ==
    \/ /\ c.current > c.committed
       /\ stored' = c.current
       /\ consumer' = [c EXCEPT !.committed = c.current]
    \/ UNCHANGED stored /\ consumer' = c

\* The end of _message_handler(): each BatchSize-th message commits its offset.
Finish ==
    /\ consumer.phase = "HANDLED"
    /\ LET c == [consumer EXCEPT !.phase = "WAITING"]
       IN  IF consumer.processed = 0 THEN CommitOffset(c)
           ELSE consumer' = c /\ UNCHANGED stored
    /\ UNCHANGED <<published, starts, indexed, dlq, listed, dropped, frontier, cut>>

\* A signal ends the loop of start(), and stop() commits the offset in hand, its
\* message handled or not. The last of the MaxStarts runs is not ended.
StopCommits ==
    /\ Suspended /\ ~consumer.closing /\ starts < MaxStarts
    /\ CommitOffset([consumer EXCEPT !.closing = TRUE])
    /\ cut' = IF stored' = consumer.current /\ consumer.phase \in {"INDEXING", "DEAD"}
              THEN cut \cup {consumer.current} ELSE cut
    /\ UNCHANGED <<published, starts, indexed, dlq, listed, dropped, frontier>>

\* ... and closes: the process ends, the message in hand with it.
StopCloses ==
    /\ Suspended /\ consumer.closing
    /\ consumer' = [consumer EXCEPT !.phase = "DOWN"]
    /\ UNCHANGED <<published, starts, stored, indexed, dlq, listed, dropped, frontier, cut>>

\* The process is killed.
Crash ==
    /\ Up /\ starts < MaxStarts
    /\ consumer' = [consumer EXCEPT !.phase = "DOWN"]
    /\ UNCHANGED <<published, starts, stored, indexed, dlq, listed, dropped, frontier, cut>>

-----------------------------------------------------------------------------
(* The operator                                                            *)

\* reprocess_all reads the oldest dead letters ...
ListDlq ==
    /\ listed = {} /\ dlq # << >>
    /\ listed' = {dlq[i] : i \in {i \in 1 .. Len(dlq) : i <= ListLimit}}
    /\ UNCHANGED <<published, consumer, starts, stored, indexed, dlq, dropped, frontier, cut>>

\* ... and tries each once more. They stay in the queue.
Reprocess ==
    /\ \E o \in listed :
        /\ listed' = listed \ {o}
        /\ \/ UNCHANGED indexed
           \/ o \notin Rejected /\ indexed' = indexed \cup {o}
    /\ UNCHANGED <<published, consumer, starts, stored, dlq, dropped, frontier, cut>>

\* purge deletes the queue, the letters nobody has read included.
Purge ==
    /\ dlq # << >>
    /\ dropped' = dropped \cup DeadLetters
    /\ dlq' = << >>
    /\ UNCHANGED <<published, consumer, starts, stored, indexed, listed, frontier, cut>>

-----------------------------------------------------------------------------
Init ==
    /\ published = 0
    /\ consumer = [NewConsumer EXCEPT !.phase = "DOWN"]
    /\ starts = 0
    /\ stored = 0
    /\ indexed = {} /\ dlq = << >> /\ listed = {} /\ dropped = {}
    /\ frontier = 0
    /\ cut = {}

Handle == Take \/ Index \/ Fail \/ SendToDlq \/ Finish

Operator == ListDlq \/ Reprocess \/ Purge

Next ==
    \/ Publish
    \/ Start \/ Handle
    \/ StopCommits \/ StopCloses \/ Crash
    \/ Operator

\* A process that runs gets on with its message; one that ended is started again,
\* as long as the bound on starts allows.
Fairness == WF_vars(Start) /\ WF_vars(Handle)

Spec == Init /\ [][Next]_vars

FairSpec == Spec /\ Fairness

-----------------------------------------------------------------------------
(* Properties                                                              *)

\* The variables have the values they are declared with, and the consumer is
\* never ahead of the stream nor more than one message ahead of what was handled.
TypeOK ==
    /\ published \in 0 .. MaxEvents
    /\ consumer \in ConsumerRecord /\ consumer.current <= published
    /\ starts \in 0 .. MaxStarts
    /\ stored \in 0 .. MaxEvents
    /\ indexed \subseteq Offsets \ Rejected
    /\ dlq \in Seq(Offsets) /\ listed \subseteq Offsets
    /\ dropped \subseteq Offsets
    /\ frontier \in 0 .. published
    /\ cut \subseteq Offsets

\* No event falls between the two streams: whatever stopped, crashed, failed or
\* was committed too early, each event up to the newest one handled can be
\* searched, waits in the queue or was given up with a logged error or a purge.
NothingSkipped == \A o \in 1 .. frontier : Settled(o)

\* The stored offset vouches for the events up to it, except for those that
\* stop() committed while they were in hand: this is why a consumer that
\* resumed behind the stored offset would lose events.
StoredIsSettled == \A o \in 1 .. stored : Settled(o) \/ o \in cut

\* Every event published is settled for good, as soon as the consumer is left
\* running for long enough: outages, refusals and failed commits never stop it.
EventsSettle == \A o \in Offsets : (published >= o) ~> []Settled(o)

\* The pipeline is an AuditTrail: events are settled one by one in the order of
\* publication and never taken back, across restarts that read all again.
Trail == INSTANCE AuditTrail WITH settled <- frontier, searchable <- indexed

TrailRefined == Trail!Spec
=============================================================================
