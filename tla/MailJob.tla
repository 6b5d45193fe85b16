------------------------------- MODULE MailJob -------------------------------
(***************************************************************************)
(* One bulk e-mail job of apps/mailtemplates: the request that creates it  *)
(* and send_email_job_task, which works through its recipients in chunks.  *)
(***************************************************************************)
EXTENDS Naturals, FiniteSets

CONSTANTS
    N,              \* recipients of the job, in the order of their creation
    ChunkSize,      \* MAIL_SEND_CHUNK_SIZE
    MaxAttempts     \* MAIL_SEND_MAX_ATTEMPTS

ASSUME MailAssumption ==
    /\ N \in Nat
    /\ ChunkSize \in Nat \ {0}
    /\ MaxAttempts \in Nat \ {0}

Recipients == 1 .. N
JobStatus  == {"none", "pending", "running", "completed", "failed"}
MailStatus == {"none", "pending", "sent", "failed"}

VARIABLES
    status,     \* of the EmailSendJob row, "none" before it exists
    counts,     \* its columns sent_count and failed_count
    mail,       \* [Recipients -> MailStatus], the EmailSendRecipient rows
    attempts,   \* [Recipients -> Nat], their column attempts
    queued,     \* the task is in the broker
    worker,     \* what the task holds in memory, or Gone, or Dead
    inbox       \* [Recipients -> Nat], history: mails the server accepted

rows == <<status, counts, mail, attempts>>
vars == <<status, counts, mail, attempts, queued, worker, inbox>>

Gone == [pc |-> "gone"]
Dead == [pc |-> "dead"]
Memory == [pc : {"loop", "chunk"},
           offset : Nat, end : Nat,        \* i and pending_recipients.count()
           chunk : SUBSET Recipients,      \* rows of the slice still to do
           attempt : 0 .. MaxAttempts,     \* attempts made on the first of them
           sent : Nat, failed : Nat]       \* the counters of the job object

With(st) == {r \in Recipients : mail[r] = st}

\* Mutant: the slice ends one row early.
SliceShort(from) ==
    {r \in With("pending") :
        LET before == Cardinality({q \in With("pending") : q < r})
        IN  from <= before /\ before + 1 < from + ChunkSize}

\* pending_recipients[from : from + ChunkSize]: the query runs when the slice is
\* iterated, on the recipients that are PENDING by then.
Slice(from) ==
    {r \in With("pending") :
        LET before == Cardinality({q \in With("pending") : q < r})
        IN  from <= before /\ before < from + ChunkSize}

-----------------------------------------------------------------------------
\* The view creates the job and its recipients one by one, with no transaction:
\* it may die with n of them, and then sends no task.
Request(n) ==
    /\ status = "none"
    /\ status' = "pending"
    /\ mail' = [r \in Recipients |-> IF r <= n THEN "pending" ELSE "none"]
    /\ \/ n = N /\ queued' = TRUE
       \/ UNCHANGED queued
    /\ UNCHANGED <<counts, attempts, worker, inbox>>

Start ==
    /\ queued
    /\ queued' = FALSE
    /\ \/ /\ status' = "running"
          /\ worker' = [pc |-> "loop", offset |-> 0, end |-> Cardinality(With("pending")),
                        chunk |-> {}, attempt |-> 0,
                        sent |-> counts.sent, failed |-> counts.failed]
       \/ /\ status' = "failed"      \* the template cannot be loaded
          /\ UNCHANGED worker
    /\ UNCHANGED <<counts, mail, attempts, inbox>>

NextChunk ==
    /\ worker.pc = "loop" /\ worker.offset < worker.end
    /\ worker' = [worker EXCEPT !.pc = "chunk", !.chunk = Slice(worker.offset)]
    /\ UNCHANGED <<rows, queued, inbox>>

\* send_single_email(): the row in hand is the oldest left in the slice, and the
\* number of the attempt is saved before the mail leaves.
Sending(r) ==
    /\ worker.pc = "chunk" /\ r \in worker.chunk
    /\ \A q \in worker.chunk : r <= q
    /\ attempts' = [attempts EXCEPT ![r] = worker.attempt + 1]

\* Mutant: the loop over the attempts goes on after a success.
DeliveredAgain(r) ==
    /\ Sending(r)
    /\ inbox' = [inbox EXCEPT ![r] = @ + 1]
    /\ mail' = [mail EXCEPT ![r] = "sent"]
    /\ \/ /\ worker.attempt + 1 < MaxAttempts
          /\ worker' = [worker EXCEPT !.attempt = @ + 1]
       \/ /\ worker.attempt + 1 >= MaxAttempts
          /\ worker' = [worker EXCEPT !.chunk = @ \ {r}, !.attempt = 0, !.sent = @ + 1]
    /\ UNCHANGED <<status, counts, queued>>

Delivered(r) ==
    /\ Sending(r)
    /\ inbox' = [inbox EXCEPT ![r] = @ + 1]
    /\ mail' = [mail EXCEPT ![r] = "sent"]
    /\ worker' = [worker EXCEPT !.chunk = @ \ {r}, !.attempt = 0, !.sent = @ + 1]
    /\ UNCHANGED <<status, counts, queued>>

\* Mutant: one attempt too many.
RaisedAgain(r) ==
    /\ Sending(r)
    /\ \E accepted \in {0, 1} : inbox' = [inbox EXCEPT ![r] = @ + accepted]
    /\ \/ /\ worker.attempt + 1 <= MaxAttempts
          /\ worker' = [worker EXCEPT !.attempt = @ + 1]
          /\ UNCHANGED mail
       \/ /\ worker.attempt + 1 > MaxAttempts
          /\ mail' = [mail EXCEPT ![r] = "failed"]
          /\ worker' = [worker EXCEPT !.chunk = @ \ {r}, !.attempt = 0, !.failed = @ + 1]
    /\ UNCHANGED <<status, counts, queued>>

\* Mutant: the first exception settles the recipient.
RaisedOnce(r) ==
    /\ Sending(r)
    /\ \E accepted \in {0, 1} : inbox' = [inbox EXCEPT ![r] = @ + accepted]
    /\ mail' = [mail EXCEPT ![r] = "failed"]
    /\ worker' = [worker EXCEPT !.chunk = @ \ {r}, !.attempt = 0, !.failed = @ + 1]
    /\ UNCHANGED <<status, counts, queued>>

\* An exception before the row is marked: rendering, the server, or an error
\* after the server accepted the mail.
Raised(r) ==
    /\ Sending(r)
    /\ \E accepted \in {0, 1} : inbox' = [inbox EXCEPT ![r] = @ + accepted]
    /\ \/ /\ worker.attempt + 1 < MaxAttempts
          /\ worker' = [worker EXCEPT !.attempt = @ + 1]
          /\ UNCHANGED mail
       \/ /\ worker.attempt + 1 >= MaxAttempts
          /\ mail' = [mail EXCEPT ![r] = "failed"]
          /\ worker' = [worker EXCEPT !.chunk = @ \ {r}, !.attempt = 0, !.failed = @ + 1]
    /\ UNCHANGED <<status, counts, queued>>

\* Mutant: the counters are those of the last chunk.
EndChunkUnsaved ==
    /\ worker.pc = "chunk" /\ worker.chunk = {}
    /\ worker' = [worker EXCEPT !.pc = "loop", !.offset = @ + ChunkSize,
                                !.sent = 0, !.failed = 0]
    /\ counts' = [sent |-> worker.sent, failed |-> worker.failed]
    /\ UNCHANGED <<status, mail, attempts, queued, inbox>>

\* The counters are saved after each chunk.
EndChunk ==
    /\ worker.pc = "chunk" /\ worker.chunk = {}
    /\ worker' = [worker EXCEPT !.pc = "loop", !.offset = @ + ChunkSize]
    /\ counts' = [sent |-> worker.sent, failed |-> worker.failed]
    /\ UNCHANGED <<status, mail, attempts, queued, inbox>>

\* Mutant: the job is left as it is.
FinishQuietly ==
    /\ worker.pc = "loop" /\ worker.offset >= worker.end
    /\ worker' = Gone
    /\ UNCHANGED <<rows, queued, inbox>>

Finish ==
    /\ worker.pc = "loop" /\ worker.offset >= worker.end
    /\ status' = "completed"
    /\ worker' = Gone
    /\ UNCHANGED <<counts, mail, attempts, queued, inbox>>

\* The worker dies, between two recipients or with one in hand. The task was
\* acknowledged when it started: nobody takes the job up again.
Dies ==
    /\ worker.pc \in {"loop", "chunk"} /\ worker' = Dead
    /\ UNCHANGED <<rows, queued, inbox>>

DiesSending(r) ==
    /\ Sending(r)
    /\ worker' = Dead
    /\ \E accepted \in {0, 1} : inbox' = [inbox EXCEPT ![r] = @ + accepted]
    /\ UNCHANGED <<status, counts, mail, queued>>

-----------------------------------------------------------------------------
Init ==
    /\ status = "none"
    /\ counts = [sent |-> 0, failed |-> 0]
    /\ mail = [r \in Recipients |-> "none"]
    /\ attempts = [r \in Recipients |-> 0]
    /\ queued = FALSE
    /\ worker = Gone
    /\ inbox = [r \in Recipients |-> 0]

Works == \/ Start \/ NextChunk \/ EndChunk \/ Finish
         \/ \E r \in Recipients : Delivered(r) \/ Raised(r)

Next == \/ \E n \in 0 .. N : Request(n)
        \/ Works
        \/ Dies \/ \E r \in Recipients : DiesSending(r)

Spec == Init /\ [][Next]_vars

\* A worker takes the task from the broker and, while it lives, goes on.
FairSpec == Spec /\ WF_vars(Works)

-----------------------------------------------------------------------------
(* Properties                                                              *)

\* Rows and memory hold values of their types.
TypeOK ==
    /\ status \in JobStatus
    /\ counts \in [sent : Nat, failed : Nat]
    /\ mail \in [Recipients -> MailStatus]
    /\ attempts \in [Recipients -> 0 .. MaxAttempts]
    /\ queued \in BOOLEAN
    /\ worker \in {Gone, Dead} \cup Memory
    /\ inbox \in [Recipients -> Nat]

\* The counters of a completed job agree with its recipients, whatever failed
\* on the way: they are kept in the task's memory across queries and chunks.
CountsMatch ==
    status = "completed"
        => /\ counts.sent = Cardinality(With("sent"))
           /\ counts.failed = Cardinality(With("failed"))

\* A recipient the job reports as failed was tried MaxAttempts times, one it
\* reports as sent has the mail, and a pending one was given up by no attempt.
ReportsHonest ==
    \A r \in Recipients :
        /\ mail[r] = "failed" => attempts[r] = MaxAttempts
        /\ mail[r] = "sent" => inbox[r] > 0
        /\ inbox[r] <= attempts[r]

\* Though the slices move while rows leave PENDING, nobody who was settled is
\* mailed again.
SettledLeftAlone ==
    [][\A r \in Recipients :
         mail[r] \in {"sent", "failed"} => inbox'[r] = inbox[r] /\ mail'[r] = mail[r]]_vars

\* A completed job settled at least half of its recipients, although each slice
\* skips as many pending rows as the slices before it took.
HalfServed == status = "completed" => 2 * Cardinality(With("pending")) <= N

\* A job whose task was sent ends, unless its worker dies: the loop over the
\* shrinking query stops.
JobEnds == queued ~> (status \in {"completed", "failed"} \/ worker = Dead)
=============================================================================
