------------------------- MODULE PayrollRacesProofs -------------------------
(***************************************************************************)
(* Proofs about PayrollRaces for any sets of processes.                    *)
(***************************************************************************)
EXTENDS PayrollRaces, TLAPS

\* The rows in memory are rows, and explain their PENDING as the table does.
Explained(row) == row.status = "PENDING" => row.flag

InMemory(c) == job[c].pc \in {"loaded", "computed", "saved"}

MemoryOK == \A c \in Procs : InMemory(c) => job[c].row \in Row /\ Explained(job[c].row)

DataOK == /\ slip \in Row
          /\ debt \in BOOLEAN
          /\ amount \in 0 .. MaxNet
          /\ DOMAIN job = Procs

RacesInv == DataOK /\ MemoryOK /\ Explained(slip)

\* What the three ways of writing single columns do to a row.
LEMMA ColumnFacts ==
    ASSUME NEW row \in Row
    PROVE  /\ \A st \in SlipStatus :
                /\ [row EXCEPT !.status = st] \in Row
                /\ [row EXCEPT !.status = st].status = st
                /\ [row EXCEPT !.status = st].flag = row.flag
           /\ \A r \in BOOLEAN :
                /\ [row EXCEPT !.resend = r] \in Row
                /\ [row EXCEPT !.resend = r].status = row.status
                /\ [row EXCEPT !.resend = r].flag = row.flag
           /\ \A m \in Months :
                /\ [row EXCEPT !.status = "DELIVERED", !.payment = m] \in Row
                /\ [row EXCEPT !.status = "DELIVERED", !.payment = m].status = "DELIVERED"
  BY DEF Row, SlipStatus

LEMMA CalculatedFacts ==
    ASSUME DataOK, NEW row \in Row
    PROVE  Calculated(row) \in Row /\ Explained(Calculated(row))
  BY DEF DataOK, Calculated, Row, SlipStatus, Explained

LEMMA RacesInit == Init => RacesInv
  BY DEF Init, RacesInv, DataOK, MemoryOK, InMemory, Explained, Row, SlipStatus, Idle,
         Unpaid, Months

\* A process that ends its job, or takes one without a row, brings no row.
LEMMA JobWithoutRow ==
    ASSUME MemoryOK, DOMAIN job = Procs, NEW c \in Procs, NEW new,
           new.pc \notin {"loaded", "computed", "saved"},
           job' = [job EXCEPT ![c] = new]
    PROVE  MemoryOK' /\ DOMAIN job' = Procs
  BY DEF MemoryOK, InMemory

LEMMA JobRows == /\ \A kind : Loaded(kind).row = slip
                 /\ \A c, pc, row : Moved(c, pc, row).row = row
  BY DEF Loaded, Moved

LEMMA JobWithRow ==
    ASSUME MemoryOK, DOMAIN job = Procs, NEW c \in Procs,
           NEW row \in Row, Explained(row),
           \/ \E kind : row = slip /\ job' = [job EXCEPT ![c] = Loaded(kind)]
           \/ \E pc : job' = [job EXCEPT ![c] = Moved(c, pc, row)]
    PROVE  MemoryOK' /\ DOMAIN job' = Procs
  <1>1. PICK new : new.row = row /\ job' = [job EXCEPT ![c] = new]
    BY JobRows
  <1>2. QED
    BY <1>1 DEF MemoryOK, InMemory, Explained

LEMMA CalculatorStep ==
    ASSUME RacesInv, NEW c \in Procs, Calculates(c)
    PROVE  RacesInv'
  <1> USE DEF RacesInv
  <1>1. CASE TakeTask(c)
    <2>1. job' = [job EXCEPT ![c] = Idle] \/ job' = [job EXCEPT ![c] = [pc |-> "task"]]
      BY <1>1 DEF TakeTask, Goes
    <2>2. MemoryOK' /\ DOMAIN job' = Procs
      BY <2>1, JobWithoutRow DEF DataOK, Idle
    <2>3. QED
      BY <1>1, <2>2 DEF TakeTask, rows, DataOK, Explained
  <1>2. CASE LoadForTask(c) \/ LoadForButton(c) \/ LoadForUnhold(c)
    <2>1. PICK kind : job' = [job EXCEPT ![c] = Loaded(kind)]
      BY <1>2 DEF LoadForTask, LoadForButton, LoadForUnhold, Goes
    <2>2. MemoryOK' /\ DOMAIN job' = Procs
      BY <2>1, JobWithRow DEF DataOK
    <2>3. QED
      BY <1>2, <2>2
      DEF LoadForTask, LoadForButton, LoadForUnhold, rows, DataOK, Explained
  <1>3. CASE PayPenaltyLate(c)
    <2>1. job' = [job EXCEPT ![c] = Loaded("penalty")]
      BY <1>3 DEF PayPenaltyLate, Goes
    <2>2. MemoryOK' /\ DOMAIN job' = Procs
      BY <2>1, JobWithRow DEF DataOK
    <2>3. QED
      BY <1>3, <2>2 DEF PayPenaltyLate, rows, DataOK, Explained
  <1>4. CASE Compute(c)
    <2>1. job[c].row \in Row /\ Explained(job[c].row)
      BY <1>4 DEF Compute, Goes, MemoryOK, InMemory
    <2>2. PICK pc, row : /\ job' = [job EXCEPT ![c] = Moved(c, pc, row)]
                         /\ row \in {job[c].row, Calculated(job[c].row)}
      BY <1>4 DEF Compute, Goes
    <2>3. row \in Row /\ Explained(row)
      BY <2>1, <2>2, CalculatedFacts
    <2>4. MemoryOK' /\ DOMAIN job' = Procs
      BY <2>2, <2>3, JobWithRow DEF DataOK
    <2>5. QED
      BY <1>4, <2>4 DEF Compute, rows, DataOK, Explained
  <1>5. CASE SaveRow(c)
    <2>1. job[c].row \in Row /\ Explained(job[c].row)
      BY <1>5 DEF SaveRow, Goes, MemoryOK, InMemory
    <2>2. job' = [job EXCEPT ![c] = Moved(c, "saved", job[c].row)]
      BY <1>5 DEF SaveRow, Goes
    <2>3. MemoryOK' /\ DOMAIN job' = Procs
      BY <2>1, <2>2, JobWithRow DEF DataOK
    <2>4. QED
      BY <1>5, <2>1, <2>3 DEF SaveRow, DataOK, Explained
  <1>6. CASE Conclude(c)
    <2>1. job[c].row \in Row /\ Explained(job[c].row)
      BY <1>6 DEF Conclude, Goes, MemoryOK, InMemory
    <2>2. MemoryOK' /\ DOMAIN job' = Procs
      BY <1>6, JobWithoutRow DEF Conclude, Goes, DataOK, Idle
    <2>3. slip' \in Row /\ Explained(slip')
      <3>1. CASE slip' = job[c].row
        BY <2>1, <3>1
      <3>0. CASE slip' = slip
        BY <3>0 DEF DataOK, Explained
      <3>2. CASE \E r \in BOOLEAN : slip' = [slip EXCEPT !.resend = r]
        <4>1. slip \in Row
          BY DEF DataOK
        <4>2. PICK r \in BOOLEAN : slip' = [slip EXCEPT !.resend = r]
          BY <3>2
        <4>3. slip' \in Row /\ slip'.status = slip.status /\ slip'.flag = slip.flag
          BY <4>1, <4>2, ColumnFacts
        <4>4. QED
          BY <4>3 DEF Explained
      <3>3. (slip.resend \/ job[c].row.net # job[c].was) \in BOOLEAN
        BY DEF DataOK, Row
      <3>4. QED
        BY <1>6, <3>0, <3>1, <3>2, <3>3 DEF Conclude
    <2>4. QED
      BY <1>6, <2>2, <2>3 DEF Conclude, DataOK, Explained
  <1>7. QED
    BY <1>1, <1>2, <1>3, <1>4, <1>5, <1>6 DEF Calculates

LEMMA ClerkStep ==
    ASSUME RacesInv, NEW c \in Procs, NEW request \in Requests,
           Read(c, request) \/ Write(c, request)
    PROVE  RacesInv'
  <1> USE DEF RacesInv
  <1>1. request \in {"hold", "ready", "deliver"}
    BY RacesAssumption
  <1>2. CASE Read(c, request)
    <2>1. job' = [job EXCEPT ![c] = [pc |-> request]]
      BY <1>2 DEF Read, Goes
    <2>2. MemoryOK' /\ DOMAIN job' = Procs
      BY <1>1, <2>1, JobWithoutRow DEF DataOK
    <2>3. QED
      BY <1>2, <2>2 DEF Read, rows, DataOK, Explained
  <1>3. CASE Write(c, request)
    <2>1. job' = [job EXCEPT ![c] = Idle]
      BY <1>3 DEF Write, Goes
    <2>2. MemoryOK' /\ DOMAIN job' = Procs
      BY <2>1, JobWithoutRow DEF DataOK, Idle
    <2>3. Written(request) \in {"HOLD", "READY", "DELIVERED"}
      BY DEF Written
    <2>4. slip' \in Row /\ Explained(slip')
      BY <1>3, <2>3, ColumnFacts DEF Write, DataOK, Explained, SlipStatus
    <2>5. QED
      BY <1>3, <2>2, <2>4 DEF Write, DataOK, Explained
  <1>4. QED
    BY <1>2, <1>3

LEMMA CloserStep ==
    ASSUME RacesInv, NEW c \in Procs, Closes(c)
    PROVE  RacesInv'
  <1> USE DEF RacesInv
  <1>1. ASSUME NEW m \in Months, PaySlips(c, m)
        PROVE  RacesInv'
    <2>1. MemoryOK' /\ DOMAIN job' = Procs
      BY <1>1, JobWithoutRow DEF PaySlips, Goes, DataOK
    <2>2. slip' \in Row /\ Explained(slip')
      BY <1>1, ColumnFacts DEF PaySlips, DataOK, Explained
    <2>3. QED
      BY <1>1, <2>1, <2>2 DEF PaySlips, DataOK, Explained
  <1>2. CASE CloseMonth(c) \/ Reopen(c) \/ \E m \in Months : CheckReopen(c, m)
    <2>1. MemoryOK' /\ DOMAIN job' = Procs
      BY <1>2, JobWithoutRow DEF CloseMonth, Reopen, CheckReopen, Goes, DataOK, Idle
    <2>2. QED
      BY <1>2, <2>1 DEF CloseMonth, Reopen, CheckReopen, rows, DataOK, Explained
  <1>3. QED
    BY <1>1, <1>2 DEF Closes

LEMMA OtherStep ==
    ASSUME RacesInv,
           \/ \E c \in Procs : Edits(c) \/ LoadForMail(c) \/ SendMail(c) \/ Dies(c)
           \/ Inputs \/ OpenNext
    PROVE  RacesInv'
  <1> USE DEF RacesInv
  <1>1. ASSUME NEW c \in Procs, Edits(c) \/ LoadForMail(c) \/ Dies(c)
        PROVE  RacesInv'
    <2>1. MemoryOK' /\ DOMAIN job' = Procs
      BY <1>1, JobWithoutRow
      DEF Edits, LoadPeriod, SavePeriod, LoadForMail, Dies, Goes, DataOK, Idle
    <2>2. QED
      BY <1>1, <2>1
      DEF Edits, LoadPeriod, SavePeriod, LoadForMail, Dies, rows, DataOK, Explained
  <1>2. ASSUME NEW c \in Procs, SendMail(c)
        PROVE  RacesInv'
    <2>1. MemoryOK' /\ DOMAIN job' = Procs
      BY <1>2, JobWithoutRow DEF SendMail, Goes, DataOK, Idle
    <2>2. slip' \in Row /\ Explained(slip')
      BY <1>2, ColumnFacts DEF SendMail, DataOK, Explained
    <2>3. QED
      BY <1>2, <2>1, <2>2 DEF SendMail, DataOK, Explained
  <1>3. CASE Inputs \/ OpenNext
    <2>1. UNCHANGED <<slip, job>> /\ debt' \in BOOLEAN /\ amount' \in 0 .. MaxNet
      BY <1>3 DEF Inputs, IssuePenalty, PayPenalty, ChangeAmount, OpenNext, rows, DataOK
    <2>2. QED
      BY <2>1 DEF DataOK, MemoryOK, InMemory, Explained
  <1>4. QED
    BY <1>1, <1>2, <1>3

LEMMA RacesStep == RacesInv /\ [Next]_vars => RacesInv'
  <1> SUFFICES ASSUME RacesInv, [Next]_vars PROVE RacesInv'
    OBVIOUS
  <1>1. CASE UNCHANGED vars
    BY <1>1 DEF vars, RacesInv, DataOK, MemoryOK, InMemory, Explained
  <1>2. CASE Next
    BY <1>2, CalculatorStep, ClerkStep, CloserStep, OtherStep, RacesAssumption
    DEF Next, Procs
  <1>3. QED
    BY <1>1, <1>2

\* However many workers and requests overlap, and wherever they die, a PENDING slip
\* carries the flag that explains it.
THEOREM PendingAlwaysExplained == Spec => []PendingExplained
  <1>1. RacesInv => PendingExplained
    BY DEF RacesInv, Explained, PendingExplained
  <1>2. QED
    BY <1>1, RacesInit, RacesStep, PTL DEF Spec

-----------------------------------------------------------------------------
(* Types                                                                   *)

JobTypes == {Idle} \cup CalculatorJobs \cup ClerkJobs \cup CloserJobs \cup EditorJobs
              \cup MailerJobs

RacesTyped == TypeOK /\ DOMAIN job = Procs

\* What a process holds, by the step it is at.
LEMMA JobFacts ==
    ASSUME NEW j \in JobTypes
    PROVE  /\ j.pc \in {"loaded", "computed", "saved"} =>
                /\ j.kind \in {"task", "button", "unhold", "penalty"}
                /\ j.row \in Row /\ j.was \in 0 .. MaxNet
           /\ j.pc \in {"paid", "reopen", "edit"} => j.month \in Months
           /\ j.pc = "edit" => j.status \in PeriodStatus
           /\ j.pc = "mail" => j.net \in 0 .. MaxNet
  BY DEF JobTypes, Idle, CalculatorJobs, ClerkJobs, CloserJobs, EditorJobs, MailerJobs

LEMMA JobTyped ==
    ASSUME RacesTyped, NEW c \in Procs, NEW new \in JobTypes,
           job' = [job EXCEPT ![c] = new]
    PROVE  /\ \A d \in Procs : job'[d] \in JobTypes
           /\ DOMAIN job' = Procs
  BY DEF RacesTyped, TypeOK, JobTypes

\* The jobs that the actions give out.
LEMMA JobsMade ==
    /\ Idle \in JobTypes
    /\ [pc |-> "task"] \in JobTypes
    /\ \A pc \in {"loaded", "computed", "saved"},
          kind \in {"task", "button", "unhold", "penalty"}, row \in Row, was \in 0 .. MaxNet :
         [pc |-> pc, kind |-> kind, row |-> row, was |-> was] \in JobTypes
    /\ \A pc \in {"hold", "ready", "deliver"} : [pc |-> pc] \in JobTypes
    /\ \A pc \in {"paid", "reopen"}, m \in Months : [pc |-> pc, month |-> m] \in JobTypes
    /\ \A m \in Months, st \in PeriodStatus :
         [pc |-> "edit", month |-> m, status |-> st] \in JobTypes
    /\ \A n \in 0 .. MaxNet : [pc |-> "mail", net |-> n] \in JobTypes
  BY DEF JobTypes, CalculatorJobs, ClerkJobs, CloserJobs, EditorJobs, MailerJobs

LEMMA LoadedTyped ==
    ASSUME RacesTyped, NEW kind \in {"task", "button", "unhold", "penalty"}
    PROVE  Loaded(kind) \in JobTypes
  <1>1. slip \in Row /\ slip.net \in 0 .. MaxNet
    BY DEF RacesTyped, TypeOK, Row
  <1>2. QED
    BY <1>1, JobsMade DEF Loaded

LEMMA MovedTyped ==
    ASSUME RacesTyped, NEW c \in Procs, job[c].pc \in {"loaded", "computed", "saved"},
           NEW pc \in {"loaded", "computed", "saved"}, NEW row \in Row
    PROVE  Moved(c, pc, row) \in JobTypes
  <1>1. job[c] \in JobTypes
    BY DEF RacesTyped, TypeOK, JobTypes
  <1>2. job[c].kind \in {"task", "button", "unhold", "penalty"} /\ job[c].was \in 0 .. MaxNet
    BY <1>1, JobFacts
  <1>3. QED
    BY <1>2, JobsMade DEF Moved

LEMMA TypedInit == Init => RacesTyped
  <1> SUFFICES ASSUME Init PROVE RacesTyped
    OBVIOUS
  <1>1. slip \in Row
    BY DEF Init, Row, SlipStatus, Unpaid
  <1>2. 0 \in 0 .. MaxTasks /\ Unsent \in 0 .. Unsent
    BY RacesAssumption DEF Unsent
  <1>3. QED
    BY <1>1, <1>2 DEF Init, RacesTyped, TypeOK, PeriodStatus, Months

LEMMA CalculatorTyped ==
    ASSUME RacesTyped, NEW c \in Procs, Calculates(c)
    PROVE  RacesTyped'
  <1>1. /\ period \in [Months -> PeriodStatus] /\ slip \in Row /\ debt \in BOOLEAN
        /\ amount \in 0 .. MaxNet /\ tasks \in 0 .. MaxTasks /\ mailed \in 0 .. Unsent
        /\ job[c] \in JobTypes
    BY DEF RacesTyped, TypeOK, JobTypes
  <1>2. ASSUME NEW new \in JobTypes, job' = [job EXCEPT ![c] = new],
               slip' \in Row, debt' \in BOOLEAN, tasks' \in 0 .. MaxTasks,
               UNCHANGED <<period, amount, mailed>>
        PROVE  RacesTyped'
    BY <1>1, <1>2, JobTyped DEF RacesTyped, TypeOK, JobTypes
  <1>3. CASE TakeTask(c)
    <2>1. tasks' \in 0 .. MaxTasks
      BY <1>1, <1>3, RacesAssumption DEF TakeTask
    <2>2. QED
      BY <1>1, <1>2, <1>3, <2>1, JobsMade DEF TakeTask, Goes, rows
  <1>4. CASE LoadForTask(c) \/ LoadForButton(c) \/ LoadForUnhold(c) \/ PayPenaltyLate(c)
    <2>1. PICK kind \in {"task", "button", "unhold", "penalty"} :
             job' = [job EXCEPT ![c] = Loaded(kind)]
      BY <1>4 DEF LoadForTask, LoadForButton, LoadForUnhold, PayPenaltyLate, Goes
    <2>2. QED
      BY <1>1, <1>2, <1>4, <2>1, LoadedTyped
      DEF LoadForTask, LoadForButton, LoadForUnhold, PayPenaltyLate, rows
  <1>5. CASE Compute(c)
    <2>1. job[c].pc = "loaded" /\ job[c].row \in Row
      BY <1>1, <1>5, JobFacts DEF Compute, Goes
    <2>2. Calculated(job[c].row) \in Row
      BY <1>1, <2>1 DEF Calculated, Row, SlipStatus
    <2>3. QED
      BY <1>1, <1>2, <1>5, <2>1, <2>2, MovedTyped DEF Compute, Goes, rows
  <1>6. CASE SaveRow(c)
    <2>1. job[c].pc = "computed" /\ job[c].row \in Row
      BY <1>1, <1>6, JobFacts DEF SaveRow, Goes
    <2>2. QED
      BY <1>1, <1>2, <1>6, <2>1, MovedTyped DEF SaveRow, Goes
  <1>7. CASE Conclude(c)
    <2>1. job[c].row \in Row
      BY <1>1, <1>7, JobFacts DEF Conclude, Goes
    <2>2. \A r \in BOOLEAN : [slip EXCEPT !.resend = r] \in Row
      BY <1>1, ColumnFacts
    <2>3. (slip.resend \/ job[c].row.net # job[c].was) \in BOOLEAN
      BY <1>1 DEF Row
    <2>4. slip' \in Row
      BY <1>1, <1>7, <2>1, <2>2, <2>3 DEF Conclude
    <2>5. QED
      BY <1>1, <1>2, <1>7, <2>4, JobsMade DEF Conclude, Goes
  <1>8. QED
    BY <1>3, <1>4, <1>5, <1>6, <1>7 DEF Calculates

LEMMA OtherTyped ==
    ASSUME RacesTyped,
           \/ \E c \in Procs, request \in Requests : Read(c, request) \/ Write(c, request)
           \/ \E c \in Procs : Closes(c) \/ Edits(c)
           \/ \E c \in Procs : LoadForMail(c) \/ SendMail(c) \/ Dies(c)
           \/ Inputs \/ OpenNext
    PROVE  RacesTyped'
  <1>1. /\ period \in [Months -> PeriodStatus] /\ slip \in Row /\ debt \in BOOLEAN
        /\ amount \in 0 .. MaxNet /\ tasks \in 0 .. MaxTasks /\ mailed \in 0 .. Unsent
        /\ \A c \in Procs : job[c] \in JobTypes
    BY DEF RacesTyped, TypeOK, JobTypes
  <1>2. ASSUME NEW c \in Procs, NEW new \in JobTypes, job' = [job EXCEPT ![c] = new],
               period' \in [Months -> PeriodStatus], slip' \in Row, mailed' \in 0 .. Unsent,
               UNCHANGED <<debt, amount, tasks>>
        PROVE  RacesTyped'
    BY <1>1, <1>2, JobTyped DEF RacesTyped, TypeOK, JobTypes
  <1>3. ASSUME NEW c \in Procs, NEW request \in Requests,
               Read(c, request) \/ Write(c, request)
        PROVE  RacesTyped'
    <2>1. request \in {"hold", "ready", "deliver"}
      BY RacesAssumption
    <2>2. Written(request) \in SlipStatus
      BY DEF Written, SlipStatus
    <2>3. [slip EXCEPT !.status = Written(request)] \in Row
      BY <1>1, <2>2, ColumnFacts
    <2>4. CASE Read(c, request)
      BY <1>1, <1>2, <2>1, <2>4, JobsMade DEF Read, Goes, rows
    <2>5. CASE Write(c, request)
      BY <1>1, <1>2, <2>3, <2>5, JobsMade DEF Write, Goes
    <2>6. QED
      BY <1>3, <2>4, <2>5
  <1>4. ASSUME NEW c \in Procs, Closes(c)
        PROVE  RacesTyped'
    <2>1. ASSUME NEW m \in Months, PaySlips(c, m)
          PROVE  RacesTyped'
      <3>1. slip' \in Row
        BY <1>1, <2>1, ColumnFacts DEF PaySlips
      <3>2. QED
        BY <1>1, <1>2, <2>1, <3>1, JobsMade DEF PaySlips, Goes
    <2>2. ASSUME NEW m \in Months, CheckReopen(c, m)
          PROVE  RacesTyped'
      BY <1>1, <1>2, <2>2, JobsMade DEF CheckReopen, Goes, rows
    <2>3. CASE CloseMonth(c) \/ Reopen(c)
      <3>1. period' \in [Months -> PeriodStatus]
        BY <1>1, <2>3 DEF CloseMonth, Reopen, PeriodStatus
      <3>2. QED
        BY <1>1, <1>2, <2>3, <3>1, JobsMade DEF CloseMonth, Reopen, Goes
    <2>4. QED
      BY <1>4, <2>1, <2>2, <2>3 DEF Closes
  <1>5. ASSUME NEW c \in Procs, Edits(c)
        PROVE  RacesTyped'
    <2>1. CASE SavePeriod(c)
      <3>1. job[c].status \in PeriodStatus
        BY <1>1, <2>1, JobFacts DEF SavePeriod, Goes
      <3>2. period' \in [Months -> PeriodStatus]
        BY <1>1, <2>1, <3>1 DEF SavePeriod
      <3>3. QED
        BY <1>1, <1>2, <2>1, <3>2, JobsMade DEF SavePeriod, Goes
    <2>2. ASSUME NEW m \in Months, LoadPeriod(c, m)
          PROVE  RacesTyped'
      BY <1>1, <1>2, <2>2, JobsMade DEF LoadPeriod, Goes, rows
    <2>3. QED
      BY <1>5, <2>1, <2>2 DEF Edits
  <1>6. ASSUME NEW c \in Procs, LoadForMail(c) \/ SendMail(c) \/ Dies(c)
        PROVE  RacesTyped'
    <2>1. slip.net \in 0 .. MaxNet /\ [slip EXCEPT !.resend = FALSE] \in Row
      BY <1>1, ColumnFacts DEF Row
    <2>2. CASE LoadForMail(c)
      BY <1>1, <1>2, <2>1, <2>2, JobsMade DEF LoadForMail, Goes, rows
    <2>3. CASE SendMail(c)
      <3>1. job[c].net \in 0 .. MaxNet
        BY <1>1, <2>3, JobFacts DEF SendMail, Goes
      <3>2. mailed' \in 0 .. Unsent
        BY <2>3, <3>1, RacesAssumption DEF SendMail, Unsent
      <3>3. QED
        BY <1>1, <1>2, <2>1, <2>3, <3>2, JobsMade DEF SendMail, Goes
    <2>4. CASE Dies(c)
      BY <1>1, <1>2, <2>4, JobsMade DEF Dies, rows
    <2>5. QED
      BY <1>6, <2>2, <2>3, <2>4
  <1>7. CASE Inputs
    <2>1. UNCHANGED <<period, slip, mailed, job>>
      BY <1>7 DEF Inputs, IssuePenalty, PayPenalty, ChangeAmount, rows
    <2>2. tasks' \in 0 .. MaxTasks
      <3>1. tasks' = tasks \/ (tasks < MaxTasks /\ tasks' = tasks + 1)
        BY <1>7 DEF Inputs, IssuePenalty, PayPenalty, ChangeAmount
      <3>2. QED
        BY <1>1, <3>1, RacesAssumption
    <2>3. debt' \in BOOLEAN /\ amount' \in 0 .. MaxNet
      <3>1. debt' = debt \/ debt' = TRUE \/ debt' = FALSE
        BY <1>7, Zenon DEF Inputs, IssuePenalty, PayPenalty, ChangeAmount
      <3>2. amount' = amount \/ \E a \in 0 .. MaxNet : amount' = a
        BY <1>7, Zenon DEF Inputs, IssuePenalty, PayPenalty, ChangeAmount
      <3>3. QED
        BY <1>1, <3>1, <3>2
    <2>4. QED
      BY <1>1, <2>1, <2>2, <2>3 DEF RacesTyped, TypeOK
  <1>8. CASE OpenNext
    <2>1. period' \in [Months -> PeriodStatus]
      BY <1>1, <1>8 DEF OpenNext, PeriodStatus
    <2>2. QED
      BY <1>8, <2>1 DEF OpenNext, RacesTyped, TypeOK
  <1>9. QED
    BY <1>3, <1>4, <1>5, <1>6, <1>7, <1>8

LEMMA TypedStep == RacesTyped /\ [Next]_vars => RacesTyped'
  <1> SUFFICES ASSUME RacesTyped, [Next]_vars PROVE RacesTyped'
    OBVIOUS
  <1>1. CASE UNCHANGED vars
    BY <1>1 DEF vars, RacesTyped, TypeOK
  <1>2. CASE Next
    BY <1>2, CalculatorTyped, OtherTyped, RacesAssumption DEF Next, Procs
  <1>3. QED
    BY <1>1, <1>2

\* Tables, broker and the memory of every process hold values of their types.
THEOREM RacesTypeCorrect == Spec => []TypeOK
  <1>1. RacesTyped => TypeOK
    BY DEF RacesTyped
  <1>2. QED
    BY <1>1, TypedInit, TypedStep, PTL DEF Spec

-----------------------------------------------------------------------------
(* One worker                                                              *)

\* What the claim about the amounts needs: one process that calculates and does
\* not die, in a month that nobody completes and in which no slip is delivered
\* by hand. With a second worker, or without the rest, it is false.
OneWorker ==
    /\ \A c, d \in Calculators : c = d
    /\ Calculators \cap Mortals = {}
    /\ Closers = {}
    /\ "deliver" \notin Requests

\* The month stays open, and no copy of the slip is delivered.
MonthOpen ==
    /\ period[1] = "ONGOING"
    /\ \A c \in Procs :
          job[c].pc = "edit" /\ job[c].month = 1 => job[c].status = "ONGOING"
    /\ slip.status # "DELIVERED"
    /\ \A c \in Procs : InMemory(c) => job[c].row.status # "DELIVERED"

\* The row is not pending, or it is rightly and shows the inputs stored now.
Fresh(row) == row.status = "PENDING" => debt /\ row.net = amount

\* A recalculation is under way that has not stored its row yet.
Recalculating == \E c \in Calculators : job[c].pc \in {"task", "loaded", "computed"}

\* Nothing that was computed from older inputs is left when the broker is empty.
BrokerEmptied ==
    tasks = 0 =>
        /\ ~Recalculating => Fresh(slip)
        /\ \A c \in Calculators : job[c].pc \in {"computed", "saved"} => Fresh(job[c].row)

CurrentInv == RacesTyped /\ MonthOpen /\ BrokerEmptied

LEMMA CurrentInit == Init => CurrentInv
  <1> SUFFICES ASSUME Init PROVE CurrentInv
    OBVIOUS
  <1>1. RacesTyped
    BY TypedInit
  <1>2. MonthOpen
    BY DEF Init, MonthOpen, InMemory, Idle, Months
  <1>3. Fresh(slip)
    BY DEF Init, Fresh
  <1>4. \A c \in Calculators : job[c] = Idle
    BY DEF Init, Procs
  <1>5. QED
    BY <1>1, <1>2, <1>3, <1>4 DEF CurrentInv, BrokerEmptied, Idle

\* What single-column writers do to the columns that the claim is about.
LEMMA StatusWritten ==
    ASSUME NEW row \in Row, NEW st \in {"HOLD", "READY"}
    PROVE  /\ [row EXCEPT !.status = st].status = st
           /\ Fresh([row EXCEPT !.status = st])
  BY DEF Row, Fresh

LEMMA ResendWritten ==
    ASSUME NEW row \in Row, NEW r
    PROVE  /\ [row EXCEPT !.resend = r].status = row.status
           /\ [row EXCEPT !.resend = r].net = row.net
  BY DEF Row

\* A step of the only calculator, with what it stores and what it then holds.
LEMMA WorkerKeeps ==
    ASSUME OneWorker, CurrentInv, RacesTyped', NEW c \in Calculators, NEW new,
           job' = [job EXCEPT ![c] = new], UNCHANGED period,
           slip'.status # "DELIVERED",
           new.pc # "edit",
           new.pc \in {"loaded", "computed", "saved"} => new.row.status # "DELIVERED",
           tasks' = 0 =>
              /\ new.pc \notin {"task", "loaded", "computed"} => Fresh(slip)'
              /\ new.pc \in {"computed", "saved"} =>
                    (new.row.status = "PENDING" => debt' /\ new.row.net = amount')
    PROVE  CurrentInv'
  <1>1. c \in Procs /\ DOMAIN job = Procs
    BY DEF Procs, CurrentInv, RacesTyped
  <1>2. job'[c] = new /\ \A d \in Procs : d # c => job'[d] = job[d]
    BY <1>1
  <1>3. MonthOpen'
    BY <1>1, <1>2 DEF CurrentInv, MonthOpen, InMemory
  <1>4. \A d \in Calculators : d = c
    BY DEF OneWorker
  <1>5. BrokerEmptied'
    BY <1>2, <1>4 DEF BrokerEmptied, Recalculating, Fresh
  <1>6. QED
    BY <1>3, <1>5 DEF CurrentInv

LEMMA WorkerCurrent ==
    ASSUME OneWorker, CurrentInv, RacesTyped', NEW c \in Calculators, Calculates(c)
    PROVE  CurrentInv'
  <1>1. /\ slip \in Row /\ slip.status # "DELIVERED" /\ period[1] = "ONGOING"
        /\ c \in Procs /\ job[c] \in JobTypes
        /\ InMemory(c) => job[c].row \in Row /\ job[c].row.status # "DELIVERED"
    BY JobFacts DEF CurrentInv, MonthOpen, RacesTyped, TypeOK, JobTypes, Procs, InMemory
  <1>2. /\ tasks = 0 /\ job[c].pc \notin {"task", "loaded", "computed"} => Fresh(slip)
        /\ tasks = 0 /\ job[c].pc \in {"computed", "saved"} => Fresh(job[c].row)
    BY DEF CurrentInv, BrokerEmptied, Recalculating, OneWorker
  <1>3. CASE TakeTask(c)
    <2>1. job' = [job EXCEPT ![c] = [pc |-> "task"]]
      BY <1>1, <1>3 DEF TakeTask, Goes
    <2>2. PICK new : new.pc = "task" /\ job' = [job EXCEPT ![c] = new]
      BY <2>1
    <2>3. UNCHANGED <<period, slip>>
      BY <1>3 DEF TakeTask, rows
    <2>4. QED
      BY <1>1, <2>2, <2>3, WorkerKeeps
  <1>4. CASE LoadForTask(c) \/ LoadForButton(c) \/ LoadForUnhold(c)
    <2>1. PICK kind : job' = [job EXCEPT ![c] = Loaded(kind)]
      BY <1>4 DEF LoadForTask, LoadForButton, LoadForUnhold, Goes
    <2>2. Loaded(kind).pc = "loaded" /\ Loaded(kind).row = slip
      BY DEF Loaded
    <2>3. UNCHANGED <<period, slip>>
      BY <1>4 DEF LoadForTask, LoadForButton, LoadForUnhold, rows
    <2>4. QED
      BY <1>1, <2>1, <2>2, <2>3, WorkerKeeps
  <1>5. CASE PayPenaltyLate(c)
    BY <1>1, <1>5 DEF PayPenaltyLate
  <1>6. CASE Compute(c)
    <2>1. /\ job' = [job EXCEPT ![c] = Moved(c, "computed", Calculated(job[c].row))]
          /\ UNCHANGED <<period, slip, debt, amount, tasks>>
      BY <1>1, <1>6 DEF Compute, Goes, InMemory, rows
    <2>2. /\ Calculated(job[c].row).status # "DELIVERED"
          /\ Fresh(Calculated(job[c].row))
      BY DEF Calculated, Fresh
    <2>3. /\ Moved(c, "computed", Calculated(job[c].row)).pc = "computed"
          /\ Moved(c, "computed", Calculated(job[c].row)).row = Calculated(job[c].row)
      BY DEF Moved
    <2>4. QED
      BY <1>1, <2>1, <2>2, <2>3, WorkerKeeps DEF Fresh
  <1>7. CASE SaveRow(c)
    <2>1. /\ job' = [job EXCEPT ![c] = Moved(c, "saved", job[c].row)]
          /\ job[c].pc = "computed" /\ slip' = job[c].row
          /\ UNCHANGED <<period, debt, amount, tasks>>
      BY <1>7 DEF SaveRow, Goes
    <2>2. /\ Moved(c, "saved", job[c].row).pc = "saved"
          /\ Moved(c, "saved", job[c].row).row = job[c].row
      BY DEF Moved
    <2>3. QED
      BY <1>1, <1>2, <2>1, <2>2, WorkerKeeps DEF Fresh, InMemory
  <1>8. CASE Conclude(c)
    <2>1. /\ job[c].pc = "saved" /\ UNCHANGED <<period, debt, amount, tasks>>
          /\ \E new : new.pc = "idle" /\ job' = [job EXCEPT ![c] = new]
      BY <1>8 DEF Conclude, Goes, Idle
    <2>2. \/ slip' = slip \/ slip' = job[c].row
          \/ \E r : slip' = [slip EXCEPT !.resend = r]
      BY <1>8 DEF Conclude
    <2>3. \/ slip' = job[c].row
          \/ slip'.status = slip.status /\ slip'.net = slip.net
      <3>1. ASSUME NEW r, slip' = [slip EXCEPT !.resend = r]
            PROVE  slip'.status = slip.status /\ slip'.net = slip.net
        BY <1>1, <3>1, ResendWritten
      <3>2. QED
        BY <2>2, <3>1
    <2>4. slip'.status # "DELIVERED"
      BY <1>1, <2>1, <2>3 DEF InMemory
    <2>5. tasks = 0 => Fresh(slip)'
      BY <1>2, <2>1, <2>3 DEF Fresh
    <2>6. PICK new : new.pc = "idle" /\ job' = [job EXCEPT ![c] = new]
      BY <2>1
    <2>7. QED
      BY <2>1, <2>4, <2>5, <2>6, WorkerKeeps
  <1>9. QED
    BY <1>3, <1>4, <1>5, <1>6, <1>7, <1>8 DEF Calculates

\* A step of another process: it holds no row afterwards, and no older period.
LEMMA OthersKeep ==
    ASSUME OneWorker, CurrentInv, RacesTyped',
           \/ UNCHANGED job
           \/ \E c \in Procs : \E new :
                /\ job' = [job EXCEPT ![c] = new]
                /\ new.pc \notin {"task", "loaded", "computed", "saved"}
                /\ new.pc = "edit" /\ new.month = 1 => new.status = "ONGOING"
                /\ c \in Calculators => job[c].pc \notin {"task", "loaded", "computed"},
           period'[1] = "ONGOING", slip'.status # "DELIVERED",
           tasks' = 0 => /\ tasks = 0 /\ UNCHANGED <<debt, amount>>
                         /\ Fresh(slip) => Fresh(slip)'
    PROVE  CurrentInv'
  <1>1. DOMAIN job = Procs /\ Calculators \subseteq Procs
    BY DEF CurrentInv, RacesTyped, Procs
  <1>2. MonthOpen'
    BY <1>1 DEF CurrentInv, MonthOpen, InMemory
  <1>3. ~Recalculating' => ~Recalculating
    BY <1>1 DEF Recalculating
  <1>4. ASSUME tasks' = 0, NEW c \in Calculators, job'[c].pc \in {"computed", "saved"}
        PROVE  Fresh(job[c].row)'
    <2>1. job'[c] = job[c]
      BY <1>1, <1>4
    <2>2. Fresh(job[c].row)
      BY <1>4, <2>1 DEF CurrentInv, BrokerEmptied
    <2>3. QED
      BY <1>4, <2>1, <2>2 DEF Fresh
  <1>5. ASSUME tasks' = 0, ~Recalculating'
        PROVE  Fresh(slip)'
    BY <1>3, <1>5 DEF CurrentInv, BrokerEmptied
  <1>6. BrokerEmptied'
    BY <1>4, <1>5 DEF BrokerEmptied
  <1>7. QED
    BY <1>2, <1>6 DEF CurrentInv

LEMMA OthersCurrent ==
    ASSUME OneWorker, CurrentInv, RacesTyped',
           \/ \E c \in Procs, request \in Requests : Read(c, request) \/ Write(c, request)
           \/ \E c \in Procs : Edits(c) \/ LoadForMail(c) \/ SendMail(c)
           \/ \E c \in Mortals : Dies(c)
           \/ Inputs \/ OpenNext
    PROVE  CurrentInv'
  <1>1. slip \in Row /\ slip.status # "DELIVERED" /\ period[1] = "ONGOING" /\ tasks \in Nat
    BY DEF CurrentInv, MonthOpen, RacesTyped, TypeOK
  <1>2. ASSUME NEW c \in Procs, NEW request \in Requests, Read(c, request)
        PROVE  CurrentInv'
    <2>1. request \in {"hold", "ready"}
      BY RacesAssumption DEF OneWorker
    <2>2. /\ job' = [job EXCEPT ![c] = [pc |-> request]] /\ job[c].pc = "idle"
          /\ UNCHANGED <<period, slip, debt, amount, tasks>>
      BY <1>2 DEF Read, Goes, rows
    <2>3. QED
      BY <1>1, <2>1, <2>2, OthersKeep DEF Fresh
  <1>3. ASSUME NEW c \in Procs, NEW request \in Requests, Write(c, request)
        PROVE  CurrentInv'
    <2>1. request \in {"hold", "ready"} /\ Written(request) \in {"HOLD", "READY"}
      BY RacesAssumption DEF OneWorker, Written
    <2>2. /\ job' = [job EXCEPT ![c] = Idle] /\ job[c].pc = request
          /\ slip' = [slip EXCEPT !.status = Written(request)]
          /\ UNCHANGED <<period, debt, amount, tasks>>
      BY <1>3 DEF Write, Goes
    <2>3. slip'.status # "DELIVERED" /\ (UNCHANGED <<debt, amount>> => Fresh(slip)')
      BY <1>1, <2>1, <2>2, StatusWritten DEF Fresh
    <2>4. QED
      BY <1>1, <2>1, <2>2, <2>3, OthersKeep DEF Idle
  <1>4. ASSUME NEW c \in Procs, Edits(c)
        PROVE  CurrentInv'
    <2>1. CASE SavePeriod(c)
      <3>1. job[c].month \in Months
        BY <2>1, JobFacts DEF SavePeriod, Goes, CurrentInv, RacesTyped, TypeOK, JobTypes
      <3>2. period'[1] = "ONGOING"
        BY <2>1, <3>1
        DEF SavePeriod, Goes, CurrentInv, MonthOpen, RacesTyped, TypeOK, Months
      <3>3. /\ job' = [job EXCEPT ![c] = Idle] /\ job[c].pc = "edit"
            /\ UNCHANGED <<slip, debt, amount, tasks>>
        BY <2>1 DEF SavePeriod, Goes
      <3>4. QED
        BY <1>1, <3>2, <3>3, OthersKeep DEF Idle, Fresh
    <2>2. ASSUME NEW m \in Months, LoadPeriod(c, m)
          PROVE  CurrentInv'
      <3>1. /\ job' = [job EXCEPT ![c] = [pc |-> "edit", month |-> m, status |-> period[m]]]
            /\ job[c].pc = "idle" /\ UNCHANGED <<period, slip, debt, amount, tasks>>
        BY <2>2 DEF LoadPeriod, Goes, rows
      <3>2. QED
        BY <1>1, <3>1, OthersKeep DEF Fresh
    <2>3. QED
      BY <1>4, <2>1, <2>2 DEF Edits
  <1>5. ASSUME NEW c \in Procs, LoadForMail(c)
        PROVE  CurrentInv'
    <2>1. /\ job' = [job EXCEPT ![c] = [pc |-> "mail", net |-> slip.net]]
          /\ job[c].pc = "idle" /\ UNCHANGED <<period, slip, debt, amount, tasks>>
      BY <1>5 DEF LoadForMail, Goes, rows
    <2>2. QED
      BY <1>1, <2>1, OthersKeep DEF Fresh
  <1>6. ASSUME NEW c \in Procs, SendMail(c)
        PROVE  CurrentInv'
    <2>1. /\ job' = [job EXCEPT ![c] = Idle] /\ job[c].pc = "mail"
          /\ slip' = [slip EXCEPT !.resend = FALSE]
          /\ UNCHANGED <<period, debt, amount, tasks>>
      BY <1>6 DEF SendMail, Goes
    <2>2. slip'.status = slip.status /\ slip'.net = slip.net
      BY <1>1, <2>1, ResendWritten
    <2>3. QED
      BY <1>1, <2>1, <2>2, OthersKeep DEF Idle, Fresh
  <1>7. ASSUME NEW c \in Mortals, Dies(c)
        PROVE  CurrentInv'
    <2>1. c \in Procs /\ c \notin Calculators
      BY RacesAssumption DEF OneWorker
    <2>2. /\ job' = [job EXCEPT ![c] = Idle]
          /\ UNCHANGED <<period, slip, debt, amount, tasks>>
      BY <1>7 DEF Dies, rows
    <2>3. QED
      BY <1>1, <2>1, <2>2, OthersKeep DEF Idle, Fresh
  <1>8. CASE Inputs
    <2>1. tasks' = tasks + 1
      BY <1>1, <1>8 DEF Inputs, IssuePenalty, PayPenalty, ChangeAmount
    <2>2. UNCHANGED <<period, slip, job>>
      BY <1>8 DEF Inputs, IssuePenalty, PayPenalty, ChangeAmount, rows
    <2>3. tasks' # 0
      BY <1>1, <2>1
    <2>4. QED
      BY <1>1, <2>2, <2>3, OthersKeep
  <1>9. CASE OpenNext
    BY <1>1, <1>9 DEF OpenNext
  <1>10. QED
    BY <1>2, <1>3, <1>4, <1>5, <1>6, <1>7, <1>8, <1>9

LEMMA CurrentStep == OneWorker /\ CurrentInv /\ [Next]_vars => CurrentInv'
  <1> SUFFICES ASSUME OneWorker, CurrentInv, [Next]_vars PROVE CurrentInv'
    OBVIOUS
  <1>1. RacesTyped'
    BY TypedStep DEF CurrentInv
  <1>2. CASE UNCHANGED vars
    BY <1>1, <1>2
    DEF vars, CurrentInv, MonthOpen, BrokerEmptied, Recalculating, Fresh, InMemory
  <1>3. CASE Next
    <2>1. \A c \in Closers : FALSE
      BY DEF OneWorker
    <2>2. QED
      BY <1>1, <1>3, <2>1, WorkerCurrent, OthersCurrent DEF Next, Procs
  <1>4. QED
    BY <1>2, <1>3

\* With one worker, however many requests write the status, mails and periods over its
\* reads, and wherever they die: once the broker is empty and the worker idle, a PENDING
\* slip shows the amounts stored now and a debt that exists.
THEOREM PendingSettlesCurrent == OneWorker => (Spec => []PendingCurrent)
  <1> SUFFICES ASSUME OneWorker PROVE Spec => []PendingCurrent
    OBVIOUS
  <1>1. CurrentInv => PendingCurrent
    BY DEF CurrentInv, BrokerEmptied, Recalculating, Fresh, PendingCurrent, Quiet, Idle
  <1>2. CurrentInv /\ [Next]_vars => CurrentInv'
    BY CurrentStep
  <1>3. QED
    BY <1>1, <1>2, CurrentInit, PTL DEF Spec
=============================================================================
