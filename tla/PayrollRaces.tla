---------------------------- MODULE PayrollRaces ----------------------------
(***************************************************************************)
(* The handlers of PayrollLifecycle split into their database statements.  *)
(*                                                                         *)
(* No request runs in a transaction, and Model.save() without              *)
(* update_fields writes every column as it was read: a row loaded by one   *)
(* process can be saved over what another wrote since. The module follows  *)
(* one slip of month 1 and the periods of months 1 and 2, with any number  *)
(* of processes of each kind.                                              *)
(***************************************************************************)
EXTENDS Naturals

CONSTANTS
    Calculators,   \* Celery workers and requests that call calculate()
    Clerks,        \* requests that write the status of the slip
    Requests,      \* the requests they make, among hold, ready and deliver
    Closers,       \* requests complete and uncomplete
    Editors,       \* saves of a whole SalaryPeriod row
    Mailers,       \* send_payroll_email_task
    Mortals,       \* the processes among these that may die
    MaxTasks,      \* bound on recalculation tasks in the broker
    MaxNet         \* amounts the inputs of calculate() can add up to: 0..MaxNet

Procs   == Calculators \cup Clerks \cup Closers \cup Editors \cup Mailers
Months  == {1, 2}
Unpaid  == 0       \* payment_period IS NULL
Unsent  == MaxNet + 1

PeriodStatus == {"NONE", "ONGOING", "COMPLETED"}
SlipStatus   == {"PENDING", "READY", "HOLD", "DELIVERED"}
Row == [status : SlipStatus, payment : Months \cup {Unpaid}, flag : BOOLEAN,
        net : 0 .. MaxNet, resend : BOOLEAN]

Idle == [pc |-> "idle"]
CalculatorJobs ==
    [pc : {"task"}]
      \cup [pc : {"loaded", "computed", "saved"},
            kind : {"task", "button", "unhold", "penalty"}, row : Row, was : 0 .. MaxNet]
ClerkJobs  == [pc : {"hold", "ready", "deliver"}]
CloserJobs == [pc : {"paid", "reopen"}, month : Months]
EditorJobs == [pc : {"edit"}, month : Months, status : PeriodStatus]
MailerJobs == [pc : {"mail"}, net : 0 .. MaxNet]

ASSUME RacesAssumption ==
    /\ MaxTasks \in Nat
    /\ MaxNet \in Nat
    /\ Requests \subseteq {"hold", "ready", "deliver"}
    /\ Mortals \subseteq Procs

VARIABLES
    period,     \* [Months -> PeriodStatus]
    slip,       \* the PayrollSlip row
    debt,       \* an UNPAID PenaltyTicket of the employee and month is stored
    amount,     \* what the other inputs of calculate() add up to now
    tasks,      \* recalculate_payroll_slip_task in the broker
    mailed,     \* the net salary in the last e-mail sent, or Unsent
    job         \* [Procs -> what the process holds in memory]

rows == <<period, slip>>
vars == <<period, slip, debt, amount, tasks, mailed, job>>

-----------------------------------------------------------------------------
(* calculate() and the operations around it                                *)

\* One process goes from a job to another.
Goes(c, from, to) == job[c].pc = from /\ job' = [job EXCEPT ![c] = to]

\* The columns calculate() writes in memory.
Calculated(row) ==
    [status |-> IF row.status = "HOLD" THEN "HOLD"
                ELSE IF debt THEN "PENDING" ELSE "READY",
     payment |-> row.payment, flag |-> debt, net |-> amount, resend |-> row.resend]

Loaded(kind) == [pc |-> "loaded", kind |-> kind, row |-> slip, was |-> slip.net]

\* The job of calculator c moved on, with this row in memory.
Moved(c, pc, row) == [pc |-> pc, kind |-> job[c].kind, row |-> row, was |-> job[c].was]

\* Mutant: the broker is not asked for a task.
TakeTaskUnsent(c) ==
    /\ tasks' = tasks - 1
    /\ Goes(c, "idle", IF period[1] = "COMPLETED" THEN Idle ELSE [pc |-> "task"])
    /\ UNCHANGED <<rows, debt, amount, mailed>>

\* recalculate_payroll_slip_task: the status of the period is checked ...
TakeTask(c) ==
    /\ tasks > 0 /\ tasks' = tasks - 1
    /\ Goes(c, "idle", IF period[1] = "COMPLETED" THEN Idle ELSE [pc |-> "task"])
    /\ UNCHANGED <<rows, debt, amount, mailed>>

\* ... and the slip is read by a later query.
LoadForTask(c) ==
    /\ Goes(c, "task", Loaded("task"))
    /\ UNCHANGED <<rows, debt, amount, tasks, mailed>>

\* PayrollSlipViewSet.recalculate()
LoadForButton(c) ==
    /\ Goes(c, "idle", Loaded("button"))
    /\ UNCHANGED <<rows, debt, amount, tasks, mailed>>

\* PayrollSlip.unhold()
LoadForUnhold(c) ==
    /\ slip.status = "HOLD"
    /\ Goes(c, "idle", Loaded("unhold"))
    /\ UNCHANGED <<rows, debt, amount, tasks, mailed>>

\* bulk_update_status() of a ticket whose month is completed: the handler
\* loads the slip and calculates in the request.
PayPenaltyLate(c) ==
    /\ debt /\ period[1] = "COMPLETED" /\ slip.status # "DELIVERED"
    /\ debt' = FALSE
    /\ Goes(c, "idle", Loaded("penalty"))
    /\ UNCHANGED <<rows, amount, tasks, mailed>>

\* calculate() up to its save(); it returns at once for a delivered slip.
Compute(c) ==
    /\ Goes(c, "loaded",
            IF job[c].row.status = "DELIVERED"
              THEN Moved(c, "saved", job[c].row)
              ELSE Moved(c, "computed", Calculated(job[c].row)))
    /\ UNCHANGED <<rows, debt, amount, tasks, mailed>>

\* Mutant: save(update_fields=["status"]).
SaveStatusOnly(c) ==
    /\ Goes(c, "computed", Moved(c, "saved", job[c].row))
    /\ slip' = [slip EXCEPT !.status = job[c].row.status]
    /\ UNCHANGED <<period, debt, amount, tasks, mailed>>

\* save(): every column.
SaveRow(c) ==
    /\ Goes(c, "computed", Moved(c, "saved", job[c].row))
    /\ slip' = job[c].row
    /\ UNCHANGED <<period, debt, amount, tasks, mailed>>

\* What follows calculate(): the task asks for an e-mail, the button does if the
\* net salary changed, unhold() saves the row again.
Conclude(c) ==
    /\ Goes(c, "saved", Idle)
    /\ \/ job[c].kind = "task" /\ slip' = [slip EXCEPT !.resend = TRUE]
       \/ /\ job[c].kind = "button"
          /\ slip' = [slip EXCEPT !.resend = @ \/ job[c].row.net # job[c].was]
       \/ job[c].kind = "unhold" /\ slip' = job[c].row
       \/ job[c].kind = "penalty" /\ UNCHANGED slip
    /\ UNCHANGED <<period, debt, amount, tasks, mailed>>

-----------------------------------------------------------------------------
(* Requests that write the status column only                              *)

\* hold(), ready() and deliver() check the row they read ...
Allowed(request) ==
    \/ request = "hold" /\ slip.status # "HOLD"
    \/ request = "ready" /\ slip.status \in {"HOLD", "READY"} /\ ~slip.flag
    \/ request = "deliver" /\ slip.status = "READY"

Read(c, request) ==
    /\ Allowed(request)
    /\ Goes(c, "idle", [pc |-> request])
    /\ UNCHANGED <<rows, debt, amount, tasks, mailed>>

\* ... and save(update_fields=["status", ...]).
Written(request) == IF request = "hold" THEN "HOLD"
                    ELSE IF request = "ready" THEN "READY" ELSE "DELIVERED"

Write(c, request) ==
    /\ Goes(c, request, Idle)
    /\ slip' = [slip EXCEPT !.status = Written(request)]
    /\ UNCHANGED <<period, debt, amount, tasks, mailed>>

-----------------------------------------------------------------------------
(* Periods                                                                 *)

\* SalaryPeriod.complete(), first statement: one UPDATE of all READY slips.
PaySlips(c, m) ==
    /\ period[m] # "NONE"
    /\ Goes(c, "idle", [pc |-> "paid", month |-> m])
    /\ slip' = IF slip.status = "READY"
                 THEN [slip EXCEPT !.status = "DELIVERED", !.payment = m] ELSE slip
    /\ UNCHANGED <<period, debt, amount, tasks, mailed>>

\* Second statement: save(update_fields=["status", ...]).
CloseMonth(c) ==
    /\ Goes(c, "paid", Idle)
    /\ period' = [period EXCEPT ![job[c].month] = "COMPLETED"]
    /\ UNCHANGED <<slip, debt, amount, tasks, mailed>>

\* SalaryPeriod.uncomplete(): can_uncomplete(), then the save.
CheckReopen(c, m) ==
    /\ period[m] = "COMPLETED" /\ \A q \in Months : q > m => period[q] = "NONE"
    /\ Goes(c, "idle", [pc |-> "reopen", month |-> m])
    /\ UNCHANGED <<rows, debt, amount, tasks, mailed>>

Reopen(c) ==
    /\ Goes(c, "reopen", Idle)
    /\ period' = [period EXCEPT ![job[c].month] = "ONGOING"]
    /\ UNCHANGED <<slip, debt, amount, tasks, mailed>>

\* Month 2 is created once month 1 is completed.
OpenNext ==
    /\ period[1] # "ONGOING" /\ period[2] = "NONE"
    /\ period' = [period EXCEPT ![2] = "ONGOING"]
    /\ UNCHANGED <<slip, debt, amount, tasks, mailed, job>>

\* SalaryPeriodViewSet.update() and recalculate_salary_period_task load the row ...
LoadPeriod(c, m) ==
    /\ period[m] # "NONE"
    /\ Goes(c, "idle", [pc |-> "edit", month |-> m, status |-> period[m]])
    /\ UNCHANGED <<rows, debt, amount, tasks, mailed>>

\* ... and save() all of its columns.
SavePeriod(c) ==
    /\ Goes(c, "edit", Idle)
    /\ period' = [period EXCEPT ![job[c].month] = job[c].status]
    /\ UNCHANGED <<slip, debt, amount, tasks, mailed>>

-----------------------------------------------------------------------------
(* E-mails, inputs and failures                                            *)

\* send_payroll_email_task: the row is read ...
LoadForMail(c) ==
    /\ Goes(c, "idle", [pc |-> "mail", net |-> slip.net])
    /\ UNCHANGED <<rows, debt, amount, tasks, mailed>>

\* ... sent, and marked as sent by save(update_fields=[..., "need_resend_email"]).
SendMail(c) ==
    /\ Goes(c, "mail", Idle)
    /\ mailed' = job[c].net
    /\ slip' = [slip EXCEPT !.resend = FALSE]
    /\ UNCHANGED <<period, debt, amount, tasks>>

\* Mutant: no task when the amounts fall.
ChangeAmountQuietly(a) ==
    /\ a # amount /\ tasks < MaxTasks
    /\ amount' = a /\ tasks' = IF a > amount THEN tasks + 1 ELSE tasks
    /\ UNCHANGED <<rows, debt, mailed, job>>

\* A timesheet, contract, voucher, expense ... is saved: a task is sent.
ChangeAmount(a) ==
    /\ a # amount /\ tasks < MaxTasks
    /\ amount' = a /\ tasks' = tasks + 1
    /\ UNCHANGED <<rows, debt, mailed, job>>

\* A ticket is created: refused in a completed month.
IssuePenalty ==
    /\ ~debt /\ period[1] # "COMPLETED" /\ tasks < MaxTasks
    /\ debt' = TRUE /\ tasks' = tasks + 1
    /\ UNCHANGED <<rows, amount, mailed, job>>

\* bulk_update_status() of a ticket: a task unless the slip is delivered.
PayPenalty ==
    /\ debt /\ debt' = FALSE
    /\ IF slip.status # "DELIVERED" /\ period[1] = "ONGOING"
         THEN tasks < MaxTasks /\ tasks' = tasks + 1
         ELSE slip.status = "DELIVERED" /\ UNCHANGED tasks
    /\ UNCHANGED <<rows, amount, mailed, job>>

\* A worker or a request dies: its memory is gone, its statements are not.
Dies(c) ==
    /\ job[c] # Idle
    /\ job' = [job EXCEPT ![c] = Idle]
    /\ UNCHANGED <<rows, debt, amount, tasks, mailed>>

-----------------------------------------------------------------------------
Init ==
    /\ period = [m \in Months |-> IF m = 1 THEN "ONGOING" ELSE "NONE"]
    /\ debt \in BOOLEAN
    /\ amount \in 0 .. MaxNet
    /\ slip = [status |-> IF debt THEN "PENDING" ELSE "READY", payment |-> Unpaid,
               flag |-> debt, net |-> amount, resend |-> TRUE]
    /\ tasks = 0
    /\ mailed = Unsent
    /\ job = [c \in Procs |-> Idle]

Calculates(c) ==
    \/ TakeTask(c) \/ LoadForTask(c) \/ LoadForButton(c) \/ LoadForUnhold(c)
    \/ PayPenaltyLate(c) \/ Compute(c) \/ SaveRow(c) \/ Conclude(c)

Closes(c) == \/ \E m \in Months : PaySlips(c, m) \/ CheckReopen(c, m)
             \/ CloseMonth(c) \/ Reopen(c)

Edits(c) == SavePeriod(c) \/ \E m \in Months : LoadPeriod(c, m)

Inputs == IssuePenalty \/ PayPenalty \/ \E a \in 0 .. MaxNet : ChangeAmount(a)

Next ==
    \/ \E c \in Calculators : Calculates(c)
    \/ \E c \in Clerks, request \in Requests : Read(c, request) \/ Write(c, request)
    \/ \E c \in Closers : Closes(c)
    \/ \E c \in Editors : Edits(c)
    \/ \E c \in Mailers : LoadForMail(c) \/ SendMail(c)
    \/ Inputs
    \/ OpenNext
    \/ \E c \in Mortals : Dies(c)

Spec == Init /\ [][Next]_vars

-----------------------------------------------------------------------------
(* Properties                                                              *)

\* Rows and memory hold values of their types.
TypeOK ==
    /\ period \in [Months -> PeriodStatus]
    /\ slip \in Row
    /\ debt \in BOOLEAN /\ amount \in 0 .. MaxNet
    /\ tasks \in 0 .. MaxTasks
    /\ mailed \in 0 .. Unsent
    /\ \A c \in Procs :
          job[c] \in {Idle} \cup CalculatorJobs \cup ClerkJobs \cup CloserJobs
                       \cup EditorJobs \cup MailerJobs

\* A PENDING row names what blocks it (has_unpaid_penalty), whichever statements of
\* other processes, or deaths, fall between the statements that wrote it.
PendingExplained == slip.status = "PENDING" => slip.flag

\* No recalculation is due or under way.
Quiet == tasks = 0 /\ \A c \in Calculators : job[c] = Idle

\* Once the broker is empty, a PENDING slip shows the inputs stored now and is
\* rightly pending: the tasks sent by the signal handlers suffice, although
\* hold and ready write their column between the load and the save.
PendingCurrent ==
    (Quiet /\ slip.status = "PENDING") => (debt /\ slip.net = amount)
=============================================================================
