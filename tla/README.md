# Models of the HRM and payroll back end

This directory holds TLA+ models of the Django back end in `src/`, the TLC
configurations that check them on small instances, and proofs of the main
results that the TLA+ proof system checks for every value of the constants.
The models are written from the code. Where a comment, a document or a test says
something else, the model follows the code and the difference is listed under
*Findings* or *Known disagreements*.

1. [The system](#1-the-system)
2. [Modules](#2-modules)
3. [Payroll, one handler at a time](#3-payroll-one-handler-at-a-time)
4. [Payroll, overlapping handlers](#4-payroll-overlapping-handlers)
5. [Bulk e-mail jobs](#5-bulk-e-mail-jobs)
6. [Employees and contracts](#6-employees-and-contracts)
7. [Timesheets and the requests that change them](#7-timesheets-and-the-requests-that-change-them)
8. [Leave balances](#8-leave-balances)
9. [KPI assessments](#9-kpi-assessments)
10. [Audit logging](#10-audit-logging)
11. [Runs](#11-runs)
12. [Proofs](#12-proofs)
13. [Findings and known disagreements](#13-findings-and-known-disagreements)
14. [What is not modelled](#14-what-is-not-modelled)
15. [Plan](#15-plan)

## 1. The system

A Django REST application with a PostgreSQL database, Celery workers behind a
Redis broker, Celery beat for scheduled tasks, S3 for files, and a RabbitMQ
stream for audit logs. Three facts of its configuration shape every model:

* **No request transaction.** `ATOMIC_REQUESTS` is not set and most handlers do
  not open a transaction, so each ORM call commits alone. A request that dies
  half way leaves its first statements behind, and two requests interleave
  between any two statements.
* **Whole-row saves.** `Model.save()` without `update_fields` writes every
  column as it was when the row was loaded. No row is locked or versioned.
* **Early acknowledgement.** `task_acks_late` is not set: a task leaves the
  broker when a worker takes it. A worker that dies, or a task that raises,
  loses it; nothing sends it again.

The components, the state they keep, and what makes them correct:

| component | state | operations | hard behaviour | correct when |
|---|---|---|---|---|
| Salary periods (`apps/payroll/models/salary_period.py`) | a row for each month: ONGOING or COMPLETED | create (request and task), nightly generation, complete, uncomplete, recalculate | creation is checked in the request and executed in a task; complete pays slips in one statement and closes in another | payments name a completed month |
| Payroll slips (`payroll_slip.py`, `payroll_calculation.py`) | a row for each month and employee: PENDING, READY, HOLD, DELIVERED, with the amounts | calculate, hold, unhold, ready, deliver, e-mail | recalculated by tasks, by buttons and by other requests, from rows loaded earlier | what blocks a slip is current, nothing blocked is paid |
| Penalty tickets (`penalty_ticket.py`) | PAID or UNPAID, employee and month | create, patch, bulk status change, delete | the signal handler looks at how the row was saved | each change reaches the slip |
| Signal handlers (`signals/model_lifecycle.py`) | none | one for each input of `calculate()`: send a recalculation task | a save path without a task leaves the slip stale | slips follow their inputs |
| Bulk e-mail jobs (`apps/mailtemplates`) | a job with counters, its recipients with status and attempts | send (request), the task with slices and retries | the query shrinks under the loop; an error after the server took the mail; worker death | reports are honest, counters agree, the job ends |
| Employees (`apps/hrm/models/employee.py`) | status, dates of a leave or exit, type | actions, profile form, import, approval of leaves | each path saves its own set of columns; bulk updates send no signals | a leave has its dates |
| Contracts (`models/contract.py`) | DRAFT, NOT_EFFECTIVE, ACTIVE, ABOUT_TO_EXPIRE, EXPIRED, dates, parent of an appendix | create, edit, publish, import, exit handler, nightly check | status computed from dates goes stale at midnight; the check reads all rows and writes them later | at most one in force, none after an exit |
| Proposals (`models/proposal.py`, `serializers/proposal.py`, `services/proposal_service.py`) | PENDING, APPROVED, REJECTED and a verification row for each leader | submit, verify, approve, reject, edit, delete, execute | approve and reject race; execution in other statements and tasks than the decision | what was decided is what the timesheet shows |
| Timesheets (`models/timesheet.py`, `services/timesheet_*.py`, `tasks/timesheet*.py`) | an entry for each employee and day | punches, corrections, leaves, exemptions, nightly finalization, recalculation, change tasks | each loads the entry and saves all its columns; three callers compute it differently | its columns fit together, punches and leaves show, corrections survive |
| Monthly timesheets (`models/monthly_timesheet.py`, `services/timesheets.py`) | a row for each employee and month: counts of its entries, leave balance | mark, refresh, prepare | a mark during a refresh; a month opens with what an earlier one had left | the row counts the entries, no leave is made out of nothing |
| KPI assessments (`models/*kpi*.py`) | periods, item scores, grades by employee, manager, HRM and department | self, manager's, HRM's and department's forms, deadline, finalization | forms hold copies over a finalization; bulk updates send no signals | finalized grades stay, payroll and department follow |
| Period statistics (`update_statistics`) | counters in the period row | recount after each change | two recounts, an old one saved last | counters agree with the slips |
| Accounts (`apps/core`) | users, one-time passwords, devices | login, OTP verification, resend, reset | attempts and expiry | a password is used once |
| Files (`apps/files`) | pending and confirmed files, tokens in the cache | presign, upload, confirm, replace | confirmation after the token expired | a confirmed file exists |
| Audit log (`apps/audit_logging`) | a stream, offsets, a dead-letter queue | publish, consume, commit in batches, retry, reprocess | redelivery from the first offset at each start, stop and crash within a message | every event is indexed or a dead letter, in order |
| Imports (`apps/imports`) | a job with progress in the cache | start, process rows | its cancel endpoint is used by no view set | progress agrees with rows |
| Notifications, recruitment, HR reports, organisation, real estate, attendance machines | forms and aggregates | | | |

How they interact: a save of a contract, timesheet, ticket, expense, voucher or
grade sends `recalculate_payroll_slip_task` (signals); an approved leave sets
the reason of the timesheet entries of its days and the employee's status; an
entry that is saved marks its month, and the month's row feeds payroll and the
balance of the next month; an exit ends the contracts (signal), and contracts in
force feed the payroll; completing a period freezes tickets and assessments of
the month (`signals/period_protection.py`); payroll slips are mailed by a
task.

`PROJECT.json` lists every component with its sources and says which are
modelled; its `hazards` name, at a line of code each, what tests hardly reach.

## 2. Modules

| module | what it is |
|---|---|
| `PayrollLifecycle` | periods, slips, tickets and recalculation tasks; each handler is one step |
| `SlipStatusFlow` | abstract specification: how the status of a slip may move |
| `PayrollLifecycleProofs` | proofs about `PayrollLifecycle`, refinement included |
| `PayrollRaces` | the same handlers for one slip, split at their database statements |
| `PayrollRacesProofs` | proofs about `PayrollRaces` for any sets of processes |
| `MailJob`, `MailJobProofs` | one bulk e-mail job and its task; proofs for any number of recipients |
| `Employment` | one employee, the contracts of that employee, the nightly tasks |
| `MCEmployment` | what TLC instantiates, and a promise of a comment |
| `EmploymentProofs` | proofs about `Employment` for any number of contracts and days |
| `Timesheet`, `MCTimesheet` | the entry of one employee and day, requests about it, the month's row; instances with interchangeable handlers |
| `TimesheetProofs` | proofs about `Timesheet` for any requests and handlers |
| `LeaveBalance`, `MCLeaveBalance`, `LeaveBalanceProofs` | the paid leave of one employee over the months |
| `KpiAssessment`, `MCKpiAssessment`, `KpiAssessmentProofs` | the assessments of one period and department |
| `AuditPipeline` | the way of an event from the application to OpenSearch |
| `AuditTrail` | abstract specification: what an auditor may expect of the log |
| `AuditPipelineProofs` | proofs about `AuditPipeline`, refinement included |

Operators whose comment starts with *Mutant* are not part of a model. Each is a
plausible mistake in one definition (a dropped guard, a missing column, an
off-by-one); put in the place of the definition it makes TLC report one of the
properties. `PROJECT.json` pairs each property of each passing run with one, so
that no property holds whatever the code does. `PROJECT.json` also maps every
definition to the lines it stands for.

## 3. Payroll, one handler at a time

`PayrollLifecycle` asks whether the *business rules* are right when handlers do
not overlap.

| variable | code |
|---|---|
| `period`, `uncompleted` | `SalaryPeriod.status` and whether `uncompleted_at` is set; `"NONE"` is no row |
| `slip` | `PayrollSlip.status`, `payment_period`, `has_unpaid_penalty`, for each month and employee (unique together) |
| `ticket` | `PenaltyTicket.status`, employee and month |
| `source` | an active contract and a monthly timesheet exist, the other conditions of `_determine_final_status()` |
| `createQ`, `recalcQ` | tasks in the broker |
| `missed` | history: an input changed, or a status was set by hand, without a task that recomputes the slip |

An action is a request or a task with all it calls. `Complete(p)` pays every
READY slip of *every* period, as the `UPDATE` in `SalaryPeriod.complete()` does.
`CreateRows` covers a creation that dies at any slip: some slips calculated,
one left with its defaults, the rest absent, nothing rolled back. `UpdateStatus`
has the three outcomes of the `post_save` handler (task, calculation in the
request, nothing). `RecalculateTaskLost` is the task that raises or whose worker
dies. `SourceDrifts` are the paths of contracts that send no task for the month.
Creation and recalculation of a whole period check the status again when they
run, so their time in the broker is modelled only where it matters
(`createQ`).

**Safety.** `PayableUnblocked`: no order of hold, ready, deliver, complete and
recalculation gets a slip with an unpaid penalty flag into READY or DELIVERED.
`PaidInCompletedPeriod`: a payment period names a month that is completed, or
bears the mark of having been reopened. `SlipsInSync`: a computed slip agrees
with tickets and sources unless a task is queued or one of the operations
recorded in `missed` hit it; that is, the signal handlers cover every path
except those. `SlipsFollowFlow`: the whole system implements `SlipStatusFlow`.

**Refinement.** `SlipStatusFlow` says, with three variables and no handlers, how
a slip may move: it appears computed, is recomputed while it is open, is frozen
and released, and is paid only from an unblocked READY; the period it was paid
in is never erased (another may take its place, section 13). The mapping
takes status, payment period and flag from the row; many slips may move in one
step, because `complete()` and the recalculation of a period are one step here.

**Liveness.** `PendingSettles`: in an open month, a slip that is PENDING with
nothing left to block it does not stay so. Fairness is weak fairness of each
`RecalculateTask(k)`: a worker keeps taking tasks. The code justifies that and
no more: nothing forces users to press buttons, so no other action is fair. A
lost task is not excluded; it is recorded in `missed` and with it the slip
leaves the claim. That is what the system provides: it recovers from a lost task only when
somebody recalculates.

## 4. Payroll, overlapping handlers

`PayrollRaces` follows one slip of month 1, and the periods of months 1 and 2,
through the *statements* of the same handlers, with a set of processes of each
kind: calculators (task, button, `unhold()`, the ticket handler), clerks (hold,
ready, deliver), closers (complete, uncomplete), editors (a whole save of a
period row), mailers. `job[c]` is what the process holds in memory: for a
calculator, the row it loaded or computed. `Compute` reads tickets and inputs;
`SaveRow` writes every column, over whatever others wrote since; clerks check
the row they read and write one column. `Mortals` are the processes that may die
between two statements; their memory is lost, their statements stay.

A great deal is *not* true of overlapping handlers (section 13). What survives:

* `PendingExplained`: a PENDING row always carries the flag that explains it.
  Status and flag are computed together and stored together, single-column
  writers never write PENDING, and so the pair cannot be torn, whoever
  interleaves or dies. In this module every slip has its contract and timesheet
  (`source` of section 3), so a penalty is the only reason to be pending.
* `PendingCurrent`: with one worker that lives, in a month that is neither
  completed nor paid by hand, once the broker is empty a PENDING slip shows the amounts stored now and a debt that still exists, although clerks
  write between its load and its save. With two workers it is false: the one
  that read the older inputs may save last.

## 5. Bulk e-mail jobs

`MailJob` is one job of `apps/mailtemplates`: the request that creates the rows
one by one (and may die among them, then sending no task), and
`send_email_job_task`. `Slice` is the offset query evaluated on the recipients
that are PENDING *at that time*; `Delivered` and `Raised` are one attempt of
`send_single_email()`, where the number of attempts is saved before the mail
leaves, and an exception may come after the server accepted the mail (`inbox`
counts what the server accepted). `Dies` and `DiesSending` end the task for
good.

`CountsMatch` relates the counters kept in the task's memory to the rows.
`ReportsHonest`: failed means `MaxAttempts` attempts, sent means at least one
mail accepted. `SettledLeftAlone`: no recipient who was settled gets another
mail, although the slices move. `HalfServed` bounds the damage of the moving
slices: at least half of the recipients of a completed job are settled.
`JobEnds`: a job whose task was sent ends unless its worker dies. Fairness is
weak fairness of the work of the task, justified by a worker that is alive and a
loop without waits other than a bounded back-off.

## 6. Employees and contracts

`Employment` is one employee with up to `MaxContract` contracts over `LastDay`
days. An employee has a status, the two dates used for leaves and exits, and
whether the type is UNPAID_OFFICIAL; a contract has a status, its dates and the
parent of an appendix. The work of a request is one step; the nightly
`check_contract_status` is two (`CheckReads`, `CheckWrites`), because it reads
all rows, decides in memory and writes with one `bulk_update`.

`Save(e, row)` is `Employee.save()`: the object `e` as `clean()` left it must be
valid, the columns of `row` are stored, and the handler after it
(`expire_contracts_on_employee_exit`) sees the object, not the row. The
distinction is what the reactive action turns on: it clears the dates of the
object and stores only the status. `Published` is `Contract.save()` with the
expiry of previous contracts. `NextDay` is midnight; tasks of the day before
that did not run yet are as good as lost, since the new ones do their work.

An import of contracts reads all employees when it starts and uses these objects
for every row of the file: `import` is such an object (`Seen`: whether the
employee has resigned, the type, the date that `clean()` leaves), read by
`StartImport`, used and changed by each `ImportContract` and dropped by
`EndImport`. The status of an imported contract and the handler after a change of
type come from it, not from the row (section 13).

`plan.disturbed` and `raced` record that a publication, an import or an exit
fell between the read and the write of the check. The claims below exclude the
states after such a night and take them back after the next undisturbed check:
they describe exactly how long the damage of the race lasts. `revived` does the
same for an import whose object did not know of the exit: it is set when such a
row is imported and taken back by the next save of the employee, whose handler
ends the contract, or by the next undisturbed check.

* `OneInForce`: at most one contract, appendices aside, is in force.
* `ExitEndsContracts`: whoever has resigned or is unpaid has drafts and expired
  contracts only, by whichever path the employee left and whatever was published
  since, while neither `raced` nor `revived` is set.
* `InForceCoversToday`: after the check of the day, a contract in force covers
  the day. The three ways of computing it (publication, import, check) agree.
* `LeaveDated`: an employee on leave has the dates the leave needs, although
  each action stores its own choice of columns.

An approved leave is an input: `StartLeaves` and `ApproveMaternity` take any
dates around today.

## 7. Timesheets and the requests that change them

`Timesheet` is one employee, one day and the month's row that counts it.

| variable | code |
|---|---|
| `entry` | `TimeSheetEntry`: times, manual correction, exemption, reason, hours, status, `working_days` (in half days, or open) |
| `punches`, `exempted`, `over` | attendance records of the day, an exemption in force, whether the day is past |
| `request` | `Proposal` rows: whole and half days of paid leave, unpaid and maternity leave, complaints |
| `month`, `refresh` | the counts of `EmployeeMonthlyTimesheet` with `need_refresh`; a run of the periodic refresh |
| `job` | handlers under way, each with the row it loaded: a punch, HR's correction, finalization, recalculation, approval, rejection, an edit by the owner, the change tasks |
| `changes`, `exemptionDue` | tasks queued by the signals of a request and of an exemption |
| `trampled`, `moved`, `missed`, `month.torn` | history: a handler wrote from what another had written since; the owner moved an approved request; no handler took up the last change of the day's records; a mark was lost |

A handler goes through the steps *asked*, *decided*, *loaded*, *written*; an
execution is apart from the decision, and the change task that the decision
queues may run before, between or after them. `ComputeAll` and `Cleaned` are the
two computations of an entry (`compute_all()` by the tasks, `clean()` by every
`save()`); `Snapshot` takes leaves and exemptions from their tables. One punch
is an arrival without an end, two are half a day of work, corrected times a whole
day. Finalization and recalculation differ in whether they close the day, which
`SaveComputed` leaves open. An owner may change the dates of a request and the shift
of a paid leave (`SaveEdit`).

A change of the attendance records is either taken up (`Punch`: the entry of the
day is loaded and its records are counted, again when a record is saved once more
or when an early record of the next day names this entry) or not (`PunchMissed`):
the handler looks for the entry of the record's *UTC* date, which from midnight to
07:00 is the day before, skips records without an employee and logs its errors.
`missed` is set by the second and cleared by the first.

* `Coherent`: the times are the punches unless corrected, and status and days fit
  the times, hours and reason. Whether leave or punches decide a day that has both
  is left open: the documents, a test and the code disagree (section 13), and the
  property holds for either order.
* `PunchesCounted`: at rest the entry shows the punches that there are, unless
  `missed`.
* `ReasonMatches`: a leave shows on the entry just when it is approved, whatever
  order decision, execution, change task, edit of the shift, deletion and
  finalization take. A day with a leave and punches keeps its reason; a plan
  (section 13) wants it cleared there, which would change this property.
* `CorrectionStands`: corrected times outlive punches, tasks and requests.
* `MonthReflects`: once no mark is set or due the month counts the entry.
* `MonthSettles` (liveness): it comes to do so for good. Fairness is weak fairness
  of each handler's next step (a request or task that runs goes on) and of the
  refresh (beat sends it every 30 seconds). Nobody has to ask for anything.

`trampled`, `moved`, `missed` and `torn` mark what the code does not protect: copies,
an approved request that its owner moves to other days, a punch nobody takes up, a
mark set between the read and the write of a refresh. Each property says what it excuses by them.

## 8. Leave balances

`LeaveBalance` numbers the months from a month of one year to one of the next. A
preparation (`create_monthly_timesheet_for_employee`) loads the month's row
(`PrepareLoad`), reads contract and earlier rows (`PrepareCompute`) and saves the
row (`PrepareSave`); in April the second is three queries in the code and one step here: a save between two
of them changes what the row is filled in from, as a save after them does, and such rows
are `behind`. A refresh loads, counts and saves. Either may stop anywhere
and two overlap freely. A preparation may come at any time of the month because
hiring somebody runs it for everybody (section 13). The days of leave of a month
are free: `Timesheet` is about them.

* `WithinEntitlement`: no order of saves makes leave out of nothing; what a row
  has left and what it charges come to no more than was earned by then.
* `FifoRule`: the code keeps one figure and works out in April, from January's row
  and three months' days, what expires. The reference `Pots` is an account with a
  pot for leave carried over and one for the year's; leave is taken from the
  first while there is any, January moves all into it and April empties it. The
  two agree for every month that was filled in from rows that have not changed
  since (`behind` has the others) and while none is overdrawn.

## 9. KPI assessments

`KpiAssessment` is one period of one department: an assessment for each employee,
one of whom is hired meanwhile, item scores, the department's grade, the deadline,
the finalization, and the payroll tasks as far as the grade in the slip goes.
Nothing there is locked and no transaction spans a request, so a step is one
database statement:

| variable | code |
|---|---|
| `row`, `items`, `exists`, `dept` | `EmployeeKPIAssessment`, its items, who has one, `DepartmentKPIAssessment`; scores are reduced to whether they exist and the grade they come to |
| `closed`, `late`, `sweep` | the period is finalized, the deadline has passed, a finalization under way |
| `form[f]` | a request: its kind, the row, items or department that it holds in memory, and how far it is |
| `slip`, `pending`, `worker` | the grade in a slip, tasks in the broker, workers and the grade each has read |
| `touched`, `lagging`, `deptOld` | history: see below |

A request loads a row (`OpenSelf`, `OpenManager`, ...), writes every column back
(`WriteSelf`, ...), and scores items; a batch then reloads the row (`Reload`), reads
the items (`ReadItems`) and writes four columns computed from both (`WriteScores`).
After *each* save the handler reads the department's rows (`Judge`), writes its
verdict (`Tell`), writes the status (`Mark`) and queues a recalculation (`Call`);
other requests come between any two of these. The finalization is a transaction:
its rows are locked from `FinalizeRows` to `FinalizeCommit` and nobody sees them
before. A payroll task is refused for a COMPLETED month or a DELIVERED slip
(`Refuse`, which also stands for its loss), or it is taken, reads the grade and
saves the slip (`Take`, `ReadGrade`, `SaveSlip`), with several workers at once.

* `Coherent`: while no request that scores is half way, totals, manager's grade and
  status of a row are those that items and manager's choice give. `touched` has the
  rows last written from what others had changed meanwhile, left by a request that
  died half way, or computed by the form for one item.
* `SlipFollows`: the slip has the grade that counts, or a task, or a request about
  to queue one, will bring it. `lagging` has the slips for which nothing will: the
  grade was set by a query without a signal, a call or a task was lost, payroll was
  closed for the slip, or an older task saved last.
* `DeptFollows`: a department is finished exactly when all its employees have a
  grade, or a handler has yet to tell it; `deptOld` says that the last to write it
  wrote an older verdict, or that a grade changed without anybody telling it.
* `FinalKept` (action property): what was finalized changes only by a request that
  was loaded before, or by HRM's form with an old copy.

The three history variables are set at the steps named and cleared by the next
write that is right again, so that the properties say what *else* may not happen.

## 10. Audit logging

`AuditPipeline` has the stream, the consumer process with its retry loop, the
offset it stores in batches, dead letters and the operator's commands. The
consumer may be killed at any moment or stopped, in which case it commits the
offset of a message whose handler still works (`cut`); each start reads the
stream from its first message. OpenSearch refuses the events of `Rejected` and
may be out for any attempt.

* `NothingSkipped`: up to the newest event handled, each is indexed, a dead letter,
  or given up in the log (`dropped`).
* `StoredIsSettled`: the stored offset vouches for settled events, but for `cut`.
* `TrailRefined`: the pipeline implements `AuditTrail`, in which events are settled
  in order and stay searchable; `settled` is `frontier`, the newest event ever
  settled, so a restart that replays the stream is a stutter.
* `EventsSettle` (liveness): every event comes to be settled for good. Fairness is
  that of `Start`, because a supervisor restarts the process, and of `Handle`,
  because the loop waits for nothing but a bounded back-off. The last of
  `MaxStarts` runs is not ended, or nothing could be promised.

## 11. Runs

| run | instance | shows |
|---|---|---|
| `PayrollSafety` | 2 months, 1 employee, 1 ticket, 1 task of a kind in the broker; creation through the generator | the four invariants and the refinement of section 3 |
| `PayrollLiveness` | 1 month, 1 employee, 1 ticket, 2 equal tasks, creation by request | `PendingSettles` |
| `RacesEverything` | worker, clerk and closer; worker and closer may die | `TypeOK`, `PendingExplained` |
| `RacesOneWorker` | worker, 2 clerks, editor, mailer, 2 tasks, 2 amounts; a clerk and the mailer may die | `PendingCurrent` |
| `MailJob` | 8 recipients, slices of 2, 2 attempts | the five safety properties and `JobEnds` |
| `EmploymentContracts` | 2 contracts, 2 days, leaves of the first day, notice 0; an import of up to 2 rows | the five invariants of section 6 |
| `Timesheet` | 2 requests for a whole or half day of leave, not both filed for half, 3 handlers, 2 at once | the safety properties of section 7 |
| `TimesheetSettles` | 1 leave or complaint, 2 handlers | `MonthSettles` |
| `LeaveBalance` | December to April, 2 tasks at once, 2 refreshes of 0 or 2 days, February with or without a contract | the three invariants of section 8 |
| `MCKpiAssessment` | a leader and a new employee, 2 grades, 2 requests at once, 2 payroll workers | the five properties of section 9 |
| `AuditPipeline` | 3 events, one refused, batches of 2, 3 attempts, 2 runs of the process | section 10, refinement and liveness included |
| `EmploymentMaternityReturns` | 1 contract, 2 days | violated: nobody returns from maternity leave |

*Why the bounds suffice.* Two months are needed for anything between periods (a
slip paid in a later period, a successor that forbids reopening), and a third
adds only a second predecessor or successor. Slips of different employees meet
only in `complete()` and in the recalculation of a period, which treat each row
alone, so one employee shows each behaviour; the proofs cover any number. One
ticket makes and unmakes a debt; two would only keep it. Equal tasks are idempotent, so
one or two in the broker show the cases "none", "one behind a change" and "two in
a row". `PayrollSafety` sets `MaxCreations` to 0 because the rows that
`CreateTask` leaves are those of `AutoGenerate`; creation by request runs in
`PayrollLiveness`. Eight recipients in slices of two make
four slices, of which the last two find an empty query; two attempts show a
failure that is retried and one that is final. Two days show a date before, on
and after today; notice 0 still separates "about to expire" (today is the last
day) from both neighbours; two contracts show one replaced by another and one
with an appendix. The dates of leaves are one day there (`LeaveDays`), which is past,
present or future as the days go by; the number of contracts bounds the rows of an
import, and the last one is left to an import that has started, so that its rows can
come after everything else.

Two requests show one that replaces, hides or outlives the other's reason, and three
handlers a punch or a decision between the load and the write of another, with a
third that finds what they left; complaints, corrections of HR and exemptions need
one request and are in `TimesheetSettles` and, but for complaints, in both. Two
requests that are both filed for half a day are left out (`Filed`): such leaves come
about by an edit of the shift. In `LeaveBalance` December to April has both rules of the turn of a year; three days
are carried over, so that one refresh of two days leaves some to expire and two of
them none. Two requests, taken statement by statement, show one that was loaded before
the other's writes, between any two of them and after; two workers show a task that
overtakes another; two employees are one of each kind, and departments share nothing.
Three
events are one before, at and after the refused one and more than a batch; two runs
are one that ends anywhere and one that replays.

The largest spaces are `Timesheet` (3,122,559 distinct states), `MCKpiAssessment`
(1,132,618) and `EmploymentContracts` (900,570); `TimesheetSettles` has 37,367.

`CHECK_DEADLOCK FALSE` is set where the system stops: a job that is over, a calendar
at its last day, no handler or form left to start, a consumer that is done.

## 12. Proofs

TLAPS checks each of the theorems for every value of the constants, from the named
assumptions of the modules alone (that bounds are numbers and that `NoSlip`,
`NoTicket` and the like are no records).

**`PayrollLifecycleProofs`.** `TypeCorrect`, `PayableAlwaysUnblocked`,
`PaidOnlyInCompletedPeriod`, `SlipsStayInSync` and `SlipsImplementFlow`, for any
sets of employees and tickets and any number of months. The inductive invariant
is

    IInv == /\ TypeOK /\ SlipHasPeriod
            /\ PayableUnblocked /\ PaidInCompletedPeriod /\ SlipsInSync

`SlipHasPeriod` (a slip exists only in a month that has a row) is the
strengthening: without it the creation of a month could overwrite slips that
exist, a delivered one among them, and neither the refinement nor
`PaidInCompletedPeriod` would be preserved. The argument goes through one lemma, `SlipStep`: every action
does to every slip one of a few things (nothing, a calculation, a mark, a
payment, a new row). `Calculate`, `Marked` and `Paid` have their facts proved
once, and the refinement follows from `SlipStep` case by case: each of the cases
is one transition of `SlipStatusFlow`.

**`PayrollRacesProofs`.** `RacesTypeCorrect` and `PendingAlwaysExplained`, for any
sets of processes of each kind, each of which may die. The invariant of the second
says that the row in the table *and every row in the memory of a process* explains
its PENDING; memory has to be in it because a saved row comes from there.

`PendingSettlesCurrent` is about one worker, so it has a hypothesis, `OneWorker`:
there is at most one calculator and it does not die, nobody completes the month,
and nobody delivers the slip by hand. Clerks, editors, mailers, queued tasks and
amounts are any number, and all but the calculator may die. The run `RacesOneWorker` is an
instance. No part of the hypothesis can go: TLC finds a state that violates
`PendingCurrent` when a second worker, a mortal worker, a closer or the request to
deliver is added: the older inputs are saved last; a task is lost; a completed
month is not recalculated; no task is sent for a delivered slip, which a save of
an older copy then makes PENDING again. The inductive invariant is

    CurrentInv == RacesTyped /\ MonthOpen /\ BrokerEmptied

where `BrokerEmptied` follows the row from the table to memory and back: with an
empty broker the table is current unless the worker has yet to save, and then the
row it computed is. `MonthOpen` keeps copies of the period and the slip from bringing
back a closed month or a paid slip.

**`MailJobProofs`.** `MailTyped`, `CountsAlwaysMatch`, `ReportsAlwaysHonest`,
`SettledAlwaysLeftAlone` and `HalfAlwaysServed`, for any number of recipients, any size of a slice and
any number of attempts. The inductive invariant is

    MailInv == /\ TypeOK /\ Stages /\ HandOK /\ Waiting /\ Counting
               /\ CountsMatch /\ ReportsHonest

`HandOK` says that the slice in hand holds pending rows only, although it was a
query over rows that have been leaving PENDING since; `Waiting` that a recipient
who waits was never tried, but for the one in hand; `Counting` that the counters
of the task are cardinalities of the sent and of the failed rows. `CountsMatch`
looks at a completed job only and needs `Counting` while the task works. The
one step that needs counting is `OneSettled`: a row that leaves PENDING is one
more of its kind.

`HalfAlwaysServed` says how much the moving slices can miss. It rests on

    SkipInv == MailInv /\ Progress /\ HalfServed

`Progress` counts the rows of the slice in hand as done: either as many are done as
are left, or as many as the offset. `SliceFull` is the fact about the query: a slice
is full, or no more rows than the offset are left out of it. A full slice keeps the
second alternative; one that is not full turns it into the first, which holds from
then on. `SliceFull` speaks of the rank of a row among the pending ones and needs an
induction, which `LeastElement` provides: a set of numbers that is not empty has a
least one (`WFMin`), so a claim with a counterexample has a least counterexample. In this
form no operator is a parameter, which is what makes the library's induction
theorems unusable here.

**`EmploymentProofs`.** `EmploymentTyped`, `AtMostOneInForce`,
`ExitAlwaysEndsContracts`, `InForceAlwaysCoversToday` and `LeaveAlwaysDated`, for
any number of contracts and days and any notice. The inductive invariant is

    EmploymentInv == /\ TypeOK /\ LeaveDated
                     /\ OneInForce /\ ExitEndsContracts /\ InForceCoversToday
                     /\ PlanSound

`PlanSound` is the strengthening. The nightly check decides from rows it has read
and writes later, so the properties survive its write only if the plan it holds
was good when it was made and is still good: unless something overlapped it, it
keeps drafts (`PlanRows`), ends all rows but one (`PlanOne`), ends all of them after
an exit (`PlanExit`) and starts none that does not cover the day (`PlanCovers`).
An import overlaps the check in hand like a publication, and a row that starts a
contract of somebody who has left sets `revived`, so `ExitEndsContracts` is left to
what clears it: a save of the employee and the write of an undisturbed check, which
both end the contract.
Every save of the employee either leaves the contracts alone (`RowsStay`) or ends
all of them (`AllEnded`), every publication ends the others (`PublishedFacts`), and
an edit touches drafts only (`DraftStep`). The three contract properties say
nothing while `raced` is set, from a check that wrote what an overlapping
publication, import or exit had made old until the next undisturbed check has
written: section 13 has what the code does then.

**`TimesheetProofs`.** `TimesheetTyped`, `EntryCoherent`, `PunchesShown`,
`MonthFollows`, `CorrectionsKept` and `ReasonsMatch`, for any finite set of requests, any kinds of
them and any number of handlers. The inductive invariant is

    IInv == TypeOK /\ EntryKept /\ JobsOk /\ FitsInv /\ PunchInv /\ MonthInv

`JobsOk` is the heart: the copy a handler holds agrees with the entry, unless
another handler wrote since it was loaded, which the handler then bears as a
mark. Without it a save would put an arbitrary row in place. `FitsInv` is stronger than
`Coherent`: it says what the code does with a day that has both a leave and punches,
which `Coherent` leaves open. `PunchInv` says of an entry that does not show the punches
that a handler with all of them has yet to write, or that `missed` is set; a handler
that loaded the entry before a missed change keeps the mark. `EntryKept` (a
corrected entry has corrected times, an exempt one its exemption) makes the two
computations agree on what they keep; `MonthInv` says that while a refresh is
under way and unmarked, what it read is still there.

`ReasonsMatch` adds three parts, and `LeavesInvariant` states all of them:

    LeaveInv == RowsOk /\ CopiesOk /\ ReasonInv
    ReasonInv == Calm => LeaveQueued \/ Settled

A decision, its execution and the change task it queues are steps of different
handlers, in any order, and in between the reason on the entry may be wrong.
`ReasonInv` says who will put it right: either a change of a leave is queued
(`LeaveQueued`), or (`Settled`) the reason on the entry is right, or a task holds a
copy with the right one and will write it. `RowsOk` is why a decision is made on a
request as it is: a loaded request is either still as it was or marked as old by whoever
saved it, and an approval that waits to be executed is in force. `CopiesOk` is the
same for the reason in a held copy of the entry. `Calm` is what makes it inductive: it
is false from the moment that two handlers hold the entry, because the first to write
makes the other's copy old and `trampled` is certain (`DoomStays`). The property
looks at states at rest, where nobody holds a copy, so `Calm` costs it nothing.

**`LeaveBalanceProofs`.** `LeaveTyped`, `NoLeaveFromNothing` and `FifoAlways`, for any
months of the two years, any leave taken and any number of tasks. The invariant of the first two bounds what a
row *opens* with by what was earned before its month, for saved rows and for
those held by tasks; `OpensWithin` shows it for the three rules of a preparation,
`SaveKeeps` for every save of an old copy.

`FifoAlways` has two halves. The first is an invariant (`FifoInvariant`):

    FifoInv == LeaveInv /\ RowsFit /\ ComputedFit /\ AllBalanced

A row that is not `behind`, in the table or computed by a task whose reads are not
old, opens with what the rows before it give *now* (`Fits`), and has left what its
columns come to unless it is overdrawn. Since a save puts the rows that depend on it
`behind`, `SaveFits` needs only that the others do not read it (`OpensAsBefore`). The second half has no
steps: in a state of `FifoInv` the figure and the pots agree (`FitsGiveFifo`).
`Pots` is a recursive function, and `PotsOfMonth`, that it satisfies its own equation,
is proved by a least counterexample as in `MailJobProofs`; then the months are
compared one after the other (`FirstAgrees`, `NextAgrees`), with the expiry of April
and the new year as cases of their own.

**`KpiAssessmentProofs`.** `KpiTyped`, `RowsCoherent`, `PayrollFollows`,
`DepartmentFollows` and `FinalizedKept`, for any staff and grades and any number of
requests, requests at once and workers. The inductive invariant is

    KpiInv == /\ TypeOK /\ GradesScored /\ FormsChecked /\ ScoresHeld /\ Unhired
              /\ TasksFollow /\ Coherent /\ SlipFollows /\ DeptFollows

`GradesScored` says that a manager's grade comes from item scores, in the tables
and in every copy: a row without scores could otherwise keep a grade that a batch
no longer computes. `FormsChecked` has the steps that a request of each kind goes
through, and that those which score loaded a row that was not final. `ScoresHeld`
carries `Coherent` through the handler: from its last save to the status the request
holds the totals of the items it read, so if row and items are still those when the
status is written the row is right, and if not it is `touched`. `TasksFollow` is the
same for payroll: a worker whose grade has been overtaken is followed by a task that
will bring the new one, unless another saved the slip since it read, in which case
its own save is the old one that comes last. `Unhired` says that nothing is known of
an employee without an assessment. Each action has its lemma; `SlipsKept`, `DeptKept`
and `SameRowRight` say what an action that leaves grades, verdict or row alone keeps.

**`AuditPipelineProofs`.** `Typed`, `NoneSkipped`, `StoredVouches` and `Implements`, for
any numbers of events, attempts and runs and any size of a batch. `Position` ties
the consumer's message to the frontier (a replay is behind it, a new message is
the next one), `StoredInReach` keeps the stored offset within what was handled and
`LettersHandled` says that dead letters are of events handled before. The
refinement is one case for each action: a step of the frontier, an indexing behind
it, or a stutter.

**Only model-checked.** Liveness (`PendingSettles`, `JobEnds`, `EventsSettle`,
`MonthSettles`), because the prover does not handle fairness. Every other property of
a passing run, invariants, action properties and both refinements, is a theorem. The
data of `calculate()` (amounts, hours, tax) is not modelled, so nothing is said of it.

## 13. Findings and known disagreements

`EmploymentMaternityReturns` ends in a violation of what a comment promises: the
nightly task for employees whose maternity leave is over uses a form that accepts
resigned employees only (`serializers/employee.py:511`) and swallows the refusal,
so nobody returns, against `tasks/employee.py:20-22`.

Other disagreements that the models contain and that have no run of their own:

* `hold()` accepts a paid slip; `ready()` and a later `complete()` pay it again and
  overwrite `payment_period` (`models/payroll_slip.py:440`, against its line 75,
  "when this slip is actually paid"). `Hold`, `MarkReady`, `Complete`.
* `unhold()` calculates while the status is still HOLD, which calculation keeps, so
  the slip stays held (`models/payroll_slip.py:484`, against its line 460).
  `LoadForUnhold`, `Compute`.
* A slip paid between the load and the save of a recalculation is rewritten
  (`services/payroll_calculation.py:119`, against its line 54, "data is frozen").
  `SaveRow`.
* Offsets into a query that shrinks skip recipients, and the job completes without
  them (`mailtemplates/tasks.py:71`, against `mailtemplates/README.md:423`). `Slice`.
* The nightly check keeps the newest row in force only, which may be an appendix, and
  expires its contract (`tasks/contracts.py:75`, against `models/contract.py:491`).
  `CheckReads`.
* The form for the score of one item recalculates from items fetched before its save,
  so the score is not counted (`views/employee_kpi_assessment.py:568`, against "Recalculate
  totals" at 567). `ScoreItems` of a form of kind ITEM, then `WriteScores`.
* Two batches of one assessment overlap: the columns of the second are computed from
  items or a choice of grade read before the first was done
  (`utils/kpi_assessment.py:75`, 112). `ReadItems`, `WriteScores`, `touched`. Two
  verdicts on a department may be stored in the other order than they were found
  (`utils/kpi_calculation.py:266`, 311), `deptOld`; two payroll tasks may save in the
  other order than they read (`payroll_calculation.py:119`), `lagging`. A late grade does
  not reach the slip of a completed month or a delivered slip (`payroll/tasks.py:39`,
  `payroll_calculation.py:55`), `Refuse`. An assessment may be created after the
  finalization that found the period open (`signals/employee_lifecycle.py:77`) and is
  then open in a finalized period. `OpenJoin`, `Create`.
* A day with a paid leave and punches. The code lets the punches decide
  (`services/timesheet_calculator.py:394-398`, and its docstring above) under a comment
  "Leave Logic (High Precedence)" (line 367). The business rules give the leave
  priority (`docs/TÀI LIỆU QUY TẮC NGHIỆP VỤ_ TÍNH TOÁN VÀ LƯU TRỮ NGÀY CÔNG.md:150`),
  and so does a test that asserts ABSENT with PAID_LEAVE on a day with two punches
  (`apps/hrm/tests/test_timesheet_overlap_and_tz.py:101-108`). The plan
  `docs/issues/hientd/PR1-TIMESHEET-CALCULATOR-PLAN.md` has it both ways (1353 against
  29-30 and 1358) and wants the reason cleared and the leave refunded on such a day
  (68-83, and "Attendance wins" in 569), which no code does yet. `Status` follows the
  code; `Coherent` holds for either order; `ReasonMatches` describes the reason as it is
  kept now.
* The day of a punch is the date of its UTC timestamp (`services/timesheets.py:290`, for
  timestamps of `timezone.now()` in `serializers/wifi_attendance.py:61` and
  `serializers/geolocation_attendance.py:74`), while the punches of a day are counted by
  local date (line 252, `Asia/Ho_Chi_Minh`). A punch between midnight and 07:00 updates the day
  before, and its own day does not show it until another punch of that day. `PunchMissed`,
  `missed`; the recount of the day before is one of the cases of `Punch`.
* `process_proposal_change` computes past days as open and stores that, so a closed day
  has no `working_days` until it is saved again (`tasks/timesheet_triggers.py:171`,
  against "Past days are always finalized", `models/timesheet.py:234`). `ChangeWrite`.
* `save()` computes an entry without the rule for exempt employees, which takes their
  full credit away (`models/timesheet.py:300`, against
  `services/timesheet_calculator.py:83`, "grant full credit and exit"). `Cleaned`.
* A mark set while a refresh runs is cleared by it (`models/monthly_timesheet.py:293`,
  against `signals/monthly_timesheet_triggers.py:11`, "any change [...] is reflected"):
  `month.torn`. A preparation that loaded the row before the mark clears it as well
  (`services/timesheets.py:227`); that one is not in a model.
* The owner may edit and delete a request in any state (`views/mobile/proposal.py:101`),
  while its API description says "(draft only)"; moving an approved leave leaves the
  reason on the day it was for. `SaveEdit`, `moved`.
* Finalization at 17:30 closes days whose shift ends later, and the next save opens them
  again, because `clean()` asks the clock (`tasks/timesheets.py:101`,
  `models/timesheet.py:220`); the docstring there says that corrected entries are
  final, which the code does not look at. Deleting attendance records keeps the hours
  they gave. A leave of half a day is executed as a reason for the whole day.
* Leave booked or refunded after the next month was prepared does not reach it
  (`services/timesheets.py:219`, against
  `docs/issues/hientd/PR1-TIMESHEET-CALCULATOR-PLAN.md:75-79`, which has a refund
  work by itself): its days are not charged, or, refunded before April, expire without
  having been given back. `behind`. A refresh never lets the balance fall below zero
  and so forgets overdrawn days (`models/monthly_timesheet.py:287`); a preparation
  does not (`services/timesheets.py:223`).
* `apply_async(employee_id=..., countdown=5)` (`signals/employee.py:52`, 58) passes the
  employee as an option of the message, not as an argument of the task, which then
  prepares the month for everybody. `PrepareLoad`. The task *sets*
  `available_leave_days` (`tasks/timesheets.py:67`) where its docstring and
  `docs/attendance_device_integration.md:367` have it incremented by one, and no
  refresh changes it afterwards.
* A manager who sends only a grade, without item scores, leaves `grade_manager` empty: the
  row is not completed and the finalization gives it C, although the serializer's help
  text calls the field an override. After the deadline a manager may still submit once
  HRM has assessed. Self-assessed rows without a grade get none at finalization. Forms
  loaded before the finalization take it back. `OpenManager`, `FinalizeCommit`.
* Events that OpenSearch refuses are tried three times, because `RequestError` is caught
  with the connection errors (`audit_logging/consumer.py:203` says "don't retry"). The
  consumer reads from the first message at each start, against
  `apps/audit_logging/README.md:101`, which has it continue at the stored offset.
  `reprocess_all` reads the first 100 dead letters and removes none
  (`manage_audit_logs_dlq.py:20`, "all messages"). `Fail`, `Start`, `Operator`.
* A PATCH of a ticket is a full save, so the handler sees no `update_fields` and
  recalculates nothing (`signals/model_lifecycle.py:133`, against the comment at
  line 115). `PatchTicket`; it sets `missed`.
* The protection of completed months looks at the new month of a ticket and
  lets UNPAID to PAID pass (`signals/period_protection.py:95`, against its lines
  3-4). `PatchTicket`.
* Two creation requests accepted before either task runs make two open periods
  (`tasks.py:272`, against `serializers/salary_period.py:196`). `RequestCreate`,
  `CreateTask`.
* Reopening a period with delivered slips is allowed (`models/salary_period.py:334`,
  against `docs/SALARY_PERIOD_MANAGEMENT_IMPLEMENTATION.md:221`), and `deliver`
  sets no payment period (`views/payroll_slip.py:505`, against line 278 of the
  same document).
* A hold set between the load and the save of a recalculation is lost
  (`payroll_calculation.py:119`); a period row saved whole reopens a completed
  month (`views/salary_period.py:620`); `ready` may be stored over a recalculation
  that found a debt (`views/payroll_slip.py:450`); the e-mail task clears
  `need_resend_email` for amounts it has not sent (`tasks.py:227`). All in
  `PayrollRaces`.
* `complete()` pays the slips and closes the period in two statements
  (`models/salary_period.py:318`, 329): a crash between them leaves delivered slips in
  an open period (`PaySlips`, `CloseMonth`). With two workers the recalculation that read
  the older inputs may be stored last (`payroll_calculation.py:119`; section 12 on
  `PendingSettlesCurrent`). A worker that dies leaves a mail job RUNNING for good, since its
  task was acknowledged when it was taken (`mailtemplates/tasks.py:45`). `Dies`.
* The reactive action leaves the resignation dates in the row
  (`serializers/employee.py:516-524`), the task that starts leaves takes resigned
  employees out of RESIGNED (`tasks/proposal.py:43`), and an exit turns drafts
  into expired rows that the nightly check may bring into force after a return
  (`signals/employee.py:154`). All in `Employment`.
* An import of contracts uses the employees as they were when it started
  (`import_handlers/contract_creation.py:88`, used in 262 and 281; read once by
  `imports/tasks.py:223`): somebody who resigned while it runs gets a contract in force,
  against `signals/employee.py:147`, which ends all contracts on an exit, and a type
  changed meanwhile is written over. The contract stays until the employee is saved again or
  the next nightly check. `StartImport`, `ImportContract`, `revived`.
* The nightly check stores a bulk update of what it decided before
  (`tasks/contracts.py:98`): after a publication or an exit in between, an employee
  may have two contracts in force, or one after leaving, until the next night.
  `CheckReads`, `CheckWrites`, `raced`.
* The check of overlapping leaves uses `<`, so two leaves may share a day
  (`models/proposal.py:628`), and two requests with one `client_request_id` may
  both create a mail job (`mailtemplates/views.py:458`). Not modelled.

## 14. What is not modelled

* The amounts of a slip, lateness, overtime and holidays of a timesheet, criteria and
  points of an assessment: long formulas over one row, without a state of their own.
  Models keep only whether a value is there and current.
* Permissions, filters, serialisation, spreadsheets, templates, translations.
* Real estate, recruitment, organisation, certificates, banks: forms whose
  requests touch one row.
* The `--override` option of the command `generate_salary_period`, which deletes
  a period by hand.
* `Imports`: the only concurrent writer, the cancel mixin, is used by no view
  set.
* In `Employment`, two overlapping forms on the employee, and an exit that falls between
  the two statements of a publication in one request; two imports at once; in `MailJob`, two jobs; in
  `KpiAssessment`, two finalizations at once, the unit control of a department's
  grades, two requests that create the assessment of one employee (the second is
  refused by the unique constraint), and the second load of a row within one request
  (`get_object()` runs twice before anything is written; the model has one load). There, slips exist
  from the start and whether payroll is closed for a slip is free at every task
  (`PayrollLifecycle` says when it is); in `Timesheet`, two overlapping refreshes, lost tasks, changes of the calendar
  and of contracts, the verification of requests by leaders, and two entries for one
  day, which a unique constraint excludes.
* In `AuditPipeline`, events whose producer fails (they are in the local file only),
  events of transactions that roll back, and what an event says of a change.
* Accounts and one-time passwords, files, notifications, attendance machines, the
  recounted statistics and reports: see the plan.

## 15. Plan

Done: `PayrollLifecycle`, `PayrollRaces`, `MailJob`, `Employment`, `AuditPipeline`,
`KpiAssessment`, `Timesheet` with the execution of leaves and complaints, and
`LeaveBalance`, each with its proofs. What would come next:

1. Composition: `Timesheet` with `LeaveBalance` (marks and counts in place of free
   days of leave) and with `Employment` (leaves in place of the free dates of
   `StartLeaves` and `ApproveMaternity`).
2. Verification of requests by leaders and department heads.
3. `PeriodStatistics`: recounts of `update_statistics()` against each other and
   against whole saves of the period row; composed with `PayrollRaces`.
4. `FileConfirm`: presigned upload, token in the cache, confirmation and replacement.
5. Proofs: the abstract account of leave (`Pots`) and a mail job with any slices as
   refinements; the invariants of what 1 to 4 add.
