----------------------------- MODULE Timesheet -----------------------------
(***************************************************************************)
(* One employee's timesheet entry of one day, the leave requests and the   *)
(* complaints that cover the day, and the monthly row that payroll reads.  *)
(*                                                                         *)
(* Every writer of the entry loads it, works on the copy and writes it     *)
(* back without a lock: attendance records, the correction by HR, the task *)
(* that closes the day, recalculations, the execution of an approved       *)
(* request, and the two tasks that write a few columns with bulk_update.   *)
(* A job is one such writer, and others run between its load and write.    *)
(*                                                                         *)
(* Times and hours are reduced: one punch is a check-in, two cover half of *)
(* the day, the times of a correction cover all of it. Days are counted in *)
(* halves. Lateness and overtime are left out.                             *)
(***************************************************************************)
EXTENDS Integers, FiniteSets

CONSTANTS
    Requests,       \* leave requests and complaints of the employee, numbered as created
    RequestKinds,   \* the kinds they may have
    Filed,          \* the kinds they may be filed with: functions of Requests
    Jobs,           \* handlers and tasks that can be under way at once
    MaxJobs         \* bound on the handlers started, change tasks not counted

Open == -1                  \* working_days is NULL: the day is not closed
Corrected == 3              \* times that were corrected, against 0..2 punches
NoReason == "NONE"

Kinds == {"PAID", "HALF", "UNPAID", "MATERNITY", "COMPLAINT"}

EntryRecord ==              \* TimeSheetEntry
    [in        : 0..2,          \* check_in_time, check_out_time: how many are set
     times     : 0..Corrected,  \* start_time, end_time
     corrected : BOOLEAN,       \* is_manually_corrected
     hours     : 0..2,          \* official_hours
     exempt    : BOOLEAN,       \* is_exempt
     reason    : {NoReason, "PAID", "UNPAID", "MATERNITY"},     \* absent_reason
     status    : {"NONE", "PRESENT", "SINGLE_PUNCH", "ABSENT"},
     days      : {Open} \cup 0..2]                              \* working_days

RequestRecord ==            \* Proposal
    [kind  : RequestKinds,      \* "HALF" is a paid leave with a shift
     here  : BOOLEAN,           \* its dates include the day
     state : {"PENDING", "APPROVED", "REJECTED", "GONE"}]

JobRecord ==
    [kind  : {"IDLE", "PUNCH", "CORRECT", "COMPUTE",
              "APPROVE", "REJECT", "EDIT", "CHANGE", "EXEMPTION", "SAVED"},
     step  : {"ASKED", "DECIDED", "LOADED", "WRITTEN"},
     req   : Requests,
     row   : RequestRecord,     \* the request as it was loaded
     entry : EntryRecord,       \* the entry as it was loaded, or as computed from that
     stale : BOOLEAN]           \* history: another wrote what this job had loaded

MonthRecord ==              \* EmployeeMonthlyTimesheet, as far as the day contributes
    [flag : BOOLEAN,            \* need_refresh
     days : 0..2,               \* total_working_days
     paid : BOOLEAN,            \* paid_leave_days
     torn : BOOLEAN]            \* history: marked again while it was last refreshed

RefreshRecord == [on : BOOLEAN, days : 0..2, paid : BOOLEAN, torn : BOOLEAN]

VARIABLES
    over,           \* the day has passed, or its schedule has ended
    punches,        \* attendance records of the day, more than two count as two
    exempted,       \* an AttendanceExemption is in force
    request, entry, month,
    refresh,        \* a run of update_monthly_timesheet_async on the row
    changes,        \* requests with a process_proposal_change queued for this day
    exemptionDue,   \* a process_exemption_change is queued
    job,
    made,           \* how many handlers were started
    trampled,       \* history: a job wrote from what another had written since
    moved,          \* history: the owner moved an approved request to other days
    missed          \* history: no handler took up the last change of the day's records

vars == <<over, punches, exempted, request, entry, month, refresh, changes,
          exemptionDue, job, made, trampled, moved, missed>>

ASSUME TimesheetAssumption ==
    /\ Requests \subseteq Nat /\ IsFiniteSet(Requests) /\ Requests # {}
    /\ RequestKinds \subseteq Kinds /\ RequestKinds # {}
    /\ Filed \subseteq [Requests -> RequestKinds]
    /\ MaxJobs \in Nat

-----------------------------------------------------------------------------
(* What is read from the requests                                          *)

ReasonOf(kind) == IF kind = "HALF" THEN "PAID" ELSE kind

\* What a request may be changed into: a paid leave to a half day and back.
Shifts(kind) ==
    IF kind \in {"PAID", "HALF"} THEN {"PAID", "HALF"} \cap RequestKinds ELSE {kind}

InForce(r) == request[r].state = "APPROVED" /\ request[r].here

\* Proposal.get_active_leave_proposals(): its first() has the lowest number.
ActiveLeaves == {r \in Requests : InForce(r) /\ request[r].kind # "COMPLAINT"}

FirstLeave == CHOOSE r \in ActiveLeaves : \A s \in ActiveLeaves : r <= s

\* snapshot_leave_reason() of an entry without a reason: only a whole day counts.
LeaveReason ==
    IF ActiveLeaves = {} \/ request[FirstLeave].kind = "HALF" THEN NoReason
    ELSE request[FirstLeave].kind

HalfDays == Cardinality({r \in ActiveLeaves : request[r].kind = "HALF"})

-----------------------------------------------------------------------------
(* The calculator                                                          *)

\* snapshot_data(): a reason and an exemption, once set, stay.
Snapshot(e) ==
    [e EXCEPT !.exempt = @ \/ exempted,
              !.reason = IF @ = NoReason THEN LeaveReason ELSE @]

\* calculate_hours(): without both times the hours are kept.
WithHours(e) ==
    [e EXCEPT !.hours = IF e.times = Corrected THEN 2 ELSE IF e.times = 2 THEN 1 ELSE @]

\* compute_status(): attendance first, then leave, then kept hours.
Status(e, fin) ==
    IF e.times >= 2 THEN "PRESENT"
    ELSE IF e.times = 1 THEN IF fin THEN "SINGLE_PUNCH" ELSE "PRESENT"
    ELSE IF e.reason = NoReason /\ e.hours > 0 THEN "PRESENT"
    ELSE IF fin THEN "ABSENT" ELSE "NONE"

\* Mutant: the cap is left out.
Uncapped(halves) == halves

\* _apply_working_days_cap()
AtMostOneDay(halves) == IF halves > 2 THEN 2 ELSE halves

WorkingDays(e, status, fin) ==
    IF ~fin THEN Open
    ELSE IF status = "ABSENT" THEN IF e.reason = "PAID" THEN 2 ELSE 0
    ELSE IF status = "SINGLE_PUNCH" THEN 1
    ELSE AtMostOneDay(e.hours + HalfDays)

Judged(e, fin) ==
    [e EXCEPT !.status = Status(e, fin), !.days = WorkingDays(e, Status(e, fin), fin)]

\* TimesheetCalculator.compute_all()
ComputeAll(e, fin) ==
    IF Snapshot(e).exempt
    THEN [Snapshot(e) EXCEPT !.status = "PRESENT", !.days = 2, !.reason = NoReason]
    ELSE Judged(WithHours(Snapshot(e)), fin)

\* TimeSheetEntry.clean(), which every save() runs: compute_all() without its rule
\* for exempt employees.
Cleaned(e) ==
    LET synced == IF e.corrected THEN e ELSE [e EXCEPT !.times = e.in]
    IN  IF over THEN Judged(WithHours(Snapshot(synced)), over)
        ELSE Judged(Snapshot(synced), over)

-----------------------------------------------------------------------------
(* Jobs                                                                    *)

NoRow == [kind |-> CHOOSE k \in RequestKinds : TRUE, here |-> TRUE, state |-> "PENDING"]

Blank == [in |-> 0, times |-> 0, corrected |-> FALSE, hours |-> 0, exempt |-> FALSE,
          reason |-> NoReason, status |-> "NONE", days |-> 0]

Idle == [kind |-> "IDLE", step |-> "LOADED", req |-> CHOOSE r \in Requests : TRUE,
         row |-> NoRow, entry |-> Blank, stale |-> FALSE]

\* A job that has written the entry and whose handler of post_save has yet to run.
Saved == [Idle EXCEPT !.kind = "SAVED", !.step = "WRITTEN"]

RowJobs == {"APPROVE", "REJECT", "EDIT"}

IsIdle(j) == job[j].kind = "IDLE"

At(j, kind, step) == job[j].kind = kind /\ job[j].step = step

Starts(j) == IsIdle(j) /\ made < MaxJobs /\ made' = made + 1

Loaded(kind, e) == [Idle EXCEPT !.kind = kind, !.step = "LOADED", !.entry = e]

\* The jobs after j wrote the entry: whoever holds a copy of it holds an old one.
JobsAfter(j, next) ==
    [k \in Jobs |->
        IF k = j THEN next
        ELSE IF job[k].kind # "IDLE" /\ job[k].step = "LOADED"
        THEN [job[k] EXCEPT !.stale = TRUE] ELSE job[k]]

\* The same after j wrote request r.
RowJobsAfter(j, r, next) ==
    [k \in Jobs |->
        IF k = j THEN next
        ELSE IF job[k].kind \in RowJobs /\ job[k].req = r
        THEN [job[k] EXCEPT !.stale = TRUE] ELSE job[k]]

\* j writes e; its handler of post_save, which marks the month, is still to come.
Write(j, e) ==
    /\ entry' = e
    /\ job' = JobsAfter(j, Saved)
    /\ trampled' = (trampled \/ job[j].stale)
    /\ UNCHANGED <<over, punches, exempted, request, month, refresh, changes,
                   exemptionDue, made, moved, missed>>

-----------------------------------------------------------------------------
(* Writers of the whole entry                                              *)

\* Mutant: a corrected entry is left alone altogether.
PunchUncorrected(j, n) ==
    /\ Starts(j)
    /\ n \in {punches - 1, punches, punches + 1} \cap 0..2
    /\ punches' = n /\ missed' = FALSE
    /\ LET seen == [entry EXCEPT !.in = n, !.times = n]
       IN  job' = IF entry.corrected THEN job
                  ELSE [job EXCEPT ![j] = Loaded("PUNCH", WithHours(seen))]
    /\ UNCHANGED <<over, exempted, request, entry, month, refresh, changes,
                   exemptionDue, trampled, moved>>

\* Mutant: a punch replaces the times of a correction.
PunchOverCorrection(j, n) ==
    /\ Starts(j)
    /\ n \in {punches - 1, punches, punches + 1} \cap 0..2
    /\ punches' = n /\ missed' = FALSE
    /\ LET seen == [entry EXCEPT !.in = n, !.times = n]
       IN  job' = [job EXCEPT ![j] = Loaded("PUNCH", WithHours(seen))]
    /\ UNCHANGED <<over, exempted, request, entry, month, refresh, changes,
                   exemptionDue, trampled, moved>>

\* A punch arrives, or a record is deleted; then the entry is loaded and the records
\* of its day are counted. They are counted again when a record is saved once more,
\* and when an early one of the next day, whose UTC date is this day, names the entry.
Punch(j, n) ==
    /\ Starts(j)
    /\ n \in {punches - 1, punches, punches + 1} \cap 0..2
    /\ punches' = n /\ missed' = FALSE
    /\ LET seen == [entry EXCEPT !.in = n, !.times = IF entry.corrected THEN @ ELSE n]
       IN  job' = [job EXCEPT ![j] = Loaded("PUNCH", WithHours(seen))]
    /\ UNCHANGED <<over, exempted, request, entry, month, refresh, changes,
                   exemptionDue, trampled, moved>>

\* ... but the handler looks for the entry of the record's UTC date, which before
\* 07:00 is the day before, skips a record without an employee, and logs an error.
PunchMissed(n) ==
    /\ made < MaxJobs /\ made' = made + 1
    /\ n \in {punches - 1, punches + 1} \cap 0..2
    /\ punches' = n /\ missed' = TRUE
    /\ UNCHANGED <<over, exempted, request, entry, month, refresh, changes,
                   exemptionDue, job, trampled, moved>>

\* HR opens the entry, or a task that goes through entries loads it.
LoadEntry(j, kind) ==
    /\ Starts(j)
    /\ job' = [job EXCEPT ![j] = Loaded(kind, entry)]
    /\ UNCHANGED <<over, punches, exempted, request, entry, month, refresh, changes,
                   exemptionDue, trampled, moved, missed>>

OpenEntry(j) == \E kind \in {"CORRECT", "COMPUTE"} : LoadEntry(j, kind)

SavePunch(j) ==
    /\ At(j, "PUNCH", "LOADED")
    /\ Write(j, Cleaned(job[j].entry))

\* TimeSheetEntryUpdateSerializer: times are required, and the entry is corrected.
SaveCorrection(j) ==
    /\ At(j, "CORRECT", "LOADED")
    /\ Write(j, Cleaned([job[j].entry EXCEPT !.times = Corrected, !.corrected = TRUE]))

\* finalize_daily_timesheets, recalculate_timesheets: compute_all(), with the day closed
\* or open, then save().
SaveComputed(j, fin) ==
    /\ At(j, "COMPUTE", "LOADED")
    /\ Write(j, Cleaned(ComputeAll(job[j].entry, fin)))

\* Mutant: a row that is there already is not marked.
MarkedIfNew ==
    /\ month' = month
    /\ refresh' = refresh

\* trigger_monthly_refresh, the handler of post_save.
Marked ==
    /\ month' = [month EXCEPT !.flag = TRUE]
    /\ refresh' = [refresh EXCEPT !.torn = refresh.on]

Mark(j) ==
    /\ ~IsIdle(j) /\ job[j].step = "WRITTEN"
    /\ Marked
    /\ job' = [job EXCEPT ![j] = Idle]
    /\ UNCHANGED <<over, punches, exempted, request, entry, changes, exemptionDue,
                   made, trampled, moved, missed>>

-----------------------------------------------------------------------------
(* Requests: the approver decides, the owner edits or deletes              *)

OpenRequest(j) ==
    /\ Starts(j)
    /\ \E kind \in RowJobs, r \in Requests :
           /\ request[r].state # "GONE"
           /\ kind \in {"APPROVE", "REJECT"} => request[r].state = "PENDING"
           /\ job' = [job EXCEPT ![j] = [Idle EXCEPT !.kind = kind, !.step = "ASKED",
                                                   !.req = r, !.row = request[r]]]
    /\ UNCHANGED <<over, punches, exempted, request, entry, month, refresh, changes,
                   exemptionDue, trampled, moved, missed>>

\* Proposal.save() of row by j, which goes on as next; an approved request queues the
\* task for the dates of row.
SaveRequest(j, r, row, next) ==
    /\ request' = [request EXCEPT ![r] = row]
    /\ changes' = IF row.state = "APPROVED" /\ row.here THEN changes \cup {r} ELSE changes
    /\ job' = RowJobsAfter(j, r, next)
    /\ trampled' = (trampled \/ job[j].stale)
    /\ UNCHANGED <<over, punches, exempted, entry, month, refresh, exemptionDue, made,
                   missed>>

Decide(j) ==
    LET r == job[j].req
        row == job[j].row
    IN  \/ /\ At(j, "APPROVE", "ASKED")
           /\ SaveRequest(j, r, [row EXCEPT !.state = "APPROVED"],
                          IF row.here THEN [job[j] EXCEPT !.step = "DECIDED"] ELSE Idle)
           /\ UNCHANGED moved
        \/ /\ At(j, "REJECT", "ASKED")
           /\ SaveRequest(j, r, [row EXCEPT !.state = "REJECTED"], Idle)
           /\ UNCHANGED moved

\* The owner may change the days of a request in any state, and the shift of a paid
\* leave; the task sees the new dates only.
SaveEdit(j) ==
    LET row == job[j].row
    IN  /\ At(j, "EDIT", "ASKED")
        /\ \E here \in BOOLEAN, kind \in Shifts(row.kind) :
               /\ SaveRequest(j, job[j].req, [row EXCEPT !.here = here, !.kind = kind], Idle)
               /\ moved' = (moved \/ (row.state = "APPROVED" /\ row.here /\ ~here))

\* ... and delete it: post_delete queues the task as well.
Delete(r) ==
    /\ made < MaxJobs /\ made' = made + 1
    /\ request[r].state # "GONE"
    /\ request' = [request EXCEPT ![r].state = "GONE"]
    /\ changes' = IF InForce(r) THEN changes \cup {r} ELSE changes
    /\ job' = [k \in Jobs |->
                  IF job[k].kind \in RowJobs /\ job[k].req = r
                  THEN [job[k] EXCEPT !.stale = TRUE] ELSE job[k]]
    /\ UNCHANGED <<over, punches, exempted, entry, month, refresh, exemptionDue,
                   trampled, moved, missed>>

\* execute_approved_proposal() loads the entry ...
ExecuteLoad(j) ==
    /\ At(j, "APPROVE", "DECIDED")
    /\ job' = [job EXCEPT ![j].step = "LOADED", ![j].entry = entry]
    /\ UNCHANGED <<over, punches, exempted, request, entry, month, refresh, changes,
                   exemptionDue, made, trampled, moved, missed>>

\* ... or raises, for a complaint that is not linked to its entry; the error is
\* logged and the approval stands.
ExecuteFails(j) ==
    /\ At(j, "APPROVE", "DECIDED") /\ job[j].row.kind = "COMPLAINT"
    /\ job' = [job EXCEPT ![j] = Idle]
    /\ UNCHANGED <<over, punches, exempted, request, entry, month, refresh, changes,
                   exemptionDue, made, trampled, moved, missed>>

\* Mutant: a leave clears the times and with them the correction.
AppliedClearing(e, kind) ==
    IF kind = "COMPLAINT"
    THEN WithHours([e EXCEPT !.times = Corrected, !.corrected = TRUE])
    ELSE [e EXCEPT !.status = "NONE", !.reason = ReasonOf(kind), !.hours = 0,
                   !.times = 0, !.corrected = FALSE]

\* _apply_complaint_correction(), _execute_leave_proposal(): a leave of half a day is
\* entered as one of a whole day.
Applied(e, kind) ==
    IF kind = "COMPLAINT"
    THEN WithHours([e EXCEPT !.times = Corrected, !.corrected = TRUE])
    ELSE [e EXCEPT !.status = "NONE", !.reason = ReasonOf(kind), !.hours = 0]

\* The execution is a transaction: the month is marked with the entry.
ExecuteSave(j) ==
    /\ At(j, "APPROVE", "LOADED")
    /\ entry' = Cleaned(Applied(job[j].entry, job[j].row.kind))
    /\ job' = JobsAfter(j, Idle)
    /\ trampled' = (trampled \/ job[j].stale)
    /\ Marked
    /\ UNCHANGED <<over, punches, exempted, request, changes, exemptionDue, made, moved, missed>>

-----------------------------------------------------------------------------
(* The tasks that write a few columns                                      *)

\* Mutant: the task keeps the reason that the entry has.
ChangeLoadKeeping(j, r) ==
    /\ IsIdle(j) /\ r \in changes
    /\ changes' = changes \ {r}
    /\ job' = [job EXCEPT ![j] = Loaded("CHANGE", ComputeAll(entry, FALSE))]
    /\ UNCHANGED <<over, punches, exempted, request, entry, month, refresh,
                   exemptionDue, made, trampled, moved, missed>>

\* process_proposal_change loads and computes: for a leave the reason is found anew.
ChangeLoad(j, r) ==
    /\ IsIdle(j) /\ r \in changes
    /\ changes' = changes \ {r}
    /\ LET base == IF request[r].kind = "COMPLAINT" THEN entry
                   ELSE [entry EXCEPT !.reason = LeaveReason]
       IN  job' = [job EXCEPT ![j] = Loaded("CHANGE", ComputeAll(base, FALSE))]
    /\ UNCHANGED <<over, punches, exempted, request, entry, month, refresh,
                   exemptionDue, made, trampled, moved, missed>>

\* Mutant: bulk_update() without the post_save that it does not send by itself.
ChangeWriteSilently(j) ==
    /\ At(j, "CHANGE", "LOADED")
    /\ LET c == job[j].entry
       IN  entry' = [entry EXCEPT !.reason = c.reason, !.status = c.status, !.days = c.days]
    /\ job' = JobsAfter(j, Idle)
    /\ trampled' = (trampled \/ job[j].stale)
    /\ UNCHANGED <<over, punches, exempted, request, month, refresh, changes,
                   exemptionDue, made, moved, missed>>

\* bulk_update() of the copy's columns, then post_save is sent by hand.
ChangeWrite(j) ==
    /\ At(j, "CHANGE", "LOADED")
    /\ LET c == job[j].entry
       IN  Write(j, [entry EXCEPT !.reason = c.reason, !.status = c.status, !.days = c.days])

\* An exemption is granted; its post_save queues the task.
Exempt ==
    /\ ~exempted /\ made < MaxJobs /\ made' = made + 1
    /\ exempted' = TRUE
    /\ exemptionDue' = TRUE
    /\ UNCHANGED <<over, punches, request, entry, month, refresh, changes, job,
                   trampled, moved, missed>>

ExemptionLoad(j) ==
    /\ IsIdle(j) /\ exemptionDue
    /\ exemptionDue' = FALSE
    /\ job' = [job EXCEPT ![j] = Loaded("EXEMPTION", ComputeAll(entry, FALSE))]
    /\ UNCHANGED <<over, punches, exempted, request, entry, month, refresh, changes,
                   made, trampled, moved, missed>>

ExemptionWrite(j) ==
    /\ At(j, "EXEMPTION", "LOADED")
    /\ LET c == job[j].entry
       IN  Write(j, [entry EXCEPT !.exempt = c.exempt, !.reason = c.reason,
                                  !.status = c.status, !.days = c.days, !.hours = c.hours])

-----------------------------------------------------------------------------
(* The month                                                               *)

\* compute_aggregates(): a day that is open counts nothing.
Credit(e) == IF e.days = Open THEN 0 ELSE e.days

RefreshRead ==
    /\ ~refresh.on /\ month.flag
    /\ refresh' = [on |-> TRUE, days |-> Credit(entry), paid |-> entry.reason = "PAID",
                   torn |-> FALSE]
    /\ UNCHANGED <<over, punches, exempted, request, entry, month, changes,
                   exemptionDue, job, made, trampled, moved, missed>>

RefreshWrite ==
    /\ refresh.on
    /\ month' = [flag |-> FALSE, days |-> refresh.days, paid |-> refresh.paid,
                 torn |-> refresh.torn]
    /\ refresh' = [on |-> FALSE, days |-> 0, paid |-> FALSE, torn |-> FALSE]
    /\ UNCHANGED <<over, punches, exempted, request, entry, changes, exemptionDue,
                   job, made, trampled, moved, missed>>

\* The schedule of the day ends, or midnight comes.
DayEnds ==
    /\ ~over
    /\ over' = TRUE
    /\ UNCHANGED <<punches, exempted, request, entry, month, refresh, changes,
                   exemptionDue, job, made, trampled, moved, missed>>

-----------------------------------------------------------------------------
\* prepare_monthly_timesheets has created the entry and the month.
Init ==
    /\ over = FALSE
    /\ punches = 0
    /\ exempted = FALSE
    /\ \E f \in Filed :
           request = [r \in Requests |-> [kind |-> f[r], here |-> TRUE, state |-> "PENDING"]]
    /\ entry = Blank
    /\ month = [flag |-> FALSE, days |-> 0, paid |-> FALSE, torn |-> FALSE]
    /\ refresh = [on |-> FALSE, days |-> 0, paid |-> FALSE, torn |-> FALSE]
    /\ changes = {}
    /\ exemptionDue = FALSE
    /\ job = [j \in Jobs |-> Idle]
    /\ made = 0
    /\ trampled = FALSE
    /\ moved = FALSE
    /\ missed = FALSE

Begin(j) ==
    \/ \E n \in 0..2 : Punch(j, n)
    \/ OpenEntry(j)
    \/ OpenRequest(j)

Proceed(j) ==
    \/ SavePunch(j)
    \/ SaveCorrection(j)
    \/ \E fin \in BOOLEAN : SaveComputed(j, fin)
    \/ Mark(j)
    \/ Decide(j)
    \/ SaveEdit(j)
    \/ ExecuteLoad(j)
    \/ ExecuteFails(j)
    \/ ExecuteSave(j)
    \/ \E r \in Requests : ChangeLoad(j, r)
    \/ ChangeWrite(j)
    \/ ExemptionLoad(j)
    \/ ExemptionWrite(j)

Refresh == RefreshRead \/ RefreshWrite

Next ==
    \/ \E j \in Jobs : Begin(j) \/ Proceed(j)
    \/ \E r \in Requests : Delete(r)
    \/ \E n \in 0..2 : PunchMissed(n)
    \/ Exempt
    \/ DayEnds
    \/ Refresh

Spec == Init /\ [][Next]_vars

\* Handlers that were started and tasks that were queued go on, and the refresh runs
\* every 30 seconds. Nobody need start anything.
FairSpec == Spec /\ (\A j \in Jobs : WF_vars(Proceed(j))) /\ WF_vars(Refresh)

-----------------------------------------------------------------------------
(* Properties                                                              *)

\* Types.
TypeOK ==
    /\ over \in BOOLEAN /\ punches \in 0..2 /\ exempted \in BOOLEAN
    /\ request \in [Requests -> RequestRecord]
    /\ entry \in EntryRecord
    /\ month \in MonthRecord
    /\ refresh \in RefreshRecord
    /\ changes \subseteq Requests
    /\ exemptionDue \in BOOLEAN
    /\ job \in [Jobs -> JobRecord]
    /\ made \in 0..MaxJobs
    /\ trampled \in BOOLEAN /\ moved \in BOOLEAN /\ missed \in BOOLEAN

AtRest == (\A j \in Jobs : IsIdle(j)) /\ changes = {} /\ ~exemptionDue

Fits(e) ==
    /\ e.times = IF e.corrected THEN Corrected ELSE e.in
    /\ e.status = "ABSENT" => e.days = IF e.reason = "PAID" THEN 2 ELSE 0
    /\ e.status = "SINGLE_PUNCH" => e.times = 1 /\ e.days = 1
    /\ e.status = "PRESENT" => e.times > 0 \/ e.hours > 0 \/ exempted
    /\ (e.status \in {"NONE", "ABSENT"} /\ e.reason = NoReason) => e.times = 0

\* What the columns of an entry say fits together, whoever wrote them last, so long as
\* no writer worked from an old copy: the times are the punches unless corrected, and
\* the status and the days follow from the times, the hours and the reason. Whether the
\* leave or the punches decide a day that has both is left open.
Coherent == ~trampled => Fits(entry)

\* When nothing is under way the entry shows the punches that there are, unless a
\* writer worked from an old copy or no handler took up the last of them.
PunchesCounted == AtRest /\ ~trampled /\ ~missed => entry.in = punches

\* A leave shows on the entry just when it is approved: a reason is that of an approved
\* request, and an approved leave of the whole day gives one, but for exempt employees
\* and days that also have a leave of half a day. Deleting a request, deciding two and
\* a recalculation that comes between the approval and its execution keep this; moving
\* an approved request to other days does not.
ReasonMatches ==
    AtRest /\ ~trampled /\ ~moved =>
        /\ entry.reason # NoReason =>
               \E r \in ActiveLeaves : ReasonOf(request[r].kind) = entry.reason
        /\ (ActiveLeaves # {} /\ HalfDays = 0 /\ ~exempted) => entry.reason # NoReason

Counts(days, paid) == days = Credit(entry) /\ paid = (entry.reason = "PAID")

MarkDue == \E j \in Jobs : ~IsIdle(j) /\ job[j].step = "WRITTEN"

\* The month's row counts the entry as it is once no mark is set or due, unless the last
\* refresh was marked between its read and its write: that mark is lost.
MonthReflects ==
    ~month.flag /\ ~MarkDue => month.torn \/ Counts(month.days, month.paid)

\* A correction, by HR or by a complaint, outlives every punch, task and request that
\* does not write from an older copy.
CorrectionStands == [][entry.corrected /\ ~trampled' => entry'.corrected]_vars

\* The month comes to count the entry for good, or its last refresh lost a mark.
MonthSettles ==
    <>[](month.torn \/ Counts(month.days, month.paid))

=============================================================================
