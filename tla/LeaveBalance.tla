---------------------------- MODULE LeaveBalance ----------------------------
(***************************************************************************)
(* The paid leave of one employee, month by month: a preparation fills in  *)
(* the row of the current month from the rows before it, and a refresh     *)
(* counts the days of leave in a month's timesheet.  Both load the row and *)
(* later save all its columns, and neither locks it.                       *)
(*                                                                         *)
(* The timesheet is not here (Timesheet is about one of its days): a row   *)
(* may be marked for a refresh at any time, and have any days of leave.    *)
(*                                                                         *)
(* Months are numbered on: 12 is December, 13 the January after it.  A row *)
(* that does not exist reads, and is created, as one of zeros, so no       *)
(* column says which rows exist.                                           *)
(***************************************************************************)
EXTENDS Integers

CONSTANTS
    First, Last,    \* the months: the row of First is filled in already
    Opening,        \* what First opened with
    Generated,      \* a month's leave under a contract, annual_leave_days / 12
    Uncovered,      \* the months that may turn out to have no such contract
    DaysTaken,      \* the days of paid leave that a month may turn out to have
    MaxRefreshes,   \* bound on the refreshes
    Jobs            \* tasks that can be under way at once

(* The year turns at most once, and its leave is followed into it from     *)
(* months in which nothing carried over is left.                           *)
ASSUME BoundsAssumption ==
    /\ First \in 5 .. 12 /\ Last \in First .. 23
    /\ Uncovered \subseteq First .. Last
    /\ Opening \in Nat /\ Generated \in Nat /\ DaysTaken \subseteq Nat /\ MaxRefreshes \in Nat

Months == First .. Last

MonthOf(m) == IF m > 12 THEN m - 12 ELSE m      \* report_date.month

RowRecord ==                    \* EmployeeMonthlyTimesheet
    [carried   : Int,               \* carried_over_leave
     opening   : Int,               \* opening_balance_leave_days
     generated : {0, Generated},    \* generated_leave_days
     consumed  : Nat,               \* consumed_leave_days
     remaining : Int]               \* remaining_leave_days

JobRecord ==                    \* a task that handles this employee's row
    [step  : {"IDLE", "LOADED", "COMPUTED",     \* a preparation
              "REFRESHED"},                     \* a refresh
     month : Months,
     row   : RowRecord,     \* the row it loaded, with its changes
     old   : BOOLEAN]       \* history: what it computed from has changed

VARIABLES
    now,        \* the current month
    refreshes,  \* how many refreshes there were
    row,        \* row[m]: the row of month m
    job,        \* job[j]: the task j runs
    behind      \* history: the months whose row was never filled in, or from
                \* rows that have changed since

vars == <<now, refreshes, row, job, behind>>

Zeros == [carried |-> 0, opening |-> 0, generated |-> 0, consumed |-> 0, remaining |-> 0]

Idle == [step |-> "IDLE", month |-> First, row |-> Zeros, old |-> FALSE]

AtLeastZero(n) == IF n > 0 THEN n ELSE 0

-----------------------------------------------------------------------------
(* Preparing the row of a month.                                           *)

(* The row of an earlier month, .first(), with its default; the month      *)
(* before First stays as it was.                                           *)
RowOf(m) == IF m \in Months THEN row[m] ELSE [Zeros EXCEPT !.remaining = Opening]

Balance(r) == r.carried + r.opening + r.generated - r.consumed

(* Mutant: only the days of March count against what was carried over.     *)
UnusedCarriedOfMarch(m) == AtLeastZero(RowOf(m - 3).carried - RowOf(m - 1).consumed)

(* What was carried over into January and not taken by the end of March;   *)
(* leave that was carried over is taken first.                             *)
UnusedCarried(m) ==
    AtLeastZero(RowOf(m - 3).carried
                - (RowOf(m - 3).consumed + RowOf(m - 2).consumed + RowOf(m - 1).consumed))

(* Mutant: the column is kept until the leave expires.                     *)
CarriedOn(m) == IF MonthOf(m) \in {1, 2, 3} THEN RowOf(m - 1).remaining ELSE 0

CarriedInto(m) == IF MonthOf(m) = 1 THEN RowOf(m - 1).remaining ELSE 0

(* Mutant: January keeps the opening figure of other months.               *)
OpeningKeptInJanuary(m) ==
    IF MonthOf(m) = 4 THEN AtLeastZero(RowOf(m - 1).remaining - UnusedCarried(m))
    ELSE RowOf(m - 1).remaining

OpeningOf(m) ==
    IF MonthOf(m) = 1 THEN 0
    ELSE IF MonthOf(m) = 4 THEN AtLeastZero(RowOf(m - 1).remaining - UnusedCarried(m))
    ELSE RowOf(m - 1).remaining

FilledIn(r, m, g) ==
    LET filled == [r EXCEPT !.carried = CarriedInto(m), !.opening = OpeningOf(m), !.generated = g]
    IN  [filled EXCEPT !.remaining = Balance(filled)]

Counted(r, n) ==
    LET counted == [r EXCEPT !.consumed = n]
    IN  [counted EXCEPT !.remaining = AtLeastZero(Balance(counted))]

-----------------------------------------------------------------------------
(* Saving a row.  The figures that later months are filled in from may     *)
(* change with it: those of the next month, and those of an April from     *)
(* January on.                                                             *)

FilledFrom(m) == {n \in Months : n = m + 1 \/ (MonthOf(n) = 4 /\ n - 3 <= m /\ m < n)}

Outdated(m, r) ==
    IF <<r.carried, r.consumed, r.remaining>> = <<row[m].carried, row[m].consumed, row[m].remaining>>
    THEN {} ELSE FilledFrom(m)

Save(j) ==
    LET m == job[j].month IN
    /\ row' = [row EXCEPT ![m] = job[j].row]
    /\ job' = [k \in Jobs |->
         IF k = j THEN Idle
         ELSE [job[k] EXCEPT !.old = @ \/ (job[k].step = "COMPUTED"
                                           /\ job[k].month \in Outdated(m, job[j].row))]]

-----------------------------------------------------------------------------

(* The beat of the month's first day, or the hiring of anybody: the task   *)
(* is queued for that employee and runs for all.  get_or_create reads the  *)
(* row.                                                                    *)
PrepareLoad(j) ==
    /\ job[j].step = "IDLE"
    /\ job' = [job EXCEPT ![j] = [step |-> "LOADED", month |-> now, row |-> row[now], old |-> FALSE]]
    /\ UNCHANGED <<now, refreshes, row, behind>>

(* The contract and the rows before it are read. In April these are three  *)
(* queries, one step here: a save between two of them is a change of what  *)
(* the row was filled in from, as one after all of them is (`behind`).     *)
PrepareCompute(j) ==
    /\ job[j].step = "LOADED"
    /\ \E g \in {0, Generated} :
         /\ g = 0 => job[j].month \in Uncovered
         /\ job' = [job EXCEPT ![j].step = "COMPUTED",
                               ![j].row = FilledIn(job[j].row, job[j].month, g)]
    /\ UNCHANGED <<now, refreshes, row, behind>>

PrepareSave(j) ==
    /\ job[j].step = "COMPUTED"
    /\ Save(j)
    /\ behind' = LET others == behind \cup Outdated(job[j].month, job[j].row) IN
                 IF job[j].old THEN others \cup {job[j].month} ELSE others \ {job[j].month}
    /\ UNCHANGED <<now, refreshes>>

(* The beat of every 30 seconds finds the row marked, counts the days of   *)
(* leave, reads the row and changes the copy.                              *)
RefreshLoad(j, m) ==
    /\ job[j].step = "IDLE"
    /\ m <= now /\ refreshes < MaxRefreshes
    /\ \E n \in DaysTaken :
         job' = [job EXCEPT ![j] = [step |-> "REFRESHED", month |-> m, row |-> Counted(row[m], n),
                                    old |-> FALSE]]
    /\ refreshes' = refreshes + 1
    /\ UNCHANGED <<now, row, behind>>

(* A copy from before a preparation brings back what the row opened with.  *)
RefreshSave(j) ==
    LET m == job[j].month
        r == job[j].row
        undone == \/ r.carried # row[m].carried \/ r.opening # row[m].opening
                  \/ r.generated # row[m].generated
    IN
    /\ job[j].step = "REFRESHED"
    /\ Save(j)
    /\ behind' = behind \cup Outdated(m, r) \cup (IF undone THEN {m} ELSE {})
    /\ UNCHANGED <<now, refreshes>>

(* A worker that is restarted leaves its task where it stands.             *)
Stop(j) ==
    /\ job[j].step # "IDLE"
    /\ job' = [job EXCEPT ![j] = Idle]
    /\ UNCHANGED <<now, refreshes, row, behind>>

(* Nothing waits for a month to have been prepared.                        *)
TurnMonth ==
    /\ now < Last /\ now' = now + 1
    /\ UNCHANGED <<refreshes, row, job, behind>>

Init ==
    /\ now = First
    /\ refreshes = 0
    /\ row = [m \in Months |->
                IF m = First THEN [carried |-> 0, opening |-> Opening, generated |-> Generated,
                                   consumed |-> 0, remaining |-> Opening + Generated]
                ELSE Zeros]
    /\ job = [j \in Jobs |-> Idle]
    /\ behind = Months \ {First}

Next ==
    \/ TurnMonth
    \/ \E j \in Jobs :
         \/ PrepareLoad(j) \/ PrepareCompute(j) \/ PrepareSave(j)
         \/ \E m \in Months : RefreshLoad(j, m)
         \/ RefreshSave(j) \/ Stop(j)

Spec == Init /\ [][Next]_vars

-----------------------------------------------------------------------------
(* Properties.                                                             *)

(* Only a row of January carries leave over, as the column's help text     *)
(* asks (monthly_timesheet.py), whatever is saved over what.               *)
TypeOK ==
    /\ now \in Months
    /\ refreshes \in 0 .. MaxRefreshes
    /\ row \in [Months -> RowRecord]
    /\ \A m \in Months : MonthOf(m) # 1 => row[m].carried = 0
    /\ job \in [Jobs -> JobRecord]
    /\ \A j \in Jobs : job[j].step = "IDLE" => job[j] = Idle
    /\ behind \subseteq Months

Entitled(m) == Opening + Generated * (m - First + 1)

(* No order of saves makes leave out of nothing: what a row has left and   *)
(* what it charges come to no more than the employee has earned by then.   *)
(* Carrying leave into January must move it and April must not bring it    *)
(* back, although preparations and refreshes of rows that depend on each   *)
(* other save old copies (create_monthly_timesheet_for_employee,           *)
(* refresh_for_employee_month).                                            *)
WithinEntitlement ==
    \A m \in Months :
        row[m].remaining > 0 => row[m].remaining + row[m].consumed <= Entitled(m)

(* The reference: two pots.  A day is taken from the leave carried over,   *)
(* while there is any, and then from the leave of the year; a day beyond   *)
(* both is not remembered.                                                 *)
Take(pots, days) ==
    [carried |-> AtLeastZero(pots.carried - days),
     earned  |-> AtLeastZero(pots.earned - AtLeastZero(days - pots.carried))]

Earn(pots, days) == [pots EXCEPT !.earned = @ + days]

YearTurns(pots, m) ==
    IF MonthOf(m) = 1 THEN [carried |-> pots.carried + pots.earned, earned |-> 0]
    ELSE IF MonthOf(m) = 4 THEN [pots EXCEPT !.carried = 0]
    ELSE pots

Pots ==
    LET p[m \in Months] ==
          LET before == IF m = First THEN [carried |-> 0, earned |-> row[First].opening]
                        ELSE YearTurns(p[m - 1], m)
          IN  Take(Earn(before, row[m].generated), row[m].consumed)
    IN  p

(* "FIFO rule": the rows know one opening figure and no pots, and April    *)
(* works out from January's row and three months' days what expires.  If   *)
(* the months up to m were filled in from rows that have not changed since *)
(* and none is overdrawn, m has left what the two pots have left.          *)
FifoRule ==
    \A m \in Months :
        (\A k \in First .. m : k \notin behind /\ row[k].remaining >= 0) =>
            row[m].remaining = Pots[m].carried + Pots[m].earned

=============================================================================
