--------------------------- MODULE KpiAssessment ---------------------------
(***************************************************************************)
(* The KPI assessments of one period: the employee and the manager score   *)
(* the items of a row, HRM and the grade of the department set its final   *)
(* grade, the period is finalized once, and the grades reach payroll.      *)
(*                                                                         *)
(* Nothing is locked and no transaction spans a request, so every database *)
(* statement of a request, of the post_save handler within it and of a     *)
(* payroll task is a step of its own and others come between any two. A    *)
(* finalization is a transaction: its rows are locked when it writes them  *)
(* and others see them when it commits.                                    *)
(*                                                                         *)
(* Scores are reduced to whether they exist (employee) and to the grade    *)
(* they come to (manager). Fields of a request that are of no further use  *)
(* are reset.                                                              *)
(***************************************************************************)
EXTENDS Naturals

CONSTANTS
    Staff,          \* the department's employees but its leader
    Joiner,         \* one of them, who gets an assessment while the period runs
    Leader,         \* department.leader
    Grades,         \* the codes of the configuration
    DefaultGrade,   \* "C"
    Scored,         \* what managers' item scores come to: a grade, or NoGrade
    NoGrade,        \* the scores of no threshold, or of several without a default
    None,           \* a column that is NULL; nobody
    Forms,          \* requests that can be under way at once
    MaxForms,       \* bound on the requests made
    Workers         \* of the payroll tasks

Employees == Staff \cup {Leader}

GradeOrNone == Grades \cup {None}

ItemsRecord ==                  \* the EmployeeKPIItem rows of an assessment
    [made : BOOLEAN,                \* there are some
     self : BOOLEAN,                \* some employee_score is set
     mgr  : Scored \cup {None}]     \* what the manager_scores come to, None without any

RowRecord ==                    \* EmployeeKPIAssessment
    [self     : BOOLEAN,                \* total_employee_score is set
     mgr      : Scored \cup {None},     \* total_manager_score
     gm       : GradeOrNone,            \* grade_manager
     over     : GradeOrNone,            \* grade_manager_overridden
     hrm      : GradeOrNone,            \* grade_hrm
     assessed : BOOLEAN,                \* hrm_assessed
     final    : BOOLEAN,                \* finalized
     status   : {"NEW", "WAITING_MANAGER", "COMPLETED"}]

DeptRecord == [finished : BOOLEAN, final : BOOLEAN]     \* is_finished, finalized

FormRecord ==                   \* a request and the rows it holds in memory
    [kind  : {"IDLE", "SELF", "MANAGER", "ITEM", "HRM", "DEPARTMENT", "JOIN"},
     step  : {"LOADED", "WRITTEN", "JUDGED", "TOLD", "MARKED", "SAVED", "SCORED",
              "RELOADED", "READ"},
     last  : BOOLEAN,               \* in its last save of the row
     who   : Employees,
     row   : RowRecord,
     items : ItemsRecord,
     dept  : DeptRecord,
     seen  : SUBSET Employees,      \* who had no grade when the handler looked
     early : BOOLEAN]               \* history: the row was not final when it was loaded

SweepRecord ==                  \* a finalization under way
    [step : {"OFF", "LOADED", "LOCKED"},
     loaded : SUBSET Employees, defaulted : SUBSET Employees,
     seen : SUBSET Employees]       \* who has no grade after it

TaskRecord ==                   \* a worker, and the slip it recalculates
    [who : Employees \cup {None}, grade : GradeOrNone,
     old : BOOLEAN]                 \* history: another saved the slip meanwhile

VARIABLES
    row,        \* the assessment of each employee
    items,      \* ... and its item scores
    exists,     \* the employees who have one
    dept,       \* the DepartmentKPIAssessment
    closed,     \* period.finalized
    late,       \* the deadline for assessments has passed
    sweep,
    form,
    made,       \* how many requests were made
    slip,       \* the grade in the payroll slip of each employee
    pending,    \* how many recalculations of each slip are in the broker
    worker,
    touched,    \* history: rows written from old data, or left half done
    lagging,    \* history: slips whose grade changed without a recalculation that ran
    deptOld     \* history: the department was told what no longer held, or nothing

kpi == <<row, items, exists, dept>>
period == <<closed, late, sweep>>
payroll == <<slip, pending, worker>>
history == <<touched, lagging, deptOld>>

vars == <<kpi, period, form, made, payroll, history>>

ASSUME KpiAssumption ==
    /\ Joiner \in Staff /\ Leader \notin Staff
    /\ DefaultGrade \in Grades
    /\ None \notin Grades \cup {NoGrade} \cup Employees
    /\ NoGrade \notin Grades
    /\ Scored \subseteq Grades \cup {NoGrade}
    /\ MaxForms \in Nat

-----------------------------------------------------------------------------
\* grade_manager: the manager's choice, or calculate_grade_from_percent(), as soon
\* as the manager has scored an item.
GradeOf(over, mgr) ==
    IF mgr = None THEN None
    ELSE IF over # None THEN over
    ELSE IF mgr = NoGrade THEN None ELSE mgr

\* The status that the post_save handler derives from a row.
Derived(r) ==
    IF r.mgr # None \/ r.gm # None THEN "COMPLETED"
    ELSE IF r.self THEN "WAITING_MANAGER" ELSE "NEW"

Graded(r) == r.gm # None \/ r.hrm # None

\* The grade that a calculation of the payroll slip takes.
PayGrade(r) ==
    IF r.hrm # None THEN r.hrm ELSE IF r.gm # None THEN r.gm ELSE DefaultGrade

\* update_department_assessment_status() looks for them among given rows.
Ungraded(rows, present) == {e \in present : ~Graded(rows[e])}

Untouched(r) == ~r.self /\ r.mgr = None /\ r.gm = None /\ r.hrm = None

NoScores == [made |-> FALSE, self |-> FALSE, mgr |-> None]

NewRow ==
    [self |-> FALSE, mgr |-> None, gm |-> None, over |-> None, hrm |-> None,
     assessed |-> FALSE, final |-> FALSE, status |-> "NEW"]

NoDept == [finished |-> FALSE, final |-> FALSE]

Idle == [kind |-> "IDLE", step |-> "LOADED", last |-> FALSE, who |-> Leader,
         row |-> NewRow, items |-> NoScores, dept |-> NoDept, seen |-> {}, early |-> FALSE]

NoSweep == [step |-> "OFF", loaded |-> {}, defaulted |-> {}, seen |-> {}]

NoTask == [who |-> None, grade |-> None, old |-> FALSE]

\* The columns that the totals, the manager's grade and the status are about.
Assessed(r) == <<r.self, r.mgr, r.gm, r.over, r.status>>

\* A row that the finalization has written and not yet committed.
Locked(e) == sweep.step = "LOCKED" /\ e \in sweep.loaded

\* Between a save of the row and the call for a recalculation that follows it.
InHandler(f) == form[f].step \in {"WRITTEN", "JUDGED", "TOLD", "MARKED"}

\* Somewhere between a first write and the status of the last save.
HalfWay(f) ==
    /\ form[f].kind \in {"SELF", "MANAGER", "ITEM", "JOIN"}
    /\ form[f].step # "LOADED"
    /\ ~(form[f].last /\ form[f].step = "MARKED")

-----------------------------------------------------------------------------
(* Requests: loading                                                       *)

Load(f, kind, e) ==
    /\ form[f].kind = "IDLE" /\ made < MaxForms
    /\ made' = made + 1
    /\ form' = [form EXCEPT ![f] =
           [kind |-> kind, step |-> "LOADED", last |-> FALSE, who |-> e, row |-> row[e],
            items |-> IF kind = "ITEM" THEN items[e] ELSE NoScores,
            dept |-> IF kind = "DEPARTMENT" THEN dept ELSE NoDept,
            seen |-> {}, early |-> ~row[e].final]]
    /\ UNCHANGED <<kpi, period, payroll, history>>

\* PATCH mine/: neither finalized nor graded by the manager.
OpenSelf(f, e) ==
    e \in exists /\ ~row[e].final /\ row[e].gm = None /\ Load(f, "SELF", e)

\* PATCH mine/items/x/score/ checks only that the row is not finalized. The items
\* are prefetched with it.
OpenItem(f, e) == e \in exists /\ ~row[e].final /\ Load(f, "ITEM", e)

\* Mutant: the manager's form is not checked.
OpenManagerAnyTime(f, e) == e \in exists /\ Load(f, "MANAGER", e)

\* PATCH manager/.
OpenManager(f, e) == e \in exists /\ ~row[e].final /\ Load(f, "MANAGER", e)

\* PATCH employees/ by HRM, at any time.
OpenHrm(f, e) == e \in exists /\ Load(f, "HRM", e)

\* PATCH departments/, at any time.
OpenDepartment(f) == Load(f, "DEPARTMENT", Leader)

\* The handler of a saved employee finds the period open and no assessment.
OpenJoin(f) == ~closed /\ Joiner \notin exists /\ Load(f, "JOIN", Joiner)

-----------------------------------------------------------------------------
(* Requests: saving the row, and the post_save handler                     *)

\* A save of r as row of f's employee; f then holds held.
Save(f, r, held, last) ==
    LET e == form[f].who IN
    /\ ~Locked(e)
    /\ row' = [row EXCEPT ![e] = r]
    /\ form' = [form EXCEPT ![f].row = held, ![f].step = "WRITTEN", ![f].last = last]
    /\ UNCHANGED <<items, dept, period, made, payroll, lagging, deptOld>>

\* The whole row goes back as it was loaded but for what the request changes.
WriteBack(f, r) == Save(f, r, r, FALSE) /\ UNCHANGED <<exists, touched>>

\* serializer.save() of a self-assessment: plan, tasks and proposal.
WriteSelf(f) ==
    /\ form[f].kind = "SELF" /\ form[f].step = "LOADED"
    /\ WriteBack(f, form[f].row)

\* ... of a manager's assessment, whose grade is required. After the deadline it
\* is refused, unless HRM has assessed the row or its grade was changed meanwhile.
WriteManager(f) ==
    LET copy == form[f].row IN
    /\ form[f].kind = "MANAGER" /\ form[f].step = "LOADED"
    /\ late => copy.assessed \/ copy.hrm # row[form[f].who].hrm
    /\ \E g \in Grades : WriteBack(f, [copy EXCEPT !.over = g])

\* ... and of HRM's grade, which may be taken back, or of a note.
WriteHrm(f) ==
    LET e == form[f].who
        copy == form[f].row IN
    /\ form[f].kind = "HRM" /\ form[f].step = "LOADED"
    /\ \/ \E g \in GradeOrNone :
             LET r == [copy EXCEPT !.hrm = g, !.assessed = TRUE] IN Save(f, r, r, TRUE)
       \/ Save(f, copy, copy, TRUE)
    /\ touched' = IF Assessed(copy) # Assessed(row[e]) THEN touched \cup {e} ELSE touched
    /\ UNCHANGED exists

\* The assessment of a new employee; there is at most one.
Create(f) ==
    /\ form[f].kind = "JOIN" /\ form[f].step = "LOADED"
    /\ Joiner \notin exists
    /\ exists' = exists \cup {Joiner}
    /\ Save(f, NewRow, NewRow, FALSE)
    /\ UNCHANGED touched

\* The handler reads the department and all its assessments ...
Judge(f) ==
    /\ form[f].step = "WRITTEN"
    /\ form' = [form EXCEPT ![f].step = "JUDGED",
                            ![f].seen = Ungraded(row, exists)]
    /\ UNCHANGED <<kpi, period, made, payroll, history>>

\* ... writes what it made of them ...
Tell(f) ==
    /\ form[f].step = "JUDGED" /\ sweep.step # "LOCKED"
    /\ dept' = [dept EXCEPT !.finished = form[f].seen = {}]
    /\ deptOld' = (form[f].seen # Ungraded(row, exists))
    /\ form' = [form EXCEPT ![f].step = "TOLD", ![f].seen = {}]
    /\ UNCHANGED <<row, items, exists, period, made, payroll, touched, lagging>>

\* ... writes the status, if the saved object should have another ...
Mark(f) ==
    LET e == form[f].who
        held == form[f].row
        agree == /\ Assessed(held) = Assessed(row[e])
                 /\ form[f].kind # "HRM" => form[f].items = items[e] IN
    /\ form[f].step = "TOLD"
    /\ \/ held.status = Derived(held) /\ UNCHANGED row
       \/ /\ held.status # Derived(held) /\ ~Locked(e)
          /\ row' = [row EXCEPT ![e].status = Derived(held)]
    /\ touched' = IF ~form[f].last THEN touched
                  ELSE IF ~agree THEN touched \cup {e}
                  ELSE IF form[f].kind = "HRM" THEN touched
                  ELSE touched \ {e}
    /\ form' = [form EXCEPT ![f].step = "MARKED"]
    /\ UNCHANGED <<items, exists, dept, period, made, payroll, lagging, deptOld>>

\* Where f is after a save.
AfterSave(f) ==
    IF form[f].last THEN Idle ELSE [form[f] EXCEPT !.step = "SAVED", !.row = NewRow]

\* Mutant: the handler queues no recalculation.
CallNobody(f) ==
    /\ form[f].step = "MARKED"
    /\ form' = [form EXCEPT ![f] = AfterSave(f)]
    /\ UNCHANGED <<kpi, period, made, payroll, history>>

\* ... and calls for a recalculation of the slip.
Call(f) ==
    /\ form[f].step = "MARKED"
    /\ pending' = [pending EXCEPT ![form[f].who] = @ + 1]
    /\ form' = [form EXCEPT ![f] = AfterSave(f)]
    /\ UNCHANGED <<kpi, period, made, slip, worker, history>>

-----------------------------------------------------------------------------
(* Requests: item scores                                                   *)

\* One item of update_items(), whose list may be empty and may go on after it, or
\* the item of update_item_score(). Items that are not there are passed over.
ScoreItems(f) ==
    LET e == form[f].who IN
    /\ \/ /\ form[f].kind \in {"SELF", "MANAGER"} /\ form[f].step = "SAVED"
          /\ UNCHANGED form \/ form' = [form EXCEPT ![f].step = "SCORED"]
       \/ /\ form[f].kind = "ITEM" /\ form[f].step = "LOADED" /\ items[e].made
          /\ form' = [form EXCEPT ![f].step = "READ"]
    /\ \/ form[f].kind # "ITEM" /\ UNCHANGED items
       \/ /\ form[f].kind \in {"SELF", "ITEM"} /\ items[e].made
          /\ items' = [items EXCEPT ![e].self = TRUE]
       \/ /\ form[f].kind = "MANAGER" /\ items[e].made
          /\ \E s \in Scored : items' = [items EXCEPT ![e].mgr = s]
    /\ UNCHANGED <<row, exists, dept, period, made, payroll, history>>

\* create_assessment_items_from_criteria(): the items of the new assessment, which
\* stays in memory.
CreateItems(f) ==
    /\ form[f].kind = "JOIN" /\ form[f].step = "SAVED"
    /\ items' = [items EXCEPT ![form[f].who].made = TRUE]
    /\ form' = [form EXCEPT ![f].step = "RELOADED"]
    /\ UNCHANGED <<row, exists, dept, period, made, payroll, history>>

\* refresh_from_db() of a batch.
Reload(f) ==
    /\ form[f].kind \in {"SELF", "MANAGER"} /\ form[f].step = "SCORED"
    /\ form' = [form EXCEPT ![f].step = "RELOADED", ![f].row = row[form[f].who]]
    /\ UNCHANGED <<kpi, period, made, payroll, history>>

\* recalculate_assessment_scores() reads the items, unless they were prefetched ...
ReadItems(f) ==
    /\ form[f].step = "RELOADED"
    /\ form' = [form EXCEPT ![f].step = "READ", ![f].items = items[form[f].who]]
    /\ UNCHANGED <<kpi, period, made, payroll, history>>

\* Mutant: the grade is computed only as long as there is none.
RecalculatedOnce(r, i) ==
    [r EXCEPT !.self = i.self, !.mgr = i.mgr,
              !.gm = IF i.mgr # None /\ r.gm = None THEN GradeOf(r.over, i.mgr) ELSE @]

\* ... computes totals and grade in the row that f holds ...
Recalculated(r, i) ==
    [r EXCEPT !.self = i.self, !.mgr = i.mgr,
              !.gm = IF i.mgr # None THEN GradeOf(r.over, i.mgr) ELSE @]

\* ... and saves these columns.
WriteScores(f) ==
    LET e == form[f].who
        new == Recalculated(form[f].row, form[f].items) IN
    /\ form[f].step = "READ"
    /\ Save(f, [row[e] EXCEPT !.self = new.self, !.mgr = new.mgr, !.gm = new.gm], new, TRUE)
    /\ UNCHANGED <<exists, touched>>

\* DepartmentKPIAssessmentUpdateSerializer.update(): the department's row goes back
\* as it was loaded ...
SaveDepartment(f) ==
    /\ form[f].kind = "DEPARTMENT" /\ form[f].step = "LOADED" /\ sweep.step # "LOCKED"
    /\ dept' = form[f].dept
    /\ deptOld' = (deptOld \/ form[f].dept.finished # dept.finished)
    /\ \/ form' = [form EXCEPT ![f] = Idle]
       \/ form' = [form EXCEPT ![f].step = "SAVED", ![f].dept = NoDept]
    /\ UNCHANGED <<row, items, exists, period, made, payroll, touched, lagging>>

\* ... and a query, which sends no signal, gives the leader the grade that was sent.
GradeLeader(f) ==
    /\ form[f].kind = "DEPARTMENT" /\ form[f].step = "SAVED" /\ ~Locked(Leader)
    /\ \E g \in Grades : row' = [row EXCEPT ![Leader].hrm = g]
    /\ lagging' = IF PayGrade(row'[Leader]) = PayGrade(row[Leader]) THEN lagging
                  ELSE lagging \cup {Leader}
    /\ deptOld' = (deptOld \/ Ungraded(row', exists) # Ungraded(row, exists))
    /\ form' = [form EXCEPT ![f] = Idle]
    /\ UNCHANGED <<items, exists, dept, period, made, payroll, touched>>

\* A request is refused after it was loaded, or the process dies.
GiveUp(f) ==
    LET e == form[f].who IN
    /\ form[f].kind # "IDLE"
    /\ touched' = IF HalfWay(f) THEN touched \cup {e} ELSE touched
    /\ lagging' = IF InHandler(f) THEN lagging \cup {e} ELSE lagging
    /\ deptOld' = (deptOld \/ form[f].step \in {"WRITTEN", "JUDGED"})
    /\ form' = [form EXCEPT ![f] = Idle]
    /\ UNCHANGED <<kpi, period, made, payroll>>

-----------------------------------------------------------------------------
(* The period                                                              *)

DeadlinePasses ==
    /\ ~late /\ late' = TRUE
    /\ UNCHANGED <<kpi, closed, sweep, form, made, payroll, history>>

\* Mutant: employees without an assessment are taken for ungraded.
FinalizeEverybody ==
    /\ ~closed /\ sweep.step = "OFF"
    /\ sweep' = [step |-> "LOADED", loaded |-> Employees,
                 defaulted |-> {e \in Employees : Untouched(row[e])}, seen |-> {}]
    /\ UNCHANGED <<kpi, closed, late, form, made, payroll, history>>

\* finalize(), or the task of the day after the deadline: the rows are loaded and
\* the default grade is chosen for those that nobody assessed ...
FinalizeLoad ==
    /\ ~closed /\ sweep.step = "OFF"
    /\ sweep' = [step |-> "LOADED", loaded |-> exists,
                 defaulted |-> {e \in exists : Untouched(row[e])}, seen |-> {}]
    /\ UNCHANGED <<kpi, closed, late, form, made, payroll, history>>

\* The rows as two bulk updates of one column each leave them.
Finalized ==
    [e \in Employees |->
        [row[e] EXCEPT !.hrm = IF e \in sweep.defaulted THEN DefaultGrade ELSE @,
                       !.final = @ \/ e \in sweep.loaded]]

\* ... the bulk updates, which send no signal, and the department after them ...
FinalizeRows ==
    /\ sweep.step = "LOADED"
    /\ sweep' = [sweep EXCEPT !.step = "LOCKED", !.seen = Ungraded(Finalized, exists)]
    /\ UNCHANGED <<kpi, closed, late, form, made, payroll, history>>

\* Mutant: the departments are only marked as final.
FinalizeRowsOnly ==
    /\ sweep.step = "LOCKED"
    /\ row' = Finalized
    /\ dept' = [finished |-> dept.finished, final |-> TRUE]
    /\ closed' = TRUE
    /\ sweep' = NoSweep
    /\ lagging' = lagging \cup
           {e \in sweep.defaulted : PayGrade(row'[e]) # PayGrade(row[e])}
    /\ deptOld' = (sweep.seen # Ungraded(row', exists))
    /\ UNCHANGED <<items, exists, late, form, made, payroll, touched>>

\* ... and the commit.
FinalizeCommit ==
    /\ sweep.step = "LOCKED"
    /\ row' = Finalized
    /\ dept' = [finished |-> sweep.seen = {}, final |-> TRUE]
    /\ closed' = TRUE
    /\ sweep' = NoSweep
    /\ lagging' = lagging \cup
           {e \in sweep.defaulted : PayGrade(row'[e]) # PayGrade(row[e])}
    /\ deptOld' = (sweep.seen # Ungraded(row', exists))
    /\ UNCHANGED <<items, exists, late, form, made, payroll, touched>>

\* An exception rolls it back.
FinalizeFails ==
    /\ sweep.step # "OFF" /\ sweep' = NoSweep
    /\ UNCHANGED <<kpi, closed, late, form, made, payroll, history>>

-----------------------------------------------------------------------------
(* Payroll                                                                 *)

Taken(e) == pending[e] > 0 /\ pending' = [pending EXCEPT ![e] = @ - 1]

\* recalculate_payroll_slip_task() does nothing in a COMPLETED month, calculate()
\* nothing to a DELIVERED slip. Either may be so at any time (PayrollLifecycle has
\* when), and a task may be lost in the broker.
Refuse(e) ==
    /\ Taken(e)
    /\ lagging' = lagging \cup {e}
    /\ UNCHANGED <<kpi, period, form, made, slip, worker, touched, deptOld>>

\* Otherwise a worker loads the slip ...
Take(w, e) ==
    /\ worker[w].who = None
    /\ Taken(e)
    /\ worker' = [worker EXCEPT ![w].who = e]
    /\ UNCHANGED <<kpi, period, form, made, slip, history>>

\* ... reads the grade ...
ReadGrade(w) ==
    /\ worker[w].who # None /\ worker[w].grade = None
    /\ worker' = [worker EXCEPT ![w].grade = PayGrade(row[worker[w].who])]
    /\ UNCHANGED <<kpi, period, form, made, slip, pending, history>>

\* ... and saves the slip.
SaveSlip(w) ==
    LET e == worker[w].who
        g == worker[w].grade IN
    /\ g # None
    /\ slip' = [slip EXCEPT ![e] = g]
    /\ worker' = [v \in Workers |->
                    IF v = w THEN NoTask
                    ELSE IF worker[v].who = e /\ worker[v].grade # None
                         THEN [worker[v] EXCEPT !.old = TRUE] ELSE worker[v]]
    /\ lagging' = IF g = PayGrade(row[e]) THEN lagging \ {e}
                  ELSE IF worker[w].old THEN lagging \cup {e} ELSE lagging
    /\ UNCHANGED <<kpi, period, form, made, pending, touched, deptOld>>

\* A calculation raises, or its worker dies.
LoseTask(w) ==
    /\ worker[w].who # None
    /\ lagging' = lagging \cup {worker[w].who}
    /\ worker' = [worker EXCEPT ![w] = NoTask]
    /\ UNCHANGED <<kpi, period, form, made, slip, pending, touched, deptOld>>

-----------------------------------------------------------------------------
\* The period as it is generated: a row for each employee, the leader's graded and
\* finalized with the department's. Everybody has a payroll slip.
Init ==
    /\ row = [e \in Employees |->
                IF e = Leader THEN [NewRow EXCEPT !.hrm = DefaultGrade, !.final = TRUE]
                ELSE NewRow]
    /\ exists = Employees \ {Joiner}
    /\ items = [e \in Employees |->
                  IF e = Joiner THEN NoScores ELSE [NoScores EXCEPT !.made = TRUE]]
    /\ dept = [finished |-> exists = {Leader}, final |-> FALSE]
    /\ closed = FALSE /\ late = FALSE /\ sweep = NoSweep
    /\ form = [f \in Forms |-> Idle] /\ made = 0
    /\ slip = [e \in Employees |-> DefaultGrade]
    /\ pending = [e \in Employees |-> 0]
    /\ worker = [w \in Workers |-> NoTask]
    /\ touched = {} /\ lagging = {} /\ deptOld = FALSE

Open(f) ==
    \/ \E e \in Employees : \/ OpenSelf(f, e) \/ OpenItem(f, e)
                            \/ OpenManager(f, e) \/ OpenHrm(f, e)
    \/ OpenDepartment(f) \/ OpenJoin(f)

Request(f) ==
    \/ WriteSelf(f) \/ WriteManager(f) \/ WriteHrm(f) \/ Create(f)
    \/ Judge(f) \/ Tell(f) \/ Mark(f) \/ Call(f)
    \/ ScoreItems(f) \/ CreateItems(f) \/ Reload(f) \/ ReadItems(f) \/ WriteScores(f)
    \/ SaveDepartment(f) \/ GradeLeader(f)
    \/ GiveUp(f)

Period == DeadlinePasses \/ FinalizeLoad \/ FinalizeRows \/ FinalizeCommit \/ FinalizeFails

Payroll ==
    \/ \E e \in Employees : Refuse(e) \/ \E w \in Workers : Take(w, e)
    \/ \E w \in Workers : ReadGrade(w) \/ SaveSlip(w) \/ LoseTask(w)

Next == (\E f \in Forms : Open(f) \/ Request(f)) \/ Period \/ Payroll

Spec == Init /\ [][Next]_vars

-----------------------------------------------------------------------------
(* Properties                                                              *)

\* The variables have the values they are declared with, and what a finalization
\* or a request under way works on exists.
TypeOK ==
    /\ row \in [Employees -> RowRecord]
    /\ items \in [Employees -> ItemsRecord]
    /\ exists \subseteq Employees /\ Leader \in exists
    /\ dept \in DeptRecord
    /\ closed \in BOOLEAN /\ late \in BOOLEAN
    /\ sweep \in SweepRecord /\ sweep.loaded \subseteq exists
    /\ sweep.defaulted \subseteq sweep.loaded
    /\ form \in [Forms -> FormRecord]
    /\ \A f \in Forms :
          form[f].who \in exists \/ (form[f].kind = "JOIN" /\ form[f].step = "LOADED")
    /\ made \in 0 .. MaxForms
    /\ slip \in [Employees -> Grades]
    /\ pending \in [Employees -> Nat]
    /\ worker \in [Workers -> TaskRecord]
    /\ touched \subseteq exists /\ lagging \subseteq Employees
    /\ deptOld \in BOOLEAN

\* What was judged of an employee.
Judged(r) == <<r.self, r.mgr, r.gm, r.over, r.final>>

\* Nobody scores or regrades a finalized assessment, nor opens it again, except
\* for requests that loaded the row before it was finalized and for HRM's requests
\* that write back an old copy.
FinalKept ==
    [][\A e \in Employees :
          row[e].final /\ Judged(row'[e]) # Judged(row[e]) =>
             \E f \in Forms :
                /\ form[f].who = e /\ form'[f] # form[f]
                /\ \/ form[f].early
                   \/ (form[f].kind = "HRM" /\ form[f].row # row[e])]_vars

\* While no request that scores is half way, the totals, the manager's grade and the
\* status of a row are those its items and the manager's choice give, unless the
\* last to write it had read what others changed meanwhile, a request died half way
\* or the score of one item was changed.
Coherent ==
    \A e \in exists \ touched :
        (\A f \in Forms : form[f].who = e => ~HalfWay(f)) =>
            /\ row[e].self = items[e].self /\ row[e].mgr = items[e].mgr
            /\ row[e].gm = GradeOf(row[e].over, items[e].mgr)
            /\ row[e].status = Derived(row[e])

\* A task, or a request about to call for one, will bring the grade that counts.
Coming(e) ==
    \/ pending[e] > 0
    \/ \E f \in Forms : form[f].who = e /\ InHandler(f)
    \/ \E w \in Workers : worker[w].who = e /\ worker[w].grade \in {None, PayGrade(row[e])}

\* The payroll slip has the grade that counts or will have it, unless a query set
\* the grade, a call or its task was lost, payroll was closed for the slip when it
\* ran, or two tasks overlapped and the older was saved last.
SlipFollows ==
    \A e \in Employees : slip[e] = PayGrade(row[e]) \/ Coming(e) \/ e \in lagging

\* The department is finished exactly when all its employees have a grade, unless a
\* handler has yet to tell it, or the last to write it wrote an older verdict or
\* changed a grade without telling it.
DeptFollows ==
    \/ dept.finished = (Ungraded(row, exists) = {})
    \/ deptOld
    \/ \E f \in Forms : form[f].step \in {"WRITTEN", "JUDGED"}

=============================================================================
