----------------------------- MODULE Employment -----------------------------
(***************************************************************************)
(* One employee of apps/hrm and the contracts of that employee: the        *)
(* actions that change the status of either, the signal handler that ends  *)
(* contracts on exit, and the three tasks that Celery beat starts at       *)
(* midnight.                                                               *)
(*                                                                         *)
(* Handlers run in transactions of their own; check_contract_status reads  *)
(* all contracts, then writes them with one bulk_update, and requests may  *)
(* fall in between.                                                        *)
(***************************************************************************)
EXTENDS Naturals, FiniteSets

CONSTANTS
    MaxContract,    \* bound on contracts: their ids are 1..MaxContract
    LastDay,        \* bound on the days modelled: 1..LastDay
    LeaveDays,      \* bound on the days leaves start and end on
    Notice,         \* days before its end when a contract is about to expire: 30
    NoContract,     \* no row with this id
    NoPlan,         \* no check of contracts is under way
    NoImport        \* no import of contracts is under way

Contracts == 1 .. MaxContract
Days      == 1 .. LastDay
Null      == 0                         \* no resignation_start_date or _end_date
Never     == LastDay + Notice + 1      \* expiration_date IS NULL

Working == {"ONBOARDING", "ACTIVE"}
Leave   == {"RESIGNED", "MATERNITY_LEAVE", "UNPAID_LEAVE"}
EmployeeRecord ==
    [status : Working \cup Leave,
     from   : Days \cup {Null},        \* resignation_start_date
     until  : Days \cup {Null},        \* resignation_end_date
     unpaid : BOOLEAN]                 \* employee_type is UNPAID_OFFICIAL

ContractStatus == {"DRAFT", "NOT_EFFECTIVE", "ACTIVE", "ABOUT_TO_EXPIRE", "EXPIRED"}
ContractRecord ==
    [status    : ContractStatus,
     effective : Days,
     expires   : Days \cup {Never},
     parent    : Contracts \cup {Null}]     \* of an appendix, Null for a contract

Tasks == {"returns", "leaves", "contracts"}

VARIABLES
    today,      \* the date
    employee,   \* the Employee row
    contract,   \* [Contracts -> the Contract row or NoContract]
    due,        \* the nightly tasks not run yet today
    plan,       \* what check_contract_status read and decided, or NoPlan
    import,     \* what an import of contracts holds of the employee, or NoImport
    checked,    \* history: the check of today has written its decisions
    raced,      \* history: since the last undisturbed check, one overlapped a
                \* publication, an import or an exit
    revived     \* history: since the last save of the employee or undisturbed
                \* check, an import wrote that did not know of the exit

vars == <<today, employee, contract, due, plan, import, checked, raced, revived>>
history == <<checked, raced, revived>>

Keep == "KEEP"
Plans == [status : [Contracts -> ContractStatus \cup {Keep}], disturbed : BOOLEAN]

ASSUME EmploymentAssumption ==
    /\ MaxContract \in Nat
    /\ LastDay \in Nat \ {0}
    /\ LeaveDays \subseteq Days
    /\ Notice \in Nat
    /\ NoContract \notin ContractRecord
    /\ NoPlan \notin Plans
    /\ NoImport \notin EmployeeRecord

-----------------------------------------------------------------------------
(* The rows                                                                *)

Out(e) == e.status = "RESIGNED" \/ e.unpaid
Exists(c) == contract[c] # NoContract
InForce(r) == r.status \in {"ACTIVE", "ABOUT_TO_EXPIRE"}

\* Employee.clean(): a working employee has no resignation dates ...
Cleaned(e) == IF e.status \in Working THEN [e EXCEPT !.from = Null, !.until = Null] ELSE e

\* ... and one on leave has the dates the status needs.
Valid(e) == /\ e.status \in Leave => e.from # Null
            /\ e.status = "MATERNITY_LEAVE" => e.until # Null

\* Mutant: the days left are looked at before the end.
StatusFromDaysLeft(e, effective, expires) ==
    IF Out(e) THEN "EXPIRED"
    ELSE IF effective > today THEN "NOT_EFFECTIVE"
    ELSE IF expires <= today + Notice THEN "ABOUT_TO_EXPIRE"
    ELSE "ACTIVE"

\* Contract.get_status_from_dates()
StatusFromDates(e, effective, expires) ==
    IF Out(e) THEN "EXPIRED"
    ELSE IF effective > today THEN "NOT_EFFECTIVE"
    ELSE IF expires = Never THEN "ACTIVE"
    ELSE IF expires < today THEN "EXPIRED"
    ELSE IF expires - today <= Notice THEN "ABOUT_TO_EXPIRE"
    ELSE "ACTIVE"

\* expire_contracts_on_employee_exit(): every contract is expired, and an ACTIVE
\* one ends on the resignation date of the saved object.
Expired(r, date) ==
    [r EXCEPT !.status = "EXPIRED",
              !.expires = IF r.status # "ACTIVE" THEN @ ELSE IF date = Null THEN Never ELSE date]

\* Mutant: the handler looks at the status only.
AfterSaveResigned(e, rows) ==
    [c \in Contracts |->
        IF rows[c] # NoContract /\ e.status = "RESIGNED"
          THEN Expired(rows[c], e.from) ELSE rows[c]]

AfterSave(e, rows) ==
    [c \in Contracts |->
        IF rows[c] # NoContract /\ Out(e) THEN Expired(rows[c], e.from) ELSE rows[c]]

\* Mutant: contracts about to expire are left alone.
PublishedOverActive(c, row, rows) ==
    [d \in Contracts |->
        IF d = c THEN row
        ELSE IF rows[d] # NoContract /\ InForce(row) /\ row.parent = Null
                  /\ rows[d].status = "ACTIVE"
          THEN [rows[d] EXCEPT !.status = "EXPIRED"] ELSE rows[d]]

\* Contract.save() of a row that is no draft: once in force, and no appendix, it
\* expires what was in force.
Published(c, row, rows) ==
    [d \in Contracts |->
        IF d = c THEN row
        ELSE IF rows[d] # NoContract /\ InForce(row) /\ row.parent = Null /\ InForce(rows[d])
          THEN [rows[d] EXCEPT !.status = "EXPIRED"] ELSE rows[d]]

\* A check under way is overlapped by a change it has not read.
Disturb(change) ==
    plan' = IF plan # NoPlan /\ change THEN [plan EXCEPT !.disturbed = TRUE] ELSE plan

-----------------------------------------------------------------------------
(* Actions on the employee                                                 *)

\* Employee.save() of the object e, which stores the columns in row, and the
\* signal handlers after it.
Save(e, row) ==
    /\ Valid(e)
    /\ employee' = row
    /\ contract' = AfterSave(e, contract)
    /\ Disturb(Out(e) /\ ~Out(employee))
    /\ revived' = FALSE
    /\ UNCHANGED <<today, due, import, checked, raced>>

Activate ==
    /\ employee.status = "ONBOARDING"
    /\ LET row == [employee EXCEPT !.status = "ACTIVE"]
       IN  Save(Cleaned(row), row)

\* The reactive action takes resigned employees only, and stores the status: the
\* resignation dates cleared by clean() stay in the row.
CanReactivate(e) == e.status = "RESIGNED" /\ e.from <= today
Reactivated(e) == [e EXCEPT !.status = "ACTIVE"]

Reactivate ==
    /\ CanReactivate(employee)
    /\ Save(Cleaned(Reactivated(employee)), Reactivated(employee))

Resign(date) ==
    /\ date <= today
    /\ employee.status \in {"ACTIVE", "MATERNITY_LEAVE", "UNPAID_LEAVE"}
    /\ LET row == [employee EXCEPT !.status = "RESIGNED", !.from = date] IN Save(row, row)

\* Mutant: update_fields lacks resignation_end_date.
GoOnMaternityLeaveOpen(start, end) ==
    /\ start <= today
    /\ employee.status \in {"ACTIVE", "UNPAID_LEAVE"}
    /\ LET e == Cleaned([employee EXCEPT
                    !.status = IF end < today THEN "ACTIVE" ELSE "MATERNITY_LEAVE",
                    !.from = start, !.until = end])
       IN  Save(e, [e EXCEPT !.until = employee.until])

\* The maternity_leave action; a leave that is over already leaves her active.
GoOnMaternityLeave(start, end) ==
    /\ start <= today
    /\ employee.status \in {"ACTIVE", "UNPAID_LEAVE"}
    /\ LET e == Cleaned([employee EXCEPT
                    !.status = IF end < today THEN "ACTIVE" ELSE "MATERNITY_LEAVE",
                    !.from = start, !.until = end])
       IN  Save(e, e)

\* change_employee_type, to or from UNPAID_OFFICIAL.
ChangeType ==
    LET row == [employee EXCEPT !.unpaid = ~@] IN Save(Cleaned(row), row)

\* EmployeeSerializer.update(): every column, the status unchanged. Dates given
\* for a working employee are dropped by clean().
SaveProfile(from, until) ==
    LET e == Cleaned([employee EXCEPT !.from = from, !.until = until]) IN Save(e, e)

\* transfer and other saves that store other columns: the handlers still run.
Transfer == Save(Cleaned(employee), employee)

\* A row of an import file: every column, the status kept or any but ONBOARDING.
ImportEmployee(status, unpaid) ==
    LET e == Cleaned([employee EXCEPT !.status = status, !.unpaid = unpaid,
                                      !.from = IF status = "RESIGNED" THEN today ELSE @])
    IN  Save(e, e)

\* Approval of a maternity leave under way, whatever the status.
ApproveMaternity(start, end) ==
    /\ start <= today /\ today <= end
    /\ LET row == [employee EXCEPT !.status = "MATERNITY_LEAVE",
                                   !.from = start, !.until = end]
       IN  Save(row, row)

-----------------------------------------------------------------------------
(* Contracts                                                               *)

\* Ids grow; that of a deleted draft is free again, nothing refers to it.
Fresh(c) == /\ \A d \in Contracts : d >= c => ~Exists(d)
            /\ c > 1 => Exists(c - 1)

\* The parent of an appendix is in force.
CreateContract(c, effective, expires, parent) ==
    /\ Fresh(c)
    /\ c < MaxContract \/ import = NoImport      \* the last id is left to an import
    /\ effective <= expires
    /\ parent # Null => parent # c /\ Exists(parent) /\ InForce(contract[parent])
                             /\ contract[parent].parent = Null
    /\ contract' = [contract EXCEPT ![c] =
          [status |-> "DRAFT", effective |-> effective, expires |-> expires, parent |-> parent]]
    /\ UNCHANGED <<today, employee, due, plan, import, history>>

EditContract(c, effective, expires) ==
    /\ Exists(c) /\ contract[c].status = "DRAFT"
    /\ effective <= expires
    /\ contract[c].parent # Null => InForce(contract[contract[c].parent])
    /\ contract' = [contract EXCEPT ![c] =
          [@ EXCEPT !.effective = effective, !.expires = expires]]
    /\ UNCHANGED <<today, employee, due, plan, import, history>>

DeleteContract(c) ==
    /\ Exists(c) /\ contract[c].status = "DRAFT"
    /\ contract' = [contract EXCEPT ![c] = NoContract]
    /\ UNCHANGED <<today, employee, due, plan, import, history>>

Publish(c) ==
    /\ Exists(c) /\ contract[c].status = "DRAFT"
    /\ LET row == [contract[c] EXCEPT
                    !.status = StatusFromDates(employee, contract[c].effective, contract[c].expires)]
       IN  contract' = Published(c, row, contract)
    /\ Disturb(TRUE)
    /\ UNCHANGED <<today, employee, due, import, history>>

\* Of an Employee object the rows of an import use whether it has resigned, its
\* type, and the resignation date that clean() leaves.
Seen(e) == [Cleaned(e) EXCEPT !.status = IF @ = "RESIGNED" THEN @ ELSE "ACTIVE", !.until = Null]

\* pre_import_initialize() of an import of contracts reads all employees; the
\* objects serve every row of the file, which the bound on contracts bounds.
StartImport ==
    /\ import = NoImport /\ \E c \in Contracts : Fresh(c)
    /\ import' = Seen(employee)
    /\ UNCHANGED <<today, employee, contract, due, plan, history>>

\* One row: created and published at once, without an end, and the type of the
\* employee changed with it, both as the object says; only the type is stored.
ImportContract(c, effective, unpaid) ==
    /\ import # NoImport /\ Fresh(c)
    /\ LET row  == [status |-> StatusFromDates(import, effective, Never),
                    effective |-> effective, expires |-> Never, parent |-> Null]
           rows == Published(c, row, contract)
           same == unpaid = import.unpaid
           e    == [import EXCEPT !.unpaid = unpaid]
       IN  /\ contract' = IF same THEN rows ELSE AfterSave(e, rows)
           /\ employee' = IF same THEN employee ELSE [employee EXCEPT !.unpaid = unpaid]
           /\ import' = IF c = MaxContract THEN NoImport ELSE e
           /\ revived' = (Out(employee') /\ (revived \/ ~Out(e)))
    /\ Disturb(TRUE)
    /\ UNCHANGED <<today, due, checked, raced>>

\* The file is done, the import was cancelled, or its worker died.
EndImport ==
    /\ import # NoImport /\ import' = NoImport
    /\ UNCHANGED <<today, employee, contract, due, plan, history>>

-----------------------------------------------------------------------------
(* The nightly tasks                                                       *)

\* reactive_maternity_leave_employees_task: the reactive action for each employee
\* whose maternity leave is over; the task logs what the action refuses.
ReturnFromMaternity ==
    /\ "returns" \in due /\ due' = due \ {"returns"}
    /\ IF employee.status = "MATERNITY_LEAVE" /\ employee.until < today
            /\ CanReactivate(employee)
         THEN /\ employee' = Reactivated(employee)
              /\ contract' = AfterSave(Cleaned(Reactivated(employee)), contract)
         ELSE UNCHANGED <<employee, contract>>
    /\ UNCHANGED <<today, plan, import, history>>

\* update_employee_status_from_approved_leave_proposals: a bulk_update, which
\* sends no signal; it looks at no status but the one it sets.
StartLeaves ==
    /\ "leaves" \in due /\ due' = due \ {"leaves"}
    /\ \/ UNCHANGED employee
       \/ \E kind \in {"MATERNITY_LEAVE", "UNPAID_LEAVE"}, s, e \in LeaveDays :
            /\ s <= today /\ today <= e /\ employee.status # kind
            /\ employee' = [employee EXCEPT !.status = kind, !.from = s, !.until = e]
    /\ UNCHANGED <<today, contract, plan, import, history>>

\* check_contract_status reads: of the contracts that are no drafts the newest
\* gets the status of its dates, the others end.
CheckReads ==
    /\ "contracts" \in due /\ due' = due \ {"contracts"}
    /\ LET effectual == {c \in Contracts : Exists(c) /\ contract[c].status # "DRAFT"}
           newest(c) == \A d \in effectual : d <= c
           decided(c) == IF newest(c)
                           THEN StatusFromDates(employee, contract[c].effective,
                                                contract[c].expires)
                           ELSE "EXPIRED"
       IN  plan' = [disturbed |-> FALSE,
                    status |-> [c \in Contracts |->
                        IF c \in effectual /\ decided(c) # contract[c].status
                          THEN decided(c) ELSE Keep]]
    /\ UNCHANGED <<today, employee, contract, import, history>>

\* Mutant: the rows that keep their status are written too.
CheckWritesAll ==
    /\ plan # NoPlan /\ plan' = NoPlan
    /\ contract' = [c \in Contracts |->
          IF Exists(c) THEN [contract[c] EXCEPT !.status = plan.status[c]] ELSE contract[c]]
    /\ checked' = TRUE
    /\ raced' = plan.disturbed
    /\ revived' = (revived /\ plan.disturbed)
    /\ UNCHANGED <<today, employee, due, import>>

\* ... and writes.
CheckWrites ==
    /\ plan # NoPlan /\ plan' = NoPlan
    /\ contract' = [c \in Contracts |->
          IF Exists(c) /\ plan.status[c] # Keep
            THEN [contract[c] EXCEPT !.status = plan.status[c]] ELSE contract[c]]
    /\ checked' = TRUE
    /\ raced' = plan.disturbed
    /\ revived' = (revived /\ plan.disturbed)
    /\ UNCHANGED <<today, employee, due, import>>

CheckDies ==
    /\ plan # NoPlan /\ plan' = NoPlan
    /\ UNCHANGED <<today, employee, contract, due, import, history>>

\* Midnight. Tasks that did not run yet are as good as lost: the new ones do
\* their work. A check is over long before the next.
NextDay ==
    /\ plan = NoPlan
    /\ today < LastDay /\ today' = today + 1
    /\ due' = Tasks
    /\ checked' = FALSE
    /\ UNCHANGED <<employee, contract, plan, import, raced, revived>>

-----------------------------------------------------------------------------
Init ==
    /\ today = 1
    /\ employee \in [status : Working, from : {Null}, until : {Null}, unpaid : BOOLEAN]
    /\ contract = [c \in Contracts |-> NoContract]
    /\ due = {"contracts"}      \* a new employee: of last midnight a late check is left
    /\ plan = NoPlan
    /\ import = NoImport
    /\ checked = FALSE
    /\ raced = FALSE
    /\ revived = FALSE

EmployeeActions ==
    \/ Activate \/ Reactivate \/ ChangeType \/ Transfer
    \/ \E d \in Days : Resign(d)
    \/ \E s, e \in LeaveDays : GoOnMaternityLeave(s, e) \/ ApproveMaternity(s, e)
    \/ \E from, until \in IF employee.status \in Working THEN {Null} ELSE LeaveDays \cup {Null} :
          SaveProfile(from, until)
    \/ \E status \in {employee.status, "ACTIVE"} \cup Leave, unpaid \in BOOLEAN :
          ImportEmployee(status, unpaid)

ContractActions ==
    \E c \in Contracts :
        \/ \E effective \in Days, expires \in Days \cup {Never} :
              \/ \E parent \in Contracts \cup {Null} : CreateContract(c, effective, expires, parent)
              \/ EditContract(c, effective, expires)
        \/ DeleteContract(c)
        \/ Publish(c)
        \/ \E effective \in Days, unpaid \in BOOLEAN : ImportContract(c, effective, unpaid)

Imports == StartImport \/ EndImport

NightlyTasks == ReturnFromMaternity \/ StartLeaves \/ CheckReads \/ CheckWrites \/ CheckDies

Next == EmployeeActions \/ ContractActions \/ Imports \/ NightlyTasks \/ NextDay

Spec == Init /\ [][Next]_vars

-----------------------------------------------------------------------------
(* Properties                                                              *)

\* Rows and memory hold values of their types.
TypeOK ==
    /\ today \in Days
    /\ employee \in EmployeeRecord
    /\ contract \in [Contracts -> ContractRecord \cup {NoContract}]
    /\ due \subseteq Tasks
    /\ plan \in Plans \cup {NoPlan}
    /\ import \in EmployeeRecord \cup {NoImport}
    /\ checked \in BOOLEAN /\ raced \in BOOLEAN /\ revived \in BOOLEAN

\* At most one contract, appendices aside, is in force, although publications,
\* imports, exits and the nightly check each decide it their own way.
OneInForce ==
    ~raced => \A c, d \in Contracts :
        (/\ Exists(c) /\ InForce(contract[c]) /\ contract[c].parent = Null
         /\ Exists(d) /\ InForce(contract[d]) /\ contract[d].parent = Null) => c = d

\* Whoever has resigned or is unpaid has drafts and expired contracts only, by
\* whichever path the employee left and whatever was published since; excused
\* until the next check after an import that did not know of the exit.
ExitEndsContracts ==
    (~raced /\ ~revived /\ Out(employee))
        => \A c \in Contracts : Exists(c) => contract[c].status \in {"DRAFT", "EXPIRED"}

\* Once the check of the day has run, a contract in force covers the day.
InForceCoversToday ==
    (checked /\ ~raced)
        => \A c \in Contracts : (Exists(c) /\ InForce(contract[c]))
              => contract[c].effective <= today /\ today <= contract[c].expires

\* An employee on leave has the dates of the leave, although each action stores
\* its own choice of columns and the nightly task bypasses clean().
LeaveDated == Valid(employee)
=============================================================================
