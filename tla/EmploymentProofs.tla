-------------------------- MODULE EmploymentProofs --------------------------
(***************************************************************************)
(* Proofs about Employment for any number of contracts, any number of days *)
(* and any notice.                                                         *)
(***************************************************************************)
EXTENDS Employment, TLAPS

Started == {"ACTIVE", "ABOUT_TO_EXPIRE"}

\* No row, or one that is not and was not in force.
Quiet(c) == Exists(c) => contract[c].status \in {"DRAFT", "EXPIRED"}

\* The row is out of force once the plan is written.
Tame(c) == \/ plan.status[c] = "EXPIRED"
           \/ plan.status[c] = Keep /\ Quiet(c)

Covers(r) == r.effective <= today /\ today <= r.expires

\* What the rows have been to a check that nothing overlapped: drafts are kept,
\* all rows but one end, all end after an exit, and who starts covers today.
Sound == plan # NoPlan /\ ~plan.disturbed

PlanRows == \A c \in Contracts :
    plan.status[c] # Keep => Exists(c) /\ contract[c].status # "DRAFT"

PlanOne == \A c, d \in Contracts : c # d => Tame(c) \/ Tame(d)

PlanExit == Out(employee) => \A c \in Contracts : Tame(c)

PlanCovers == \A c \in Contracts :
    /\ plan.status[c] \in Started => Covers(contract[c])
    /\ (plan.status[c] = Keep /\ Exists(c) /\ InForce(contract[c])) => Covers(contract[c])

PlanSound == Sound => PlanRows /\ PlanOne /\ PlanExit /\ PlanCovers

EmploymentInv ==
    /\ TypeOK /\ LeaveDated
    /\ OneInForce /\ ExitEndsContracts /\ InForceCoversToday
    /\ PlanSound

-----------------------------------------------------------------------------
(* Facts about rows                                                        *)

LEMMA DayFacts == /\ Days \subseteq Nat /\ Never \in Nat
                  /\ \A d \in Days : d # Null /\ d <= Never
  BY EmploymentAssumption DEF Days, Never, Null

LEMMA DatesFacts ==
    ASSUME NEW e, NEW effective \in Days, NEW expires \in Days \cup {Never}, today \in Days
    PROVE  LET st == StatusFromDates(e, effective, expires)
           IN  /\ st \in ContractStatus /\ st # "DRAFT"
               /\ Out(e) => st = "EXPIRED"
               /\ st \in Started => effective <= today /\ today <= expires
  BY DayFacts, EmploymentAssumption DEF StatusFromDates, ContractStatus, Started

\* The two ways a row changes but its status keeps.
LEMMA ExpiredFacts ==
    ASSUME NEW r \in ContractRecord, NEW date \in Days \cup {Null}
    PROVE  /\ Expired(r, date) \in ContractRecord
           /\ Expired(r, date).status = "EXPIRED"
  <1> DEFINE end == IF r.status # "ACTIVE" THEN r.expires
                    ELSE IF date = Null THEN Never ELSE date
  <1>1. end \in Days \cup {Never}
    BY DEF ContractRecord
  <1>2. Expired(r, date) = [r EXCEPT !.status = "EXPIRED", !.expires = end]
    BY DEF Expired
  <1> HIDE DEF end
  <1>3. QED
    BY <1>1, <1>2 DEF ContractRecord, ContractStatus

LEMMA StatusFacts ==
    ASSUME NEW r \in ContractRecord, NEW st \in ContractStatus
    PROVE  /\ [r EXCEPT !.status = st] \in ContractRecord
           /\ [r EXCEPT !.status = st].status = st
           /\ [r EXCEPT !.status = st].effective = r.effective
           /\ [r EXCEPT !.status = st].expires = r.expires
           /\ [r EXCEPT !.status = st].parent = r.parent
  BY DEF ContractRecord, ContractStatus

LEMMA RowTyped ==
    ASSUME TypeOK, NEW c \in Contracts, Exists(c)
    PROVE  contract[c] \in ContractRecord
  BY DEF TypeOK, Exists

LEMMA NoRow == NoContract \notin ContractRecord /\ NoPlan \notin Plans
  BY EmploymentAssumption

LEMMA InForceStarted ==
    \A r : InForce(r) <=> r.status \in Started
  BY DEF InForce, Started

LEMMA CleanedFacts ==
    ASSUME NEW e \in EmployeeRecord
    PROVE  /\ Cleaned(e) \in EmployeeRecord
           /\ Cleaned(e).status = e.status /\ Cleaned(e).unpaid = e.unpaid
           /\ Out(Cleaned(e)) = Out(e)
  BY DEF Cleaned, EmployeeRecord, Out, Null

\* A check that is overlapped stays what it was.
LEMMA DisturbFacts ==
    ASSUME TypeOK, NEW change \in BOOLEAN, Disturb(change)
    PROVE  /\ plan' \in Plans \cup {NoPlan}
           /\ Sound' => Sound /\ ~change /\ plan' = plan
  BY NoRow DEF Disturb, TypeOK, Plans, Sound

-----------------------------------------------------------------------------
(* Steps that save the employee                                            *)

\* The rows the exit handler leaves.
LEMMA AfterSaveFacts ==
    ASSUME NEW rows \in [Contracts -> ContractRecord \cup {NoContract}], NEW e,
           e.from \in Days \cup {Null}
    PROVE  /\ AfterSave(e, rows) \in [Contracts -> ContractRecord \cup {NoContract}]
           /\ ~Out(e) => AfterSave(e, rows) = rows
           /\ Out(e) => \A c \in Contracts :
                /\ rows[c] = NoContract => AfterSave(e, rows)[c] = NoContract
                /\ rows[c] # NoContract =>
                      /\ AfterSave(e, rows)[c] # NoContract
                      /\ AfterSave(e, rows)[c].status = "EXPIRED"
  <1> DEFINE after == AfterSave(e, rows)
  <1>1. after = [c \in Contracts |->
                    IF rows[c] # NoContract /\ Out(e) THEN Expired(rows[c], e.from)
                    ELSE rows[c]]
    BY DEF AfterSave
  <1>2. \A c \in Contracts : rows[c] # NoContract =>
           /\ Expired(rows[c], e.from) \in ContractRecord
           /\ Expired(rows[c], e.from).status = "EXPIRED"
           /\ Expired(rows[c], e.from) # NoContract
    BY ExpiredFacts, NoRow
  <1> HIDE DEF after
  <1>3. after \in [Contracts -> ContractRecord \cup {NoContract}]
    BY <1>1, <1>2
  <1>4. ~Out(e) => after = rows
    BY <1>1
  <1>5. Out(e) => \A c \in Contracts :
           /\ rows[c] = NoContract => after[c] = NoContract
           /\ rows[c] # NoContract => after[c] # NoContract /\ after[c].status = "EXPIRED"
    BY <1>1, <1>2
  <1>6. QED
    BY <1>3, <1>4, <1>5 DEF after

\* All rows end, and whoever writes a plan made after the exit ends them too.
LEMMA AllEnded ==
    ASSUME EmploymentInv, TypeOK', LeaveDated',
           \A c \in Contracts : contract'[c] # NoContract =>
                Exists(c) /\ contract'[c].status = "EXPIRED",
           \A c \in Contracts : Exists(c) => contract'[c] # NoContract,
           Sound' => Sound /\ plan' = plan /\ Out(employee)
    PROVE  EmploymentInv'
  <1>1. OneInForce' /\ ExitEndsContracts' /\ InForceCoversToday'
    BY InForceStarted DEF OneInForce, ExitEndsContracts, InForceCoversToday, Exists, Started,
       InForce
  <1>2. ASSUME Sound'
        PROVE  (PlanRows /\ PlanOne /\ PlanExit /\ PlanCovers)'
    <2>1. plan' = plan /\ PlanRows /\ (\A c \in Contracts : Tame(c))
      BY <1>2 DEF EmploymentInv, PlanSound, PlanExit
    <2>2. PlanRows'
      BY <2>1 DEF PlanRows, Exists
    <2>3. \A c \in Contracts : Quiet(c)'
      BY DEF Quiet, Exists
    <2>4. \A c \in Contracts : Tame(c)'
      BY <2>1, <2>3 DEF Tame
    <2>5. PlanCovers'
      <3>1. \A c \in Contracts : plan'.status[c] \notin Started
        BY <2>1 DEF Tame, Started, Keep
      <3>2. QED
        BY <3>1, <2>3 DEF PlanCovers, InForce, Quiet
    <2>6. QED
      BY <2>2, <2>4, <2>5 DEF PlanOne, PlanExit
  <1>3. QED
    BY <1>1, <1>2 DEF EmploymentInv, PlanSound

\* Nothing but the employee changes, who does not leave.
LEMMA RowsStay ==
    ASSUME EmploymentInv, TypeOK', LeaveDated',
           contract' = contract, today' = today,
           checked' = checked, raced' = raced,
           Sound' => Sound /\ plan' = plan,
           Out(employee') => (Out(employee) /\ revived' = revived)
    PROVE  EmploymentInv'
  <1>1. OneInForce' /\ ExitEndsContracts' /\ InForceCoversToday'
    BY DEF EmploymentInv, OneInForce, ExitEndsContracts, InForceCoversToday, Exists, InForce
  <1>2. ASSUME Sound'
        PROVE  (PlanRows /\ PlanOne /\ PlanExit /\ PlanCovers)'
    <2>1. plan' = plan /\ PlanRows /\ PlanOne /\ PlanExit /\ PlanCovers
      BY <1>2 DEF EmploymentInv, PlanSound
    <2>2. QED
      BY <2>1 DEF PlanRows, PlanOne, PlanExit, PlanCovers, Tame, Quiet, Exists, Covers, InForce
  <1>3. QED
    BY <1>1, <1>2 DEF EmploymentInv, PlanSound

\* Any save of the employee whose columns have the status and the type of the
\* object.
LEMMA SaveStep ==
    ASSUME EmploymentInv, NEW e \in EmployeeRecord, NEW row \in EmployeeRecord,
           Save(e, row), Valid(row), Out(row) = Out(e)
    PROVE  EmploymentInv'
  <1>1. TypeOK
    BY DEF EmploymentInv
  <1>2. /\ plan' \in Plans \cup {NoPlan}
        /\ Sound' => Sound /\ ~(Out(e) /\ ~Out(employee)) /\ plan' = plan
    <2>1. (Out(e) /\ ~Out(employee)) \in BOOLEAN
      OBVIOUS
    <2>2. Disturb(Out(e) /\ ~Out(employee))
      BY DEF Save
    <2>3. QED
      BY <1>1, <2>1, <2>2, DisturbFacts
  <1>3. /\ contract' = AfterSave(e, contract) /\ employee' = row
        /\ UNCHANGED <<today, due, import, checked, raced>> /\ revived' = FALSE
    BY DEF Save
  <1>4. contract \in [Contracts -> ContractRecord \cup {NoContract}]
    BY <1>1 DEF TypeOK
  <1>5. e.from \in Days \cup {Null}
    BY DEF EmployeeRecord
  <1>6. TypeOK'
    BY <1>1, <1>2, <1>3, <1>4, <1>5, AfterSaveFacts DEF TypeOK
  <1>7. LeaveDated'
    BY <1>3 DEF LeaveDated
  <1>8. CASE ~Out(e)
    <2>1. contract' = contract
      BY <1>8, <1>3, <1>4, <1>5, AfterSaveFacts
    <2>2. ~Out(employee')
      BY <1>8, <1>3
    <2>3. QED
      BY <2>1, <2>2, <1>2, <1>3, <1>6, <1>7, RowsStay
  <1>9. CASE Out(e)
    <2>1. \A c \in Contracts :
             /\ contract[c] = NoContract => contract'[c] = NoContract
             /\ contract[c] # NoContract =>
                   contract'[c] # NoContract /\ contract'[c].status = "EXPIRED"
      BY <1>9, <1>3, <1>4, <1>5, AfterSaveFacts
    <2>2. Sound' => Sound /\ plan' = plan /\ Out(employee)
      BY <1>9, <1>2
    <2>3. QED
      BY <2>1, <2>2, <1>6, <1>7, AllEnded DEF Exists
  <1>10. QED
    BY <1>8, <1>9

LEMMA EmployeeStep ==
    ASSUME EmploymentInv, EmployeeActions
    PROVE  EmploymentInv'
  <1>1. /\ TypeOK /\ Valid(employee) /\ employee \in EmployeeRecord /\ today \in Days
        /\ \A d \in Days : d # Null
    BY DayFacts DEF EmploymentInv, LeaveDated, TypeOK
  <1>2. ASSUME NEW row \in EmployeeRecord, Save(Cleaned(row), row), Valid(row)
        PROVE  EmploymentInv'
    BY <1>2, CleanedFacts, SaveStep
  <1>3. ASSUME NEW e \in EmployeeRecord, Save(Cleaned(e), Cleaned(e))
        PROVE  EmploymentInv'
    BY <1>3, CleanedFacts, SaveStep DEF Save
  <1>4. ASSUME NEW e \in EmployeeRecord, Save(e, e)
        PROVE  EmploymentInv'
    BY <1>4, SaveStep DEF Save
  <1>5. CASE Activate
    <2> DEFINE row == [employee EXCEPT !.status = "ACTIVE"]
    <2>1. row \in EmployeeRecord /\ Valid(row)
      BY <1>1 DEF EmployeeRecord, Working, Leave, Valid
    <2>2. Save(Cleaned(row), row)
      BY <1>5 DEF Activate
    <2>3. QED
      BY <2>1, <2>2, <1>2
  <1>6. CASE Reactivate
    <2>1. Reactivated(employee) \in EmployeeRecord /\ Valid(Reactivated(employee))
      BY <1>1 DEF Reactivated, EmployeeRecord, Working, Leave, Valid
    <2>2. QED
      BY <2>1, <1>2, <1>6 DEF Reactivate
  <1>7. CASE ChangeType
    <2> DEFINE row == [employee EXCEPT !.unpaid = ~employee.unpaid]
    <2>1. row \in EmployeeRecord /\ Valid(row)
      BY <1>1 DEF EmployeeRecord, Valid
    <2>2. Save(Cleaned(row), row)
      BY <1>7 DEF ChangeType
    <2>3. QED
      BY <2>1, <2>2, <1>2
  <1>8. CASE Transfer
    BY <1>1, <1>2, <1>8 DEF Transfer
  <1>9. ASSUME NEW d \in Days, Resign(d)
        PROVE  EmploymentInv'
    <2> DEFINE row == [employee EXCEPT !.status = "RESIGNED", !.from = d]
    <2>1. row \in EmployeeRecord
      BY <1>1 DEF EmployeeRecord, Working, Leave
    <2>2. Save(row, row)
      BY <1>9 DEF Resign
    <2>3. QED
      BY <2>1, <2>2, <1>4
  <1>10. ASSUME NEW s \in Days, NEW e \in Days, GoOnMaternityLeave(s, e)
         PROVE  EmploymentInv'
    <2> DEFINE st == IF e < today THEN "ACTIVE" ELSE "MATERNITY_LEAVE"
               row == [employee EXCEPT !.status = st, !.from = s, !.until = e]
    <2>1. row \in EmployeeRecord
      BY <1>1 DEF EmployeeRecord, Working, Leave
    <2>2. Save(Cleaned(row), Cleaned(row))
      BY <1>10 DEF GoOnMaternityLeave
    <2>3. QED
      BY <2>1, <2>2, <1>3
  <1>11. ASSUME NEW s \in Days, NEW e \in Days, ApproveMaternity(s, e)
         PROVE  EmploymentInv'
    <2> DEFINE row == [employee EXCEPT !.status = "MATERNITY_LEAVE", !.from = s, !.until = e]
    <2>1. row \in EmployeeRecord
      BY <1>1 DEF EmployeeRecord, Working, Leave
    <2>2. Save(row, row)
      BY <1>11 DEF ApproveMaternity
    <2>3. QED
      BY <2>1, <2>2, <1>4
  <1>12. ASSUME NEW from \in Days \cup {Null}, NEW until \in Days \cup {Null},
                SaveProfile(from, until)
         PROVE  EmploymentInv'
    <2> DEFINE row == [employee EXCEPT !.from = from, !.until = until]
    <2>1. row \in EmployeeRecord
      BY <1>1 DEF EmployeeRecord
    <2>2. Save(Cleaned(row), Cleaned(row))
      BY <1>12 DEF SaveProfile
    <2>3. QED
      BY <2>1, <2>2, <1>3
  <1>13. ASSUME NEW st \in {employee.status, "ACTIVE"} \cup Leave, NEW unpaid \in BOOLEAN,
                ImportEmployee(st, unpaid)
         PROVE  EmploymentInv'
    <2> DEFINE from == IF st = "RESIGNED" THEN today ELSE employee.from
               row == [employee EXCEPT !.status = st, !.unpaid = unpaid, !.from = from]
    <2>1. st \in Working \cup Leave /\ from \in Days \cup {Null}
      BY <1>1 DEF EmployeeRecord, Working
    <2> HIDE DEF from
    <2>2. row \in EmployeeRecord
      BY <1>1, <2>1 DEF EmployeeRecord
    <2>3. Save(Cleaned(row), Cleaned(row))
      BY <1>13 DEF ImportEmployee, from
    <2>4. QED
      BY <2>2, <2>3, <1>3
  <1>14. QED
    BY <1>5, <1>6, <1>7, <1>8, <1>9, <1>10, <1>11, <1>12, <1>13, EmploymentAssumption
    DEF EmployeeActions, Null

-----------------------------------------------------------------------------
(* Steps on contracts                                                      *)

\* A draft appears, changes or goes.
LEMMA DraftStep ==
    ASSUME EmploymentInv, NEW c \in Contracts, Quiet(c), ~Exists(c) \/ contract[c].status = "DRAFT",
           NEW row \in ContractRecord \cup {NoContract},
           row = NoContract \/ row.status = "DRAFT",
           contract' = [contract EXCEPT ![c] = row],
           UNCHANGED <<today, employee, due, plan, import, checked, raced, revived>>
    PROVE  EmploymentInv'
  <1>1. /\ TypeOK'
        /\ contract \in [Contracts -> ContractRecord \cup {NoContract}]
    BY DEF EmploymentInv, TypeOK
  <1>2. \A d \in Contracts : contract'[d] = IF d = c THEN row ELSE contract[d]
    BY <1>1
  <1>3. OneInForce' /\ ExitEndsContracts' /\ InForceCoversToday' /\ LeaveDated'
    BY <1>2
    DEF EmploymentInv, OneInForce, ExitEndsContracts, InForceCoversToday, LeaveDated, Exists,
        InForce, Out, Valid
  <1>4. ASSUME Sound'
        PROVE  (PlanRows /\ PlanOne /\ PlanExit /\ PlanCovers)'
    <2>1. PlanRows /\ PlanOne /\ PlanExit /\ PlanCovers
      BY <1>4 DEF EmploymentInv, PlanSound, Sound
    <2>2. plan.status[c] = Keep
      BY <2>1 DEF PlanRows
    <2>3. PlanRows'
      BY <2>1, <2>2, <1>2 DEF PlanRows, Exists
    <2>4. \A d \in Contracts : Tame(d) => Tame(d)'
      BY <1>2 DEF Tame, Quiet, Exists
    <2>5. PlanOne' /\ PlanExit'
      BY <2>1, <2>4 DEF PlanOne, PlanExit, Out
    <2>6. PlanCovers'
      BY <2>1, <2>2, <1>2 DEF PlanCovers, Covers, Exists, InForce, Keep, Started
    <2>7. QED
      BY <2>3, <2>5, <2>6
  <1>5. QED
    BY <1>1, <1>3, <1>4 DEF EmploymentInv, PlanSound

\* The rows a publication leaves.
LEMMA PublishedFacts ==
    ASSUME NEW rows \in [Contracts -> ContractRecord \cup {NoContract}],
           NEW c \in Contracts, NEW row \in ContractRecord
    PROVE  LET after == Published(c, row, rows)
           IN  /\ after \in [Contracts -> ContractRecord \cup {NoContract}]
               /\ after[c] = row
               /\ \A d \in Contracts \ {c} :
                     \/ /\ after[d] = rows[d]
                        /\ rows[d] # NoContract /\ InForce(row) /\ row.parent = Null
                              => ~InForce(rows[d])
                     \/ after[d] # NoContract /\ rows[d] # NoContract
                           /\ after[d].status = "EXPIRED"
  <1> DEFINE Ended(r) == [r EXCEPT !.status = "EXPIRED"]
             after == Published(c, row, rows)
  <1>1. after = [d \in Contracts |->
           IF d = c THEN row
           ELSE IF rows[d] # NoContract /\ InForce(row) /\ row.parent = Null /\ InForce(rows[d])
                  THEN Ended(rows[d]) ELSE rows[d]]
    BY DEF Published
  <1>2. \A d \in Contracts : rows[d] # NoContract =>
           /\ Ended(rows[d]) \in ContractRecord /\ Ended(rows[d]).status = "EXPIRED"
           /\ Ended(rows[d]) # NoContract
    <2>1. ASSUME NEW d \in Contracts, rows[d] # NoContract
          PROVE  /\ Ended(rows[d]) \in ContractRecord /\ Ended(rows[d]).status = "EXPIRED"
                 /\ Ended(rows[d]) # NoContract
      <3>1. rows[d] \in ContractRecord /\ "EXPIRED" \in ContractStatus
        BY <2>1 DEF ContractStatus
      <3>2. Ended(rows[d]) \in ContractRecord /\ Ended(rows[d]).status = "EXPIRED"
        BY <3>1, StatusFacts
      <3>3. QED
        BY <3>2, NoRow
    <2>2. QED
      BY <2>1
  <1> HIDE DEF Ended, after
  <1>3. after \in [Contracts -> ContractRecord \cup {NoContract}]
    BY <1>1, <1>2
  <1>4. after[c] = row
    BY <1>1
  <1>5. \A d \in Contracts \ {c} :
           \/ /\ after[d] = rows[d]
              /\ rows[d] # NoContract /\ InForce(row) /\ row.parent = Null => ~InForce(rows[d])
           \/ after[d] # NoContract /\ rows[d] # NoContract /\ after[d].status = "EXPIRED"
    BY <1>1, <1>2
  <1>6. QED
    BY <1>3, <1>4, <1>5 DEF after

\* The invariants about contracts after a row was published with the status of its
\* dates for e: the employee, or what an import holds of the employee.
LEMMA PublishedStep ==
    ASSUME EmploymentInv, NEW c \in Contracts, NEW row \in ContractRecord, Quiet(c),
           NEW e, row.status = StatusFromDates(e, row.effective, row.expires),
           contract' = Published(c, row, contract),
           UNCHANGED <<today, checked, raced>>,
           (~revived' /\ Out(employee')) => (~revived /\ Out(employee) /\ Out(e))
    PROVE  /\ contract' \in [Contracts -> ContractRecord \cup {NoContract}]
           /\ OneInForce' /\ ExitEndsContracts' /\ InForceCoversToday'
  <1>1. contract \in [Contracts -> ContractRecord \cup {NoContract}]
    BY DEF EmploymentInv, TypeOK
  <1>2. /\ contract' \in [Contracts -> ContractRecord \cup {NoContract}]
        /\ contract'[c] = row
        /\ \A d \in Contracts \ {c} :
              \/ /\ contract'[d] = contract[d]
                 /\ contract[d] # NoContract /\ InForce(row) /\ row.parent = Null
                       => ~InForce(contract[d])
              \/ contract'[d] # NoContract /\ contract[d] # NoContract
                    /\ contract'[d].status = "EXPIRED"
    BY <1>1, PublishedFacts
  <1>3. /\ Out(e) => row.status = "EXPIRED"
        /\ row.status \in Started => Covers(row)
    <2>1. row.effective \in Days /\ row.expires \in Days \cup {Never} /\ today \in Days
      BY DEF ContractRecord, EmploymentInv, TypeOK
    <2>2. QED
      BY <2>1, DatesFacts DEF Covers
  <1>4. \A d \in Contracts \ {c} :
           (contract'[d] # NoContract /\ InForce(contract'[d])) =>
               /\ contract'[d] = contract[d] /\ Exists(d) /\ InForce(contract[d])
               /\ ~(InForce(row) /\ row.parent = Null)
    BY <1>2 DEF Exists, InForce
  <1>5. OneInForce'
    BY <1>2, <1>4 DEF EmploymentInv, OneInForce, Exists
  <1>6. ExitEndsContracts'
    BY <1>2, <1>3 DEF EmploymentInv, ExitEndsContracts, Exists
  <1>7. InForceCoversToday'
    BY <1>2, <1>3, <1>4, InForceStarted
    DEF EmploymentInv, InForceCoversToday, Exists, Covers
  <1>8. QED
    BY <1>2, <1>5, <1>6, <1>7

LEMMA DraftSteps ==
    ASSUME EmploymentInv, NEW c \in Contracts,
           \/ DeleteContract(c)
           \/ \E effective \in Days, expires \in Days \cup {Never} :
                 \/ EditContract(c, effective, expires)
                 \/ \E parent \in Contracts \cup {Null} :
                       CreateContract(c, effective, expires, parent)
    PROVE  EmploymentInv'
  <1>1. CASE DeleteContract(c)
    BY <1>1, DraftStep DEF DeleteContract, Quiet, history
  <1>2. ASSUME NEW effective \in Days, NEW expires \in Days \cup {Never},
               EditContract(c, effective, expires)
        PROVE  EmploymentInv'
    <2> DEFINE row == [contract[c] EXCEPT !.effective = effective, !.expires = expires]
    <2>1. contract[c] \in ContractRecord /\ contract[c].status = "DRAFT"
      BY <1>2, RowTyped DEF EditContract, EmploymentInv
    <2>2. row \in ContractRecord /\ row.status = "DRAFT"
      BY <2>1 DEF ContractRecord
    <2>3. contract' = [contract EXCEPT ![c] = row]
      BY <1>2 DEF EditContract
    <2>4. UNCHANGED <<today, employee, due, plan, import, checked, raced, revived>>
      BY <1>2 DEF EditContract, history
    <2> HIDE DEF row
    <2>5. QED
      BY <2>1, <2>2, <2>3, <2>4, DraftStep DEF Quiet
  <1>3. ASSUME NEW effective \in Days, NEW expires \in Days \cup {Never},
               NEW parent \in Contracts \cup {Null},
               CreateContract(c, effective, expires, parent)
        PROVE  EmploymentInv'
    <2> DEFINE row == [status |-> "DRAFT", effective |-> effective,
                       expires |-> expires, parent |-> parent]
    <2>1. row \in ContractRecord /\ row.status = "DRAFT"
      BY DEF ContractRecord, ContractStatus
    <2>2. contract' = [contract EXCEPT ![c] = row]
      BY <1>3 DEF CreateContract
    <2>3. UNCHANGED <<today, employee, due, plan, import, checked, raced, revived>>
      BY <1>3 DEF CreateContract, history
    <2>4. ~Exists(c)
      BY <1>3, DayFacts DEF CreateContract, Fresh, Contracts
    <2> HIDE DEF row
    <2>5. QED
      BY <2>1, <2>2, <2>3, <2>4, DraftStep DEF Quiet
  <1>4. QED
    BY <1>1, <1>2, <1>3

LEMMA PublishStep ==
    ASSUME EmploymentInv, NEW c \in Contracts, Publish(c)
    PROVE  EmploymentInv'
  <1> DEFINE st  == StatusFromDates(employee, contract[c].effective, contract[c].expires)
             row == [contract[c] EXCEPT !.status = st]
  <1>1. contract[c] \in ContractRecord /\ contract[c].status = "DRAFT" /\ TypeOK
    BY RowTyped DEF Publish, EmploymentInv
  <1>2. st \in ContractStatus
    <2>1. /\ contract[c].effective \in Days /\ contract[c].expires \in Days \cup {Never}
          /\ today \in Days
      BY <1>1 DEF ContractRecord, TypeOK
    <2>2. QED
      BY <2>1, DatesFacts
  <1>3. /\ contract' = Published(c, row, contract)
        /\ Disturb(TRUE)
        /\ UNCHANGED <<today, employee, due, import, checked, raced, revived>>
    BY DEF Publish, history
  <1>4. row \in ContractRecord /\ row.status = StatusFromDates(employee, row.effective, row.expires)
    <2>1. /\ row \in ContractRecord /\ row.status = st
          /\ row.effective = contract[c].effective /\ row.expires = contract[c].expires
      BY <1>1, <1>2, StatusFacts
    <2>2. QED
      BY <2>1
  <1> HIDE DEF row, st
  <1>5. /\ contract' \in [Contracts -> ContractRecord \cup {NoContract}]
        /\ OneInForce' /\ ExitEndsContracts' /\ InForceCoversToday'
    BY <1>1, <1>3, <1>4, PublishedStep DEF Quiet
  <1>6. plan' \in Plans \cup {NoPlan} /\ ~Sound'
    BY <1>1, <1>3, DisturbFacts
  <1>7. TypeOK' /\ LeaveDated'
    BY <1>1, <1>3, <1>5, <1>6 DEF TypeOK, LeaveDated, EmploymentInv, Valid
  <1>8. QED
    BY <1>5, <1>6, <1>7 DEF EmploymentInv, PlanSound

LEMMA SeenFacts ==
    ASSUME NEW e \in EmployeeRecord
    PROVE  Seen(e) \in EmployeeRecord
  <1>1. Cleaned(e) \in EmployeeRecord
    BY CleanedFacts
  <1>2. QED
    BY <1>1 DEF Seen, EmployeeRecord, Working, Leave, Null

\* An import begins and ends.
LEMMA ImportsStep ==
    ASSUME EmploymentInv, Imports
    PROVE  EmploymentInv'
  <1>1. UNCHANGED <<today, employee, contract, due, plan, checked, raced, revived>>
    BY DEF Imports, StartImport, EndImport, history
  <1>2. import' \in EmployeeRecord \cup {NoImport}
    BY SeenFacts DEF Imports, StartImport, EndImport, EmploymentInv, TypeOK
  <1>3. TypeOK' /\ LeaveDated'
    BY <1>1, <1>2 DEF EmploymentInv, TypeOK, LeaveDated, Valid
  <1>4. QED
    BY <1>1, <1>3, RowsStay DEF Sound, Out

LEMMA ImportStep ==
    ASSUME EmploymentInv, NEW c \in Contracts, NEW effective \in Days, NEW unpaid \in BOOLEAN,
           ImportContract(c, effective, unpaid)
    PROVE  EmploymentInv'
  <1> DEFINE st   == StatusFromDates(import, effective, Never)
             row  == [status |-> st, effective |-> effective, expires |-> Never, parent |-> Null]
             rows == Published(c, row, contract)
             same == unpaid = import.unpaid
             e    == [import EXCEPT !.unpaid = unpaid]
             kept == [employee EXCEPT !.unpaid = unpaid]
  <1>1. /\ TypeOK /\ Valid(employee) /\ employee \in EmployeeRecord
        /\ import \in EmployeeRecord
    BY DEF EmploymentInv, TypeOK, LeaveDated, ImportContract
  <1>2. st \in ContractStatus
    BY <1>1, DatesFacts DEF TypeOK
  <1>3. /\ row \in ContractRecord
        /\ row.status = StatusFromDates(import, row.effective, row.expires)
    BY <1>2 DEF ContractRecord
  <1>4. /\ e \in EmployeeRecord /\ e.status = import.status /\ e.unpaid = unpaid
        /\ kept \in EmployeeRecord /\ kept.status = employee.status /\ kept.unpaid = unpaid
        /\ Valid(kept) /\ e.from \in Days \cup {Null}
        /\ same => Out(e) = Out(import)
        /\ Out(kept) /\ ~Out(e) => Out(employee)
    BY <1>1 DEF EmployeeRecord, Valid, Out
  <1>5. /\ Disturb(TRUE) /\ ~Exists(c)
        /\ UNCHANGED <<today, due, checked, raced>>
        /\ contract' = IF same THEN rows ELSE AfterSave(e, rows)
        /\ employee' = IF same THEN employee ELSE kept
        /\ import' = IF c = MaxContract THEN NoImport ELSE e
        /\ revived' = (Out(employee') /\ (revived \/ ~Out(e)))
    <2>1. ~Exists(c)
      BY DEF ImportContract, Fresh, Contracts
    <2>2. QED
      BY <2>1 DEF ImportContract
  <1> HIDE DEF st, row, e, rows, kept, same
  <1>6. plan' \in Plans \cup {NoPlan} /\ ~Sound'
    BY <1>1, <1>5, DisturbFacts
  <1>7. LeaveDated'
    BY <1>1, <1>4, <1>5 DEF LeaveDated
  <1>8. rows \in [Contracts -> ContractRecord \cup {NoContract}]
    BY <1>1, <1>3, PublishedFacts DEF TypeOK, rows
  <1>9. /\ employee' \in EmployeeRecord /\ revived' \in BOOLEAN
        /\ import' \in EmployeeRecord \cup {NoImport}
    <2>1. revived' \in BOOLEAN
      BY <1>1, <1>5 DEF TypeOK, Out
    <2>2. QED
      BY <2>1, <1>1, <1>4, <1>5
  <1>10. CASE ~same /\ Out(e)
    <2>1. contract' = AfterSave(e, rows)
      BY <1>5, <1>10
    <2>2. /\ contract' \in [Contracts -> ContractRecord \cup {NoContract}]
          /\ \A d \in Contracts : contract'[d] # NoContract => contract'[d].status = "EXPIRED"
      BY <2>1, <1>4, <1>8, <1>10, AfterSaveFacts
    <2>3. TypeOK'
      BY <1>1, <1>5, <1>6, <1>9, <2>2 DEF TypeOK
    <2>4. OneInForce' /\ ExitEndsContracts' /\ InForceCoversToday'
      BY <2>2 DEF OneInForce, ExitEndsContracts, InForceCoversToday, Exists, InForce
    <2>5. QED
      BY <1>6, <1>7, <2>3, <2>4 DEF EmploymentInv, PlanSound
  <1>11. CASE same \/ ~Out(e)
    <2>1. contract' = Published(c, row, contract)
      BY <1>4, <1>5, <1>8, <1>11, AfterSaveFacts DEF rows
    <2>2. (~revived' /\ Out(employee')) => (~revived /\ Out(employee) /\ Out(import))
      <3>1. CASE same
        BY <3>1, <1>1, <1>4, <1>5 DEF TypeOK
      <3>2. CASE ~same
        BY <3>2, <1>5, <1>11
      <3>3. QED
        BY <3>1, <3>2
    <2>3. /\ contract' \in [Contracts -> ContractRecord \cup {NoContract}]
          /\ OneInForce' /\ ExitEndsContracts' /\ InForceCoversToday'
      BY <1>3, <1>5, <2>1, <2>2, PublishedStep DEF Quiet
    <2>4. TypeOK'
      BY <1>1, <1>5, <1>6, <1>9, <2>3 DEF TypeOK
    <2>5. QED
      BY <1>6, <1>7, <2>3, <2>4 DEF EmploymentInv, PlanSound
  <1>12. QED
    BY <1>10, <1>11

LEMMA ContractStep ==
    ASSUME EmploymentInv, ContractActions
    PROVE  EmploymentInv'
  BY DraftSteps, PublishStep, ImportStep DEF ContractActions

-----------------------------------------------------------------------------
(* The nightly tasks                                                       *)

\* The task that returns employees from leave finds nobody the form accepts.
LEMMA ReturnStep ==
    ASSUME EmploymentInv, ReturnFromMaternity
    PROVE  EmploymentInv'
  <1>1. /\ UNCHANGED <<employee, contract, today, plan, import, checked, raced, revived>>
        /\ due' = due \ {"returns"}
    BY DEF ReturnFromMaternity, CanReactivate, history
  <1>2. TypeOK' /\ LeaveDated'
    BY <1>1 DEF EmploymentInv, TypeOK, LeaveDated, Valid
  <1>3. QED
    BY <1>1, <1>2, RowsStay DEF Sound, Out

LEMMA LeavesStep ==
    ASSUME EmploymentInv, StartLeaves
    PROVE  EmploymentInv'
  <1>1. /\ UNCHANGED <<contract, today, plan, import, checked, raced, revived>>
        /\ due' = due \ {"leaves"}
    BY DEF StartLeaves, history
  <1>2. employee \in EmployeeRecord /\ Valid(employee) /\ \A d \in Days : d # Null
    BY DayFacts DEF EmploymentInv, TypeOK, LeaveDated
  <1>3. employee' \in EmployeeRecord /\ Valid(employee') /\ (Out(employee') => Out(employee))
    <2>1. CASE UNCHANGED employee
      BY <1>2, <2>1
    <2>2. ASSUME NEW kind \in {"MATERNITY_LEAVE", "UNPAID_LEAVE"},
                 NEW s \in Days, NEW e \in Days,
                 employee' = [employee EXCEPT !.status = kind, !.from = s, !.until = e]
          PROVE  employee' \in EmployeeRecord /\ Valid(employee')
                   /\ (Out(employee') => Out(employee))
      <3>1. /\ employee' \in EmployeeRecord /\ employee'.status = kind
            /\ employee'.from = s /\ employee'.until = e /\ employee'.unpaid = employee.unpaid
        BY <1>2, <2>2 DEF EmployeeRecord, Leave, Working
      <3>2. QED
        BY <3>1, <1>2 DEF Valid, Out
    <2>3. QED
      BY <2>1, <2>2, EmploymentAssumption DEF StartLeaves
  <1>4. TypeOK' /\ LeaveDated'
    BY <1>1, <1>3 DEF EmploymentInv, TypeOK, LeaveDated
  <1>5. QED
    BY <1>1, <1>3, <1>4, RowsStay DEF Sound

LEMMA ReadsStep ==
    ASSUME EmploymentInv, CheckReads
    PROVE  EmploymentInv'
  <1> DEFINE effectual == {c \in Contracts : Exists(c) /\ contract[c].status # "DRAFT"}
             newest(c) == \A d \in effectual : d <= c
             decided(c) == IF newest(c)
                             THEN StatusFromDates(employee, contract[c].effective,
                                                  contract[c].expires)
                             ELSE "EXPIRED"
             status == [c \in Contracts |->
                           IF c \in effectual /\ decided(c) # contract[c].status
                             THEN decided(c) ELSE Keep]
  <1>1. TypeOK
    BY DEF EmploymentInv
  <1>2. /\ plan' = [disturbed |-> FALSE, status |-> status]
        /\ due' = due \ {"contracts"}
        /\ UNCHANGED <<today, employee, contract, import, checked, raced, revived>>
    BY DEF CheckReads, history
  <1>3. \A c \in effectual : c \in Contracts /\ contract[c] \in ContractRecord
    BY <1>1, RowTyped
  <1>4. ASSUME NEW c \in effectual
        PROVE  /\ decided(c) \in ContractStatus /\ decided(c) # "DRAFT"
               /\ Out(employee) => decided(c) = "EXPIRED"
               /\ decided(c) \in Started => Covers(contract[c])
    <2>1. /\ contract[c].effective \in Days /\ contract[c].expires \in Days \cup {Never}
          /\ today \in Days
      BY <1>1, <1>3 DEF ContractRecord, TypeOK
    <2>2. "EXPIRED" \in ContractStatus /\ "EXPIRED" \notin Started
      BY DEF ContractStatus, Started
    <2>3. QED
      BY <2>1, <2>2, DatesFacts DEF Covers
  <1>5. \A c, d \in effectual : c # d => decided(c) = "EXPIRED" \/ decided(d) = "EXPIRED"
    BY DEF Contracts
  <1>6. \A c \in Contracts \ effectual : Quiet(c)
    BY DEF Quiet
  <1> HIDE DEF decided, effectual
  <1>7. /\ plan'.status = status /\ ~plan'.disturbed
        /\ status \in [Contracts -> ContractStatus \cup {Keep}]
    BY <1>2, <1>4
  <1>8. \A c \in Contracts :
           \/ c \in effectual /\ status[c] = decided(c)
           \/ /\ c \in effectual /\ status[c] = Keep
              /\ decided(c) = contract[c].status
           \/ c \notin effectual /\ status[c] = Keep
    OBVIOUS
  <1> HIDE DEF status
  <1>9. \A c \in Contracts : (c \in effectual => decided(c) = "EXPIRED") => Tame(c)'
    BY <1>2, <1>6, <1>7, <1>8 DEF Tame, Quiet, Exists
  <1>10. PlanRows'
    BY <1>2, <1>7, <1>8 DEF PlanRows, effectual, Exists
  <1>11. PlanOne'
    BY <1>5, <1>9 DEF PlanOne
  <1>12. PlanExit'
    BY <1>2, <1>4, <1>9 DEF PlanExit
  <1>13. PlanCovers'
    <2>1. Keep \notin Started
      BY DEF Keep, Started
    <2>2. \A c \in Contracts \ effectual : Exists(c) => ~InForce(contract[c])
      BY <1>6 DEF Quiet, InForce
    <2>3. \A c \in effectual : decided(c) \in Started => Covers(contract[c])
      BY <1>4
    <2>4. ASSUME NEW c \in Contracts
          PROVE  /\ status[c] \in Started => Covers(contract[c])
                 /\ status[c] = Keep /\ Exists(c) /\ InForce(contract[c])
                       => Covers(contract[c])
      <3>1. CASE c \in effectual /\ status[c] = decided(c)
        <4>1. decided(c) # Keep
          BY <3>1, <1>4 DEF ContractStatus, Keep
        <4>2. QED
          BY <3>1, <4>1, <2>3
      <3>2. CASE /\ c \in effectual /\ status[c] = Keep
                 /\ decided(c) = contract[c].status
        BY <3>2, <2>1, <2>3 DEF InForce, Started
      <3>3. CASE c \notin effectual /\ status[c] = Keep
        BY <3>3, <2>1, <2>2
      <3>4. QED
        BY <1>8, <3>1, <3>2, <3>3
    <2>5. QED
      BY <1>2, <1>7, <2>4 DEF PlanCovers, Covers, Exists
  <1>14. TypeOK' /\ LeaveDated'
    BY <1>1, <1>2, <1>7 DEF TypeOK, Plans, EmploymentInv, LeaveDated, Valid
  <1>15. OneInForce' /\ ExitEndsContracts' /\ InForceCoversToday'
    BY <1>2
    DEF EmploymentInv, OneInForce, ExitEndsContracts, InForceCoversToday, Exists, InForce, Out
  <1>16. QED
    BY <1>10, <1>11, <1>12, <1>13, <1>14, <1>15 DEF EmploymentInv, PlanSound

LEMMA WritesStep ==
    ASSUME EmploymentInv, CheckWrites
    PROVE  EmploymentInv'
  <1> DEFINE Written(c) == [contract[c] EXCEPT !.status = plan.status[c]]
  <1>1. /\ plan # NoPlan /\ plan' = NoPlan /\ checked' = TRUE /\ raced' = plan.disturbed
        /\ revived' = (revived /\ plan.disturbed)
        /\ UNCHANGED <<today, employee, due, import>>
        /\ contract' = [c \in Contracts |->
              IF Exists(c) /\ plan.status[c] # Keep THEN Written(c) ELSE contract[c]]
    BY DEF CheckWrites
  <1>2. /\ TypeOK /\ plan \in Plans
        /\ \A c \in Contracts : plan.status[c] \in ContractStatus \cup {Keep}
        /\ contract \in [Contracts -> ContractRecord \cup {NoContract}]
    BY <1>1 DEF EmploymentInv, TypeOK, Plans
  <1>3. ASSUME NEW c \in Contracts, Exists(c), plan.status[c] # Keep
        PROVE  /\ Written(c) \in ContractRecord
               /\ Written(c).status = plan.status[c]
               /\ Written(c).effective = contract[c].effective
               /\ Written(c).expires = contract[c].expires
               /\ Written(c).parent = contract[c].parent
    <2>1. plan.status[c] \in ContractStatus /\ contract[c] \in ContractRecord
      BY <1>2, <1>3, RowTyped
    <2>2. QED
      BY <2>1, StatusFacts
  <1> HIDE DEF Written
  <1>4. contract' \in [Contracts -> ContractRecord \cup {NoContract}]
    BY <1>1, <1>2, <1>3
  <1>5. TypeOK' /\ LeaveDated'
    BY <1>1, <1>2, <1>4 DEF TypeOK, Plans, EmploymentInv, LeaveDated, Valid
  <1>6. CASE plan.disturbed
    BY <1>1, <1>5, <1>6
    DEF EmploymentInv, OneInForce, ExitEndsContracts, InForceCoversToday, PlanSound, Sound
  <1>7. CASE ~plan.disturbed
    <2>1. PlanOne /\ PlanExit /\ PlanCovers
      BY <1>1, <1>7 DEF EmploymentInv, PlanSound, Sound
    <2>2. ASSUME NEW c \in Contracts, contract'[c] # NoContract
          PROVE  /\ contract'[c].effective = contract[c].effective
                 /\ contract'[c].expires = contract[c].expires
                 /\ Tame(c) => contract'[c].status \in {"DRAFT", "EXPIRED"}
                 /\ contract'[c].status \in Started => Covers(contract[c])
      <3>1. CASE plan.status[c] # Keep
        <4>1. Exists(c) /\ contract'[c] = Written(c)
          BY <1>1, <2>2, <3>1 DEF Exists
        <4>2. QED
          BY <4>1, <1>3, <2>1, <3>1 DEF Tame, PlanCovers
      <3>2. CASE plan.status[c] = Keep
        <4>1. Exists(c) /\ contract'[c] = contract[c]
          BY <1>1, <2>2, <3>2 DEF Exists
        <4>2. Keep # "EXPIRED"
          BY DEF Keep
        <4>3. QED
          BY <4>1, <4>2, <2>1, <3>2, InForceStarted DEF Tame, Quiet, PlanCovers
      <3>3. QED
        BY <3>1, <3>2
    <2>3. OneInForce'
      BY <2>1, <2>2 DEF OneInForce, PlanOne, Exists, InForce
    <2>4. ExitEndsContracts'
      BY <1>1, <2>1, <2>2 DEF ExitEndsContracts, PlanExit, Exists
    <2>5. InForceCoversToday'
      BY <1>1, <2>2, InForceStarted DEF InForceCoversToday, Covers, Exists
    <2>6. QED
      BY <1>1, <1>5, <2>3, <2>4, <2>5 DEF EmploymentInv, PlanSound, Sound
  <1>8. QED
    BY <1>6, <1>7

\* A check that dies, and midnight.
LEMMA QuietStep ==
    ASSUME EmploymentInv, CheckDies \/ NextDay
    PROVE  EmploymentInv'
  <1>1. /\ UNCHANGED <<employee, contract, import, raced, revived>> /\ plan' = NoPlan
        /\ checked' \in BOOLEAN /\ due' \subseteq Tasks /\ today' \in Days
        /\ today' = today \/ checked' = FALSE
        /\ checked' = checked \/ checked' = FALSE
    <2>1. CASE CheckDies
      BY <2>1 DEF CheckDies, history, EmploymentInv, TypeOK
    <2>2. CASE NextDay
      <3>1. today' \in Days
        BY <2>2, EmploymentAssumption DEF NextDay, Days, EmploymentInv, TypeOK
      <3>2. QED
        BY <2>2, <3>1 DEF NextDay
    <2>3. QED
      BY <2>1, <2>2
  <1>2. TypeOK'
    BY <1>1 DEF EmploymentInv, TypeOK
  <1>3. LeaveDated' /\ OneInForce' /\ ExitEndsContracts' /\ InForceCoversToday'
    BY <1>1
    DEF EmploymentInv, LeaveDated, OneInForce, ExitEndsContracts, InForceCoversToday, Exists,
        InForce, Out, Valid
  <1>4. QED
    BY <1>1, <1>2, <1>3 DEF EmploymentInv, PlanSound, Sound

-----------------------------------------------------------------------------
(* The invariant                                                           *)

LEMMA EmploymentInit == Init => EmploymentInv
  <1> SUFFICES ASSUME Init PROVE EmploymentInv
    OBVIOUS
  <1>1. TypeOK
    <2>1. today \in Days
      BY EmploymentAssumption DEF Init, Days
    <2>2. employee \in EmployeeRecord
      BY DEF Init, EmployeeRecord
    <2>3. contract \in [Contracts -> ContractRecord \cup {NoContract}]
      BY DEF Init
    <2>4. QED
      BY <2>1, <2>2, <2>3 DEF Init, TypeOK, Tasks
  <1>2. LeaveDated
    BY DEF Init, LeaveDated, Valid, Working, Leave
  <1>3. OneInForce /\ ExitEndsContracts /\ InForceCoversToday
    BY DEF Init, OneInForce, ExitEndsContracts, InForceCoversToday, Exists
  <1>4. QED
    BY <1>1, <1>2, <1>3 DEF Init, EmploymentInv, PlanSound, Sound

LEMMA EmploymentNext == EmploymentInv /\ [Next]_vars => EmploymentInv'
  <1> SUFFICES ASSUME EmploymentInv, [Next]_vars PROVE EmploymentInv'
    OBVIOUS
  <1>1. CASE UNCHANGED vars
    <2>1. UNCHANGED <<today, employee, contract, due, plan, import, checked, raced, revived>>
      BY <1>1 DEF vars
    <2>2. TypeOK' /\ LeaveDated'
      BY <2>1 DEF EmploymentInv, TypeOK, LeaveDated, Valid
    <2>3. QED
      BY <2>1, <2>2, RowsStay DEF Sound, Out
  <1>2. CASE Next
    BY <1>2, EmployeeStep, ContractStep, ImportsStep, ReturnStep, LeavesStep, ReadsStep, WritesStep,
       QuietStep
    DEF Next, NightlyTasks
  <1>3. QED
    BY <1>1, <1>2

LEMMA EmploymentAlways == Spec => []EmploymentInv
  BY EmploymentInit, EmploymentNext, PTL DEF Spec

\* Rows and memory are typed for any number of contracts and days.
THEOREM EmploymentTyped == Spec => []TypeOK
  <1>1. EmploymentInv => TypeOK
    BY DEF EmploymentInv
  <1>2. QED
    BY <1>1, EmploymentAlways, PTL

\* At most one contract of an employee is in force, however publications, imports,
\* exits and checks follow each other, once an undisturbed check has made good
\* what an overlapped one left.
THEOREM AtMostOneInForce == Spec => []OneInForce
  <1>1. EmploymentInv => OneInForce
    BY DEF EmploymentInv
  <1>2. QED
    BY <1>1, EmploymentAlways, PTL

\* No path out of the company leaves a contract in force, but for an import that
\* holds the employee of before, until the next save of the employee or check.
THEOREM ExitAlwaysEndsContracts == Spec => []ExitEndsContracts
  <1>1. EmploymentInv => ExitEndsContracts
    BY DEF EmploymentInv
  <1>2. QED
    BY <1>1, EmploymentAlways, PTL

\* After the check of the day, what is in force covers the day.
THEOREM InForceAlwaysCoversToday == Spec => []InForceCoversToday
  <1>1. EmploymentInv => InForceCoversToday
    BY DEF EmploymentInv
  <1>2. QED
    BY <1>1, EmploymentAlways, PTL

\* No action, import or bulk update leaves an employee on leave without its dates.
THEOREM LeaveAlwaysDated == Spec => []LeaveDated
  <1>1. EmploymentInv => LeaveDated
    BY DEF EmploymentInv
  <1>2. QED
    BY <1>1, EmploymentAlways, PTL
=============================================================================
