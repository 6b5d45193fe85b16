------------------------ MODULE KpiAssessmentProofs ------------------------
(***************************************************************************)
(* Proofs about KpiAssessment for any staff, any grades, any number of     *)
(* requests, of requests at once and of workers.                           *)
(***************************************************************************)
EXTENDS KpiAssessment, TLAPS

\* A manager's grade comes from item scores, in a row and in every copy of it.
GradesScored ==
    /\ \A e \in Employees : items[e].mgr = None => row[e].gm = None
    /\ \A f \in Forms : items[form[f].who].mgr = None =>
          form[f].row.gm = None /\ form[f].items.mgr = None

\* Which steps a request of each kind goes through, and that those that score loaded
\* a row that was not final.
FormsChecked ==
    \A f \in Forms :
        /\ form[f].kind \in {"SELF", "MANAGER", "ITEM", "JOIN"} => form[f].early
        /\ form[f].last =>
              /\ form[f].kind \in {"SELF", "MANAGER", "ITEM", "JOIN", "HRM"}
              /\ form[f].step \in {"WRITTEN", "JUDGED", "TOLD", "MARKED"}
        /\ form[f].kind = "HRM" => form[f].step = "LOADED" \/ form[f].last
        /\ form[f].kind = "IDLE" => form[f].step = "LOADED"
        /\ form[f].kind = "DEPARTMENT" => form[f].step \in {"LOADED", "SAVED"}
        /\ form[f].kind = "JOIN" => form[f].who = Joiner

\* A request that has written scores holds the totals of the items that it read.
ScoresHeld ==
    \A f \in Forms :
        form[f].last /\ form[f].kind # "HRM" /\ form[f].step # "MARKED" =>
            /\ form[f].row.self = form[f].items.self
            /\ form[f].row.mgr = form[f].items.mgr
            /\ form[f].items.mgr # None =>
                  form[f].row.gm = GradeOf(form[f].row.over, form[f].items.mgr)

\* Nothing is known of an employee who has no assessment yet.
Unhired == Joiner \notin exists => row[Joiner] = NewRow /\ items[Joiner] = NoScores

\* A worker that holds a grade holds it for somebody, and unless another saved the
\* slip since, a grade that no longer counts is on its way out.
TasksFollow ==
    \A w \in Workers :
        /\ worker[w].grade # None => worker[w].who # None
        /\ worker[w].who # None /\ ~worker[w].old =>
              Coming(worker[w].who) \/ worker[w].who \in lagging

KpiInv ==
    /\ TypeOK /\ GradesScored /\ FormsChecked /\ ScoresHeld /\ Unhired /\ TasksFollow
    /\ Coherent /\ SlipFollows /\ DeptFollows

\* FinalKept, of one step.
Kept == \A e \in Employees :
    row[e].final /\ Judged(row'[e]) # Judged(row[e]) =>
       \E f \in Forms :
          /\ form[f].who = e /\ form'[f] # form[f]
          /\ \/ form[f].early
             \/ (form[f].kind = "HRM" /\ form[f].row # row[e])

\* What a row at rest looks like, without its status and with it.
TotalsRight(e) ==
    /\ row[e].self = items[e].self /\ row[e].mgr = items[e].mgr
    /\ row[e].gm = GradeOf(row[e].over, items[e].mgr)

RowRight(e) == TotalsRight(e) /\ row[e].status = Derived(row[e])

Busy(e) == \E f \in Forms : form[f].who = e /\ HalfWay(f)

Steps == {"LOADED", "WRITTEN", "JUDGED", "TOLD", "MARKED", "SAVED", "SCORED",
          "RELOADED", "READ"}

\* Request f goes on to step s, with these values in memory; no other moves.
Moved(f, s, l, r, i, d, n) ==
    /\ form' \in [Forms -> FormRecord]
    /\ \A g \in Forms : g # f => form'[g] = form[g]
    /\ form'[f].kind = form[f].kind /\ form'[f].who = form[f].who
    /\ form'[f].early = form[f].early
    /\ form'[f].step = s /\ form'[f].last = l /\ form'[f].row = r
    /\ form'[f].items = i /\ form'[f].dept = d /\ form'[f].seen = n

\* It ends.
Ended(f) ==
    /\ form' \in [Forms -> FormRecord]
    /\ \A g \in Forms : g # f => form'[g] = form[g]
    /\ form'[f] = Idle

-----------------------------------------------------------------------------
(* Facts about records                                                     *)

LEMMA CoherentMeans == Coherent <=> \A e \in exists \ touched : Busy(e) \/ RowRight(e)
  BY DEF Coherent, Busy, RowRight, TotalsRight

LEMMA JoinerFacts == Joiner \in Employees /\ Leader \in Employees /\ Joiner # Leader
                     /\ None \notin Employees
  BY KpiAssumption DEF Employees

LEMMA NewRowFacts ==
    /\ NewRow \in RowRecord /\ NoScores \in ItemsRecord /\ NoDept \in DeptRecord
    /\ NewRow.self = FALSE /\ NewRow.mgr = None /\ NewRow.gm = None
    /\ NewRow.over = None /\ NewRow.hrm = None /\ NewRow.status = "NEW"
    /\ ~NewRow.final
    /\ NoScores.self = FALSE /\ NoScores.mgr = None
  BY DEF NewRow, RowRecord, NoScores, ItemsRecord, GradeOrNone, NoDept, DeptRecord

LEMMA IdleFacts ==
    /\ Idle \in FormRecord /\ Idle.kind = "IDLE" /\ Idle.step = "LOADED" /\ ~Idle.last
    /\ Idle.who = Leader /\ Idle.row = NewRow /\ Idle.items = NoScores
  BY NewRowFacts, JoinerFacts DEF Idle, FormRecord

LEMMA NoTaskFacts ==
    NoTask \in TaskRecord /\ NoTask.who = None /\ NoTask.grade = None /\ ~NoTask.old
  BY DEF NoTask, TaskRecord, GradeOrNone

LEMMA NoSweepFacts ==
    /\ NoSweep \in SweepRecord /\ NoSweep.loaded = {} /\ NoSweep.defaulted = {}
  BY DEF NoSweep, SweepRecord

LEMMA GradeOfTyped ==
    ASSUME NEW over \in GradeOrNone, NEW mgr \in Scored \cup {None}
    PROVE  GradeOf(over, mgr) \in GradeOrNone
  BY KpiAssumption DEF GradeOf, GradeOrNone

LEMMA DerivedTyped ==
    ASSUME NEW r
    PROVE  Derived(r) \in {"NEW", "WAITING_MANAGER", "COMPLETED"}
  BY DEF Derived

LEMMA PayGradeTyped ==
    ASSUME NEW r \in RowRecord
    PROVE  PayGrade(r) \in Grades /\ PayGrade(r) # None
  BY KpiAssumption DEF PayGrade, RowRecord, GradeOrNone

LEMMA SameColumns ==
    ASSUME NEW r, NEW v, Assessed(v) = Assessed(r)
    PROVE  /\ v.self = r.self /\ v.mgr = r.mgr /\ v.gm = r.gm /\ v.over = r.over
           /\ v.status = r.status /\ Derived(v) = Derived(r)
  BY DEF Assessed, Derived

LEMMA StatusWritten ==
    ASSUME NEW r \in RowRecord,
           NEW s \in {"NEW", "WAITING_MANAGER", "COMPLETED"},
           NEW v, v = [r EXCEPT !.status = s]
    PROVE  /\ v \in RowRecord /\ v.status = s
           /\ v.self = r.self /\ v.mgr = r.mgr /\ v.gm = r.gm /\ v.over = r.over
           /\ v.hrm = r.hrm /\ v.final = r.final
  BY DEF RowRecord

LEMMA OverWritten ==
    ASSUME NEW r \in RowRecord, NEW g \in Grades, NEW v, v = [r EXCEPT !.over = g]
    PROVE  v \in RowRecord /\ v.gm = r.gm
  BY DEF RowRecord, GradeOrNone

LEMMA GradeGiven ==
    ASSUME NEW r \in RowRecord, NEW g \in GradeOrNone, NEW v,
           \/ v = [r EXCEPT !.hrm = g]
           \/ v = [r EXCEPT !.hrm = g, !.assessed = TRUE]
    PROVE  /\ v \in RowRecord /\ v.hrm = g
           /\ v.self = r.self /\ v.mgr = r.mgr /\ v.gm = r.gm /\ v.over = r.over
           /\ v.final = r.final /\ v.status = r.status
  BY DEF RowRecord, GradeOrNone

LEMMA RecalculatedFacts ==
    ASSUME NEW r \in RowRecord, NEW i \in ItemsRecord,
           NEW n, n = Recalculated(r, i)
    PROVE  /\ n \in RowRecord /\ n.self = i.self /\ n.mgr = i.mgr /\ n.over = r.over
           /\ n.gm = IF i.mgr # None THEN GradeOf(r.over, i.mgr) ELSE r.gm
  <1> DEFINE gm == IF i.mgr # None THEN GradeOf(r.over, i.mgr) ELSE r.gm
  <1>1. i.self \in BOOLEAN /\ i.mgr \in Scored \cup {None}
    BY DEF ItemsRecord
  <1>2. r.over \in GradeOrNone /\ r.gm \in GradeOrNone
    BY DEF RowRecord
  <1>3. gm \in GradeOrNone
    BY <1>1, <1>2, GradeOfTyped
  <1>4. n = [r EXCEPT !.self = i.self, !.mgr = i.mgr, !.gm = gm]
    BY DEF Recalculated
  <1> HIDE DEF gm
  <1>5. n \in RowRecord /\ n.self = i.self /\ n.mgr = i.mgr /\ n.gm = gm /\ n.over = r.over
    BY <1>1, <1>3, <1>4 DEF RowRecord
  <1>6. QED
    BY <1>5 DEF gm

LEMMA ScoresWritten ==
    ASSUME NEW r \in RowRecord, NEW n \in RowRecord, NEW v,
           v = [r EXCEPT !.self = n.self, !.mgr = n.mgr, !.gm = n.gm]
    PROVE  v \in RowRecord /\ v.self = n.self /\ v.mgr = n.mgr /\ v.gm = n.gm
  BY DEF RowRecord

-----------------------------------------------------------------------------
(* How requests move                                                       *)

\* Typed records with some fields replaced.
LEMMA FormChanged ==
    ASSUME NEW v \in FormRecord, NEW s \in Steps, NEW l \in BOOLEAN, NEW r \in RowRecord,
           NEW i \in ItemsRecord, NEW d \in DeptRecord, NEW n \in SUBSET Employees
    PROVE  LET u == [kind |-> v.kind, step |-> s, last |-> l, who |-> v.who, row |-> r,
                     items |-> i, dept |-> d, seen |-> n, early |-> v.early]
           IN  u \in FormRecord
  BY DEF FormRecord, Steps

LEMMA FormFields ==
    ASSUME NEW v \in FormRecord
    PROVE  /\ v = [kind |-> v.kind, step |-> v.step, last |-> v.last, who |-> v.who,
                   row |-> v.row, items |-> v.items, dept |-> v.dept, seen |-> v.seen,
                   early |-> v.early]
           /\ v.step \in Steps /\ v.last \in BOOLEAN /\ v.row \in RowRecord
           /\ v.items \in ItemsRecord /\ v.dept \in DeptRecord
           /\ v.seen \in SUBSET Employees /\ v.who \in Employees
  BY DEF FormRecord, Steps

LEMMA MovedBy ==
    ASSUME form \in [Forms -> FormRecord], NEW f \in Forms, NEW v \in FormRecord,
           form' = [form EXCEPT ![f] = v],
           v.kind = form[f].kind, v.who = form[f].who, v.early = form[f].early
    PROVE  Moved(f, v.step, v.last, v.row, v.items, v.dept, v.seen)
  BY DEF Moved

LEMMA EndedBy ==
    ASSUME form \in [Forms -> FormRecord], NEW f \in Forms, form' = [form EXCEPT ![f] = Idle]
    PROVE  Ended(f)
  BY IdleFacts DEF Ended

LEMMA SaveMoves ==
    ASSUME TypeOK, NEW f \in Forms, NEW r \in RowRecord, NEW held \in RowRecord,
           NEW last \in BOOLEAN, Save(f, r, held, last)
    PROVE  /\ Moved(f, "WRITTEN", last, held, form[f].items, form[f].dept, form[f].seen)
           /\ row' \in [Employees -> RowRecord] /\ row'[form[f].who] = r
           /\ \A d \in Employees : d # form[f].who => row'[d] = row[d]
           /\ ~Locked(form[f].who)
           /\ UNCHANGED <<items, dept, closed, late, sweep, made, slip, pending, worker,
                          lagging, deptOld>>
  <1>1. form \in [Forms -> FormRecord] /\ form[f] \in FormRecord /\ form[f].who \in Employees
    BY DEF TypeOK, FormRecord
  <1> DEFINE v == [form[f] EXCEPT !.row = held, !.step = "WRITTEN", !.last = last]
  <1>2. form' = [form EXCEPT ![f] = v]
    BY DEF Save
  <1>3. /\ v \in FormRecord /\ v.kind = form[f].kind /\ v.who = form[f].who
        /\ v.early = form[f].early /\ v.step = "WRITTEN" /\ v.last = last /\ v.row = held
        /\ v.items = form[f].items /\ v.dept = form[f].dept /\ v.seen = form[f].seen
    BY <1>1 DEF FormRecord
  <1> HIDE DEF v
  <1>4. Moved(f, "WRITTEN", last, held, form[f].items, form[f].dept, form[f].seen)
    BY <1>1, <1>2, <1>3, MovedBy
  <1>5. /\ row' \in [Employees -> RowRecord] /\ row'[form[f].who] = r
        /\ \A d \in Employees : d # form[f].who => row'[d] = row[d]
    BY <1>1 DEF Save, TypeOK
  <1>6. QED
    BY <1>4, <1>5 DEF Save, period, payroll

\* Requests that go on with the step alone changed, or with who was seen.
LEMMA StepMoves ==
    ASSUME TypeOK, NEW f \in Forms, NEW s \in Steps, form' = [form EXCEPT ![f].step = s]
    PROVE  Moved(f, s, form[f].last, form[f].row, form[f].items, form[f].dept, form[f].seen)
  <1>1. form \in [Forms -> FormRecord] /\ form[f] \in FormRecord
    BY DEF TypeOK
  <1> DEFINE v == [form[f] EXCEPT !.step = s]
  <1>2. form' = [form EXCEPT ![f] = v]
    OBVIOUS
  <1>3. /\ v \in FormRecord /\ v.kind = form[f].kind /\ v.who = form[f].who
        /\ v.early = form[f].early /\ v.step = s /\ v.last = form[f].last
        /\ v.row = form[f].row /\ v.items = form[f].items /\ v.dept = form[f].dept
        /\ v.seen = form[f].seen
    BY <1>1 DEF FormRecord, Steps
  <1> HIDE DEF v
  <1>4. QED
    BY <1>1, <1>2, <1>3, MovedBy

LEMMA SeenMoves ==
    ASSUME TypeOK, NEW f \in Forms, NEW s \in Steps, NEW n \in SUBSET Employees,
           form' = [form EXCEPT ![f].step = s, ![f].seen = n]
    PROVE  Moved(f, s, form[f].last, form[f].row, form[f].items, form[f].dept, n)
  <1>1. form \in [Forms -> FormRecord] /\ form[f] \in FormRecord
    BY DEF TypeOK
  <1> DEFINE v == [form[f] EXCEPT !.step = s, !.seen = n]
  <1>2. form' = [form EXCEPT ![f] = v]
    OBVIOUS
  <1>3. /\ v \in FormRecord /\ v.kind = form[f].kind /\ v.who = form[f].who
        /\ v.early = form[f].early /\ v.step = s /\ v.last = form[f].last
        /\ v.row = form[f].row /\ v.items = form[f].items /\ v.dept = form[f].dept
        /\ v.seen = n
    BY <1>1 DEF FormRecord, Steps
  <1> HIDE DEF v
  <1>4. QED
    BY <1>1, <1>2, <1>3, MovedBy

LEMMA RowMoves ==
    ASSUME TypeOK, NEW f \in Forms, NEW s \in Steps, NEW r \in RowRecord, NEW v,
           v = [form[f] EXCEPT !.step = s, !.row = r], form' = [form EXCEPT ![f] = v]
    PROVE  Moved(f, s, form[f].last, r, form[f].items, form[f].dept, form[f].seen)
  <1>1. form \in [Forms -> FormRecord] /\ form[f] \in FormRecord
    BY DEF TypeOK
  <1>2. /\ v \in FormRecord /\ v.kind = form[f].kind /\ v.who = form[f].who
        /\ v.early = form[f].early /\ v.step = s /\ v.last = form[f].last
        /\ v.row = r /\ v.items = form[f].items /\ v.dept = form[f].dept
        /\ v.seen = form[f].seen
    BY <1>1 DEF FormRecord, Steps
  <1>3. QED
    BY <1>1, <1>2, MovedBy

LEMMA ItemsMove ==
    ASSUME TypeOK, NEW f \in Forms, NEW s \in Steps, NEW i \in ItemsRecord,
           form' = [form EXCEPT ![f].step = s, ![f].items = i]
    PROVE  Moved(f, s, form[f].last, form[f].row, i, form[f].dept, form[f].seen)
  <1>1. form \in [Forms -> FormRecord] /\ form[f] \in FormRecord
    BY DEF TypeOK
  <1> DEFINE v == [form[f] EXCEPT !.step = s, !.items = i]
  <1>2. form' = [form EXCEPT ![f] = v]
    OBVIOUS
  <1>3. /\ v \in FormRecord /\ v.kind = form[f].kind /\ v.who = form[f].who
        /\ v.early = form[f].early /\ v.step = s /\ v.last = form[f].last
        /\ v.row = form[f].row /\ v.items = i /\ v.dept = form[f].dept
        /\ v.seen = form[f].seen
    BY <1>1 DEF FormRecord, Steps
  <1> HIDE DEF v
  <1>4. QED
    BY <1>1, <1>2, <1>3, MovedBy

LEMMA DeptMoves ==
    ASSUME TypeOK, NEW f \in Forms, NEW s \in Steps, NEW d \in DeptRecord,
           form' = [form EXCEPT ![f].step = s, ![f].dept = d]
    PROVE  Moved(f, s, form[f].last, form[f].row, form[f].items, d, form[f].seen)
  <1>1. form \in [Forms -> FormRecord] /\ form[f] \in FormRecord
    BY DEF TypeOK
  <1> DEFINE v == [form[f] EXCEPT !.step = s, !.dept = d]
  <1>2. form' = [form EXCEPT ![f] = v]
    OBVIOUS
  <1>3. /\ v \in FormRecord /\ v.kind = form[f].kind /\ v.who = form[f].who
        /\ v.early = form[f].early /\ v.step = s /\ v.last = form[f].last
        /\ v.row = form[f].row /\ v.items = form[f].items /\ v.dept = d
        /\ v.seen = form[f].seen
    BY <1>1 DEF FormRecord, Steps
  <1> HIDE DEF v
  <1>4. QED
    BY <1>1, <1>2, <1>3, MovedBy

-----------------------------------------------------------------------------
(* What keeps each part of the invariant                                   *)

\* Rows at rest: whatever else happens, a row at rest stays right as long as it keeps
\* its columns and items, and requests half way stay so or leave the row touched.
LEMMA RowsKept ==
    ASSUME Coherent,
           \A e \in exists' \ touched' :
              \/ Busy(e)' \/ RowRight(e)'
              \/ /\ e \in exists \ touched /\ (RowRight(e) => RowRight(e)')
                 /\ \A g \in Forms : form[g].who = e /\ HalfWay(g) =>
                       form'[g].who = e /\ HalfWay(g)'
    PROVE  Coherent'
  <1>1. ASSUME NEW e \in exists' \ touched' PROVE Busy(e)' \/ RowRight(e)'
    <2>1. CASE ~Busy(e)' /\ ~RowRight(e)'
      <3>1. e \in exists \ touched /\ (RowRight(e) => RowRight(e)') /\ ~Busy(e)
        BY <1>1, <2>1 DEF Busy
      <3>2. QED
        BY <3>1, CoherentMeans
    <2>2. QED
      BY <2>1
  <1>2. QED
    BY <1>1 DEF Coherent, Busy, RowRight, TotalsRight

LEMMA SameRowRight ==
    ASSUME NEW e, Assessed(row'[e]) = Assessed(row[e]),
           items'[e].self = items[e].self, items'[e].mgr = items[e].mgr, RowRight(e)
    PROVE  RowRight(e)'
  <1>1. /\ row'[e].self = row[e].self /\ row'[e].mgr = row[e].mgr /\ row'[e].gm = row[e].gm
        /\ row'[e].over = row[e].over /\ row'[e].status = row[e].status
        /\ Derived(row'[e]) = Derived(row[e])
    BY SameColumns
  <1>2. QED
    BY <1>1 DEF RowRight, TotalsRight

\* The slips: no task moves, and a grade that changes has somebody to bring it.
LEMMA SlipsKept ==
    ASSUME TypeOK, SlipFollows, TasksFollow, slip' = slip, worker' = worker,
           \A e \in Employees : pending'[e] >= pending[e] /\ pending'[e] \in Nat,
           lagging \subseteq lagging',
           \A e \in Employees :
              \/ PayGrade(row'[e]) = PayGrade(row[e])
              \/ e \in lagging'
              \/ \E f \in Forms : form'[f].who = e /\ InHandler(f)',
           \A f \in Forms : InHandler(f) =>
              \/ form'[f].who = form[f].who /\ InHandler(f)'
              \/ form[f].who \in lagging'
              \/ pending'[form[f].who] > 0
    PROVE  SlipFollows' /\ TasksFollow'
  <1>1. ASSUME NEW e \in Employees, Coming(e) \/ e \in lagging
        PROVE  Coming(e)' \/ e \in lagging'
    <2>1. CASE pending[e] > 0
      BY <2>1 DEF Coming, TypeOK
    <2>2. CASE \E f \in Forms : form[f].who = e /\ InHandler(f)
      BY <2>2 DEF Coming
    <2>3. CASE \E w \in Workers : worker[w].who = e /\ worker[w].grade \in {None, PayGrade(row[e])}
      BY <2>3 DEF Coming
    <2>4. QED
      BY <1>1, <2>1, <2>2, <2>3 DEF Coming
  <1>2. ASSUME NEW e \in Employees, PayGrade(row'[e]) # PayGrade(row[e])
        PROVE  Coming(e)' \/ e \in lagging'
    BY <1>2 DEF Coming
  <1>3. SlipFollows'
    BY <1>1, <1>2 DEF SlipFollows
  <1>4. \A w \in Workers : worker[w].who \in Employees \cup {None}
    BY DEF TypeOK, TaskRecord
  <1>5. TasksFollow'
    BY <1>1, <1>4 DEF TasksFollow
  <1>6. QED
    BY <1>3, <1>5

\* The department.
LEMMA DeptKept ==
    ASSUME DeptFollows, dept'.finished = dept.finished, deptOld => deptOld',
           Ungraded(row', exists') = Ungraded(row, exists),
           \A f \in Forms : form[f].step \in {"WRITTEN", "JUDGED"} =>
              form'[f].step \in {"WRITTEN", "JUDGED"} \/ deptOld'
    PROVE  DeptFollows'
  BY DEF DeptFollows

LEMMA SameGraded ==
    ASSUME \A e \in exists : Graded(row'[e]) = Graded(row[e])
    PROVE  Ungraded(row', exists) = Ungraded(row, exists)
  BY DEF Ungraded

\* What is kept of what was judged, when a request saves a row.
LEMMA KeptBy ==
    ASSUME NEW f \in Forms, form'[f] # form[f],
           \A d \in Employees : d # form[f].who => Judged(row'[d]) = Judged(row[d]),
           LET e == form[f].who IN
              \/ form[f].early
              \/ form[f].kind = "HRM" /\ form[f].row # row[e]
              \/ ~row[e].final
              \/ Judged(row'[e]) = Judged(row[e])
    PROVE  Kept
  BY DEF Kept

-----------------------------------------------------------------------------
(* Requests                                                                *)

LEMMA LoadKeeps ==
    ASSUME KpiInv, NEW f \in Forms, NEW e \in Employees,
           NEW kind \in {"SELF", "MANAGER", "ITEM", "HRM", "DEPARTMENT", "JOIN"},
           Load(f, kind, e),
           IF kind = "JOIN" THEN e = Joiner /\ Joiner \notin exists ELSE e \in exists,
           kind \in {"SELF", "MANAGER", "ITEM"} => ~row[e].final
    PROVE  KpiInv' /\ Kept
  <1> DEFINE i == IF kind = "ITEM" THEN items[e] ELSE NoScores
  <1> DEFINE d == IF kind = "DEPARTMENT" THEN dept ELSE NoDept
  <1> DEFINE v == [kind |-> kind, step |-> "LOADED", last |-> FALSE, who |-> e,
                   row |-> row[e], items |-> i, dept |-> d, seen |-> {},
                   early |-> ~row[e].final]
  <1>1. /\ row[e] \in RowRecord /\ i \in ItemsRecord /\ d \in DeptRecord
        /\ (~row[e].final) \in BOOLEAN
    BY NewRowFacts DEF KpiInv, TypeOK, RowRecord
  <1>2. form' = [form EXCEPT ![f] = v] /\ form[f].kind = "IDLE"
    BY DEF Load
  <1>3. /\ v \in FormRecord /\ v.kind = kind /\ v.step = "LOADED" /\ ~v.last /\ v.who = e
        /\ v.row = row[e] /\ v.items = i /\ v.early = ~row[e].final
    BY <1>1 DEF FormRecord
  <1> HIDE DEF v
  <1>4. /\ form' \in [Forms -> FormRecord] /\ form'[f] = v
        /\ \A g \in Forms : g # f => form'[g] = form[g]
    BY <1>2, <1>3 DEF KpiInv, TypeOK
  <1>5. /\ row' = row /\ items' = items /\ exists' = exists /\ dept' = dept
        /\ closed' = closed /\ late' = late /\ sweep' = sweep /\ slip' = slip
        /\ pending' = pending /\ worker' = worker /\ touched' = touched
        /\ lagging' = lagging /\ deptOld' = deptOld /\ made' = made + 1 /\ made < MaxForms
    BY DEF Load, kpi, period, payroll, history
  <1>6. form[f].step = "LOADED"
    BY <1>2 DEF KpiInv, FormsChecked
  <1>7. ~InHandler(f) /\ ~HalfWay(f)
    BY <1>6 DEF InHandler, HalfWay
  <1>8. TypeOK'
    <2>1. \A g \in Forms :
             form'[g].who \in exists' \/ (form'[g].kind = "JOIN" /\ form'[g].step = "LOADED")
      <3>1. form'[f].who \in exists' \/ (form'[f].kind = "JOIN" /\ form'[f].step = "LOADED")
        BY <1>3, <1>4, <1>5
      <3>2. QED
        BY <1>4, <1>5, <3>1 DEF KpiInv, TypeOK
    <2>2. made' \in 0 .. MaxForms
      BY <1>5, KpiAssumption DEF KpiInv, TypeOK
    <2>3. QED
      BY <1>4, <1>5, <2>1, <2>2 DEF KpiInv, TypeOK
  <1>9. GradesScored'
    <2>1. i.mgr = None \/ i = items[e]
      BY NewRowFacts
    <2>2. QED
      BY <1>3, <1>4, <1>5, <2>1 DEF KpiInv, GradesScored
  <1>10. FormsChecked'
    <2>1. kind \in {"SELF", "MANAGER", "ITEM", "JOIN"} => ~row[e].final
      BY NewRowFacts DEF KpiInv, Unhired
    <2>2. /\ kind \in {"SELF", "MANAGER", "ITEM", "JOIN"} => v.early
          /\ kind = "JOIN" => v.who = Joiner
      BY <1>3, <2>1
    <2>3. ~v.last /\ v.step = "LOADED" /\ v.kind = kind
      BY <1>3
    <2>4. QED
      BY <1>4, <2>2, <2>3 DEF KpiInv, FormsChecked
  <1>11. ScoresHeld'
    BY <1>3, <1>4 DEF KpiInv, ScoresHeld
  <1>12. Unhired'
    BY <1>5 DEF KpiInv, Unhired
  <1>13. Coherent'
    <2>1. \A g \in Forms : HalfWay(g) => form'[g] = form[g]
      BY <1>4, <1>7
    <2>2. \A g \in Forms : HalfWay(g) => HalfWay(g)'
      BY <2>1 DEF HalfWay
    <2>3. \A c : RowRight(c) => RowRight(c)'
      BY <1>5 DEF RowRight, TotalsRight
    <2>4. QED
      BY <1>5, <2>1, <2>2, <2>3, RowsKept DEF KpiInv
  <1>14. SlipFollows' /\ TasksFollow'
    <2>1. \A g \in Forms : InHandler(g) => form'[g] = form[g] /\ InHandler(g)'
      BY <1>4, <1>7 DEF InHandler
    <2>2. \A c \in Employees : pending'[c] >= pending[c] /\ pending'[c] \in Nat
      BY <1>5 DEF KpiInv, TypeOK
    <2>3. QED
      BY <1>5, <2>1, <2>2, SlipsKept DEF KpiInv
  <1>15. DeptFollows'
    <2>1. \A g \in Forms : form[g].step \in {"WRITTEN", "JUDGED"} => form'[g] = form[g]
      BY <1>4, <1>6
    <2>2. QED
      BY <1>5, <2>1, DeptKept DEF KpiInv
  <1>16. Kept
    BY <1>5 DEF Kept
  <1>17. QED
    BY <1>8, <1>9, <1>10, <1>11, <1>12, <1>13, <1>14, <1>15, <1>16 DEF KpiInv

\* The parts that a save of a row cannot disturb, or makes right at once, since the
\* handler follows it.
LEMMA SaveKeeps ==
    ASSUME KpiInv, NEW f \in Forms, NEW r \in RowRecord, NEW held \in RowRecord,
           NEW last \in BOOLEAN, Save(f, r, held, last),
           form[f].who \in exists',
           exists' = exists \/ (exists' = exists \cup {form[f].who} /\ form[f].who = Joiner),
           form[f].step \in {"LOADED", "READ"},
           touched' = touched \/ touched' = touched \cup {form[f].who},
           items[form[f].who].mgr = None => r.gm = None /\ held.gm = None,
           form[f].kind \in {"SELF", "MANAGER", "ITEM", "JOIN", "HRM"},
           form[f].kind = "HRM" => last,
           last /\ form[f].kind # "HRM" =>
              /\ held.self = form[f].items.self /\ held.mgr = form[f].items.mgr
              /\ form[f].items.mgr # None => held.gm = GradeOf(held.over, form[f].items.mgr)
    PROVE  /\ TypeOK' /\ GradesScored' /\ FormsChecked' /\ ScoresHeld' /\ Unhired'
           /\ SlipFollows' /\ TasksFollow' /\ DeptFollows'
           /\ form[f].kind # "HRM" => Coherent'
           /\ form'[f] # form[f]
  <1> DEFINE e == form[f].who
  <1>1. /\ Moved(f, "WRITTEN", last, held, form[f].items, form[f].dept, form[f].seen)
        /\ row' \in [Employees -> RowRecord] /\ row'[e] = r
        /\ \A d \in Employees : d # e => row'[d] = row[d]
        /\ UNCHANGED <<items, dept, closed, late, sweep, made, slip, pending, worker,
                       lagging, deptOld>>
    BY SaveMoves DEF KpiInv
  <1>2. e \in Employees /\ Joiner \in Employees
    BY JoinerFacts DEF KpiInv, TypeOK, FormRecord
  <1>3. \A g \in Forms : form'[g].who = form[g].who
    BY <1>1 DEF Moved
  <1>4. InHandler(f)'
    BY <1>1 DEF InHandler, Moved
  <1>5. TypeOK'
    <2>1. exists' \subseteq Employees /\ Leader \in exists' /\ exists \subseteq exists'
      BY <1>2 DEF KpiInv, TypeOK
    <2>2. touched' \subseteq exists'
      BY <2>1 DEF KpiInv, TypeOK
    <2>3. \A g \in Forms :
             form'[g].who \in exists' \/ (form'[g].kind = "JOIN" /\ form'[g].step = "LOADED")
      BY <1>1, <1>3, <2>1 DEF KpiInv, TypeOK, Moved
    <2>4. QED
      BY <1>1, <2>1, <2>2, <2>3 DEF KpiInv, TypeOK, Moved
  <1>6. GradesScored'
    BY <1>1, <1>2, <1>3 DEF KpiInv, GradesScored, Moved
  <1>7. FormsChecked'
    BY <1>1 DEF KpiInv, FormsChecked, Moved
  <1>8. ScoresHeld'
    BY <1>1 DEF KpiInv, ScoresHeld, Moved
  <1>9. Unhired'
    BY <1>1, <1>2 DEF KpiInv, Unhired
  <1>10. SlipFollows' /\ TasksFollow'
    <2>1. \A g \in Forms : InHandler(g) => InHandler(g)'
      BY <1>1, <1>4 DEF InHandler, Moved
    <2>2. \A d \in Employees : pending'[d] >= pending[d] /\ pending'[d] \in Nat
      BY <1>1 DEF KpiInv, TypeOK
    <2>3. \A d \in Employees : PayGrade(row'[d]) = PayGrade(row[d])
                               \/ \E g \in Forms : form'[g].who = d /\ InHandler(g)'
      BY <1>1, <1>3, <1>4
    <2>4. QED
      BY <1>1, <1>3, <2>1, <2>2, <2>3, SlipsKept DEF KpiInv
  <1>11. DeptFollows'
    BY <1>1 DEF DeptFollows, Moved
  <1>12. ASSUME form[f].kind # "HRM" PROVE Coherent'
    <2>1. HalfWay(f)'
      BY <1>1, <1>12 DEF HalfWay, Moved
    <2>2. Busy(e)'
      BY <1>3, <2>1 DEF Busy
    <2>3. \A g \in Forms : HalfWay(g) => HalfWay(g)'
      BY <1>1, <2>1 DEF HalfWay, Moved
    <2>4. \A d \in exists : d # e => (RowRight(d) => RowRight(d)')
      BY <1>1 DEF RowRight, TotalsRight, KpiInv, TypeOK
    <2>5. ASSUME NEW d \in exists' \ touched', d # e
          PROVE  d \in exists \ touched
      BY <2>5
    <2>6. QED
      BY <1>3, <2>2, <2>3, <2>4, <2>5, RowsKept DEF KpiInv
  <1>13. form'[f] # form[f]
    BY <1>1 DEF Moved
  <1>14. QED
    BY <1>5, <1>6, <1>7, <1>8, <1>9, <1>10, <1>11, <1>12, <1>13

LEMMA FormTyped ==
    ASSUME KpiInv, NEW f \in Forms
    PROVE  /\ form[f] \in FormRecord /\ form[f].who \in Employees
           /\ form[f].row \in RowRecord /\ form[f].items \in ItemsRecord
           /\ form[f].dept \in DeptRecord /\ form[f].seen \in SUBSET Employees
           /\ form[f].step \in Steps /\ form[f].last \in BOOLEAN
           /\ row[form[f].who] \in RowRecord /\ items[form[f].who] \in ItemsRecord
           /\ form[f].who \in exists \/ (form[f].kind = "JOIN" /\ form[f].step = "LOADED")
           /\ items[form[f].who].mgr = None =>
                 form[f].row.gm = None /\ form[f].items.mgr = None
  BY FormFields DEF KpiInv, TypeOK, GradesScored

\* Saves of a whole row by requests that loaded it before it was final.
LEMMA WriteBackKeeps ==
    ASSUME KpiInv, NEW f \in Forms, NEW r \in RowRecord, WriteBack(f, r),
           form[f].kind \in {"SELF", "MANAGER"}, form[f].step = "LOADED",
           r.gm = form[f].row.gm
    PROVE  KpiInv' /\ Kept
  <1>1. /\ Save(f, r, r, FALSE) /\ exists' = exists /\ touched' = touched
        /\ form[f].who \in exists /\ form[f].early
    BY FormTyped DEF WriteBack, KpiInv, FormsChecked
  <1>2. items[form[f].who].mgr = None => r.gm = None
    BY FormTyped
  <1>3. /\ TypeOK' /\ GradesScored' /\ FormsChecked' /\ ScoresHeld' /\ Unhired'
        /\ SlipFollows' /\ TasksFollow' /\ DeptFollows' /\ Coherent'
        /\ form'[f] # form[f]
    BY <1>1, <1>2, SaveKeeps
  <1>4. \A d \in Employees : d # form[f].who => Judged(row'[d]) = Judged(row[d])
    BY <1>1, SaveMoves DEF KpiInv
  <1>5. Kept
    BY <1>1, <1>3, <1>4, KeptBy
  <1>6. QED
    BY <1>3, <1>5 DEF KpiInv

LEMMA WriteSelfKeeps ==
    ASSUME KpiInv, NEW f \in Forms, WriteSelf(f)
    PROVE  KpiInv' /\ Kept
  BY FormTyped, WriteBackKeeps DEF WriteSelf

LEMMA WriteManagerKeeps ==
    ASSUME KpiInv, NEW f \in Forms, WriteManager(f)
    PROVE  KpiInv' /\ Kept
  <1>1. /\ form[f].kind = "MANAGER" /\ form[f].step = "LOADED"
        /\ \E g \in Grades : WriteBack(f, [form[f].row EXCEPT !.over = g])
    BY DEF WriteManager
  <1>2. PICK g \in Grades : WriteBack(f, [form[f].row EXCEPT !.over = g])
    BY <1>1
  <1> DEFINE r == [form[f].row EXCEPT !.over = g]
  <1>3. r \in RowRecord /\ r.gm = form[f].row.gm
    BY FormTyped, OverWritten
  <1> HIDE DEF r
  <1>4. WriteBack(f, r)
    BY <1>2 DEF r
  <1>5. QED
    BY <1>1, <1>3, <1>4, WriteBackKeeps

LEMMA CreateKeeps ==
    ASSUME KpiInv, NEW f \in Forms, Create(f)
    PROVE  KpiInv' /\ Kept
  <1>1. /\ Save(f, NewRow, NewRow, FALSE) /\ exists' = exists \cup {Joiner}
        /\ touched' = touched /\ form[f].kind = "JOIN" /\ form[f].step = "LOADED"
        /\ form[f].who = Joiner /\ form[f].early
    BY DEF Create, KpiInv, FormsChecked
  <1>2. NewRow \in RowRecord /\ NewRow.gm = None
    BY NewRowFacts
  <1>3. /\ TypeOK' /\ GradesScored' /\ FormsChecked' /\ ScoresHeld' /\ Unhired'
        /\ SlipFollows' /\ TasksFollow' /\ DeptFollows' /\ Coherent'
        /\ form'[f] # form[f]
    BY <1>1, <1>2, SaveKeeps
  <1>4. \A d \in Employees : d # form[f].who => Judged(row'[d]) = Judged(row[d])
    BY <1>1, <1>2, SaveMoves DEF KpiInv
  <1>5. Kept
    BY <1>1, <1>3, <1>4, KeptBy
  <1>6. QED
    BY <1>3, <1>5 DEF KpiInv

LEMMA WriteScoresKeeps ==
    ASSUME KpiInv, NEW f \in Forms, WriteScores(f)
    PROVE  KpiInv' /\ Kept
  <1> DEFINE e == form[f].who
  <1> DEFINE new == Recalculated(form[f].row, form[f].items)
  <1> DEFINE r == [row[e] EXCEPT !.self = new.self, !.mgr = new.mgr, !.gm = new.gm]
  <1>1. /\ Save(f, r, new, TRUE) /\ form[f].step = "READ"
        /\ exists' = exists /\ touched' = touched
    BY DEF WriteScores
  <1>2. /\ form[f].row \in RowRecord /\ form[f].items \in ItemsRecord
        /\ row[e] \in RowRecord /\ e \in Employees /\ e \in exists
    BY <1>1, FormTyped
  <1>3. /\ new \in RowRecord /\ new.self = form[f].items.self
        /\ new.mgr = form[f].items.mgr /\ new.over = form[f].row.over
        /\ new.gm = IF form[f].items.mgr # None
                    THEN GradeOf(form[f].row.over, form[f].items.mgr) ELSE form[f].row.gm
    BY <1>2, RecalculatedFacts
  <1> HIDE DEF new
  <1>4. r \in RowRecord /\ r.gm = new.gm
    BY <1>2, <1>3 DEF RowRecord
  <1> HIDE DEF r
  <1>5. items[e].mgr = None => r.gm = None /\ new.gm = None
    BY <1>3, <1>4, FormTyped
  <1>6. form[f].kind \in {"SELF", "MANAGER", "ITEM", "JOIN"} /\ form[f].early
    BY <1>1, FormTyped DEF FormRecord, KpiInv, FormsChecked
  <1>7. /\ new.self = form[f].items.self /\ new.mgr = form[f].items.mgr
        /\ form[f].items.mgr # None => new.gm = GradeOf(new.over, form[f].items.mgr)
    BY <1>3
  <1>8. /\ TypeOK' /\ GradesScored' /\ FormsChecked' /\ ScoresHeld' /\ Unhired'
        /\ SlipFollows' /\ TasksFollow' /\ DeptFollows' /\ Coherent'
        /\ form'[f] # form[f]
    BY <1>1, <1>2, <1>3, <1>4, <1>5, <1>6, <1>7, SaveKeeps
  <1>9. \A d \in Employees : d # form[f].who => Judged(row'[d]) = Judged(row[d])
    BY <1>1, <1>3, <1>4, SaveMoves DEF KpiInv
  <1>10. Kept
    BY <1>6, <1>8, <1>9, KeptBy
  <1>11. QED
    BY <1>8, <1>10 DEF KpiInv

\* A save by HRM, which no score disturbs.
LEMMA WriteHrmKeeps ==
    ASSUME KpiInv, NEW f \in Forms, WriteHrm(f)
    PROVE  KpiInv' /\ Kept
  <1> DEFINE e == form[f].who
             copy == form[f].row
  <1>1. /\ form[f].kind = "HRM" /\ form[f].step = "LOADED" /\ exists' = exists
        /\ touched' = IF Assessed(copy) # Assessed(row[e]) THEN touched \cup {e} ELSE touched
        /\ \/ \E g \in GradeOrNone :
                 Save(f, [copy EXCEPT !.hrm = g, !.assessed = TRUE],
                         [copy EXCEPT !.hrm = g, !.assessed = TRUE], TRUE)
           \/ Save(f, copy, copy, TRUE)
    BY DEF WriteHrm
  <1>2. /\ copy \in RowRecord /\ row[e] \in RowRecord /\ e \in Employees /\ e \in exists
        /\ items[e].mgr = None => copy.gm = None
    BY <1>1, FormTyped
  <1>3. PICK r \in RowRecord :
          /\ Save(f, r, r, TRUE)
          /\ r.self = copy.self /\ r.mgr = copy.mgr /\ r.gm = copy.gm
          /\ r.over = copy.over /\ r.final = copy.final /\ r.status = copy.status
    <2>1. CASE Save(f, copy, copy, TRUE)
      BY <1>2, <2>1
    <2>2. CASE \E g \in GradeOrNone :
                 Save(f, [copy EXCEPT !.hrm = g, !.assessed = TRUE],
                         [copy EXCEPT !.hrm = g, !.assessed = TRUE], TRUE)
      <3>1. PICK g \in GradeOrNone :
                 Save(f, [copy EXCEPT !.hrm = g, !.assessed = TRUE],
                         [copy EXCEPT !.hrm = g, !.assessed = TRUE], TRUE)
        BY <2>2
      <3> DEFINE v == [copy EXCEPT !.hrm = g, !.assessed = TRUE]
      <3>2. /\ v \in RowRecord
            /\ v.self = copy.self /\ v.mgr = copy.mgr /\ v.gm = copy.gm
            /\ v.over = copy.over /\ v.final = copy.final /\ v.status = copy.status
        BY <1>2 DEF RowRecord, GradeOrNone
      <3>3. QED
        BY <3>1, <3>2
    <2>3. QED
      BY <1>1, <2>1, <2>2
  <1>4. touched' = touched \/ touched' = touched \cup {e}
    BY <1>1
  <1>5. /\ TypeOK' /\ GradesScored' /\ FormsChecked' /\ ScoresHeld' /\ Unhired'
        /\ SlipFollows' /\ TasksFollow' /\ DeptFollows'
        /\ form'[f] # form[f]
    BY <1>1, <1>2, <1>3, <1>4, SaveKeeps
  <1>6. /\ Moved(f, "WRITTEN", TRUE, r, form[f].items, form[f].dept, form[f].seen)
        /\ row'[e] = r /\ items' = items
        /\ \A d \in Employees : d # e => row'[d] = row[d]
    BY <1>3, SaveMoves DEF KpiInv
  <1>7. Coherent'
    <2>1. \A g \in Forms : HalfWay(g) => form'[g].who = form[g].who /\ HalfWay(g)'
      BY <1>1, <1>6 DEF HalfWay, Moved
    <2>2. ASSUME NEW d \in exists' \ touched'
          PROVE  d \in exists \ touched /\ (RowRight(d) => RowRight(d)')
      <3>1. d \in Employees
        BY <1>1, <2>2 DEF KpiInv, TypeOK
      <3>2. CASE d # e
        BY <1>1, <1>6, <2>2, <3>1, <3>2 DEF RowRight, TotalsRight
      <3>3. CASE d = e
        <4>1. Assessed(copy) = Assessed(row[e]) /\ d \in exists \ touched
          BY <1>1, <2>2, <3>3
        <4>2. Assessed(row'[d]) = Assessed(row[d])
          BY <1>3, <1>6, <3>3, <4>1 DEF Assessed
        <4>3. QED
          BY <1>6, <4>1, <4>2, SameRowRight
      <3>4. QED
        BY <3>2, <3>3
    <2>3. QED
      BY <2>1, <2>2, RowsKept DEF KpiInv
  <1>8. Kept
    <2>1. CASE copy # row[e]
      BY <1>1, <1>5, <1>6, <2>1, KeptBy
    <2>2. CASE copy = row[e]
      <3>1. Judged(row'[e]) = Judged(row[e])
        BY <1>3, <1>6, <2>2 DEF Judged
      <3>2. QED
        BY <1>5, <1>6, <3>1, KeptBy
    <2>3. QED
      BY <2>1, <2>2
  <1>9. QED
    BY <1>5, <1>7, <1>8 DEF KpiInv

-----------------------------------------------------------------------------
(* Requests: steps that leave the rows alone                               *)

\* Request f goes on, f's employee may have been scored, and the rest stays.
LEMMA QuietKeeps ==
    ASSUME KpiInv, NEW f \in Forms, NEW s \in Steps, NEW r \in RowRecord,
           NEW i \in ItemsRecord, NEW d \in DeptRecord, NEW n \in SUBSET Employees,
           Moved(f, s, form[f].last, r, i, d, n),
           UNCHANGED <<row, exists, closed, late, sweep, made, slip, pending, worker,
                       touched, lagging>>,
           items' \in [Employees -> ItemsRecord],
           \A c \in Employees : c # form[f].who => items'[c] = items[c],
           items'[form[f].who].mgr = None => items[form[f].who].mgr = None,
           dept' \in DeptRecord, deptOld' \in BOOLEAN,
           form[f].who \in exists, form[f].kind # "IDLE",
           form[f].step # "MARKED", s # "LOADED", ~(form[f].last /\ s = "MARKED"),
           items' = items \/ form[f].kind \in {"SELF", "MANAGER", "ITEM", "JOIN"},
           InHandler(f) => s \in {"WRITTEN", "JUDGED", "TOLD", "MARKED"},
           items[form[f].who].mgr = None => r.gm = None /\ i.mgr = None,
           form[f].last => /\ r = form[f].row /\ i = form[f].items
                           /\ s \in {"WRITTEN", "JUDGED", "TOLD"},
           form[f].kind = "DEPARTMENT" => s = "SAVED",
           form[f].kind = "HRM" => form[f].last
    PROVE  /\ TypeOK' /\ GradesScored' /\ FormsChecked' /\ ScoresHeld' /\ Unhired'
           /\ Coherent' /\ SlipFollows' /\ TasksFollow' /\ Kept
  <1>1. form[f].who \in Employees
    BY FormTyped
  <1>2. \A g \in Forms : form'[g].who = form[g].who
    BY DEF Moved
  <1>3. TypeOK'
    <2>1. \A g \in Forms :
             form'[g].who \in exists' \/ (form'[g].kind = "JOIN" /\ form'[g].step = "LOADED")
      BY <1>2 DEF KpiInv, TypeOK, Moved
    <2>2. QED
      BY <2>1 DEF KpiInv, TypeOK, Moved
  <1>4. GradesScored'
    <2>1. \A c \in Employees : items'[c].mgr = None => items[c].mgr = None
      BY <1>1
    <2>2. \A g \in Forms : form[g].who \in Employees
      BY FormTyped
    <2>3. QED
      BY <1>1, <1>2, <2>1, <2>2 DEF KpiInv, GradesScored, Moved
  <1>5. FormsChecked'
    BY DEF KpiInv, FormsChecked, Moved
  <1>6. ScoresHeld'
    <2>1. form[f].last => form'[f].row = form[f].row /\ form'[f].items = form[f].items
      BY DEF Moved
    <2>2. QED
      BY <2>1 DEF KpiInv, ScoresHeld, Moved
  <1>7. Unhired'
    BY JoinerFacts DEF KpiInv, Unhired
  <1>8. HalfWay(f)' \/ form[f].kind \in {"HRM", "DEPARTMENT"}
    <2>1. form[f].kind \in {"SELF", "MANAGER", "ITEM", "HRM", "DEPARTMENT", "JOIN"}
      BY FormTyped DEF FormRecord
    <2>2. QED
      BY <2>1 DEF HalfWay, Moved
  <1>9. Coherent'
    <2>1. \A g \in Forms : HalfWay(g) => HalfWay(g)'
      <3>1. ASSUME NEW g \in Forms, g # f, HalfWay(g) PROVE HalfWay(g)'
        BY <3>1 DEF HalfWay, Moved
      <3>2. ASSUME HalfWay(f) PROVE HalfWay(f)'
        BY <1>8, <3>2 DEF HalfWay
      <3>3. QED
        BY <3>1, <3>2
    <2>2. ASSUME NEW c \in exists' \ touched', ~Busy(c)'
          PROVE  RowRight(c) => RowRight(c)'
      <3>1. items'[c] = items[c]
        <4>1. c \in Employees
          BY <2>2 DEF KpiInv, TypeOK
        <4>2. CASE c = form[f].who
          BY <1>2, <1>8, <2>2, <4>2 DEF Busy
        <4>3. QED
          BY <4>1, <4>2
      <3>2. QED
        BY <3>1 DEF RowRight, TotalsRight
    <2>3. QED
      BY <1>2, <2>1, <2>2, RowsKept DEF KpiInv
  <1>10. SlipFollows' /\ TasksFollow'
    <2>1. \A g \in Forms : InHandler(g) => InHandler(g)'
      BY DEF InHandler, Moved
    <2>2. \A c \in Employees : pending'[c] >= pending[c] /\ pending'[c] \in Nat
      BY DEF KpiInv, TypeOK
    <2>3. QED
      BY <1>2, <2>1, <2>2, SlipsKept DEF KpiInv
  <1>11. Kept
    BY DEF Kept
  <1>12. QED
    BY <1>3, <1>4, <1>5, <1>6, <1>7, <1>9, <1>10, <1>11

LEMMA JudgeKeeps ==
    ASSUME KpiInv, NEW f \in Forms, Judge(f)
    PROVE  KpiInv' /\ Kept
  <1> DEFINE n == Ungraded(row, exists)
  <1>1. n \in SUBSET Employees
    BY DEF KpiInv, TypeOK, Ungraded
  <1> HIDE DEF n
  <1>2. /\ form' = [form EXCEPT ![f].step = "JUDGED", ![f].seen = n]
        /\ UNCHANGED <<row, exists, items, dept, closed, late, sweep, made, slip, pending,
                       worker, touched, lagging, deptOld>>
        /\ form[f].step = "WRITTEN"
    BY DEF Judge, kpi, period, payroll, history, n
  <1>3. Moved(f, "JUDGED", form[f].last, form[f].row, form[f].items, form[f].dept, n)
    BY <1>1, <1>2, SeenMoves DEF KpiInv, Steps
  <1>4. /\ form[f].kind \in {"SELF", "MANAGER", "ITEM", "JOIN", "HRM"}
        /\ form[f].kind = "HRM" => form[f].last
    BY <1>2, FormTyped DEF KpiInv, FormsChecked, FormRecord
  <1>5. /\ items' \in [Employees -> ItemsRecord] /\ dept' \in DeptRecord
        /\ deptOld' \in BOOLEAN /\ "JUDGED" \in Steps
    BY <1>2 DEF KpiInv, TypeOK, Steps
  <1>6. /\ TypeOK' /\ GradesScored' /\ FormsChecked' /\ ScoresHeld' /\ Unhired'
        /\ Coherent' /\ SlipFollows' /\ TasksFollow' /\ Kept
    BY <1>1, <1>2, <1>3, <1>4, <1>5, FormTyped, QuietKeeps
  <1>7. DeptFollows'
    BY <1>3 DEF Moved, DeptFollows
  <1>8. QED
    BY <1>6, <1>7 DEF KpiInv

LEMMA TellKeeps ==
    ASSUME KpiInv, NEW f \in Forms, Tell(f)
    PROVE  KpiInv' /\ Kept
  <1>1. /\ form' = [form EXCEPT ![f].step = "TOLD", ![f].seen = {}]
        /\ UNCHANGED <<row, exists, items, closed, late, sweep, made, slip, pending,
                       worker, touched, lagging>>
        /\ form[f].step = "JUDGED"
        /\ dept' = [dept EXCEPT !.finished = form[f].seen = {}]
        /\ deptOld' = (form[f].seen # Ungraded(row, exists))
    BY DEF Tell, period, payroll
  <1>2. Moved(f, "TOLD", form[f].last, form[f].row, form[f].items, form[f].dept, {})
    BY <1>1, SeenMoves DEF KpiInv, Steps
  <1>3. /\ form[f].kind \in {"SELF", "MANAGER", "ITEM", "JOIN", "HRM"}
        /\ form[f].kind = "HRM" => form[f].last
    BY <1>1, FormTyped DEF KpiInv, FormsChecked, FormRecord
  <1>4. /\ items' \in [Employees -> ItemsRecord] /\ "TOLD" \in Steps
        /\ dept' \in DeptRecord /\ dept'.finished = (form[f].seen = {})
        /\ deptOld' \in BOOLEAN
    BY <1>1 DEF KpiInv, TypeOK, Steps, DeptRecord
  <1>5. /\ TypeOK' /\ GradesScored' /\ FormsChecked' /\ ScoresHeld' /\ Unhired'
        /\ Coherent' /\ SlipFollows' /\ TasksFollow' /\ Kept
    <2>1. /\ {} \in SUBSET Employees /\ form[f].who \in exists
          /\ \A c \in Employees : c # form[f].who => items'[c] = items[c]
          /\ form[f].kind # "IDLE" /\ form[f].kind # "DEPARTMENT"
      BY <1>1, <1>3, FormTyped
    <2>2. QED
      BY <1>1, <1>2, <1>3, <1>4, <2>1, FormTyped, QuietKeeps
  <1>6. DeptFollows'
    BY <1>1, <1>4 DEF DeptFollows
  <1>7. QED
    BY <1>5, <1>6 DEF KpiInv

\* The department is left alone, and so are the grades.
LEMMA DeptStays ==
    ASSUME KpiInv, NEW f \in Forms, UNCHANGED <<row, exists, dept, deptOld>>,
           \A g \in Forms : g # f => form'[g] = form[g],
           form[f].step \notin {"WRITTEN", "JUDGED"}
    PROVE  DeptFollows'
  BY DEF KpiInv, DeptFollows

LEMMA ScoreItemsKeeps ==
    ASSUME KpiInv, NEW f \in Forms, ScoreItems(f)
    PROVE  KpiInv' /\ Kept
  <1> DEFINE e == form[f].who
  <1>1. UNCHANGED <<row, exists, dept, closed, late, sweep, made, slip, pending,
                    worker, touched, lagging, deptOld>>
    BY DEF ScoreItems, period, payroll, history
  <1>2. /\ form[f].kind \in {"SELF", "MANAGER", "ITEM"}
        /\ \/ form[f].step = "SAVED"
           \/ form[f].step = "LOADED" /\ form[f].kind = "ITEM"
        /\ \/ form' = form /\ form[f].step = "SAVED"
           \/ form' = [form EXCEPT ![f].step = "SCORED"]
           \/ form' = [form EXCEPT ![f].step = "READ"]
    BY DEF ScoreItems
  <1>3. e \in exists /\ e \in Employees /\ ~form[f].last
    BY <1>2, FormTyped DEF KpiInv, FormsChecked
  <1>4. PICK s \in Steps :
          /\ s \in {"SAVED", "SCORED", "READ"}
          /\ Moved(f, s, form[f].last, form[f].row, form[f].items, form[f].dept, form[f].seen)
    <2>1. CASE form' = form /\ form[f].step = "SAVED"
      <3>1. Moved(f, "SAVED", form[f].last, form[f].row, form[f].items, form[f].dept,
                  form[f].seen)
        BY <2>1 DEF Moved, KpiInv, TypeOK
      <3>2. QED
        BY <3>1 DEF Steps
    <2>2. CASE form' = [form EXCEPT ![f].step = "SCORED"]
      <3>1. "SCORED" \in Steps
        BY DEF Steps
      <3>2. QED
        BY <2>2, <3>1, StepMoves DEF KpiInv
    <2>3. CASE form' = [form EXCEPT ![f].step = "READ"]
      <3>1. "READ" \in Steps
        BY DEF Steps
      <3>2. QED
        BY <2>3, <3>1, StepMoves DEF KpiInv
    <2>4. QED
      BY <1>2, <2>1, <2>2, <2>3
  <1>5. /\ items' \in [Employees -> ItemsRecord]
        /\ \A c \in Employees : c # e => items'[c] = items[c]
        /\ items'[e].mgr = None => items[e].mgr = None
    <2>1. items \in [Employees -> ItemsRecord]
      BY DEF KpiInv, TypeOK
    <2>2. CASE items' = items
      BY <2>1, <2>2
    <2>3. CASE items' = [items EXCEPT ![e].self = TRUE]
      BY <1>3, <2>1, <2>3 DEF ItemsRecord
    <2>4. CASE \E m \in Scored : items' = [items EXCEPT ![e].mgr = m]
      <3>1. PICK m \in Scored : items' = [items EXCEPT ![e].mgr = m]
        BY <2>4
      <3>2. m # None
        BY KpiAssumption
      <3>3. QED
        BY <1>3, <2>1, <3>1, <3>2 DEF ItemsRecord
    <2>5. QED
      BY <2>2, <2>3, <2>4 DEF ScoreItems
  <1>6. /\ dept' \in DeptRecord /\ deptOld' \in BOOLEAN /\ ~InHandler(f)
    BY <1>1, <1>2 DEF KpiInv, TypeOK, InHandler
  <1>7. /\ TypeOK' /\ GradesScored' /\ FormsChecked' /\ ScoresHeld' /\ Unhired'
        /\ Coherent' /\ SlipFollows' /\ TasksFollow' /\ Kept
    BY <1>1, <1>2, <1>3, <1>4, <1>5, <1>6, FormTyped, QuietKeeps
  <1>8. DeptFollows'
    BY <1>1, <1>2, <1>4, DeptStays DEF Moved
  <1>9. QED
    BY <1>7, <1>8 DEF KpiInv

LEMMA CreateItemsKeeps ==
    ASSUME KpiInv, NEW f \in Forms, CreateItems(f)
    PROVE  KpiInv' /\ Kept
  <1> DEFINE e == form[f].who
  <1>1. /\ UNCHANGED <<row, exists, dept, closed, late, sweep, made, slip, pending,
                       worker, touched, lagging, deptOld>>
        /\ form[f].kind = "JOIN" /\ form[f].step = "SAVED"
        /\ items' = [items EXCEPT ![e].made = TRUE]
        /\ form' = [form EXCEPT ![f].step = "RELOADED"]
    BY DEF CreateItems, period, payroll, history
  <1>2. e \in exists /\ e \in Employees /\ ~form[f].last
    BY <1>1, FormTyped DEF KpiInv, FormsChecked
  <1>3. Moved(f, "RELOADED", form[f].last, form[f].row, form[f].items, form[f].dept,
              form[f].seen)
    BY <1>1, StepMoves DEF KpiInv, Steps
  <1>4. /\ items' \in [Employees -> ItemsRecord]
        /\ \A c \in Employees : c # e => items'[c] = items[c]
        /\ items'[e].mgr = None => items[e].mgr = None
    BY <1>1, <1>2 DEF KpiInv, TypeOK, ItemsRecord
  <1>5. /\ dept' \in DeptRecord /\ deptOld' \in BOOLEAN /\ ~InHandler(f)
        /\ "RELOADED" \in Steps
    BY <1>1 DEF KpiInv, TypeOK, InHandler, Steps
  <1>6. /\ TypeOK' /\ GradesScored' /\ FormsChecked' /\ ScoresHeld' /\ Unhired'
        /\ Coherent' /\ SlipFollows' /\ TasksFollow' /\ Kept
    <2>1. /\ form[f].row \in RowRecord /\ form[f].items \in ItemsRecord
          /\ form[f].dept \in DeptRecord /\ form[f].seen \in SUBSET Employees
          /\ items[e].mgr = None => form[f].row.gm = None /\ form[f].items.mgr = None
      BY FormTyped
    <2>2. QED
      BY <1>1, <1>2, <1>3, <1>4, <1>5, <2>1, QuietKeeps
  <1>7. DeptFollows'
    BY <1>1, <1>3, DeptStays DEF Moved
  <1>8. QED
    BY <1>6, <1>7 DEF KpiInv

LEMMA ReloadKeeps ==
    ASSUME KpiInv, NEW f \in Forms, Reload(f)
    PROVE  KpiInv' /\ Kept
  <1> DEFINE e == form[f].who
  <1>1. /\ UNCHANGED <<row, exists, items, dept, closed, late, sweep, made, slip, pending,
                       worker, touched, lagging, deptOld>>
        /\ form[f].kind \in {"SELF", "MANAGER"} /\ form[f].step = "SCORED"
        /\ form' = [form EXCEPT ![f].step = "RELOADED", ![f].row = row[e]]
    BY DEF Reload, kpi, period, payroll, history
  <1>2. /\ e \in exists /\ e \in Employees /\ ~form[f].last /\ row[e] \in RowRecord
        /\ items[e].mgr = None => row[e].gm = None
    BY <1>1, FormTyped DEF KpiInv, FormsChecked, GradesScored
  <1>3. Moved(f, "RELOADED", form[f].last, row[e], form[f].items, form[f].dept,
              form[f].seen)
    <2>1. "RELOADED" \in Steps
      BY DEF Steps
    <2>2. form' = [form EXCEPT ![f] = [form[f] EXCEPT !.step = "RELOADED", !.row = row[e]]]
      BY <1>1
    <2>3. QED
      BY <1>2, <2>1, <2>2, RowMoves DEF KpiInv
  <1>4. /\ items' \in [Employees -> ItemsRecord] /\ "RELOADED" \in Steps
        /\ dept' \in DeptRecord /\ deptOld' \in BOOLEAN /\ ~InHandler(f)
    BY <1>1 DEF KpiInv, TypeOK, InHandler, Steps
  <1>5. /\ TypeOK' /\ GradesScored' /\ FormsChecked' /\ ScoresHeld' /\ Unhired'
        /\ Coherent' /\ SlipFollows' /\ TasksFollow' /\ Kept
    BY <1>1, <1>2, <1>3, <1>4, FormTyped, QuietKeeps
  <1>6. DeptFollows'
    BY <1>1, <1>3, DeptStays DEF Moved
  <1>7. QED
    BY <1>5, <1>6 DEF KpiInv

LEMMA ReadItemsKeeps ==
    ASSUME KpiInv, NEW f \in Forms, ReadItems(f)
    PROVE  KpiInv' /\ Kept
  <1> DEFINE e == form[f].who
  <1>1. /\ UNCHANGED <<row, exists, items, dept, closed, late, sweep, made, slip, pending,
                       worker, touched, lagging, deptOld>>
        /\ form[f].step = "RELOADED"
        /\ form' = [form EXCEPT ![f].step = "READ", ![f].items = items[e]]
    BY DEF ReadItems, kpi, period, payroll, history
  <1>2. /\ e \in exists /\ e \in Employees /\ ~form[f].last /\ items[e] \in ItemsRecord
        /\ form[f].kind \in {"SELF", "MANAGER", "ITEM", "JOIN"}
    BY <1>1, FormTyped DEF KpiInv, FormsChecked, FormRecord
  <1>3. Moved(f, "READ", form[f].last, form[f].row, items[e], form[f].dept, form[f].seen)
    <2>1. "READ" \in Steps
      BY DEF Steps
    <2>2. QED
      BY <1>1, <1>2, <2>1, ItemsMove DEF KpiInv
  <1>4. /\ items' \in [Employees -> ItemsRecord] /\ "READ" \in Steps
        /\ dept' \in DeptRecord /\ deptOld' \in BOOLEAN /\ ~InHandler(f)
    BY <1>1 DEF KpiInv, TypeOK, InHandler, Steps
  <1>5. /\ TypeOK' /\ GradesScored' /\ FormsChecked' /\ ScoresHeld' /\ Unhired'
        /\ Coherent' /\ SlipFollows' /\ TasksFollow' /\ Kept
    BY <1>1, <1>2, <1>3, <1>4, FormTyped, QuietKeeps
  <1>6. DeptFollows'
    BY <1>1, <1>3, DeptStays DEF Moved
  <1>7. QED
    BY <1>5, <1>6 DEF KpiInv

LEMMA MarkKeeps ==
    ASSUME KpiInv, NEW f \in Forms, Mark(f)
    PROVE  KpiInv' /\ Kept
  <1> DEFINE e == form[f].who
             held == form[f].row
             agree == /\ Assessed(held) = Assessed(row[e])
                      /\ form[f].kind # "HRM" => form[f].items = items[e]
  <1>1. /\ form[f].step = "TOLD" /\ form' = [form EXCEPT ![f].step = "MARKED"]
        /\ \/ held.status = Derived(held) /\ row' = row
           \/ /\ held.status # Derived(held)
              /\ row' = [row EXCEPT ![e].status = Derived(held)]
        /\ UNCHANGED <<items, exists, dept, closed, late, sweep, made, slip, pending,
                       worker, lagging, deptOld>>
    BY DEF Mark, period, payroll
  <1>2. touched' = IF ~form[f].last THEN touched
                   ELSE IF ~agree THEN touched \cup {e}
                   ELSE IF form[f].kind = "HRM" THEN touched
                   ELSE touched \ {e}
    BY DEF Mark
  <1>3. /\ form[f].kind \in {"SELF", "MANAGER", "ITEM", "JOIN", "HRM"}
        /\ form[f].kind = "HRM" => form[f].last
    BY <1>1, FormTyped DEF KpiInv, FormsChecked, FormRecord
  <1>4. /\ e \in exists /\ e \in Employees /\ held \in RowRecord /\ row[e] \in RowRecord
        /\ form[f].items \in ItemsRecord /\ items[e] \in ItemsRecord
        /\ items[e].mgr = None => held.gm = None
    BY <1>1, FormTyped
  <1>5. Moved(f, "MARKED", form[f].last, held, form[f].items, form[f].dept, form[f].seen)
    BY <1>1, StepMoves DEF KpiInv, Steps
  <1>6. \A g \in Forms : form'[g].who = form[g].who
    BY <1>5 DEF Moved
  <1> DEFINE s == Derived(held)
             v == [row[e] EXCEPT !.status = s]
  <1>7. s \in {"NEW", "WAITING_MANAGER", "COMPLETED"}
    BY DerivedTyped
  <1> HIDE DEF s
  <1>8. /\ v \in RowRecord /\ v.status = s
        /\ v.self = row[e].self /\ v.mgr = row[e].mgr /\ v.gm = row[e].gm
        /\ v.over = row[e].over /\ v.hrm = row[e].hrm /\ v.final = row[e].final
    BY <1>4, <1>7, StatusWritten
  <1>9. row' = row \/ row' = [row EXCEPT ![e] = v]
    BY <1>1 DEF s
  <1> HIDE DEF v
  <1>10. /\ row' \in [Employees -> RowRecord]
         /\ \A c \in Employees : c # e => row'[c] = row[c]
         /\ \A c \in Employees :
               /\ row'[c].self = row[c].self /\ row'[c].mgr = row[c].mgr
               /\ row'[c].gm = row[c].gm /\ row'[c].over = row[c].over
               /\ row'[c].hrm = row[c].hrm /\ row'[c].final = row[c].final
    BY <1>4, <1>8, <1>9 DEF KpiInv, TypeOK
  <1>11. row'[e].status = s \/ (row'[e].status = row[e].status /\ held.status = s)
    <2>1. CASE held.status = s /\ row' = row
      BY <2>1
    <2>2. CASE row' = [row EXCEPT ![e].status = s]
      <3>1. row'[e] = v
        BY <1>4, <2>2 DEF KpiInv, TypeOK, v
      <3>2. QED
        BY <1>8, <3>1
    <2>3. QED
      BY <1>1, <2>1, <2>2 DEF s
  <1>12. TypeOK'
    <2>1. touched' \subseteq exists'
      BY <1>1, <1>2, <1>4 DEF KpiInv, TypeOK
    <2>2. \A g \in Forms :
             form'[g].who \in exists' \/ (form'[g].kind = "JOIN" /\ form'[g].step = "LOADED")
      BY <1>1, <1>4, <1>5 DEF KpiInv, TypeOK, Moved
    <2>3. QED
      BY <1>1, <1>5, <1>10, <2>1, <2>2 DEF KpiInv, TypeOK, Moved
  <1>13. GradesScored'
    BY <1>1, <1>5, <1>10 DEF KpiInv, GradesScored, Moved
  <1>14. FormsChecked'
    BY <1>3, <1>5 DEF KpiInv, FormsChecked, Moved
  <1>15. ScoresHeld'
    BY <1>5 DEF KpiInv, ScoresHeld, Moved
  <1>16. Unhired'
    BY <1>1, <1>4, <1>10, JoinerFacts DEF KpiInv, Unhired
  <1>17. \A g \in Forms : HalfWay(g) => g = f \/ HalfWay(g)'
    BY <1>5 DEF HalfWay, Moved
  <1>18. Coherent'
    <2>1. ASSUME NEW c \in exists' \ touched', c # e
          PROVE  /\ c \in exists \ touched /\ (RowRight(c) => RowRight(c)')
                 /\ \A g \in Forms : form[g].who = c /\ HalfWay(g) =>
                       form'[g].who = c /\ HalfWay(g)'
      <3>1. c \in Employees /\ c \in exists \ touched
        BY <1>1, <1>2, <2>1 DEF KpiInv, TypeOK
      <3>2. row'[c] = row[c] /\ items'[c] = items[c]
        BY <1>1, <1>10, <2>1, <3>1
      <3>3. QED
        BY <1>6, <1>17, <2>1, <3>1, <3>2 DEF RowRight, TotalsRight
    <2>2. ASSUME NEW c \in exists' \ touched', c = e
          PROVE  \/ Busy(c)' \/ RowRight(c)'
                 \/ /\ c \in exists \ touched /\ (RowRight(c) => RowRight(c)')
                    /\ \A g \in Forms : form[g].who = c /\ HalfWay(g) =>
                          form'[g].who = c /\ HalfWay(g)'
      <3>1. CASE ~form[f].last
        <4>1. HalfWay(f)'
          BY <1>3, <1>5, <3>1 DEF HalfWay, Moved
        <4>2. QED
          BY <1>6, <2>2, <4>1 DEF Busy
      <3>2. CASE form[f].last
        <4>1. agree
          BY <1>2, <2>2, <3>2
        <4>2. /\ held.self = row[e].self /\ held.mgr = row[e].mgr /\ held.gm = row[e].gm
              /\ held.over = row[e].over /\ held.status = row[e].status
              /\ s = Derived(row[e])
          BY <4>1, SameColumns DEF s
        <4>3. row'[e].status = s
          BY <1>11, <4>2
        <4>4. Derived(row'[e]) = s
          BY <1>4, <1>10, <4>2 DEF Derived
        <4>5. CASE form[f].kind = "HRM"
          <5>1. c \in exists \ touched
            BY <1>1, <1>2, <2>2, <3>2, <4>1, <4>5
          <5>2. RowRight(c) => RowRight(c)'
            BY <1>1, <1>4, <1>10, <2>2, <4>3, <4>4 DEF RowRight, TotalsRight
          <5>3. \A g \in Forms : HalfWay(g) => HalfWay(g)'
            BY <1>17, <4>5 DEF HalfWay
          <5>4. QED
            BY <1>6, <5>1, <5>2, <5>3
        <4>6. CASE form[f].kind # "HRM"
          <5>1. form[f].items = items[e]
            BY <4>1, <4>6
          <5>2. /\ held.self = items[e].self /\ held.mgr = items[e].mgr
                /\ items[e].mgr # None => held.gm = GradeOf(held.over, items[e].mgr)
            BY <1>1, <3>2, <4>6, <5>1 DEF KpiInv, ScoresHeld
          <5>3. items[e].mgr = None => GradeOf(held.over, items[e].mgr) = None
            BY DEF GradeOf
          <5>4. held.gm = GradeOf(held.over, items[e].mgr)
            BY <1>4, <5>2, <5>3
          <5>5. /\ row'[e].self = items[e].self /\ row'[e].mgr = items[e].mgr
                /\ row'[e].gm = GradeOf(row'[e].over, items[e].mgr)
            BY <1>4, <1>10, <4>2, <5>2, <5>4
          <5>6. RowRight(c)'
            BY <1>1, <2>2, <4>3, <4>4, <5>5 DEF RowRight, TotalsRight
          <5>7. QED
            BY <5>6
        <4>7. QED
          BY <4>5, <4>6
      <3>3. QED
        BY <3>1, <3>2
    <2>3. QED
      BY <2>1, <2>2, RowsKept DEF KpiInv
  <1>19. SlipFollows' /\ TasksFollow'
    <2>1. \A g \in Forms : InHandler(g) => InHandler(g)'
      BY <1>5 DEF InHandler, Moved
    <2>2. \A c \in Employees : pending'[c] >= pending[c] /\ pending'[c] \in Nat
      BY <1>1 DEF KpiInv, TypeOK
    <2>3. \A c \in Employees : PayGrade(row'[c]) = PayGrade(row[c])
      BY <1>10 DEF PayGrade
    <2>4. QED
      BY <1>1, <1>6, <2>1, <2>2, <2>3, SlipsKept DEF KpiInv
  <1>20. DeptFollows'
    <2>1. \A c \in exists : Graded(row'[c]) = Graded(row[c])
      BY <1>10 DEF Graded, KpiInv, TypeOK
    <2>2. Ungraded(row', exists') = Ungraded(row, exists)
      BY <1>1, <2>1, SameGraded
    <2>3. \A g \in Forms : form[g].step \in {"WRITTEN", "JUDGED"} => form'[g] = form[g]
      BY <1>1, <1>5 DEF Moved
    <2>4. QED
      BY <1>1, <2>2, <2>3, DeptKept DEF KpiInv
  <1>21. Kept
    <2>1. \A c \in Employees : Judged(row'[c]) = Judged(row[c])
      BY <1>10 DEF Judged
    <2>2. QED
      BY <2>1 DEF Kept
  <1>22. QED
    BY <1>12, <1>13, <1>14, <1>15, <1>16, <1>18, <1>19, <1>20, <1>21 DEF KpiInv

\* Requests that end: what is known of the others, and of the rows.
LEMMA EndedForms ==
    ASSUME KpiInv, NEW f \in Forms, Ended(f), items' = items, exists' = exists,
           \A c \in Employees : row'[c].gm = row[c].gm, row'[Joiner] = row[Joiner]
    PROVE  /\ GradesScored' /\ FormsChecked' /\ ScoresHeld' /\ Unhired'
           /\ form' \in [Forms -> FormRecord]
           /\ \A g \in Forms :
                 form'[g].who \in exists' \/ (form'[g].kind = "JOIN" /\ form'[g].step = "LOADED")
           /\ \A g \in Forms : g # f /\ InHandler(g) =>
                 form'[g].who = form[g].who /\ InHandler(g)'
           /\ \A g \in Forms : g # f /\ HalfWay(g) =>
                 form'[g].who = form[g].who /\ HalfWay(g)'
           /\ \A g \in Forms : g # f /\ form[g].step \in {"WRITTEN", "JUDGED"} =>
                 form'[g].step \in {"WRITTEN", "JUDGED"}
  <1>1. \A g \in Forms : form[g].who \in Employees
    BY FormTyped
  <1>2. GradesScored'
    <2>1. \A g \in Forms : g # f => form'[g] = form[g]
      BY DEF Ended
    <2>2. form'[f].row.gm = None /\ form'[f].items.mgr = None
      BY IdleFacts, NewRowFacts DEF Ended
    <2>3. QED
      BY <1>1, <2>1, <2>2 DEF KpiInv, GradesScored
  <1>3. FormsChecked' /\ ScoresHeld'
    BY IdleFacts DEF Ended, KpiInv, FormsChecked, ScoresHeld
  <1>4. Unhired'
    BY DEF KpiInv, Unhired
  <1>5. \A g \in Forms :
           form'[g].who \in exists' \/ (form'[g].kind = "JOIN" /\ form'[g].step = "LOADED")
    BY IdleFacts DEF Ended, KpiInv, TypeOK
  <1>6. QED
    BY <1>2, <1>3, <1>4, <1>5 DEF Ended, InHandler, HalfWay

LEMMA CallKeeps ==
    ASSUME KpiInv, NEW f \in Forms, Call(f)
    PROVE  KpiInv' /\ Kept
  <1> DEFINE e == form[f].who
  <1>1. /\ form[f].step = "MARKED" /\ form' = [form EXCEPT ![f] = AfterSave(f)]
        /\ pending' = [pending EXCEPT ![e] = @ + 1]
        /\ UNCHANGED <<row, items, exists, dept, closed, late, sweep, made, slip,
                       worker, touched, lagging, deptOld>>
    BY DEF Call, kpi, period, history
  <1>2. /\ form[f].kind \in {"SELF", "MANAGER", "ITEM", "JOIN", "HRM"}
        /\ form[f].kind = "HRM" => form[f].last
        /\ e \in exists /\ e \in Employees
    BY <1>1, FormTyped DEF KpiInv, FormsChecked, FormRecord
  <1>3. \/ Ended(f) /\ form[f].last
        \/ /\ ~form[f].last
           /\ Moved(f, "SAVED", FALSE, NewRow, form[f].items, form[f].dept, form[f].seen)
    <2>1. CASE form[f].last
      BY <1>1, <2>1, EndedBy DEF AfterSave, KpiInv, TypeOK
    <2>2. CASE ~form[f].last
      <3>1. form' = [form EXCEPT ![f] = [form[f] EXCEPT !.step = "SAVED", !.row = NewRow]]
        BY <1>1, <2>2 DEF AfterSave
      <3>2. form[f].last = FALSE
        BY <2>2, FormTyped
      <3>3. "SAVED" \in Steps
        BY DEF Steps
      <3>4. Moved(f, "SAVED", form[f].last, NewRow, form[f].items, form[f].dept, form[f].seen)
        BY <3>1, <3>3, NewRowFacts, RowMoves DEF KpiInv
      <3>5. QED
        BY <2>2, <3>2, <3>4
    <2>3. QED
      BY <2>1, <2>2
  <1>4. \A g \in Forms : g # f => form'[g] = form[g]
    BY <1>3 DEF Ended, Moved
  <1>5. /\ pending' \in [Employees -> Nat] /\ pending'[e] > 0
        /\ \A c \in Employees : pending'[c] >= pending[c] /\ pending'[c] \in Nat
    BY <1>1, <1>2 DEF KpiInv, TypeOK
  <1>6. /\ GradesScored' /\ FormsChecked' /\ ScoresHeld' /\ Unhired'
        /\ form' \in [Forms -> FormRecord]
        /\ \A g \in Forms :
              form'[g].who \in exists' \/ (form'[g].kind = "JOIN" /\ form'[g].step = "LOADED")
    <2>1. CASE Ended(f)
      BY <1>1, <2>1, EndedForms
    <2>2. CASE /\ ~form[f].last
               /\ Moved(f, "SAVED", FALSE, NewRow, form[f].items, form[f].dept, form[f].seen)
      <3>1. GradesScored' /\ Unhired'
        BY <1>1, <2>2, NewRowFacts DEF KpiInv, GradesScored, Unhired, Moved
      <3>2. FormsChecked' /\ ScoresHeld'
        BY <1>2, <2>2 DEF KpiInv, FormsChecked, ScoresHeld, Moved
      <3>3. QED
        BY <1>1, <1>2, <2>2, <3>1, <3>2 DEF KpiInv, TypeOK, Moved
    <2>3. QED
      BY <1>3, <2>1, <2>2
  <1>7. TypeOK'
    BY <1>1, <1>5, <1>6 DEF KpiInv, TypeOK
  <1>8. Coherent'
    <2>1. HalfWay(f) => form'[f].who = form[f].who /\ HalfWay(f)'
      <3>1. HalfWay(f) => ~form[f].last
        BY <1>1 DEF HalfWay
      <3>2. CASE /\ ~form[f].last
                 /\ Moved(f, "SAVED", FALSE, NewRow, form[f].items, form[f].dept, form[f].seen)
        BY <3>2 DEF HalfWay, Moved
      <3>3. QED
        BY <1>3, <3>1, <3>2
    <2>2. \A g \in Forms : HalfWay(g) => form'[g].who = form[g].who /\ HalfWay(g)'
      BY <1>4, <2>1 DEF HalfWay
    <2>3. \A c : RowRight(c) => RowRight(c)'
      BY <1>1 DEF RowRight, TotalsRight
    <2>4. QED
      BY <1>1, <2>2, <2>3, RowsKept DEF KpiInv
  <1>9. SlipFollows' /\ TasksFollow'
    <2>1. \A g \in Forms : InHandler(g) =>
             (form'[g].who = form[g].who /\ InHandler(g)') \/ pending'[form[g].who] > 0
      BY <1>4, <1>5 DEF InHandler
    <2>2. QED
      BY <1>1, <1>5, <2>1, SlipsKept DEF KpiInv
  <1>10. DeptFollows'
    BY <1>1, <1>4, DeptStays
  <1>11. Kept
    BY <1>1 DEF Kept
  <1>12. QED
    BY <1>6, <1>7, <1>8, <1>9, <1>10, <1>11 DEF KpiInv

LEMMA SaveDepartmentKeeps ==
    ASSUME KpiInv, NEW f \in Forms, SaveDepartment(f)
    PROVE  KpiInv' /\ Kept
  <1>1. /\ form[f].kind = "DEPARTMENT" /\ form[f].step = "LOADED"
        /\ dept' = form[f].dept
        /\ deptOld' = (deptOld \/ form[f].dept.finished # dept.finished)
        /\ \/ form' = [form EXCEPT ![f] = Idle]
           \/ form' = [form EXCEPT ![f].step = "SAVED", ![f].dept = NoDept]
        /\ UNCHANGED <<row, items, exists, closed, late, sweep, made, slip, pending,
                       worker, touched, lagging>>
    BY DEF SaveDepartment, period, payroll
  <1>2. /\ form[f].who \in exists /\ form[f].who \in Employees /\ dept' \in DeptRecord
        /\ deptOld' \in BOOLEAN /\ ~form[f].last
    BY <1>1, FormTyped DEF KpiInv, TypeOK, FormsChecked
  <1>3. ~InHandler(f) /\ ~HalfWay(f)
    BY <1>1 DEF InHandler, HalfWay
  <1>4. \/ Ended(f)
        \/ Moved(f, "SAVED", form[f].last, form[f].row, form[f].items, NoDept, form[f].seen)
    <2>1. CASE form' = [form EXCEPT ![f] = Idle]
      BY <2>1, EndedBy DEF KpiInv, TypeOK
    <2>2. CASE form' = [form EXCEPT ![f].step = "SAVED", ![f].dept = NoDept]
      BY <2>2, NewRowFacts, DeptMoves DEF KpiInv, Steps
    <2>3. QED
      BY <1>1, <2>1, <2>2
  <1>5. \A g \in Forms : g # f => form'[g] = form[g]
    BY <1>4 DEF Ended, Moved
  <1>6. /\ GradesScored' /\ FormsChecked' /\ ScoresHeld' /\ Unhired'
        /\ form' \in [Forms -> FormRecord]
        /\ \A g \in Forms :
              form'[g].who \in exists' \/ (form'[g].kind = "JOIN" /\ form'[g].step = "LOADED")
    <2>1. CASE Ended(f)
      BY <1>1, <2>1, EndedForms
    <2>2. CASE Moved(f, "SAVED", form[f].last, form[f].row, form[f].items, NoDept, form[f].seen)
      <3>1. GradesScored' /\ Unhired'
        BY <1>1, <2>2 DEF KpiInv, GradesScored, Unhired, Moved
      <3>2. FormsChecked' /\ ScoresHeld'
        BY <1>1, <1>2, <2>2 DEF KpiInv, FormsChecked, ScoresHeld, Moved
      <3>3. QED
        BY <1>1, <1>2, <2>2, <3>1, <3>2 DEF KpiInv, TypeOK, Moved
    <2>3. QED
      BY <1>4, <2>1, <2>2
  <1>7. TypeOK'
    BY <1>1, <1>2, <1>6 DEF KpiInv, TypeOK
  <1>8. Coherent'
    <2>1. \A g \in Forms : HalfWay(g) => form'[g].who = form[g].who /\ HalfWay(g)'
      BY <1>3, <1>5 DEF HalfWay
    <2>2. \A c : RowRight(c) => RowRight(c)'
      BY <1>1 DEF RowRight, TotalsRight
    <2>3. QED
      BY <1>1, <2>1, <2>2, RowsKept DEF KpiInv
  <1>9. SlipFollows' /\ TasksFollow'
    <2>1. \A g \in Forms : InHandler(g) => form'[g].who = form[g].who /\ InHandler(g)'
      BY <1>3, <1>5 DEF InHandler
    <2>2. \A c \in Employees : pending'[c] >= pending[c] /\ pending'[c] \in Nat
      BY <1>1 DEF KpiInv, TypeOK
    <2>3. QED
      BY <1>1, <2>1, <2>2, SlipsKept DEF KpiInv
  <1>10. DeptFollows'
    <2>1. \A g \in Forms : form[g].step \in {"WRITTEN", "JUDGED"} => form'[g] = form[g]
      BY <1>1, <1>5
    <2>2. CASE deptOld'
      BY <2>2 DEF DeptFollows
    <2>3. CASE ~deptOld'
      <3>1. dept'.finished = dept.finished /\ ~deptOld
        BY <1>1, <2>3
      <3>2. QED
        BY <1>1, <2>1, <3>1, DeptKept DEF KpiInv
    <2>4. QED
      BY <2>2, <2>3
  <1>11. Kept
    BY <1>1 DEF Kept
  <1>12. QED
    BY <1>6, <1>7, <1>8, <1>9, <1>10, <1>11 DEF KpiInv

LEMMA GradeLeaderKeeps ==
    ASSUME KpiInv, NEW f \in Forms, GradeLeader(f)
    PROVE  KpiInv' /\ Kept
  <1>1. /\ form[f].kind = "DEPARTMENT" /\ form[f].step = "SAVED"
        /\ form' = [form EXCEPT ![f] = Idle]
        /\ lagging' = IF PayGrade(row'[Leader]) = PayGrade(row[Leader]) THEN lagging
                      ELSE lagging \cup {Leader}
        /\ deptOld' = (deptOld \/ Ungraded(row', exists) # Ungraded(row, exists))
        /\ UNCHANGED <<items, exists, dept, closed, late, sweep, made, slip, pending,
                       worker, touched>>
    BY DEF GradeLeader, period, payroll
  <1>2. PICK g \in Grades : row' = [row EXCEPT ![Leader].hrm = g]
    BY DEF GradeLeader
  <1>3. row[Leader] \in RowRecord /\ Leader \in Employees /\ Joiner # Leader
    BY JoinerFacts DEF KpiInv, TypeOK
  <1> DEFINE v == [row[Leader] EXCEPT !.hrm = g]
  <1>4. /\ v \in RowRecord
        /\ v.self = row[Leader].self /\ v.mgr = row[Leader].mgr /\ v.gm = row[Leader].gm
        /\ v.over = row[Leader].over /\ v.final = row[Leader].final
        /\ v.status = row[Leader].status
    BY <1>3 DEF RowRecord, GradeOrNone
  <1>5. row' = [row EXCEPT ![Leader] = v]
    BY <1>2
  <1> HIDE DEF v
  <1>6. /\ row' \in [Employees -> RowRecord]
        /\ \A c \in Employees : c # Leader => row'[c] = row[c]
        /\ \A c \in Employees :
              /\ row'[c].self = row[c].self /\ row'[c].mgr = row[c].mgr
              /\ row'[c].gm = row[c].gm /\ row'[c].over = row[c].over
              /\ row'[c].final = row[c].final /\ row'[c].status = row[c].status
    BY <1>3, <1>4, <1>5 DEF KpiInv, TypeOK
  <1>7. Ended(f)
    BY <1>1, EndedBy DEF KpiInv, TypeOK
  <1>8. row'[Joiner] = row[Joiner]
    BY <1>3, <1>6, JoinerFacts
  <1>9. /\ GradesScored' /\ FormsChecked' /\ ScoresHeld' /\ Unhired'
        /\ form' \in [Forms -> FormRecord]
        /\ \A h \in Forms :
              form'[h].who \in exists' \/ (form'[h].kind = "JOIN" /\ form'[h].step = "LOADED")
        /\ \A h \in Forms : h # f /\ InHandler(h) =>
              form'[h].who = form[h].who /\ InHandler(h)'
        /\ \A h \in Forms : h # f /\ HalfWay(h) =>
              form'[h].who = form[h].who /\ HalfWay(h)'
        /\ \A h \in Forms : h # f /\ form[h].step \in {"WRITTEN", "JUDGED"} =>
              form'[h].step \in {"WRITTEN", "JUDGED"}
    BY <1>1, <1>6, <1>7, <1>8, EndedForms
  <1>10. ~InHandler(f) /\ ~HalfWay(f)
    BY <1>1 DEF InHandler, HalfWay
  <1>11. TypeOK'
    <2>1. lagging' \subseteq Employees /\ deptOld' \in BOOLEAN
      BY <1>1, <1>3 DEF KpiInv, TypeOK
    <2>2. QED
      BY <1>1, <1>6, <1>9, <2>1 DEF KpiInv, TypeOK
  <1>12. Coherent'
    <2>1. \A h \in Forms : HalfWay(h) => form'[h].who = form[h].who /\ HalfWay(h)'
      BY <1>9, <1>10
    <2>2. ASSUME NEW c \in exists' PROVE RowRight(c) => RowRight(c)'
      <3>1. c \in Employees
        BY <1>1, <2>2 DEF KpiInv, TypeOK
      <3>2. Assessed(row'[c]) = Assessed(row[c])
        BY <1>6, <3>1 DEF Assessed
      <3>3. QED
        BY <1>1, <3>2, SameRowRight
    <2>3. QED
      BY <1>1, <2>1, <2>2, RowsKept DEF KpiInv
  <1>13. SlipFollows' /\ TasksFollow'
    <2>1. \A h \in Forms : InHandler(h) => form'[h].who = form[h].who /\ InHandler(h)'
      BY <1>9, <1>10
    <2>2. \A c \in Employees : pending'[c] >= pending[c] /\ pending'[c] \in Nat
      BY <1>1 DEF KpiInv, TypeOK
    <2>3. lagging \subseteq lagging'
      BY <1>1
    <2>4. \A c \in Employees : PayGrade(row'[c]) = PayGrade(row[c]) \/ c \in lagging'
      BY <1>1, <1>6
    <2>5. QED
      BY <1>1, <2>1, <2>2, <2>3, <2>4, SlipsKept DEF KpiInv
  <1>14. DeptFollows'
    <2>1. CASE deptOld'
      BY <2>1 DEF DeptFollows
    <2>2. CASE ~deptOld'
      <3>1. Ungraded(row', exists') = Ungraded(row, exists) /\ ~deptOld
        BY <1>1, <2>2
      <3>2. \A h \in Forms : form[h].step \in {"WRITTEN", "JUDGED"} =>
               form'[h].step \in {"WRITTEN", "JUDGED"}
        BY <1>1, <1>9
      <3>3. dept'.finished = dept.finished
        BY <1>1
      <3>4. QED
        BY <3>1, <3>2, <3>3, DeptKept DEF KpiInv
    <2>3. QED
      BY <2>1, <2>2
  <1>15. Kept
    <2>1. \A c \in Employees : Judged(row'[c]) = Judged(row[c])
      BY <1>6 DEF Judged
    <2>2. QED
      BY <2>1 DEF Kept
  <1>16. QED
    BY <1>9, <1>11, <1>12, <1>13, <1>14, <1>15 DEF KpiInv

LEMMA GiveUpKeeps ==
    ASSUME KpiInv, NEW f \in Forms, GiveUp(f)
    PROVE  KpiInv' /\ Kept
  <1> DEFINE e == form[f].who
  <1>1. /\ form' = [form EXCEPT ![f] = Idle]
        /\ touched' = IF HalfWay(f) THEN touched \cup {e} ELSE touched
        /\ lagging' = IF InHandler(f) THEN lagging \cup {e} ELSE lagging
        /\ deptOld' = (deptOld \/ form[f].step \in {"WRITTEN", "JUDGED"})
        /\ UNCHANGED <<row, items, exists, dept, closed, late, sweep, made, slip, pending,
                       worker>>
    BY DEF GiveUp, kpi, period, payroll
  <1>2. e \in Employees /\ (HalfWay(f) => e \in exists)
    BY FormTyped DEF HalfWay
  <1>3. Ended(f)
    BY <1>1, EndedBy DEF KpiInv, TypeOK
  <1>4. /\ GradesScored' /\ FormsChecked' /\ ScoresHeld' /\ Unhired'
        /\ form' \in [Forms -> FormRecord]
        /\ \A h \in Forms :
              form'[h].who \in exists' \/ (form'[h].kind = "JOIN" /\ form'[h].step = "LOADED")
        /\ \A h \in Forms : h # f /\ InHandler(h) =>
              form'[h].who = form[h].who /\ InHandler(h)'
        /\ \A h \in Forms : h # f /\ HalfWay(h) =>
              form'[h].who = form[h].who /\ HalfWay(h)'
        /\ \A h \in Forms : h # f /\ form[h].step \in {"WRITTEN", "JUDGED"} =>
              form'[h].step \in {"WRITTEN", "JUDGED"}
    BY <1>1, <1>3, EndedForms
  <1>5. TypeOK'
    <2>1. touched' \subseteq exists' /\ lagging' \subseteq Employees /\ deptOld' \in BOOLEAN
      BY <1>1, <1>2 DEF KpiInv, TypeOK
    <2>2. QED
      BY <1>1, <1>4, <2>1 DEF KpiInv, TypeOK
  <1>6. Coherent'
    <2>1. \A h \in Forms : HalfWay(h) => (form'[h].who = form[h].who /\ HalfWay(h)')
                                         \/ form[h].who \in touched'
      BY <1>1, <1>4
    <2>2. \A c : RowRight(c) => RowRight(c)'
      BY <1>1 DEF RowRight, TotalsRight
    <2>3. touched \subseteq touched'
      BY <1>1
    <2>4. QED
      BY <1>1, <2>1, <2>2, <2>3, RowsKept DEF KpiInv
  <1>7. SlipFollows' /\ TasksFollow'
    <2>1. \A h \in Forms : InHandler(h) => (form'[h].who = form[h].who /\ InHandler(h)')
                                           \/ form[h].who \in lagging'
      BY <1>1, <1>4
    <2>2. \A c \in Employees : pending'[c] >= pending[c] /\ pending'[c] \in Nat
      BY <1>1 DEF KpiInv, TypeOK
    <2>3. lagging \subseteq lagging'
      BY <1>1
    <2>4. QED
      BY <1>1, <2>1, <2>2, <2>3, SlipsKept DEF KpiInv
  <1>8. DeptFollows'
    <2>1. \A h \in Forms : form[h].step \in {"WRITTEN", "JUDGED"} =>
             form'[h].step \in {"WRITTEN", "JUDGED"} \/ deptOld'
      BY <1>1, <1>4
    <2>2. QED
      BY <1>1, <2>1, DeptKept DEF KpiInv
  <1>9. Kept
    BY <1>1 DEF Kept
  <1>10. QED
    BY <1>4, <1>5, <1>6, <1>7, <1>8, <1>9 DEF KpiInv

-----------------------------------------------------------------------------
(* The period                                                              *)

\* Steps that change neither rows nor requests.
LEMMA StillKeeps ==
    ASSUME KpiInv, UNCHANGED <<row, items, exists, dept, form, touched, deptOld>>
    PROVE  /\ GradesScored' /\ FormsChecked' /\ ScoresHeld' /\ Unhired'
           /\ Coherent' /\ DeptFollows' /\ Kept
  <1>1. GradesScored' /\ FormsChecked' /\ ScoresHeld' /\ Unhired'
    BY DEF KpiInv, GradesScored, FormsChecked, ScoresHeld, Unhired
  <1>2. Coherent'
    <2>1. \A h \in Forms : HalfWay(h) => HalfWay(h)'
      BY DEF HalfWay
    <2>2. \A c : RowRight(c) => RowRight(c)'
      BY DEF RowRight, TotalsRight
    <2>3. QED
      BY <2>1, <2>2, RowsKept DEF KpiInv
  <1>3. DeptFollows'
    BY DEF KpiInv, DeptFollows
  <1>4. Kept
    BY DEF Kept
  <1>5. QED
    BY <1>1, <1>2, <1>3, <1>4

LEMMA PeriodStillKeeps ==
    ASSUME KpiInv, UNCHANGED <<row, items, exists, dept, form, made, slip, pending, worker,
                               touched, lagging, deptOld>>,
           closed' \in BOOLEAN, late' \in BOOLEAN, sweep' \in SweepRecord,
           sweep'.loaded \subseteq exists, sweep'.defaulted \subseteq sweep'.loaded
    PROVE  KpiInv' /\ Kept
  <1>1. /\ GradesScored' /\ FormsChecked' /\ ScoresHeld' /\ Unhired'
        /\ Coherent' /\ DeptFollows' /\ Kept
    BY StillKeeps
  <1>2. TypeOK'
    BY DEF KpiInv, TypeOK
  <1>3. SlipFollows' /\ TasksFollow'
    <2>1. \A h \in Forms : InHandler(h) => InHandler(h)'
      BY DEF InHandler
    <2>2. \A c \in Employees : pending'[c] >= pending[c] /\ pending'[c] \in Nat
      BY DEF KpiInv, TypeOK
    <2>3. QED
      BY <2>1, <2>2, SlipsKept DEF KpiInv
  <1>4. QED
    BY <1>1, <1>2, <1>3 DEF KpiInv

LEMMA DeadlinePassesKeeps ==
    ASSUME KpiInv, DeadlinePasses
    PROVE  KpiInv' /\ Kept
  BY PeriodStillKeeps DEF DeadlinePasses, kpi, payroll, history, KpiInv, TypeOK

LEMMA FinalizeLoadKeeps ==
    ASSUME KpiInv, FinalizeLoad
    PROVE  KpiInv' /\ Kept
  <1>1. /\ UNCHANGED <<row, items, exists, dept, form, made, slip, pending, worker,
                       touched, lagging, deptOld, closed, late>>
        /\ closed \in BOOLEAN /\ late \in BOOLEAN
    BY DEF FinalizeLoad, kpi, payroll, history, KpiInv, TypeOK
  <1>2. /\ sweep' \in SweepRecord /\ sweep'.loaded \subseteq exists
        /\ sweep'.defaulted \subseteq sweep'.loaded
    BY DEF FinalizeLoad, SweepRecord, KpiInv, TypeOK
  <1>3. QED
    BY <1>1, <1>2, PeriodStillKeeps

LEMMA FinalizeRowsKeeps ==
    ASSUME KpiInv, FinalizeRows
    PROVE  KpiInv' /\ Kept
  <1>1. /\ UNCHANGED <<row, items, exists, dept, form, made, slip, pending, worker,
                       touched, lagging, deptOld, closed, late>>
        /\ closed \in BOOLEAN /\ late \in BOOLEAN
    BY DEF FinalizeRows, kpi, payroll, history, KpiInv, TypeOK
  <1>2. Ungraded(Finalized, exists) \in SUBSET Employees
    BY DEF KpiInv, TypeOK, Ungraded
  <1>3. /\ sweep' \in SweepRecord /\ sweep'.loaded \subseteq exists
        /\ sweep'.defaulted \subseteq sweep'.loaded
    BY <1>2 DEF FinalizeRows, SweepRecord, KpiInv, TypeOK
  <1>4. QED
    BY <1>1, <1>3, PeriodStillKeeps

LEMMA FinalizeFailsKeeps ==
    ASSUME KpiInv, FinalizeFails
    PROVE  KpiInv' /\ Kept
  BY NoSweepFacts, PeriodStillKeeps DEF FinalizeFails, kpi, payroll, history, KpiInv, TypeOK

LEMMA FinalizeCommitKeeps ==
    ASSUME KpiInv, FinalizeCommit
    PROVE  KpiInv' /\ Kept
  <1>1. /\ row' = Finalized /\ sweep' = NoSweep /\ closed' = TRUE
        /\ dept' = [finished |-> sweep.seen = {}, final |-> TRUE]
        /\ lagging' = lagging \cup
               {e \in sweep.defaulted : PayGrade(row'[e]) # PayGrade(row[e])}
        /\ deptOld' = (sweep.seen # Ungraded(row', exists))
        /\ UNCHANGED <<items, exists, late, form, made, slip, pending, worker, touched>>
    BY DEF FinalizeCommit, payroll
  <1>2. /\ row' \in [Employees -> RowRecord]
        /\ \A c \in Employees :
              /\ row'[c].self = row[c].self /\ row'[c].mgr = row[c].mgr
              /\ row'[c].gm = row[c].gm /\ row'[c].over = row[c].over
              /\ row'[c].status = row[c].status
              /\ row[c].final => row'[c].final
              /\ c \notin sweep.loaded => row'[c] = row[c]
              /\ c \notin sweep.defaulted => row'[c].hrm = row[c].hrm
    <2>1. ASSUME NEW c \in Employees
          PROVE  /\ row'[c] \in RowRecord
                 /\ row'[c].self = row[c].self /\ row'[c].mgr = row[c].mgr
                 /\ row'[c].gm = row[c].gm /\ row'[c].over = row[c].over
                 /\ row'[c].status = row[c].status
                 /\ row[c].final => row'[c].final
                 /\ c \notin sweep.loaded => row'[c] = row[c]
                 /\ c \notin sweep.defaulted => row'[c].hrm = row[c].hrm
      <3> DEFINE h == IF c \in sweep.defaulted THEN DefaultGrade ELSE row[c].hrm
                 n == row[c].final \/ c \in sweep.loaded
                 v == [row[c] EXCEPT !.hrm = h, !.final = n]
      <3>1. row[c] \in RowRecord
        BY DEF KpiInv, TypeOK
      <3>2. /\ h \in GradeOrNone /\ n \in BOOLEAN
            /\ row[c].final => n
            /\ c \notin sweep.defaulted => h = row[c].hrm
        BY <3>1, KpiAssumption DEF RowRecord, GradeOrNone
      <3>3. row'[c] = v
        BY <1>1 DEF Finalized
      <3>4. c \notin sweep.loaded => c \notin sweep.defaulted /\ n = row[c].final
        BY <3>1 DEF KpiInv, TypeOK, RowRecord
      <3> HIDE DEF h, n
      <3>5. /\ v \in RowRecord /\ v.hrm = h /\ v.final = n
            /\ v.self = row[c].self /\ v.mgr = row[c].mgr
            /\ v.gm = row[c].gm /\ v.over = row[c].over
            /\ v.status = row[c].status
        BY <3>1, <3>2 DEF RowRecord
      <3>6. c \notin sweep.loaded => v = row[c]
        BY <3>1, <3>2, <3>4 DEF RowRecord
      <3>7. QED
        BY <3>2, <3>3, <3>5, <3>6
    <2>2. row' \in [Employees -> RowRecord]
      <3>1. row' = [c \in Employees |-> row'[c]]
        BY <1>1 DEF Finalized
      <3>2. \A c \in Employees : row'[c] \in RowRecord
        BY <2>1
      <3>3. QED
        BY <3>1, <3>2
    <2>3. QED
      BY <2>1, <2>2
  <1>3. sweep.loaded \subseteq exists /\ sweep.defaulted \subseteq sweep.loaded
        /\ sweep.defaulted \subseteq Employees
    BY DEF KpiInv, TypeOK
  <1>4. TypeOK'
    <2>1. dept' \in DeptRecord /\ deptOld' \in BOOLEAN /\ lagging' \subseteq Employees
      BY <1>1, <1>3 DEF DeptRecord, KpiInv, TypeOK
    <2>2. QED
      BY <1>1, <1>2, <2>1, NoSweepFacts DEF KpiInv, TypeOK
  <1>5. GradesScored' /\ FormsChecked' /\ ScoresHeld'
    BY <1>1, <1>2 DEF KpiInv, GradesScored, FormsChecked, ScoresHeld
  <1>6. Unhired'
    BY <1>1, <1>2, <1>3, JoinerFacts DEF KpiInv, Unhired
  <1>7. Coherent'
    <2>1. \A h \in Forms : HalfWay(h) => HalfWay(h)'
      BY <1>1 DEF HalfWay
    <2>2. ASSUME NEW c \in exists' PROVE RowRight(c) => RowRight(c)'
      <3>1. c \in Employees
        BY <1>1, <2>2 DEF KpiInv, TypeOK
      <3>2. Assessed(row'[c]) = Assessed(row[c])
        BY <1>2, <3>1 DEF Assessed
      <3>3. QED
        BY <1>1, <3>2, SameRowRight
    <2>3. QED
      BY <1>1, <2>1, <2>2, RowsKept DEF KpiInv
  <1>8. SlipFollows' /\ TasksFollow'
    <2>1. \A h \in Forms : InHandler(h) => InHandler(h)'
      BY <1>1 DEF InHandler
    <2>2. \A c \in Employees : pending'[c] >= pending[c] /\ pending'[c] \in Nat
      BY <1>1 DEF KpiInv, TypeOK
    <2>3. \A c \in Employees : PayGrade(row'[c]) = PayGrade(row[c]) \/ c \in lagging'
      <3>1. ASSUME NEW c \in Employees, c \notin sweep.defaulted
            PROVE  PayGrade(row'[c]) = PayGrade(row[c])
        BY <1>2, <3>1 DEF PayGrade
      <3>2. QED
        BY <1>1, <3>1
    <2>4. QED
      BY <1>1, <2>1, <2>2, <2>3, SlipsKept DEF KpiInv
  <1>9. DeptFollows'
    BY <1>1 DEF DeptFollows
  <1>10. Kept
    <2>1. ASSUME NEW c \in Employees, row[c].final
          PROVE  Judged(row'[c]) = Judged(row[c])
      <3>1. row[c].final \in BOOLEAN /\ row'[c].final \in BOOLEAN
        BY <1>2 DEF KpiInv, TypeOK, RowRecord
      <3>2. QED
        BY <1>2, <2>1, <3>1 DEF Judged
    <2>2. QED
      BY <2>1 DEF Kept
  <1>11. QED
    BY <1>4, <1>5, <1>6, <1>7, <1>8, <1>9, <1>10 DEF KpiInv

-----------------------------------------------------------------------------
(* Payroll                                                                 *)

\* Steps of tasks: whoever had the right grade coming still has it or is lagging.
LEMMA TaskStepKeeps ==
    ASSUME KpiInv,
           UNCHANGED <<row, items, exists, dept, closed, late, sweep, form, made,
                       touched, deptOld>>,
           slip' \in [Employees -> Grades], pending' \in [Employees -> Nat],
           worker' \in [Workers -> TaskRecord], lagging' \subseteq Employees,
           SlipFollows', TasksFollow'
    PROVE  KpiInv' /\ Kept
  <1>1. /\ GradesScored' /\ FormsChecked' /\ ScoresHeld' /\ Unhired'
        /\ Coherent' /\ DeptFollows' /\ Kept
    BY StillKeeps
  <1>2. TypeOK'
    BY DEF KpiInv, TypeOK
  <1>3. QED
    BY <1>1, <1>2 DEF KpiInv

LEMMA TaskTyped ==
    ASSUME KpiInv, NEW w \in Workers
    PROVE  /\ worker[w] \in TaskRecord /\ worker[w].who \in Employees \cup {None}
           /\ worker[w].grade \in GradeOrNone /\ worker[w].old \in BOOLEAN
           /\ worker[w].who # None => worker[w].who \in Employees
  BY DEF KpiInv, TypeOK, TaskRecord

LEMMA TakenFacts ==
    ASSUME KpiInv, NEW e \in Employees, Taken(e)
    PROVE  /\ pending' \in [Employees -> Nat]
           /\ \A c \in Employees : c # e => pending'[c] = pending[c]
  BY DEF KpiInv, TypeOK, Taken

LEMMA RefuseKeeps ==
    ASSUME KpiInv, NEW e \in Employees, Refuse(e)
    PROVE  KpiInv' /\ Kept
  <1>1. /\ Taken(e) /\ lagging' = lagging \cup {e}
        /\ UNCHANGED <<row, items, exists, dept, closed, late, sweep, form, made, slip,
                       worker, touched, deptOld>>
    BY DEF Refuse, kpi, period
  <1>2. /\ pending' \in [Employees -> Nat]
        /\ \A c \in Employees : c # e => pending'[c] = pending[c]
    BY <1>1, TakenFacts
  <1>3. \A c \in Employees : Coming(c) => Coming(c)' \/ c \in lagging'
    BY <1>1, <1>2 DEF Coming, InHandler
  <1>4. SlipFollows'
    BY <1>1, <1>3 DEF SlipFollows, KpiInv
  <1>5. TasksFollow'
    BY <1>1, <1>3, TaskTyped DEF TasksFollow, KpiInv
  <1>6. /\ slip' \in [Employees -> Grades] /\ worker' \in [Workers -> TaskRecord]
        /\ lagging' \subseteq Employees
    BY <1>1 DEF KpiInv, TypeOK
  <1>7. QED
    BY <1>1, <1>2, <1>4, <1>5, <1>6, TaskStepKeeps

LEMMA TakeKeeps ==
    ASSUME KpiInv, NEW w \in Workers, NEW e \in Employees, Take(w, e)
    PROVE  KpiInv' /\ Kept
  <1>1. /\ Taken(e) /\ worker[w].who = None
        /\ worker' = [worker EXCEPT ![w].who = e]
        /\ UNCHANGED <<row, items, exists, dept, closed, late, sweep, form, made, slip,
                       touched, lagging, deptOld>>
    BY DEF Take, kpi, period, history
  <1>2. /\ pending' \in [Employees -> Nat]
        /\ \A c \in Employees : c # e => pending'[c] = pending[c]
    BY <1>1, TakenFacts
  <1>3. worker[w].grade = None
    BY <1>1 DEF KpiInv, TasksFollow
  <1>4. /\ worker' \in [Workers -> TaskRecord]
        /\ worker'[w].who = e /\ worker'[w].grade = None
        /\ \A v \in Workers : v # w => worker'[v] = worker[v]
    BY <1>1, <1>3, TaskTyped DEF KpiInv, TypeOK, TaskRecord
  <1>5. Coming(e)'
    BY <1>4 DEF Coming
  <1>6. ASSUME NEW c \in Employees, c # e, Coming(c) PROVE Coming(c)'
    <2>1. CASE pending[c] > 0
      BY <1>2, <1>6, <2>1 DEF Coming
    <2>2. CASE \E f \in Forms : form[f].who = c /\ InHandler(f)
      BY <1>1, <2>2 DEF Coming, InHandler
    <2>3. CASE \E v \in Workers : worker[v].who = c /\ worker[v].grade \in {None, PayGrade(row[c])}
      <3>1. c # None
        BY JoinerFacts
      <3>2. QED
        BY <1>1, <1>4, <2>3, <3>1 DEF Coming
    <2>4. QED
      BY <1>6, <2>1, <2>2, <2>3 DEF Coming
  <1>7. \A c \in Employees : Coming(c) => Coming(c)'
    BY <1>5, <1>6
  <1>8. SlipFollows'
    BY <1>1, <1>7 DEF SlipFollows, KpiInv
  <1>9. TasksFollow'
    BY <1>1, <1>4, <1>5, <1>7, TaskTyped DEF TasksFollow, KpiInv
  <1>10. slip' \in [Employees -> Grades] /\ lagging' \subseteq Employees
    BY <1>1 DEF KpiInv, TypeOK
  <1>11. QED
    BY <1>1, <1>2, <1>4, <1>8, <1>9, <1>10, TaskStepKeeps

LEMMA ReadGradeKeeps ==
    ASSUME KpiInv, NEW w \in Workers, ReadGrade(w)
    PROVE  KpiInv' /\ Kept
  <1> DEFINE e == worker[w].who
  <1> DEFINE g == PayGrade(row[e])
  <1>1. /\ e # None /\ worker[w].grade = None
        /\ worker' = [worker EXCEPT ![w].grade = g]
        /\ UNCHANGED <<row, items, exists, dept, closed, late, sweep, form, made, slip,
                       pending, touched, lagging, deptOld>>
    BY DEF ReadGrade, kpi, period, history
  <1>2. e \in Employees /\ row[e] \in RowRecord
    BY <1>1, TaskTyped DEF KpiInv, TypeOK
  <1>3. g \in Grades
    BY <1>2, PayGradeTyped
  <1> HIDE DEF g
  <1>4. /\ worker' \in [Workers -> TaskRecord]
        /\ worker'[w].who = e /\ worker'[w].grade = g /\ worker'[w].old = worker[w].old
        /\ \A v \in Workers : v # w => worker'[v] = worker[v]
    BY <1>1, <1>3, TaskTyped DEF KpiInv, TypeOK, TaskRecord, GradeOrNone
  <1>5. ASSUME NEW c \in Employees, Coming(c) PROVE Coming(c)'
    <2>1. CASE pending[c] > 0
      BY <1>1, <2>1 DEF Coming
    <2>2. CASE \E f \in Forms : form[f].who = c /\ InHandler(f)
      BY <1>1, <2>2 DEF Coming, InHandler
    <2>3. CASE \E v \in Workers : worker[v].who = c /\ worker[v].grade \in {None, PayGrade(row[c])}
      <3>1. PICK v \in Workers : worker[v].who = c /\ worker[v].grade \in {None, PayGrade(row[c])}
        BY <2>3
      <3>2. CASE v = w
        BY <1>1, <1>4, <3>1, <3>2 DEF Coming, g
      <3>3. CASE v # w
        BY <1>1, <1>4, <3>1, <3>3 DEF Coming
      <3>4. QED
        BY <3>2, <3>3
    <2>4. QED
      BY <1>5, <2>1, <2>2, <2>3 DEF Coming
  <1>6. SlipFollows'
    BY <1>1, <1>5 DEF SlipFollows, KpiInv
  <1>7. TasksFollow'
    BY <1>1, <1>2, <1>4, <1>5, TaskTyped DEF TasksFollow, KpiInv
  <1>8. /\ slip' \in [Employees -> Grades] /\ pending' \in [Employees -> Nat]
        /\ lagging' \subseteq Employees
    BY <1>1 DEF KpiInv, TypeOK
  <1>9. QED
    BY <1>1, <1>4, <1>6, <1>7, <1>8, TaskStepKeeps

LEMMA SaveSlipKeeps ==
    ASSUME KpiInv, NEW w \in Workers, SaveSlip(w)
    PROVE  KpiInv' /\ Kept
  <1> DEFINE e == worker[w].who
             g == worker[w].grade
  <1>1. /\ g # None /\ slip' = [slip EXCEPT ![e] = g]
        /\ worker' = [v \in Workers |->
                    IF v = w THEN NoTask
                    ELSE IF worker[v].who = e /\ worker[v].grade # None
                         THEN [worker[v] EXCEPT !.old = TRUE] ELSE worker[v]]
        /\ lagging' = IF g = PayGrade(row[e]) THEN lagging \ {e}
                      ELSE IF worker[w].old THEN lagging \cup {e} ELSE lagging
        /\ UNCHANGED <<row, items, exists, dept, closed, late, sweep, form, made,
                       pending, touched, deptOld>>
    BY DEF SaveSlip, kpi, period
  <1>2. e \in Employees /\ g \in Grades /\ row[e] \in RowRecord
    BY <1>1, TaskTyped DEF KpiInv, TasksFollow, TypeOK, GradeOrNone
  <1>3. \A v \in Workers : v # w =>
           /\ worker'[v] \in TaskRecord /\ worker'[v].who = worker[v].who
           /\ worker'[v].grade = worker[v].grade
           /\ \/ worker'[v] = worker[v]
              \/ worker[v].who = e /\ worker'[v].old
           /\ worker'[v].old \/ ~(worker[v].who = e /\ worker[v].grade # None)
    BY <1>1, TaskTyped DEF TaskRecord
  <1>4. worker'[w] = NoTask /\ worker' \in [Workers -> TaskRecord]
    BY <1>1, <1>3, NoTaskFacts
  <1>5. ASSUME NEW c \in Employees, c # e \/ g # PayGrade(row[c]), Coming(c)
        PROVE  Coming(c)'
    <2>1. CASE pending[c] > 0
      BY <1>1, <2>1 DEF Coming
    <2>2. CASE \E f \in Forms : form[f].who = c /\ InHandler(f)
      BY <1>1, <2>2 DEF Coming, InHandler
    <2>3. CASE \E v \in Workers : worker[v].who = c /\ worker[v].grade \in {None, PayGrade(row[c])}
      <3>1. PICK v \in Workers : worker[v].who = c /\ worker[v].grade \in {None, PayGrade(row[c])}
        BY <2>3
      <3>2. v # w
        BY <1>1, <1>5, <3>1
      <3>3. QED
        BY <1>1, <1>3, <3>1, <3>2 DEF Coming
    <2>4. QED
      BY <1>5, <2>1, <2>2, <2>3 DEF Coming
  <1>6. \A c \in Employees : c # e => (c \in lagging' <=> c \in lagging)
    BY <1>1
  <1>7. SlipFollows'
    <2>1. ASSUME NEW c \in Employees, c # e
          PROVE  slip'[c] = PayGrade(row'[c]) \/ Coming(c)' \/ c \in lagging'
      BY <1>1, <1>5, <1>6, <2>1 DEF KpiInv, SlipFollows, TypeOK
    <2>2. slip'[e] = g
      BY <1>1, <1>2 DEF KpiInv, TypeOK
    <2>3. ASSUME NEW c \in Employees, c = e, g # PayGrade(row[c])
          PROVE  Coming(c)' \/ c \in lagging'
      <3>1. CASE worker[w].old
        BY <1>1, <2>3, <3>1
      <3>2. CASE ~worker[w].old
        <4>1. Coming(c) \/ c \in lagging
          BY <1>2, <2>3, <3>2, JoinerFacts DEF KpiInv, TasksFollow
        <4>2. QED
          BY <1>1, <1>5, <2>3, <4>1
      <3>3. QED
        BY <3>1, <3>2
    <2>4. QED
      BY <1>1, <2>1, <2>2, <2>3 DEF SlipFollows
  <1>8. TasksFollow'
    <2>1. ASSUME NEW v \in Workers, v # w, worker'[v].who # None, ~worker'[v].old
          PROVE  Coming(worker[v].who)' \/ worker[v].who \in lagging'
      <3>1. worker'[v] = worker[v] /\ worker[v].who \in Employees
        BY <1>3, <2>1, TaskTyped
      <3>2. CASE worker[v].who = e
        <4>1. worker'[v].grade = None
          BY <1>3, <2>1, <3>1, <3>2
        <4>2. ASSUME NEW c, c = worker[v].who PROVE Coming(c)'
          BY <3>1, <4>1, <4>2 DEF Coming
        <4>3. QED
          BY <1>1, <3>1, <4>1 DEF Coming
      <3>3. CASE worker[v].who # e
        <4>1. Coming(worker[v].who) \/ worker[v].who \in lagging
          BY <2>1, <3>1 DEF KpiInv, TasksFollow
        <4>2. ASSUME NEW c \in Employees, c = worker[v].who
              PROVE  Coming(c)' \/ c \in lagging'
          BY <1>5, <1>6, <3>3, <4>1, <4>2
        <4>3. QED
          BY <3>1, <4>2 DEF Coming
      <3>4. QED
        BY <3>2, <3>3
    <2>2. QED
      BY <1>3, <1>4, <2>1, NoTaskFacts, TaskTyped DEF TasksFollow, KpiInv
  <1>9. /\ slip' \in [Employees -> Grades] /\ pending' \in [Employees -> Nat]
        /\ lagging' \subseteq Employees
    BY <1>1, <1>2 DEF KpiInv, TypeOK
  <1>10. QED
    BY <1>1, <1>4, <1>7, <1>8, <1>9, TaskStepKeeps

LEMMA LoseTaskKeeps ==
    ASSUME KpiInv, NEW w \in Workers, LoseTask(w)
    PROVE  KpiInv' /\ Kept
  <1> DEFINE e == worker[w].who
  <1>1. /\ e # None /\ lagging' = lagging \cup {e}
        /\ worker' = [worker EXCEPT ![w] = NoTask]
        /\ UNCHANGED <<row, items, exists, dept, closed, late, sweep, form, made, slip,
                       pending, touched, deptOld>>
    BY DEF LoseTask, kpi, period
  <1>2. e \in Employees
    BY <1>1, TaskTyped
  <1>3. /\ worker' \in [Workers -> TaskRecord] /\ worker'[w] = NoTask
        /\ \A v \in Workers : v # w => worker'[v] = worker[v]
    BY <1>1, NoTaskFacts DEF KpiInv, TypeOK
  <1>4. ASSUME NEW c \in Employees, Coming(c) PROVE Coming(c)' \/ c \in lagging'
    <2>1. CASE pending[c] > 0
      BY <1>1, <2>1 DEF Coming
    <2>2. CASE \E f \in Forms : form[f].who = c /\ InHandler(f)
      BY <1>1, <2>2 DEF Coming, InHandler
    <2>3. CASE \E v \in Workers : worker[v].who = c /\ worker[v].grade \in {None, PayGrade(row[c])}
      <3>1. PICK v \in Workers : worker[v].who = c /\ worker[v].grade \in {None, PayGrade(row[c])}
        BY <2>3
      <3>2. CASE v = w
        BY <1>1, <3>1, <3>2
      <3>3. CASE v # w
        BY <1>1, <1>3, <3>1, <3>3 DEF Coming
      <3>4. QED
        BY <3>2, <3>3
    <2>4. QED
      BY <1>4, <2>1, <2>2, <2>3 DEF Coming
  <1>5. SlipFollows'
    BY <1>1, <1>4 DEF SlipFollows, KpiInv
  <1>6. TasksFollow'
    BY <1>1, <1>3, <1>4, NoTaskFacts, TaskTyped DEF TasksFollow, KpiInv
  <1>7. /\ slip' \in [Employees -> Grades] /\ pending' \in [Employees -> Nat]
        /\ lagging' \subseteq Employees
    BY <1>1, <1>2 DEF KpiInv, TypeOK
  <1>8. QED
    BY <1>1, <1>3, <1>5, <1>6, <1>7, TaskStepKeeps

-----------------------------------------------------------------------------
(* The invariant                                                           *)

LEMMA InitKpi == Init => KpiInv
  <1> SUFFICES ASSUME Init PROVE KpiInv
    OBVIOUS
  <1> DEFINE v == [NewRow EXCEPT !.hrm = DefaultGrade, !.final = TRUE]
  <1>1. /\ v \in RowRecord /\ v.self = FALSE /\ v.mgr = None /\ v.gm = None
        /\ v.over = None /\ v.hrm = DefaultGrade /\ v.status = "NEW"
    BY KpiAssumption DEF NewRow, RowRecord, GradeOrNone
  <1>2. row = [e \in Employees |-> IF e = Leader THEN v ELSE NewRow]
    BY DEF Init
  <1> HIDE DEF v
  <1>3. /\ row \in [Employees -> RowRecord] /\ row[Leader] = v
        /\ \A e \in Employees : e # Leader => row[e] = NewRow
    BY <1>1, <1>2, NewRowFacts, JoinerFacts
  <1>4. /\ exists = Employees \ {Joiner} /\ exists \subseteq Employees /\ Leader \in exists
        /\ dept = [finished |-> exists = {Leader}, final |-> FALSE]
        /\ closed = FALSE /\ late = FALSE /\ sweep = NoSweep /\ made = 0
        /\ form \in [Forms -> FormRecord] /\ \A f \in Forms : form[f] = Idle
        /\ slip \in [Employees -> Grades] /\ \A e \in Employees : slip[e] = DefaultGrade
        /\ pending \in [Employees -> Nat]
        /\ worker \in [Workers -> TaskRecord] /\ \A w \in Workers : worker[w] = NoTask
        /\ touched = {} /\ lagging = {} /\ deptOld = FALSE
    BY IdleFacts, NoTaskFacts, JoinerFacts, KpiAssumption DEF Init
  <1>5. /\ items \in [Employees -> ItemsRecord]
        /\ \A e \in Employees : items[e].self = FALSE /\ items[e].mgr = None
        /\ items[Joiner] = NoScores
    <2>1. items = [e \in Employees |->
                     IF e = Joiner THEN NoScores ELSE [NoScores EXCEPT !.made = TRUE]]
      BY DEF Init
    <2>2. /\ [NoScores EXCEPT !.made = TRUE] \in ItemsRecord
          /\ [NoScores EXCEPT !.made = TRUE].self = FALSE
          /\ [NoScores EXCEPT !.made = TRUE].mgr = None
      BY DEF NoScores, ItemsRecord
    <2>3. QED
      BY <2>1, <2>2, NewRowFacts, JoinerFacts
  <1>6. TypeOK
    <2>1. dept \in DeptRecord
      BY <1>4 DEF DeptRecord
    <2>2. made \in 0 .. MaxForms
      BY <1>4, KpiAssumption
    <2>3. QED
      BY <1>3, <1>4, <1>5, <2>1, <2>2, NoSweepFacts, IdleFacts DEF TypeOK
  <1>7. GradesScored /\ FormsChecked /\ ScoresHeld
    BY <1>1, <1>3, <1>4, NewRowFacts, IdleFacts DEF GradesScored, FormsChecked, ScoresHeld
  <1>8. Unhired /\ TasksFollow
    BY <1>3, <1>4, <1>5, JoinerFacts, NoTaskFacts DEF Unhired, TasksFollow
  <1>9. Coherent
    <2>1. ASSUME NEW e \in Employees PROVE RowRight(e)
      <3>1. /\ row[e].self = FALSE /\ row[e].mgr = None /\ row[e].gm = None
            /\ row[e].over = None /\ row[e].status = "NEW"
        BY <1>1, <1>3, NewRowFacts
      <3>2. GradeOf(row[e].over, items[e].mgr) = None /\ Derived(row[e]) = "NEW"
        BY <1>5, <3>1 DEF GradeOf, Derived
      <3>3. QED
        BY <1>5, <3>1, <3>2 DEF RowRight, TotalsRight
    <2>2. QED
      BY <1>4, <2>1, CoherentMeans
  <1>10. SlipFollows
    <2>1. \A e \in Employees : PayGrade(row[e]) = DefaultGrade
      BY <1>1, <1>3, NewRowFacts DEF PayGrade
    <2>2. QED
      BY <1>4, <2>1 DEF SlipFollows
  <1>11. DeptFollows
    <2>1. Ungraded(row, exists) = exists \ {Leader}
      <3>1. Graded(row[Leader])
        BY <1>1, <1>3, KpiAssumption DEF Graded
      <3>2. \A e \in exists : e # Leader => ~Graded(row[e])
        BY <1>3, <1>4, NewRowFacts DEF Graded
      <3>3. QED
        BY <3>1, <3>2 DEF Ungraded
    <2>2. dept.finished = (exists = {Leader})
      BY <1>4
    <2>3. QED
      BY <1>4, <2>1, <2>2 DEF DeptFollows
  <1>12. QED
    BY <1>6, <1>7, <1>8, <1>9, <1>10, <1>11 DEF KpiInv

LEMMA OpenKeeps ==
    ASSUME KpiInv, NEW f \in Forms, Open(f)
    PROVE  KpiInv' /\ Kept
  <1>1. ASSUME NEW e \in Employees,
               OpenSelf(f, e) \/ OpenItem(f, e) \/ OpenManager(f, e) \/ OpenHrm(f, e)
        PROVE  KpiInv' /\ Kept
    BY <1>1, LoadKeeps DEF OpenSelf, OpenItem, OpenManager, OpenHrm
  <1>2. CASE OpenDepartment(f)
    <2>1. Leader \in exists /\ Leader \in Employees
      BY JoinerFacts DEF KpiInv, TypeOK
    <2>2. QED
      BY <1>2, <2>1, LoadKeeps DEF OpenDepartment
  <1>3. CASE OpenJoin(f)
    BY <1>3, JoinerFacts, LoadKeeps DEF OpenJoin
  <1>4. QED
    BY <1>1, <1>2, <1>3 DEF Open

LEMMA NextKpi ==
    ASSUME KpiInv, [Next]_vars
    PROVE  KpiInv' /\ Kept
  <1>1. ASSUME NEW f \in Forms, Open(f) PROVE KpiInv' /\ Kept
    BY <1>1, OpenKeeps
  <1>2. ASSUME NEW f \in Forms, Request(f) PROVE KpiInv' /\ Kept
    BY <1>2, WriteSelfKeeps, WriteManagerKeeps, WriteHrmKeeps, CreateKeeps, JudgeKeeps,
       TellKeeps, MarkKeeps, CallKeeps, ScoreItemsKeeps, CreateItemsKeeps, ReloadKeeps,
       ReadItemsKeeps, WriteScoresKeeps, SaveDepartmentKeeps, GradeLeaderKeeps, GiveUpKeeps
    DEF Request
  <1>3. ASSUME Period PROVE KpiInv' /\ Kept
    BY <1>3, DeadlinePassesKeeps, FinalizeLoadKeeps, FinalizeRowsKeeps, FinalizeCommitKeeps,
       FinalizeFailsKeeps DEF Period
  <1>4. ASSUME Payroll PROVE KpiInv' /\ Kept
    BY <1>4, RefuseKeeps, TakeKeeps, ReadGradeKeeps, SaveSlipKeeps, LoseTaskKeeps DEF Payroll
  <1>5. ASSUME UNCHANGED vars PROVE KpiInv' /\ Kept
    <2>1. UNCHANGED <<row, items, exists, dept, closed, late, sweep, form, made, slip,
                      pending, worker, touched, lagging, deptOld>>
      BY <1>5 DEF vars, kpi, period, payroll, history
    <2>2. closed \in BOOLEAN /\ late \in BOOLEAN /\ sweep \in SweepRecord
          /\ sweep.loaded \subseteq exists /\ sweep.defaulted \subseteq sweep.loaded
      BY DEF KpiInv, TypeOK
    <2>3. QED
      BY <2>1, <2>2, PeriodStillKeeps
  <1>6. QED
    BY <1>1, <1>2, <1>3, <1>4, <1>5 DEF Next

THEOREM KpiCorrect == Spec => []KpiInv
  <1>1. KpiInv /\ [Next]_vars => KpiInv'
    BY NextKpi
  <1>2. QED
    BY InitKpi, <1>1, PTL DEF Spec

\* The variables keep the values they are declared with, and what requests and the
\* finalization work on exists.
THEOREM KpiTyped == Spec => []TypeOK
  <1>1. KpiInv => TypeOK
    BY DEF KpiInv
  <1>2. QED
    BY KpiCorrect, <1>1, PTL

\* Whatever forms, batches and single scores interleave, statement by statement, a row
\* at rest has the totals, grade and status of its items, unless its last writer had
\* read what others changed meanwhile or a request died half way.
THEOREM RowsCoherent == Spec => []Coherent
  <1>1. KpiInv => Coherent
    BY DEF KpiInv
  <1>2. QED
    BY KpiCorrect, <1>1, PTL

\* Whatever grades are set and by whom, and whichever tasks overlap, the grade in a
\* payroll slip is the one that counts or is on its way, unless a query set it without
\* a call, a task was lost or refused, or of two tasks the older was saved last.
THEOREM PayrollFollows == Spec => []SlipFollows
  <1>1. KpiInv => SlipFollows
    BY DEF KpiInv
  <1>2. QED
    BY KpiCorrect, <1>1, PTL

\* However saves and finalizations interleave, a department is finished exactly when
\* everybody in it is graded, but for a handler under way and for verdicts that were
\* old when they were written.
THEOREM DepartmentFollows == Spec => []DeptFollows
  <1>1. KpiInv => DeptFollows
    BY DEF KpiInv
  <1>2. QED
    BY KpiCorrect, <1>1, PTL

\* No step scores or opens again an assessment that is final, except for requests that
\* loaded it before and for HRM's requests that write back an old copy.
THEOREM FinalizedKept == Spec => FinalKept
  <1>1. KpiInv /\ [Next]_vars => [Kept]_vars
    BY NextKpi
  <1>2. FinalKept <=> [][Kept]_vars
    BY PTL DEF FinalKept, Kept
  <1>3. QED
    BY KpiCorrect, <1>1, <1>2, PTL DEF Spec
=====================
