------------------------- MODULE LeaveBalanceProofs -------------------------
(***************************************************************************)
(* Proofs about LeaveBalance for any months of the two years, any leave    *)
(* taken and any number of tasks at once.                                  *)
(***************************************************************************)
EXTENDS LeaveBalance, WellFoundedInduction, TLAPS

\* What a row of month m may hold, saved or in a task's hands: it opens with no more
\* than was earned before the month.
Within(m, r) ==
    /\ r.carried + r.opening <= Opening + Generated * (m - First)
    /\ r.remaining > 0 => r.remaining + r.consumed <= Entitled(m)

CarriedInJanuary(m, r) == MonthOf(m) # 1 => r.carried = 0

RowsWithin == \A m \in Months : Within(m, row[m])

JobsWithin == \A j \in Jobs :
    Within(job[j].month, job[j].row) /\ CarriedInJanuary(job[j].month, job[j].row)

LeaveInv == TypeOK /\ RowsWithin /\ JobsWithin

-----------------------------------------------------------------------------
(* Numbers and records.                                                    *)

LEMMA MonthFacts == 
    /\ Months \subseteq Int /\ First \in Months
    /\ Opening \in Nat /\ Generated \in Nat
    /\ \A m \in Months : m >= First /\ MonthOf(m) \in Int
    /\ \A m \in Months : MonthOf(m) \in {1, 4} => m - 1 \in Months
  BY BoundsAssumption DEF Months, MonthOf

LEMMA EarnedGrows ==
  ASSUME NEW m \in Months
  PROVE  /\ Generated * (m - First) \in Nat
         /\ Generated * (m - 1 - First + 1) = Generated * (m - First)
         /\ Generated * (m - First + 1) = Generated * (m - First) + Generated
         /\ Entitled(m) = Opening + Generated * (m - First) + Generated
         /\ Entitled(m - 1) = Opening + Generated * (m - First)
         /\ Entitled(m) \in Nat
  <1>1. m - First \in Nat /\ Generated \in Nat /\ Opening \in Nat /\ First \in Int /\ m \in Int
    BY BoundsAssumption DEF Months
  <1>2. \A k \in Nat : Generated * k \in Nat /\ Generated * (k + 1) = Generated * k + Generated
    BY <1>1
  <1>3. m - 1 - First + 1 = m - First
    BY <1>1
  <1> QED BY <1>1, <1>2, <1>3 DEF Entitled

LEMMA ZerosTyped == Zeros \in RowRecord
  BY MonthFacts DEF Zeros, RowRecord

LEMMA IdleTyped == Idle \in JobRecord
  BY MonthFacts, ZerosTyped DEF Idle, JobRecord

LEMMA ZerosWithin ==
  ASSUME NEW m \in Months
  PROVE  Within(m, Zeros) /\ CarriedInJanuary(m, Zeros)
  BY MonthFacts, EarnedGrows DEF Within, CarriedInJanuary, Zeros

LEMMA BalanceTyped == \A r \in RowRecord : Balance(r) \in Int
  BY MonthFacts DEF RowRecord, Balance

\* A row of an earlier month has left no more than was earned by then.
LEMMA EarlierRow ==
  ASSUME TypeOK, RowsWithin, NEW m \in Months
  PROVE  /\ RowOf(m - 1) \in RowRecord
         /\ RowOf(m - 1).remaining <= Opening + Generated * (m - First)
  <1>1. CASE m - 1 \in Months
    <2>1. RowOf(m - 1) = row[m - 1] /\ row[m - 1] \in RowRecord
      BY <1>1 DEF RowOf, TypeOK
    <2>2. row[m - 1].remaining \in Int /\ row[m - 1].consumed \in Nat
      BY <2>1 DEF RowRecord
    <2>3. Within(m - 1, row[m - 1])
      BY <1>1 DEF RowsWithin
    <2>4. Generated * (m - First) \in Nat /\ Opening \in Nat
          /\ Entitled(m - 1) = Opening + Generated * (m - First)
      BY EarnedGrows, MonthFacts
    <2> QED BY <2>1, <2>2, <2>3, <2>4 DEF Within
  <1>2. CASE m - 1 \notin Months
    <2>1. RowOf(m - 1) = [Zeros EXCEPT !.remaining = Opening]
      BY <1>2 DEF RowOf
    <2>2. Generated * (m - First) \in Nat /\ Opening \in Nat
      BY EarnedGrows, MonthFacts
    <2> QED BY <2>1, <2>2, MonthFacts DEF RowRecord, Zeros
  <1> QED BY <1>1, <1>2

-----------------------------------------------------------------------------
(* What a preparation and a refresh make of a row.                         *)

LEMMA OpensWithin ==
  ASSUME TypeOK, RowsWithin, NEW m \in Months
  PROVE  /\ CarriedInto(m) \in Int /\ OpeningOf(m) \in Int
         /\ CarriedInto(m) + OpeningOf(m) <= Opening + Generated * (m - First)
         /\ MonthOf(m) # 1 => CarriedInto(m) = 0
  <1> DEFINE prev == RowOf(m - 1).remaining
  <1>1. prev \in Int /\ prev <= Opening + Generated * (m - First)
    BY EarlierRow DEF RowRecord
  <1>2. Generated * (m - First) \in Nat /\ Opening \in Nat
    BY EarnedGrows, MonthFacts
  <1>3. CASE MonthOf(m) = 1
    BY <1>1, <1>2, <1>3 DEF CarriedInto, OpeningOf
  <1>4. CASE MonthOf(m) = 4
    <2>1. UnusedCarried(m) \in Nat
      <3>1. m - 1 \in Months /\ m - 2 \in Months /\ m - 3 \in Months
        BY <1>4, BoundsAssumption DEF MonthOf, Months
      <3>2. \A k \in Months : row[k].carried \in Int /\ row[k].consumed \in Nat
        BY DEF TypeOK, RowRecord
      <3>3. /\ row[m - 3].carried \in Int /\ row[m - 3].consumed \in Nat
            /\ row[m - 2].consumed \in Nat /\ row[m - 1].consumed \in Nat
        BY <3>1, <3>2
      <3>4. RowOf(m - 3) = row[m - 3] /\ RowOf(m - 2) = row[m - 2] /\ RowOf(m - 1) = row[m - 1]
        BY <3>1 DEF RowOf
      <3> QED BY <3>3, <3>4 DEF UnusedCarried, AtLeastZero
    <2>2. OpeningOf(m) = AtLeastZero(prev - UnusedCarried(m)) /\ CarriedInto(m) = 0
      BY <1>4 DEF OpeningOf, CarriedInto
    <2> HIDE DEF prev
    <2> QED BY <1>1, <1>2, <2>1, <2>2 DEF AtLeastZero
  <1>5. CASE MonthOf(m) \notin {1, 4}
    BY <1>1, <1>2, <1>5 DEF CarriedInto, OpeningOf
  <1> QED BY <1>3, <1>4, <1>5

LEMMA SetFigures ==
  ASSUME NEW r \in RowRecord, NEW c, NEW o, NEW g
  PROVE  [r EXCEPT !.carried = c, !.opening = o, !.generated = g]
           = [carried |-> c, opening |-> o, generated |-> g, consumed |-> r.consumed,
              remaining |-> r.remaining]
  <1> DEFINE f == [r EXCEPT !.carried = c, !.opening = o, !.generated = g]
             v == [carried |-> c, opening |-> o, generated |-> g, consumed |-> r.consumed,
                   remaining |-> r.remaining]
             columns == {"carried", "opening", "generated", "consumed", "remaining"}
  <1>1. r = [k \in columns |-> r[k]]
    BY DEF RowRecord
  <1>2. f = [k \in columns |-> f[k]] /\ v = [k \in columns |-> v[k]]
    BY <1>1
  <1>3. /\ f["carried"] = c /\ f["opening"] = o /\ f["generated"] = g
        /\ f["consumed"] = r.consumed /\ f["remaining"] = r.remaining
    BY <1>1
  <1>4. /\ v["carried"] = c /\ v["opening"] = o /\ v["generated"] = g
        /\ v["consumed"] = r.consumed /\ v["remaining"] = r.remaining
    OBVIOUS
  <1> HIDE DEF f, v
  <1>5. \A k \in columns : f[k] = v[k]
    BY <1>3, <1>4
  <1>6. f = v
    BY <1>2, <1>5
  <1> QED BY <1>6 DEF f, v

LEMMA FilledWithin ==
  ASSUME TypeOK, RowsWithin, NEW m \in Months, NEW r \in RowRecord, NEW g \in {0, Generated}
  PROVE  /\ FilledIn(r, m, g) \in RowRecord
         /\ Within(m, FilledIn(r, m, g)) /\ CarriedInJanuary(m, FilledIn(r, m, g))
  <1> DEFINE c == CarriedInto(m)
             o == OpeningOf(m)
             v == FilledIn(r, m, g)
             before == Generated * (m - First)
  <1>1. /\ c \in Int /\ o \in Int /\ c + o <= Opening + before
        /\ MonthOf(m) # 1 => c = 0
    BY OpensWithin
  <1>2. r.consumed \in Nat /\ g \in Nat /\ g <= Generated /\ Generated \in Nat /\ Opening \in Nat
    BY MonthFacts DEF RowRecord
  <1>3. v = [carried |-> c, opening |-> o, generated |-> g, consumed |-> r.consumed,
             remaining |-> c + o + g - r.consumed]
    <2> DEFINE f == [r EXCEPT !.carried = c, !.opening = o, !.generated = g]
    <2>1. v = [f EXCEPT !.remaining = Balance(f)]
      BY DEF FilledIn
    <2> HIDE DEF c, o, v
    <2>2. f = [carried |-> c, opening |-> o, generated |-> g, consumed |-> r.consumed,
               remaining |-> r.remaining]
      BY SetFigures
    <2>3. Balance(f) = c + o + g - r.consumed
      BY <2>2 DEF Balance
    <2> HIDE DEF f
    <2> QED BY <2>1, <2>2, <2>3
  <1>4. before \in Nat /\ Entitled(m) = Opening + before + Generated
    BY EarnedGrows
  <1> HIDE DEF c, o, v, before
  <1>5. v \in RowRecord
    BY <1>1, <1>2, <1>3 DEF RowRecord
  <1>6. Within(m, v)
    <2>1. v.carried + v.opening <= Opening + before
      BY <1>1, <1>3
    <2>2. v.remaining + v.consumed <= Entitled(m)
      BY <1>1, <1>2, <1>3, <1>4
    <2> QED BY <2>1, <2>2 DEF Within, before
  <1>7. CarriedInJanuary(m, v)
    BY <1>1, <1>3 DEF CarriedInJanuary
  <1> QED BY <1>5, <1>6, <1>7 DEF v

LEMMA CountedWithin ==
  ASSUME NEW m \in Months, NEW r \in RowRecord, NEW n \in Nat, Within(m, r), CarriedInJanuary(m, r)
  PROVE  /\ Counted(r, n) \in RowRecord
         /\ Within(m, Counted(r, n)) /\ CarriedInJanuary(m, Counted(r, n))
  <1> DEFINE v == Counted(r, n)
             b == r.carried + r.opening + r.generated - n
             before == Generated * (m - First)
  <1>1. /\ r.carried \in Int /\ r.opening \in Int /\ r.generated \in {0, Generated}
        /\ Generated \in Nat /\ Opening \in Nat
    BY MonthFacts DEF RowRecord
  <1>2. v = [carried |-> r.carried, opening |-> r.opening, generated |-> r.generated,
             consumed |-> n, remaining |-> AtLeastZero(b)]
    <2> DEFINE f == [r EXCEPT !.consumed = n]
    <2>1. v = [f EXCEPT !.remaining = AtLeastZero(Balance(f))]
      BY DEF Counted
    <2> HIDE DEF v
    <2>2. f = [carried |-> r.carried, opening |-> r.opening, generated |-> r.generated,
               consumed |-> n, remaining |-> r.remaining]
      BY DEF RowRecord
    <2>3. Balance(f) = b
      BY <2>2 DEF Balance
    <2> HIDE DEF f, b
    <2> QED BY <2>1, <2>2, <2>3
  <1>3. before \in Nat /\ Entitled(m) = Opening + before + Generated
        /\ r.carried + r.opening <= Opening + before
    BY EarnedGrows DEF Within
  <1>4. r.generated \in Nat /\ r.generated <= Generated
    BY <1>1
  <1> HIDE DEF v, before
  <1>5. AtLeastZero(b) \in Int /\ (AtLeastZero(b) > 0 => AtLeastZero(b) = b)
    BY <1>1, <1>4 DEF AtLeastZero
  <1>6. v \in RowRecord
    BY <1>1, <1>2, <1>5 DEF RowRecord
  <1>7. Within(m, v)
    <2>1. v.carried + v.opening <= Opening + before
      BY <1>2, <1>3
    <2>2. v.remaining > 0 => v.remaining + v.consumed <= Entitled(m)
      BY <1>1, <1>2, <1>3, <1>4, <1>5
    <2> QED BY <2>1, <2>2 DEF Within, before
  <1>8. CarriedInJanuary(m, v)
    BY <1>2 DEF CarriedInJanuary
  <1> QED BY <1>6, <1>7, <1>8 DEF v

-----------------------------------------------------------------------------
(* The invariant.                                                          *)

LEMMA InitInv == Init => LeaveInv
  <1> SUFFICES ASSUME Init PROVE LeaveInv
    OBVIOUS
  <1> DEFINE first == [carried |-> 0, opening |-> Opening, generated |-> Generated,
                       consumed |-> 0, remaining |-> Opening + Generated]
  <1>1. /\ first \in RowRecord /\ first.carried = 0 /\ first.opening = Opening
        /\ first.consumed = 0 /\ first.remaining = Opening + Generated
    BY MonthFacts DEF RowRecord
  <1>2. row = [m \in Months |-> IF m = First THEN first ELSE Zeros]
    BY DEF Init
  <1> HIDE DEF first
  <1>3. Within(First, first) /\ CarriedInJanuary(First, first)
    <2>1. Entitled(First) = Opening + Generated * (First - First) + Generated
          /\ Generated * (First - First) \in Nat
      BY EarnedGrows, MonthFacts
    <2> QED BY <1>1, <2>1, MonthFacts DEF Within, CarriedInJanuary
  <1>4. \A m \in Months : /\ row[m] \in RowRecord
                          /\ Within(m, row[m]) /\ CarriedInJanuary(m, row[m])
    BY <1>1, <1>2, <1>3, ZerosTyped, ZerosWithin
  <1>5. job \in [Jobs -> JobRecord] /\ \A j \in Jobs : job[j] = Idle
    BY IdleTyped DEF Init
  <1>6. TypeOK
    BY <1>2, <1>4, <1>5, MonthFacts, BoundsAssumption DEF TypeOK, CarriedInJanuary, Init
  <1>7. JobsWithin
    BY <1>5, ZerosWithin, MonthFacts DEF JobsWithin, Idle
  <1> QED BY <1>4, <1>6, <1>7 DEF LeaveInv, RowsWithin

\* A task that takes up a row, or gives it back, leaves the rows alone.
LEMMA JobChanges ==
  ASSUME LeaveInv, NEW j \in Jobs, NEW next \in JobRecord,
         job' = [job EXCEPT ![j] = next], row' = row, now' = now, behind' = behind,
         refreshes' \in 0 .. MaxRefreshes,
         next.step = "IDLE" => next = Idle,
         Within(next.month, next.row), CarriedInJanuary(next.month, next.row)
  PROVE  LeaveInv'
  <1>1. job' \in [Jobs -> JobRecord] /\ \A k \in Jobs : job'[k] = IF k = j THEN next ELSE job[k]
    BY DEF LeaveInv, TypeOK
  <1>2. TypeOK'
    BY <1>1 DEF LeaveInv, TypeOK
  <1>3. RowsWithin'
    BY DEF LeaveInv, RowsWithin
  <1>4. JobsWithin'
    BY <1>1 DEF LeaveInv, JobsWithin
  <1> QED BY <1>2, <1>3, <1>4 DEF LeaveInv

\* A save puts the row of a task in its place.
LEMMA SaveKeeps ==
  ASSUME LeaveInv, NEW j \in Jobs, Save(j), now' = now, refreshes' = refreshes,
         behind' \subseteq Months
  PROVE  LeaveInv'
  <1> DEFINE m == job[j].month
  <1>1. /\ m \in Months /\ job[j].row \in RowRecord
        /\ Within(m, job[j].row) /\ CarriedInJanuary(m, job[j].row)
    BY DEF LeaveInv, TypeOK, JobsWithin, JobRecord
  <1>2. /\ row' = [row EXCEPT ![m] = job[j].row]
        /\ row \in [Months -> RowRecord]
    BY DEF Save, LeaveInv, TypeOK
  <1> HIDE DEF m
  <1>3. row' \in [Months -> RowRecord] /\ RowsWithin'
        /\ \A k \in Months : CarriedInJanuary(k, row'[k])
    BY <1>1, <1>2 DEF RowsWithin, LeaveInv, TypeOK, CarriedInJanuary
  <1> DEFINE older(k) == job[k].old \/ (job[k].step = "COMPUTED"
                                         /\ job[k].month \in Outdated(m, job[j].row))
  <1>4. job' = [k \in Jobs |-> IF k = j THEN Idle ELSE [job[k] EXCEPT !.old = older(k)]]
    BY DEF Save, m
  <1>5. \A k \in Jobs : older(k) \in BOOLEAN
    BY DEF LeaveInv, TypeOK, JobRecord
  <1> HIDE DEF older
  <1>6. ASSUME NEW k \in Jobs
        PROVE  /\ job'[k] \in JobRecord
               /\ job'[k] = Idle \/ (job'[k].step = job[k].step /\ job'[k].month = job[k].month
                                     /\ job'[k].row = job[k].row /\ k # j)
    <2>1. CASE k = j
      BY <1>4, <2>1, IdleTyped
    <2>2. CASE k # j
      <3>1. job'[k] = [job[k] EXCEPT !.old = older(k)]
        BY <1>4, <2>2
      <3>2. job[k] \in JobRecord
        BY DEF LeaveInv, TypeOK
      <3> QED BY <1>5, <2>2, <3>1, <3>2 DEF JobRecord
    <2> QED BY <2>1, <2>2
  <1>7. job' \in [Jobs -> JobRecord]
    BY <1>4, <1>6
  <1>8. \A k \in Jobs : job'[k].step = "IDLE" => job'[k] = Idle
    <2> SUFFICES ASSUME NEW k \in Jobs, job'[k].step = "IDLE"
                 PROVE  job'[k] = Idle
      OBVIOUS
    <2>1. CASE job'[k] = Idle
      BY <2>1
    <2>2. CASE job'[k] # Idle
      <3>1. job[k].step = "IDLE" /\ k # j
        BY <1>6, <2>2
      <3>2. job[k] = Idle /\ older(k) = FALSE
        BY <3>1 DEF LeaveInv, TypeOK, older, Idle
      <3>3. job'[k] = [Idle EXCEPT !.old = FALSE]
        BY <1>4, <3>1, <3>2
      <3> QED BY <3>3 DEF Idle
    <2> QED BY <2>1, <2>2
  <1>9. TypeOK'
    BY <1>3, <1>7, <1>8 DEF LeaveInv, TypeOK, CarriedInJanuary
  <1>10. JobsWithin'
    <2> SUFFICES ASSUME NEW k \in Jobs
                 PROVE  /\ Within(job'[k].month, job'[k].row)
                        /\ CarriedInJanuary(job'[k].month, job'[k].row)
      BY DEF JobsWithin
    <2>1. CASE job'[k] = Idle
      <3>1. Idle.month = First /\ Idle.row = Zeros
        BY DEF Idle
      <3> QED BY <2>1, <3>1, ZerosWithin, MonthFacts
    <2>2. CASE job'[k] # Idle
      BY <1>6, <2>2 DEF LeaveInv, JobsWithin
    <2> QED BY <2>1, <2>2
  <1> QED BY <1>3, <1>9, <1>10 DEF LeaveInv

LEMMA OutdatedMonths == \A m, r : Outdated(m, r) \subseteq Months
  BY DEF Outdated, FilledFrom

LEMMA NextInv ==
  ASSUME LeaveInv, [Next]_vars
  PROVE  LeaveInv'
  <1>1. TypeOK /\ RowsWithin /\ JobsWithin
    BY DEF LeaveInv
  <1>2. \A j \in Jobs : /\ job[j].month \in Months /\ job[j].row \in RowRecord
                        /\ Within(job[j].month, job[j].row)
                        /\ CarriedInJanuary(job[j].month, job[j].row)
    BY <1>1 DEF TypeOK, JobsWithin, JobRecord
  <1>3. \A m \in Months : /\ row[m] \in RowRecord
                          /\ Within(m, row[m]) /\ CarriedInJanuary(m, row[m])
    BY <1>1 DEF TypeOK, RowsWithin, CarriedInJanuary
  <1>4. now \in Months /\ refreshes \in 0 .. MaxRefreshes /\ behind \subseteq Months
    BY <1>1 DEF TypeOK
  <1>5. CASE UNCHANGED vars
    BY <1>1, <1>5 DEF vars, LeaveInv, TypeOK, RowsWithin, JobsWithin
  <1>6. CASE TurnMonth
    <2>1. now' \in Months
      BY <1>4, <1>6, BoundsAssumption DEF TurnMonth, Months
    <2> QED BY <1>1, <1>6, <2>1 DEF TurnMonth, LeaveInv, TypeOK, RowsWithin, JobsWithin
  <1>7. ASSUME NEW j \in Jobs, PrepareLoad(j)
        PROVE  LeaveInv'
    <2> DEFINE next == [step |-> "LOADED", month |-> now, row |-> row[now], old |-> FALSE]
    <2>1. next \in JobRecord /\ next.step # "IDLE" /\ next.month = now /\ next.row = row[now]
      BY <1>3, <1>4 DEF JobRecord
    <2>2. /\ job' = [job EXCEPT ![j] = next] /\ row' = row /\ now' = now /\ behind' = behind
          /\ refreshes' = refreshes
      BY <1>7 DEF PrepareLoad
    <2> HIDE DEF next
    <2> QED BY <1>3, <1>4, <2>1, <2>2, JobChanges
  <1>8. ASSUME NEW j \in Jobs, PrepareCompute(j)
        PROVE  LeaveInv'
    <2>1. PICK g \in {0, Generated} :
            job' = [job EXCEPT ![j].step = "COMPUTED",
                               ![j].row = FilledIn(job[j].row, job[j].month, g)]
      BY <1>8 DEF PrepareCompute
    <2> DEFINE m == job[j].month
               filled == FilledIn(job[j].row, m, g)
               next == [job[j] EXCEPT !.step = "COMPUTED", !.row = filled]
    <2>2. filled \in RowRecord /\ Within(m, filled) /\ CarriedInJanuary(m, filled)
      BY <1>1, <1>2, FilledWithin
    <2>3. job' = [job EXCEPT ![j] = next] /\ job[j] \in JobRecord
      BY <1>1, <2>1 DEF TypeOK
    <2>4. m \in Months /\ m = job[j].month
      BY <1>2
    <2> HIDE DEF filled, m
    <2>5. next \in JobRecord /\ next.step # "IDLE" /\ next.month = m /\ next.row = filled
      BY <2>2, <2>3, <2>4 DEF JobRecord
    <2>6. row' = row /\ now' = now /\ behind' = behind /\ refreshes' = refreshes
      BY <1>8 DEF PrepareCompute
    <2> HIDE DEF next
    <2> QED BY <1>4, <2>2, <2>3, <2>5, <2>6, JobChanges
  <1>9. ASSUME NEW j \in Jobs, PrepareSave(j)
        PROVE  LeaveInv'
    <2>1. behind' \subseteq Months
      BY <1>2, <1>4, <1>9, OutdatedMonths DEF PrepareSave
    <2> QED BY <1>9, <2>1, SaveKeeps DEF PrepareSave
  <1>10. ASSUME NEW j \in Jobs, NEW m \in Months, RefreshLoad(j, m)
         PROVE  LeaveInv'
    <2>1. PICK n \in DaysTaken :
            job' = [job EXCEPT ![j] = [step |-> "REFRESHED", month |-> m,
                                       row |-> Counted(row[m], n), old |-> FALSE]]
      BY <1>10 DEF RefreshLoad
    <2>2. n \in Nat
      BY BoundsAssumption
    <2> DEFINE counted == Counted(row[m], n)
               next == [step |-> "REFRESHED", month |-> m, row |-> counted, old |-> FALSE]
    <2>3. counted \in RowRecord /\ Within(m, counted) /\ CarriedInJanuary(m, counted)
      BY <1>3, <2>2, CountedWithin
    <2>4. job' = [job EXCEPT ![j] = next]
      BY <2>1
    <2> HIDE DEF counted
    <2>5. next \in JobRecord /\ next.step # "IDLE" /\ next.month = m /\ next.row = counted
      BY <2>3 DEF JobRecord
    <2>6. /\ row' = row /\ now' = now /\ behind' = behind
          /\ refreshes' \in 0 .. MaxRefreshes
      BY <1>4, <1>10, BoundsAssumption DEF RefreshLoad
    <2> HIDE DEF next
    <2> QED BY <2>3, <2>4, <2>5, <2>6, JobChanges
  <1>11. ASSUME NEW j \in Jobs, RefreshSave(j)
         PROVE  LeaveInv'
    <2>1. behind' \subseteq Months
      BY <1>2, <1>4, <1>11, OutdatedMonths DEF RefreshSave
    <2> QED BY <1>11, <2>1, SaveKeeps DEF RefreshSave
  <1>12. ASSUME NEW j \in Jobs, Stop(j)
         PROVE  LeaveInv'
    <2>1. Within(Idle.month, Idle.row) /\ CarriedInJanuary(Idle.month, Idle.row)
      BY ZerosWithin, MonthFacts DEF Idle
    <2> QED BY <1>4, <1>12, <2>1, IdleTyped, JobChanges DEF Stop
  <1> QED BY <1>5, <1>6, <1>7, <1>8, <1>9, <1>10, <1>11, <1>12 DEF Next

-----------------------------------------------------------------------------
(* Theorems.                                                               *)

\* The inductive invariant: saved or held by a task, the row of a month opens with and
\* leaves no more than was earned, and only January's carries leave over.
THEOREM LeaveInvariant == Spec => []LeaveInv
  <1>1. LeaveInv /\ [Next]_vars => LeaveInv'
    BY NextInv
  <1> QED BY InitInv, <1>1, PTL DEF Spec

\* Every column has its type, and only a January's row carries leave over.
THEOREM LeaveTyped == Spec => []TypeOK
  <1>1. LeaveInv => TypeOK
    BY DEF LeaveInv
  <1> QED BY LeaveInvariant, <1>1, PTL

\* No order of preparations and refreshes makes leave that was not earned.
THEOREM NoLeaveFromNothing == Spec => []WithinEntitlement
  <1>1. LeaveInv => WithinEntitlement
    BY DEF LeaveInv, RowsWithin, Within, WithinEntitlement
  <1> QED BY LeaveInvariant, <1>1, PTL

-----------------------------------------------------------------------------
(* The FIFO rule.  A row that is not behind opens with the figures that    *)
(* the rows before it give now, and a row that is not overdrawn has left   *)
(* what its own columns come to.                                           *)

Fits(m, r) == r.carried = CarriedInto(m) /\ r.opening = OpeningOf(m)

Balanced(r) == r.remaining >= 0 => r.remaining = AtLeastZero(Balance(r))

RowsFit == \A m \in Months \ behind : Fits(m, row[m])

ComputedFit == \A j \in Jobs :
    job[j].step = "COMPUTED" /\ ~job[j].old => Fits(job[j].month, job[j].row)

AllBalanced ==
    /\ \A m \in Months : Balanced(row[m])
    /\ \A j \in Jobs : Balanced(job[j].row)

FifoInv == LeaveInv /\ RowsFit /\ ComputedFit /\ AllBalanced

LEMMA ZerosBalanced == Balanced(Zeros)
  BY DEF Balanced, Balance, Zeros, AtLeastZero

LEMMA IdleBalanced == Balanced(Idle.row) /\ Idle.step = "IDLE"
  <1>1. Idle.row = Zeros /\ Idle.step = "IDLE"
    BY DEF Idle
  <1> QED BY <1>1, ZerosBalanced

\* Filling a row in gives it the figures of the rows before it, and keeps what it charges.
LEMMA FilledFits ==
  ASSUME TypeOK, RowsWithin, NEW m \in Months, NEW r \in RowRecord, NEW g \in {0, Generated}
  PROVE  Fits(m, FilledIn(r, m, g)) /\ Balanced(FilledIn(r, m, g))
  <1> DEFINE c == CarriedInto(m)
             o == OpeningOf(m)
             v == FilledIn(r, m, g)
             f == [r EXCEPT !.carried = c, !.opening = o, !.generated = g]
  <1>1. c \in Int /\ o \in Int
    BY OpensWithin
  <1>2. r.consumed \in Nat /\ g \in Nat
    BY MonthFacts DEF RowRecord
  <1>3. v = [f EXCEPT !.remaining = Balance(f)]
    BY DEF FilledIn
  <1> HIDE DEF v
  <1>4. f = [carried |-> c, opening |-> o, generated |-> g, consumed |-> r.consumed,
             remaining |-> r.remaining]
    <2> HIDE DEF c, o
    <2> QED BY SetFigures
  <1> HIDE DEF c, o, f
  <1>5. Balance(f) = c + o + g - r.consumed
    BY <1>4 DEF Balance
  <1>6. v = [carried |-> c, opening |-> o, generated |-> g, consumed |-> r.consumed,
             remaining |-> c + o + g - r.consumed]
    BY <1>3, <1>4, <1>5
  <1>7. Fits(m, v)
    BY <1>6 DEF Fits, c, o
  <1>8. Balanced(v)
    BY <1>1, <1>2, <1>6 DEF Balanced, Balance, AtLeastZero
  <1> QED BY <1>7, <1>8 DEF v

LEMMA CountedBalanced ==
  ASSUME NEW r \in RowRecord, NEW n \in Nat
  PROVE  Balanced(Counted(r, n))
  <1> DEFINE f == [r EXCEPT !.consumed = n]
             b == r.carried + r.opening + r.generated - n
             v == Counted(r, n)
  <1>1. b \in Int
    BY MonthFacts DEF RowRecord
  <1>2. v = [f EXCEPT !.remaining = AtLeastZero(Balance(f))]
    BY DEF Counted
  <1>3. f = [carried |-> r.carried, opening |-> r.opening, generated |-> r.generated,
             consumed |-> n, remaining |-> r.remaining]
    BY DEF RowRecord
  <1>4. Balance(f) = b
    BY <1>3 DEF Balance
  <1> HIDE DEF v, f
  <1>5. v = [carried |-> r.carried, opening |-> r.opening, generated |-> r.generated,
             consumed |-> n, remaining |-> AtLeastZero(b)]
    BY <1>2, <1>3, <1>4
  <1>6. Balance(v) = b /\ v.remaining = AtLeastZero(b)
    BY <1>5 DEF Balance
  <1> QED BY <1>6 DEF Balanced, v

\* A save leaves the figures that a month opens with as they are, but for the months
\* that Outdated names.
LEMMA OpensAsBefore ==
  ASSUME TypeOK, NEW m \in Months, NEW r, row' = [row EXCEPT ![m] = r],
         NEW n \in Months, n \notin Outdated(m, r)
  PROVE  CarriedInto(n)' = CarriedInto(n) /\ OpeningOf(n)' = OpeningOf(n)
  <1>1. \A k : k # m => RowOf(k)' = RowOf(k)
    BY DEF RowOf, TypeOK
  <1>2. m \in Int /\ n \in Int
    BY MonthFacts
  <1>3. CASE <<r.carried, r.consumed, r.remaining>>
               = <<row[m].carried, row[m].consumed, row[m].remaining>>
    <2>1. /\ RowOf(m)'.carried = RowOf(m).carried /\ RowOf(m)'.consumed = RowOf(m).consumed
          /\ RowOf(m)'.remaining = RowOf(m).remaining
      BY <1>3 DEF RowOf, TypeOK
    <2>2. \A k : /\ RowOf(k)'.carried = RowOf(k).carried /\ RowOf(k)'.consumed = RowOf(k).consumed
                 /\ RowOf(k)'.remaining = RowOf(k).remaining
      BY <1>1, <2>1
    <2> QED BY <2>2 DEF CarriedInto, OpeningOf, UnusedCarried
  <1>4. CASE n \notin FilledFrom(m)
    <2>1. n - 1 # m /\ (MonthOf(n) = 4 => n - 2 # m /\ n - 3 # m)
      BY <1>2, <1>4 DEF FilledFrom
    <2>2. RowOf(n - 1)' = RowOf(n - 1)
      BY <1>1, <2>1
    <2>3. MonthOf(n) = 4 => UnusedCarried(n)' = UnusedCarried(n)
      BY <1>1, <2>1, <2>2 DEF UnusedCarried
    <2> QED BY <2>2, <2>3 DEF CarriedInto, OpeningOf
  <1> QED BY <1>3, <1>4 DEF Outdated

LEMMA InitFits == Init => FifoInv
  <1> SUFFICES ASSUME Init PROVE FifoInv
    OBVIOUS
  <1>1. LeaveInv
    BY InitInv
  <1> DEFINE first == [carried |-> 0, opening |-> Opening, generated |-> Generated,
                       consumed |-> 0, remaining |-> Opening + Generated]
  <1>2. row = [m \in Months |-> IF m = First THEN first ELSE Zeros] /\ behind = Months \ {First}
        /\ job = [j \in Jobs |-> Idle]
    BY DEF Init
  <1>3. Balanced(first)
    BY MonthFacts DEF Balanced, Balance, AtLeastZero
  <1>4. Fits(First, row[First])
    <2>1. row[First].carried = 0 /\ row[First].opening = Opening
      BY <1>2, MonthFacts
    <2>2. First - 1 \notin Months /\ MonthOf(First) \notin {1, 4}
      BY BoundsAssumption DEF Months, MonthOf
    <2>3. RowOf(First - 1).remaining = Opening
      BY <2>2 DEF RowOf, Zeros
    <2> QED BY <2>1, <2>2, <2>3 DEF Fits, CarriedInto, OpeningOf
  <1> HIDE DEF first
  <1>5. RowsFit
    BY <1>2, <1>4 DEF RowsFit
  <1>6. ComputedFit
    BY <1>2, IdleBalanced DEF ComputedFit
  <1>7. AllBalanced
    BY <1>2, <1>3, ZerosBalanced, IdleBalanced DEF AllBalanced
  <1> QED BY <1>1, <1>5, <1>6, <1>7 DEF FifoInv

\* A task that takes up a row, fills it in or gives it back.
LEMMA JobChangesFit ==
  ASSUME FifoInv, LeaveInv', NEW j \in Jobs, NEW next,
         job' = [job EXCEPT ![j] = next], row' = row, behind' = behind,
         next.step = "COMPUTED" => Fits(next.month, next.row), Balanced(next.row)
  PROVE  FifoInv'
  <1>1. \A k \in Jobs : job'[k] = IF k = j THEN next ELSE job[k]
    BY DEF FifoInv, LeaveInv, TypeOK
  <1>2. ASSUME NEW m
        PROVE  CarriedInto(m)' = CarriedInto(m) /\ OpeningOf(m)' = OpeningOf(m)
    BY DEF CarriedInto, OpeningOf, UnusedCarried, RowOf
  <1>3. RowsFit'
    BY <1>2 DEF FifoInv, RowsFit, Fits
  <1>4. ComputedFit'
    BY <1>1, <1>2 DEF FifoInv, ComputedFit, Fits
  <1>5. AllBalanced'
    BY <1>1 DEF FifoInv, AllBalanced, Balanced, Balance
  <1> QED BY <1>3, <1>4, <1>5 DEF FifoInv

\* A save, whose row opens with the figures of the rows before it unless its month is
\* behind afterwards.
LEMMA SaveFits ==
  ASSUME FifoInv, LeaveInv', NEW j \in Jobs, Save(j),
         \A n \in Months \ behind' :
            /\ n \notin Outdated(job[j].month, job[j].row)
            /\ n # job[j].month => n \notin behind
            /\ n = job[j].month => Fits(n, job[j].row)
  PROVE  FifoInv'
  <1> DEFINE m == job[j].month
             r == job[j].row
             older(k) == job[k].old \/ (job[k].step = "COMPUTED" /\ job[k].month \in Outdated(m, r))
  <1>1. TypeOK /\ m \in Months /\ r \in RowRecord /\ Balanced(r)
    BY DEF FifoInv, LeaveInv, TypeOK, JobRecord, AllBalanced
  <1>2. /\ row' = [row EXCEPT ![m] = r]
        /\ job' = [k \in Jobs |-> IF k = j THEN Idle ELSE [job[k] EXCEPT !.old = older(k)]]
    BY DEF Save
  <1>3. \A n \in Months \ behind' :
            n \notin Outdated(m, r) /\ (n # m => n \notin behind) /\ (n = m => Fits(n, r))
    OBVIOUS
  <1> HIDE DEF m, r
  <1>4. \A n \in Months : row'[n] = IF n = m THEN r ELSE row[n]
    BY <1>1, <1>2 DEF TypeOK
  <1>5. ASSUME NEW n \in Months, n \notin Outdated(m, r), NEW x, Fits(n, x)
        PROVE  Fits(n, x)'
    BY <1>1, <1>2, <1>5, OpensAsBefore DEF Fits
  <1>6. RowsFit'
    <2> SUFFICES ASSUME NEW n \in Months \ behind' PROVE Fits(n, row[n])'
      BY DEF RowsFit
    <2>1. Fits(n, row'[n]) /\ n \notin Outdated(m, r)
      BY <1>3, <1>4 DEF FifoInv, RowsFit
    <2> QED BY <1>5, <2>1 DEF Fits
  <1>7. ASSUME NEW k \in Jobs, job'[k].step = "COMPUTED"
        PROVE  /\ job[k].step = "COMPUTED" /\ job'[k].month = job[k].month
               /\ job'[k].row = job[k].row /\ job'[k].old = older(k)
    <2>1. k # j
      BY <1>2, <1>7, IdleBalanced
    <2>2. job'[k] = [job[k] EXCEPT !.old = older(k)] /\ job[k] \in JobRecord
      BY <1>1, <1>2, <2>1 DEF TypeOK
    <2> HIDE DEF older
    <2> QED BY <1>7, <2>2 DEF JobRecord
  <1>8. ComputedFit'
    <2> SUFFICES ASSUME NEW k \in Jobs, job'[k].step = "COMPUTED", ~job'[k].old
                 PROVE  Fits(job[k].month, job[k].row)'
      BY DEF ComputedFit
    <2> DEFINE n == job[k].month
    <2>1. ~older(k)
      BY <1>7
    <2>2. job[k].step = "COMPUTED" /\ ~job[k].old /\ n \notin Outdated(m, r) /\ n \in Months
      BY <1>1, <1>7, <2>1 DEF TypeOK, JobRecord
    <2>3. Fits(n, job[k].row)
      BY <2>2 DEF FifoInv, ComputedFit
    <2>4. job'[k].month = n /\ job'[k].row = job[k].row
      BY <1>7
    <2> HIDE DEF n
    <2> QED BY <1>5, <2>2, <2>3, <2>4 DEF Fits
  <1>9. AllBalanced'
    <2>1. \A n \in Months : Balanced(row'[n])
      BY <1>1, <1>4 DEF FifoInv, AllBalanced
    <2>2. ASSUME NEW k \in Jobs PROVE Balanced(job'[k].row)
      <3>1. CASE k = j
        BY <1>2, <3>1, IdleBalanced
      <3>2. CASE k # j
        <4>1. job'[k] = [job[k] EXCEPT !.old = older(k)] /\ job[k] \in JobRecord
          BY <1>1, <1>2, <3>2 DEF TypeOK
        <4>2. job'[k].row = job[k].row
          BY <4>1 DEF JobRecord
        <4> QED BY <4>2 DEF FifoInv, AllBalanced
      <3> QED BY <3>1, <3>2
    <2> QED BY <2>1, <2>2 DEF AllBalanced, Balanced, Balance
  <1> QED BY <1>6, <1>8, <1>9 DEF FifoInv

LEMMA NextFits ==
  ASSUME FifoInv, [Next]_vars
  PROVE  FifoInv'
  <1>1. LeaveInv /\ LeaveInv' /\ TypeOK /\ RowsWithin
    BY NextInv DEF FifoInv, LeaveInv
  <1>2. \A j \in Jobs : job[j].month \in Months /\ job[j].row \in RowRecord /\ job[j] \in JobRecord
    BY <1>1 DEF TypeOK, JobRecord
  <1>3. now \in Months /\ \A m \in Months : row[m] \in RowRecord /\ Balanced(row[m])
    BY <1>1 DEF TypeOK, FifoInv, AllBalanced
  <1>4. \A m \in Months : \A r : m \notin Outdated(m, r)
    BY MonthFacts DEF Outdated, FilledFrom
  <1>5. CASE UNCHANGED <<row, job, behind>>
    <2>1. \A m : CarriedInto(m)' = CarriedInto(m) /\ OpeningOf(m)' = OpeningOf(m)
      BY <1>5 DEF CarriedInto, OpeningOf, UnusedCarried, RowOf
    <2> QED BY <1>1, <1>5, <2>1
            DEF FifoInv, RowsFit, ComputedFit, AllBalanced, Fits, Balanced, Balance
  <1>6. ASSUME NEW j \in Jobs, PrepareLoad(j)
        PROVE  FifoInv'
    <2> DEFINE next == [step |-> "LOADED", month |-> now, row |-> row[now], old |-> FALSE]
    <2>1. next.step # "COMPUTED" /\ Balanced(next.row)
      BY <1>3
    <2>2. job' = [job EXCEPT ![j] = next] /\ row' = row /\ behind' = behind
      BY <1>6 DEF PrepareLoad
    <2> HIDE DEF next
    <2> QED BY <1>1, <2>1, <2>2, JobChangesFit
  <1>7. ASSUME NEW j \in Jobs, PrepareCompute(j)
        PROVE  FifoInv'
    <2>1. PICK g \in {0, Generated} :
            job' = [job EXCEPT ![j].step = "COMPUTED",
                               ![j].row = FilledIn(job[j].row, job[j].month, g)]
      BY <1>7 DEF PrepareCompute
    <2> DEFINE m == job[j].month
               filled == FilledIn(job[j].row, m, g)
               next == [job[j] EXCEPT !.step = "COMPUTED", !.row = filled]
    <2>2. Fits(m, filled) /\ Balanced(filled)
      BY <1>1, <1>2, FilledFits
    <2>3. job' = [job EXCEPT ![j] = next] /\ row' = row /\ behind' = behind
      BY <1>1, <1>7, <2>1 DEF TypeOK, PrepareCompute
    <2> HIDE DEF filled
    <2>4. next.month = m /\ next.row = filled
      BY <1>2 DEF JobRecord
    <2> HIDE DEF next, m
    <2> QED BY <1>1, <2>2, <2>3, <2>4, JobChangesFit
  <1>8. ASSUME NEW j \in Jobs, PrepareSave(j)
        PROVE  FifoInv'
    <2> DEFINE m == job[j].month
               others == behind \cup Outdated(m, job[j].row)
    <2>1. /\ Save(j) /\ job[j].step = "COMPUTED"
          /\ behind' = IF job[j].old THEN others \cup {m} ELSE others \ {m}
      BY <1>8 DEF PrepareSave
    <2>2. ~job[j].old => Fits(m, job[j].row)
      BY <2>1 DEF FifoInv, ComputedFit
    <2> QED BY <1>1, <1>2, <1>4, <2>1, <2>2, SaveFits
  <1>9. ASSUME NEW j \in Jobs, NEW m \in Months, RefreshLoad(j, m)
        PROVE  FifoInv'
    <2>1. PICK n \in DaysTaken :
            job' = [job EXCEPT ![j] = [step |-> "REFRESHED", month |-> m,
                                       row |-> Counted(row[m], n), old |-> FALSE]]
      BY <1>9 DEF RefreshLoad
    <2> DEFINE counted == Counted(row[m], n)
               next == [step |-> "REFRESHED", month |-> m, row |-> counted, old |-> FALSE]
    <2>2. Balanced(counted)
      BY <1>3, BoundsAssumption, CountedBalanced
    <2>3. job' = [job EXCEPT ![j] = next] /\ row' = row /\ behind' = behind
      BY <1>9, <2>1 DEF RefreshLoad
    <2> HIDE DEF counted
    <2>4. next.step # "COMPUTED" /\ next.row = counted
      OBVIOUS
    <2> HIDE DEF next
    <2> QED BY <1>1, <2>2, <2>3, <2>4, JobChangesFit
  <1>10. ASSUME NEW j \in Jobs, RefreshSave(j)
         PROVE  FifoInv'
    <2> DEFINE m == job[j].month
               r == job[j].row
               undone == r.carried # row[m].carried \/ r.opening # row[m].opening
                         \/ r.generated # row[m].generated
    <2>1. Save(j) /\ behind' = behind \cup Outdated(m, r) \cup (IF undone THEN {m} ELSE {})
      BY <1>10 DEF RefreshSave
    <2>2. m \notin behind' => Fits(m, r)
      BY <1>2, <2>1 DEF FifoInv, RowsFit, Fits
    <2>3. \A n \in Months \ behind' : n \notin Outdated(m, r) /\ n \notin behind
      BY <2>1
    <2> QED BY <1>1, <2>1, <2>2, <2>3, SaveFits
  <1>11. ASSUME NEW j \in Jobs, Stop(j)
         PROVE  FifoInv'
    BY <1>1, <1>11, IdleBalanced, JobChangesFit DEF Stop
  <1>12. CASE [TurnMonth]_vars
    BY <1>5, <1>12 DEF TurnMonth, vars
  <1> QED BY <1>6, <1>7, <1>8, <1>9, <1>10, <1>11, <1>12 DEF Next

-----------------------------------------------------------------------------
(* The two pots.  Pots is defined by recursion on the months: that there   *)
(* is such a function is shown by the first month up to which there is     *)
(* none.                                                                   *)

LEMMA LeastElement ==
  ASSUME NEW T, T \subseteq Nat, T # {}
  PROVE  \E x \in T : \A y \in T : x <= y
  <1> DEFINE R == {p \in Nat \X Nat : p[1] < p[2]}
  <1>1. IsWellFoundedOn(R, Nat)
    BY NatLessThanWellFounded DEF OpToRel
  <1>2. \A x, y \in Nat : y < x => <<y, x>> \in R
    OBVIOUS
  <1> HIDE DEF R
  <1>3. PICK x \in T : \A y \in T : <<y, x>> \notin R
    BY <1>1, WFMin
  <1>4. ASSUME NEW y \in T
        PROVE  x <= y
    <2>1. x \in Nat /\ y \in Nat /\ ~(y < x)
      BY <1>2, <1>3
    <2> QED BY <2>1
  <1> QED BY <1>4

\* A set of months has a first one.
LEMMA FirstMonth ==
  ASSUME NEW T, T \subseteq Months, T # {}
  PROVE  \E x \in T : \A y \in T : x <= y
  <1>1. T \subseteq Nat
    BY BoundsAssumption DEF Months
  <1> QED BY <1>1, LeastElement

FirstPots == [carried |-> 0, earned |-> row[First].opening]

\* The pots at the end of month m, after those of the month before it.
PotsAfter(before, m) == Take(Earn(before, row[m].generated), row[m].consumed)

\* What Pots[m] is when the months before m have the pots p.
PotsFrom(p, m) == PotsAfter(IF m = First THEN FirstPots ELSE YearTurns(p[m - 1], m), m)

PotsUpTo(n) == \E p : p = [m \in First .. n |-> PotsFrom(p, m)]

LEMMA PotsExist == \A n \in Months : PotsUpTo(n)
  <1> SUFFICES ASSUME {n \in Months : ~PotsUpTo(n)} # {} PROVE FALSE
    OBVIOUS
  <1>1. PICK n \in Months : ~PotsUpTo(n) /\ \A k \in Months : ~PotsUpTo(k) => n <= k
    <2> DEFINE T == {n \in Months : ~PotsUpTo(n)}
    <2>1. \E x \in T : \A y \in T : x <= y
      <3> HIDE DEF T
      <3>1. T \subseteq Months /\ T # {}
        BY DEF T
      <3> QED BY <3>1, FirstMonth
    <2> QED BY <2>1
  <1>2. CASE n = First
    <2> DEFINE p == [m \in First .. n |-> PotsAfter(FirstPots, m)]
    <2>1. First .. n = {First}
      BY <1>2, MonthFacts
    <2>2. p = [m \in First .. n |-> PotsFrom(p, m)]
      BY <2>1 DEF PotsFrom
    <2> HIDE DEF p
    <2> QED BY <1>1, <2>2 DEF PotsUpTo
  <1>3. CASE n # First
    <2>1. n - 1 \in Months /\ n \in Int /\ First \in Int
      BY <1>3, BoundsAssumption DEF Months
    <2>2. PotsUpTo(n - 1)
      BY <1>1, <2>1
    <2>3. PICK p : p = [m \in First .. n - 1 |-> PotsFrom(p, m)]
      BY <2>2 DEF PotsUpTo
    <2> DEFINE q == [m \in First .. n |-> IF m = n THEN PotsFrom(p, n) ELSE p[m]]
    <2>4. ASSUME NEW m \in First .. n
          PROVE  q[m] = PotsFrom(q, m)
      <3>1. CASE m = First
        BY <1>3, <2>1, <2>3, <3>1 DEF PotsFrom
      <3>2. CASE m # First
        <4>1. m - 1 \in First .. n - 1 /\ m - 1 # n /\ m - 1 \in First .. n
          BY <2>1, <3>2
        <4>2. q[m - 1] = p[m - 1]
          BY <4>1
        <4>3. q[m] = PotsFrom(p, m)
          <5>1. CASE m = n
            BY <5>1
          <5>2. CASE m # n
            <6>1. m \in First .. n - 1
              BY <2>1, <5>2
            <6>2. p[m] = PotsFrom(p, m)
              BY <2>3, <6>1
            <6> QED BY <5>2, <6>2
          <5> QED BY <5>1, <5>2
        <4> HIDE DEF q
        <4> QED BY <4>2, <4>3 DEF PotsFrom
      <3> QED BY <3>1, <3>2
    <2>5. q = [m \in First .. n |-> PotsFrom(q, m)]
      BY <2>4
    <2> HIDE DEF q
    <2> QED BY <1>1, <2>5 DEF PotsUpTo
  <1> QED BY <1>2, <1>3

\* The recursion.
LEMMA PotsOfMonth == \A m \in Months : Pots[m] = PotsFrom(Pots, m)
  <1>1. Last \in Months
    BY BoundsAssumption DEF Months
  <1>2. \E p : p = [m \in Months |-> PotsFrom(p, m)]
    BY <1>1, PotsExist DEF PotsUpTo, Months
  <1>3. Pots = CHOOSE p : p = [m \in Months |-> PotsFrom(p, m)]
    BY DEF Pots, PotsFrom, PotsAfter, FirstPots
  <1>4. Pots = [m \in Months |-> PotsFrom(Pots, m)]
    <2> DEFINE P == CHOOSE p : p = [m \in Months |-> PotsFrom(p, m)]
    <2>1. P = [m \in Months |-> PotsFrom(P, m)]
      BY <1>2
    <2> QED BY <1>3, <2>1
  <1> QED BY <1>4

-----------------------------------------------------------------------------
(* The months before m all fit and none is overdrawn: their rows and the   *)
(* pots agree.                                                             *)

\* The days taken from January up to m, in the months where carried leave counts.
TakenFromJanuary(m) ==
    IF m = 13 THEN row[13].consumed
    ELSE IF m = 14 THEN row[13].consumed + row[14].consumed
    ELSE row[13].consumed + row[14].consumed + row[15].consumed

\* What is left of the leave carried over at the end of month m.
CarriedLeft(m) ==
    IF m \in 13 .. 15 THEN AtLeastZero(row[13].carried - TakenFromJanuary(m)) ELSE 0

Agree(m) ==
    /\ Pots[m].carried = CarriedLeft(m) /\ Pots[m].earned \in Nat
    /\ row[m].remaining = Pots[m].carried + Pots[m].earned

Sound(m) == m \notin behind /\ row[m].remaining >= 0

\* Taking days from two pots leaves what is left of the whole.
LEMMA TakeTotal ==
  ASSUME NEW c \in Nat, NEW e \in Nat, NEW d \in Nat, NEW q, NEW p,
         q.carried = c, q.earned = e, p = Take(q, d)
  PROVE  /\ p.carried = AtLeastZero(c - d) /\ p.earned \in Nat
         /\ p.carried + p.earned = AtLeastZero(c + e - d)
  <1>1. /\ p.carried = AtLeastZero(q.carried - d)
        /\ p.earned = AtLeastZero(q.earned - AtLeastZero(d - q.carried))
    BY DEF Take
  <1>2. p.carried = AtLeastZero(c - d) /\ p.earned = AtLeastZero(e - AtLeastZero(d - c))
    BY <1>1
  <1> QED BY <1>2 DEF AtLeastZero

\* The same of a month that opens with pots c and e: its row, which opens with their sum,
\* has left what the pots have.
LEMMA MonthAgrees ==
  ASSUME FifoInv, NEW m \in Months, Sound(m), NEW c \in Nat, NEW e \in Nat,
         Pots[m] = PotsAfter([carried |-> c, earned |-> e], m),
         row[m].carried + row[m].opening = c + e,
         AtLeastZero(c - row[m].consumed) = CarriedLeft(m)
  PROVE  Agree(m)
  <1>1. /\ row[m].generated \in Nat /\ row[m].consumed \in Nat
        /\ row[m].carried \in Int /\ row[m].opening \in Int
    BY MonthFacts DEF FifoInv, LeaveInv, TypeOK, RowRecord
  <1>2. /\ Pots[m].carried = CarriedLeft(m) /\ Pots[m].earned \in Nat
        /\ Pots[m].carried + Pots[m].earned
             = AtLeastZero(c + e + row[m].generated - row[m].consumed)
    <2> DEFINE g == row[m].generated
               d == row[m].consumed
               q == Earn([carried |-> c, earned |-> e], g)
               p == Pots[m]
    <2>1. g \in Nat /\ d \in Nat /\ p = Take(q, d)
      BY <1>1 DEF PotsAfter
    <2> HIDE DEF g, d, p
    <2>2. q = [carried |-> c, earned |-> e + g]
      BY DEF Earn
    <2> HIDE DEF q
    <2>3. q.carried = c /\ q.earned = e + g /\ e + g \in Nat
      BY <2>1, <2>2
    <2>4. p.carried = AtLeastZero(c - d) /\ p.earned \in Nat
          /\ p.carried + p.earned = AtLeastZero(c + (e + g) - d)
      BY <2>1, <2>3, TakeTotal
    <2>5. c + (e + g) - d = c + e + g - d
      BY <2>1
    <2> QED BY <2>4, <2>5 DEF g, d, p
  <1>3. row[m].remaining = AtLeastZero(c + e + row[m].generated - row[m].consumed)
    <2>1. row[m].remaining = AtLeastZero(Balance(row[m]))
      BY DEF FifoInv, AllBalanced, Balanced, Sound
    <2>2. Balance(row[m]) = c + e + row[m].generated - row[m].consumed
      BY <1>1 DEF Balance
    <2> QED BY <2>1, <2>2
  <1> QED BY <1>2, <1>3 DEF Agree

LEMMA FirstAgrees ==
  ASSUME FifoInv, Sound(First)
  PROVE  Agree(First)
  <1>1. First \in Months /\ First \in Int /\ First <= 12 /\ First >= 5 /\ First - 1 \notin Months
        /\ MonthOf(First) \notin {1, 4} /\ Opening \in Nat
    BY BoundsAssumption DEF Months, MonthOf
  <1>2. row[First].carried = 0 /\ row[First].opening = Opening
    <2>1. RowOf(First - 1).remaining = Opening
      BY <1>1 DEF RowOf, Zeros
    <2> QED BY <1>1, <2>1 DEF FifoInv, RowsFit, Sound, Fits, CarriedInto, OpeningOf
  <1>3. Pots[First] = PotsAfter([carried |-> 0, earned |-> Opening], First)
    BY <1>1, <1>2, PotsOfMonth DEF PotsFrom, FirstPots
  <1>4. row[First].consumed \in Nat
    BY <1>1 DEF FifoInv, LeaveInv, TypeOK, RowRecord
  <1>5. CarriedLeft(First) = 0 /\ AtLeastZero(0 - row[First].consumed) = 0
    BY <1>1, <1>4 DEF CarriedLeft, AtLeastZero
  <1> QED BY <1>1, <1>2, <1>3, <1>5, MonthAgrees

LEMMA NextAgrees ==
  ASSUME FifoInv, NEW m \in Months, m # First, Sound(m), Sound(m - 1), Agree(m - 1)
  PROVE  Agree(m)
  <1> DEFINE p == Pots[m - 1]
             y == YearTurns(p, m)
             prev == row[m - 1]
  <1>1. /\ m \in Int /\ m - 1 \in Months /\ m >= 6 /\ m <= 23 /\ First \in Int /\ First <= 12
        /\ m - 1 >= First
    BY BoundsAssumption DEF Months
  <1>2. TypeOK /\ \A k \in Months : row[k].carried \in Int /\ row[k].consumed \in Nat
    BY DEF FifoInv, LeaveInv, TypeOK, RowRecord
  <1>3. RowOf(m - 1) = prev
    BY <1>1 DEF RowOf
  <1>4. /\ row[m].carried = IF MonthOf(m) = 1 THEN prev.remaining ELSE 0
        /\ row[m].opening = OpeningOf(m)
    BY <1>3 DEF FifoInv, RowsFit, Sound, Fits, CarriedInto
  <1>5. p.carried = CarriedLeft(m - 1) /\ p.earned \in Nat /\ prev.remaining = p.carried + p.earned
    BY DEF Agree
  <1>6. Pots[m] = PotsAfter(y, m)
    BY PotsOfMonth DEF PotsFrom
  <1>7. p = [carried |-> p.carried, earned |-> p.earned]
    <2>1. \A b, d : Take(b, d) = [carried |-> Take(b, d).carried, earned |-> Take(b, d).earned]
      BY DEF Take
    <2>2. \E b, d : p = Take(b, d)
      BY <1>1, PotsOfMonth DEF PotsFrom, PotsAfter
    <2> HIDE DEF p
    <2> QED BY <2>1, <2>2
  <1>8. MonthOf(m) = IF m > 12 THEN m - 12 ELSE m
    BY DEF MonthOf
  <1> HIDE DEF p, prev
  <1>9. CASE m <= 12 \/ m >= 17
    <2>1. MonthOf(m) \notin {1, 4} /\ CarriedLeft(m - 1) = 0 /\ CarriedLeft(m) = 0
      BY <1>1, <1>8, <1>9 DEF CarriedLeft
    <2>2. /\ y = [carried |-> 0, earned |-> p.earned]
          /\ row[m].opening = p.earned /\ row[m].carried = 0
      BY <1>3, <1>4, <1>5, <1>7, <2>1 DEF YearTurns, OpeningOf
    <2>3. AtLeastZero(0 - row[m].consumed) = 0
      BY <1>2 DEF AtLeastZero
    <2> QED BY <1>5, <1>6, <2>1, <2>2, <2>3, MonthAgrees
  <1>10. CASE m = 13
    <2>1. MonthOf(m) = 1 /\ p.carried = 0
      BY <1>1, <1>5, <1>8, <1>10 DEF CarriedLeft
    <2>2. /\ y = [carried |-> p.earned, earned |-> 0]
          /\ row[m].opening = 0 /\ row[m].carried = p.earned
      BY <1>4, <1>5, <1>7, <2>1 DEF YearTurns, OpeningOf
    <2>3. CarriedLeft(m) = AtLeastZero(p.earned - row[m].consumed)
      BY <1>10, <2>2 DEF CarriedLeft, TakenFromJanuary
    <2> QED BY <1>5, <1>6, <2>2, <2>3, MonthAgrees
  <1>11. CASE m = 14 \/ m = 15
    <2>1. MonthOf(m) \notin {1, 4} /\ 13 \in Months /\ (m = 15 => 14 \in Months)
      BY <1>1, <1>8, <1>11, BoundsAssumption DEF Months
    <2>2. p.carried \in Nat
      <3>1. row[13].carried \in Int /\ row[13].consumed \in Nat
            /\ (m = 15 => row[14].consumed \in Nat)
        BY <1>2, <2>1
      <3> QED BY <1>5, <1>11, <3>1 DEF CarriedLeft, TakenFromJanuary, AtLeastZero
    <2>3. y = [carried |-> p.carried, earned |-> p.earned] /\ row[m].carried = 0
          /\ row[m].opening = p.carried + p.earned
      BY <1>3, <1>4, <1>5, <1>7, <2>1 DEF YearTurns, OpeningOf
    <2>4. AtLeastZero(p.carried - row[m].consumed) = CarriedLeft(m)
      <3>1. row[13].carried \in Int /\ row[13].consumed \in Nat /\ row[m].consumed \in Nat
            /\ (m = 15 => row[14].consumed \in Nat)
        BY <1>2, <2>1
      <3>2. CASE m = 14
        BY <1>5, <3>1, <3>2 DEF CarriedLeft, TakenFromJanuary, AtLeastZero
      <3>3. CASE m = 15
        BY <1>5, <3>1, <3>3 DEF CarriedLeft, TakenFromJanuary, AtLeastZero
      <3> QED BY <1>11, <3>2, <3>3
    <2> QED BY <1>5, <1>6, <2>2, <2>3, <2>4, MonthAgrees
  <1>12. CASE m = 16
    <2>1. MonthOf(m) = 4 /\ 13 \in Months /\ 14 \in Months /\ 15 \in Months
      BY <1>1, <1>8, <1>12, BoundsAssumption DEF Months
    <2>2. row[13].carried \in Int /\ row[13].consumed \in Nat /\ row[14].consumed \in Nat
          /\ row[15].consumed \in Nat
      BY <1>2, <2>1
    <2>3. RowOf(13) = row[13] /\ RowOf(14) = row[14] /\ RowOf(15) = row[15]
      BY <2>1 DEF RowOf
    <2>4. UnusedCarried(m) = p.carried /\ p.carried \in Nat
      BY <1>5, <1>12, <2>2, <2>3 DEF UnusedCarried, CarriedLeft, TakenFromJanuary, AtLeastZero
    <2>5. row[m].opening = p.earned /\ row[m].carried = 0
      BY <1>3, <1>4, <1>5, <2>1, <2>4 DEF OpeningOf, AtLeastZero
    <2>6. y = [carried |-> 0, earned |-> p.earned]
      BY <1>7, <2>1 DEF YearTurns
    <2>7. AtLeastZero(0 - row[m].consumed) = CarriedLeft(m)
      BY <1>2, <1>12 DEF CarriedLeft, AtLeastZero
    <2> QED BY <1>5, <1>6, <2>5, <2>6, <2>7, MonthAgrees
  <1> QED BY <1>1, <1>9, <1>10, <1>11, <1>12

\* By the first month that does not agree.
LEMMA FitsGiveFifo == FifoInv => FifoRule
  <1> SUFFICES ASSUME FifoInv, NEW m \in Months, \A k \in First .. m : Sound(k)
               PROVE  Agree(m)
    BY DEF FifoRule, Sound, Agree
  <1> DEFINE T == {k \in Months : k <= m /\ ~Agree(k)}
  <1> SUFFICES ASSUME T # {} PROVE FALSE
    BY MonthFacts
  <1>1. PICK n \in T : \A k \in T : n <= k
    BY FirstMonth
  <1>2. n \in Months /\ n <= m /\ ~Agree(n) /\ n \in Int /\ First \in Int /\ Sound(n)
    BY <1>1, BoundsAssumption DEF Months
  <1>3. n # First
    BY <1>2, FirstAgrees
  <1>4. n - 1 \in Months /\ n - 1 <= m /\ ~(n <= n - 1) /\ Sound(n - 1)
    BY <1>2, <1>3, BoundsAssumption DEF Months
  <1>5. Agree(n - 1)
    BY <1>1, <1>4
  <1> QED BY <1>2, <1>3, <1>4, <1>5, NextAgrees

\* The invariant: a row that nothing has changed the ground of opens with the figures that
\* the rows before it give, and so does what a preparation has in hand.
THEOREM FifoInvariant == Spec => []FifoInv
  <1>1. FifoInv /\ [Next]_vars => FifoInv'
    BY NextFits
  <1> QED BY InitFits, <1>1, PTL DEF Spec

\* Carried leave is taken first and what is left of it expires in April: the one figure
\* of the rows comes to what two pots would have, whatever the order of saves.
THEOREM FifoAlways == Spec => []FifoRule
  BY FifoInvariant, FitsGiveFifo, PTL

=============================================================================
