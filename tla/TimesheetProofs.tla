-------------------------- MODULE TimesheetProofs --------------------------
(***************************************************************************)
(* Proofs about Timesheet for any finite set of requests, any kinds and    *)
(* any number of jobs.                                                     *)
(***************************************************************************)
EXTENDS Timesheet, FiniteSetTheorems, WellFoundedInduction, TLAPS

Reasons == {NoReason, "PAID", "UNPAID", "MATERNITY"}

Statuses == {"NONE", "PRESENT", "SINGLE_PUNCH", "ABSENT"}

\* Columns that no computation changes.
Same(d, e) == d.in = e.in /\ d.times = e.times /\ d.corrected = e.corrected

-----------------------------------------------------------------------------
(* Facts about the requests                                                *)

LEMMA ActiveLeavesFinite == IsFiniteSet(ActiveLeaves) /\ ActiveLeaves \subseteq Requests
  <1>1. ActiveLeaves \subseteq Requests
    BY DEF ActiveLeaves
  <1>2. QED
    BY <1>1, TimesheetAssumption, FS_Subset

LEMMA FirstLeaveFacts ==
    ASSUME request \in [Requests -> RequestRecord], ActiveLeaves # {}
    PROVE  FirstLeave \in ActiveLeaves /\ request[FirstLeave].kind \in Kinds \ {"COMPLAINT"}
  <1>1. ActiveLeaves \subseteq Nat
    BY ActiveLeavesFinite, TimesheetAssumption
  <1>2. PICK r \in ActiveLeaves : \A s \in ActiveLeaves : <<s, r>> \notin OpToRel(<, Nat)
    BY <1>1, NatLessThanWellFounded, WFMin
  <1>3. \A s \in ActiveLeaves : ~(s < r)
    BY <1>1, <1>2 DEF OpToRel
  <1>4. \A s \in ActiveLeaves : r <= s
    BY <1>1, <1>3
  <1>5. FirstLeave \in ActiveLeaves
    BY <1>4 DEF FirstLeave
  <1>6. QED
    BY <1>5, TimesheetAssumption DEF ActiveLeaves, RequestRecord

LEMMA HalfDaysTyped == HalfDays \in Nat
  <1> DEFINE H == {r \in ActiveLeaves : request[r].kind = "HALF"}
  <1>1. H \subseteq ActiveLeaves
    OBVIOUS
  <1>2. IsFiniteSet(H)
    BY <1>1, ActiveLeavesFinite, FS_Subset
  <1>3. Cardinality(H) \in Nat
    BY <1>2, FS_CardinalityType
  <1>4. QED
    BY <1>3 DEF HalfDays

LEMMA LeaveReasonTyped ==
    ASSUME request \in [Requests -> RequestRecord]
    PROVE  LeaveReason \in Reasons
  <1>1. CASE ActiveLeaves = {}
    BY <1>1 DEF LeaveReason, Reasons
  <1>2. CASE ActiveLeaves # {}
    <2>1. request[FirstLeave].kind \in Kinds \ {"COMPLAINT"}
      BY <1>2, FirstLeaveFacts
    <2>2. request[FirstLeave].kind \in {"PAID", "HALF", "UNPAID", "MATERNITY"}
      BY <2>1 DEF Kinds
    <2>3. QED
      BY <1>2, <2>2 DEF LeaveReason, Reasons, NoReason
  <1>3. QED
    BY <1>1, <1>2

-----------------------------------------------------------------------------
(* Facts about the calculator                                              *)

LEMMA BlankTyped == Blank \in EntryRecord /\ ~Blank.corrected
  BY DEF Blank, EntryRecord, NoReason, Corrected

LEMMA SnapshotFacts ==
    ASSUME request \in [Requests -> RequestRecord], exempted \in BOOLEAN,
           NEW e \in EntryRecord
    PROVE  /\ Snapshot(e) \in EntryRecord /\ Same(Snapshot(e), e)
           /\ Snapshot(e).hours = e.hours
           /\ Snapshot(e).exempt => e.exempt \/ exempted
  <1> DEFINE x == (e.exempt \/ exempted)
  <1> DEFINE y == IF e.reason = NoReason THEN LeaveReason ELSE e.reason
  <1>1. x \in BOOLEAN
    OBVIOUS
  <1>2. y \in Reasons
    BY LeaveReasonTyped DEF EntryRecord, Reasons
  <1>3. Snapshot(e) = [e EXCEPT !.exempt = x, !.reason = y]
    BY DEF Snapshot
  <1>4. x => e.exempt \/ exempted
    OBVIOUS
  <1> HIDE DEF x, y
  <1>5. \A v : v = [e EXCEPT !.exempt = x, !.reason = y] =>
           v \in EntryRecord /\ Same(v, e) /\ v.hours = e.hours /\ v.exempt = x
    BY <1>1, <1>2 DEF EntryRecord, Reasons, Same
  <1>6. QED
    BY <1>3, <1>4, <1>5

LEMMA WithHoursFacts ==
    ASSUME NEW e \in EntryRecord
    PROVE  /\ WithHours(e) \in EntryRecord /\ Same(WithHours(e), e)
           /\ WithHours(e).exempt = e.exempt
           /\ e.times < 2 => WithHours(e).hours = e.hours
  <1> DEFINE h == IF e.times = Corrected THEN 2 ELSE IF e.times = 2 THEN 1 ELSE e.hours
  <1>1. h \in 0..2 /\ (e.times < 2 => h = e.hours)
    BY DEF EntryRecord, Corrected
  <1>2. WithHours(e) = [e EXCEPT !.hours = h]
    BY DEF WithHours
  <1> HIDE DEF h
  <1>3. \A v : v = [e EXCEPT !.hours = h] =>
           v \in EntryRecord /\ Same(v, e) /\ v.hours = h /\ v.exempt = e.exempt
    BY <1>1 DEF EntryRecord, Same
  <1>4. QED
    BY <1>1, <1>2, <1>3

\* What a status says of the times and hours that it was computed from.
StatusFits(e, fin, s) ==
    /\ s \in Statuses
    /\ s = "ABSENT" => fin /\ e.times = 0
    /\ s = "SINGLE_PUNCH" => fin /\ e.times = 1
    /\ s = "PRESENT" => e.times > 0 \/ e.hours > 0
    /\ s = "NONE" => e.times = 0

LEMMA StatusFacts ==
    ASSUME NEW e \in EntryRecord, NEW fin \in BOOLEAN
    PROVE  StatusFits(e, fin, Status(e, fin))
  <1>1. e.times \in 0..3 /\ e.hours \in 0..2
    BY DEF EntryRecord, Corrected
  <1>2. QED
    BY <1>1 DEF StatusFits, Status, Statuses

LEMMA WorkingDaysFacts ==
    ASSUME NEW e \in EntryRecord, NEW fin \in BOOLEAN, NEW s
    PROVE  /\ WorkingDays(e, s, fin) \in {Open} \cup 0..2
           /\ fin /\ s = "ABSENT" =>
                 WorkingDays(e, s, fin) = IF e.reason = "PAID" THEN 2 ELSE 0
           /\ fin /\ s = "SINGLE_PUNCH" => WorkingDays(e, s, fin) = 1
  <1>1. e.hours \in 0..2
    BY DEF EntryRecord
  <1>2. AtMostOneDay(e.hours + HalfDays) \in 0..2
    BY <1>1, HalfDaysTyped DEF AtMostOneDay
  <1>3. QED
    BY <1>2 DEF WorkingDays

\* What the last step of a computation gives.
FitsButTimes(d, fin, x) ==
    /\ d.status = "ABSENT" =>
           fin /\ d.times = 0 /\ d.days = IF d.reason = "PAID" THEN 2 ELSE 0
    /\ d.status = "SINGLE_PUNCH" => fin /\ d.times = 1 /\ d.days = 1
    /\ d.status = "PRESENT" => d.times > 0 \/ d.hours > 0 \/ x \/ d.exempt
    /\ d.status = "NONE" => d.times = 0

LEMMA JudgedFacts ==
    ASSUME NEW e \in EntryRecord, NEW fin \in BOOLEAN
    PROVE  /\ Judged(e, fin) \in EntryRecord /\ Same(Judged(e, fin), e)
           /\ Judged(e, fin).hours = e.hours /\ Judged(e, fin).exempt = e.exempt
           /\ FitsButTimes(Judged(e, fin), fin, exempted)
           /\ Judged(e, fin).status = "PRESENT" => e.times > 0 \/ e.hours > 0
  <1> DEFINE s == Status(e, fin)
  <1> DEFINE d == WorkingDays(e, s, fin)
  <1>1. StatusFits(e, fin, s)
    BY StatusFacts
  <1>2. /\ d \in {Open} \cup 0..2
        /\ fin /\ s = "ABSENT" => d = IF e.reason = "PAID" THEN 2 ELSE 0
        /\ fin /\ s = "SINGLE_PUNCH" => d = 1
    BY WorkingDaysFacts
  <1>3. Judged(e, fin) = [e EXCEPT !.status = s, !.days = d]
    BY DEF Judged
  <1> HIDE DEF s, d
  <1>4. \A v : v = [e EXCEPT !.status = s, !.days = d] =>
           /\ v \in EntryRecord /\ Same(v, e) /\ v.hours = e.hours
           /\ v.exempt = e.exempt /\ v.reason = e.reason /\ v.status = s /\ v.days = d
    BY <1>1, <1>2 DEF EntryRecord, Same, StatusFits, Statuses
  <1>5. QED
    BY <1>1, <1>2, <1>3, <1>4 DEF StatusFits, FitsButTimes, Same

\* What the computation of an entry leaves, with the exemption as a parameter: more than
\* Coherent says, for here the punches decide a day that also has a leave.
FitsFor(e, x) ==
    /\ e.times = IF e.corrected THEN Corrected ELSE e.in
    /\ e.status = "ABSENT" =>
           e.times = 0 /\ e.days = IF e.reason = "PAID" THEN 2 ELSE 0
    /\ e.status = "SINGLE_PUNCH" => e.times = 1 /\ e.days = 1
    /\ e.status = "PRESENT" => e.times > 0 \/ e.hours > 0 \/ x
    /\ e.status = "NONE" => e.times = 0

LEMMA CleanedFacts ==
    ASSUME request \in [Requests -> RequestRecord], exempted \in BOOLEAN,
           over \in BOOLEAN, NEW e \in EntryRecord, e.corrected => e.times = Corrected
    PROVE  /\ Cleaned(e) \in EntryRecord /\ FitsFor(Cleaned(e), exempted)
           /\ Cleaned(e).in = e.in /\ Cleaned(e).corrected = e.corrected
           /\ Cleaned(e).exempt => e.exempt \/ exempted
  <1> DEFINE synced == IF e.corrected THEN e ELSE [e EXCEPT !.times = e.in]
  <1>1. /\ synced \in EntryRecord /\ synced.in = e.in /\ synced.corrected = e.corrected
        /\ synced.times = IF e.corrected THEN Corrected ELSE e.in
        /\ synced.exempt = e.exempt
    <2>1. CASE e.corrected
      BY <2>1
    <2>2. CASE ~e.corrected
      <3>1. e.in \in 0..Corrected
        BY DEF EntryRecord, Corrected
      <3>2. synced = [e EXCEPT !.times = e.in]
        BY <2>2
      <3>3. \A v : v = [e EXCEPT !.times = e.in] =>
               v \in EntryRecord /\ v.in = e.in /\ v.corrected = e.corrected /\ v.times = e.in
               /\ v.exempt = e.exempt
        BY <3>1 DEF EntryRecord
      <3>4. QED
        BY <2>2, <3>2, <3>3
    <2>3. QED
      BY <2>1, <2>2
  <1> DEFINE timed == IF over THEN WithHours(Snapshot(synced)) ELSE Snapshot(synced)
  <1>2. Cleaned(e) = Judged(timed, over)
    BY DEF Cleaned
  <1> HIDE DEF synced
  <1>3. /\ Snapshot(synced) \in EntryRecord /\ Same(Snapshot(synced), synced)
        /\ Snapshot(synced).exempt => synced.exempt \/ exempted
    BY <1>1, SnapshotFacts
  <1>4. timed \in EntryRecord /\ Same(timed, synced) /\ timed.exempt = Snapshot(synced).exempt
    BY <1>3, WithHoursFacts DEF Same
  <1> HIDE DEF timed
  <1>5. /\ Judged(timed, over) \in EntryRecord /\ Same(Judged(timed, over), timed)
        /\ Judged(timed, over).hours = timed.hours
        /\ Judged(timed, over).exempt = timed.exempt
        /\ FitsButTimes(Judged(timed, over), over, exempted)
        /\ Judged(timed, over).status = "PRESENT" => timed.times > 0 \/ timed.hours > 0
    BY <1>4, JudgedFacts
  <1>6. FitsFor(Judged(timed, over), exempted)
    BY <1>1, <1>4, <1>5 DEF FitsFor, FitsButTimes, Same
  <1>7. Judged(timed, over).exempt => e.exempt \/ exempted
    BY <1>1, <1>3, <1>4, <1>5
  <1>8. QED
    BY <1>1, <1>2, <1>4, <1>5, <1>6, <1>7 DEF Same

LEMMA ComputeAllFacts ==
    ASSUME request \in [Requests -> RequestRecord], exempted \in BOOLEAN,
           NEW fin \in BOOLEAN, NEW e \in EntryRecord
    PROVE  /\ ComputeAll(e, fin) \in EntryRecord /\ Same(ComputeAll(e, fin), e)
           /\ e.times < 2 => ComputeAll(e, fin).hours = e.hours
           /\ FitsButTimes(ComputeAll(e, fin), fin, exempted)
           /\ ComputeAll(e, fin).exempt => e.exempt \/ exempted
  <1> DEFINE s == Snapshot(e)
  <1>1. s \in EntryRecord /\ Same(s, e) /\ s.hours = e.hours
        /\ (s.exempt => e.exempt \/ exempted)
    BY SnapshotFacts
  <1> HIDE DEF s
  <1>2. CASE s.exempt
    <2>1. ComputeAll(e, fin) = [s EXCEPT !.status = "PRESENT", !.days = 2, !.reason = NoReason]
      BY <1>2 DEF ComputeAll, s
    <2> DEFINE st == "PRESENT"
    <2> DEFINE dy == 2
    <2> DEFINE re == NoReason
    <2>2. st \in Statuses /\ dy \in {Open} \cup 0..2 /\ re \in Reasons
      BY DEF Statuses, Reasons
    <2>3. ComputeAll(e, fin) = [s EXCEPT !.status = st, !.days = dy, !.reason = re]
      BY <2>1
    <2>4. st = "PRESENT"
      OBVIOUS
    <2> HIDE DEF st, dy, re
    <2>5. \A v : v = [s EXCEPT !.status = st, !.days = dy, !.reason = re] =>
             /\ v \in EntryRecord /\ Same(v, s) /\ v.hours = s.hours /\ v.exempt = s.exempt
             /\ v.status = st
      BY <1>1, <2>2 DEF EntryRecord, Same, Statuses, Reasons
    <2> DEFINE c == ComputeAll(e, fin)
    <2> HIDE DEF c
    <2>6. /\ c \in EntryRecord /\ Same(c, s) /\ c.hours = s.hours /\ c.exempt = s.exempt
          /\ c.status = "PRESENT"
      BY <2>3, <2>5, <2>4 DEF c
    <2>7. c.exempt
      BY <1>2, <2>6
    <2>8. FitsButTimes(c, fin, exempted)
      BY <2>6, <2>7 DEF FitsButTimes
    <2>9. e.exempt \/ exempted
      BY <1>1, <1>2
    <2>10. QED
      BY <1>1, <2>6, <2>8, <2>9 DEF Same, c
  <1>3. CASE ~s.exempt
    <2>1. ComputeAll(e, fin) = Judged(WithHours(s), fin)
      BY <1>3 DEF ComputeAll, s
    <2>2. /\ WithHours(s) \in EntryRecord /\ Same(WithHours(s), s)
          /\ WithHours(s).exempt = s.exempt /\ (s.times < 2 => WithHours(s).hours = s.hours)
      BY <1>1, WithHoursFacts
    <2> DEFINE w == WithHours(s)
    <2> HIDE DEF w
    <2>3. /\ Judged(w, fin) \in EntryRecord /\ Same(Judged(w, fin), w)
          /\ Judged(w, fin).hours = w.hours /\ Judged(w, fin).exempt = w.exempt
          /\ FitsButTimes(Judged(w, fin), fin, exempted)
      BY <2>2, JudgedFacts DEF w
    <2>4. QED
      BY <1>1, <2>1, <2>2, <2>3 DEF Same, w
  <1>4. QED
    BY <1>2, <1>3

-----------------------------------------------------------------------------
(* The inductive invariant                                                 *)

\* A corrected entry has the times of a correction; an exempt one an exemption.
EntryOk(e, x) == (e.corrected => e.times = Corrected) /\ (e.exempt => x)

IsHeld(J) == J.kind # "IDLE" /\ J.step = "LOADED"

\* A copy is an entry, and until another writes it agrees with the one it was made of.
JobOk(J, e, x) ==
    /\ EntryOk(J.entry, x)
    /\ J.kind \in {"CHANGE", "EXEMPTION"} /\ J.step = "LOADED" =>
           FitsButTimes(J.entry, FALSE, x)
    /\ IsHeld(J) /\ ~J.stale =>
           /\ J.entry.corrected = e.corrected
           /\ J.kind # "PUNCH" => J.entry.in = e.in
           /\ J.kind \in {"CHANGE", "EXEMPTION"} =>
                  J.entry.times = e.times /\ (e.times = 0 => J.entry.hours = e.hours)

JobsOk == \A j \in Jobs : JobOk(job[j], entry, exempted)

PunchOf(J, n) == J.kind = "PUNCH" /\ J.step = "LOADED" /\ J.entry.in = n

PunchHeld == \E j \in Jobs : PunchOf(job[j], punches)

Fresh(J) == J.kind = "PUNCH" /\ J.step = "LOADED" /\ ~J.stale

\* The punches are on the entry or on their way to it, or no handler took them up.
PunchInv ==
    ~trampled =>
        /\ entry.in = punches \/ PunchHeld \/ missed
        /\ (\E j \in Jobs : Fresh(job[j])) => PunchHeld \/ missed

MonthInv ==
    /\ refresh.on => month.flag
    /\ ~month.flag => month.torn \/ Counts(month.days, month.paid) \/ MarkDue
    /\ refresh.on => refresh.torn \/ Counts(refresh.days, refresh.paid) \/ MarkDue

EntryKept == EntryOk(entry, exempted)

\* The columns agree, and the punches decide a day that also has a leave.
FitsInv == ~trampled => FitsFor(entry, exempted)

IInv == TypeOK /\ EntryKept /\ JobsOk /\ FitsInv /\ PunchInv /\ MonthInv

-----------------------------------------------------------------------------
(* Facts about jobs                                                        *)

LEMMA NoRowTyped == NoRow \in RequestRecord
  <1> DEFINE k == CHOOSE k \in RequestKinds : TRUE
  <1>1. k \in RequestKinds
    BY TimesheetAssumption
  <1>2. NoRow = [kind |-> k, here |-> TRUE, state |-> "PENDING"]
    BY DEF NoRow
  <1> HIDE DEF k
  <1>3. QED
    BY <1>1, <1>2 DEF RequestRecord

LEMMA IdleFacts ==
    /\ Idle \in JobRecord /\ Idle.kind = "IDLE" /\ Idle.step = "LOADED"
    /\ Idle.entry = Blank /\ ~Idle.stale
  <1> DEFINE r == CHOOSE r \in Requests : TRUE
  <1>1. r \in Requests
    BY TimesheetAssumption
  <1>2. Idle = [kind |-> "IDLE", step |-> "LOADED", req |-> r, row |-> NoRow,
                entry |-> Blank, stale |-> FALSE]
    BY DEF Idle
  <1> HIDE DEF r
  <1>3. QED
    BY <1>1, <1>2, NoRowTyped, BlankTyped DEF JobRecord

LEMMA LoadedFacts ==
    ASSUME NEW e \in EntryRecord,
           NEW kind \in {"PUNCH", "CORRECT", "COMPUTE", "CHANGE", "EXEMPTION"}
    PROVE  /\ Loaded(kind, e) \in JobRecord /\ Loaded(kind, e).kind = kind
           /\ Loaded(kind, e).step = "LOADED" /\ Loaded(kind, e).entry = e
           /\ ~Loaded(kind, e).stale
  <1> DEFINE s == "LOADED"
  <1>1. s = "LOADED"
    OBVIOUS
  <1>2. Loaded(kind, e) = [Idle EXCEPT !.kind = kind, !.step = s, !.entry = e]
    BY DEF Loaded
  <1> HIDE DEF s
  <1>3. \A v : v = [Idle EXCEPT !.kind = kind, !.step = s, !.entry = e] =>
           v \in JobRecord /\ v.kind = kind /\ v.step = s /\ v.entry = e
           /\ v.stale = Idle.stale
    BY <1>1, IdleFacts DEF JobRecord
  <1>4. QED
    BY <1>1, <1>2, <1>3, IdleFacts

\* A copy that another write made old.
LEMMA StaleFacts ==
    ASSUME NEW J \in JobRecord, NEW v, v = [J EXCEPT !.stale = TRUE]
    PROVE  /\ v \in JobRecord /\ v.kind = J.kind /\ v.step = J.step /\ v.entry = J.entry
           /\ v.stale
  BY DEF JobRecord

\* An idle job, and one that is not held, is in order whatever the entry.
LEMMA OpenJobOk ==
    ASSUME NEW J, ~J.entry.corrected, ~J.entry.exempt, J.kind = "IDLE" \/ J.step # "LOADED",
           NEW e, NEW x
    PROVE  JobOk(J, e, x)
  BY DEF JobOk, EntryOk, IsHeld, FitsButTimes

LEMMA IdleOk == ASSUME NEW e, NEW x PROVE JobOk(Idle, e, x)
  <1>1. ~Blank.corrected /\ ~Blank.exempt
    BY DEF Blank
  <1>2. QED
    BY <1>1, IdleFacts DEF JobOk, EntryOk, IsHeld

\* Writing the entry makes the other copies old, and then nothing is asked of them.
LEMMA StaleOk ==
    ASSUME NEW J \in JobRecord, NEW e, NEW x, JobOk(J, e, x), NEW v,
           v = [J EXCEPT !.stale = TRUE], NEW d
    PROVE  JobOk(v, d, x)
  BY StaleFacts DEF JobOk, IsHeld

\* Of a job that is not held nothing is asked either.
LEMMA NotHeldOk ==
    ASSUME NEW J, ~IsHeld(J), NEW e, NEW x, JobOk(J, e, x), NEW d
    PROVE  JobOk(J, d, x)
  BY DEF JobOk, IsHeld

-----------------------------------------------------------------------------
(* The kinds of steps                                                      *)

NoPunch(J) == J.kind = "PUNCH" => J.step # "LOADED"

Due(J) == J.kind # "IDLE" /\ J.step = "WRITTEN"

\* What a step may make of a job J without touching the entry or a punch.
Moves(J, K, e, x) ==
    \/ K = J
    \/ J.kind # "PUNCH" /\ K = [J EXCEPT !.stale = TRUE]
    \/ NoPunch(J) /\ NoPunch(K) /\ K \in JobRecord /\ JobOk(K, e, x)

LEMMA MovesFacts ==
    ASSUME NEW J \in JobRecord, NEW K, NEW e, NEW x, JobOk(J, e, x), Moves(J, K, e, x)
    PROVE  /\ K \in JobRecord /\ JobOk(K, e, x) /\ (Fresh(K) <=> Fresh(J))
           /\ \A n : PunchOf(K, n) <=> PunchOf(J, n)
  <1>1. CASE K = J
    BY <1>1
  <1>2. CASE J.kind # "PUNCH" /\ K = [J EXCEPT !.stale = TRUE]
    <2>1. K \in JobRecord /\ K.kind = J.kind
      BY <1>2, StaleFacts
    <2>2. JobOk(K, e, x)
      BY <1>2, StaleOk
    <2>3. QED
      BY <1>2, <2>1, <2>2 DEF Fresh, PunchOf
  <1>3. CASE NoPunch(J) /\ NoPunch(K) /\ K \in JobRecord /\ JobOk(K, e, x)
    BY <1>3 DEF NoPunch, Fresh, PunchOf
  <1>4. QED
    BY <1>1, <1>2, <1>3 DEF Moves

LEMMA CoreStep ==
    ASSUME IInv, job' = [k \in Jobs |-> job'[k]],
           \A k \in Jobs : Moves(job[k], job'[k], entry, exempted),
           UNCHANGED <<entry, exempted, punches, missed>>, trampled => trampled'
    PROVE  /\ job' \in [Jobs -> JobRecord]
           /\ EntryKept' /\ JobsOk' /\ FitsInv' /\ PunchInv'
  <1>1. \A k \in Jobs : job[k] \in JobRecord /\ JobOk(job[k], entry, exempted)
    BY DEF IInv, TypeOK, JobsOk
  <1>2. \A k \in Jobs : /\ job'[k] \in JobRecord /\ JobOk(job'[k], entry, exempted)
                        /\ Fresh(job'[k]) <=> Fresh(job[k])
                        /\ \A n : PunchOf(job'[k], n) <=> PunchOf(job[k], n)
    BY <1>1, MovesFacts
  <1>3. job' \in [Jobs -> JobRecord]
    BY <1>2
  <1>4. JobsOk'
    BY <1>2 DEF JobsOk
  <1>5. EntryKept' /\ FitsInv'
    BY DEF IInv, EntryKept, FitsInv
  <1>6. PunchHeld' <=> PunchHeld
    BY <1>2 DEF PunchHeld
  <1>7. PunchInv'
    BY <1>2, <1>6 DEF IInv, PunchInv
  <1>8. QED
    BY <1>3, <1>4, <1>5, <1>7

LEMMA MonthKept ==
    ASSUME IInv, \A k \in Jobs : Due(job[k]) => Due(job'[k]),
           UNCHANGED <<entry, month, refresh>>
    PROVE  MonthInv'
  <1>1. MarkDue => MarkDue'
    BY DEF MarkDue, IsIdle, Due
  <1>2. QED
    BY <1>1 DEF IInv, MonthInv, Counts, Credit

LEMMA MarkedStep ==
    ASSUME TypeOK, Marked
    PROVE  MonthInv' /\ month' \in MonthRecord /\ refresh' \in RefreshRecord
  <1>1. /\ month' = [month EXCEPT !.flag = TRUE]
        /\ refresh' = [refresh EXCEPT !.torn = refresh.on]
    BY DEF Marked
  <1>2. month \in MonthRecord /\ refresh \in RefreshRecord
    BY DEF TypeOK
  <1>3. month' \in MonthRecord /\ month'.flag
    BY <1>1, <1>2 DEF MonthRecord
  <1>4. refresh' \in RefreshRecord /\ refresh'.on = refresh.on /\ refresh'.torn = refresh.on
    BY <1>1, <1>2 DEF RefreshRecord
  <1>5. QED
    BY <1>3, <1>4 DEF MonthInv

\* Job j writes the entry and goes on as next, which holds nothing.
LEMMA PutStep ==
    ASSUME IInv, NEW j \in Jobs, IsHeld(job[j]), NEW next \in JobRecord, ~IsHeld(next),
           JobOk(next, entry', exempted), job' = JobsAfter(j, next),
           trampled' = (trampled \/ job[j].stale), UNCHANGED <<exempted, punches, missed>>,
           entry' \in EntryRecord, EntryOk(entry', exempted),
           ~trampled' => FitsFor(entry', exempted),
           ~trampled' /\ job[j].kind # "PUNCH" => entry'.in = entry.in,
           job[j].kind = "PUNCH" => entry'.in = job[j].entry.in
    PROVE  /\ job' \in [Jobs -> JobRecord] /\ trampled' \in BOOLEAN
           /\ EntryKept' /\ JobsOk' /\ FitsInv' /\ PunchInv'
  <1>1. job \in [Jobs -> JobRecord] /\ trampled \in BOOLEAN
    BY DEF IInv, TypeOK
  <1> DEFINE old(k) == [job[k] EXCEPT !.stale = TRUE]
  <1>2. \A k \in Jobs : old(k) \in JobRecord /\ old(k).kind = job[k].kind
            /\ old(k).step = job[k].step /\ old(k).entry = job[k].entry /\ old(k).stale
    BY <1>1, StaleFacts
  <1>3. /\ DOMAIN job' = Jobs
        /\ job' = [k \in Jobs |-> job'[k]]
        /\ \A k \in Jobs : job'[k] = IF k = j THEN next
                                     ELSE IF IsHeld(job[k]) THEN old(k) ELSE job[k]
    BY DEF JobsAfter, IsHeld
  <1>4. \A k \in Jobs : JobOk(job[k], entry, exempted)
    BY DEF IInv, JobsOk
  <1>5. \A k \in Jobs : JobOk(old(k), entry', exempted)
    BY <1>1, <1>4, StaleOk
  <1> HIDE DEF old
  <1>6. \A k \in Jobs : job'[k] \in JobRecord
    BY <1>1, <1>2, <1>3
  <1>7. job' \in [Jobs -> JobRecord]
    BY <1>3, <1>6
  <1>8. \A k \in Jobs : JobOk(job'[k], entry', exempted)
    <2>1. \A k \in Jobs : ~IsHeld(job[k]) => JobOk(job[k], entry', exempted)
      BY <1>4, NotHeldOk
    <2>2. QED
      BY <1>3, <1>5, <2>1
  <1>9. JobsOk' /\ EntryKept'
    BY <1>8 DEF JobsOk, EntryKept
  <1>10. FitsInv'
    BY DEF FitsInv, FitsFor
  <1>11. PunchInv'
    <2> SUFFICES ASSUME ~trampled', ~missed PROVE entry'.in = punches' \/ PunchHeld'
      <3>1. \A k \in Jobs : ~Fresh(job'[k])
        BY <1>2, <1>3 DEF Fresh, IsHeld
      <3>2. QED
        BY <3>1 DEF PunchInv
    <2>1. ~trampled /\ ~job[j].stale
      BY <1>1
    <2>2. \A k \in Jobs : k # j /\ PunchOf(job[k], punches) => PunchOf(job'[k], punches)
      BY <1>2, <1>3 DEF PunchOf
    <2>3. CASE job[j].kind = "PUNCH"
      <3>1. Fresh(job[j])
        BY <2>1, <2>3 DEF Fresh, IsHeld
      <3>2. PICK k \in Jobs : PunchOf(job[k], punches)
        BY <2>1, <3>1 DEF IInv, PunchInv, PunchHeld
      <3>3. CASE k = j
        BY <2>3, <3>2, <3>3 DEF PunchOf
      <3>4. CASE k # j
        BY <2>2, <3>2, <3>4 DEF PunchHeld
      <3>5. QED
        BY <3>3, <3>4
    <2>4. CASE job[j].kind # "PUNCH"
      <3>1. entry'.in = entry.in
        BY <2>4
      <3>2. CASE entry.in = punches
        BY <3>1, <3>2
      <3>3. CASE PunchHeld
        <4>1. PICK k \in Jobs : PunchOf(job[k], punches)
          BY <3>3 DEF PunchHeld
        <4>2. k # j
          BY <2>4, <4>1 DEF PunchOf
        <4>3. QED
          BY <2>2, <4>1, <4>2 DEF PunchHeld
      <3>4. QED
        BY <2>1, <3>2, <3>3 DEF IInv, PunchInv
    <2>5. QED
      BY <2>3, <2>4
  <1>12. QED
    BY <1>1, <1>7, <1>9, <1>10, <1>11

-----------------------------------------------------------------------------
(* Writers of the entry                                                    *)

\* The action that CorrectionStands speaks of.
Kept == entry.corrected /\ ~trampled' => entry'.corrected

LEMMA SavedFacts ==
    /\ Saved \in JobRecord /\ Saved.kind = "SAVED" /\ Saved.step = "WRITTEN"
    /\ Saved.entry = Blank
  <1> DEFINE k == "SAVED"
  <1> DEFINE s == "WRITTEN"
  <1>1. Saved = [Idle EXCEPT !.kind = k, !.step = s]
    BY DEF Saved
  <1>2. k = "SAVED" /\ s = "WRITTEN"
    OBVIOUS
  <1> HIDE DEF k, s
  <1>3. QED
    BY <1>1, <1>2, IdleFacts DEF JobRecord

LEMMA WriteStep ==
    ASSUME IInv, NEW j \in Jobs, IsHeld(job[j]), NEW e \in EntryRecord, Write(j, e),
           EntryOk(e, exempted), ~trampled' => FitsFor(e, exempted),
           ~trampled' /\ job[j].kind # "PUNCH" => e.in = entry.in,
           job[j].kind = "PUNCH" => e.in = job[j].entry.in
    PROVE  IInv'
  <1> DEFINE next == Saved
  <1>1. /\ entry' = e /\ job' = JobsAfter(j, next)
        /\ trampled' = (trampled \/ job[j].stale)
        /\ UNCHANGED <<over, punches, exempted, request, month, refresh, changes,
                       exemptionDue, made, moved, missed>>
    BY DEF Write
  <1>2. job[j] \in JobRecord
    BY DEF IInv, TypeOK
  <1>3. next \in JobRecord /\ next.kind = "SAVED" /\ next.step = "WRITTEN"
        /\ next.entry = Blank
    BY SavedFacts
  <1> HIDE DEF next
  <1>4. ~IsHeld(next) /\ JobOk(next, entry', exempted)
    <2>1. ~Blank.corrected /\ ~Blank.exempt
      BY DEF Blank
    <2>2. QED
      BY <1>3, <2>1, OpenJobOk DEF IsHeld
  <1>5. /\ job' \in [Jobs -> JobRecord] /\ trampled' \in BOOLEAN
        /\ EntryKept' /\ JobsOk' /\ FitsInv' /\ PunchInv'
    BY <1>1, <1>3, <1>4, PutStep
  <1>6. MonthInv'
    <2>1. job'[j] = next
      BY <1>1 DEF JobsAfter
    <2>2. MarkDue'
      BY <1>3, <2>1 DEF MarkDue, IsIdle, IsHeld
    <2>3. QED
      BY <1>1, <2>2 DEF IInv, MonthInv
  <1>7. TypeOK'
    BY <1>1, <1>5 DEF IInv, TypeOK
  <1>8. QED
    BY <1>5, <1>6, <1>7 DEF IInv

\* What is known of a held copy.
LEMMA HeldFacts ==
    ASSUME IInv, NEW j \in Jobs, IsHeld(job[j])
    PROVE  /\ job[j] \in JobRecord /\ job[j].entry \in EntryRecord
           /\ EntryOk(job[j].entry, exempted) /\ job[j].stale \in BOOLEAN
           /\ job[j].kind \in {"CHANGE", "EXEMPTION"} =>
                  FitsButTimes(job[j].entry, FALSE, exempted)
           /\ ~job[j].stale =>
                  /\ job[j].entry.corrected = entry.corrected
                  /\ job[j].kind # "PUNCH" => job[j].entry.in = entry.in
                  /\ job[j].kind \in {"CHANGE", "EXEMPTION"} =>
                         /\ job[j].entry.times = entry.times
                         /\ entry.times = 0 => job[j].entry.hours = entry.hours
  <1>1. job[j] \in JobRecord
    BY DEF IInv, TypeOK
  <1>2. JobOk(job[j], entry, exempted)
    BY DEF IInv, JobsOk
  <1>3. QED
    BY <1>1, <1>2 DEF JobOk, JobRecord, IsHeld

\* Writers of the whole entry.
LEMMA CleanedStep ==
    ASSUME IInv, NEW j \in Jobs, IsHeld(job[j]), NEW d \in EntryRecord,
           d.corrected => d.times = Corrected, d.exempt => exempted,
           d.in = job[j].entry.in, job[j].entry.corrected => d.corrected
    PROVE  /\ Write(j, Cleaned(d)) => IInv' /\ Kept
           /\ Cleaned(d) \in EntryRecord /\ EntryOk(Cleaned(d), exempted)
           /\ FitsFor(Cleaned(d), exempted) /\ Cleaned(d).in = job[j].entry.in
           /\ entry' = Cleaned(d) /\ trampled' = (trampled \/ job[j].stale) => Kept
  <1>1. request \in [Requests -> RequestRecord] /\ exempted \in BOOLEAN /\ over \in BOOLEAN
    BY DEF IInv, TypeOK
  <1> DEFINE c == Cleaned(d)
  <1>2. /\ c \in EntryRecord /\ FitsFor(c, exempted) /\ c.in = d.in /\ c.corrected = d.corrected
        /\ c.exempt => d.exempt \/ exempted
    BY <1>1, CleanedFacts
  <1> HIDE DEF c
  <1>3. FitsFor(c, exempted)
    BY <1>2
  <1>4. EntryOk(c, exempted)
    BY <1>2, <1>3 DEF EntryOk, FitsFor
  <1>5. entry' = c /\ trampled' = (trampled \/ job[j].stale) => Kept
    BY <1>2, HeldFacts DEF Kept
  <1>6. ASSUME Write(j, c) PROVE IInv' /\ Kept
    <2>1. trampled' = (trampled \/ job[j].stale) /\ entry' = c
      BY <1>6 DEF Write
    <2>2. ~trampled' /\ job[j].kind # "PUNCH" => c.in = entry.in
      BY <1>2, <2>1, HeldFacts
    <2>3. IInv'
      BY <1>2, <1>3, <1>4, <1>6, <2>2, WriteStep
    <2>4. QED
      BY <1>5, <2>1, <2>3
  <1>7. QED
    BY <1>2, <1>3, <1>4, <1>5, <1>6 DEF c

LEMMA SavePunchKeeps ==
    ASSUME IInv, NEW j \in Jobs, SavePunch(j)
    PROVE  IInv' /\ Kept
  <1>1. IsHeld(job[j]) /\ Write(j, Cleaned(job[j].entry))
    BY DEF SavePunch, At, IsHeld
  <1>2. QED
    BY <1>1, HeldFacts, CleanedStep DEF EntryOk

LEMMA CorrectionFacts ==
    ASSUME NEW e \in EntryRecord, NEW v, v = [e EXCEPT !.times = Corrected, !.corrected = TRUE]
    PROVE  /\ v \in EntryRecord /\ v.in = e.in /\ v.exempt = e.exempt /\ v.corrected
           /\ v.times = Corrected
  <1> DEFINE t == Corrected
  <1> DEFINE b == TRUE
  <1>1. v = [e EXCEPT !.times = t, !.corrected = b] /\ t \in 0..Corrected /\ b \in BOOLEAN
        /\ b /\ t = Corrected
    BY DEF Corrected
  <1> HIDE DEF t, b
  <1>2. QED
    BY <1>1 DEF EntryRecord

LEMMA SaveCorrectionKeeps ==
    ASSUME IInv, NEW j \in Jobs, SaveCorrection(j)
    PROVE  IInv' /\ Kept
  <1> DEFINE d == [job[j].entry EXCEPT !.times = Corrected, !.corrected = TRUE]
  <1>1. IsHeld(job[j]) /\ Write(j, Cleaned(d))
    BY DEF SaveCorrection, At, IsHeld
  <1>2. job[j].entry \in EntryRecord /\ EntryOk(job[j].entry, exempted)
    BY <1>1, HeldFacts
  <1>3. d \in EntryRecord /\ d.in = job[j].entry.in /\ d.exempt = job[j].entry.exempt
        /\ d.corrected /\ d.times = Corrected
    BY <1>2, CorrectionFacts
  <1> HIDE DEF d
  <1>4. QED
    BY <1>1, <1>2, <1>3, CleanedStep DEF EntryOk

LEMMA SaveComputedKeeps ==
    ASSUME IInv, NEW j \in Jobs, NEW fin \in BOOLEAN, SaveComputed(j, fin)
    PROVE  IInv' /\ Kept
  <1>1. IsHeld(job[j])
    BY DEF SaveComputed, At, IsHeld
  <1>2. Write(j, Cleaned(ComputeAll(job[j].entry, fin)))
    BY DEF SaveComputed
  <1> DEFINE e == job[j].entry
  <1> DEFINE d == ComputeAll(e, fin)
  <1>3. e \in EntryRecord /\ EntryOk(e, exempted)
    BY <1>1, HeldFacts
  <1>4. request \in [Requests -> RequestRecord] /\ exempted \in BOOLEAN
    BY DEF IInv, TypeOK
  <1>5. d \in EntryRecord /\ Same(d, e) /\ (d.exempt => e.exempt \/ exempted)
    BY <1>3, <1>4, ComputeAllFacts
  <1>6. Write(j, Cleaned(d))
    BY <1>2
  <1> HIDE DEF d
  <1>7. QED
    BY <1>1, <1>3, <1>5, <1>6, CleanedStep DEF EntryOk, Same

LEMMA AppliedFacts ==
    ASSUME NEW e \in EntryRecord, NEW kind \in Kinds, e.corrected => e.times = Corrected
    PROVE  /\ Applied(e, kind) \in EntryRecord /\ Applied(e, kind).in = e.in
           /\ Applied(e, kind).exempt = e.exempt
           /\ Applied(e, kind).corrected => Applied(e, kind).times = Corrected
           /\ e.corrected => Applied(e, kind).corrected
  <1>1. CASE kind = "COMPLAINT"
    <2> DEFINE t == [e EXCEPT !.times = Corrected, !.corrected = TRUE]
    <2>1. t \in EntryRecord /\ t.in = e.in /\ t.exempt = e.exempt /\ t.corrected
          /\ t.times = Corrected
      BY CorrectionFacts
    <2>2. Applied(e, kind) = WithHours(t)
      BY <1>1 DEF Applied
    <2> HIDE DEF t
    <2>3. QED
      BY <2>1, <2>2, WithHoursFacts DEF Same
  <1>2. CASE kind # "COMPLAINT"
    <2> DEFINE s == "NONE"
    <2> DEFINE r == ReasonOf(kind)
    <2> DEFINE h == 0
    <2>1. s \in Statuses /\ r \in Reasons /\ h \in 0..2
      BY <1>2 DEF Statuses, Reasons, ReasonOf, Kinds
    <2>2. Applied(e, kind) = [e EXCEPT !.status = s, !.reason = r, !.hours = h]
      BY <1>2 DEF Applied
    <2> HIDE DEF s, r, h
    <2>3. \A v : v = [e EXCEPT !.status = s, !.reason = r, !.hours = h] =>
              v \in EntryRecord /\ Same(v, e) /\ v.exempt = e.exempt
      BY <2>1 DEF EntryRecord, Same, Statuses, Reasons
    <2>4. QED
      BY <2>2, <2>3 DEF Same
  <1>3. QED
    BY <1>1, <1>2

LEMMA ExecuteSaveKeeps ==
    ASSUME IInv, NEW j \in Jobs, ExecuteSave(j)
    PROVE  IInv' /\ Kept
  <1> DEFINE e == job[j].entry
  <1> DEFINE d == Applied(e, job[j].row.kind)
  <1>1. /\ IsHeld(job[j]) /\ job[j].kind = "APPROVE" /\ entry' = Cleaned(d)
        /\ job' = JobsAfter(j, Idle) /\ trampled' = (trampled \/ job[j].stale) /\ Marked
        /\ UNCHANGED <<over, punches, exempted, request, changes, exemptionDue, made, moved, missed>>
    BY DEF ExecuteSave, At, IsHeld
  <1>2. job[j] \in JobRecord /\ e \in EntryRecord /\ EntryOk(e, exempted)
    BY <1>1, HeldFacts
  <1>3. job[j].row.kind \in Kinds
    BY <1>2, TimesheetAssumption DEF JobRecord, RequestRecord
  <1>4. /\ d \in EntryRecord /\ d.in = e.in /\ d.exempt = e.exempt
        /\ d.corrected => d.times = Corrected
        /\ e.corrected => d.corrected
    BY <1>2, <1>3, AppliedFacts DEF EntryOk
  <1> HIDE DEF d
  <1>5. /\ Cleaned(d) \in EntryRecord /\ EntryOk(Cleaned(d), exempted)
        /\ FitsFor(Cleaned(d), exempted) /\ Cleaned(d).in = e.in /\ Kept
    BY <1>1, <1>2, <1>4, CleanedStep DEF EntryOk
  <1>6. ~IsHeld(Idle) /\ Idle \in JobRecord /\ JobOk(Idle, entry', exempted)
    BY IdleFacts, IdleOk DEF IsHeld
  <1>7. ~trampled' => e.in = entry.in
    BY <1>1, HeldFacts
  <1>8. /\ job' \in [Jobs -> JobRecord] /\ trampled' \in BOOLEAN
        /\ EntryKept' /\ JobsOk' /\ FitsInv' /\ PunchInv'
    BY <1>1, <1>5, <1>6, <1>7, PutStep
  <1>9. TypeOK
    BY DEF IInv
  <1>10. MonthInv' /\ month' \in MonthRecord /\ refresh' \in RefreshRecord
    BY <1>1, <1>9, MarkedStep
  <1>11. TypeOK'
    BY <1>1, <1>5, <1>8, <1>9, <1>10 DEF TypeOK
  <1>12. QED
    BY <1>5, <1>8, <1>10, <1>11 DEF IInv

-----------------------------------------------------------------------------
(* Tasks that write a few columns                                          *)

\* A copy's columns put on the entry that it was made of.
LEMMA ColumnsStep ==
    ASSUME IInv, NEW j \in Jobs, IsHeld(job[j]), job[j].kind \in {"CHANGE", "EXEMPTION"},
           NEW v \in EntryRecord, Write(j, v), Same(v, entry),
           v.exempt \in {entry.exempt, job[j].entry.exempt},
           v.hours \in {entry.hours, job[j].entry.hours}, v.reason = job[j].entry.reason,
           v.status = job[j].entry.status, v.days = job[j].entry.days
    PROVE  IInv' /\ Kept
  <1> DEFINE c == job[j].entry
  <1>1. entry' = v /\ trampled' = (trampled \/ job[j].stale)
    BY DEF Write
  <1>2. /\ c \in EntryRecord /\ EntryOk(c, exempted) /\ FitsButTimes(c, FALSE, exempted)
        /\ ~job[j].stale => c.times = entry.times /\ (entry.times = 0 => c.hours = entry.hours)
    BY HeldFacts
  <1> HIDE DEF c
  <1>3. entry \in EntryRecord /\ EntryOk(entry, exempted)
    BY DEF IInv, TypeOK, EntryKept
  <1>4. EntryOk(v, exempted)
    BY <1>2, <1>3 DEF EntryOk, Same, c
  <1>5. ~trampled' => FitsFor(v, exempted)
    <2> SUFFICES ASSUME ~trampled' PROVE FitsFor(v, exempted)
      OBVIOUS
    <2>1. c.times = entry.times /\ (entry.times = 0 => c.hours = entry.hours)
      BY <1>1, <1>2
    <2>2. entry.times = IF entry.corrected THEN Corrected ELSE entry.in
      BY <1>1 DEF IInv, FitsInv, FitsFor
    <2>3. entry.times \in 0..3 /\ c.hours \in 0..2 /\ entry.hours \in 0..2
      BY <1>2, <1>3 DEF EntryRecord, Corrected
    <2>4. v.times = entry.times /\ v.corrected = entry.corrected /\ v.in = entry.in
      BY DEF Same
    <2>5. v.status = c.status /\ v.days = c.days /\ v.reason = c.reason
      BY DEF c
    <2>6. v.hours \in {entry.hours, c.hours}
      BY DEF c
    <2>7. c.exempt => exempted
      BY <1>2 DEF EntryOk
    <2>8. v.status = "PRESENT" => v.times > 0 \/ v.hours > 0 \/ exempted
      <3> SUFFICES ASSUME v.status = "PRESENT", ~exempted PROVE v.times > 0 \/ v.hours > 0
        OBVIOUS
      <3>1. c.times > 0 \/ c.hours > 0
        BY <1>2, <2>5, <2>7 DEF FitsButTimes
      <3>2. CASE entry.times = 0
        BY <2>1, <2>3, <2>6, <3>1, <3>2
      <3>3. CASE entry.times # 0
        BY <2>3, <2>4, <3>3
      <3>4. QED
        BY <3>2, <3>3
    <2>9. QED
      BY <1>2, <2>1, <2>2, <2>4, <2>5, <2>8 DEF FitsFor, FitsButTimes
  <1>6. v.in = entry.in /\ job[j].kind # "PUNCH"
    BY DEF Same
  <1>7. IInv'
    BY <1>4, <1>5, <1>6, WriteStep
  <1>8. Kept
    BY <1>1 DEF Kept, Same
  <1>9. QED
    BY <1>7, <1>8

LEMMA ChangeWriteKeeps ==
    ASSUME IInv, NEW j \in Jobs, ChangeWrite(j)
    PROVE  IInv' /\ Kept
  <1> DEFINE c == job[j].entry
  <1> DEFINE v == [entry EXCEPT !.reason = c.reason, !.status = c.status, !.days = c.days]
  <1>1. IsHeld(job[j]) /\ job[j].kind = "CHANGE" /\ Write(j, v)
    BY DEF ChangeWrite, At, IsHeld
  <1>2. c \in EntryRecord
    BY <1>1, HeldFacts
  <1>3. entry \in EntryRecord
    BY DEF IInv, TypeOK
  <1> HIDE DEF c
  <1>4. v = [entry EXCEPT !.reason = c.reason, !.status = c.status, !.days = c.days]
    OBVIOUS
  <1> HIDE DEF v
  <1>5. v \in EntryRecord /\ Same(v, entry)
    BY <1>2, <1>3, <1>4 DEF EntryRecord, Same
  <1>6. v.exempt = entry.exempt /\ v.hours = entry.hours
    BY <1>2, <1>3, <1>4 DEF EntryRecord, Same
  <1>7. v.reason = c.reason /\ v.status = c.status /\ v.days = c.days
    BY <1>2, <1>3, <1>4 DEF EntryRecord, Same
  <1>8. /\ v.exempt \in {entry.exempt, job[j].entry.exempt}
        /\ v.hours \in {entry.hours, job[j].entry.hours}
        /\ job[j].kind \in {"CHANGE", "EXEMPTION"}
    BY <1>1, <1>6 DEF c
  <1>9. v.reason = job[j].entry.reason /\ v.status = job[j].entry.status
        /\ v.days = job[j].entry.days
    BY <1>7 DEF c
  <1>10. QED
    BY <1>1, <1>5, <1>8, <1>9, ColumnsStep

LEMMA ExemptionWriteKeeps ==
    ASSUME IInv, NEW j \in Jobs, ExemptionWrite(j)
    PROVE  IInv' /\ Kept
  <1> DEFINE c == job[j].entry
  <1> DEFINE v == [entry EXCEPT !.exempt = c.exempt, !.reason = c.reason,
                                !.status = c.status, !.days = c.days, !.hours = c.hours]
  <1>1. IsHeld(job[j]) /\ job[j].kind = "EXEMPTION" /\ Write(j, v)
    BY DEF ExemptionWrite, At, IsHeld
  <1>2. c \in EntryRecord
    BY <1>1, HeldFacts
  <1>3. entry \in EntryRecord
    BY DEF IInv, TypeOK
  <1> HIDE DEF c
  <1>4. v = [entry EXCEPT !.exempt = c.exempt, !.reason = c.reason,
                           !.status = c.status, !.days = c.days, !.hours = c.hours]
    OBVIOUS
  <1> HIDE DEF v
  <1>5. v \in EntryRecord /\ Same(v, entry)
    BY <1>2, <1>3, <1>4 DEF EntryRecord, Same
  <1>6. v.exempt = c.exempt /\ v.hours = c.hours
    BY <1>2, <1>3, <1>4 DEF EntryRecord, Same
  <1>7. v.reason = c.reason /\ v.status = c.status /\ v.days = c.days
    BY <1>2, <1>3, <1>4 DEF EntryRecord, Same
  <1>8. /\ v.exempt \in {entry.exempt, job[j].entry.exempt}
        /\ v.hours \in {entry.hours, job[j].entry.hours}
        /\ job[j].kind \in {"CHANGE", "EXEMPTION"}
    BY <1>1, <1>6 DEF c
  <1>9. v.reason = job[j].entry.reason /\ v.status = job[j].entry.status
        /\ v.days = job[j].entry.days
    BY <1>7 DEF c
  <1>10. QED
    BY <1>1, <1>5, <1>8, <1>9, ColumnsStep

-----------------------------------------------------------------------------
(* Jobs begin and go on without writing                                    *)

\* Job j becomes K; the entry and the month stay.
LEMMA JobStep ==
    ASSUME IInv, NEW j \in Jobs, NEW K \in JobRecord, job' = [job EXCEPT ![j] = K],
           NoPunch(job[j]), NoPunch(K), ~Due(job[j]), JobOk(K, entry, exempted),
           UNCHANGED <<entry, exempted, punches, missed, month, refresh, trampled>>
    PROVE  /\ job' \in [Jobs -> JobRecord]
           /\ EntryKept' /\ JobsOk' /\ FitsInv' /\ PunchInv' /\ MonthInv'
  <1>1. job \in [Jobs -> JobRecord]
    BY DEF IInv, TypeOK
  <1>2. \A k \in Jobs : job'[k] = IF k = j THEN K ELSE job[k]
    BY <1>1
  <1>3. job' = [k \in Jobs |-> job'[k]]
    BY <1>1
  <1>4. \A k \in Jobs : Moves(job[k], job'[k], entry, exempted)
    BY <1>2 DEF Moves
  <1>5. \A k \in Jobs : Due(job[k]) => Due(job'[k])
    BY <1>2
  <1>6. QED
    BY <1>3, <1>4, <1>5, CoreStep, MonthKept

\* An idle job becomes one that holds a copy of an entry.
LEMMA LoadStep ==
    ASSUME IInv, NEW j \in Jobs, IsIdle(j), NEW e \in EntryRecord,
           NEW kind \in {"CORRECT", "COMPUTE", "CHANGE", "EXEMPTION"},
           job' = [job EXCEPT ![j] = Loaded(kind, e)], Same(e, entry), EntryOk(e, exempted),
           kind \in {"CHANGE", "EXEMPTION"} =>
               FitsButTimes(e, FALSE, exempted) /\ (e.times = 0 => e.hours = entry.hours),
           UNCHANGED <<entry, exempted, punches, missed, month, refresh, trampled>>
    PROVE  /\ job' \in [Jobs -> JobRecord]
           /\ EntryKept' /\ JobsOk' /\ FitsInv' /\ PunchInv' /\ MonthInv'
  <1> DEFINE K == Loaded(kind, e)
  <1>1. K \in JobRecord /\ K.kind = kind /\ K.step = "LOADED" /\ K.entry = e /\ ~K.stale
    BY LoadedFacts
  <1> HIDE DEF K
  <1>2. JobOk(K, entry, exempted)
    BY <1>1 DEF JobOk, Same
  <1>3. NoPunch(job[j]) /\ NoPunch(K) /\ ~Due(job[j])
    BY <1>1 DEF NoPunch, Due, IsIdle
  <1>4. job' = [job EXCEPT ![j] = K]
    BY DEF K
  <1>5. QED
    BY <1>1, <1>2, <1>3, <1>4, JobStep

LEMMA LoadEntryKeeps ==
    ASSUME IInv, NEW j \in Jobs, NEW kind \in {"CORRECT", "COMPUTE"},
           LoadEntry(j, kind)
    PROVE  IInv' /\ Kept
  <1>1. /\ IsIdle(j) /\ made' \in 0..MaxJobs
        /\ job' = [job EXCEPT ![j] = Loaded(kind, entry)]
        /\ UNCHANGED <<over, punches, exempted, request, entry, month, refresh, changes,
                       exemptionDue, trampled, moved, missed>>
    BY TimesheetAssumption DEF LoadEntry, Starts, IInv, TypeOK
  <1>2. entry \in EntryRecord /\ EntryOk(entry, exempted) /\ Same(entry, entry)
    BY DEF IInv, TypeOK, EntryKept, Same
  <1>3. /\ job' \in [Jobs -> JobRecord]
        /\ EntryKept' /\ JobsOk' /\ FitsInv' /\ PunchInv' /\ MonthInv'
    BY <1>1, <1>2, LoadStep
  <1>4. TypeOK'
    BY <1>1, <1>3 DEF IInv, TypeOK
  <1>5. QED
    BY <1>1, <1>3, <1>4 DEF IInv, Kept

LEMMA ChangeLoadKeeps ==
    ASSUME IInv, NEW j \in Jobs, NEW r \in Requests, ChangeLoad(j, r)
    PROVE  IInv' /\ Kept
  <1> DEFINE base == IF request[r].kind = "COMPLAINT" THEN entry
                     ELSE [entry EXCEPT !.reason = LeaveReason]
  <1> DEFINE e == ComputeAll(base, FALSE)
  <1>1. /\ IsIdle(j) /\ changes' \subseteq changes
        /\ job' = [job EXCEPT ![j] = Loaded("CHANGE", e)]
        /\ UNCHANGED <<over, punches, exempted, request, entry, month, refresh,
                       exemptionDue, made, trampled, moved, missed>>
    BY DEF ChangeLoad
  <1>2. /\ entry \in EntryRecord /\ EntryOk(entry, exempted)
        /\ request \in [Requests -> RequestRecord] /\ exempted \in BOOLEAN
    BY DEF IInv, TypeOK, EntryKept
  <1>3. /\ base \in EntryRecord /\ Same(base, entry) /\ base.hours = entry.hours
        /\ base.exempt = entry.exempt
    <2>1. CASE request[r].kind = "COMPLAINT"
      BY <1>2, <2>1 DEF Same
    <2>2. CASE request[r].kind # "COMPLAINT"
      <3> DEFINE x == LeaveReason
      <3>1. base = [entry EXCEPT !.reason = x] /\ x \in Reasons
        BY <1>2, <2>2, LeaveReasonTyped
      <3> HIDE DEF x, base
      <3>2. QED
        BY <1>2, <3>1 DEF EntryRecord, Reasons, Same
    <2>3. QED
      BY <2>1, <2>2
  <1> HIDE DEF base
  <1>4. /\ e \in EntryRecord /\ Same(e, base) /\ (base.times < 2 => e.hours = base.hours)
        /\ FitsButTimes(e, FALSE, exempted) /\ (e.exempt => base.exempt \/ exempted)
    BY <1>2, <1>3, ComputeAllFacts
  <1> HIDE DEF e
  <1>5. Same(e, entry) /\ EntryOk(e, exempted) /\ (e.times = 0 => e.hours = entry.hours)
    BY <1>2, <1>3, <1>4 DEF Same, EntryOk
  <1>6. /\ job' \in [Jobs -> JobRecord]
        /\ EntryKept' /\ JobsOk' /\ FitsInv' /\ PunchInv' /\ MonthInv'
    BY <1>1, <1>4, <1>5, LoadStep
  <1>7. TypeOK'
    BY <1>1, <1>6 DEF IInv, TypeOK
  <1>8. QED
    BY <1>1, <1>6, <1>7 DEF IInv, Kept

LEMMA ExemptionLoadKeeps ==
    ASSUME IInv, NEW j \in Jobs, ExemptionLoad(j)
    PROVE  IInv' /\ Kept
  <1> DEFINE e == ComputeAll(entry, FALSE)
  <1>1. /\ IsIdle(j) /\ exemptionDue' \in BOOLEAN
        /\ job' = [job EXCEPT ![j] = Loaded("EXEMPTION", e)]
        /\ UNCHANGED <<over, punches, exempted, request, entry, month, refresh, changes,
                       made, trampled, moved, missed>>
    BY DEF ExemptionLoad
  <1>2. /\ entry \in EntryRecord /\ EntryOk(entry, exempted)
        /\ request \in [Requests -> RequestRecord] /\ exempted \in BOOLEAN
    BY DEF IInv, TypeOK, EntryKept
  <1>3. /\ e \in EntryRecord /\ Same(e, entry) /\ (entry.times < 2 => e.hours = entry.hours)
        /\ FitsButTimes(e, FALSE, exempted) /\ (e.exempt => entry.exempt \/ exempted)
    BY <1>2, ComputeAllFacts
  <1> HIDE DEF e
  <1>4. EntryOk(e, exempted) /\ (e.times = 0 => e.hours = entry.hours)
    BY <1>2, <1>3 DEF Same, EntryOk
  <1>5. /\ job' \in [Jobs -> JobRecord]
        /\ EntryKept' /\ JobsOk' /\ FitsInv' /\ PunchInv' /\ MonthInv'
    BY <1>1, <1>3, <1>4, LoadStep
  <1>6. TypeOK'
    BY <1>1, <1>5 DEF IInv, TypeOK
  <1>7. QED
    BY <1>1, <1>5, <1>6 DEF IInv, Kept

LEMMA OpenRequestKeeps ==
    ASSUME IInv, NEW j \in Jobs, OpenRequest(j)
    PROVE  IInv' /\ Kept
  <1>0. PICK kind \in RowJobs, r \in Requests :
            job' = [job EXCEPT ![j] = [Idle EXCEPT !.kind = kind, !.step = "ASKED",
                                                    !.req = r, !.row = request[r]]]
    BY DEF OpenRequest
  <1> DEFINE s == "ASKED"
  <1> DEFINE row == request[r]
  <1> DEFINE K == [Idle EXCEPT !.kind = kind, !.step = s, !.req = r, !.row = row]
  <1>1. /\ IsIdle(j) /\ made' \in 0..MaxJobs /\ job' = [job EXCEPT ![j] = K]
        /\ UNCHANGED <<over, punches, exempted, request, entry, month, refresh, changes,
                       exemptionDue, trampled, moved, missed>>
    <2>1. /\ Starts(j)
          /\ UNCHANGED <<over, punches, exempted, request, entry, month, refresh, changes,
                         exemptionDue, trampled, moved, missed>>
      BY DEF OpenRequest
    <2>2. QED
      BY <1>0, <2>1, TimesheetAssumption DEF Starts, IInv, TypeOK
  <1>2. row \in RequestRecord /\ s = "ASKED"
    BY DEF IInv, TypeOK
  <1> HIDE DEF s, row
  <1>3. K \in JobRecord /\ K.kind = kind /\ K.step = s /\ K.entry = Idle.entry
    BY <1>2, IdleFacts DEF JobRecord, RowJobs
  <1> HIDE DEF K
  <1>4. JobOk(K, entry, exempted)
    <2>1. ~Blank.corrected /\ ~Blank.exempt
      BY DEF Blank
    <2>2. QED
      BY <1>2, <1>3, <2>1, IdleFacts, OpenJobOk
  <1>5. NoPunch(job[j]) /\ NoPunch(K) /\ ~Due(job[j])
    BY <1>1, <1>2, <1>3 DEF NoPunch, Due, IsIdle, RowJobs
  <1>6. /\ job' \in [Jobs -> JobRecord]
        /\ EntryKept' /\ JobsOk' /\ FitsInv' /\ PunchInv' /\ MonthInv'
    BY <1>1, <1>3, <1>4, <1>5, JobStep
  <1>7. TypeOK'
    BY <1>1, <1>6 DEF IInv, TypeOK
  <1>8. QED
    BY <1>1, <1>6, <1>7 DEF IInv, Kept

LEMMA ExecuteFailsKeeps ==
    ASSUME IInv, NEW j \in Jobs, ExecuteFails(j)
    PROVE  IInv' /\ Kept
  <1>1. /\ job[j].kind = "APPROVE" /\ job[j].step = "DECIDED"
        /\ job' = [job EXCEPT ![j] = Idle]
        /\ UNCHANGED <<over, punches, exempted, request, entry, month, refresh, changes,
                       exemptionDue, made, trampled, moved, missed>>
    BY DEF ExecuteFails, At
  <1>2. NoPunch(job[j]) /\ NoPunch(Idle) /\ ~Due(job[j]) /\ Idle \in JobRecord
        /\ JobOk(Idle, entry, exempted)
    BY <1>1, IdleFacts, IdleOk DEF NoPunch, Due
  <1>3. /\ job' \in [Jobs -> JobRecord]
        /\ EntryKept' /\ JobsOk' /\ FitsInv' /\ PunchInv' /\ MonthInv'
    BY <1>1, <1>2, JobStep
  <1>4. TypeOK'
    BY <1>1, <1>3 DEF IInv, TypeOK
  <1>5. QED
    BY <1>1, <1>3, <1>4 DEF IInv, Kept

LEMMA ExecuteLoadKeeps ==
    ASSUME IInv, NEW j \in Jobs, ExecuteLoad(j)
    PROVE  IInv' /\ Kept
  <1> DEFINE s == "LOADED"
  <1> DEFINE J == job[j]
  <1> DEFINE K == [J EXCEPT !.step = s, !.entry = entry]
  <1>1. job \in [Jobs -> JobRecord] /\ J \in JobRecord
        /\ entry \in EntryRecord /\ EntryOk(entry, exempted)
    BY DEF IInv, TypeOK, EntryKept
  <1>2. /\ J.kind = "APPROVE" /\ J.step = "DECIDED"
        /\ job' = [job EXCEPT ![j].step = s, ![j].entry = entry]
        /\ UNCHANGED <<over, punches, exempted, request, entry, month, refresh, changes,
                       exemptionDue, made, trampled, moved, missed>>
    BY DEF ExecuteLoad, At
  <1>3. s = "LOADED"
    OBVIOUS
  <1>4. job' = [job EXCEPT ![j] = K]
    BY <1>1, <1>2 DEF JobRecord
  <1> HIDE DEF s, J
  <1>5. K \in JobRecord /\ K.kind = J.kind /\ K.step = s /\ K.entry = entry
    BY <1>1, <1>3 DEF JobRecord
  <1> HIDE DEF K
  <1>6. JobOk(K, entry, exempted)
    BY <1>1, <1>2, <1>5 DEF JobOk
  <1>7. NoPunch(J) /\ NoPunch(K) /\ ~Due(J)
    BY <1>2, <1>5 DEF NoPunch, Due
  <1>8. /\ job' \in [Jobs -> JobRecord]
        /\ EntryKept' /\ JobsOk' /\ FitsInv' /\ PunchInv' /\ MonthInv'
    BY <1>2, <1>4, <1>5, <1>6, <1>7, JobStep DEF J
  <1>9. TypeOK'
    BY <1>2, <1>8 DEF IInv, TypeOK
  <1>10. QED
    BY <1>2, <1>8, <1>9 DEF IInv, Kept

\* A write of a request: j goes on as next, holders of the request grow old.
LEMMA RowStep ==
    ASSUME IInv, NEW j \in Jobs, NEW r \in Requests, NEW row \in RequestRecord,
           NEW next \in JobRecord, SaveRequest(j, r, row, next), NoPunch(job[j]),
           ~Due(job[j]), NoPunch(next), JobOk(next, entry, exempted), moved' \in BOOLEAN
    PROVE  IInv' /\ Kept
  <1>1. /\ request' = [request EXCEPT ![r] = row] /\ job' = RowJobsAfter(j, r, next)
        /\ changes' \subseteq changes \cup {r} /\ trampled' = (trampled \/ job[j].stale)
        /\ UNCHANGED <<over, punches, exempted, entry, month, refresh, exemptionDue, made,
                       missed>>
    BY DEF SaveRequest
  <1>2. job \in [Jobs -> JobRecord] /\ TypeOK
    BY DEF IInv, TypeOK
  <1>3. \A k \in Jobs : job'[k] = IF k = j THEN next
                                 ELSE IF job[k].kind \in RowJobs /\ job[k].req = r
                                 THEN [job[k] EXCEPT !.stale = TRUE] ELSE job[k]
    BY <1>1 DEF RowJobsAfter
  <1>4. job' = [k \in Jobs |-> job'[k]]
    BY <1>1 DEF RowJobsAfter
  <1>5. \A k \in Jobs : Moves(job[k], job'[k], entry, exempted)
    BY <1>3 DEF Moves, RowJobs
  <1>6. \A k \in Jobs : Due(job[k]) => Due(job'[k])
    BY <1>2, <1>3, StaleFacts DEF Due
  <1>7. /\ job' \in [Jobs -> JobRecord]
        /\ EntryKept' /\ JobsOk' /\ FitsInv' /\ PunchInv' /\ MonthInv'
    BY <1>1, <1>4, <1>5, <1>6, CoreStep, MonthKept
  <1>8. trampled' \in BOOLEAN /\ request' \in [Requests -> RequestRecord]
    BY <1>1, <1>2 DEF TypeOK, JobRecord
  <1>9. TypeOK'
    BY <1>1, <1>2, <1>7, <1>8 DEF TypeOK
  <1>10. QED
    BY <1>1, <1>7, <1>9 DEF IInv, Kept

LEMMA StateWritten ==
    ASSUME NEW row \in RequestRecord, NEW s \in {"APPROVED", "REJECTED", "GONE"}
    PROVE  [row EXCEPT !.state = s] \in RequestRecord
  BY DEF RequestRecord

LEMMA DecideKeeps ==
    ASSUME IInv, NEW j \in Jobs, Decide(j)
    PROVE  IInv' /\ Kept
  <1> DEFINE J == job[j]
  <1> DEFINE s == "DECIDED"
  <1> DEFINE next == [J EXCEPT !.step = s]
  <1>1. J \in JobRecord /\ JobOk(J, entry, exempted) /\ moved \in BOOLEAN /\ s = "DECIDED"
    BY DEF IInv, TypeOK, JobsOk
  <1>2. /\ J.kind \in {"APPROVE", "REJECT"} /\ J.step = "ASKED" /\ moved' = moved
        /\ \/ SaveRequest(j, J.req, [J.row EXCEPT !.state = "APPROVED"], next)
           \/ SaveRequest(j, J.req, [J.row EXCEPT !.state = "APPROVED"], Idle)
           \/ SaveRequest(j, J.req, [J.row EXCEPT !.state = "REJECTED"], Idle)
    BY DEF Decide, At
  <1>3. J.req \in Requests /\ J.row \in RequestRecord
    BY <1>1 DEF JobRecord
  <1>4. NoPunch(J) /\ ~Due(J)
    BY <1>2 DEF NoPunch, Due
  <1> HIDE DEF s
  <1>5. next \in JobRecord /\ next.kind = J.kind /\ next.step = s /\ next.entry = J.entry
    <2> HIDE DEF J
    <2>1. QED
      BY <1>1 DEF JobRecord
  <1> HIDE DEF next
  <1>6. NoPunch(next) /\ JobOk(next, entry, exempted)
    BY <1>1, <1>2, <1>5 DEF NoPunch, JobOk, IsHeld
  <1>7. NoPunch(Idle) /\ Idle \in JobRecord /\ JobOk(Idle, entry, exempted)
    BY IdleFacts, IdleOk DEF NoPunch
  <1>8. /\ [J.row EXCEPT !.state = "APPROVED"] \in RequestRecord
        /\ [J.row EXCEPT !.state = "REJECTED"] \in RequestRecord
    BY <1>3, StateWritten
  <1>9. ASSUME NEW row \in RequestRecord, NEW K \in {next, Idle}, SaveRequest(j, J.req, row, K)
        PROVE  IInv' /\ Kept
    <2>1. K \in JobRecord /\ NoPunch(K) /\ JobOk(K, entry, exempted)
      BY <1>5, <1>6, <1>7
    <2>2. moved' \in BOOLEAN
      BY <1>1, <1>2
    <2>3. QED
      BY <1>3, <1>4, <1>9, <2>1, <2>2, RowStep
  <1>10. QED
    BY <1>2, <1>8, <1>9

LEMMA SaveEditKeeps ==
    ASSUME IInv, NEW j \in Jobs, SaveEdit(j)
    PROVE  IInv' /\ Kept
  <1> DEFINE old == job[j].row
  <1>1. job[j].kind = "EDIT" /\ job[j].step = "ASKED"
    BY DEF SaveEdit, At
  <1>2. PICK here \in BOOLEAN, kind \in Shifts(old.kind) :
            SaveRequest(j, job[j].req, [old EXCEPT !.here = here, !.kind = kind], Idle)
    BY DEF SaveEdit
  <1>3. job[j] \in JobRecord /\ moved' \in BOOLEAN
    BY DEF SaveEdit, IInv, TypeOK
  <1>4. job[j].req \in Requests /\ old \in RequestRecord
    BY <1>3 DEF JobRecord
  <1>5. kind \in RequestKinds
    BY <1>4 DEF Shifts, RequestRecord
  <1> HIDE DEF old
  <1> DEFINE row == [old EXCEPT !.here = here, !.kind = kind]
  <1>6. row \in RequestRecord
    BY <1>4, <1>5 DEF RequestRecord
  <1>7. SaveRequest(j, job[j].req, row, Idle)
    BY <1>2
  <1>8. NoPunch(job[j]) /\ ~Due(job[j]) /\ NoPunch(Idle) /\ Idle \in JobRecord
        /\ JobOk(Idle, entry, exempted)
    BY <1>1, IdleFacts, IdleOk DEF NoPunch, Due
  <1> HIDE DEF row
  <1>9. QED
    BY <1>3, <1>4, <1>6, <1>7, <1>8, RowStep

LEMMA DeleteKeeps ==
    ASSUME IInv, NEW r \in Requests, Delete(r)
    PROVE  IInv' /\ Kept
  <1> DEFINE row == [request[r] EXCEPT !.state = "GONE"]
  <1>1. /\ made' \in 0..MaxJobs /\ request' = [request EXCEPT ![r] = row]
        /\ changes' \subseteq changes \cup {r}
        /\ job' = [k \in Jobs |->
                      IF job[k].kind \in RowJobs /\ job[k].req = r
                      THEN [job[k] EXCEPT !.stale = TRUE] ELSE job[k]]
        /\ UNCHANGED <<over, punches, exempted, entry, month, refresh, exemptionDue,
                       trampled, moved, missed>>
    <2>1. request' = [request EXCEPT ![r].state = "GONE"] /\ request \in [Requests -> RequestRecord]
      BY DEF Delete, IInv, TypeOK
    <2>2. request' = [request EXCEPT ![r] = row]
      BY <2>1 DEF RequestRecord
    <2>3. QED
      BY <2>2, TimesheetAssumption DEF Delete, IInv, TypeOK
  <1>2. TypeOK /\ job \in [Jobs -> JobRecord] /\ request[r] \in RequestRecord
    BY DEF IInv, TypeOK
  <1>3. row \in RequestRecord
    BY <1>2, StateWritten
  <1> HIDE DEF row
  <1>4. job' = [k \in Jobs |-> job'[k]]
    BY <1>1
  <1>5. \A k \in Jobs : Moves(job[k], job'[k], entry, exempted)
    BY <1>1 DEF Moves, RowJobs
  <1>6. \A k \in Jobs : Due(job[k]) => Due(job'[k])
    BY <1>1, <1>2, StaleFacts DEF Due
  <1>7. /\ job' \in [Jobs -> JobRecord]
        /\ EntryKept' /\ JobsOk' /\ FitsInv' /\ PunchInv' /\ MonthInv'
    BY <1>1, <1>4, <1>5, <1>6, CoreStep, MonthKept
  <1>8. TypeOK'
    BY <1>1, <1>2, <1>3, <1>7 DEF TypeOK
  <1>9. QED
    BY <1>1, <1>7, <1>8 DEF IInv, Kept

LEMMA MarkKeeps ==
    ASSUME IInv, NEW j \in Jobs, Mark(j)
    PROVE  IInv' /\ Kept
  <1>1. /\ job[j].step = "WRITTEN" /\ Marked /\ job' = [job EXCEPT ![j] = Idle]
        /\ UNCHANGED <<over, punches, exempted, request, entry, changes, exemptionDue,
                       made, trampled, moved, missed>>
    BY DEF Mark
  <1>2. TypeOK /\ job \in [Jobs -> JobRecord]
    BY DEF IInv, TypeOK
  <1>3. NoPunch(job[j]) /\ NoPunch(Idle) /\ Idle \in JobRecord /\ JobOk(Idle, entry, exempted)
    BY <1>1, IdleFacts, IdleOk DEF NoPunch
  <1>4. \A k \in Jobs : Moves(job[k], job'[k], entry, exempted)
    BY <1>1, <1>2, <1>3 DEF Moves
  <1>5. job' = [k \in Jobs |-> job'[k]]
    BY <1>1, <1>2
  <1>6. /\ job' \in [Jobs -> JobRecord]
        /\ EntryKept' /\ JobsOk' /\ FitsInv' /\ PunchInv'
    BY <1>1, <1>4, <1>5, CoreStep
  <1>7. MonthInv' /\ month' \in MonthRecord /\ refresh' \in RefreshRecord
    BY <1>1, <1>2, MarkedStep
  <1>8. TypeOK'
    BY <1>1, <1>2, <1>6, <1>7 DEF TypeOK
  <1>9. QED
    BY <1>1, <1>6, <1>7, <1>8 DEF IInv, Kept

LEMMA PunchKeeps ==
    ASSUME IInv, NEW j \in Jobs, NEW n \in 0..2, Punch(j, n)
    PROVE  IInv' /\ Kept
  <1> DEFINE t == IF entry.corrected THEN entry.times ELSE n
  <1> DEFINE seen == [entry EXCEPT !.in = n, !.times = t]
  <1> DEFINE K == Loaded("PUNCH", WithHours(seen))
  <1>1. /\ IsIdle(j) /\ made' \in 0..MaxJobs /\ punches' = n /\ missed' = FALSE
        /\ job' = [job EXCEPT ![j] = K]
        /\ UNCHANGED <<over, exempted, request, entry, month, refresh, changes,
                       exemptionDue, trampled, moved>>
    BY TimesheetAssumption DEF Punch, Starts, IInv, TypeOK
  <1>2. TypeOK /\ job \in [Jobs -> JobRecord] /\ entry \in EntryRecord
        /\ EntryOk(entry, exempted)
    BY DEF IInv, TypeOK, EntryKept
  <1>3. t \in 0..Corrected /\ (entry.corrected => t = Corrected)
    BY <1>2 DEF EntryRecord, EntryOk, Corrected
  <1> HIDE DEF t
  <1>4. seen \in EntryRecord /\ seen.in = n /\ seen.corrected = entry.corrected
        /\ seen.exempt = entry.exempt /\ seen.times = t
    BY <1>2, <1>3 DEF EntryRecord
  <1> HIDE DEF seen
  <1>5. /\ WithHours(seen) \in EntryRecord /\ Same(WithHours(seen), seen)
        /\ WithHours(seen).exempt = seen.exempt
    BY <1>4, WithHoursFacts
  <1>6. K \in JobRecord /\ K.kind = "PUNCH" /\ K.step = "LOADED" /\ K.entry = WithHours(seen)
        /\ ~K.stale
    BY <1>5, LoadedFacts
  <1> HIDE DEF K
  <1>7. JobOk(K, entry, exempted) /\ PunchOf(K, n)
    BY <1>2, <1>3, <1>4, <1>5, <1>6 DEF JobOk, EntryOk, Same, PunchOf
  <1>8. \A k \in Jobs : job'[k] = IF k = j THEN K ELSE job[k]
    BY <1>1, <1>2
  <1>9. job' \in [Jobs -> JobRecord]
    BY <1>1, <1>2, <1>6
  <1>10. JobsOk'
    BY <1>1, <1>7, <1>8 DEF IInv, JobsOk
  <1>11. EntryKept' /\ FitsInv'
    BY <1>1 DEF IInv, EntryKept, FitsInv
  <1>12. PunchInv'
    BY <1>1, <1>7, <1>8 DEF PunchInv, PunchHeld
  <1>13. \A k \in Jobs : Due(job[k]) => Due(job'[k])
    BY <1>1, <1>8 DEF Due, IsIdle
  <1>14. MonthInv'
    BY <1>1, <1>13, MonthKept
  <1>15. TypeOK'
    BY <1>1, <1>2, <1>9 DEF TypeOK
  <1>16. QED
    BY <1>1, <1>9, <1>10, <1>11, <1>12, <1>14, <1>15 DEF IInv, Kept

LEMMA PunchMissedKeeps ==
    ASSUME IInv, NEW n \in 0..2, PunchMissed(n)
    PROVE  IInv' /\ Kept
  <1>1. /\ made' \in 0..MaxJobs /\ punches' = n /\ missed' = TRUE
        /\ UNCHANGED <<over, exempted, request, entry, month, refresh, changes,
                       exemptionDue, job, trampled, moved>>
    BY TimesheetAssumption DEF PunchMissed, IInv, TypeOK
  <1>2. TypeOK'
    BY <1>1 DEF IInv, TypeOK
  <1>3. EntryKept' /\ JobsOk' /\ FitsInv'
    BY <1>1 DEF IInv, EntryKept, JobsOk, FitsInv
  <1>4. PunchInv'
    BY <1>1 DEF PunchInv
  <1>5. MonthInv'
    BY <1>1, MonthKept
  <1>6. QED
    BY <1>1, <1>2, <1>3, <1>4, <1>5 DEF IInv, Kept

LEMMA ExemptKeeps ==
    ASSUME IInv, Exempt
    PROVE  IInv' /\ Kept
  <1>1. /\ made' \in 0..MaxJobs /\ exempted' = TRUE /\ exemptionDue' = TRUE
        /\ UNCHANGED <<over, punches, request, entry, month, refresh, changes, job,
                       trampled, moved, missed>>
    BY TimesheetAssumption DEF Exempt, IInv, TypeOK
  <1>2. TypeOK'
    BY <1>1 DEF IInv, TypeOK
  <1>3. \A k \in Jobs : JobOk(job[k], entry, exempted) => JobOk(job[k], entry, TRUE)
    BY DEF JobOk, EntryOk, FitsButTimes
  <1>4. JobsOk'
    BY <1>1, <1>3 DEF IInv, JobsOk
  <1>5. EntryKept' /\ FitsInv'
    BY <1>1 DEF IInv, EntryKept, EntryOk, FitsInv, FitsFor
  <1>6. PunchInv'
    BY <1>1 DEF IInv, PunchInv, PunchHeld
  <1>7. MonthInv'
    BY <1>1, MonthKept
  <1>8. QED
    BY <1>1, <1>2, <1>4, <1>5, <1>6, <1>7 DEF IInv, Kept

-----------------------------------------------------------------------------
(* The month, and every step                                               *)

LEMMA StillKeeps ==
    ASSUME IInv, UNCHANGED <<punches, missed, exempted, entry, job, trampled>>
    PROVE  EntryKept' /\ JobsOk' /\ FitsInv' /\ PunchInv' /\ Kept
  <1>1. EntryKept' /\ JobsOk' /\ FitsInv'
    BY DEF IInv, EntryKept, JobsOk, FitsInv
  <1>2. PunchInv'
    BY DEF IInv, PunchInv, PunchHeld
  <1>3. QED
    BY <1>1, <1>2 DEF Kept

LEMMA CreditTyped == ASSUME NEW e \in EntryRecord PROVE Credit(e) \in 0..2
  BY DEF Credit, EntryRecord, Open

LEMMA RefreshReadKeeps ==
    ASSUME IInv, RefreshRead
    PROVE  IInv' /\ Kept
  <1> DEFINE d == Credit(entry)
  <1> DEFINE p == entry.reason = "PAID"
  <1>1. /\ month.flag /\ month' = month
        /\ refresh' = [on |-> TRUE, days |-> d, paid |-> p, torn |-> FALSE]
        /\ UNCHANGED <<over, punches, exempted, request, entry, changes, exemptionDue, job,
                       made, trampled, moved, missed>>
    BY DEF RefreshRead
  <1>2. TypeOK /\ d \in 0..2 /\ p \in BOOLEAN
    BY CreditTyped DEF IInv, TypeOK
  <1>3. Counts(d, p)
    BY DEF Counts
  <1> HIDE DEF d, p
  <1>5. refresh' \in RefreshRecord /\ refresh'.days = d /\ refresh'.paid = p
    BY <1>1, <1>2 DEF RefreshRecord
  <1>6. MonthInv'
    BY <1>1, <1>3, <1>5 DEF MonthInv, Counts, Credit
  <1>7. TypeOK'
    BY <1>1, <1>2, <1>5 DEF TypeOK
  <1>8. QED
    BY <1>1, <1>6, <1>7, StillKeeps DEF IInv

LEMMA RefreshWriteKeeps ==
    ASSUME IInv, RefreshWrite
    PROVE  IInv' /\ Kept
  <1> DEFINE d == refresh.days
  <1> DEFINE p == refresh.paid
  <1> DEFINE t == refresh.torn
  <1>1. /\ refresh.on /\ month' = [flag |-> FALSE, days |-> d, paid |-> p, torn |-> t]
        /\ refresh' = [on |-> FALSE, days |-> 0, paid |-> FALSE, torn |-> FALSE]
        /\ UNCHANGED <<over, punches, exempted, request, entry, changes, exemptionDue, job,
                       made, trampled, moved, missed>>
    BY DEF RefreshWrite
  <1>2. TypeOK /\ d \in 0..2 /\ p \in BOOLEAN /\ t \in BOOLEAN
    BY DEF IInv, TypeOK, RefreshRecord
  <1>3. t \/ Counts(d, p) \/ MarkDue
    BY <1>1 DEF IInv, MonthInv
  <1> HIDE DEF d, p, t
  <1>4. month' \in MonthRecord /\ month'.days = d /\ month'.paid = p /\ month'.torn = t
    BY <1>1, <1>2 DEF MonthRecord
  <1>5. refresh' \in RefreshRecord /\ ~refresh'.on
    BY <1>1 DEF RefreshRecord
  <1>6. MarkDue' <=> MarkDue
    BY <1>1 DEF MarkDue, IsIdle
  <1>7. MonthInv'
    BY <1>1, <1>3, <1>4, <1>5, <1>6 DEF MonthInv, Counts, Credit
  <1>8. TypeOK'
    BY <1>1, <1>2, <1>4, <1>5 DEF TypeOK
  <1>9. QED
    BY <1>1, <1>7, <1>8, StillKeeps DEF IInv

LEMMA DayEndsKeeps ==
    ASSUME IInv, DayEnds
    PROVE  IInv' /\ Kept
  <1>1. /\ over' = TRUE
        /\ UNCHANGED <<punches, exempted, request, entry, month, refresh, changes,
                       exemptionDue, job, made, trampled, moved, missed>>
    BY DEF DayEnds
  <1>2. TypeOK'
    BY <1>1 DEF IInv, TypeOK
  <1>3. MonthInv'
    BY <1>1, MonthKept
  <1>4. QED
    BY <1>1, <1>2, <1>3, StillKeeps DEF IInv

LEMMA StepKeeps ==
    ASSUME IInv, [Next]_vars
    PROVE  IInv' /\ Kept
  <1>1. ASSUME NEW j \in Jobs, Begin(j) PROVE IInv' /\ Kept
    <2>1. ASSUME NEW n \in 0..2, Punch(j, n) PROVE IInv' /\ Kept
      BY <2>1, PunchKeeps
    <2>2. CASE OpenEntry(j)
      <3>1. PICK kind \in {"CORRECT", "COMPUTE"} : LoadEntry(j, kind)
        BY <2>2 DEF OpenEntry
      <3>2. QED
        BY <3>1, LoadEntryKeeps
    <2>3. CASE OpenRequest(j)
      BY <2>3, OpenRequestKeeps
    <2>4. QED
      BY <1>1, <2>1, <2>2, <2>3 DEF Begin
  <1>2. ASSUME NEW j \in Jobs, Proceed(j) PROVE IInv' /\ Kept
    <2>1. CASE SavePunch(j)
      BY <2>1, SavePunchKeeps
    <2>2. CASE SaveCorrection(j)
      BY <2>2, SaveCorrectionKeeps
    <2>3. ASSUME NEW fin \in BOOLEAN, SaveComputed(j, fin) PROVE IInv' /\ Kept
      BY <2>3, SaveComputedKeeps
    <2>4. CASE Mark(j)
      BY <2>4, MarkKeeps
    <2>5. CASE Decide(j)
      BY <2>5, DecideKeeps
    <2>6. CASE SaveEdit(j)
      BY <2>6, SaveEditKeeps
    <2>7. CASE ExecuteLoad(j)
      BY <2>7, ExecuteLoadKeeps
    <2>8. CASE ExecuteFails(j)
      BY <2>8, ExecuteFailsKeeps
    <2>9. CASE ExecuteSave(j)
      BY <2>9, ExecuteSaveKeeps
    <2>10. ASSUME NEW r \in Requests, ChangeLoad(j, r) PROVE IInv' /\ Kept
      BY <2>10, ChangeLoadKeeps
    <2>11. CASE ChangeWrite(j)
      BY <2>11, ChangeWriteKeeps
    <2>12. CASE ExemptionLoad(j)
      BY <2>12, ExemptionLoadKeeps
    <2>13. CASE ExemptionWrite(j)
      BY <2>13, ExemptionWriteKeeps
    <2>14. QED
      BY <1>2, <2>1, <2>2, <2>3, <2>4, <2>5, <2>6, <2>7, <2>8, <2>9, <2>10, <2>11,
         <2>12, <2>13 DEF Proceed
  <1>3. ASSUME NEW r \in Requests, Delete(r) PROVE IInv' /\ Kept
    BY <1>3, DeleteKeeps
  <1>4. CASE Exempt
    BY <1>4, ExemptKeeps
  <1>9. ASSUME NEW n \in 0..2, PunchMissed(n) PROVE IInv' /\ Kept
    BY <1>9, PunchMissedKeeps
  <1>5. CASE DayEnds
    BY <1>5, DayEndsKeeps
  <1>6. CASE Refresh
    BY <1>6, RefreshReadKeeps, RefreshWriteKeeps DEF Refresh
  <1>7. CASE UNCHANGED vars
    <2>1. UNCHANGED <<over, punches, exempted, request, entry, month, refresh, changes,
                      exemptionDue, job, made, trampled, moved, missed>>
      BY <1>7 DEF vars
    <2>2. TypeOK'
      BY <2>1 DEF IInv, TypeOK
    <2>3. MonthInv'
      BY <2>1, MonthKept
    <2>4. QED
      BY <2>1, <2>2, <2>3, StillKeeps DEF IInv
  <1>8. QED
    BY <1>1, <1>2, <1>3, <1>4, <1>5, <1>6, <1>7, <1>9 DEF Next

LEMMA InitHolds == Init => IInv
  <1> SUFFICES ASSUME Init PROVE IInv
    OBVIOUS
  <1>1. /\ over = FALSE /\ punches = 0 /\ exempted = FALSE /\ entry = Blank
        /\ month = [flag |-> FALSE, days |-> 0, paid |-> FALSE, torn |-> FALSE]
        /\ refresh = [on |-> FALSE, days |-> 0, paid |-> FALSE, torn |-> FALSE]
        /\ changes = {} /\ exemptionDue = FALSE /\ job = [j \in Jobs |-> Idle]
        /\ made = 0 /\ trampled = FALSE /\ moved = FALSE /\ missed = FALSE
    BY DEF Init
  <1>2. request \in [Requests -> RequestRecord]
    <2>1. \A k \in RequestKinds :
              [kind |-> k, here |-> TRUE, state |-> "PENDING"] \in RequestRecord
      BY DEF RequestRecord
    <2>2. PICK f \in Filed :
              request = [r \in Requests |-> [kind |-> f[r], here |-> TRUE, state |-> "PENDING"]]
      BY DEF Init
    <2>3. \A r \in Requests : f[r] \in RequestKinds
      BY TimesheetAssumption
    <2>4. QED
      BY <2>1, <2>2, <2>3
  <1>3. month \in MonthRecord /\ refresh \in RefreshRecord
    BY <1>1 DEF MonthRecord, RefreshRecord
  <1>4. job \in [Jobs -> JobRecord] /\ entry \in EntryRecord
    BY <1>1, IdleFacts, BlankTyped
  <1>5. TypeOK
    <2>1. made \in 0..MaxJobs /\ punches \in 0..2 /\ changes \subseteq Requests
      BY <1>1, TimesheetAssumption
    <2>2. over \in BOOLEAN /\ exempted \in BOOLEAN /\ exemptionDue \in BOOLEAN
          /\ trampled \in BOOLEAN /\ moved \in BOOLEAN /\ missed \in BOOLEAN
      BY <1>1
    <2>3. QED
      BY <1>2, <1>3, <1>4, <2>1, <2>2 DEF TypeOK
  <1>6. /\ entry.in = 0 /\ entry.times = 0 /\ ~entry.corrected /\ ~entry.exempt
        /\ entry.status = "NONE" /\ entry.days = 0 /\ entry.reason = NoReason
    BY <1>1 DEF Blank
  <1>7. EntryKept /\ FitsInv
    BY <1>6 DEF EntryKept, EntryOk, FitsInv, FitsFor
  <1>8. JobsOk
    BY <1>1, IdleOk DEF JobsOk
  <1>9. PunchInv
    BY <1>1, <1>6, IdleFacts DEF PunchInv, Fresh
  <1>10. MonthInv
    <2>1. entry.days = 0 /\ month.days = 0 /\ month.paid = FALSE /\ ~refresh.on
      BY <1>1 DEF Blank
    <2>2. Credit(entry) = 0
      BY <2>1 DEF Credit
    <2>3. entry.reason # "PAID"
      BY <1>6 DEF NoReason
    <2>4. QED
      BY <2>1, <2>2, <2>3 DEF MonthInv, Counts
  <1>11. QED
    BY <1>5, <1>7, <1>8, <1>9, <1>10 DEF IInv

-----------------------------------------------------------------------------
(* Theorems                                                                *)

\* The invariant is inductive: every writer, task and refresh keeps it.
THEOREM TimesheetInvariant == Spec => []IInv
  <1>1. IInv /\ [Next]_vars => IInv'
    BY StepKeeps
  <1>2. QED
    BY <1>1, InitHolds, PTL DEF Spec

\* Every column keeps its type, whatever the handlers and tasks do.
THEOREM TimesheetTyped == Spec => []TypeOK
  <1>1. IInv => TypeOK
    BY DEF IInv
  <1>2. QED
    BY <1>1, TimesheetInvariant, PTL

\* Whoever wrote the entry last, its status, times and days fit together, so long as no
\* writer worked from an old copy: also after the two tasks that write a few columns.
THEOREM EntryCoherent == Spec => []Coherent
  <1>1. IInv => Coherent
    BY DEF IInv, FitsInv, FitsFor, Coherent, Fits
  <1>2. QED
    BY <1>1, TimesheetInvariant, PTL

\* Every record that a handler took up is on the entry once all is done, while writers do
\* not overlap: also when punches, deletions, corrections and leaves cross.
THEOREM PunchesShown == Spec => []PunchesCounted
  <1>1. IInv => PunchesCounted
    BY DEF IInv, PunchInv, PunchHeld, PunchOf, PunchesCounted, AtRest, IsIdle
  <1>2. QED
    BY <1>1, TimesheetInvariant, PTL

\* A month's row without a mark counts the entry, or the refresh that wrote it was
\* marked again while it ran.
THEOREM MonthFollows == Spec => []MonthReflects
  <1>1. IInv => MonthReflects
    BY DEF IInv, MonthInv, MonthReflects
  <1>2. QED
    BY <1>1, TimesheetInvariant, PTL

\* No punch, task, request or recalculation takes a correction away, unless it writes
\* from a copy that is older than the correction.
THEOREM CorrectionsKept == Spec => CorrectionStands
  <1>1. IInv /\ [Next]_vars => [entry.corrected /\ ~trampled' => entry'.corrected]_vars
    BY StepKeeps DEF Kept
  <1>2. QED
    BY <1>1, TimesheetInvariant, PTL DEF Spec, CorrectionStands

-----------------------------------------------------------------------------
(* Leaves and the reason of the entry.  A job that holds a copy ends in a  *)
(* write, and makes every other copy old; so of two copies at once, one is *)
(* written when it is old, and nothing is promised from there on.  Until   *)
(* then one job at a time has the entry, and what it will make of the      *)
(* reason can be said.                                                     *)

WritesColumns(J) == J.kind \in {"CHANGE", "EXEMPTION"}

Doomed ==
    \/ \E j \in Jobs : IsHeld(job[j]) /\ job[j].stale
    \/ \E j, k \in Jobs : j # k /\ IsHeld(job[j]) /\ IsHeld(job[k])

Calm == ~trampled /\ ~moved /\ ~Doomed

\* A change of a leave is to be applied to the entry.
LeaveQueued == \E r \in changes : request[r].kind # "COMPLAINT"

Backed(x) == \E r \in ActiveLeaves : ReasonOf(request[r].kind) = x

Wanted == ActiveLeaves # {} /\ HalfDays = 0 /\ ~exempted

\* The reason x is what the leaves call for.
Right(x) == (x # NoReason => Backed(x)) /\ (Wanted => x # NoReason)

\* The entry has the right reason, or a task is about to put it there.
Settled ==
    /\ \A j \in Jobs : IsHeld(job[j]) /\ WritesColumns(job[j]) => Right(job[j].entry.reason)
    /\ \/ Right(entry.reason)
       \/ \E j \in Jobs : IsHeld(job[j]) /\ WritesColumns(job[j])

ReasonInv == Calm => LeaveQueued \/ Settled

\* A request that a job has loaded is as it was, until another saves or deletes it.
RowOk(J) == J.kind \in RowJobs /\ ~J.stale =>
    IF J.step = "ASKED"
    THEN J.row = request[J.req] /\ (J.kind # "EDIT" => J.row.state = "PENDING")
    ELSE J.kind = "APPROVE" /\ InForce(J.req) /\ request[J.req].kind = J.row.kind

RowsOk == \A j \in Jobs : RowOk(job[j])

CopyOk(J) == IsHeld(J) /\ ~WritesColumns(J) /\ ~J.stale => J.entry.reason = entry.reason

CopiesOk == \A j \in Jobs : CopyOk(job[j])

LeaveInv == RowsOk /\ CopiesOk /\ ReasonInv

-----------------------------------------------------------------------------
(* What the calculator makes of the reason                                 *)

\* What snapshot_leave_reason() finds is right.
LEMMA LeaveReasonRight ==
    ASSUME request \in [Requests -> RequestRecord]
    PROVE  Right(LeaveReason)
  <1>1. CASE ActiveLeaves = {}
    BY <1>1 DEF LeaveReason, Right, Wanted
  <1>2. CASE ActiveLeaves # {}
    <2> DEFINE k == request[FirstLeave].kind
    <2>1. FirstLeave \in ActiveLeaves /\ k \in Kinds \ {"COMPLAINT"}
      BY <1>2, FirstLeaveFacts
    <2>2. LeaveReason = IF k = "HALF" THEN NoReason ELSE k
      BY <1>2 DEF LeaveReason
    <2>3. CASE k = "HALF"
      <3> DEFINE H == {r \in ActiveLeaves : request[r].kind = "HALF"}
      <3>1. FirstLeave \in H /\ H \subseteq ActiveLeaves
        BY <2>1, <2>3
      <3>2. IsFiniteSet(H)
        BY <3>1, ActiveLeavesFinite, FS_Subset
      <3>3. Cardinality(H) # 0
        BY <3>1, <3>2, FS_EmptySet
      <3>4. ~Wanted
        BY <3>3 DEF Wanted, HalfDays
      <3>5. QED
        BY <2>2, <2>3, <3>4 DEF Right
    <2>4. CASE k # "HALF"
      <3>1. LeaveReason = k /\ k # NoReason /\ ReasonOf(k) = k
        BY <2>1, <2>2, <2>4 DEF Kinds, NoReason, ReasonOf
      <3>2. Backed(k)
        BY <2>1, <3>1 DEF Backed
      <3>3. QED
        BY <3>1, <3>2 DEF Right
    <2>5. QED
      BY <2>3, <2>4
  <1>3. QED
    BY <1>1, <1>2

\* The reason that an entry with the reason x is given.
Filled(x) == IF x = NoReason THEN LeaveReason ELSE x

LEMMA FilledRight ==
    ASSUME request \in [Requests -> RequestRecord], NEW x, x = NoReason \/ Right(x)
    PROVE  Right(Filled(x))
  BY LeaveReasonRight DEF Filled

LEMMA SnapshotReason ==
    ASSUME NEW e \in EntryRecord
    PROVE  Snapshot(e).reason = Filled(e.reason) /\ Snapshot(e).exempt = (e.exempt \/ exempted)
  <1> DEFINE x == (e.exempt \/ exempted)
  <1> DEFINE y == IF e.reason = NoReason THEN LeaveReason ELSE e.reason
  <1>1. Snapshot(e) = [e EXCEPT !.exempt = x, !.reason = y]
    BY DEF Snapshot
  <1> HIDE DEF x, y
  <1>2. Snapshot(e).exempt = x /\ Snapshot(e).reason = y
    BY <1>1 DEF EntryRecord
  <1>3. QED
    BY <1>2 DEF x, y, Filled

LEMMA WithHoursReason ==
    ASSUME NEW e \in EntryRecord
    PROVE  WithHours(e).reason = e.reason
  <1> DEFINE h == IF e.times = Corrected THEN 2 ELSE IF e.times = 2 THEN 1 ELSE e.hours
  <1>1. WithHours(e) = [e EXCEPT !.hours = h]
    BY DEF WithHours
  <1> HIDE DEF h
  <1>2. QED
    BY <1>1 DEF EntryRecord

LEMMA JudgedReason ==
    ASSUME NEW e \in EntryRecord, NEW fin
    PROVE  Judged(e, fin).reason = e.reason
  <1> DEFINE s == Status(e, fin)
  <1> DEFINE d == WorkingDays(e, s, fin)
  <1>1. Judged(e, fin) = [e EXCEPT !.status = s, !.days = d]
    BY DEF Judged
  <1> HIDE DEF s, d
  <1>2. QED
    BY <1>1 DEF EntryRecord

LEMMA CleanedReason ==
    ASSUME request \in [Requests -> RequestRecord], exempted \in BOOLEAN, NEW e \in EntryRecord
    PROVE  Cleaned(e).reason = Filled(e.reason)
  <1> DEFINE synced == IF e.corrected THEN e ELSE [e EXCEPT !.times = e.in]
  <1>1. synced \in EntryRecord /\ synced.reason = e.reason
    <2>1. e.in \in 0..Corrected
      BY DEF EntryRecord, Corrected
    <2>2. QED
      BY <2>1 DEF EntryRecord
  <1> DEFINE s == Snapshot(synced)
  <1>2. Cleaned(e) = IF over THEN Judged(WithHours(s), over) ELSE Judged(s, over)
    BY DEF Cleaned
  <1> HIDE DEF synced
  <1>3. s \in EntryRecord /\ s.reason = Filled(e.reason)
    BY <1>1, SnapshotFacts, SnapshotReason
  <1> HIDE DEF s
  <1>4. WithHours(s) \in EntryRecord /\ WithHours(s).reason = s.reason
    BY <1>3, WithHoursFacts, WithHoursReason
  <1>5. Judged(WithHours(s), over).reason = s.reason /\ Judged(s, over).reason = s.reason
    BY <1>3, <1>4, JudgedReason
  <1>6. QED
    BY <1>2, <1>3, <1>5

LEMMA ComputeAllReason ==
    ASSUME request \in [Requests -> RequestRecord], exempted \in BOOLEAN, NEW e \in EntryRecord,
           NEW fin \in BOOLEAN
    PROVE  ComputeAll(e, fin).reason
             = IF e.exempt \/ exempted THEN NoReason ELSE Filled(e.reason)
  <1> DEFINE s == Snapshot(e)
  <1>1. s \in EntryRecord /\ s.reason = Filled(e.reason) /\ s.exempt = (e.exempt \/ exempted)
    BY SnapshotFacts, SnapshotReason
  <1>2. ComputeAll(e, fin)
          = IF s.exempt THEN [s EXCEPT !.status = "PRESENT", !.days = 2, !.reason = NoReason]
            ELSE Judged(WithHours(s), fin)
    BY DEF ComputeAll
  <1> HIDE DEF s
  <1>3. WithHours(s) \in EntryRecord /\ WithHours(s).reason = s.reason
    BY <1>1, WithHoursFacts, WithHoursReason
  <1>4. Judged(WithHours(s), fin).reason = s.reason
    BY <1>3, JudgedReason
  <1>5. [s EXCEPT !.status = "PRESENT", !.days = 2, !.reason = NoReason].reason = NoReason
    BY <1>1 DEF EntryRecord
  <1>6. QED
    BY <1>1, <1>2, <1>4, <1>5

\* What a task computes from an entry is right if the reason it starts from is.
LEMMA ComputedRight ==
    ASSUME TypeOK, EntryOk(entry, exempted), NEW e \in EntryRecord, e.exempt = entry.exempt,
           NEW fin \in BOOLEAN, e.reason = NoReason \/ Right(e.reason)
    PROVE  Right(ComputeAll(e, fin).reason)
  <1>1. request \in [Requests -> RequestRecord] /\ exempted \in BOOLEAN
    BY DEF TypeOK
  <1>2. CASE e.exempt \/ exempted
    <2>1. ComputeAll(e, fin).reason = NoReason /\ exempted
      BY <1>1, <1>2, ComputeAllReason DEF EntryOk
    <2>2. QED
      BY <2>1 DEF Right, Wanted
  <1>3. CASE ~(e.exempt \/ exempted)
    <2>1. ComputeAll(e, fin).reason = Filled(e.reason)
      BY <1>1, <1>3, ComputeAllReason
    <2>2. QED
      BY <1>1, <2>1, FilledRight
  <1>4. QED
    BY <1>2, <1>3


-----------------------------------------------------------------------------
(* Kinds of steps: what they make of the reason                            *)

\* The leaves that are in force stay, or a change is queued.
SameLeaves ==
    \/ LeaveQueued'
    \/ /\ ActiveLeaves' = ActiveLeaves /\ HalfDays' = HalfDays
       /\ \A r \in ActiveLeaves : request'[r].kind = request[r].kind
       /\ exempted => exempted'
       /\ ~LeaveQueued

LEMMA RightStays ==
    ASSUME ActiveLeaves' = ActiveLeaves, HalfDays' = HalfDays, exempted => exempted',
           \A r \in ActiveLeaves : request'[r].kind = request[r].kind, NEW x, Right(x)
    PROVE  (x # NoReason => Backed(x)') /\ (Wanted' => x # NoReason)
  BY DEF Right, Backed, Wanted

\* What is settled afterwards, in terms of before.
LEMMA SettledNext ==
    ASSUME ActiveLeaves' = ActiveLeaves, HalfDays' = HalfDays, exempted => exempted',
           \A r \in ActiveLeaves : request'[r].kind = request[r].kind,
           \A k \in Jobs : IsHeld(job'[k]) /\ WritesColumns(job'[k]) =>
               Right(job'[k].entry.reason),
           \/ Right(entry'.reason)
           \/ \E k \in Jobs : IsHeld(job'[k]) /\ WritesColumns(job'[k])
    PROVE  Settled'
  <1> DEFINE S == {ReasonOf(request[r].kind) : r \in ActiveLeaves}
  <1>1. \A x : Backed(x)' <=> x \in S'
    BY DEF Backed
  <1>2. \A x : Right(x) => (x # NoReason => x \in S') /\ (Wanted' => x # NoReason)
    BY <1>1, RightStays
  <1> HIDE DEF S
  <1>3. ASSUME NEW k \in Jobs, IsHeld(job'[k]), WritesColumns(job'[k])
        PROVE  Right(job[k].entry.reason)'
    BY <1>1, <1>2, <1>3 DEF Right
  <1>4. Right(entry'.reason) => Right(entry.reason)'
    BY <1>1, <1>2 DEF Right
  <1>5. QED
    BY <1>3, <1>4 DEF Settled, IsHeld, WritesColumns

LEMMA SameRequests ==
    ASSUME request' = request
    PROVE  ActiveLeaves' = ActiveLeaves /\ HalfDays' = HalfDays
  <1>1. ActiveLeaves' = ActiveLeaves
    BY DEF ActiveLeaves, InForce
  <1>2. QED
    BY <1>1 DEF HalfDays

LEMMA StillSame ==
    ASSUME request' = request, changes' = changes, exempted => exempted'
    PROVE  SameLeaves
  BY SameRequests DEF SameLeaves, LeaveQueued

\* What a step that leaves the entry alone makes of a job J.
Turns(J, K) ==
    \/ K = J
    \/ K = [J EXCEPT !.stale = TRUE]
    \/ ~IsHeld(J) /\ (IsHeld(K) => ~WritesColumns(K) /\ K.entry.reason = entry.reason)

LEMMA TurnsFacts ==
    ASSUME NEW J \in JobRecord, NEW K, Turns(J, K)
    PROVE  /\ IsHeld(J) => IsHeld(K) /\ (J.stale => K.stale)
                           /\ K.kind = J.kind /\ K.entry = J.entry
           /\ IsHeld(K) /\ WritesColumns(K) => IsHeld(J)
           /\ IsHeld(K) /\ ~WritesColumns(K) /\ ~K.stale =>
                  K = J \/ K.entry.reason = entry.reason
  <1>1. CASE K = J
    BY <1>1
  <1>2. CASE K = [J EXCEPT !.stale = TRUE]
    BY <1>2, StaleFacts DEF IsHeld
  <1>3. CASE ~IsHeld(J) /\ (IsHeld(K) => ~WritesColumns(K) /\ K.entry.reason = entry.reason)
    BY <1>3
  <1>4. QED
    BY <1>1, <1>2, <1>3 DEF Turns

\* Two copies, or an old one, stay until one is written.
LEMMA DoomStays ==
    ASSUME \A k \in Jobs : IsHeld(job[k]) => IsHeld(job'[k]) /\ (job[k].stale => job'[k].stale),
           Doomed
    PROVE  Doomed'
  <1>1. CASE \E j \in Jobs : IsHeld(job[j]) /\ job[j].stale
    BY <1>1 DEF Doomed, IsHeld
  <1>2. CASE \E j, k \in Jobs : j # k /\ IsHeld(job[j]) /\ IsHeld(job[k])
    <2>1. PICK j \in Jobs, k \in Jobs : j # k /\ IsHeld(job[j]) /\ IsHeld(job[k])
      BY <1>2
    <2>2. IsHeld(job'[j]) /\ IsHeld(job'[k])
      BY <2>1
    <2>3. QED
      BY <2>1, <2>2 DEF Doomed, IsHeld
  <1>3. QED
    BY <1>1, <1>2 DEF Doomed

LEMMA QuietStep ==
    ASSUME TypeOK, CopiesOk, ReasonInv, entry' = entry, trampled => trampled',
           moved => moved', \A k \in Jobs : Turns(job[k], job'[k]),
           ~trampled' /\ ~moved' => SameLeaves
    PROVE  CopiesOk' /\ ReasonInv'
  <1>1. \A k \in Jobs :
            /\ IsHeld(job[k]) => IsHeld(job'[k]) /\ (job[k].stale => job'[k].stale)
                                 /\ job'[k].kind = job[k].kind /\ job'[k].entry = job[k].entry
            /\ IsHeld(job'[k]) /\ WritesColumns(job'[k]) => IsHeld(job[k])
            /\ IsHeld(job'[k]) /\ ~WritesColumns(job'[k]) /\ ~job'[k].stale =>
                   job'[k] = job[k] \/ job'[k].entry.reason = entry.reason
    BY TurnsFacts DEF TypeOK
  <1>2. CopiesOk'
    <2>1. \A k \in Jobs : IsHeld(job'[k]) /\ ~WritesColumns(job'[k]) /\ ~job'[k].stale =>
              job'[k].entry.reason = entry.reason
      BY <1>1 DEF CopiesOk, CopyOk
    <2>2. QED
      BY <2>1 DEF CopiesOk, CopyOk, IsHeld, WritesColumns
  <1>3. ReasonInv'
    <2> SUFFICES ASSUME Calm', ~LeaveQueued' PROVE Settled'
      BY DEF ReasonInv
    <2>1. ~Doomed
      BY <1>1, DoomStays DEF Calm
    <2>2. /\ ActiveLeaves' = ActiveLeaves /\ HalfDays' = HalfDays
          /\ \A r \in ActiveLeaves : request'[r].kind = request[r].kind
          /\ exempted => exempted'
          /\ ~LeaveQueued
      BY DEF SameLeaves, Calm
    <2>3. Settled
      BY <2>1, <2>2 DEF ReasonInv, Calm
    <2>4. ASSUME NEW k \in Jobs, IsHeld(job'[k]), WritesColumns(job'[k])
          PROVE  Right(job'[k].entry.reason)
      <3>1. IsHeld(job[k]) /\ WritesColumns(job[k]) /\ job'[k].entry = job[k].entry
        BY <1>1, <2>4 DEF WritesColumns
      <3>2. QED
        BY <2>3, <3>1 DEF Settled
    <2>5. \/ Right(entry'.reason)
          \/ \E k \in Jobs : IsHeld(job'[k]) /\ WritesColumns(job'[k])
      BY <1>1, <2>3 DEF Settled, WritesColumns
    <2>6. QED
      BY <2>2, <2>4, <2>5, SettledNext
  <1>4. QED
    BY <1>2, <1>3

\* Job j loads the entry and computes the columns of c.
LEMMA ColumnsLoadStep ==
    ASSUME TypeOK, CopiesOk, ReasonInv, NEW j \in Jobs, IsIdle(j), NEW K,
           IsHeld(K), WritesColumns(K), job' = [job EXCEPT ![j] = K],
           UNCHANGED <<request, entry, exempted, trampled, moved>>,
           ~LeaveQueued' /\ (LeaveQueued \/ Right(entry.reason)) => Right(K.entry.reason)
    PROVE  CopiesOk' /\ ReasonInv'
  <1>1. \A k \in Jobs : job'[k] = IF k = j THEN K ELSE job[k]
    BY DEF TypeOK
  <1>2. CopiesOk'
    <2>1. \A k \in Jobs : IsHeld(job'[k]) /\ ~WritesColumns(job'[k]) /\ ~job'[k].stale =>
              job'[k].entry.reason = entry.reason
      BY <1>1 DEF CopiesOk, CopyOk
    <2>2. QED
      BY <2>1 DEF CopiesOk, CopyOk, IsHeld, WritesColumns
  <1>3. ReasonInv'
    <2> SUFFICES ASSUME Calm', ~LeaveQueued' PROVE Settled'
      BY DEF ReasonInv
    <2>1. ~IsHeld(job[j])
      BY DEF IsIdle, IsHeld
    <2>2. ~Doomed
      BY <1>1, <2>1, DoomStays DEF Calm
    <2>3. \A k \in Jobs : IsHeld(job'[k]) => k = j
      BY <1>1 DEF Calm, Doomed, IsHeld
    <2>4. \A k \in Jobs : ~IsHeld(job[k])
      BY <1>1, <2>1, <2>3
    <2>5. LeaveQueued \/ Right(entry.reason)
      BY <2>2, <2>4 DEF ReasonInv, Calm, Settled
    <2>6. \A k \in Jobs : IsHeld(job'[k]) => Right(job'[k].entry.reason)
      BY <1>1, <2>3, <2>5
    <2>7. \E k \in Jobs : IsHeld(job'[k]) /\ WritesColumns(job'[k])
      BY <1>1
    <2>8. QED
      BY <2>6, <2>7, SameRequests, SettledNext
  <1>4. QED
    BY <1>2, <1>3

\* A write: while all is calm, no other job has a copy afterwards.
LEMMA ReasonPut ==
    ASSUME TypeOK, CopiesOk, ReasonInv, NEW j \in Jobs, IsHeld(job[j]), NEW next, ~IsHeld(next),
           job' = JobsAfter(j, next), trampled' = (trampled \/ job[j].stale),
           UNCHANGED <<request, changes, exempted, moved>>,
           Calm /\ ~LeaveQueued => Right(entry'.reason)
    PROVE  CopiesOk' /\ ReasonInv'
  <1> DEFINE old(k) == [job[k] EXCEPT !.stale = TRUE]
  <1>1. \A k \in Jobs : old(k).kind = job[k].kind /\ old(k).step = job[k].step /\ old(k).stale
    BY StaleFacts DEF TypeOK
  <1>2. \A k \in Jobs : job'[k] = IF k = j THEN next
                                  ELSE IF IsHeld(job[k]) THEN old(k) ELSE job[k]
    BY DEF JobsAfter, IsHeld
  <1> HIDE DEF old
  <1>3. \A k \in Jobs : /\ IsHeld(job'[k]) => job'[k].stale
                        /\ k # j /\ IsHeld(job[k]) => IsHeld(job'[k])
    BY <1>1, <1>2 DEF IsHeld
  <1>4. CopiesOk'
    BY <1>3 DEF CopiesOk, CopyOk, IsHeld
  <1>5. ReasonInv'
    <2> SUFFICES ASSUME Calm', ~LeaveQueued' PROVE Settled'
      BY DEF ReasonInv
    <2>1. \A k \in Jobs : ~IsHeld(job'[k])
      BY <1>3 DEF Calm, Doomed, IsHeld
    <2>2. \A k \in Jobs : IsHeld(job[k]) => k = j
      BY <1>3, <2>1
    <2>3. ~job[j].stale /\ ~trampled /\ ~moved
      BY DEF Calm
    <2>4. Calm /\ ~LeaveQueued
      BY <2>2, <2>3 DEF Calm, Doomed, LeaveQueued
    <2>5. QED
      BY <2>1, <2>4, SameRequests, SettledNext
  <1>6. QED
    BY <1>4, <1>5


-----------------------------------------------------------------------------
(* The requests that jobs hold                                             *)

\* Request r is saved as row, or nothing changes: who else holds r holds an old one.
LEMMA RowsStep ==
    ASSUME TypeOK, RowsOk, NEW r \in Requests,
           \A q \in Requests : q # r => request'[q] = request[q],
           \A k \in Jobs :
               \/ /\ job'[k] = job[k]
                  /\ job[k].kind \in RowJobs /\ job[k].req = r => request' = request
               \/ job'[k] = [job[k] EXCEPT !.stale = TRUE]
               \/ RowOk(job[k])'
    PROVE  RowsOk'
  <1> SUFFICES ASSUME NEW k \in Jobs PROVE RowOk(job[k])'
    BY DEF RowsOk
  <1>1. job[k] \in JobRecord /\ job[k].req \in Requests /\ RowOk(job[k])
    BY DEF TypeOK, JobRecord, RowsOk
  <1>2. CASE /\ job'[k] = job[k]
             /\ job[k].kind \in RowJobs /\ job[k].req = r => request' = request
    <2>1. job[k].kind \in RowJobs => request'[job[k].req] = request[job[k].req]
      BY <1>1, <1>2
    <2>2. QED
      BY <1>1, <1>2, <2>1 DEF RowOk, InForce
  <1>3. CASE job'[k] = [job[k] EXCEPT !.stale = TRUE]
    <2>1. job'[k].stale
      BY <1>1, <1>3, StaleFacts
    <2>2. QED
      BY <2>1 DEF RowOk
  <1>4. QED
    BY <1>2, <1>3

LEMMA NoRowOk == ASSUME NEW k, job'[k].kind \notin RowJobs PROVE RowOk(job[k])'
  BY DEF RowOk

\* A change of one request changes the leaves in force only when it is queued.
LEMMA LeavesAfter ==
    ASSUME TypeOK, NEW r \in Requests, NEW row, request' = [request EXCEPT ![r] = row],
           row.kind = "COMPLAINT" <=> request[r].kind = "COMPLAINT",
           changes \subseteq changes', exempted => exempted',
           \/ r \in changes'
           \/ /\ (row.state = "APPROVED" /\ row.here) <=> InForce(r)
              /\ InForce(r) => row.kind = request[r].kind
    PROVE  SameLeaves
  <1>1. \A q \in Requests :
            /\ request'[q].kind = "COMPLAINT" <=> request[q].kind = "COMPLAINT"
            /\ request'[q] = IF q = r THEN row ELSE request[q]
    BY DEF TypeOK
  <1>2. changes \subseteq Requests
    BY DEF TypeOK
  <1>3. LeaveQueued => LeaveQueued'
    BY <1>1, <1>2 DEF LeaveQueued
  <1>4. CASE r \in changes' /\ row.kind # "COMPLAINT"
    BY <1>1, <1>4 DEF SameLeaves, LeaveQueued
  <1>5. CASE \/ row.kind = "COMPLAINT"
             \/ /\ (row.state = "APPROVED" /\ row.here) <=> InForce(r)
                /\ InForce(r) => row.kind = request[r].kind
    <2>1. \A q \in Requests : q \in ActiveLeaves' <=> q \in ActiveLeaves
      BY <1>1, <1>5 DEF ActiveLeaves, InForce
    <2>2. ActiveLeaves \subseteq Requests /\ ActiveLeaves' \subseteq Requests
      BY DEF ActiveLeaves
    <2>3. ActiveLeaves' = ActiveLeaves
      BY <2>1, <2>2
    <2>4. \A q \in ActiveLeaves : request'[q].kind = request[q].kind
      BY <1>1, <1>5, <2>2 DEF ActiveLeaves
    <2>5. {q \in ActiveLeaves : request[q].kind = "HALF"}'
            = {q \in ActiveLeaves : request[q].kind = "HALF"}
      BY <2>3, <2>4
    <2>6. HalfDays' = HalfDays
      BY <2>5 DEF HalfDays
    <2>7. QED
      BY <1>3, <2>3, <2>4, <2>6 DEF SameLeaves
  <1>6. QED
    BY <1>4, <1>5

\* A step that touches no request.
LEMMA NoRequestStep ==
    ASSUME IInv, LeaveInv, request' = request, changes' = changes, exempted => exempted',
           entry' = entry, trampled' = trampled, moved' = moved,
           \A k \in Jobs : job'[k] = job[k] \/ (Turns(job[k], job'[k]) /\ RowOk(job[k])')
    PROVE  LeaveInv'
  <1>1. TypeOK
    BY DEF IInv
  <1>2. RowsOk'
    <2>1. PICK r \in Requests : TRUE
      BY TimesheetAssumption
    <2>2. QED
      BY <1>1, <2>1, RowsStep DEF LeaveInv
  <1>3. \A k \in Jobs : Turns(job[k], job'[k])
    BY DEF Turns
  <1>4. CopiesOk' /\ ReasonInv'
    BY <1>1, <1>3, StillSame, QuietStep DEF LeaveInv
  <1>5. QED
    BY <1>2, <1>4 DEF LeaveInv

\* Job j turns into K, which holds no columns.
LEMMA OneJobStep ==
    ASSUME IInv, LeaveInv, NEW j \in Jobs, NEW K, job' = [job EXCEPT ![j] = K], ~IsHeld(job[j]),
           IsHeld(K) => ~WritesColumns(K) /\ K.entry.reason = entry.reason, RowOk(K),
           UNCHANGED <<request, changes, exempted, entry, trampled, moved>>
    PROVE  LeaveInv'
  <1>1. \A k \in Jobs : job'[k] = IF k = j THEN K ELSE job[k]
    BY DEF IInv, TypeOK
  <1>2. RowOk(job[j])'
    BY <1>1 DEF RowOk, InForce
  <1>3. \A k \in Jobs : job'[k] = job[k] \/ (Turns(job[k], job'[k]) /\ RowOk(job[k])')
    BY <1>1, <1>2 DEF Turns
  <1>4. QED
    BY <1>3, NoRequestStep

LEMMA IdleRowOk == ~IsHeld(Idle) /\ RowOk(Idle)
  BY IdleFacts DEF IsHeld, RowOk, RowJobs


-----------------------------------------------------------------------------
(* Writers and the reason                                                  *)

\* What a held copy says of the reason, when nothing is queued and no other job has one.
LEMMA HeldRight ==
    ASSUME LeaveInv, NEW j \in Jobs, IsHeld(job[j]), Calm, ~LeaveQueued
    PROVE  /\ Right(job[j].entry.reason)
           /\ WritesColumns(job[j]) \/ job[j].entry.reason = entry.reason
  <1>1. Settled /\ ~job[j].stale /\ \A k \in Jobs : IsHeld(job[k]) => k = j
    BY DEF LeaveInv, ReasonInv, Calm, Doomed
  <1>2. CASE WritesColumns(job[j])
    BY <1>1, <1>2 DEF Settled
  <1>3. CASE ~WritesColumns(job[j])
    <2>1. job[j].entry.reason = entry.reason
      BY <1>1, <1>3 DEF LeaveInv, CopiesOk, CopyOk
    <2>2. Right(entry.reason)
      BY <1>1, <1>3 DEF Settled
    <2>3. QED
      BY <2>1, <2>2
  <1>4. QED
    BY <1>2, <1>3

LEMMA PutLeaves ==
    ASSUME IInv, LeaveInv, NEW j \in Jobs, IsHeld(job[j]), NEW next, ~IsHeld(next),
           next.kind \notin RowJobs, job' = JobsAfter(j, next),
           trampled' = (trampled \/ job[j].stale), UNCHANGED <<request, changes, exempted, moved>>,
           Calm /\ ~LeaveQueued => Right(entry'.reason)
    PROVE  LeaveInv'
  <1>1. TypeOK
    BY DEF IInv
  <1>2. \A k \in Jobs :
            \/ k = j /\ job'[k] = next
            \/ job'[k] = [job[k] EXCEPT !.stale = TRUE]
            \/ job'[k] = job[k]
    BY DEF JobsAfter
  <1>3. RowsOk'
    <2>1. PICK r \in Requests : TRUE
      BY TimesheetAssumption
    <2>2. QED
      BY <1>1, <1>2, <2>1, NoRowOk, RowsStep DEF LeaveInv
  <1>4. CopiesOk' /\ ReasonInv'
    BY <1>1, ReasonPut DEF LeaveInv
  <1>5. QED
    BY <1>3, <1>4 DEF LeaveInv

LEMMA WriteLeaves ==
    ASSUME IInv, LeaveInv, NEW j \in Jobs, IsHeld(job[j]), job[j].kind \notin RowJobs,
           NEW e, Write(j, e), Calm /\ ~LeaveQueued => Right(e.reason)
    PROVE  LeaveInv'
  <1> DEFINE next == Saved
  <1>1. /\ entry' = e /\ job' = JobsAfter(j, next) /\ trampled' = (trampled \/ job[j].stale)
        /\ UNCHANGED <<request, changes, exempted, moved>>
    BY DEF Write
  <1>2. next.kind = "SAVED" /\ next.step = "WRITTEN"
    BY SavedFacts
  <1> HIDE DEF next
  <1>3. ~IsHeld(next) /\ next.kind \notin RowJobs
    BY <1>2 DEF IsHeld, RowJobs
  <1>4. QED
    BY <1>1, <1>3, PutLeaves

\* Writers of the whole entry keep the reason they loaded, or find it anew.
LEMMA CleanedLeaves ==
    ASSUME IInv, LeaveInv, NEW j \in Jobs, IsHeld(job[j]), job[j].kind \notin RowJobs,
           NEW d \in EntryRecord, d.reason \in {NoReason, job[j].entry.reason, LeaveReason},
           Write(j, Cleaned(d))
    PROVE  LeaveInv'
  <1>1. request \in [Requests -> RequestRecord] /\ exempted \in BOOLEAN
    BY DEF IInv, TypeOK
  <1>2. ASSUME Calm, ~LeaveQueued
        PROVE  Right(Cleaned(d).reason)
    <2>1. d.reason = NoReason \/ Right(d.reason)
      BY <1>1, <1>2, HeldRight, LeaveReasonRight
    <2>2. QED
      BY <1>1, <2>1, CleanedReason, FilledRight
  <1>3. QED
    BY <1>2, WriteLeaves

LEMMA SavePunchLeaves ==
    ASSUME IInv, LeaveInv, NEW j \in Jobs, SavePunch(j)
    PROVE  LeaveInv'
  <1>1. /\ IsHeld(job[j]) /\ job[j].kind \notin RowJobs /\ Write(j, Cleaned(job[j].entry))
    BY DEF SavePunch, At, IsHeld, RowJobs
  <1>2. QED
    BY <1>1, HeldFacts, CleanedLeaves

LEMMA SaveCorrectionLeaves ==
    ASSUME IInv, LeaveInv, NEW j \in Jobs, SaveCorrection(j)
    PROVE  LeaveInv'
  <1> DEFINE d == [job[j].entry EXCEPT !.times = Corrected, !.corrected = TRUE]
  <1>1. IsHeld(job[j]) /\ job[j].kind \notin RowJobs /\ Write(j, Cleaned(d))
    BY DEF SaveCorrection, At, IsHeld, RowJobs
  <1>2. job[j].entry \in EntryRecord
    BY <1>1, HeldFacts
  <1>3. d \in EntryRecord /\ d.reason = job[j].entry.reason
    BY <1>2, CorrectionFacts DEF EntryRecord
  <1> HIDE DEF d
  <1>4. QED
    BY <1>1, <1>3, CleanedLeaves

LEMMA SaveComputedLeaves ==
    ASSUME IInv, LeaveInv, NEW j \in Jobs, NEW fin \in BOOLEAN, SaveComputed(j, fin)
    PROVE  LeaveInv'
  <1>1. IsHeld(job[j]) /\ job[j].kind \notin RowJobs
    BY DEF SaveComputed, At, IsHeld, RowJobs
  <1>2. Write(j, Cleaned(ComputeAll(job[j].entry, fin)))
    BY DEF SaveComputed
  <1> DEFINE d == ComputeAll(job[j].entry, fin)
  <1>3. request \in [Requests -> RequestRecord] /\ exempted \in BOOLEAN
        /\ job[j].entry \in EntryRecord
    BY <1>1, HeldFacts DEF IInv, TypeOK
  <1>4. d \in EntryRecord /\ d.reason \in {NoReason, job[j].entry.reason, LeaveReason}
    BY <1>3, ComputeAllFacts, ComputeAllReason DEF Filled
  <1>5. Write(j, Cleaned(d))
    BY <1>2
  <1> HIDE DEF d
  <1>6. QED
    BY <1>1, <1>4, <1>5, CleanedLeaves

\* An execution enters the leave that it was started for, which is in force.
LEMMA ExecuteSaveLeaves ==
    ASSUME IInv, LeaveInv, NEW j \in Jobs, ExecuteSave(j)
    PROVE  LeaveInv'
  <1> DEFINE e == job[j].entry
             kind == job[j].row.kind
             d == Applied(e, kind)
  <1>1. /\ IsHeld(job[j]) /\ job[j].kind = "APPROVE" /\ job[j].step = "LOADED"
        /\ entry' = Cleaned(d) /\ job' = JobsAfter(j, Idle)
        /\ trampled' = (trampled \/ job[j].stale)
        /\ UNCHANGED <<request, changes, exempted, moved>>
    BY DEF ExecuteSave, At, IsHeld
  <1>2. job[j] \in JobRecord /\ e \in EntryRecord /\ EntryOk(e, exempted)
        /\ request \in [Requests -> RequestRecord] /\ exempted \in BOOLEAN
    BY <1>1, HeldFacts DEF IInv, TypeOK
  <1>3. kind \in Kinds /\ job[j].req \in Requests
    BY <1>2, TimesheetAssumption DEF JobRecord, RequestRecord
  <1>4. d \in EntryRecord
    BY <1>2, <1>3, AppliedFacts DEF EntryOk
  <1>5. d.reason = IF kind = "COMPLAINT" THEN e.reason ELSE ReasonOf(kind)
    <2>1. CASE kind = "COMPLAINT"
      <3> DEFINE t == [e EXCEPT !.times = Corrected, !.corrected = TRUE]
      <3>1. t \in EntryRecord /\ t.reason = e.reason
        BY <1>2, CorrectionFacts DEF EntryRecord
      <3>2. d = WithHours(t)
        BY <2>1 DEF Applied
      <3> HIDE DEF t, d
      <3>3. QED
        BY <2>1, <3>1, <3>2, WithHoursReason
    <2>2. CASE kind # "COMPLAINT"
      <3> DEFINE x == ReasonOf(kind)
      <3>1. d = [e EXCEPT !.status = "NONE", !.reason = x, !.hours = 0]
        BY <2>2 DEF Applied
      <3> HIDE DEF x, d
      <3>2. d.reason = x
        BY <1>2, <3>1 DEF EntryRecord
      <3>3. QED
        BY <2>2, <3>2 DEF x
    <2>3. QED
      BY <2>1, <2>2
  <1> HIDE DEF d
  <1>6. ASSUME Calm, ~LeaveQueued
        PROVE  Right(entry'.reason)
    <2>1. Right(e.reason) /\ ~job[j].stale
      BY <1>1, <1>6, HeldRight DEF Calm, Doomed
    <2>2. InForce(job[j].req) /\ request[job[j].req].kind = kind
      BY <1>1, <2>1 DEF LeaveInv, RowsOk, RowOk, RowJobs
    <2>3. Right(d.reason)
      <3>1. CASE kind = "COMPLAINT"
        BY <1>5, <2>1, <3>1
      <3>2. CASE kind # "COMPLAINT"
        <4>1. job[j].req \in ActiveLeaves
          BY <1>3, <2>2, <3>2 DEF ActiveLeaves
        <4>2. Backed(ReasonOf(kind))
          BY <2>2, <4>1 DEF Backed
        <4>3. ReasonOf(kind) # NoReason
          BY <1>3 DEF Kinds, ReasonOf, NoReason
        <4>4. QED
          BY <1>5, <3>2, <4>2, <4>3 DEF Right
      <3>3. QED
        BY <3>1, <3>2
    <2>4. QED
      BY <1>1, <1>2, <1>4, <2>3, CleanedReason, FilledRight
  <1>7. ~IsHeld(Idle) /\ Idle.kind \notin RowJobs
    BY IdleFacts DEF IsHeld, RowJobs
  <1>8. QED
    BY <1>1, <1>6, <1>7, PutLeaves

LEMMA ColumnsLeaves ==
    ASSUME IInv, LeaveInv, NEW j \in Jobs, IsHeld(job[j]), WritesColumns(job[j]),
           NEW v, Write(j, v), v.reason = job[j].entry.reason
    PROVE  LeaveInv'
  BY HeldRight, WriteLeaves DEF WritesColumns, RowJobs

LEMMA ChangeWriteLeaves ==
    ASSUME IInv, LeaveInv, NEW j \in Jobs, ChangeWrite(j)
    PROVE  LeaveInv'
  <1> DEFINE c == job[j].entry
  <1> DEFINE v == [entry EXCEPT !.reason = c.reason, !.status = c.status, !.days = c.days]
  <1>1. IsHeld(job[j]) /\ WritesColumns(job[j]) /\ Write(j, v)
    BY DEF ChangeWrite, At, IsHeld, WritesColumns
  <1>2. entry \in EntryRecord
    BY DEF IInv, TypeOK
  <1>3. v.reason = c.reason
    BY <1>2 DEF EntryRecord
  <1> HIDE DEF v
  <1>4. QED
    BY <1>1, <1>3, ColumnsLeaves

LEMMA ExemptionWriteLeaves ==
    ASSUME IInv, LeaveInv, NEW j \in Jobs, ExemptionWrite(j)
    PROVE  LeaveInv'
  <1> DEFINE c == job[j].entry
  <1> DEFINE v == [entry EXCEPT !.exempt = c.exempt, !.reason = c.reason,
                                !.status = c.status, !.days = c.days, !.hours = c.hours]
  <1>1. IsHeld(job[j]) /\ WritesColumns(job[j]) /\ Write(j, v)
    BY DEF ExemptionWrite, At, IsHeld, WritesColumns
  <1>2. entry \in EntryRecord
    BY DEF IInv, TypeOK
  <1>3. v.reason = c.reason
    BY <1>2 DEF EntryRecord
  <1> HIDE DEF v
  <1>4. QED
    BY <1>1, <1>3, ColumnsLeaves


-----------------------------------------------------------------------------
(* The other steps                                                         *)

LEMMA PunchLeaves ==
    ASSUME IInv, LeaveInv, NEW j \in Jobs, NEW n \in 0..2, Punch(j, n)
    PROVE  LeaveInv'
  <1> DEFINE t == IF entry.corrected THEN entry.times ELSE n
  <1> DEFINE seen == [entry EXCEPT !.in = n, !.times = t]
  <1> DEFINE K == Loaded("PUNCH", WithHours(seen))
  <1>1. /\ IsIdle(j) /\ job' = [job EXCEPT ![j] = K]
        /\ UNCHANGED <<request, changes, exempted, entry, trampled, moved>>
    BY DEF Punch, Starts
  <1>2. entry \in EntryRecord
    BY DEF IInv, TypeOK
  <1>3. t \in 0..Corrected
    BY <1>2 DEF EntryRecord, Corrected
  <1> HIDE DEF t
  <1>4. seen \in EntryRecord /\ seen.reason = entry.reason
    BY <1>2, <1>3 DEF EntryRecord
  <1> HIDE DEF seen
  <1>5. WithHours(seen) \in EntryRecord /\ WithHours(seen).reason = entry.reason
    BY <1>4, WithHoursFacts, WithHoursReason
  <1>6. K.kind = "PUNCH" /\ K.entry = WithHours(seen)
    BY <1>5, LoadedFacts
  <1> HIDE DEF K
  <1>7. ~IsHeld(job[j]) /\ ~WritesColumns(K) /\ K.entry.reason = entry.reason /\ RowOk(K)
    BY <1>1, <1>5, <1>6 DEF IsHeld, IsIdle, WritesColumns, RowOk, RowJobs
  <1>8. QED
    BY <1>1, <1>7, OneJobStep

LEMMA LoadEntryLeaves ==
    ASSUME IInv, LeaveInv, NEW j \in Jobs, NEW kind \in {"CORRECT", "COMPUTE"},
           LoadEntry(j, kind)
    PROVE  LeaveInv'
  <1> DEFINE K == Loaded(kind, entry)
  <1>1. /\ IsIdle(j) /\ job' = [job EXCEPT ![j] = K]
        /\ UNCHANGED <<request, changes, exempted, entry, trampled, moved>>
    BY DEF LoadEntry, Starts
  <1>2. K.kind = kind /\ K.entry = entry
    BY LoadedFacts DEF IInv, TypeOK
  <1> HIDE DEF K
  <1>3. ~IsHeld(job[j]) /\ ~WritesColumns(K) /\ RowOk(K)
    BY <1>1, <1>2 DEF IsHeld, IsIdle, WritesColumns, RowOk, RowJobs
  <1>4. QED
    BY <1>1, <1>2, <1>3, OneJobStep

LEMMA OpenRequestLeaves ==
    ASSUME IInv, LeaveInv, NEW j \in Jobs, OpenRequest(j)
    PROVE  LeaveInv'
  <1>0. PICK kind \in RowJobs, r \in Requests :
            /\ kind \in {"APPROVE", "REJECT"} => request[r].state = "PENDING"
            /\ job' = [job EXCEPT ![j] = [Idle EXCEPT !.kind = kind, !.step = "ASKED",
                                                    !.req = r, !.row = request[r]]]
    BY DEF OpenRequest
  <1> DEFINE s == "ASKED"
  <1> DEFINE row == request[r]
  <1> DEFINE K == [Idle EXCEPT !.kind = kind, !.step = s, !.req = r, !.row = row]
  <1>1. /\ IsIdle(j) /\ job' = [job EXCEPT ![j] = K]
        /\ kind \in {"APPROVE", "REJECT"} => row.state = "PENDING"
        /\ UNCHANGED <<request, changes, exempted, entry, trampled, moved>>
    BY <1>0 DEF OpenRequest, Starts
  <1>2. s = "ASKED" /\ row = request[r]
    OBVIOUS
  <1> HIDE DEF s, row
  <1>3. K.kind = kind /\ K.step = s /\ K.req = r /\ K.row = row
    BY IdleFacts DEF JobRecord
  <1> HIDE DEF K
  <1>4. ~IsHeld(job[j]) /\ ~IsHeld(K)
    BY <1>1, <1>2, <1>3 DEF IsHeld, IsIdle
  <1>5. RowOk(K)
    BY <1>1, <1>2, <1>3 DEF RowOk, RowJobs
  <1>6. QED
    BY <1>1, <1>4, <1>5, OneJobStep

LEMMA MarkLeaves ==
    ASSUME IInv, LeaveInv, NEW j \in Jobs, Mark(j)
    PROVE  LeaveInv'
  <1>1. /\ job[j].step = "WRITTEN" /\ job' = [job EXCEPT ![j] = Idle]
        /\ UNCHANGED <<request, changes, exempted, entry, trampled, moved>>
    BY DEF Mark
  <1>2. ~IsHeld(job[j])
    BY <1>1 DEF IsHeld
  <1>3. QED
    BY <1>1, <1>2, IdleRowOk, OneJobStep

LEMMA ExecuteLoadLeaves ==
    ASSUME IInv, LeaveInv, NEW j \in Jobs, ExecuteLoad(j)
    PROVE  LeaveInv'
  <1> DEFINE s == "LOADED"
  <1> DEFINE K == [job[j] EXCEPT !.step = s, !.entry = entry]
  <1>1. /\ job[j].kind = "APPROVE" /\ job[j].step = "DECIDED" /\ job[j] \in JobRecord
        /\ job' = [job EXCEPT ![j] = K]
        /\ UNCHANGED <<request, changes, exempted, entry, trampled, moved>>
    BY DEF ExecuteLoad, At, IInv, TypeOK
  <1>2. s = "LOADED"
    OBVIOUS
  <1> HIDE DEF s
  <1>3. /\ K.kind = "APPROVE" /\ K.step = s /\ K.entry = entry /\ K.req = job[j].req
        /\ K.row = job[j].row /\ K.stale = job[j].stale
    BY <1>1 DEF JobRecord
  <1> HIDE DEF K
  <1>4. ~IsHeld(job[j]) /\ ~WritesColumns(K)
    BY <1>1, <1>3 DEF IsHeld, WritesColumns
  <1>5. RowOk(job[j])
    BY DEF LeaveInv, RowsOk
  <1>6. RowOk(K)
    BY <1>1, <1>2, <1>3, <1>5 DEF RowOk
  <1>7. QED
    BY <1>1, <1>3, <1>4, <1>6, OneJobStep

LEMMA ExecuteFailsLeaves ==
    ASSUME IInv, LeaveInv, NEW j \in Jobs, ExecuteFails(j)
    PROVE  LeaveInv'
  <1>1. /\ job[j].step = "DECIDED" /\ job' = [job EXCEPT ![j] = Idle]
        /\ UNCHANGED <<request, changes, exempted, entry, trampled, moved>>
    BY DEF ExecuteFails, At
  <1>2. ~IsHeld(job[j])
    BY <1>1 DEF IsHeld
  <1>3. QED
    BY <1>1, <1>2, IdleRowOk, OneJobStep

\* The entry and every job stay, and an exemption may be granted.
LEMMA StillLeaves ==
    ASSUME IInv, LeaveInv, exempted => exempted',
           UNCHANGED <<request, changes, entry, job, trampled, moved>>
    PROVE  LeaveInv'
  BY NoRequestStep


\* A request is saved: who else holds it holds an old one, and what it changes is queued.
LEMMA RowLeaves ==
    ASSUME IInv, LeaveInv, NEW j \in Jobs, NEW r \in Requests, NEW row, NEW next,
           SaveRequest(j, r, row, next), ~IsHeld(job[j]), ~IsHeld(next), RowOk(job[j])',
           moved => moved',
           ~job[j].stale /\ ~moved' =>
               /\ row.kind = "COMPLAINT" <=> request[r].kind = "COMPLAINT"
               /\ \/ r \in changes'
                  \/ /\ (row.state = "APPROVED" /\ row.here) <=> InForce(r)
                     /\ InForce(r) => row.kind = request[r].kind
    PROVE  LeaveInv'
  <1>1. /\ request' = [request EXCEPT ![r] = row] /\ job' = RowJobsAfter(j, r, next)
        /\ changes \subseteq changes' /\ trampled' = (trampled \/ job[j].stale)
        /\ UNCHANGED <<exempted, entry>>
    BY DEF SaveRequest
  <1>2. TypeOK /\ \A q \in Requests : q # r => request'[q] = request[q]
    BY <1>1 DEF IInv, TypeOK
  <1>3. \A k \in Jobs : job'[k] = IF k = j THEN next
                                 ELSE IF job[k].kind \in RowJobs /\ job[k].req = r
                                 THEN [job[k] EXCEPT !.stale = TRUE] ELSE job[k]
    BY <1>1 DEF RowJobsAfter
  <1>4. RowsOk'
    BY <1>2, <1>3, RowsStep DEF LeaveInv
  <1>5. \A k \in Jobs : Turns(job[k], job'[k])
    BY <1>3 DEF Turns
  <1>6. ~trampled' /\ ~moved' => SameLeaves
    BY <1>1, <1>2, LeavesAfter
  <1>7. CopiesOk' /\ ReasonInv'
    BY <1>1, <1>2, <1>5, <1>6, QuietStep DEF LeaveInv
  <1>8. QED
    BY <1>4, <1>7 DEF LeaveInv

LEMMA DecideLeaves ==
    ASSUME IInv, LeaveInv, NEW j \in Jobs, Decide(j)
    PROVE  LeaveInv'
  <1> DEFINE J == job[j]
             s == "DECIDED"
             next == [J EXCEPT !.step = s]
             yes == [J.row EXCEPT !.state = "APPROVED"]
             no == [J.row EXCEPT !.state = "REJECTED"]
  <1>1. J \in JobRecord /\ RowOk(J) /\ request \in [Requests -> RequestRecord] /\ s = "DECIDED"
    BY DEF IInv, TypeOK, LeaveInv, RowsOk
  <1>2. /\ J.kind \in {"APPROVE", "REJECT"} /\ J.step = "ASKED" /\ moved' = moved
        /\ \/ J.kind = "APPROVE" /\ J.row.here /\ SaveRequest(j, J.req, yes, next)
           \/ J.kind = "APPROVE" /\ ~J.row.here /\ SaveRequest(j, J.req, yes, Idle)
           \/ SaveRequest(j, J.req, no, Idle)
    BY DEF Decide, At
  <1>3. J.req \in Requests /\ J.row \in RequestRecord
    BY <1>1 DEF JobRecord
  <1>4. ~J.stale => J.row = request[J.req] /\ J.row.state = "PENDING" /\ ~InForce(J.req)
    BY <1>1, <1>2 DEF RowOk, RowJobs, InForce
  <1> HIDE DEF s
  <1>5. /\ next.kind = J.kind /\ next.step = s /\ next.req = J.req /\ next.row = J.row
        /\ next.stale = J.stale
    <2> HIDE DEF J
    <2>1. QED
      BY <1>1 DEF JobRecord
  <1>6. /\ yes.kind = J.row.kind /\ yes.here = J.row.here /\ yes.state = "APPROVED"
        /\ no.kind = J.row.kind /\ no.state = "REJECTED"
    <2> HIDE DEF J
    <2>1. QED
      BY <1>3 DEF RequestRecord
  <1>7. ~IsHeld(J) /\ ~IsHeld(next) /\ ~IsHeld(Idle) /\ Idle.kind \notin RowJobs
    BY <1>1, <1>2, <1>5, IdleFacts DEF IsHeld, RowJobs
  <1> HIDE DEF next, yes, no
  <1>8. \A r, row, K : SaveRequest(j, r, row, K) => job'[j] = K
    BY DEF SaveRequest, RowJobsAfter
  <1>9. CASE J.kind = "APPROVE" /\ J.row.here /\ SaveRequest(j, J.req, yes, next)
    <2>1. J.req \in changes' /\ request'[J.req] = yes /\ job'[j] = next
      BY <1>1, <1>3, <1>6, <1>8, <1>9 DEF SaveRequest
    <2>2. RowOk(job[j])'
      BY <1>1, <1>2, <1>4, <1>5, <1>6, <1>9, <2>1 DEF RowOk, InForce
    <2>3. ~J.stale => yes.kind = request[J.req].kind
      BY <1>4, <1>6
    <2>4. QED
      BY <1>2, <1>3, <1>7, <1>9, <2>1, <2>2, <2>3, RowLeaves
  <1>10. CASE J.kind = "APPROVE" /\ ~J.row.here /\ SaveRequest(j, J.req, yes, Idle)
    <2>1. RowOk(job[j])'
      BY <1>7, <1>8, <1>10, NoRowOk
    <2>2. ~J.stale => yes.kind = request[J.req].kind /\ ~yes.here /\ ~InForce(J.req)
      BY <1>4, <1>6, <1>10
    <2>3. QED
      BY <1>2, <1>3, <1>7, <1>10, <2>1, <2>2, RowLeaves
  <1>11. CASE SaveRequest(j, J.req, no, Idle)
    <2>1. RowOk(job[j])'
      BY <1>7, <1>8, <1>11, NoRowOk
    <2>2. ~J.stale => no.kind = request[J.req].kind /\ no.state # "APPROVED" /\ ~InForce(J.req)
      BY <1>4, <1>6
    <2>3. QED
      BY <1>2, <1>3, <1>7, <1>11, <2>1, <2>2, RowLeaves
  <1>12. QED
    BY <1>2, <1>9, <1>10, <1>11

\* The owner's edit of a request in force moves it away, any other that touches the day
\* is queued.
LEMMA SaveEditLeaves ==
    ASSUME IInv, LeaveInv, NEW j \in Jobs, SaveEdit(j)
    PROVE  LeaveInv'
  <1> DEFINE old == job[j].row
             r == job[j].req
  <1>1. job[j].kind = "EDIT" /\ job[j].step = "ASKED"
    BY DEF SaveEdit, At
  <1>2. PICK here \in BOOLEAN, kind \in Shifts(old.kind) :
            /\ SaveRequest(j, r, [old EXCEPT !.here = here, !.kind = kind], Idle)
            /\ moved' = (moved \/ (old.state = "APPROVED" /\ old.here /\ ~here))
    BY DEF SaveEdit
  <1>3. job[j] \in JobRecord /\ RowOk(job[j])
    BY DEF IInv, TypeOK, LeaveInv, RowsOk
  <1>4. r \in Requests /\ old \in RequestRecord
    BY <1>3 DEF JobRecord
  <1>5. ~job[j].stale => old = request[r]
    BY <1>1, <1>3 DEF RowOk, RowJobs
  <1>6. kind = "COMPLAINT" <=> old.kind = "COMPLAINT"
    BY DEF Shifts
  <1> HIDE DEF old, r
  <1> DEFINE row == [old EXCEPT !.here = here, !.kind = kind]
  <1>7. row.kind = kind /\ row.state = old.state /\ row.here = here
    BY <1>4 DEF RequestRecord
  <1>8. SaveRequest(j, r, row, Idle)
    BY <1>2
  <1> HIDE DEF row
  <1>9. row.state = "APPROVED" /\ row.here => r \in changes'
    BY <1>8 DEF SaveRequest
  <1>10. ~job[j].stale /\ ~moved' =>
            /\ row.kind = "COMPLAINT" <=> request[r].kind = "COMPLAINT"
            /\ \/ r \in changes'
               \/ /\ (row.state = "APPROVED" /\ row.here) <=> InForce(r)
                  /\ InForce(r) => row.kind = request[r].kind
    BY <1>2, <1>5, <1>6, <1>7, <1>9 DEF InForce
  <1>11. job'[j] = Idle /\ Idle.kind \notin RowJobs
    BY <1>8, IdleFacts DEF SaveRequest, RowJobsAfter, RowJobs
  <1>12. RowOk(job[j])'
    BY <1>11, NoRowOk
  <1>13. ~IsHeld(job[j]) /\ ~IsHeld(Idle)
    BY <1>1, IdleFacts DEF IsHeld
  <1>14. moved => moved'
    BY <1>2
  <1>15. QED
    BY <1>4, <1>8, <1>10, <1>12, <1>13, <1>14, RowLeaves

LEMMA DeleteLeaves ==
    ASSUME IInv, LeaveInv, NEW r \in Requests, Delete(r)
    PROVE  LeaveInv'
  <1> DEFINE row == [request[r] EXCEPT !.state = "GONE"]
  <1>1. /\ request' = [request EXCEPT ![r] = row]
        /\ changes' = IF InForce(r) THEN changes \cup {r} ELSE changes
        /\ \A k \in Jobs : job'[k] = IF job[k].kind \in RowJobs /\ job[k].req = r
                                    THEN [job[k] EXCEPT !.stale = TRUE] ELSE job[k]
        /\ UNCHANGED <<exempted, entry, trampled, moved>>
    BY DEF Delete, IInv, TypeOK
  <1>2. TypeOK /\ request[r] \in RequestRecord
    BY DEF IInv, TypeOK
  <1>3. row.kind = request[r].kind /\ row.state = "GONE"
    BY <1>2 DEF RequestRecord
  <1> HIDE DEF row
  <1>4. \A q \in Requests : q # r => request'[q] = request[q]
    BY <1>1, <1>2 DEF TypeOK
  <1>5. RowsOk'
    BY <1>1, <1>2, <1>4, RowsStep DEF LeaveInv
  <1>6. \A k \in Jobs : Turns(job[k], job'[k])
    BY <1>1 DEF Turns
  <1>7. SameLeaves
    <2>1. changes \subseteq changes' /\ (r \in changes' \/ ~InForce(r))
      BY <1>1
    <2>2. QED
      BY <1>1, <1>2, <1>3, <2>1, LeavesAfter
  <1>8. CopiesOk' /\ ReasonInv'
    BY <1>1, <1>2, <1>6, <1>7, QuietStep DEF LeaveInv
  <1>9. QED
    BY <1>5, <1>8 DEF LeaveInv

\* A task has taken up the entry and computed its columns.
LEMMA ColumnsLoadLeaves ==
    ASSUME IInv, LeaveInv, NEW j \in Jobs, IsIdle(j), NEW kind \in {"CHANGE", "EXEMPTION"},
           NEW e \in EntryRecord, job' = [job EXCEPT ![j] = Loaded(kind, e)],
           UNCHANGED <<request, entry, exempted, trampled, moved>>,
           ~LeaveQueued' /\ (LeaveQueued \/ Right(entry.reason)) => Right(e.reason)
    PROVE  LeaveInv'
  <1> DEFINE K == Loaded(kind, e)
  <1>1. TypeOK /\ K.kind = kind /\ K.step = "LOADED" /\ K.entry = e
    BY LoadedFacts DEF IInv
  <1>2. job' = [job EXCEPT ![j] = K]
    OBVIOUS
  <1> HIDE DEF K
  <1>3. IsHeld(K) /\ WritesColumns(K)
    BY <1>1 DEF IsHeld, WritesColumns
  <1>4. CopiesOk' /\ ReasonInv'
    BY <1>1, <1>2, <1>3, ColumnsLoadStep DEF LeaveInv
  <1>5. \A k \in Jobs : job'[k] = IF k = j THEN K ELSE job[k]
    BY <1>1, <1>2 DEF TypeOK
  <1>6. RowOk(job[j])'
    BY <1>1, <1>5, NoRowOk DEF RowJobs
  <1>7. RowsOk'
    <2>1. PICK r \in Requests : TRUE
      BY TimesheetAssumption
    <2>2. QED
      BY <1>1, <1>5, <1>6, <2>1, RowsStep DEF LeaveInv
  <1>8. QED
    BY <1>4, <1>7 DEF LeaveInv

LEMMA ChangeLoadLeaves ==
    ASSUME IInv, LeaveInv, NEW j \in Jobs, NEW r \in Requests, ChangeLoad(j, r)
    PROVE  LeaveInv'
  <1> DEFINE x == IF request[r].kind = "COMPLAINT" THEN entry.reason ELSE LeaveReason
  <1> DEFINE base == IF request[r].kind = "COMPLAINT" THEN entry
                     ELSE [entry EXCEPT !.reason = LeaveReason]
  <1> DEFINE e == ComputeAll(base, FALSE)
  <1>1. /\ IsIdle(j) /\ changes' = changes \ {r}
        /\ job' = [job EXCEPT ![j] = Loaded("CHANGE", e)]
        /\ UNCHANGED <<request, entry, exempted, trampled, moved>>
    BY DEF ChangeLoad
  <1>2. /\ TypeOK /\ entry \in EntryRecord /\ EntryOk(entry, exempted)
        /\ request \in [Requests -> RequestRecord] /\ exempted \in BOOLEAN
    BY DEF IInv, TypeOK, EntryKept
  <1>3. base \in EntryRecord /\ base.exempt = entry.exempt /\ base.reason = x
    <2>1. LeaveReason \in Reasons
      BY <1>2, LeaveReasonTyped
    <2>2. QED
      BY <1>2, <2>1 DEF EntryRecord, Reasons
  <1>4. request[r].kind = "COMPLAINT" => (LeaveQueued => LeaveQueued')
    BY <1>1 DEF LeaveQueued
  <1>5. ~LeaveQueued' /\ (LeaveQueued \/ Right(entry.reason)) => Right(x)
    BY <1>2, <1>4, LeaveReasonRight
  <1> HIDE DEF base, x
  <1>6. e \in EntryRecord
    BY <1>2, <1>3, ComputeAllFacts
  <1>7. Right(x) => Right(e.reason)
    BY <1>2, <1>3, ComputedRight
  <1> HIDE DEF e
  <1>8. QED
    BY <1>1, <1>5, <1>6, <1>7, ColumnsLoadLeaves

LEMMA ExemptionLoadLeaves ==
    ASSUME IInv, LeaveInv, NEW j \in Jobs, ExemptionLoad(j)
    PROVE  LeaveInv'
  <1> DEFINE e == ComputeAll(entry, FALSE)
  <1>1. /\ IsIdle(j) /\ changes' = changes /\ job' = [job EXCEPT ![j] = Loaded("EXEMPTION", e)]
        /\ UNCHANGED <<request, entry, exempted, trampled, moved>>
    BY DEF ExemptionLoad
  <1>2. /\ TypeOK /\ entry \in EntryRecord /\ EntryOk(entry, exempted)
        /\ request \in [Requests -> RequestRecord] /\ exempted \in BOOLEAN
    BY DEF IInv, TypeOK, EntryKept
  <1>3. LeaveQueued => LeaveQueued'
    BY <1>1 DEF LeaveQueued
  <1>4. e \in EntryRecord
    BY <1>2, ComputeAllFacts
  <1>5. Right(entry.reason) => Right(e.reason)
    BY <1>2, ComputedRight
  <1> HIDE DEF e
  <1>6. QED
    BY <1>1, <1>3, <1>4, <1>5, ColumnsLoadLeaves

LEMMA StepLeaves ==
    ASSUME IInv, LeaveInv, [Next]_vars
    PROVE  LeaveInv'
  <1>1. ASSUME NEW j \in Jobs, Begin(j) PROVE LeaveInv'
    <2>1. ASSUME NEW n \in 0..2, Punch(j, n) PROVE LeaveInv'
      BY <2>1, PunchLeaves
    <2>2. CASE OpenEntry(j)
      <3>1. PICK kind \in {"CORRECT", "COMPUTE"} : LoadEntry(j, kind)
        BY <2>2 DEF OpenEntry
      <3>2. QED
        BY <3>1, LoadEntryLeaves
    <2>3. CASE OpenRequest(j)
      BY <2>3, OpenRequestLeaves
    <2>4. QED
      BY <1>1, <2>1, <2>2, <2>3 DEF Begin
  <1>2. ASSUME NEW j \in Jobs, Proceed(j) PROVE LeaveInv'
    <2>1. CASE SavePunch(j)
      BY <2>1, SavePunchLeaves
    <2>2. CASE SaveCorrection(j)
      BY <2>2, SaveCorrectionLeaves
    <2>3. ASSUME NEW fin \in BOOLEAN, SaveComputed(j, fin) PROVE LeaveInv'
      BY <2>3, SaveComputedLeaves
    <2>4. CASE Mark(j)
      BY <2>4, MarkLeaves
    <2>5. CASE Decide(j)
      BY <2>5, DecideLeaves
    <2>6. CASE SaveEdit(j)
      BY <2>6, SaveEditLeaves
    <2>7. CASE ExecuteLoad(j)
      BY <2>7, ExecuteLoadLeaves
    <2>8. CASE ExecuteFails(j)
      BY <2>8, ExecuteFailsLeaves
    <2>9. CASE ExecuteSave(j)
      BY <2>9, ExecuteSaveLeaves
    <2>10. ASSUME NEW r \in Requests, ChangeLoad(j, r) PROVE LeaveInv'
      BY <2>10, ChangeLoadLeaves
    <2>11. CASE ChangeWrite(j)
      BY <2>11, ChangeWriteLeaves
    <2>12. CASE ExemptionLoad(j)
      BY <2>12, ExemptionLoadLeaves
    <2>13. CASE ExemptionWrite(j)
      BY <2>13, ExemptionWriteLeaves
    <2>14. QED
      BY <1>2, <2>1, <2>2, <2>3, <2>4, <2>5, <2>6, <2>7, <2>8, <2>9, <2>10, <2>11,
         <2>12, <2>13 DEF Proceed
  <1>3. ASSUME NEW r \in Requests, Delete(r) PROVE LeaveInv'
    BY <1>3, DeleteLeaves
  <1>4. CASE Exempt
    BY <1>4, StillLeaves DEF Exempt
  <1>9. ASSUME NEW n \in 0..2, PunchMissed(n) PROVE LeaveInv'
    BY <1>9, StillLeaves DEF PunchMissed
  <1>5. CASE DayEnds
    BY <1>5, StillLeaves DEF DayEnds
  <1>6. CASE Refresh
    BY <1>6, StillLeaves DEF Refresh, RefreshRead, RefreshWrite
  <1>7. CASE UNCHANGED vars
    BY <1>7, StillLeaves DEF vars
  <1>8. QED
    BY <1>1, <1>2, <1>3, <1>4, <1>5, <1>6, <1>7, <1>9 DEF Next

LEMMA InitLeaves == Init => LeaveInv
  <1> SUFFICES ASSUME Init PROVE LeaveInv
    OBVIOUS
  <1>1. /\ entry = Blank /\ job = [j \in Jobs |-> Idle]
        /\ \A r \in Requests : request[r].state = "PENDING"
    BY DEF Init
  <1>2. \A j \in Jobs : ~IsHeld(job[j]) /\ RowOk(job[j])
    BY <1>1, IdleRowOk
  <1>3. RowsOk /\ CopiesOk
    BY <1>2 DEF RowsOk, CopiesOk, CopyOk
  <1>4. ActiveLeaves = {} /\ entry.reason = NoReason
    BY <1>1 DEF ActiveLeaves, InForce, Blank
  <1>5. Settled
    BY <1>2, <1>4 DEF Settled, Right, Wanted
  <1>6. QED
    BY <1>3, <1>5 DEF LeaveInv, ReasonInv

\* The invariant behind the next theorem: until two writers overlap, the reason is right,
\* or a change of a leave is queued, or a task is about to write the right reason.
THEOREM LeavesInvariant == Spec => [](IInv /\ LeaveInv)
  <1>1. IInv /\ LeaveInv /\ [Next]_vars => (IInv /\ LeaveInv)'
    BY StepKeeps, StepLeaves
  <1>2. QED
    BY <1>1, InitHolds, InitLeaves, PTL DEF Spec

\* At rest, a leave shows on the entry just when it is approved, for any requests and any
\* order of deciding, deleting, executing and recalculating, as long as nobody moved an
\* approved request and no writer worked from an old copy.
THEOREM ReasonsMatch == Spec => []ReasonMatches
  <1>1. LeaveInv => ReasonMatches
    <2> SUFFICES ASSUME LeaveInv, AtRest, ~trampled, ~moved
                 PROVE  Right(entry.reason)
      BY DEF ReasonMatches, Right, Backed, Wanted
    <2>1. \A j \in Jobs : ~IsHeld(job[j])
      BY DEF AtRest, IsIdle, IsHeld
    <2>2. Calm /\ ~LeaveQueued
      BY <2>1 DEF Calm, Doomed, LeaveQueued, AtRest
    <2>3. Settled
      BY <2>2 DEF LeaveInv, ReasonInv
    <2>4. QED
      BY <2>1, <2>3 DEF Settled
  <1>2. QED
    BY <1>1, LeavesInvariant, PTL

=============================================================================
