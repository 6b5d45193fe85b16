----------------------- MODULE PayrollLifecycleProofs -----------------------
(***************************************************************************)
(* Proofs about PayrollLifecycle for every number of months, employees and *)
(* tickets, and every bound on the queues.                                 *)
(***************************************************************************)
EXTENDS PayrollLifecycle, TLAPS

(* What calculate() does to one slip                                       *)

LEMMA UnpaidBoolean ==
    ASSUME NEW tickets, NEW k
    PROVE  UnpaidIn(tickets, k) \in BOOLEAN
  BY DEF UnpaidIn

LEMMA DefaultSlipType ==
    /\ DefaultSlip \in SlipRecord
    /\ DefaultSlip.status = "PENDING"
    /\ DefaultSlip.payment_period = NoPeriod
    /\ DefaultSlip.has_unpaid_penalty = FALSE
  BY DEF DefaultSlip, SlipRecord, SlipStatus


\* calculate() keeps the row well typed and the payment period, never releases
\* nor unpays a slip, and leaves READY only where nothing blocks.
LEMMA CalculateFacts ==
    ASSUME NEW s \in SlipRecord, NEW u \in BOOLEAN, NEW c \in BOOLEAN
    PROVE  LET r == Calculate(s, u, c)
           IN  /\ r \in SlipRecord
               /\ r.payment_period = s.payment_period
               /\ (r.status = "DELIVERED") = (s.status = "DELIVERED")
               /\ (r.status = "HOLD") = (s.status = "HOLD")
               /\ s.status = "DELIVERED" => r = s
               /\ s.status \in {"PENDING", "READY"}
                    => /\ r.status \in {"PENDING", "READY"}
                       /\ r.has_unpaid_penalty = u
                       /\ (r.status = "READY") = (c /\ ~u)
  <1>1. CASE s.status = "DELIVERED"
    BY <1>1 DEF Calculate, FinalStatus, SlipRecord, SlipStatus
  <1>2. CASE s.status = "HOLD"
    BY <1>2 DEF Calculate, FinalStatus, SlipRecord, SlipStatus
  <1>3. CASE s.status = "PENDING"
    BY <1>3 DEF Calculate, FinalStatus, SlipRecord, SlipStatus
  <1>4. CASE s.status = "READY"
    BY <1>4 DEF Calculate, FinalStatus, SlipRecord, SlipStatus
  <1>5. QED
    BY <1>1, <1>2, <1>3, <1>4 DEF SlipRecord, SlipStatus

\* The two other ways of writing a row.
LEMMA MarkedFacts ==
    ASSUME NEW s \in SlipRecord, NEW st \in SlipStatus
    PROVE  LET r == Marked(s, st)
           IN  /\ r \in SlipRecord
               /\ r.status = st
               /\ r.payment_period = s.payment_period
               /\ r.has_unpaid_penalty = s.has_unpaid_penalty
  BY DEF Marked, SlipRecord

LEMMA PaidFacts ==
    ASSUME NEW s \in SlipRecord, NEW p \in Months
    PROVE  LET r == Paid(s, p)
           IN  /\ r \in SlipRecord
               /\ r.status = "DELIVERED"
               /\ r.payment_period = p
               /\ r.has_unpaid_penalty = s.has_unpaid_penalty
  BY DEF Paid, SlipRecord, SlipStatus

-----------------------------------------------------------------------------
(* Type correctness                                                        *)

LEMMA SlipTyped ==
    ASSUME TypeOK, NEW k \in Keys, slip[k] # NoSlip
    PROVE  slip[k] \in SlipRecord
  BY DEF TypeOK

LEMMA SourceTyped == TypeOK => source \in [Keys -> BOOLEAN]
  BY DEF TypeOK

LEMMA RecalculatedTyped ==
    ASSUME TypeOK, NEW k \in Keys, Exists(k),
           NEW tickets, NEW sources \in [Keys -> BOOLEAN]
    PROVE  Recalculated(k, tickets, sources) \in SlipRecord
  <1>1. slip[k] \in SlipRecord
    BY SlipTyped DEF Exists
  <1>2. sources[k] \in BOOLEAN
    OBVIOUS
  <1>3. QED
    BY <1>1, <1>2, UnpaidBoolean, CalculateFacts DEF Recalculated

LEMMA FreshTyped ==
    ASSUME TypeOK, NEW k \in Keys
    PROVE  FreshSlip(k) \in SlipRecord
  <1>1. source[k] \in BOOLEAN
    BY DEF TypeOK
  <1>2. QED
    BY <1>1, UnpaidBoolean, DefaultSlipType, CalculateFacts DEF FreshSlip

\* The rows a creation writes are well typed.
LEMMA CreateRowsTyped ==
    ASSUME TypeOK, NEW m \in Months, NEW done, NEW half, CreateRows(m, done, half)
    PROVE  /\ period' \in [Months -> PeriodStatus]
           /\ slip' \in [Keys -> SlipRecord \cup {NoSlip}]
           /\ missed' \in [Keys -> BOOLEAN]
  <1>1. period' \in [Months -> PeriodStatus]
    BY DEF CreateRows, TypeOK, PeriodStatus
  <1>2. ASSUME NEW k \in Keys
        PROVE  slip'[k] \in SlipRecord \cup {NoSlip}
    BY <1>2, FreshTyped, DefaultSlipType DEF CreateRows, TypeOK
  <1>3. missed' \in [Keys -> BOOLEAN]
    BY DEF CreateRows, TypeOK
  <1>4. QED
    BY <1>1, <1>2, <1>3 DEF CreateRows

LEMMA TypeInit == Init => TypeOK
  BY LifecycleAssumption DEF Init, TypeOK, PeriodStatus

LEMMA TypePeriod ==
    ASSUME TypeOK, NEW m \in Months, PeriodNext(m)
    PROVE  TypeOK'
  <1>1. CASE RequestCreate(m)
    BY <1>1 DEF RequestCreate, periodVars, TypeOK
  <1>2. CASE CreateTask(m)
    <2>1. createQ' \in [Months -> Nat]
      BY <1>2 DEF CreateTask, TypeOK
    <2>2. /\ period' \in [Months -> PeriodStatus]
          /\ slip' \in [Keys -> SlipRecord \cup {NoSlip}]
          /\ missed' \in [Keys -> BOOLEAN]
      BY <1>2, CreateRowsTyped DEF CreateTask, TypeOK
    <2>3. QED
      BY <1>2, <2>1, <2>2 DEF CreateTask, TypeOK
  <1>3. CASE AutoGenerate(m)
    <2>1. /\ period' \in [Months -> PeriodStatus]
          /\ slip' \in [Keys -> SlipRecord \cup {NoSlip}]
          /\ missed' \in [Keys -> BOOLEAN]
      BY <1>3, CreateRowsTyped DEF AutoGenerate
    <2>2. QED
      BY <1>3, <2>1 DEF AutoGenerate, TypeOK, queueVars
  <1>4. CASE Complete(m)
    <2>1. ASSUME NEW k \in Keys
          PROVE  slip'[k] \in SlipRecord \cup {NoSlip}
      BY <1>4, <2>1, SlipTyped, PaidFacts DEF Complete, TypeOK
    <2>2. QED
      BY <1>4, <2>1 DEF Complete, TypeOK, PeriodStatus, queueVars
  <1>5. CASE Uncomplete(m)
    BY <1>5 DEF Uncomplete, TypeOK, PeriodStatus, queueVars
  <1>6. CASE RecalculatePeriod(m)
    <2>1. ASSUME NEW k \in Keys
          PROVE  slip'[k] \in SlipRecord \cup {NoSlip}
      BY <1>6, <2>1, RecalculatedTyped DEF RecalculatePeriod, TypeOK, Exists
    <2>2. QED
      BY <1>6, <2>1 DEF RecalculatePeriod, TypeOK, periodVars, queueVars
  <1>7. QED
    BY <1>1, <1>2, <1>3, <1>4, <1>5, <1>6 DEF PeriodNext

LEMMA TypeSlip ==
    ASSUME TypeOK, NEW k \in Keys, SlipNext(k)
    PROVE  TypeOK'
  <1>1. CASE JoinPeriod(k)
    BY <1>1, FreshTyped, DefaultSlipType
    DEF JoinPeriod, TypeOK, periodVars, queueVars
  <1>2. CASE Hold(k) \/ MarkReady(k) \/ Deliver(k)
    <2>1. slip' \in [Keys -> SlipRecord \cup {NoSlip}]
      BY <1>2, SlipTyped, MarkedFacts
      DEF Hold, MarkReady, Deliver, Exists, TypeOK, SlipStatus
    <2>2. missed' \in [Keys -> BOOLEAN]
      BY <1>2 DEF Hold, MarkReady, Deliver, TypeOK
    <2>3. QED
      BY <1>2, <2>1, <2>2 DEF Hold, MarkReady, Deliver, TypeOK, periodVars, queueVars
  <1>3. CASE Unhold(k) \/ RecalculateSlip(k)
    <2>1. Recalculated(k, ticket, source) \in SlipRecord
      BY <1>3, RecalculatedTyped, SourceTyped DEF Unhold, RecalculateSlip
    <2>2. QED
      BY <1>3, <2>1 DEF Unhold, RecalculateSlip, TypeOK, periodVars, queueVars
  <1>4. CASE RecalculateTask(k) \/ RecalculateTaskLost(k)
    <2>1. recalcQ' \in [Keys -> Nat]
      BY <1>4 DEF RecalculateTask, RecalculateTaskLost, TypeOK
    <2>2. slip' \in [Keys -> SlipRecord \cup {NoSlip}]
      BY <1>4, RecalculatedTyped DEF RecalculateTask, RecalculateTaskLost, TypeOK
    <2>3. missed' \in [Keys -> BOOLEAN]
      BY <1>4 DEF RecalculateTask, RecalculateTaskLost, TypeOK, Exists
    <2>4. QED
      BY <1>4, <2>1, <2>2, <2>3
      DEF RecalculateTask, RecalculateTaskLost, TypeOK, periodVars
  <1>5. CASE SourceDrifts(k) \/ \E present \in BOOLEAN : SaveSource(k, present)
    <2>1. recalcQ' \in [Keys -> Nat]
      BY <1>5 DEF SourceDrifts, SaveSource, Enqueue, TypeOK, queueVars
    <2>2. source' \in [Keys -> BOOLEAN] /\ missed' \in [Keys -> BOOLEAN]
      BY <1>5 DEF SourceDrifts, SaveSource, Exists, TypeOK
    <2>3. QED
      BY <1>5, <2>1, <2>2 DEF SourceDrifts, SaveSource, TypeOK, periodVars, queueVars
  <1>6. QED
    BY <1>1, <1>2, <1>3, <1>4, <1>5 DEF SlipNext

LEMMA TypeTicket ==
    ASSUME TypeOK, NEW t \in Tickets, TicketNext(t)
    PROVE  TypeOK'
  <1>1. ASSUME NEW st \in {"PAID", "UNPAID"}, UpdateStatus(t, st)
        PROVE  TypeOK'
    <2>1. ticket[t] \in TicketRecord
      BY <1>1 DEF UpdateStatus, TypeOK
    <2>2. ticket[t].key \in Keys
      BY <2>1 DEF TicketRecord
    <2>3. ticket' \in [Tickets -> TicketRecord \cup {NoTicket}]
      BY <1>1, <2>1 DEF UpdateStatus, TypeOK, TicketRecord
    <2>4. slip' \in [Keys -> SlipRecord \cup {NoSlip}]
      BY <1>1, <2>2, RecalculatedTyped, SourceTyped DEF UpdateStatus, TypeOK
    <2>5. recalcQ' \in [Keys -> Nat]
      BY <1>1, <2>2 DEF UpdateStatus, TypeOK, Enqueue
    <2>6. missed' \in [Keys -> BOOLEAN]
      BY <1>1, <2>2 DEF UpdateStatus, TypeOK, Exists
    <2>7. QED
      BY <1>1, <2>3, <2>4, <2>5, <2>6 DEF UpdateStatus, TypeOK, periodVars
  <1>2. ASSUME NEW st \in {"PAID", "UNPAID"}, NEW k \in Keys,
               CreateTicket(t, st, k)
        PROVE  TypeOK'
    BY <1>2 DEF CreateTicket, Enqueue, TypeOK, TicketRecord, periodVars
  <1>3. ASSUME NEW st \in {"PAID", "UNPAID"}, NEW k \in Keys,
               PatchTicket(t, st, k)
        PROVE  TypeOK'
    <2>1. missed' \in [Keys -> BOOLEAN]
      BY <1>3 DEF PatchTicket, TypeOK
    <2>2. ticket' \in [Tickets -> TicketRecord \cup {NoTicket}]
      BY <1>3 DEF PatchTicket, TypeOK, TicketRecord
    <2>3. QED
      BY <1>3, <2>1, <2>2 DEF PatchTicket, TypeOK, periodVars, queueVars
  <1>4. CASE DeleteTicket(t)
    BY <1>4 DEF DeleteTicket, TypeOK, Exists, periodVars, queueVars
  <1>5. QED
    BY <1>1, <1>2, <1>3, <1>4 DEF TicketNext

LEMMA TypeStep == TypeOK /\ [Next]_vars => TypeOK'
  <1>1. CASE UNCHANGED vars
    BY <1>1 DEF vars, TypeOK
  <1>2. CASE Next
    BY <1>2, TypePeriod, TypeSlip, TypeTicket DEF Next
  <1>3. QED
    BY <1>1, <1>2

\* Every reachable state is well typed: in particular a slip row never holds a
\* status outside its four choices, whichever handler wrote it last.
THEOREM TypeCorrect == Spec => []TypeOK
  BY TypeInit, TypeStep, PTL DEF Spec

-----------------------------------------------------------------------------
(* What one step may do to one slip                                        *)

\* The ways a row is written, whoever writes it.
SlipStep(k) ==
    \/ slip'[k] = slip[k]
    \/ slip[k] = NoSlip /\ slip'[k] = DefaultSlip
    \/ slip[k] = NoSlip /\ \E u, c \in BOOLEAN : slip'[k] = Calculate(DefaultSlip, u, c)
    \/ slip[k] # NoSlip /\ \E u, c \in BOOLEAN : slip'[k] = Calculate(slip[k], u, c)
    \/ slip[k] # NoSlip /\ slip[k].status # "HOLD" /\ slip'[k] = Marked(slip[k], "HOLD")
    \/ /\ slip[k] # NoSlip /\ slip[k].status \in {"HOLD", "READY"}
       /\ ~slip[k].has_unpaid_penalty
       /\ slip'[k] = Marked(slip[k], "READY")
    \/ /\ slip[k] # NoSlip /\ slip[k].status = "READY"
       /\ slip'[k] = Marked(slip[k], "DELIVERED")
    \/ /\ slip[k] # NoSlip /\ slip[k].status = "READY"
       /\ \E p \in Months : slip'[k] = Paid(slip[k], p)

LEMMA RecalculatedStep ==
    ASSUME NEW k \in Keys, NEW tickets, NEW sources \in [Keys -> BOOLEAN]
    PROVE  \E u, c \in BOOLEAN :
              Recalculated(k, tickets, sources) = Calculate(slip[k], u, c)
  <1>1. sources[k] \in BOOLEAN
    OBVIOUS
  <1>2. QED
    BY <1>1, UnpaidBoolean DEF Recalculated

LEMMA FreshStep ==
    ASSUME TypeOK, NEW k \in Keys
    PROVE  \E u, c \in BOOLEAN : FreshSlip(k) = Calculate(DefaultSlip, u, c)
  <1>1. source[k] \in BOOLEAN
    BY DEF TypeOK
  <1>2. QED
    BY <1>1, UnpaidBoolean DEF FreshSlip

\* A creation finds no slip of its month: rows of slips need the row of the period.
SlipHasPeriod == \A k \in Keys : slip[k] # NoSlip => period[Month(k)] # "NONE"

LEMMA MonthOfKey == \A k \in Keys : Month(k) \in Months
  BY DEF Keys, Month

LEMMA CreateRowsStep ==
    ASSUME TypeOK, SlipHasPeriod, NEW m \in Months, period[m] = "NONE",
           NEW done, NEW half, CreateRows(m, done, half), NEW k \in Keys
    PROVE  SlipStep(k)
  <1>1. CASE Month(k) # m
    BY <1>1 DEF CreateRows, SlipStep
  <1>2. CASE Month(k) = m
    <2>1. slip[k] = NoSlip
      BY <1>2 DEF SlipHasPeriod
    <2>2. slip'[k] \in {FreshSlip(k), DefaultSlip, slip[k]}
      BY <1>2 DEF CreateRows
    <2>3. QED
      BY <2>1, <2>2, FreshStep DEF SlipStep
  <1>3. QED
    BY <1>1, <1>2

LEMMA PeriodSlipStep ==
    ASSUME TypeOK, SlipHasPeriod, NEW m \in Months, PeriodNext(m), NEW k \in Keys
    PROVE  SlipStep(k)
  <1>1. CASE RequestCreate(m) \/ Uncomplete(m)
    BY <1>1 DEF RequestCreate, Uncomplete, SlipStep
  <1>2. CASE CreateTask(m) \/ AutoGenerate(m)
    BY <1>2, CreateRowsStep DEF CreateTask, AutoGenerate, SlipStep
  <1>3. CASE Complete(m)
    BY <1>3 DEF Complete, SlipStep
  <1>4. CASE RecalculatePeriod(m)
    BY <1>4, RecalculatedStep, SourceTyped DEF RecalculatePeriod, SlipStep
  <1>5. QED
    BY <1>1, <1>2, <1>3, <1>4 DEF PeriodNext

LEMMA OneSlipStep ==
    ASSUME TypeOK, NEW j \in Keys, SlipNext(j), NEW k \in Keys
    PROVE  SlipStep(k)
  <1>1. slip \in [Keys -> SlipRecord \cup {NoSlip}]
    BY DEF TypeOK
  <1>2. CASE JoinPeriod(j)
    BY <1>1, <1>2, FreshStep DEF JoinPeriod, Exists, SlipStep
  <1>3. CASE Hold(j)
    BY <1>1, <1>3 DEF Hold, Exists, SlipStep
  <1>4. CASE MarkReady(j)
    BY <1>1, <1>4 DEF MarkReady, Exists, SlipStep
  <1>5. CASE Deliver(j)
    BY <1>1, <1>5 DEF Deliver, Exists, SlipStep
  <1>6. CASE Unhold(j) \/ RecalculateSlip(j)
    BY <1>1, <1>6, RecalculatedStep, SourceTyped
    DEF Unhold, RecalculateSlip, Exists, SlipStep
  <1>7. CASE RecalculateTask(j) \/ RecalculateTaskLost(j)
    BY <1>1, <1>7, RecalculatedStep, SourceTyped
    DEF RecalculateTask, RecalculateTaskLost, Exists, SlipStep
  <1>8. CASE SourceDrifts(j) \/ \E present \in BOOLEAN : SaveSource(j, present)
    BY <1>8 DEF SourceDrifts, SaveSource, SlipStep
  <1>9. QED
    BY <1>2, <1>3, <1>4, <1>5, <1>6, <1>7, <1>8 DEF SlipNext

LEMMA TicketSlipStep ==
    ASSUME TypeOK, NEW t \in Tickets, TicketNext(t), NEW k \in Keys
    PROVE  SlipStep(k)
  <1>1. slip \in [Keys -> SlipRecord \cup {NoSlip}]
    BY DEF TypeOK
  <1>2. ASSUME NEW st \in {"PAID", "UNPAID"}, UpdateStatus(t, st)
        PROVE  SlipStep(k)
    <2>1. ticket[t].key \in Keys
      BY <1>2 DEF UpdateStatus, TypeOK, TicketRecord
    <2>2. QED
      BY <1>1, <1>2, <2>1, RecalculatedStep, SourceTyped
      DEF UpdateStatus, Exists, SlipStep
  <1>3. ASSUME NEW st \in {"PAID", "UNPAID"}, NEW j \in Keys,
               CreateTicket(t, st, j) \/ PatchTicket(t, st, j)
        PROVE  SlipStep(k)
    BY <1>3 DEF CreateTicket, PatchTicket, SlipStep
  <1>4. CASE DeleteTicket(t)
    BY <1>4 DEF DeleteTicket, SlipStep
  <1>5. QED
    BY <1>2, <1>3, <1>4 DEF TicketNext

LEMMA EveryStep ==
    ASSUME TypeOK, SlipHasPeriod, [Next]_vars, NEW k \in Keys
    PROVE  SlipStep(k)
  <1>1. CASE UNCHANGED vars
    BY <1>1 DEF vars, SlipStep
  <1>2. CASE Next
    BY <1>2, PeriodSlipStep, OneSlipStep, TicketSlipStep DEF Next
  <1>3. QED
    BY <1>1, <1>2

-----------------------------------------------------------------------------
(* The inductive invariant                                                 *)

IInv == /\ TypeOK
        /\ SlipHasPeriod
        /\ PayableUnblocked
        /\ PaidInCompletedPeriod
        /\ SlipsInSync

LEMMA InvInit == Init => IInv
  <1> SUFFICES ASSUME Init PROVE IInv
    OBVIOUS
  <1>1. \A k \in Keys : slip[k] = NoSlip
    BY DEF Init
  <1>2. SlipHasPeriod /\ PayableUnblocked /\ PaidInCompletedPeriod
    BY <1>1 DEF SlipHasPeriod, PayableUnblocked, PaidInCompletedPeriod
  <1>3. SlipsInSync
    BY <1>1 DEF SlipsInSync, Settled
  <1>4. TypeOK
    BY TypeInit
  <1>5. QED
    BY <1>2, <1>3, <1>4 DEF IInv

\* A period never disappears, and one that was completed stays so or is marked.
LEMMA PeriodKept ==
    ASSUME TypeOK, [Next]_vars, NEW p \in Months
    PROVE  /\ period[p] # "NONE" => period'[p] # "NONE"
           /\ period[p] = "COMPLETED" \/ (period[p] = "ONGOING" /\ uncompleted[p])
                => period'[p] = "COMPLETED" \/ (period'[p] = "ONGOING" /\ uncompleted'[p])
  <1> USE DEF TypeOK
  <1>1. CASE UNCHANGED vars
    BY <1>1 DEF vars
  <1>2. ASSUME NEW m \in Months, PeriodNext(m)
        PROVE  \/ period'[p] = period[p] /\ uncompleted'[p] = uncompleted[p]
               \/ period[p] = "NONE"
               \/ period'[p] = "COMPLETED"
               \/ period'[p] = "ONGOING" /\ uncompleted'[p]
    <2>1. CASE RequestCreate(m) \/ RecalculatePeriod(m)
      BY <2>1 DEF RequestCreate, RecalculatePeriod, periodVars
    <2>2. CASE CreateTask(m) \/ AutoGenerate(m)
      BY <2>2 DEF CreateTask, AutoGenerate, CreateRows
    <2>3. CASE Complete(m)
      BY <2>3 DEF Complete
    <2>4. CASE Uncomplete(m)
      BY <2>4 DEF Uncomplete
    <2>5. QED
      BY <1>2, <2>1, <2>2, <2>3, <2>4 DEF PeriodNext
  <1>3. ASSUME NEW k \in Keys, SlipNext(k)
        PROVE  UNCHANGED periodVars
    BY <1>3 DEF SlipNext, JoinPeriod, Hold, Unhold, MarkReady, Deliver, RecalculateSlip,
                RecalculateTask, RecalculateTaskLost, SaveSource, SourceDrifts
  <1>4. ASSUME NEW t \in Tickets, TicketNext(t)
        PROVE  UNCHANGED periodVars
    BY <1>4 DEF TicketNext, UpdateStatus, CreateTicket, PatchTicket, DeleteTicket
  <1>5. QED
    BY <1>1, <1>2, <1>3, <1>4 DEF Next, periodVars

\* Only the creation of its period or an open period lets a slip appear.
LEMMA SlipHasPeriodStep ==
    ASSUME TypeOK, SlipHasPeriod, [Next]_vars
    PROVE  SlipHasPeriod'
  <1> SUFFICES ASSUME NEW k \in Keys, slip'[k] # NoSlip
               PROVE  period'[Month(k)] # "NONE"
    BY DEF SlipHasPeriod
  <1>1. CASE slip[k] # NoSlip
    BY <1>1, MonthOfKey, PeriodKept DEF SlipHasPeriod
  <1>2. CASE slip[k] = NoSlip
    <2>1. CASE UNCHANGED vars
      BY <1>2, <2>1 DEF vars
    <2>2. ASSUME NEW m \in Months, PeriodNext(m)
          PROVE  period'[Month(k)] # "NONE"
      BY <1>2, <2>2, MonthOfKey
      DEF PeriodNext, RequestCreate, CreateTask, AutoGenerate, CreateRows,
          Complete, Uncomplete, RecalculatePeriod, TypeOK
    <2>3. ASSUME NEW j \in Keys, SlipNext(j)
          PROVE  period'[Month(k)] # "NONE"
      <3>1. slip'[k] = slip[k] \/ (k = j /\ JoinPeriod(j))
        BY <1>2, <2>3
        DEF SlipNext, JoinPeriod, Hold, Unhold, MarkReady, Deliver, RecalculateSlip,
            RecalculateTask, RecalculateTaskLost, SaveSource, SourceDrifts, Exists, TypeOK
      <3>2. QED
        BY <1>2, <3>1 DEF JoinPeriod, periodVars
    <2>4. ASSUME NEW t \in Tickets, TicketNext(t)
          PROVE  slip'[k] = slip[k]
      BY <1>2, <2>4
      DEF TicketNext, UpdateStatus, CreateTicket, PatchTicket, DeleteTicket, Exists, TypeOK
    <2>5. QED
      BY <1>2, <2>1, <2>2, <2>3, <2>4 DEF Next
  <1>3. QED
    BY <1>1, <1>2

\* READY and DELIVERED are reached unflagged, and the flag of such a row changes
\* only together with its status.
LEMMA PayableStep ==
    ASSUME TypeOK, SlipHasPeriod, PayableUnblocked, [Next]_vars
    PROVE  PayableUnblocked'
  <1> SUFFICES ASSUME NEW k \in Keys, slip'[k] # NoSlip,
                      slip'[k].status \in {"READY", "DELIVERED"}
               PROVE  ~slip'[k].has_unpaid_penalty
    BY DEF PayableUnblocked
  <1>1. SlipStep(k)
    BY EveryStep
  <1>2. CASE slip[k] = NoSlip
    <2>1. slip'[k] = DefaultSlip \/ \E u, c \in BOOLEAN : slip'[k] = Calculate(DefaultSlip, u, c)
      BY <1>1, <1>2 DEF SlipStep
    <2>2. ASSUME NEW u \in BOOLEAN, NEW c \in BOOLEAN, slip'[k] = Calculate(DefaultSlip, u, c)
          PROVE  ~slip'[k].has_unpaid_penalty
      BY <2>2, DefaultSlipType, CalculateFacts
    <2>3. QED
      BY <2>1, <2>2, DefaultSlipType
  <1>3. CASE slip[k] # NoSlip
    <2>1. slip[k] \in SlipRecord
      BY <1>3, SlipTyped
    <2>2. CASE slip'[k] = slip[k]
      BY <1>3, <2>2 DEF PayableUnblocked
    <2>3. ASSUME NEW u \in BOOLEAN, NEW c \in BOOLEAN, slip'[k] = Calculate(slip[k], u, c)
          PROVE  ~slip'[k].has_unpaid_penalty
      <3>1. CASE slip[k].status = "DELIVERED"
        BY <1>3, <2>1, <2>3, <3>1, CalculateFacts DEF PayableUnblocked
      <3>2. CASE slip[k].status = "HOLD"
        BY <2>1, <2>3, <3>2, CalculateFacts
      <3>3. CASE slip[k].status \in {"PENDING", "READY"}
        BY <2>1, <2>3, <3>3, CalculateFacts
      <3>4. QED
        BY <2>1, <3>1, <3>2, <3>3 DEF SlipRecord, SlipStatus
    <2>4. ASSUME slip[k].status = "READY" \/ ~slip[k].has_unpaid_penalty,
                 \E st \in SlipStatus : slip'[k] = Marked(slip[k], st)
          PROVE  ~slip'[k].has_unpaid_penalty
      BY <1>3, <2>1, <2>4, MarkedFacts DEF PayableUnblocked
    <2>5. ASSUME slip[k].status = "READY", NEW p \in Months, slip'[k] = Paid(slip[k], p)
          PROVE  ~slip'[k].has_unpaid_penalty
      BY <1>3, <2>1, <2>5, PaidFacts DEF PayableUnblocked
    <2>6. slip'[k] # Marked(slip[k], "HOLD")
      BY <2>1, MarkedFacts DEF SlipStatus
    <2>7. QED
      BY <1>1, <1>3, <2>2, <2>3, <2>4, <2>5, <2>6 DEF SlipStep, SlipStatus
  <1>4. QED
    BY <1>2, <1>3

\* Only complete() writes payment_period, with the period it completes.
LEMMA PaymentWritten ==
    ASSUME TypeOK, SlipHasPeriod, [Next]_vars, NEW k \in Keys,
           slip'[k] # NoSlip, slip'[k].payment_period # NoPeriod
    PROVE  \/ slip[k] # NoSlip /\ slip[k].payment_period = slip'[k].payment_period
           \/ \E m \in Months : Complete(m) /\ slip'[k].payment_period = m
  <1>1. ASSUME NEW m \in Months, Complete(m), slip'[k] # slip[k]
        PROVE  slip'[k].payment_period = m
    BY <1>1, SlipTyped, PaidFacts DEF Complete
  <1>2. CASE \E m \in Months : Complete(m)
    BY <1>1, <1>2
  <1>3. CASE ~\E m \in Months : Complete(m)
    <2>1. SlipStep(k)
      BY EveryStep
    <2>2. slip[k] # NoSlip => slip'[k].payment_period = slip[k].payment_period
      <3>1. ASSUME NEW m \in Months, PeriodNext(m), slip[k] # NoSlip
            PROVE  slip'[k].payment_period = slip[k].payment_period
        <4>1. CASE RequestCreate(m) \/ Uncomplete(m)
          BY <4>1 DEF RequestCreate, Uncomplete
        <4>2. CASE CreateTask(m) \/ AutoGenerate(m)
          BY <3>1, <4>2 DEF CreateTask, AutoGenerate, CreateRows, SlipHasPeriod
        <4>3. CASE RecalculatePeriod(m)
          <5>1. slip'[k] = slip[k] \/ \E u, c \in BOOLEAN : slip'[k] = Calculate(slip[k], u, c)
            BY <4>3, RecalculatedStep, SourceTyped DEF RecalculatePeriod
          <5>2. QED
            BY <3>1, <5>1, SlipTyped, CalculateFacts
        <4>4. QED
          BY <1>3, <3>1, <4>1, <4>2, <4>3 DEF PeriodNext
      <3>2. ASSUME NEW j \in Keys, SlipNext(j), slip[k] # NoSlip
            PROVE  slip'[k].payment_period = slip[k].payment_period
        <4>1. \/ slip'[k] = slip[k]
              \/ \E u, c \in BOOLEAN : slip'[k] = Calculate(slip[k], u, c)
              \/ \E st \in SlipStatus : slip'[k] = Marked(slip[k], st)
          BY <3>2, RecalculatedStep, SourceTyped
          DEF SlipNext, JoinPeriod, Hold, Unhold, MarkReady, Deliver, RecalculateSlip,
              RecalculateTask, RecalculateTaskLost, SaveSource, SourceDrifts, Exists,
              TypeOK, SlipStatus
        <4>2. QED
          BY <3>2, <4>1, SlipTyped, CalculateFacts, MarkedFacts
      <3>3. ASSUME NEW t \in Tickets, TicketNext(t), slip[k] # NoSlip
            PROVE  slip'[k].payment_period = slip[k].payment_period
        <4>1. \/ slip'[k] = slip[k]
              \/ \E u, c \in BOOLEAN : slip'[k] = Calculate(slip[k], u, c)
          <5>1. ASSUME NEW st, UpdateStatus(t, st)
                PROVE  \/ slip'[k] = slip[k]
                       \/ \E u, c \in BOOLEAN : slip'[k] = Calculate(slip[k], u, c)
            <6>1. ticket[t].key \in Keys
              BY <5>1 DEF UpdateStatus, TypeOK, TicketRecord
            <6>2. slip \in [Keys -> SlipRecord \cup {NoSlip}]
              BY DEF TypeOK
            <6>3. QED
              BY <5>1, <6>1, <6>2, RecalculatedStep, SourceTyped DEF UpdateStatus
          <5>2. QED
            BY <3>3, <5>1 DEF TicketNext, CreateTicket, PatchTicket, DeleteTicket
        <4>2. QED
          BY <3>3, <4>1, SlipTyped, CalculateFacts
      <3>4. CASE UNCHANGED vars
        BY <3>4 DEF vars
      <3>5. CASE Next
        BY <3>1, <3>2, <3>3, <3>5 DEF Next
      <3>6. QED
        BY <3>4, <3>5
    <2>3. QED
      <3>1. CASE slip[k] = NoSlip
        <4>1. slip'[k] = DefaultSlip \/ \E u, c \in BOOLEAN : slip'[k] = Calculate(DefaultSlip, u, c)
          BY <2>1, <3>1 DEF SlipStep
        <4>2. slip'[k].payment_period = NoPeriod
          BY <4>1, DefaultSlipType, CalculateFacts
        <4>3. QED
          BY <4>2
      <3>2. CASE slip[k] # NoSlip
        BY <2>2, <3>2
      <3>3. QED
        BY <3>1, <3>2
  <1>4. QED
    BY <1>2, <1>3

LEMMA PaidStep ==
    ASSUME TypeOK, SlipHasPeriod, PaidInCompletedPeriod, [Next]_vars
    PROVE  PaidInCompletedPeriod'
  <1> SUFFICES ASSUME NEW k \in Keys, slip'[k] # NoSlip, slip'[k].payment_period # NoPeriod,
                      NEW p, p = slip'[k].payment_period
               PROVE  period'[p] = "COMPLETED" \/ (period'[p] = "ONGOING" /\ uncompleted'[p])
    BY DEF PaidInCompletedPeriod
  <1>1. CASE slip[k] # NoSlip /\ slip[k].payment_period = p
    <2>1. p \in Months
      BY <1>1, SlipTyped DEF SlipRecord
    <2>2. period[p] = "COMPLETED" \/ (period[p] = "ONGOING" /\ uncompleted[p])
      BY <1>1 DEF PaidInCompletedPeriod
    <2>3. QED
      BY <2>1, <2>2, PeriodKept
  <1>2. CASE \E m \in Months : Complete(m) /\ p = m
    BY <1>2 DEF Complete, TypeOK
  <1>3. QED
    BY <1>1, <1>2, PaymentWritten

-----------------------------------------------------------------------------
(* Slips stay in sync with their inputs                                    *)

Sync(k) == Settled(k) => InSync(k)

\* Nothing that matters to slip k happens, or only things that excuse it.
LEMMA SyncKept ==
    ASSUME NEW k \in Keys, Sync(k), slip'[k] = slip[k],
           UnpaidIn(ticket', k) = UnpaidIn(ticket, k), source'[k] = source[k],
           missed[k] => missed'[k], recalcQ[k] # 0 => recalcQ'[k] # 0
    PROVE  Sync(k)'
  BY DEF Sync, Settled, InSync

LEMMA SyncExcused ==
    ASSUME NEW k \in Keys,
           \/ slip'[k] = NoSlip \/ slip'[k].status \in {"HOLD", "DELIVERED"}
           \/ missed'[k] \/ recalcQ'[k] # 0
    PROVE  Sync(k)'
  BY DEF Sync, Settled

\* calculate() on the values stored brings the slip in sync.
LEMMA SyncCalculated ==
    ASSUME NEW k \in Keys, NEW s \in SlipRecord, source'[k] \in BOOLEAN,
           slip'[k] = Calculate(s, UnpaidIn(ticket', k), source'[k])
    PROVE  Sync(k)'
  <1>1. CASE s.status \in {"HOLD", "DELIVERED"}
    <2>1. slip'[k].status \in {"HOLD", "DELIVERED"}
      BY <1>1, UnpaidBoolean, CalculateFacts
    <2>2. QED
      BY <2>1, SyncExcused
  <1>2. CASE s.status \in {"PENDING", "READY"}
    BY <1>2, UnpaidBoolean, CalculateFacts DEF Sync, InSync
  <1>3. QED
    BY <1>1, <1>2 DEF SlipRecord, SlipStatus

LEMMA SyncRecalculated ==
    ASSUME TypeOK, NEW k \in Keys, Exists(k), UNCHANGED source,
           slip'[k] = Recalculated(k, ticket', source)
    PROVE  Sync(k)'
  <1>1. slip[k] \in SlipRecord
    BY SlipTyped DEF Exists
  <1>2. source'[k] \in BOOLEAN
    BY DEF TypeOK
  <1>3. QED
    BY <1>1, <1>2, SyncCalculated DEF Recalculated

LEMMA SyncCreated ==
    ASSUME TypeOK, NEW k \in Keys, UNCHANGED <<ticket, source>>, slip'[k] = FreshSlip(k)
    PROVE  Sync(k)'
  <1>1. source'[k] \in BOOLEAN
    BY DEF TypeOK
  <1>2. QED
    BY <1>1, DefaultSlipType, SyncCalculated DEF FreshSlip

LEMMA SyncRows ==
    ASSUME TypeOK, SlipsInSync, NEW m \in Months, NEW done, NEW half,
           CreateRows(m, done, half), UNCHANGED <<ticket, source, recalcQ>>, NEW k \in Keys
    PROVE  Sync(k)'
  <1> USE DEF SlipsInSync, Sync
  <1>1. CASE slip'[k] = FreshSlip(k)
    BY <1>1, SyncCreated
  <1>2. CASE slip'[k] = slip[k] /\ missed'[k] = missed[k]
    BY <1>2, SyncKept
  <1>3. CASE missed'[k]
    BY <1>3, SyncExcused
  <1>4. QED
    BY <1>1, <1>2, <1>3 DEF CreateRows

LEMMA SyncPeriod ==
    ASSUME TypeOK, SlipsInSync, NEW m \in Months, PeriodNext(m), NEW k \in Keys
    PROVE  Sync(k)'
  <1>0. Sync(k)
    BY DEF SlipsInSync, Sync
  <1>1. CASE RequestCreate(m) \/ Uncomplete(m)
    BY <1>0, <1>1, SyncKept DEF RequestCreate, Uncomplete, queueVars
  <1>2. CASE CreateTask(m) \/ AutoGenerate(m)
    BY <1>0, <1>2, SyncRows, SyncKept DEF CreateTask, AutoGenerate, queueVars
  <1>3. CASE Complete(m)
    <2>1. CASE slip'[k] = slip[k]
      BY <1>0, <1>3, <2>1, SyncKept DEF Complete, queueVars
    <2>2. CASE slip'[k] # slip[k]
      <3>1. slip[k] # NoSlip /\ slip'[k] = Paid(slip[k], m)
        BY <1>3, <2>2 DEF Complete
      <3>2. slip'[k].status = "DELIVERED"
        BY <3>1, SlipTyped, PaidFacts
      <3>3. QED
        BY <3>2, SyncExcused
    <2>3. QED
      BY <2>1, <2>2
  <1>4. CASE RecalculatePeriod(m)
    <2>1. CASE Month(k) = m /\ slip[k] # NoSlip
      BY <1>4, <2>1, SyncRecalculated DEF RecalculatePeriod, Exists
    <2>2. CASE ~(Month(k) = m /\ slip[k] # NoSlip)
      BY <1>0, <1>4, <2>2, SyncKept DEF RecalculatePeriod, queueVars, TypeOK
    <2>3. QED
      BY <2>1, <2>2
  <1>5. QED
    BY <1>1, <1>2, <1>3, <1>4 DEF PeriodNext

LEMMA SyncSlip ==
    ASSUME TypeOK, SlipsInSync, NEW j \in Keys, SlipNext(j), NEW k \in Keys
    PROVE  Sync(k)'
  <1>0. Sync(k)
    BY DEF SlipsInSync, Sync
  <1> USE DEF TypeOK
  <1>1. CASE k # j
    BY <1>0, <1>1, SyncKept
    DEF SlipNext, JoinPeriod, Hold, Unhold, MarkReady, Deliver, RecalculateSlip,
        RecalculateTask, RecalculateTaskLost, SaveSource, SourceDrifts, Enqueue, queueVars
  <1>2. CASE k = j
    <2>1. CASE JoinPeriod(j)
      <3>1. CASE slip'[k] = FreshSlip(k)
        BY <2>1, <3>1, SyncCreated DEF JoinPeriod
      <3>2. CASE missed'[k]
        BY <3>2, SyncExcused
      <3>3. QED
        BY <1>2, <2>1, <3>1, <3>2 DEF JoinPeriod
    <2>2. CASE Hold(j) \/ Deliver(j)
      <3>1. slip'[k].status \in {"HOLD", "DELIVERED"}
        BY <1>2, <2>2, SlipTyped, MarkedFacts DEF Hold, Deliver, Exists, SlipStatus
      <3>2. QED
        BY <3>1, SyncExcused
    <2>3. CASE MarkReady(j)
      <3>1. CASE slip[k].status = "HOLD"
        <4>1. missed'[k]
          BY <1>2, <2>3, <3>1 DEF MarkReady
        <4>2. QED
          BY <4>1, SyncExcused
      <3>2. CASE slip[k].status = "READY"
        <4>1. /\ slip[k] # NoSlip /\ slip'[k] # NoSlip
              /\ slip'[k].status = slip[k].status
              /\ slip'[k].has_unpaid_penalty = slip[k].has_unpaid_penalty
          BY <1>2, <2>3, <3>2, SlipTyped, MarkedFacts, LifecycleAssumption
          DEF MarkReady, Exists, SlipStatus
        <4>2. missed'[k] = missed[k]
          BY <1>2, <2>3, <3>2 DEF MarkReady
        <4>3. UNCHANGED <<ticket, source, recalcQ>>
          BY <2>3 DEF MarkReady, queueVars
        <4>4. QED
          BY <1>0, <4>1, <4>2, <4>3 DEF Sync, Settled, InSync, UnpaidIn
      <3>3. QED
        BY <1>2, <2>3, <3>1, <3>2 DEF MarkReady
    <2>4. CASE Unhold(j) \/ RecalculateSlip(j)
      BY <1>2, <2>4, SyncRecalculated DEF Unhold, RecalculateSlip
    <2>5. CASE RecalculateTask(j)
      <3>1. CASE Exists(j) /\ period[Month(j)] = "ONGOING"
        BY <1>2, <2>5, <3>1, SyncRecalculated DEF RecalculateTask
      <3>2. CASE ~(Exists(j) /\ period[Month(j)] = "ONGOING")
        <4>1. missed'[k] \/ slip'[k] = NoSlip
          BY <1>2, <2>5, <3>2 DEF RecalculateTask, Exists
        <4>2. QED
          BY <4>1, SyncExcused
      <3>3. QED
        BY <3>1, <3>2
    <2>6. CASE RecalculateTaskLost(j) \/ SourceDrifts(j)
      <3>1. missed'[k] \/ slip'[k] = NoSlip
        BY <1>2, <2>6 DEF RecalculateTaskLost, SourceDrifts, Exists
      <3>2. QED
        BY <3>1, SyncExcused
    <2>7. CASE \E present \in BOOLEAN : SaveSource(j, present)
      <3>1. recalcQ'[k] # 0
        BY <1>2, <2>7 DEF SaveSource, Enqueue
      <3>2. QED
        BY <3>1, SyncExcused
    <2>8. QED
      BY <2>1, <2>2, <2>3, <2>4, <2>5, <2>6, <2>7 DEF SlipNext
  <1>3. QED
    BY <1>1, <1>2

\* Writing one ticket leaves the answer for other keys alone.
LEMMA UnpaidElsewhere ==
    ASSUME NEW t \in Tickets, NEW k \in Keys,
           \A u \in Tickets \ {t} : ticket'[u] = ticket[u],
           ticket[t] = NoTicket \/ ticket[t].key # k,
           ticket'[t] = NoTicket \/ ticket'[t].key # k
    PROVE  UnpaidIn(ticket', k) = UnpaidIn(ticket, k)
  <1>1. [status |-> "UNPAID", key |-> k] # NoTicket
    BY LifecycleAssumption DEF TicketRecord
  <1>2. /\ ticket[t] # [status |-> "UNPAID", key |-> k]
        /\ ticket'[t] # [status |-> "UNPAID", key |-> k]
    BY <1>1
  <1>3. QED
    BY <1>2 DEF UnpaidIn

LEMMA SyncTicket ==
    ASSUME TypeOK, SlipsInSync, NEW t \in Tickets, TicketNext(t), NEW k \in Keys
    PROVE  Sync(k)'
  <1>0. Sync(k)
    BY DEF SlipsInSync, Sync
  <1> USE DEF TypeOK
  <1>1. ASSUME NEW st \in {"PAID", "UNPAID"}, UpdateStatus(t, st)
        PROVE  Sync(k)'
    <2>1. ticket[t].key \in Keys
      BY <1>1 DEF UpdateStatus, TicketRecord
    <2>2. CASE k # ticket[t].key
      <3>1. UnpaidIn(ticket', k) = UnpaidIn(ticket, k)
        BY <1>1, <2>2, UnpaidElsewhere DEF UpdateStatus
      <3>2. QED
        BY <1>0, <1>1, <2>1, <2>2, <3>1, SyncKept DEF UpdateStatus, Enqueue
    <2>3. CASE k = ticket[t].key
      <3>1. CASE recalcQ'[k] = recalcQ[k] + 1
        BY <3>1, SyncExcused
      <3>2. CASE Exists(k) /\ slip'[k] = Recalculated(k, ticket', source)
        BY <1>1, <3>2, SyncRecalculated DEF UpdateStatus
      <3>3. CASE slip'[k] = slip[k] /\ missed'[k] = Exists(k)
        <4>1. missed'[k] \/ slip'[k] = NoSlip
          BY <3>3 DEF Exists
        <4>2. QED
          BY <4>1, SyncExcused
      <3>4. QED
        BY <1>1, <2>3, <3>1, <3>2, <3>3 DEF UpdateStatus, Enqueue
    <2>4. QED
      BY <2>2, <2>3
  <1>2. ASSUME NEW st \in {"PAID", "UNPAID"}, NEW j \in Keys, CreateTicket(t, st, j)
        PROVE  Sync(k)'
    <2>1. CASE k = j
      <3>1. recalcQ'[k] # 0
        BY <1>2, <2>1 DEF CreateTicket, Enqueue
      <3>2. QED
        BY <3>1, SyncExcused
    <2>2. CASE k # j
      <3>1. UnpaidIn(ticket', k) = UnpaidIn(ticket, k)
        BY <1>2, <2>2, UnpaidElsewhere DEF CreateTicket
      <3>2. QED
        BY <1>0, <1>2, <2>2, <3>1, SyncKept DEF CreateTicket, Enqueue
    <2>3. QED
      BY <2>1, <2>2
  <1>3. ASSUME NEW st \in {"PAID", "UNPAID"}, NEW j \in Keys, PatchTicket(t, st, j)
        PROVE  Sync(k)'
    <2>1. CASE UnpaidIn(ticket', k) = UnpaidIn(ticket, k)
      BY <1>0, <1>3, <2>1, SyncKept DEF PatchTicket, queueVars
    <2>2. CASE UnpaidIn(ticket', k) # UnpaidIn(ticket, k)
      <3>1. missed'[k] \/ slip'[k] = NoSlip
        BY <1>3, <2>2 DEF PatchTicket, Exists
      <3>2. QED
        BY <3>1, SyncExcused
    <2>3. QED
      BY <2>1, <2>2
  <1>4. CASE DeleteTicket(t)
    <2>1. CASE k = ticket[t].key
      <3>1. missed'[k] \/ slip'[k] = NoSlip
        BY <1>4, <2>1 DEF DeleteTicket, Exists
      <3>2. QED
        BY <3>1, SyncExcused
    <2>2. CASE k # ticket[t].key
      <3>1. UnpaidIn(ticket', k) = UnpaidIn(ticket, k)
        BY <1>4, <2>2, UnpaidElsewhere DEF DeleteTicket
      <3>2. QED
        BY <1>0, <1>4, <2>2, <3>1, SyncKept DEF DeleteTicket, queueVars
    <2>3. QED
      BY <2>1, <2>2
  <1>5. QED
    BY <1>1, <1>2, <1>3, <1>4 DEF TicketNext

LEMMA SyncStep ==
    ASSUME TypeOK, SlipsInSync, [Next]_vars
    PROVE  SlipsInSync'
  <1> SUFFICES ASSUME NEW k \in Keys PROVE Sync(k)'
    BY DEF SlipsInSync, Sync
  <1>1. CASE UNCHANGED vars
    BY <1>1, SyncKept DEF vars, SlipsInSync, Sync
  <1>2. CASE Next
    BY <1>2, SyncPeriod, SyncSlip, SyncTicket DEF Next
  <1>3. QED
    BY <1>1, <1>2

-----------------------------------------------------------------------------
(* The theorems                                                            *)

LEMMA InvStep == IInv /\ [Next]_vars => IInv'
  BY TypeStep, SlipHasPeriodStep, PayableStep, PaidStep, SyncStep DEF IInv

LEMMA Invariant == Spec => []IInv
  BY InvInit, InvStep, PTL DEF Spec

\* Whatever the number of months, employees and tickets, no order of requests and
\* tasks makes a slip payable, or paid, while its unpaid-penalty flag is set.
THEOREM PayableAlwaysUnblocked == Spec => []PayableUnblocked
  <1>1. IInv => PayableUnblocked
    BY DEF IInv
  <1>2. QED
    BY <1>1, Invariant, PTL

\* payment_period always names a period complete() closed, reopened or not.
THEOREM PaidOnlyInCompletedPeriod == Spec => []PaidInCompletedPeriod
  <1>1. IInv => PaidInCompletedPeriod
    BY DEF IInv
  <1>2. QED
    BY <1>1, Invariant, PTL

\* The signal handlers leave no gap but the ones "missed" records: every other
\* computed slip agrees with the tickets, contracts and timesheets stored.
THEOREM SlipsStayInSync == Spec => []SlipsInSync
  <1>1. IInv => SlipsInSync
    BY DEF IInv
  <1>2. QED
    BY <1>1, Invariant, PTL

-----------------------------------------------------------------------------
(* PayrollLifecycle implements SlipStatusFlow                              *)

LEMMA FlowStart == Init => Flow!Start
  BY DEF Init, Flow!Start

\* What SlipStatusFlow sees of slip k, before and after a step.
St(k) == IF slip[k] = NoSlip THEN "NONE" ELSE slip[k].status
Pp(k) == IF slip[k] = NoSlip THEN NoPeriod ELSE slip[k].payment_period
Bl(k) == slip[k] # NoSlip /\ slip[k].has_unpaid_penalty

\* One transition of the flow, over those three.
FlowStep(k) ==
    \/ /\ St(k) \in {"NONE", "PENDING", "READY"}
       /\ St(k)' \in {"PENDING", "READY"} /\ (St(k)' = "READY" => ~Bl(k)')
       /\ Pp(k)' = Pp(k)
    \/ St(k) = "HOLD" /\ St(k)' = "HOLD" /\ Pp(k)' = Pp(k)
    \/ /\ St(k) \in {"PENDING", "READY", "DELIVERED"} /\ St(k)' = "HOLD"
       /\ Pp(k)' = Pp(k) /\ Bl(k)' = Bl(k)
    \/ /\ St(k) = "HOLD" /\ ~Bl(k) /\ St(k)' = "READY"
       /\ Pp(k)' = Pp(k) /\ Bl(k)' = Bl(k)
    \/ /\ St(k) = "READY" /\ ~Bl(k) /\ St(k)' = "DELIVERED"
       /\ Pp(k)' \in Months \cup {Pp(k)} /\ Bl(k)' = Bl(k)
    \/ St(k)' = St(k) /\ Pp(k)' = Pp(k) /\ Bl(k)' = Bl(k)

LEMMA FlowOfSteps == (\A k \in Keys : FlowStep(k)) => Flow!Move
  <1> SUFFICES ASSUME \A j \in Keys : FlowStep(j), NEW k \in Keys
               PROVE  \/ Flow!Appear(k) \/ Flow!Recompute(k) \/ Flow!RecomputeHeld(k)
                      \/ Flow!Freeze(k) \/ Flow!Release(k) \/ Flow!Pay(k) \/ Flow!Rest(k)
    BY DEF Flow!Move
  <1>1. FlowStep(k)
    OBVIOUS
  <1>2. QED
    BY <1>1
    DEF FlowStep, St, Pp, Bl, Flow!Appear, Flow!Recompute, Flow!RecomputeHeld,
        Flow!Freeze, Flow!Release, Flow!Pay, Flow!Rest, Flow!Computed

\* A row that a step leaves is a row: no step deletes one.
LEMMA RowsStay ==
    ASSUME TypeOK, NEW k \in Keys, SlipStep(k), slip[k] # NoSlip
    PROVE  slip'[k] # NoSlip
  <1>1. slip[k] \in SlipRecord
    BY SlipTyped
  <1>2. slip'[k] \in SlipRecord
    BY <1>1, CalculateFacts, MarkedFacts, PaidFacts DEF SlipStep, SlipStatus
  <1>3. QED
    BY <1>2, LifecycleAssumption

LEMMA FlowOfSlip ==
    ASSUME TypeOK, PayableUnblocked, NEW k \in Keys, SlipStep(k)
    PROVE  FlowStep(k)
  <1>1. CASE slip[k] = NoSlip
    <2>1. CASE slip'[k] = NoSlip
      BY <1>1, <2>1 DEF FlowStep, St, Pp, Bl
    <2>2. CASE slip'[k] # NoSlip
      <3>1. slip'[k] = DefaultSlip \/ \E u, c \in BOOLEAN : slip'[k] = Calculate(DefaultSlip, u, c)
        BY <1>1, <2>2 DEF SlipStep
      <3>2. /\ slip'[k].status \in {"PENDING", "READY"}
            /\ slip'[k].status = "READY" => ~slip'[k].has_unpaid_penalty
            /\ slip'[k].payment_period = NoPeriod
        BY <3>1, DefaultSlipType, CalculateFacts
      <3>3. QED
        BY <1>1, <2>2, <3>2 DEF FlowStep, St, Pp, Bl
    <2>3. QED
      BY <2>1, <2>2
  <1>2. CASE slip[k] # NoSlip
    <2>1. slip[k] \in SlipRecord
      BY <1>2, SlipTyped
    <2>2. slip'[k] # NoSlip
      BY <1>2, RowsStay
    <2>3. slip[k].status = "READY" => ~slip[k].has_unpaid_penalty
      BY <1>2 DEF PayableUnblocked
    <2> USE DEF FlowStep, St, Pp, Bl
    <2>4. CASE slip'[k] = slip[k]
      BY <1>2, <2>4
    <2>5. ASSUME NEW u \in BOOLEAN, NEW c \in BOOLEAN, slip'[k] = Calculate(slip[k], u, c)
          PROVE  FlowStep(k)
      <3>1. CASE slip[k].status = "DELIVERED"
        BY <1>2, <2>1, <2>5, <3>1, CalculateFacts
      <3>2. CASE slip[k].status = "HOLD"
        <4>1. slip'[k].status = "HOLD" /\ slip'[k].payment_period = slip[k].payment_period
          BY <2>1, <2>5, <3>2, CalculateFacts
        <4>2. QED
          BY <1>2, <2>2, <3>2, <4>1
      <3>3. CASE slip[k].status \in {"PENDING", "READY"}
        <4>1. /\ slip'[k].status \in {"PENDING", "READY"}
              /\ slip'[k].status = "READY" => ~slip'[k].has_unpaid_penalty
              /\ slip'[k].payment_period = slip[k].payment_period
          BY <2>1, <2>5, <3>3, CalculateFacts
        <4>2. QED
          BY <1>2, <2>2, <3>3, <4>1
      <3>4. QED
        BY <2>1, <3>1, <3>2, <3>3 DEF SlipRecord, SlipStatus
    <2>6. ASSUME slip[k].status # "HOLD", slip'[k] = Marked(slip[k], "HOLD")
          PROVE  FlowStep(k)
      <3>1. /\ slip'[k].status = "HOLD"
            /\ slip'[k].payment_period = slip[k].payment_period
            /\ slip'[k].has_unpaid_penalty = slip[k].has_unpaid_penalty
        BY <2>1, <2>6, MarkedFacts DEF SlipStatus
      <3>2. slip[k].status \in {"PENDING", "READY", "DELIVERED"}
        BY <2>1, <2>6 DEF SlipRecord, SlipStatus
      <3>3. QED
        BY <1>2, <2>2, <3>1, <3>2
    <2>7. ASSUME slip[k].status \in {"HOLD", "READY"}, ~slip[k].has_unpaid_penalty,
                 slip'[k] = Marked(slip[k], "READY")
          PROVE  FlowStep(k)
      <3>1. /\ slip'[k].status = "READY"
            /\ slip'[k].payment_period = slip[k].payment_period
            /\ slip'[k].has_unpaid_penalty = slip[k].has_unpaid_penalty
        BY <2>1, <2>7, MarkedFacts DEF SlipStatus
      <3>2. QED
        BY <1>2, <2>2, <2>7, <3>1
    <2>8. ASSUME slip[k].status = "READY",
                 \/ slip'[k] = Marked(slip[k], "DELIVERED")
                 \/ \E p \in Months : slip'[k] = Paid(slip[k], p)
          PROVE  FlowStep(k)
      <3>1. /\ slip'[k].status = "DELIVERED"
            /\ slip'[k].payment_period \in Months \cup {slip[k].payment_period}
            /\ slip'[k].has_unpaid_penalty = slip[k].has_unpaid_penalty
        BY <2>1, <2>8, MarkedFacts, PaidFacts DEF SlipStatus
      <3>2. QED
        BY <1>2, <2>2, <2>3, <2>8, <3>1
    <2>9. QED
      BY <1>2, <2>4, <2>5, <2>6, <2>7, <2>8 DEF SlipStep
  <1>3. QED
    BY <1>1, <1>2

LEMMA FlowNext == IInv /\ [Next]_vars => Flow!Move
  <1> SUFFICES ASSUME IInv, [Next]_vars PROVE Flow!Move
    OBVIOUS
  <1>1. TypeOK /\ SlipHasPeriod /\ PayableUnblocked
    BY DEF IInv
  <1>2. QED
    BY <1>1, EveryStep, FlowOfSlip, FlowOfSteps

\* For every set of employees and number of months, each slip follows the flow
\* PENDING/READY, HOLD, DELIVERED that the rest of the company relies on.
THEOREM SlipsImplementFlow == Spec => SlipsFollowFlow
  BY FlowStart, FlowNext, Invariant, PTL DEF Spec, SlipsFollowFlow, Flow!Spec
=============================================================================
