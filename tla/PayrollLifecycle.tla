-------------------------- MODULE PayrollLifecycle --------------------------
(***************************************************************************)
(* Salary periods, payroll slips and penalty tickets of apps/payroll.      *)
(*                                                                         *)
(* Every HTTP request and every Celery task is one step here: the module   *)
(* says what the business rules do when handlers do not overlap.           *)
(* PayrollRaces.tla splits the same handlers into database statements.     *)
(***************************************************************************)
EXTENDS Naturals, FiniteSets

CONSTANTS
    Employees,      \* employees that may own a slip
    Tickets,        \* identities of penalty tickets
    LastMonth,      \* months are 1..LastMonth
    MaxQueued,      \* bound on equal recalculation tasks waiting in the broker
    MaxCreations,   \* bound on creation tasks of one month waiting in the broker
    NoSlip,         \* there is no PayrollSlip row
    NoTicket        \* there is no PenaltyTicket row

Months   == 1 .. LastMonth
NoPeriod == 0       \* payment_period IS NULL
Keys     == Months \X Employees
Month(k) == k[1]

PeriodStatus == {"NONE", "ONGOING", "COMPLETED"}
SlipStatus   == {"PENDING", "READY", "HOLD", "DELIVERED"}

SlipRecord == [status : SlipStatus,
               payment_period : Months \cup {NoPeriod},
               has_unpaid_penalty : BOOLEAN]

TicketRecord == [status : {"PAID", "UNPAID"}, key : Keys]

ASSUME LifecycleAssumption ==
    /\ LastMonth \in Nat
    /\ MaxQueued \in Nat
    /\ MaxCreations \in Nat
    /\ NoSlip \notin SlipRecord
    /\ NoTicket \notin TicketRecord

VARIABLES
    period,       \* [Months -> PeriodStatus], "NONE" when the row is absent
    uncompleted,  \* [Months -> BOOLEAN], uncompleted_at IS NOT NULL
    slip,         \* [Keys -> SlipRecord or NoSlip], unique(salary_period, employee)
    ticket,       \* [Tickets -> TicketRecord or NoTicket]
    source,       \* [Keys -> BOOLEAN], an active contract and a timesheet exist
    createQ,      \* [Months -> Nat], create_salary_period_task in the broker
    recalcQ,      \* [Keys -> Nat], recalculate_payroll_slip_task in the broker
    missed        \* [Keys -> BOOLEAN], history: the slip exists and an input of its
                  \* calculate() changed, or its status was set by
                  \* hand, with no recalculation sent

periodVars == <<period, uncompleted>>
queueVars  == <<createQ, recalcQ>>
vars == <<period, uncompleted, slip, ticket, source, createQ, recalcQ, missed>>

-----------------------------------------------------------------------------
(* Helpers                                                                 *)

Exists(k) == slip[k] # NoSlip

UnpaidIn(tickets, k) ==
    \E t \in Tickets : tickets[t] = [status |-> "UNPAID", key |-> k]

\* _determine_final_status(): the branch for a DELIVERED slip is never reached.
FinalStatus(unpaid, complete) == IF unpaid \/ ~complete THEN "PENDING" ELSE "READY"

\* Mutant: no early return for a delivered slip.
CalculateDelivered(s, unpaid, complete) ==
    [status |-> IF s.status = "HOLD" THEN "HOLD" ELSE FinalStatus(unpaid, complete),
     payment_period |-> s.payment_period,
     has_unpaid_penalty |-> unpaid]

\* PayrollCalculationService.calculate() on slip s, given its inputs.
Calculate(s, unpaid, complete) ==
    IF s.status = "DELIVERED"
      THEN s
      ELSE [status |-> IF s.status = "HOLD" THEN "HOLD" ELSE FinalStatus(unpaid, complete),
            payment_period |-> s.payment_period,
            has_unpaid_penalty |-> unpaid]

\* Slip k after calculate() reads the tickets and sources stored.
Recalculated(k, tickets, sources) ==
    Calculate(slip[k], UnpaidIn(tickets, k), sources[k])

\* The other ways a row changes: its status is set, or it is paid in period p.
Marked(s, st) == [s EXCEPT !.status = st]
Paid(s, p)    == [s EXCEPT !.status = "DELIVERED", !.payment_period = p]

\* A new row: status and flag have the model's defaults.
DefaultSlip == [status |-> "PENDING", payment_period |-> NoPeriod,
                has_unpaid_penalty |-> FALSE]

FreshSlip(k) == Calculate(DefaultSlip, UnpaidIn(ticket, k), source[k])

\* check_period_is_editable()
Editable(m) == period[m] # "COMPLETED"

Room(k) == recalcQ[k] < MaxQueued

Enqueue(k) == /\ Room(k)
                 /\ recalcQ' = [recalcQ EXCEPT ![k] = @ + 1]

-----------------------------------------------------------------------------
(* Creating a salary period                                                *)

\* SalaryPeriodViewSet.create(): the rules are checked in the request, the
\* rows are written by a task.
RequestCreate(m) ==
    /\ period[m] = "NONE"
    /\ \A p \in Months : p < m => period[p] # "ONGOING"
    /\ createQ[m] < MaxCreations
    /\ createQ' = [createQ EXCEPT ![m] = @ + 1]
    /\ UNCHANGED <<periodVars, slip, ticket, source, recalcQ, missed>>

\* The rows a creation leaves: slips of "done" are calculated, "half" holds the
\* slip whose calculation raised, which ends the loop; nothing is rolled back.
CreateRows(m, done, half) ==
    /\ period' = [period EXCEPT ![m] = "ONGOING"]
    /\ slip' = [k \in Keys |-> IF Month(k) # m THEN slip[k]
                               ELSE IF k[2] \in done THEN FreshSlip(k)
                               ELSE IF k[2] \in half THEN DefaultSlip
                               ELSE slip[k]]
    /\ missed' = [k \in Keys |-> IF Month(k) # m THEN missed[k]
                                 ELSE IF k[2] \in done THEN FALSE
                                 ELSE IF k[2] \in half THEN TRUE
                                 ELSE missed[k]]

\* create_salary_period_task: a duplicate month raises inside the task, which
\* swallows it.
CreateTask(m) ==
    /\ createQ[m] > 0
    /\ createQ' = [createQ EXCEPT ![m] = @ - 1]
    /\ \/ /\ period[m] = "NONE"
          /\ \E done \in SUBSET Employees :
               \E half \in {{}} \cup {{e} : e \in Employees \ done} :
                 CreateRows(m, done, half)
       \/ /\ period[m] # "NONE"
          /\ UNCHANGED <<period, slip, missed>>
    /\ UNCHANGED <<uncompleted, ticket, source, recalcQ>>

\* auto_generate_salary_period: looks at the closest earlier period only.
AutoGenerate(m) ==
    /\ period[m] = "NONE"
    /\ \A p \in Months :
         (p < m /\ \A q \in Months : p < q /\ q < m => period[q] = "NONE")
            => period[p] # "ONGOING"
    /\ \E done \in SUBSET Employees :
         \E half \in {{}} \cup {{e} : e \in Employees \ done} :
           CreateRows(m, done, half)
    /\ UNCHANGED <<uncompleted, ticket, source, queueVars>>

\* create_assessments_for_new_employee: the employee joins an open period.
JoinPeriod(k) ==
    /\ period[Month(k)] = "ONGOING"
    /\ ~Exists(k)
    /\ \/ /\ slip' = [slip EXCEPT ![k] = FreshSlip(k)]
          /\ missed' = [missed EXCEPT ![k] = FALSE]
       \/ /\ slip' = [slip EXCEPT ![k] = DefaultSlip]
          /\ missed' = [missed EXCEPT ![k] = TRUE]
    /\ UNCHANGED <<periodVars, ticket, source, queueVars>>

-----------------------------------------------------------------------------
(* Completing and reopening a period                                       *)

\* SalaryPeriod.complete(): every READY slip of every period is paid here.
Complete(p) ==
    /\ period[p] # "NONE"
    /\ slip' = [k \in Keys |->
                  IF slip[k] # NoSlip /\ slip[k].status = "READY"
                    THEN Paid(slip[k], p) ELSE slip[k]]
    /\ period' = [period EXCEPT ![p] = "COMPLETED"]
    /\ UNCHANGED <<uncompleted, ticket, source, queueVars, missed>>

\* Mutant: uncompleted_at is not set.
UncompleteUnmarked(p) ==
    /\ period[p] = "COMPLETED"
    /\ \A q \in Months : q > p => period[q] = "NONE"
    /\ period' = [period EXCEPT ![p] = "ONGOING"]
    /\ UNCHANGED <<uncompleted, slip, ticket, source, queueVars, missed>>

\* SalaryPeriod.uncomplete()
Uncomplete(p) ==
    /\ period[p] = "COMPLETED"
    /\ \A q \in Months : q > p => period[q] = "NONE"
    /\ period' = [period EXCEPT ![p] = "ONGOING"]
    /\ uncompleted' = [uncompleted EXCEPT ![p] = TRUE]
    /\ UNCHANGED <<slip, ticket, source, queueVars, missed>>

-----------------------------------------------------------------------------
(* Operations on one slip                                                  *)

\* PayrollSlip.hold()
Hold(k) ==
    /\ Exists(k) /\ slip[k].status # "HOLD"
    /\ slip' = [slip EXCEPT ![k] = Marked(@, "HOLD")]
    /\ UNCHANGED <<periodVars, ticket, source, queueVars, missed>>

\* PayrollSlip.unhold(): clears the reason, then calculates; the status is
\* still HOLD when calculate() looks at it.
Unhold(k) ==
    /\ Exists(k) /\ slip[k].status = "HOLD"
    /\ slip' = [slip EXCEPT ![k] = Recalculated(k, ticket, source)]
    /\ missed' = [missed EXCEPT ![k] = FALSE]
    /\ UNCHANGED <<periodVars, ticket, source, queueVars>>

\* Mutant: has_unpaid_penalty is not checked.
MarkReadyUnchecked(k) ==
    /\ Exists(k) /\ slip[k].status \in {"HOLD", "READY"}
    /\ slip' = [slip EXCEPT ![k] = Marked(@, "READY")]
    /\ missed' = [missed EXCEPT ![k] = @ \/ slip[k].status = "HOLD"]
    /\ UNCHANGED <<periodVars, ticket, source, queueVars>>

\* PayrollSlipViewSet.ready(): trusts the stored flag, recalculates nothing.
MarkReady(k) ==
    /\ Exists(k) /\ slip[k].status \in {"HOLD", "READY"}
    /\ ~slip[k].has_unpaid_penalty
    /\ slip' = [slip EXCEPT ![k] = Marked(@, "READY")]
    /\ missed' = [missed EXCEPT ![k] = @ \/ slip[k].status = "HOLD"]
    /\ UNCHANGED <<periodVars, ticket, source, queueVars>>

\* PayrollSlipViewSet.deliver(): leaves payment_period as it is.
Deliver(k) ==
    /\ Exists(k) /\ slip[k].status = "READY"
    /\ slip' = [slip EXCEPT ![k] = Marked(@, "DELIVERED")]
    /\ UNCHANGED <<periodVars, ticket, source, queueVars, missed>>

\* PayrollSlipViewSet.recalculate(): whatever the status of the period.
RecalculateSlip(k) ==
    /\ Exists(k)
    /\ slip' = [slip EXCEPT ![k] = Recalculated(k, ticket, source)]
    /\ missed' = [missed EXCEPT ![k] = FALSE]
    /\ UNCHANGED <<periodVars, ticket, source, queueVars>>

\* recalculate_salary_period_task; the task checks the status again, so its
\* wait in the broker adds nothing.
RecalculatePeriod(p) ==
    /\ period[p] = "ONGOING"
    /\ slip' = [k \in Keys |-> IF Month(k) = p /\ slip[k] # NoSlip
                                 THEN Recalculated(k, ticket, source)
                                 ELSE slip[k]]
    /\ missed' = [k \in Keys |-> missed[k] /\ ~(Month(k) = p /\ slip[k] # NoSlip)]
    /\ UNCHANGED <<periodVars, ticket, source, queueVars>>

\* Mutant: the task ends before calculate().
RecalculateTaskSkips(k) ==
    /\ recalcQ[k] > 0
    /\ recalcQ' = [recalcQ EXCEPT ![k] = @ - 1]
    /\ UNCHANGED <<periodVars, slip, ticket, source, createQ, missed>>

\* recalculate_payroll_slip_task
RecalculateTask(k) ==
    /\ recalcQ[k] > 0
    /\ recalcQ' = [recalcQ EXCEPT ![k] = @ - 1]
    /\ \/ /\ period[Month(k)] = "ONGOING" /\ Exists(k)
          /\ slip' = [slip EXCEPT ![k] = Recalculated(k, ticket, source)]
          /\ missed' = [missed EXCEPT ![k] = FALSE]
       \/ /\ ~(period[Month(k)] = "ONGOING" /\ Exists(k))
          /\ missed' = [missed EXCEPT ![k] = Exists(k)]
          /\ UNCHANGED slip
    /\ UNCHANGED <<periodVars, ticket, source, createQ>>

\* Mutant: a task is counted off that nobody sent.
RecalculateTaskUnsent(k) ==
    /\ recalcQ' = [recalcQ EXCEPT ![k] = @ - 1]
    /\ missed' = [missed EXCEPT ![k] = Exists(k)]
    /\ UNCHANGED <<periodVars, slip, ticket, source, createQ>>

\* The task is acknowledged before it runs: an exception of calculate() or the
\* death of the worker loses it.
RecalculateTaskLost(k) ==
    /\ recalcQ[k] > 0
    /\ recalcQ' = [recalcQ EXCEPT ![k] = @ - 1]
    /\ missed' = [missed EXCEPT ![k] = Exists(k)]
    /\ UNCHANGED <<periodVars, slip, ticket, source, createQ>>

-----------------------------------------------------------------------------
(* Penalty tickets                                                         *)

\* Mutant: the post_save handler ignores "created".
CreateTicketSilently(t, st, k) ==
    /\ ticket[t] = NoTicket
    /\ Editable(Month(k))
    /\ ticket' = [ticket EXCEPT ![t] = [status |-> st, key |-> k]]
    /\ UNCHANGED <<periodVars, slip, source, queueVars, missed>>

\* PenaltyTicketViewSet.create()
CreateTicket(t, st, k) ==
    /\ ticket[t] = NoTicket
    /\ Editable(Month(k))
    /\ ticket' = [ticket EXCEPT ![t] = [status |-> st, key |-> k]]
    /\ Enqueue(k)
    /\ UNCHANGED <<periodVars, slip, source, createQ, missed>>

\* BulkUpdateStatusSerializer.bulk_update_status() on one ticket, and the
\* post_save handler it triggers (save(update_fields=[..., "status", ...])).
UpdateStatus(t, st) ==
    /\ ticket[t] # NoTicket
    /\ ticket' = [ticket EXCEPT ![t] = [status |-> st, key |-> @.key]]
    /\ LET k == ticket[t].key
           open == Exists(k) /\ slip[k].status # "DELIVERED"
       IN  \/ /\ open /\ period[Month(k)] = "ONGOING"
              /\ Enqueue(k)
              /\ UNCHANGED <<slip, missed>>
           \/ /\ open /\ period[Month(k)] = "COMPLETED" /\ st = "PAID"
              /\ slip' = [slip EXCEPT ![k] = Recalculated(k, ticket', source)]
              /\ missed' = [missed EXCEPT ![k] = FALSE]
              /\ UNCHANGED recalcQ
           \/ /\ \/ ~open
                 \/ period[Month(k)] = "NONE"
                 \/ period[Month(k)] = "COMPLETED" /\ st # "PAID"
              /\ missed' = [missed EXCEPT ![k] = Exists(k)]
              /\ UNCHANGED <<slip, recalcQ>>
    /\ UNCHANGED <<periodVars, source, createQ>>

\* PenaltyTicketUpdateSerializer.update(): a full save, so the post_save handler
\* sees no update_fields and recalculates nothing.
PatchTicket(t, st, k) ==
    /\ ticket[t] # NoTicket
    /\ \/ ticket[t].status = "UNPAID" /\ st = "PAID"
       \/ ticket[t].key = k
       \/ Editable(Month(k))
    /\ ticket' = [ticket EXCEPT ![t] = [status |-> st, key |-> k]]
    /\ missed' = [j \in Keys |->
                    \/ missed[j]
                    \/ Exists(j) /\ UnpaidIn(ticket, j) # UnpaidIn(ticket', j)]
    /\ UNCHANGED <<periodVars, slip, source, queueVars>>

\* PenaltyTicket.delete(): the post_delete handler refreshes statistics only.
DeleteTicket(t) ==
    /\ ticket[t] # NoTicket
    /\ ticket[t].status = "UNPAID"
    /\ Editable(Month(ticket[t].key))
    /\ ticket' = [ticket EXCEPT ![t] = NoTicket]
    /\ missed' = [missed EXCEPT ![ticket[t].key] = Exists(ticket[t].key)]
    /\ UNCHANGED <<periodVars, slip, source, queueVars>>

-----------------------------------------------------------------------------
(* Contracts and timesheets                                                *)

\* A timesheet, or an active contract that takes effect in that month, is saved.
SaveSource(k, present) ==
    /\ source' = [source EXCEPT ![k] = present]
    /\ Enqueue(k)
    /\ UNCHANGED <<periodVars, slip, ticket, createQ, missed>>

\* A contract leaves the ACTIVE status, or one that took effect in an earlier
\* month becomes active: on_contract_saved sends no task for that month.
SourceDrifts(k) ==
    /\ source' = [source EXCEPT ![k] = ~@]
    /\ missed' = [missed EXCEPT ![k] = Exists(k)]
    /\ UNCHANGED <<periodVars, slip, ticket, queueVars>>

-----------------------------------------------------------------------------
Init ==
    /\ period = [m \in Months |-> "NONE"]
    /\ uncompleted = [m \in Months |-> FALSE]
    /\ slip = [k \in Keys |-> NoSlip]
    /\ ticket = [t \in Tickets |-> NoTicket]
    /\ source \in [Keys -> BOOLEAN]
    /\ createQ = [m \in Months |-> 0]
    /\ recalcQ = [k \in Keys |-> 0]
    /\ missed = [k \in Keys |-> FALSE]

PeriodNext(m) ==
    \/ RequestCreate(m) \/ CreateTask(m) \/ AutoGenerate(m)
    \/ Complete(m) \/ Uncomplete(m) \/ RecalculatePeriod(m)

SlipNext(k) ==
    \/ JoinPeriod(k)
    \/ Hold(k) \/ Unhold(k) \/ MarkReady(k) \/ Deliver(k)
    \/ RecalculateSlip(k) \/ RecalculateTask(k) \/ RecalculateTaskLost(k)
    \/ \E present \in BOOLEAN : SaveSource(k, present)
    \/ SourceDrifts(k)

TicketNext(t) ==
    \/ \E st \in {"PAID", "UNPAID"} :
         \/ UpdateStatus(t, st)
         \/ \E k \in Keys : CreateTicket(t, st, k) \/ PatchTicket(t, st, k)
    \/ DeleteTicket(t)

Next ==
    \/ \E m \in Months : PeriodNext(m)
    \/ \E k \in Keys : SlipNext(k)
    \/ \E t \in Tickets : TicketNext(t)

Spec == Init /\ [][Next]_vars

\* A Celery worker keeps taking tasks from the broker, and a task that does not
\* raise completes.
Fairness == \A k \in Keys : WF_vars(RecalculateTask(k))

FairSpec == Spec /\ Fairness

-----------------------------------------------------------------------------
(* Properties                                                              *)

\* Every column holds a value of its type.
TypeOK ==
    /\ period \in [Months -> PeriodStatus]
    /\ uncompleted \in [Months -> BOOLEAN]
    /\ slip \in [Keys -> SlipRecord \cup {NoSlip}]
    /\ ticket \in [Tickets -> TicketRecord \cup {NoTicket}]
    /\ source \in [Keys -> BOOLEAN]
    /\ createQ \in [Months -> Nat]
    /\ recalcQ \in [Keys -> Nat]
    /\ missed \in [Keys -> BOOLEAN]

\* A slip that can be paid or was paid carries no unpaid-penalty flag: no order
\* of hold, recalculation, ready, deliver and complete gets a flagged slip paid.
PayableUnblocked ==
    \A k \in Keys :
        slip[k] # NoSlip /\ slip[k].status \in {"READY", "DELIVERED"}
            => ~slip[k].has_unpaid_penalty

\* payment_period points at a period that was completed: it is COMPLETED now or
\* it bears the mark of having been reopened.
PaidInCompletedPeriod ==
    \A k \in Keys :
        slip[k] # NoSlip /\ slip[k].payment_period # NoPeriod
            => LET p == slip[k].payment_period
               IN  period[p] = "COMPLETED"
                     \/ (period[p] = "ONGOING" /\ uncompleted[p])

\* What a slip should say, given the tickets and sources stored now.
InSync(k) ==
    /\ slip[k].has_unpaid_penalty = UnpaidIn(ticket, k)
    /\ (slip[k].status = "READY")
         = (source[k] /\ ~UnpaidIn(ticket, k))

\* The status is computed, and nothing is known to have gone unnoticed.
Settled(k) == /\ slip[k] # NoSlip /\ slip[k].status \in {"PENDING", "READY"}
              /\ ~missed[k] /\ recalcQ[k] = 0

\* A slip whose status is computed agrees with its inputs unless a task that will
\* recompute it is in the broker, or one of the operations that set "missed" hit
\* it: the handlers of model_lifecycle.py cover every other path.
SlipsInSync == \A k \in Keys : Settled(k) => InSync(k)

\* Each slip moves as SlipStatusFlow allows: it is paid only from an unblocked
\* READY, however complete(), deliver, hold, ready and recalculations interleave,
\* and no operation erases the period it was paid in.
Flow == INSTANCE SlipStatusFlow
    WITH Slips <- Keys,
         Periods <- Months,
         NoPeriod <- NoPeriod,
         status <- [k \in Keys |-> IF slip[k] = NoSlip THEN "NONE" ELSE slip[k].status],
         payment <- [k \in Keys |-> IF slip[k] = NoSlip THEN NoPeriod
                                    ELSE slip[k].payment_period],
         blocked <- [k \in Keys |-> slip[k] # NoSlip /\ slip[k].has_unpaid_penalty]

SlipsFollowFlow == Flow!Spec

Clear(k) == /\ period[Month(k)] = "ONGOING" /\ slip[k] # NoSlip /\ ~missed[k]
            /\ source[k] /\ ~UnpaidIn(ticket, k)

\* A pending slip of an open period whose blocking reasons are gone becomes
\* READY (or stops being in that situation) once the worker gets to its task.
PendingSettles ==
    \A k \in Keys :
        (Clear(k) /\ slip[k].status = "PENDING")
            ~> ~(Clear(k) /\ slip[k].status = "PENDING")
=============================================================================
