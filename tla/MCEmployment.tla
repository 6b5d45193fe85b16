---------------------------- MODULE MCEmployment ----------------------------
(***************************************************************************)
(* What comments of apps/hrm promise of leaves.                            *)
(***************************************************************************)
EXTENDS Employment

\* apps/hrm/tasks/employee.py:20 "finds all employees with MATERNITY_LEAVE status
\* whose resignation_end_date has passed [...] and reactivates them to ACTIVE
\* status": the task leaves no such employee behind.
MaternityReturns ==
    [][("returns" \in due /\ due' = due \ {"returns"})
         => ~(employee'.status = "MATERNITY_LEAVE" /\ employee'.until < today)]_vars

=============================================================================
