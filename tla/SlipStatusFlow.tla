--------------------------- MODULE SlipStatusFlow ---------------------------
(***************************************************************************)
(* What the rest of the company relies on about payroll slips: the order   *)
(* in which a status may move, that only an unblocked slip is paid and     *)
(* that the period a slip was paid in is never erased. Any number of slips *)
(* may move in one step, each by one transition.                           *)
(***************************************************************************)
CONSTANTS Slips, Periods, NoPeriod

VARIABLES
    status,     \* "NONE" before the row exists
    payment,    \* the period the slip was paid in, or NoPeriod
    blocked     \* an unpaid penalty is on record

flow == <<status, payment, blocked>>

Start == /\ status = [s \in Slips |-> "NONE"]
         /\ payment = [s \in Slips |-> NoPeriod]
         /\ blocked = [s \in Slips |-> FALSE]

\* The outcomes of computing a status: READY promises that nothing blocks.
Computed(s) == /\ status'[s] \in {"PENDING", "READY"}
               /\ status'[s] = "READY" => ~blocked'[s]
               /\ payment'[s] = payment[s]

Appear(s) == status[s] = "NONE" /\ Computed(s)

Recompute(s) == status[s] \in {"PENDING", "READY"} /\ Computed(s)

RecomputeHeld(s) == /\ status[s] = "HOLD" /\ status'[s] = "HOLD"
                    /\ payment'[s] = payment[s]

Freeze(s) == /\ status[s] \in {"PENDING", "READY", "DELIVERED"}
             /\ status'[s] = "HOLD"
             /\ payment'[s] = payment[s] /\ blocked'[s] = blocked[s]

Release(s) == /\ status[s] = "HOLD" /\ ~blocked[s]
              /\ status'[s] = "READY"
              /\ payment'[s] = payment[s] /\ blocked'[s] = blocked[s]

Pay(s) == /\ status[s] = "READY" /\ ~blocked[s]
          /\ status'[s] = "DELIVERED"
          /\ payment'[s] \in Periods \cup {payment[s]}
          /\ blocked'[s] = blocked[s]

Rest(s) == /\ status'[s] = status[s]
           /\ payment'[s] = payment[s] /\ blocked'[s] = blocked[s]

Move == \A s \in Slips :
            \/ Appear(s) \/ Recompute(s) \/ RecomputeHeld(s)
            \/ Freeze(s) \/ Release(s) \/ Pay(s) \/ Rest(s)

Spec == Start /\ [][Move]_flow
=============================================================================
