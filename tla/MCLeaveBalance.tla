--------------------------- MODULE MCLeaveBalance ---------------------------
(* LeaveBalance from December to April: the tasks are interchangeable.     *)
EXTENDS LeaveBalance, TLC

JobSymmetry == Permutations(Jobs)
=============================================================================
