---------------------------- MODULE MCTimesheet ----------------------------
(* Timesheet on a small instance: the jobs are interchangeable.            *)
EXTENDS Timesheet, TLC

\* Not all of them are leaves of half a day.
SomeFilings == [Requests -> RequestKinds] \ {[r \in Requests |-> "HALF"]}

JobSymmetry == Permutations(Jobs)
=============================================================================
