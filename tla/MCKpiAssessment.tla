-------------------------- MODULE MCKpiAssessment --------------------------
(* KpiAssessment on a small instance: requests are interchangeable, and so *)
(* are workers.                                                            *)
EXTENDS KpiAssessment, TLC

Symmetry == Permutations(Forms) \cup Permutations(Workers)
=============================================================================
