-------------------------- MODULE MCStaffPayroll ---------------------------
(***************************************************************************)
(* StaffPayroll for TLC.  At 60% and 60% of 3 both deductions round up and *)
(* nothing remains.                                                        *)
(***************************************************************************)
EXTENDS StaffPayroll, TLC

CONSTANTS lesson, assistant, k1, k2

MCRole == {lesson, assistant}
MCCall == {k1, k2}
Symmetry == Permutations(MCRole) \cup Permutations(MCCall)
=============================================================================
