--------------------------- MODULE MCExamAttempt ---------------------------
(***************************************************************************)
(* ExamAttempt for TLC: one choice question, two essays, shares 3, 2 and 2.*)
(***************************************************************************)
EXTENDS ExamAttempt, TLC

CONSTANTS k1, k2, c0

MCCalls == {k1, k2}
Symmetry == Permutations(MCCalls)
=============================================================================
