--------------------------- MODULE MCDirectTopUp ---------------------------
(***************************************************************************)
(* DirectTopUp for TLC: two requests, two students, two approvals at once. *)
(***************************************************************************)
EXTENDS DirectTopUp, TLC

CONSTANTS r1, r2, a1, a2, s1, s2

MCRequests == {r1, r2}
MCApprovals == {a1, a2}
MCStudentIds == {s1, s2}
MCAmountOf == (r1 :> 1) @@ (r2 :> 2)
Symmetry == Permutations(MCApprovals) \cup Permutations(MCStudentIds)
=============================================================================
