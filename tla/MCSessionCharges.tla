-------------------------- MODULE MCSessionCharges --------------------------
(***************************************************************************)
(* SessionCharges for TLC: a one_time class p and a per_session class q.   *)
(***************************************************************************)
EXTENDS SessionCharges, TLC

CONSTANTS x1, x2, k1, k2, m1, m2, s1, p, q, OutOfPackage, IntoPackage

MCSessionIds == {x1, x2}
MCClasses == {p, q}
MCSoldOnce == {p}
MCPrice == (p :> 1) @@ (q :> 1)
MCBlockPrice == (p :> 3) @@ (q :> 3)
MCPackage == (p :> 2) @@ (q :> 2)
MCStudents == {s1}
MCEnrolled == (p :> {s1}) @@ (q :> {s1})
MCMoves == (IF OutOfPackage THEN {<<p, q>>} ELSE {}) \cup (IF IntoPackage THEN {<<q, p>>} ELSE {})
MCCalls == {k1, k2}
MCManagers == {m1, m2}
Symmetry == Permutations(MCSessionIds) \cup Permutations(MCCalls) \cup Permutations(MCManagers)
=============================================================================
