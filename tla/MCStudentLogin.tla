-------------------------- MODULE MCStudentLogin ---------------------------
(***************************************************************************)
(* StudentLogin for TLC: two browsers, two handlers at once.               *)
(***************************************************************************)
EXTENDS StudentLogin, TLC

CONSTANTS b1, b2, d1, d2, k1, k2

MCBrowser == {b1, b2}
MCDevice == {d1, d2}
MCCall == {k1, k2}
Symmetry == Permutations(MCBrowser) \cup Permutations(MCDevice) \cup Permutations(MCCall)
=============================================================================
