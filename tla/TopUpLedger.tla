---------------------------- MODULE TopUpLedger ----------------------------
(***************************************************************************)
(* What the wallet promises about top-ups, whatever their origin: a source *)
(* of money (a bank transfer reported by SePay, an approved direct top-up  *)
(* request) is turned into wallet credit at most once, and the credit row  *)
(* and the student's balance change together.  SepayWebhook and            *)
(* DirectTopUp are shown to implement this module.                         *)
(***************************************************************************)
EXTENDS Integers

CONSTANTS
  Sources,        \* what a credit is paid from
  StudentIds,     \* every student id that was ever issued
  AmountOf        \* [Sources -> Nat] the amount a source is worth

VARIABLES
  credits,        \* the credit rows: records [source, student]
  wallet          \* student id -> account balance

ledgerVars == <<credits, wallet>>

Credited(x) == \E r \in credits : r.source = x

Init ==
  /\ credits = {}
  /\ wallet = [s \in StudentIds |-> 0]

\* One source is credited, once, and the balance moves by exactly its amount.
Credit(x, s) ==
  /\ ~Credited(x)
  /\ credits' = credits \cup {[source |-> x, student |-> s]}
  /\ wallet' = [wallet EXCEPT ![s] = @ + AmountOf[x]]

\* A student is deleted with the wallet and everything that was credited to it.
Forget(s) ==
  /\ credits' = {r \in credits : r.student # s}
  /\ wallet' = [wallet EXCEPT ![s] = 0]

Next ==
  \/ \E x \in Sources, s \in StudentIds : Credit(x, s)
  \/ \E s \in StudentIds : Forget(s)

Spec == Init /\ [][Next]_ledgerVars
=============================================================================
