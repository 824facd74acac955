----------------------------- MODULE DirectTopUp -----------------------------
(***************************************************************************)
(* Direct wallet top-ups that an administrator approves.                   *)
(*                                                                         *)
(* Staff file a request; the row is committed, then the approval mail is   *)
(* sent, and a failed mail removes the row again.  The request is approved *)
(* from the link in the mail or from the admin queue, both in the same     *)
(* transaction: it takes the time before it opens the transaction, reads   *)
(* the row, and either writes "expired" (a plain update by id) or claims   *)
(* the row while it is pending and credits the wallet.  Several approvals  *)
(* of one request may run at once.                                         *)
(***************************************************************************)
EXTENDS Integers, FiniteSets, FiniteSetsExt

CONSTANTS
  Requests,       \* requests that may be filed
  StudentIds,
  AmountOf,       \* [Requests -> Nat \ {0}] the amount asked for
  Approvals,      \* approval calls that may run at once
  None,
  Lifetime,       \* the time a request stays open (DIRECT_TOP_UP_APPROVAL_TTL_DAYS)
  MaxTime         \* bound on the clock

ASSUME DirectAssumption ==
  /\ AmountOf \in [Requests -> Nat \ {0}]
  /\ Lifetime \in Nat \ {0} /\ MaxTime \in Nat
  /\ None \notin StudentIds \cup Requests

VARIABLES
  students,   \* ids of the students that exist
  rows,       \* request -> row of student_wallet_direct_topup_requests
  topups,     \* wallet_transactions_history rows: records [request, student, amount]
  balance,    \* student id -> accountBalance
  filing,     \* request -> where the call that files it stands
  pc,         \* approval -> where its call stands
  job,        \* approval -> the request it is for and the time it has read
  clock

vars == <<students, rows, topups, balance, filing, pc, job, clock>>
walletVars == <<topups, balance>>
-----------------------------------------------------------------------------
Statuses == {"none", "pending", "approved", "expired", "deleted"}
Row == [status : Statuses, student : StudentIds \cup {None}, expiresAt : Nat, linked : BOOLEAN]
NoRow == [status |-> "none", student |-> None, expiresAt |-> 0, linked |-> FALSE]
Gone == [NoRow EXCEPT !.status = "deleted"]

TopUp == [request : Requests, student : StudentIds, amount : Nat]
Job == [r : Requests \cup {None}, now : Nat]
NoJob == [r |-> None, now |-> 0]

Stored(r) == rows[r].status \in {"pending", "approved", "expired"}

\* The transaction of approval a has written the row and not committed.
Holding(a) == pc[a] = "claimed"
Locked(r) == \E a \in Approvals : Holding(a) /\ job[a].r = r

Init ==
  /\ students = StudentIds
  /\ rows = [r \in Requests |-> NoRow]
  /\ topups = {}
  /\ balance = [s \in StudentIds |-> 0]
  /\ filing = [r \in Requests |-> "none"]
  /\ pc = [a \in Approvals |-> "idle"]
  /\ job = [a \in Approvals |-> NoJob]
  /\ clock = 0

Tick == clock < MaxTime /\ clock' = clock + 1 /\ UNCHANGED <<students, rows, walletVars, filing, pc, job>>
-----------------------------------------------------------------------------
\* createStudentWalletDirectTopUpRequest: the row is committed before the mail.
File(r, s) ==
  /\ filing[r] = "none" /\ s \in students
  /\ rows' = [rows EXCEPT ![r] = [status |-> "pending", student |-> s,
                                  expiresAt |-> clock + Lifetime, linked |-> FALSE]]
  /\ filing' = [filing EXCEPT ![r] = "mailing"]
  /\ UNCHANGED <<students, walletVars, pc, job, clock>>

\* The mail is accepted, or the call stops here: the row stays.
MailSent(r) ==
  /\ filing[r] = "mailing"
  /\ filing' = [filing EXCEPT ![r] = "done"]
  /\ UNCHANGED <<students, rows, walletVars, pc, job, clock>>

\* Sending fails (or is reported as failed).
MailFailed(r) ==
  /\ filing[r] = "mailing"
  /\ filing' = [filing EXCEPT ![r] = "cleanup"]
  /\ UNCHANGED <<students, rows, walletVars, pc, job, clock>>

\* The row is removed by id; a failed removal is logged and the row stays.
Cleanup(r) ==
  /\ filing[r] = "cleanup"
  /\ \/ ~Locked(r) /\ rows' = [rows EXCEPT ![r] = IF Stored(r) THEN Gone ELSE @]
     \/ UNCHANGED rows
  /\ filing' = [filing EXCEPT ![r] = "done"]
  /\ UNCHANGED <<students, walletVars, pc, job, clock>>

\* Mutant: requests outlive their student (ON DELETE SET NULL).
DeleteSetsNull(s) ==
  /\ s \in students
  /\ \A r \in Requests : Locked(r) => rows[r].student # s
  /\ students' = students \ {s}
  /\ rows' = [r \in Requests |-> IF Stored(r) /\ rows[r].student = s
                                THEN [rows[r] EXCEPT !.student = None] ELSE rows[r]]
  /\ topups' = {x \in topups : x.student # s}
  /\ balance' = [balance EXCEPT ![s] = 0]
  /\ UNCHANGED <<filing, pc, job, clock>>

\* deleteStudent: requests and wallet rows go with the student (ON DELETE CASCADE).
DeleteStudent(s) ==
  /\ s \in students
  /\ \A r \in Requests : Locked(r) => rows[r].student # s
  /\ students' = students \ {s}
  /\ rows' = [r \in Requests |-> IF Stored(r) /\ rows[r].student = s THEN Gone ELSE rows[r]]
  /\ topups' = {x \in topups : x.student # s}
  /\ balance' = [balance EXCEPT ![s] = 0]
  /\ UNCHANGED <<filing, pc, job, clock>>
-----------------------------------------------------------------------------
Goto(a, label) == pc' = [pc EXCEPT ![a] = label] /\ UNCHANGED job

Finish(a) == pc' = [pc EXCEPT ![a] = "idle"] /\ job' = [job EXCEPT ![a] = NoJob]

\* The approval call reads the clock.
Approve(a, r) ==
  /\ pc[a] = "idle" /\ filing[r] # "none"
  /\ pc' = [pc EXCEPT ![a] = "begin"]
  /\ job' = [job EXCEPT ![a] = [r |-> r, now |-> clock]]
  /\ UNCHANGED <<students, rows, walletVars, filing, clock>>

\* Its transaction reads the row: missing (400), approved already (an
\* idempotent answer), too late, or open.
TxRead(a) ==
  /\ pc[a] = "begin"
  /\ LET row == rows[job[a].r] IN
       \/ (~Stored(job[a].r) \/ row.status = "approved") /\ Finish(a)
       \/ row.status = "expired" /\ Goto(a, "expire")
       \/ row.status = "pending" /\ row.expiresAt <= job[a].now /\ Goto(a, "expire")
       \/ row.status = "pending" /\ row.expiresAt > job[a].now /\ Goto(a, "claim")
  /\ UNCHANGED <<students, rows, walletVars, filing, clock>>

\* Too late: the status is set by id, whatever it is by now, once no other
\* transaction holds the row; the update throws when the row is gone.
TxExpire(a) ==
  /\ pc[a] = "expire" /\ ~Locked(job[a].r)
  /\ rows' = IF Stored(job[a].r) THEN [rows EXCEPT ![job[a].r].status = "expired"] ELSE rows
  /\ Finish(a)
  /\ UNCHANGED <<students, walletVars, filing, clock>>

\* Mutants: the claim trusts the row that was read; it does not ask for the status.
ClaimableAsRead(r, now) == Stored(r)
ClaimableUnlinked(r, now) == Stored(r) /\ ~rows[r].linked /\ rows[r].expiresAt > now

\* What the claim's WHERE asks of the row.
Claimable(r, now) == rows[r].status = "pending" /\ ~rows[r].linked /\ rows[r].expiresAt > now

\* updateMany ... where pending: one approval gets the row, the others a 400.
TxClaim(a) ==
  /\ pc[a] = "claim" /\ ~Locked(job[a].r)
  /\ \/ Claimable(job[a].r, job[a].now) /\ Goto(a, "claimed")
     \/ ~Claimable(job[a].r, job[a].now) /\ Finish(a)
  /\ UNCHANGED <<students, rows, walletVars, filing, clock>>

\* Mutant: the balance is set from the value read with the request.
TxCommitAbsolute(a) ==
  /\ Holding(a)
  /\ LET r == job[a].r  s == rows[job[a].r].student IN
       /\ rows' = [rows EXCEPT ![r].status = "approved", ![r].linked = TRUE]
       /\ topups' = topups \cup {[request |-> r, student |-> s, amount |-> AmountOf[r]]}
       /\ balance' = [balance EXCEPT ![s] = AmountOf[r]]
  /\ Finish(a)
  /\ UNCHANGED <<students, filing, clock>>

\* Mutant: the request is not linked to its wallet row.
TxCommitUnlinked(a) ==
  /\ Holding(a)
  /\ LET r == job[a].r  s == rows[job[a].r].student IN
       /\ rows' = [rows EXCEPT ![r].status = "approved"]
       /\ topups' = topups \cup {[request |-> r, student |-> s, amount |-> AmountOf[r]]}
       /\ balance' = [balance EXCEPT ![s] = @ + AmountOf[r]]
  /\ Finish(a)
  /\ UNCHANGED <<students, filing, clock>>

\* The wallet row, the balance increment, the link, the commit.
TxCommit(a) ==
  /\ Holding(a)
  /\ LET r == job[a].r  s == rows[job[a].r].student IN
       /\ rows' = [rows EXCEPT ![r].status = "approved", ![r].linked = TRUE]
       /\ topups' = topups \cup {[request |-> r, student |-> s, amount |-> AmountOf[r]]}
       /\ balance' = [balance EXCEPT ![s] = @ + AmountOf[r]]
  /\ Finish(a)
  /\ UNCHANGED <<students, filing, clock>>

\* The call is cut off or its transaction times out: nothing is written.
Abort(a) ==
  /\ pc[a] # "idle" /\ Finish(a)
  /\ UNCHANGED <<students, rows, walletVars, filing, clock>>
-----------------------------------------------------------------------------
Next ==
  \/ Tick
  \/ \E r \in Requests : \/ \E s \in StudentIds : File(r, s)
                         \/ MailSent(r) \/ MailFailed(r) \/ Cleanup(r)
  \/ \E s \in StudentIds : DeleteStudent(s)
  \/ \E a \in Approvals : \/ \E r \in Requests : Approve(a, r)
                          \/ TxRead(a) \/ TxExpire(a) \/ TxClaim(a) \/ TxCommit(a) \/ Abort(a)

Spec == Init /\ [][Next]_vars
-----------------------------------------------------------------------------
(* Properties *)

\* Every variable keeps its type, a stored request belongs to a student that exists
\* (its student_id is a foreign key), and an approval has a job while it runs.
TypeOK ==
  /\ students \subseteq StudentIds
  /\ rows \in [Requests -> Row]
  /\ \A r \in Requests : Stored(r) => rows[r].student \in students
  /\ topups \subseteq TopUp
  /\ balance \in [StudentIds -> Nat]
  /\ filing \in [Requests -> {"none", "mailing", "cleanup", "done"}]
  /\ pc \in [Approvals -> {"idle", "begin", "expire", "claim", "claimed"}]
  /\ job \in [Approvals -> Job]
  /\ \A a \in Approvals : pc[a] = "idle" <=> job[a].r = None
  /\ clock \in 0..MaxTime

\* A stored request is linked exactly when the wallet holds its credit, which is
\* for its student; no answer, expiry or late mail error makes that untrue.
LinkedIffCredited ==
  \A r \in Requests : Stored(r) =>
    /\ rows[r].linked <=> \E x \in topups : x.request = r
    /\ \A x \in topups : x.request = r => x.student = rows[r].student
    /\ rows[r].status = "approved" => rows[r].linked

\* The amounts of a student's wallet rows.
AmountsOf(s) == [x \in {y \in topups : y.student = s} |-> x.amount]

\* accountBalance is the sum of the wallet rows.
BalanceIsLedger == \A s \in StudentIds : balance[s] = SumFunction(AmountsOf(s))

\* A request that was ever written off as expired is not credited afterwards.
NoCreditAfterExpiry ==
  [][\A r \in Requests :
       rows[r].status = "expired" => /\ {x \in topups' : x.request = r} \subseteq topups
                                     /\ rows'[r].status \in {"expired", "deleted"}]_vars

\* Each credit of a request is one atomic step that also moves the balance, and
\* there is at most one per request, however many approvals run.
Ledger == INSTANCE TopUpLedger WITH
  Sources <- Requests,
  credits <- {[source |-> x.request, student |-> x.student] : x \in topups},
  wallet <- balance

LedgerSpec == Ledger!Spec

\* The documented meaning of the link: a request is linked to a wallet row only
\* when it was approved.
LinkedOnlyIfApproved ==
  \A r \in Requests : rows[r].linked => rows[r].status = "approved"
-----------------------------------------------------------------------------
(* The inductive invariant behind LinkedIffCredited and LedgerSpec. *)

\* A stored row has a student, nothing precedes the filing of a request, and a
\* row that waits for approval is not linked.
RowsOK ==
  \A r \in Requests :
    /\ Stored(r) => rows[r].student # None
    /\ filing[r] = "none" => ~Stored(r) /\ \A x \in topups : x.request # r
    /\ rows[r].status = "pending" => ~rows[r].linked

\* A running approval is for a request that was filed; one past its claim holds
\* a row that is still open, and no other one holds it.
ApprovalsOK ==
  /\ \A a \in Approvals : pc[a] # "idle" => job[a].r \in Requests /\ filing[job[a].r] # "none"
  /\ \A a \in Approvals : Holding(a) => rows[job[a].r].status = "pending"
  /\ \A a, b \in Approvals : Holding(a) /\ Holding(b) /\ job[a].r = job[b].r => a = b

IInv == TypeOK /\ RowsOK /\ ApprovalsOK /\ LinkedIffCredited

\* ... and, with it, behind BalanceIsLedger: a sum needs finitely many rows.
LedgerOK == IsFiniteSet(topups) /\ BalanceIsLedger
=============================================================================
