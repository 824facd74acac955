------------------------- MODULE DirectTopUpProofs -------------------------
(***************************************************************************)
(* TLAPS proofs about DirectTopUp, for any number of requests, students    *)
(* and concurrent approvals.                                               *)
(*                                                                         *)
(* The argument: an approval past its claim is the only holder of a row    *)
(* that is still pending (ApprovalsOK), a pending row is not linked        *)
(* (RowsOK), and so has no credit yet (LinkedIffCredited).  Steps that     *)
(* only move an approval are instances of MoveApproval; the steps that     *)
(* write rows are treated one by one.                                      *)
(***************************************************************************)
EXTENDS DirectTopUp, SumTheorems, TLAPS

USE DirectAssumption

LEMMA InitIInv == Init => IInv
<1> SUFFICES ASSUME Init PROVE IInv
  OBVIOUS
<1>1. TypeOK
  BY DEF Init, TypeOK, Row, NoRow, Statuses, NoJob, Job, Stored
<1>2. RowsOK /\ ApprovalsOK /\ LinkedIffCredited
  BY DEF Init, RowsOK, ApprovalsOK, LinkedIffCredited, Stored, NoRow, Holding
<1> QED
  BY <1>1, <1>2 DEF IInv

\* A step that writes no row: an approval goes to label l with locals j.
LEMMA MoveApproval ==
  ASSUME IInv, NEW a \in Approvals, NEW l \in {"idle", "begin", "expire", "claim", "claimed"},
         NEW j \in Job,
         UNCHANGED <<students, rows, topups, balance, filing, clock>>,
         pc' = [pc EXCEPT ![a] = l], job' = [job EXCEPT ![a] = j],
         l = "idle" <=> j.r = None,
         l # "idle" => filing[j.r] # "none",
         l = "claimed" => rows[j.r].status = "pending" /\ ~Locked(j.r)
  PROVE  IInv'
<1>1. TypeOK'
  BY DEF IInv, TypeOK, Stored
<1>2. RowsOK' /\ LinkedIffCredited'
  BY DEF IInv, RowsOK, LinkedIffCredited, Stored
<1>3. \A b \in Approvals : /\ pc'[b] = IF b = a THEN l ELSE pc[b]
                           /\ job'[b] = IF b = a THEN j ELSE job[b]
  BY DEF IInv, TypeOK
<1>4. l # "idle" => j.r \in Requests
  BY DEF Job
<1>5. ApprovalsOK'
  BY <1>3, <1>4 DEF IInv, ApprovalsOK, Holding, Locked
<1> QED
  BY <1>1, <1>2, <1>5 DEF IInv

\* A step that moves no approval keeps what the approvals rely on when it
\* keeps the filed requests filed and the held rows pending.
LEMMA ApprovalsKept ==
  ASSUME IInv, UNCHANGED <<pc, job>>,
         \A r \in Requests : filing[r] # "none" => filing'[r] # "none",
         \A r \in Requests : Locked(r) => rows'[r].status = rows[r].status
  PROVE  ApprovalsOK'
<1>1. \A a \in Approvals : Holding(a) => job[a].r \in Requests /\ Locked(job[a].r)
  BY DEF IInv, ApprovalsOK, Holding, Locked
<1> QED
  BY <1>1 DEF IInv, ApprovalsOK, Holding

LEMMA TickKeeps == IInv /\ Tick => IInv'
<1> SUFFICES ASSUME IInv, Tick PROVE IInv'
  OBVIOUS
<1>1. TypeOK'
  BY DEF IInv, TypeOK, Tick, walletVars, Stored
<1>2. RowsOK' /\ ApprovalsOK' /\ LinkedIffCredited'
  BY DEF IInv, Tick, walletVars, RowsOK, ApprovalsOK, LinkedIffCredited, Stored, Holding
<1> QED
  BY <1>1, <1>2 DEF IInv

LEMMA FileKeeps ==
  ASSUME IInv, NEW r \in Requests, NEW s \in StudentIds, File(r, s)
  PROVE  IInv'
<1> DEFINE row == [status |-> "pending", student |-> s, expiresAt |-> clock + Lifetime,
                   linked |-> FALSE]
<1>1. /\ filing[r] = "none" /\ s \in students
      /\ rows' = [rows EXCEPT ![r] = row] /\ filing' = [filing EXCEPT ![r] = "mailing"]
      /\ UNCHANGED <<students, topups, balance, pc, job, clock>>
  BY DEF File, walletVars
<1>2. clock + Lifetime \in Nat
  BY DEF IInv, TypeOK
<1>3. row \in Row /\ row.status = "pending" /\ row.student = s /\ row.linked = FALSE
  BY <1>2 DEF Row, Statuses
<1> HIDE DEF row
<1>4. \A q \in Requests : /\ rows'[q] = IF q = r THEN row ELSE rows[q]
                          /\ filing'[q] = IF q = r THEN "mailing" ELSE filing[q]
  BY <1>1 DEF IInv, TypeOK
<1>5. TypeOK'
  <2>1. \A q \in Requests : Stored(q)' => rows'[q].student \in students'
    BY <1>1, <1>3, <1>4 DEF IInv, TypeOK, Stored
  <2> QED
    BY <1>1, <1>3, <2>1 DEF IInv, TypeOK
<1>6. s # None
  OBVIOUS
<1>7. RowsOK'
  BY <1>1, <1>3, <1>4, <1>6 DEF IInv, RowsOK, Stored
<1>8. LinkedIffCredited'
  BY <1>1, <1>3, <1>4 DEF IInv, RowsOK, LinkedIffCredited, Stored
<1>9. ApprovalsOK'
  <2>1. \A q \in Requests : Locked(q) => q # r
    BY <1>1 DEF IInv, ApprovalsOK, Locked, Holding
  <2> QED
    BY <1>1, <1>4, <2>1, ApprovalsKept
<1> QED
  BY <1>5, <1>7, <1>8, <1>9 DEF IInv

LEMMA MailKeeps ==
  ASSUME IInv, NEW r \in Requests, MailSent(r) \/ MailFailed(r)
  PROVE  IInv'
<1>1. PICK l \in {"done", "cleanup"} : filing' = [filing EXCEPT ![r] = l]
  BY DEF MailSent, MailFailed
<1>2. filing[r] # "none" /\ UNCHANGED <<students, rows, topups, balance, pc, job, clock>>
  BY DEF MailSent, MailFailed, walletVars
<1>3. \A q \in Requests : filing'[q] = IF q = r THEN l ELSE filing[q]
  BY <1>1 DEF IInv, TypeOK
<1>4. TypeOK'
  BY <1>1, <1>2 DEF IInv, TypeOK, Stored
<1>5. RowsOK' /\ LinkedIffCredited'
  BY <1>2, <1>3 DEF IInv, RowsOK, LinkedIffCredited, Stored
<1>6. ApprovalsOK'
  BY <1>2, <1>3, ApprovalsKept
<1> QED
  BY <1>4, <1>5, <1>6 DEF IInv

LEMMA CleanupKeeps ==
  ASSUME IInv, NEW r \in Requests, Cleanup(r)
  PROVE  IInv'
<1>1. /\ filing[r] = "cleanup" /\ filing' = [filing EXCEPT ![r] = "done"]
      /\ UNCHANGED <<students, topups, balance, pc, job, clock>>
  BY DEF Cleanup, walletVars
<1>2. Gone \in Row /\ Gone.status = "deleted"
  BY DEF Gone, NoRow, Row, Statuses
<1>3. \A q \in Requests : filing'[q] = IF q = r THEN "done" ELSE filing[q]
  BY <1>1 DEF IInv, TypeOK
<1>4. /\ rows' \in [Requests -> Row]
      /\ \A q \in Requests : rows'[q] # rows[q] =>
           ~Locked(q) /\ filing'[q] # "none" /\ rows'[q] = Gone
  <2>1. CASE UNCHANGED rows
    BY <2>1 DEF IInv, TypeOK
  <2>2. CASE ~Locked(r) /\ rows' = [rows EXCEPT ![r] = IF Stored(r) THEN Gone ELSE @]
    BY <2>2, <1>2, <1>3 DEF IInv, TypeOK
  <2> QED
    BY <2>1, <2>2 DEF Cleanup
<1>5. TypeOK'
  <2>1. \A q \in Requests : Stored(q)' => rows'[q].student \in students'
    BY <1>1, <1>2, <1>4 DEF IInv, TypeOK, Stored
  <2> QED
    BY <1>1, <1>4, <2>1 DEF IInv, TypeOK
<1>6. RowsOK' /\ LinkedIffCredited'
  BY <1>1, <1>2, <1>3, <1>4 DEF IInv, RowsOK, LinkedIffCredited, Stored
<1>7. ApprovalsOK'
  BY <1>1, <1>3, <1>4, ApprovalsKept
<1> QED
  BY <1>5, <1>6, <1>7 DEF IInv

LEMMA DeletionKeeps ==
  ASSUME IInv, NEW s \in StudentIds, DeleteStudent(s)
  PROVE  IInv'
<1>1. /\ students' = students \ {s} /\ topups' = {x \in topups : x.student # s}
      /\ rows' = [r \in Requests |-> IF Stored(r) /\ rows[r].student = s THEN Gone ELSE rows[r]]
      /\ balance' = [balance EXCEPT ![s] = 0]
      /\ \A r \in Requests : Locked(r) => rows[r].student # s
      /\ UNCHANGED <<filing, pc, job, clock>>
  BY DEF DeleteStudent
<1>2. Gone \in Row /\ Gone.status = "deleted"
  BY DEF Gone, NoRow, Row, Statuses
<1>3. \A r \in Requests : rows'[r] = rows[r] \/ (rows'[r] = Gone /\ rows[r].student = s)
  BY <1>1
<1>4. \A r \in Requests : Stored(r)' => rows'[r] = rows[r] /\ Stored(r) /\ rows[r].student # s
  BY <1>1, <1>2 DEF Stored
<1>5. TypeOK'
  <2>1. \A r \in Requests : Stored(r)' => rows'[r].student \in students'
    BY <1>1, <1>4 DEF IInv, TypeOK
  <2> QED
    BY <1>1, <1>2, <2>1 DEF IInv, TypeOK
<1>6. RowsOK'
  BY <1>1, <1>2, <1>3, <1>4 DEF IInv, RowsOK
<1>7. LinkedIffCredited'
  BY <1>1, <1>4 DEF IInv, LinkedIffCredited
<1>8. ApprovalsOK'
  BY <1>1, <1>3, ApprovalsKept
<1> QED
  BY <1>5, <1>6, <1>7, <1>8 DEF IInv

LEMMA ApprovalMoves ==
  ASSUME IInv, NEW a \in Approvals,
         \/ \E r \in Requests : Approve(a, r)
         \/ TxRead(a) \/ TxClaim(a) \/ Abort(a)
  PROVE  IInv'
<1>1. NoJob \in Job /\ NoJob.r = None
  BY DEF NoJob, Job
<1>2. job[a] \in Job /\ job = [job EXCEPT ![a] = job[a]]
  BY DEF IInv, TypeOK
<1>3. ASSUME Finish(a), UNCHANGED <<students, rows, topups, balance, filing, clock>> PROVE IInv'
  BY <1>1, <1>3, MoveApproval DEF Finish
<1>4. ASSUME NEW r \in Requests, Approve(a, r) PROVE IInv'
  <2> DEFINE j == [r |-> r, now |-> clock]
  <2>1. j \in Job /\ j.r = r
    BY DEF IInv, TypeOK, Job
  <2> HIDE DEF j
  <2>2. /\ pc' = [pc EXCEPT ![a] = "begin"] /\ job' = [job EXCEPT ![a] = j]
        /\ UNCHANGED <<students, rows, topups, balance, filing, clock>> /\ filing[r] # "none"
    BY <1>4 DEF Approve, walletVars, j
  <2>3. r # None
    OBVIOUS
  <2> QED
    BY <2>1, <2>2, <2>3, MoveApproval
<1>5. ASSUME NEW l \in {"expire", "claim", "claimed"}, Goto(a, l), pc[a] # "idle",
             UNCHANGED <<students, rows, topups, balance, filing, clock>>,
             l = "claimed" => rows[job[a].r].status = "pending" /\ ~Locked(job[a].r)
      PROVE  IInv'
  <2>1. job[a].r # None /\ filing[job[a].r] # "none"
    BY <1>5 DEF IInv, TypeOK, ApprovalsOK
  <2> QED
    BY <1>2, <1>5, <2>1, MoveApproval DEF Goto
<1>6. CASE TxRead(a)
  <2>1. UNCHANGED <<students, rows, topups, balance, filing, clock>> /\ pc[a] # "idle"
    BY <1>6 DEF TxRead, walletVars
  <2>2. Finish(a) \/ Goto(a, "expire") \/ Goto(a, "claim")
    BY <1>6 DEF TxRead
  <2> QED
    BY <2>1, <2>2, <1>3, <1>5
<1>7. CASE TxClaim(a)
  <2>1. /\ UNCHANGED <<students, rows, topups, balance, filing, clock>> /\ pc[a] # "idle"
        /\ ~Locked(job[a].r)
    BY <1>7 DEF TxClaim, walletVars
  <2>2. Finish(a) \/ (Goto(a, "claimed") /\ rows[job[a].r].status = "pending")
    BY <1>7 DEF TxClaim, Claimable
  <2> QED
    BY <2>1, <2>2, <1>3, <1>5
<1>8. CASE Abort(a)
  BY <1>8, <1>3 DEF Abort, walletVars
<1> QED
  BY <1>4, <1>6, <1>7, <1>8

LEMMA ExpiryKeeps ==
  ASSUME IInv, NEW a \in Approvals, TxExpire(a)
  PROVE  IInv'
<1> DEFINE r == job[a].r
<1>1. /\ pc[a] = "expire" /\ ~Locked(r)
      /\ rows' = IF Stored(r) THEN [rows EXCEPT ![r].status = "expired"] ELSE rows
      /\ pc' = [pc EXCEPT ![a] = "idle"] /\ job' = [job EXCEPT ![a] = NoJob]
      /\ UNCHANGED <<students, topups, balance, filing, clock>>
  BY DEF TxExpire, Finish, walletVars
<1>2. r \in Requests /\ filing[r] # "none"
  BY <1>1 DEF IInv, ApprovalsOK
<1> HIDE DEF r
<1> DEFINE expired == [status |-> "expired", student |-> rows[r].student,
                       expiresAt |-> rows[r].expiresAt, linked |-> rows[r].linked]
           row == IF Stored(r) THEN expired ELSE rows[r]
<1>3. rows \in [Requests -> Row] /\ rows[r] \in Row
  BY <1>2 DEF IInv, TypeOK
<1>4. /\ row \in Row /\ row.student = rows[r].student /\ row.linked = rows[r].linked
      /\ row.status = IF Stored(r) THEN "expired" ELSE rows[r].status
      /\ rows' = [rows EXCEPT ![r] = row]
  <2>1. CASE Stored(r)
    <3>1. expired \in Row
      BY <1>3 DEF Row, Statuses
    <3>2. rows' = [rows EXCEPT ![r].status = "expired"]
      BY <1>1, <2>1
    <3>3. [rows[r] EXCEPT !.status = "expired"] = expired
      BY <1>3 DEF Row
    <3>4. rows' = [rows EXCEPT ![r] = expired]
      BY <3>2, <3>3
    <3> QED
      BY <2>1, <3>1, <3>4
  <2>2. CASE ~Stored(r)
    BY <1>1, <1>3, <2>2
  <2> QED
    BY <2>1, <2>2
<1> HIDE DEF row
<1>5. NoJob \in Job /\ NoJob.r = None
  BY DEF NoJob, Job
<1>6. /\ \A q \in Requests : rows'[q] = IF q = r THEN row ELSE rows[q]
      /\ \A b \in Approvals : /\ pc'[b] = IF b = a THEN "idle" ELSE pc[b]
                              /\ job'[b] = IF b = a THEN NoJob ELSE job[b]
  BY <1>1, <1>4 DEF IInv, TypeOK
<1>7. \A q \in Requests : Stored(q)' <=> Stored(q)
  BY <1>4, <1>6 DEF Stored
<1>8. TypeOK'
  <2>1. \A q \in Requests : Stored(q)' => rows'[q].student \in students'
    BY <1>1, <1>4, <1>6, <1>7 DEF IInv, TypeOK
  <2> QED
    BY <1>1, <1>4, <1>5, <2>1, ZenonT(30) DEF IInv, TypeOK
<1>9. RowsOK'
  BY <1>1, <1>2, <1>4, <1>6, <1>7 DEF IInv, RowsOK, Stored
<1>10. LinkedIffCredited'
  BY <1>1, <1>4, <1>6, <1>7 DEF IInv, LinkedIffCredited, Stored
<1>11. ApprovalsOK'
  BY <1>1, <1>2, <1>6 DEF IInv, ApprovalsOK, Holding, Locked
<1> QED
  BY <1>8, <1>9, <1>10, <1>11 DEF IInv

\* What is known when an approval commits, and what it writes.
LEMMA CommitFacts ==
  ASSUME IInv, NEW a \in Approvals, TxCommit(a)
  PROVE  \E r \in Requests, s \in StudentIds :
           /\ r = job[a].r /\ s = rows[r].student /\ rows[r].status = "pending"
           /\ filing[r] # "none" /\ \A x \in topups : x.request # r
           /\ rows' = [rows EXCEPT ![r] = [status |-> "approved", student |-> s,
                         expiresAt |-> rows[r].expiresAt, linked |-> TRUE]]
           /\ topups' = topups \cup {[request |-> r, student |-> s, amount |-> AmountOf[r]]}
           /\ balance' = [balance EXCEPT ![s] = @ + AmountOf[r]]
<1> DEFINE r == job[a].r
           s == rows[r].student
<1>1. /\ pc[a] = "claimed"
      /\ rows' = [rows EXCEPT ![r].status = "approved", ![r].linked = TRUE]
      /\ topups' = topups \cup {[request |-> r, student |-> s, amount |-> AmountOf[r]]}
      /\ balance' = [balance EXCEPT ![s] = @ + AmountOf[r]]
  BY DEF TxCommit, Holding
<1>2. r \in Requests /\ filing[r] # "none" /\ rows[r].status = "pending"
  BY <1>1 DEF IInv, ApprovalsOK, Holding
<1> HIDE DEF r
<1>3. rows[r] \in Row /\ Stored(r) /\ ~rows[r].linked
  BY <1>2 DEF IInv, TypeOK, RowsOK, Stored
<1>4. s \in StudentIds
  BY <1>2, <1>3 DEF IInv, RowsOK, Row
<1>5. \A x \in topups : x.request # r
  BY <1>2, <1>3 DEF IInv, LinkedIffCredited
<1>6. rows' = [rows EXCEPT ![r] = [status |-> "approved", student |-> s,
                 expiresAt |-> rows[r].expiresAt, linked |-> TRUE]]
  BY <1>1, <1>2, <1>3 DEF IInv, TypeOK, Row
<1> HIDE DEF s
<1> QED
  BY <1>1, <1>2, <1>4, <1>5, <1>6 DEF r, s

LEMMA CommitKeeps ==
  ASSUME IInv, NEW a \in Approvals, TxCommit(a)
  PROVE  IInv'
<1>1. PICK r \in Requests, s \in StudentIds :
           /\ r = job[a].r /\ s = rows[r].student /\ rows[r].status = "pending"
           /\ filing[r] # "none" /\ \A x \in topups : x.request # r
           /\ rows' = [rows EXCEPT ![r] = [status |-> "approved", student |-> s,
                         expiresAt |-> rows[r].expiresAt, linked |-> TRUE]]
           /\ topups' = topups \cup {[request |-> r, student |-> s, amount |-> AmountOf[r]]}
           /\ balance' = [balance EXCEPT ![s] = @ + AmountOf[r]]
  BY CommitFacts
<1>2. /\ Holding(a) /\ pc' = [pc EXCEPT ![a] = "idle"] /\ job' = [job EXCEPT ![a] = NoJob]
      /\ UNCHANGED <<students, filing, clock>>
  BY DEF TxCommit, Finish
<1> DEFINE row == [status |-> "approved", student |-> s, expiresAt |-> rows[r].expiresAt,
                   linked |-> TRUE]
           topup == [request |-> r, student |-> s, amount |-> AmountOf[r]]
<1>3. /\ row \in Row /\ row.status = "approved" /\ row.student = s /\ row.linked = TRUE
      /\ topup \in TopUp /\ topup.request = r /\ topup.student = s
      /\ rows' = [rows EXCEPT ![r] = row] /\ topups' = topups \cup {topup}
  BY <1>1 DEF IInv, TypeOK, Row, Statuses, TopUp
<1> HIDE DEF row, topup
<1>4. NoJob \in Job /\ NoJob.r = None
  BY DEF NoJob, Job
<1>5. balance' \in [StudentIds -> Nat]
  BY <1>1 DEF IInv, TypeOK
<1>6. /\ \A q \in Requests : rows'[q] = IF q = r THEN row ELSE rows[q]
      /\ \A b \in Approvals : /\ pc'[b] = IF b = a THEN "idle" ELSE pc[b]
                              /\ job'[b] = IF b = a THEN NoJob ELSE job[b]
  BY <1>2, <1>3 DEF IInv, TypeOK
<1>7. TypeOK'
  <2>1. \A q \in Requests : Stored(q)' => rows'[q].student \in students'
    BY <1>1, <1>2, <1>3, <1>6 DEF IInv, TypeOK, Stored
  <2> QED
    BY <1>2, <1>3, <1>4, <1>5, <2>1 DEF IInv, TypeOK
<1>8. s # None
  OBVIOUS
<1>9. RowsOK'
  BY <1>1, <1>2, <1>3, <1>6, <1>8 DEF IInv, RowsOK, Stored
<1>10. LinkedIffCredited'
  BY <1>1, <1>3, <1>6 DEF IInv, LinkedIffCredited, Stored
<1>11. ApprovalsOK'
  BY <1>1, <1>2, <1>6 DEF IInv, ApprovalsOK, Holding
<1> QED
  BY <1>7, <1>9, <1>10, <1>11 DEF IInv

LEMMA StutterKeeps == IInv /\ UNCHANGED vars => IInv'
  BY DEF IInv, vars, walletVars, TypeOK, RowsOK, ApprovalsOK, LinkedIffCredited, Stored, Holding

LEMMA NextIInv == IInv /\ [Next]_vars => IInv'
<1> SUFFICES ASSUME IInv, [Next]_vars PROVE IInv'
  OBVIOUS
<1>1. CASE Tick
  BY <1>1, TickKeeps
<1>2. ASSUME NEW r \in Requests,
             (\E s \in StudentIds : File(r, s)) \/ MailSent(r) \/ MailFailed(r) \/ Cleanup(r)
      PROVE  IInv'
  BY <1>2, FileKeeps, MailKeeps, CleanupKeeps
<1>3. ASSUME NEW s \in StudentIds, DeleteStudent(s) PROVE IInv'
  BY <1>3, DeletionKeeps
<1>4. ASSUME NEW a \in Approvals,
             \/ \E r \in Requests : Approve(a, r)
             \/ TxRead(a) \/ TxExpire(a) \/ TxClaim(a) \/ TxCommit(a) \/ Abort(a)
      PROVE  IInv'
  BY <1>4, ApprovalMoves, ExpiryKeeps, CommitKeeps
<1>5. CASE UNCHANGED vars
  BY <1>5, StutterKeeps
<1> QED
  BY <1>1, <1>2, <1>3, <1>4, <1>5 DEF Next

-----------------------------------------------------------------------------
\* The inductive invariant holds of every reachable state, whatever approvals,
\* mail errors and deletions interleave.
THEOREM Invariance == Spec => []IInv
<1> QED
  BY InitIInv, NextIInv, PTL DEF Spec

\* Every variable keeps its type.
THEOREM TypeCorrect == Spec => []TypeOK
<1>1. IInv => TypeOK
  BY DEF IInv
<1> QED
  BY <1>1, Invariance, PTL

\* A stored request is linked exactly when the wallet holds its credit, however
\* approvals, expiry, cleanup and deletions interleave.
THEOREM LinksAreCredits == Spec => []LinkedIffCredited
<1>1. IInv => LinkedIffCredited
  BY DEF IInv
<1> QED
  BY <1>1, Invariance, PTL

\* approveStudentWalletDirectTopUpRequest never credits a request that has been
\* written off as expired.
THEOREM NoLateCredit == Spec => NoCreditAfterExpiry
<1> DEFINE Kept(r) == rows[r].status = "expired" =>
             /\ {x \in topups' : x.request = r} \subseteq topups
             /\ rows'[r].status \in {"expired", "deleted"}
<1>1. IInv /\ [Next]_vars => \A r \in Requests : Kept(r)
  <2> SUFFICES ASSUME IInv, [Next]_vars, NEW r \in Requests, rows[r].status = "expired"
               PROVE  /\ {x \in topups' : x.request = r} \subseteq topups
                      /\ rows'[r].status \in {"expired", "deleted"}
    OBVIOUS
  <2>1. rows[r] \in Row /\ filing[r] # "none" /\ Gone.status = "deleted"
    BY DEF IInv, TypeOK, RowsOK, Stored, Gone, NoRow
  <2>2. ASSUME NEW a \in Approvals, TxCommit(a)
        PROVE  {x \in topups' : x.request = r} \subseteq topups /\ rows'[r] = rows[r]
    <3>1. PICK q \in Requests, s \in StudentIds :
             /\ rows[q].status = "pending"
             /\ rows' = [rows EXCEPT ![q] = [status |-> "approved", student |-> s,
                           expiresAt |-> rows[q].expiresAt, linked |-> TRUE]]
             /\ topups' = topups \cup {[request |-> q, student |-> s, amount |-> AmountOf[q]]}
      BY <2>2, CommitFacts
    <3>2. q # r
      BY <3>1
    <3>3. \A x \in topups' : x.request = r => x \in topups
      BY <3>1, <3>2
    <3>4. rows'[r] = rows[r]
      BY <3>1, <3>2 DEF IInv, TypeOK
    <3> QED
      BY <3>3, <3>4
  <2>3. ASSUME NEW a \in Approvals, TxExpire(a)
        PROVE  topups' = topups /\ rows'[r].status = "expired"
    BY <2>1, <2>3 DEF TxExpire, walletVars, IInv, TypeOK, Row
  <2>4. ASSUME NEW s \in StudentIds, DeleteStudent(s)
        PROVE  topups' \subseteq topups /\ rows'[r].status \in {"expired", "deleted"}
    BY <2>1, <2>4 DEF DeleteStudent
  <2>5. ASSUME NEW q \in Requests, Cleanup(q)
        PROVE  topups' = topups /\ rows'[r].status \in {"expired", "deleted"}
    BY <2>1, <2>5 DEF Cleanup, walletVars, IInv, TypeOK
  <2>6. ASSUME NEW q \in Requests, NEW s \in StudentIds, File(q, s)
        PROVE  topups' = topups /\ rows'[r] = rows[r]
    BY <2>1, <2>6 DEF File, walletVars, IInv, TypeOK
  <2>7. \/ UNCHANGED <<topups, rows>>
        \/ \E a \in Approvals : TxCommit(a) \/ TxExpire(a)
        \/ \E s \in StudentIds : DeleteStudent(s)
        \/ \E q \in Requests : Cleanup(q) \/ \E s \in StudentIds : File(q, s)
    BY DEF Next, vars, walletVars, Tick, MailSent, MailFailed, Approve, TxRead, TxClaim, Abort
  <2> QED
    BY <2>2, <2>3, <2>4, <2>5, <2>6, <2>7
<1>2. (\A r \in Requests : Kept(r)) => [\A r \in Requests : Kept(r)]_vars
  OBVIOUS
<1> QED
  BY <1>1, <1>2, Invariance, PTL DEF Spec, NoCreditAfterExpiry

-----------------------------------------------------------------------------
(* The balances. *)

\* The sum of a student's rows when one row is added.
LEMMA OneMoreRow ==
  ASSUME IsFiniteSet(topups), topups \subseteq TopUp, NEW x \in TopUp, x \notin topups,
         topups' = topups \cup {x}, NEW s \in StudentIds
  PROVE  SumFunction(AmountsOf(s))' =
           SumFunction(AmountsOf(s)) + IF s = x.student THEN x.amount ELSE 0
<1>1. IsFiniteSet(topups) /\ x \notin topups /\ \A y \in topups \cup {x} : y.amount \in Int
  BY DEF TopUp
<1>2. SumFunction(AmountsIn(topups \cup {x}, s)) =
        SumFunction(AmountsIn(topups, s)) + IF s = x.student THEN x.amount ELSE 0
  BY ONLY <1>1, RowAdded
<1>3. AmountsOf(s) = AmountsIn(topups, s) /\ AmountsOf(s)' = AmountsIn(topups \cup {x}, s)
  BY DEF AmountsOf, AmountsIn
<1> QED
  BY <1>2, <1>3

LEMMA CommitBalances ==
  ASSUME IInv, LedgerOK, NEW a \in Approvals, TxCommit(a)
  PROVE  LedgerOK'
<1>1. PICK r \in Requests, s \in StudentIds :
           /\ \A x \in topups : x.request # r
           /\ topups' = topups \cup {[request |-> r, student |-> s, amount |-> AmountOf[r]]}
           /\ balance' = [balance EXCEPT ![s] = @ + AmountOf[r]]
  BY CommitFacts
<1> DEFINE x == [request |-> r, student |-> s, amount |-> AmountOf[r]]
<1>2. /\ x \in TopUp /\ x.student = s /\ x.amount = AmountOf[r] /\ AmountOf[r] \in Nat
      /\ x \notin topups /\ topups' = topups \cup {x}
  BY <1>1 DEF TopUp
<1> HIDE DEF x
<1>3. IsFiniteSet(topups) /\ topups \subseteq TopUp /\ balance \in [StudentIds -> Nat]
  BY DEF LedgerOK, IInv, TypeOK
<1>4. IsFiniteSet(topups')
  BY <1>2, <1>3, FS_AddElement
<1>5. ASSUME NEW q \in StudentIds PROVE balance'[q] = SumFunction(AmountsOf(q))'
  <2>1. balance[q] = SumFunction(AmountsOf(q)) /\ balance[q] \in Nat
    BY <1>3 DEF LedgerOK, BalanceIsLedger
  <2>2. SumFunction(AmountsOf(q))' =
          SumFunction(AmountsOf(q)) + IF q = x.student THEN x.amount ELSE 0
    BY <1>2, <1>3, OneMoreRow
  <2>3. balance'[q] = balance[q] + IF q = s THEN AmountOf[r] ELSE 0
    BY <1>1, <1>2, <1>3, <2>1
  <2> QED
    BY <1>2, <2>1, <2>2, <2>3
<1> QED
  BY <1>4, <1>5 DEF LedgerOK, BalanceIsLedger

LEMMA DeletionBalances ==
  ASSUME IInv, LedgerOK, NEW s \in StudentIds, DeleteStudent(s)
  PROVE  LedgerOK'
<1>1. topups' = {x \in topups : x.student # s} /\ balance' = [balance EXCEPT ![s] = 0]
  BY DEF DeleteStudent
<1>2. IsFiniteSet(topups')
  BY <1>1, FS_Subset DEF LedgerOK
<1>3. ASSUME NEW q \in StudentIds PROVE balance'[q] = SumFunction(AmountsOf(q))'
  <2>1. CASE q = s
    <3>1. AmountsOf(q)' = [x \in {} |-> x.amount] /\ DOMAIN AmountsOf(q)' = {}
      BY <1>1, <2>1 DEF AmountsOf
    <3>2. SumFunction(AmountsOf(q)') = 0
      BY <3>1, SumEmpty DEF SumFunction
    <3> QED
      BY <1>1, <2>1, <3>2 DEF IInv, TypeOK
  <2>2. CASE q # s
    <3>1. AmountsOf(q)' = AmountsOf(q)
      BY <1>1, <2>2 DEF AmountsOf
    <3>2. balance'[q] = balance[q]
      BY <1>1, <2>2 DEF IInv, TypeOK
    <3> QED
      BY <3>1, <3>2 DEF LedgerOK, BalanceIsLedger
  <2> QED
    BY <2>1, <2>2
<1> QED
  BY <1>2, <1>3 DEF LedgerOK, BalanceIsLedger

\* The balance of a student is the sum of the student's wallet rows, whatever
\* approvals and deletions interleave.
THEOREM BalancesAreSums == Spec => []BalanceIsLedger
<1>1. Init => LedgerOK
  <2> SUFFICES ASSUME Init PROVE LedgerOK
    OBVIOUS
  <2>1. topups = {} /\ balance = [s \in StudentIds |-> 0]
    BY DEF Init
  <2>2. \A s \in StudentIds : DOMAIN AmountsOf(s) = {}
    BY <2>1 DEF AmountsOf
  <2>3. \A s \in StudentIds : SumFunction(AmountsOf(s)) = 0
    BY <2>2, SumEmpty DEF SumFunction
  <2> QED
    BY <2>1, <2>3, FS_EmptySet DEF LedgerOK, BalanceIsLedger
<1>2. IInv /\ LedgerOK /\ [Next]_vars => LedgerOK'
  <2> SUFFICES ASSUME IInv, LedgerOK, [Next]_vars PROVE LedgerOK'
    OBVIOUS
  <2>1. CASE UNCHANGED <<topups, balance>>
    BY <2>1 DEF LedgerOK, BalanceIsLedger, AmountsOf
  <2>2. \/ \E a \in Approvals : TxCommit(a)
        \/ \E s \in StudentIds : DeleteStudent(s)
        \/ UNCHANGED <<topups, balance>>
    BY DEF Next, vars, walletVars, Tick, File, MailSent, MailFailed, Cleanup, Approve, TxRead,
       TxExpire, TxClaim, Abort
  <2> QED
    BY <2>1, <2>2, CommitBalances, DeletionBalances
<1>3. LedgerOK => BalanceIsLedger
  BY DEF LedgerOK
<1> QED
  BY <1>1, <1>2, <1>3, Invariance, PTL DEF Spec

-----------------------------------------------------------------------------
Credits == {[source |-> x.request, student |-> x.student] : x \in topups}

\* The commit of an approval is one credit of the ledger.
LEMMA CommitIsCredit ==
  ASSUME IInv, NEW a \in Approvals, TxCommit(a)
  PROVE  \E r \in Requests, s \in StudentIds : Ledger!Credit(r, s)
<1>1. PICK r \in Requests, s \in StudentIds :
           /\ \A x \in topups : x.request # r
           /\ topups' = topups \cup {[request |-> r, student |-> s, amount |-> AmountOf[r]]}
           /\ balance' = [balance EXCEPT ![s] = @ + AmountOf[r]]
  BY CommitFacts
<1>2. ~Ledger!Credited(r)
  BY <1>1 DEF Ledger!Credited
<1> DEFINE topup == [request |-> r, student |-> s, amount |-> AmountOf[r]]
<1>3. topup.request = r /\ topup.student = s /\ topups' = topups \cup {topup}
  BY <1>1
<1> HIDE DEF topup
<1>4. Credits' = Credits \cup {[source |-> r, student |-> s]}
  BY <1>3, Zenon DEF Credits
<1>5. Ledger!Credit(r, s)
  BY <1>1, <1>2, <1>4 DEF Ledger!Credit, Credits
<1> QED
  BY <1>5

\* The deletion of a student forgets the student's credits.
LEMMA DeletionForgets ==
  ASSUME IInv, NEW s \in StudentIds, DeleteStudent(s)
  PROVE  Ledger!Forget(s)
<1>1. topups' = {x \in topups : x.student # s} /\ balance' = [balance EXCEPT ![s] = 0]
  BY DEF DeleteStudent
<1>2. Credits' = {c \in Credits : c.student # s}
  BY <1>1 DEF Credits
<1> QED
  BY <1>1, <1>2 DEF Ledger!Forget, Credits

\* Direct top-ups implement the ledger: every step credits a new request once,
\* forgets a deleted student, or leaves the wallets alone.
THEOREM ImplementsLedger == Spec => LedgerSpec
<1>1. Init => Ledger!Init
  BY DEF Init, Ledger!Init
<1>2. IInv /\ [Next]_vars => [Ledger!Next]_<<Credits, balance>>
  <2> SUFFICES ASSUME IInv, [Next]_vars PROVE Ledger!Next \/ UNCHANGED <<Credits, balance>>
    OBVIOUS
  <2>1. ASSUME NEW a \in Approvals, TxCommit(a) PROVE Ledger!Next
    BY <2>1, CommitIsCredit DEF Ledger!Next
  <2>2. ASSUME NEW s \in StudentIds, DeleteStudent(s) PROVE Ledger!Next
    BY <2>2, DeletionForgets DEF Ledger!Next
  <2>3. CASE UNCHANGED <<topups, balance>>
    BY <2>3 DEF Credits
  <2>4. \/ \E a \in Approvals : TxCommit(a)
        \/ \E s \in StudentIds : DeleteStudent(s)
        \/ UNCHANGED <<topups, balance>>
    BY DEF Next, vars, walletVars, Tick, File, MailSent, MailFailed, Cleanup, Approve, TxRead,
       TxExpire, TxClaim, Abort
  <2> QED
    BY <2>1, <2>2, <2>3, <2>4
<1>3. [Ledger!Next]_<<Credits, balance>> => [Ledger!Next]_Ledger!ledgerVars
  BY DEF Credits, Ledger!ledgerVars
<1> QED
  BY <1>1, <1>2, <1>3, Invariance, PTL DEF Spec, LedgerSpec, Ledger!Spec
=============================================================================
