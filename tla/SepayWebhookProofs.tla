------------------------ MODULE SepayWebhookProofs ------------------------
(***************************************************************************)
(* TLAPS proofs about SepayWebhook, for every set of transfers, orders,    *)
(* students and concurrent requests and for any number of faults.          *)
(*                                                                         *)
(* The argument: IInv says what a request may rely on between two of its   *)
(* steps (RequestOK), what holding a row excludes (HoldersOK) and what the *)
(* committed rows satisfy (RowsOK, UniqueKeys, LedgerMatchesOrders).       *)
(* Steps that only move a request are all instances of MoveWorker; the     *)
(* steps that change the database are treated one by one.                  *)
(***************************************************************************)
EXTENDS SepayWebhook, SumTheorems, TLAPS

USE TransferAssumption, ConstantAssumption

LEMMA SameTransferSymmetric ==
  ASSUME NEW t \in Transfers, NEW u \in Transfers, SameTransfer(t, u)
  PROVE  SameTransfer(u, t)
  BY DEF SameTransfer

LEMMA InitIInv == Init => IInv
<1> SUFFICES ASSUME Init PROVE IInv
  OBVIOUS
<1>1. TypeOK
  BY DEF Init, TypeOK, Row, NoRow, Codes, Statuses, Labels, NoJob, Job, Stored
<1>2. RowsOK /\ UniqueKeys /\ LedgerMatchesOrders
  BY DEF Init, RowsOK, UniqueKeys, LedgerMatchesOrders, Completed, NoRow
<1>3. RequestsOK /\ HoldersOK
  BY DEF Init, RequestsOK, HoldersOK, Holding
<1> QED
  BY <1>1, <1>2, <1>3 DEF IInv

\* A step that only moves one request to another label, or ends it.
LEMMA MoveWorker ==
  ASSUME IInv, NEW w \in Workers, NEW l \in Labels, NEW j \in Job \cup {NoJob},
         UNCHANGED <<dbVars, sent>>,
         pc' = [pc EXCEPT ![w] = l], job' = [job EXCEPT ![w] = j],
         reported' \in [Transfers -> SUBSET Results], mailed' \subseteq Codes,
         faults' \in 0..MaxFaults,
         l = "idle" <=> j = NoJob,
         l # "idle" => RequestOK(l, j),
         l = "claimed" => /\ HolderOK(j)
                          /\ \A v \in Workers \ {w} : Holding(v) =>
                               Disjoint(j, job[v]) /\ Disjoint(job[v], j)
  PROVE  IInv'
<1>1. TypeOK'
  BY DEF IInv, TypeOK, dbVars, Stored
<1>2. (RowsOK /\ UniqueKeys /\ LedgerMatchesOrders)'
  BY DEF IInv, RowsOK, UniqueKeys, LedgerMatchesOrders, Completed, dbVars
<1>3. \A m, i : RequestOK(m, i)' <=> RequestOK(m, i)
  BY DEF RequestOK, Stored, AmountMismatch, AccountMismatch, dbVars
<1>4. \A i : HolderOK(i)' <=> HolderOK(i)
  BY DEF HolderOK, Stored, Completed, dbVars
<1>5. \A v \in Workers : /\ pc'[v] = IF v = w THEN l ELSE pc[v]
                         /\ job'[v] = IF v = w THEN j ELSE job[v]
  BY DEF IInv, TypeOK
<1>6. RequestsOK'
  <2> SUFFICES ASSUME NEW v \in Workers, pc'[v] # "idle" PROVE RequestOK(pc'[v], job'[v])
    BY <1>3 DEF RequestsOK
  <2>1. CASE v = w
    BY <2>1, <1>5
  <2>2. CASE v # w
    BY <2>2, <1>5 DEF IInv, RequestsOK
  <2> QED
    BY <2>1, <2>2
<1>7. HoldersOK'
  <2>1. ASSUME NEW v \in Workers, Holding(v)' PROVE HolderOK(job'[v])
    <3>1. CASE v = w
      BY <2>1, <3>1, <1>5 DEF Holding
    <3>2. CASE v # w
      BY <2>1, <3>2, <1>5 DEF IInv, HoldersOK, Holding
    <3> QED
      BY <3>1, <3>2
  <2>2. ASSUME NEW u \in Workers, NEW v \in Workers, Holding(u)', Holding(v)', u # v
        PROVE  Disjoint(job'[u], job'[v])
    <3>1. CASE u = w
      BY <2>2, <3>1, <1>5 DEF Holding
    <3>2. CASE v = w
      BY <2>2, <3>2, <1>5 DEF Holding
    <3>3. CASE u # w /\ v # w
      BY <2>2, <3>3, <1>5 DEF IInv, HoldersOK, Holding
    <3> QED
      BY <3>1, <3>2, <3>3
  <2>3. \A i, k : Disjoint(i, k)' <=> Disjoint(i, k)
    BY DEF Disjoint, TargetOf, SameTransfer
  <2> QED
    BY <2>1, <2>2, <2>3, <1>4 DEF HoldersOK
<1> QED
  BY <1>1, <1>2, <1>6, <1>7 DEF IInv

\* A busy request has a real job, and what RequestsOK says of it.
LEMMA BusyRequest ==
  ASSUME IInv, NEW w \in Workers, pc[w] # "idle"
  PROVE  job[w] \in Job /\ RequestOK(pc[w], job[w])
  BY DEF IInv, TypeOK, RequestsOK

\* A request that is answered or fails leaves everything in order.
LEMMA EndRequest ==
  ASSUME IInv, NEW w \in Workers, NEW result \in Results, pc[w] # "idle",
         Answer(w, result) \/ Fail(w),
         UNCHANGED <<dbVars, sent>>, mailed' \subseteq Codes, faults' \in 0..MaxFaults
  PROVE  IInv'
<1>1. reported' \in [Transfers -> SUBSET Results]
  BY BusyRequest DEF IInv, TypeOK, Answer, Fail, Job
<1> QED
  BY <1>1, MoveWorker DEF Answer, Fail, Labels

\* A request that moves on with the locals it has.
LEMMA MoveOn ==
  ASSUME IInv, NEW w \in Workers, NEW l \in Labels \ {"idle"}, pc[w] # "idle", Goto(w, l),
         UNCHANGED <<dbVars, sent>>, mailed' \subseteq Codes, faults' \in 0..MaxFaults,
         RequestOK(l, job[w]),
         l = "claimed" => /\ HolderOK(job[w])
                          /\ \A v \in Workers \ {w} : Holding(v) => Disjoint(job[w], job[v])
  PROVE  IInv'
<1>1. job[w] \in Job /\ job[w] # NoJob
  BY BusyRequest DEF IInv, TypeOK
<1>2. job' = [job EXCEPT ![w] = job[w]]
  BY DEF Goto, IInv, TypeOK
<1>3. ASSUME l = "claimed", NEW v \in Workers \ {w}, Holding(v)
      PROVE  Disjoint(job[w], job[v]) /\ Disjoint(job[v], job[w])
  <2>1. job[v] \in Job
    BY <1>3, BusyRequest DEF Holding
  <2>2. Disjoint(job[w], job[v])
    BY <1>3
  <2> QED
    BY <2>1, <2>2, <1>1 DEF Disjoint, SameTransfer, Job
<1> QED
  BY <1>1, <1>2, <1>3, MoveWorker DEF Goto, IInv, TypeOK
-----------------------------------------------------------------------------
(* The steps of a request that do not write to the database. *)

LEMMA ReceiveStep ==
  ASSUME IInv, NEW w \in Workers, NEW t \in Transfers, Receive(w, t)
  PROVE  IInv'
<1> DEFINE j == [t |-> t, order |-> None]
<1>1. j \in Job /\ j # NoJob
  BY DEF Job, NoJob
<1>2. RequestOK("lookup", j)
  BY DEF RequestOK, Receive
<1>3. faults' \in 0..MaxFaults
  BY DEF Receive, IInv, TypeOK
<1> HIDE DEF j
<1>4. pc' = [pc EXCEPT ![w] = "lookup"] /\ job' = [job EXCEPT ![w] = j]
  BY DEF Receive, j
<1> QED
  BY <1>1, <1>2, <1>3, <1>4, MoveWorker DEF Receive, IInv, TypeOK, Labels

LEMMA LookupStep ==
  ASSUME IInv, NEW w \in Workers, Lookup(w)
  PROVE  IInv'
<1>1. pc[w] # "idle" /\ RequestOK("lookup", job[w])
  BY BusyRequest DEF Lookup
<1>2. CASE Answer(w, "ignored")
  BY <1>1, <1>2, EndRequest DEF Lookup, Results, IInv, TypeOK
<1>3. CASE Answer(w, "duplicate")
  BY <1>1, <1>3, EndRequest DEF Lookup, Results, IInv, TypeOK
<1>4. CASE job[w].t \in Inbound /\ Goto(w, "match")
  <2>1. RequestOK("match", job[w])
    BY <1>1, <1>4 DEF RequestOK
  <2> QED
    BY <1>1, <1>4, <2>1, MoveOn DEF Lookup, Labels, IInv, TypeOK
<1> QED
  BY <1>2, <1>3, <1>4 DEF Lookup

LEMMA MatchStep ==
  ASSUME IInv, NEW w \in Workers, Match(w)
  PROVE  IInv'
<1> DEFINE t == job[w].t
           c == Matching(t)
<1>1. pc[w] # "idle" /\ RequestOK("match", job[w]) /\ job[w] \in Job
  BY BusyRequest DEF Match
<1>2. CASE \E r \in Results : Answer(w, r)
  BY <1>1, <1>2, EndRequest DEF Match, IInv, TypeOK
<1>3. CASE /\ c # None /\ ~AmountMismatch(c, t) /\ ~AccountMismatch(c, t)
           /\ pc' = [pc EXCEPT ![w] = "begin"]
           /\ job' = [job EXCEPT ![w] = [t |-> t, order |-> c]]
           /\ UNCHANGED reported
  <2> DEFINE j == [t |-> t, order |-> c]
  <2>1. c \in OrderCodes /\ c = MemoCode[t] /\ Stored(c)
    BY <1>1, <1>3 DEF Matching, Job
  <2>2. j \in Job /\ j # NoJob
    BY <1>1, <2>1 DEF Job, NoJob
  <2>3. RequestOK("begin", j)
    BY <1>1, <1>3, <2>1 DEF RequestOK, Stored, Job
  <2>4. job' = [job EXCEPT ![w] = j]
    BY <1>3
  <2> HIDE DEF j
  <2> QED
    BY <1>3, <2>2, <2>3, <2>4, MoveWorker DEF Match, Labels, IInv, TypeOK
<1>4. CASE MemoStudent[t] # None /\ StaticAccount = AccountOf[t] /\ Goto(w, "begin")
  <2>1. RequestOK("begin", job[w])
    BY <1>1, <1>4 DEF RequestOK
  <2> QED
    BY <1>1, <1>4, <2>1, MoveOn DEF Match, Labels, IInv, TypeOK
<1> QED
  BY <1>2, <1>3, <1>4 DEF Match, MatchOrder, MatchStatic, Results

LEMMA TxReadStep ==
  ASSUME IInv, NEW w \in Workers, TxRead(w)
  PROVE  IInv'
<1>1. pc[w] # "idle" /\ RequestOK("begin", job[w])
  BY BusyRequest DEF TxRead
<1>2. CASE \E r \in Results : Answer(w, r)
  BY <1>1, <1>2, EndRequest DEF TxRead, IInv, TypeOK
<1>3. CASE Goto(w, "claim")
  <2>1. RequestOK("claim", job[w])
    BY <1>1 DEF RequestOK
  <2> QED
    BY <1>1, <1>3, <2>1, MoveOn DEF TxRead, Labels, IInv, TypeOK
<1> QED
  BY <1>2, <1>3 DEF TxRead, TxReadOrder, TxReadStatic, Results

LEMMA TxClaimStep ==
  ASSUME IInv, NEW w \in Workers, TxClaim(w)
  PROVE  IInv'
<1>1. pc[w] # "idle" /\ RequestOK("claim", job[w]) /\ job[w] \in Job
  BY BusyRequest DEF TxClaim
<1>2. CASE (\E r \in Results : Answer(w, r)) \/ Fail(w)
  BY <1>1, <1>2, EndRequest DEF TxClaim, Results, IInv, TypeOK
<1>3. CASE /\ Goto(w, "claimed") /\ ~UniqueViolation(w)
           /\ job[w].order # None => orders[job[w].order].status = "pending"
           /\ job[w].order = None => ~Stored(job[w].t) /\ MemoStudent[job[w].t] \in students
  <2>1. RequestOK("claimed", job[w])
    BY <1>1 DEF RequestOK
  <2>2. ~Completed(Target(w))
    BY <1>3 DEF Completed, Stored, Target, TargetOf
  <2>3. HolderOK(job[w])
    BY <1>3, <2>2 DEF HolderOK, UniqueViolation, Completed, Stored
  <2>4. \A v \in Workers \ {w} : Holding(v) => Disjoint(job[w], job[v])
    BY DEF TxClaim, Blocked, Disjoint, Target
  <2> QED
    BY <1>1, <1>3, <2>1, <2>3, <2>4, MoveOn DEF TxClaim, Labels, IInv, TypeOK
<1> QED
  BY <1>2, <1>3 DEF TxClaim, ClaimOrder, ClaimStatic, Results

LEMMA SendReceiptStep ==
  ASSUME IInv, NEW w \in Workers, SendReceipt(w)
  PROVE  IInv'
<1>1. pc[w] # "idle" /\ RequestOK("receipt", job[w]) /\ job[w] \in Job
  BY BusyRequest DEF SendReceipt
<1>2. CASE Answer(w, "credited") /\ UNCHANGED mailed
  BY <1>1, <1>2, EndRequest DEF SendReceipt, Results, IInv, TypeOK
<1>3. CASE mailed' = mailed \cup {Target(w)} /\ Goto(w, "mark")
  <2>1. RequestOK("mark", job[w])
    BY <1>1 DEF RequestOK
  <2>2. mailed' \subseteq Codes
    BY <1>1, <1>3 DEF IInv, TypeOK, Target, TargetOf, Codes, Job
  <2> QED
    BY <1>1, <1>3, <2>1, <2>2, MoveOn DEF SendReceipt, Labels, IInv, TypeOK
<1> QED
  BY <1>2, <1>3 DEF SendReceipt

LEMMA TxTimeoutStep ==
  ASSUME IInv, NEW w \in Workers, TxTimeout(w)
  PROVE  IInv'
<1>1. pc[w] # "idle" /\ faults' \in 0..MaxFaults
  BY DEF TxTimeout, InTransaction, IInv, TypeOK
<1> QED
  BY <1>1, EndRequest DEF TxTimeout, Results, IInv, TypeOK
-----------------------------------------------------------------------------
(* The steps that write to the database. *)

\* An order row that is not committed as paid appears or becomes pending.
LEMMA OpenOrder ==
  ASSUME IInv, NEW c \in OrderCodes, NEW row \in Row,
         orders[c].status \in {"none", "remote"},
         row.status \in {"remote", "pending"}, row.txn = None, row.student \in students,
         orders' = [orders EXCEPT ![c] = row],
         UNCHANGED <<students, topups, balance, pc, job, sent, reported, mailed, faults>>
  PROVE  IInv'
<1>1. \A d \in Codes : orders'[d] = IF d = c THEN row ELSE orders[d]
  BY DEF IInv, TypeOK
<1>2. TypeOK'
  <2>1. \A d \in Codes : Stored(d)' => orders'[d].student \in students'
    BY <1>1 DEF IInv, TypeOK, Stored
  <2> QED
    BY <2>1 DEF IInv, TypeOK
<1>3. \A d \in Codes : Completed(d)' <=> Completed(d)
  BY <1>1 DEF Completed
<1>4. RowsOK'
  BY <1>1, <1>3 DEF IInv, TypeOK, RowsOK, Completed, Codes
<1>5. UniqueKeys'
  BY <1>1, <1>3 DEF IInv, UniqueKeys, Completed, SameTransfer
<1>6. RequestsOK'
  <2> SUFFICES ASSUME NEW w \in Workers, pc[w] # "idle" PROVE RequestOK(pc[w], job[w])'
    BY DEF RequestsOK
  <2>1. job[w] \in Job /\ RequestOK(pc[w], job[w])
    BY BusyRequest
  <2>2. job[w].order # c
    BY <2>1 DEF RequestOK
  <2> QED
    BY <1>1, <2>1, <2>2 DEF RequestOK, Stored, AmountMismatch, AccountMismatch, Job, Codes
<1>7. HoldersOK'
  <2>1. ASSUME NEW w \in Workers, Holding(w) PROVE HolderOK(job[w])'
    <3>1. job[w] \in Job /\ HolderOK(job[w])
      BY <2>1, BusyRequest DEF IInv, HoldersOK, Holding
    <3> QED
      BY <1>1, <1>3, <3>1 DEF HolderOK, Stored, Completed, SameTransfer, Job, Codes
  <2> QED
    BY <2>1 DEF IInv, HoldersOK, Holding, Disjoint, TargetOf, SameTransfer
<1>8. LedgerMatchesOrders'
  BY <1>1, <1>3 DEF IInv, LedgerMatchesOrders, Completed, TypeOK, TopUp
<1> QED
  BY <1>2, <1>4, <1>5, <1>6, <1>7, <1>8 DEF IInv

LEMMA CreateRemoteOrderStep ==
  ASSUME IInv, NEW q \in OrderRequests, CreateRemoteOrder(q)
  PROVE  IInv'
<1> DEFINE row == [NoRow EXCEPT !.status = "remote", !.student = q.student,
                                !.amount = q.amount, !.account = q.account]
<1>1. row \in Row /\ row.status = "remote" /\ row.txn = None /\ row.student \in students
  BY DEF Row, NoRow, Statuses, Codes, CreateRemoteOrder
<1>2. q.code \in OrderCodes /\ orders[q.code].status = "none" /\ orders' = [orders EXCEPT ![q.code] = row]
  BY DEF CreateRemoteOrder
<1> HIDE DEF row
<1> QED
  BY <1>1, <1>2, OpenOrder DEF CreateRemoteOrder

LEMMA PersistOrderStep ==
  ASSUME IInv, NEW c \in OrderCodes, PersistOrder(c)
  PROVE  IInv'
<1> DEFINE row == [orders[c] EXCEPT !.status = "pending"]
<1>1. orders[c] \in Row /\ orders[c].txn = None /\ orders[c].student \in students
  BY DEF IInv, TypeOK, RowsOK, PersistOrder, Codes, Completed
<1>2. row \in Row /\ row.status = "pending" /\ row.txn = None /\ row.student \in students
  BY <1>1 DEF Row, Statuses
<1>3. orders' = [orders EXCEPT ![c] = row]
  BY DEF PersistOrder
<1> HIDE DEF row
<1> QED
  BY <1>2, <1>3, OpenOrder DEF PersistOrder

LEMMA BankTransferStep ==
  ASSUME IInv, NEW t \in Transfers, BankTransfer(t)
  PROVE  IInv'
<1>1. sent \subseteq sent' /\ sent' \subseteq Transfers
  BY DEF BankTransfer, IInv, TypeOK
<1>2. TypeOK' /\ RowsOK' /\ UniqueKeys' /\ LedgerMatchesOrders'
  BY <1>1 DEF BankTransfer, IInv, TypeOK, RowsOK, UniqueKeys, LedgerMatchesOrders, Completed, Stored,
              dbVars
<1>3. RequestsOK'
  BY <1>1 DEF BankTransfer, IInv, RequestsOK, RequestOK, Stored, AmountMismatch, AccountMismatch, dbVars
<1>4. HoldersOK'
  BY DEF BankTransfer, IInv, HoldersOK, HolderOK, Holding, Disjoint, Stored, Completed, dbVars
<1> QED
  BY <1>2, <1>3, <1>4 DEF IInv

LEMMA CrashStep ==
  ASSUME IInv, Crash
  PROVE  IInv'
<1>1. TypeOK'
  BY DEF Crash, IInv, TypeOK, Labels, dbVars, Stored
<1>2. RowsOK' /\ UniqueKeys' /\ LedgerMatchesOrders'
  BY DEF Crash, IInv, RowsOK, UniqueKeys, LedgerMatchesOrders, Completed, dbVars
<1>3. RequestsOK' /\ HoldersOK'
  BY DEF Crash, RequestsOK, HoldersOK, Holding
<1> QED
  BY <1>1, <1>2, <1>3 DEF IInv

LEMMA DeleteStudentStep ==
  ASSUME IInv, NEW s \in StudentIds, DeleteStudent(s)
  PROVE  IInv'
<1> DEFINE gone == [NoRow EXCEPT !.status = "deleted"]
<1>1. gone \in Row /\ gone.status = "deleted" /\ gone.txn = None
  BY DEF Row, NoRow, Statuses
<1>2. \A c \in Codes : orders'[c] = IF orders[c].student = s /\ Stored(c) THEN gone ELSE orders[c]
  BY DEF DeleteStudent
<1>3. orders' \in [Codes -> Row]
  BY <1>1 DEF DeleteStudent, IInv, TypeOK
<1> HIDE DEF gone
<1>4. \A c \in Codes : /\ Completed(c)' <=> Completed(c) /\ orders[c].student # s
                       /\ Stored(c)' <=> Stored(c) /\ orders[c].student # s
                       /\ Stored(c)' => orders'[c] = orders[c]
  BY <1>1, <1>2 DEF Completed, Stored
<1>5. TypeOK'
  <2>1. \A c \in Codes : Stored(c)' => orders'[c].student \in students'
    BY <1>4 DEF DeleteStudent, IInv, TypeOK
  <2> QED
    BY <1>3, <2>1 DEF DeleteStudent, IInv, TypeOK
<1>6. RowsOK'
  BY <1>1, <1>2, <1>4 DEF IInv, RowsOK, Completed, Stored
<1>7. UniqueKeys'
  BY <1>2, <1>4 DEF IInv, UniqueKeys, Completed, Stored, SameTransfer
<1>8. RequestsOK'
  <2> SUFFICES ASSUME NEW w \in Workers, pc[w] # "idle" PROVE RequestOK(pc[w], job[w])'
    BY DEF RequestsOK, DeleteStudent
  <2>1. job[w] \in Job /\ RequestOK(pc[w], job[w])
    BY BusyRequest
  <2>2. job[w].order # None => job[w].order \in Codes
    BY <2>1 DEF Job, Codes
  <2>3. job[w].order # None => orders'[job[w].order].status \notin {"none", "remote"}
    BY <1>1, <1>2, <2>1, <2>2 DEF RequestOK
  <2> QED
    BY <1>4, <2>1, <2>2, <2>3 DEF RequestOK, AmountMismatch, AccountMismatch, DeleteStudent
<1>9. HoldersOK'
  <2>1. ASSUME NEW w \in Workers, Holding(w) PROVE HolderOK(job[w])'
    <3>1. job[w] \in Job /\ HolderOK(job[w])
      BY <2>1, BusyRequest DEF IInv, HoldersOK, Holding
    <3>2. TargetStudent(w) # s
      BY <2>1 DEF DeleteStudent
    <3>3. job[w].order # None => job[w].order \in Codes /\ orders'[job[w].order].status = "pending"
      BY <1>2, <3>1, <3>2 DEF TargetStudent, HolderOK, Job, Codes
    <3>4. job[w].order = None => ~Stored(job[w].t)' /\ MemoStudent[job[w].t] \in students'
      BY <1>4, <3>1, <3>2 DEF TargetStudent, HolderOK, Job, Codes, DeleteStudent
    <3>5. \A c \in Codes : Completed(c)' => ~SameTransfer(job[w].t, orders'[c].txn)
      BY <1>4, <3>1 DEF HolderOK, Completed, Stored
    <3> QED
      BY <3>3, <3>4, <3>5 DEF HolderOK, DeleteStudent, SameTransfer
  <2> QED
    BY <2>1 DEF IInv, HoldersOK, Holding, Disjoint, TargetOf, SameTransfer, DeleteStudent
<1>10. LedgerMatchesOrders'
  <2>1. ASSUME NEW c \in Codes, Completed(c)' PROVE \E r \in topups' : r.code = c
    <3>1. PICK r \in topups : r.code = c
      BY <1>4, <2>1 DEF IInv, LedgerMatchesOrders
    <3>2. r.student # s
      BY <1>4, <2>1, <3>1 DEF IInv, LedgerMatchesOrders
    <3> QED
      BY <3>1, <3>2 DEF DeleteStudent
  <2>2. ASSUME NEW r \in topups' PROVE orders'[r.code] = orders[r.code]
    <3>1. r \in topups /\ r.student # s /\ r.code \in Codes
      BY <2>2 DEF DeleteStudent, IInv, TypeOK, TopUp
    <3> QED
      BY <1>2, <3>1 DEF IInv, LedgerMatchesOrders
  <2> QED
    BY <2>1, <2>2 DEF IInv, LedgerMatchesOrders, Completed, DeleteStudent
<1> QED
  BY <1>5, <1>6, <1>7, <1>8, <1>9, <1>10 DEF IInv

LEMMA MarkReceiptStep ==
  ASSUME IInv, NEW w \in Workers, MarkReceipt(w)
  PROVE  IInv'
<1> DEFINE t == job[w].t
<1>1. pc[w] = "mark" /\ job[w] \in Job /\ Target(w) \in Codes
  BY BusyRequest DEF MarkReceipt, Target, TargetOf, Job, Codes
<1>2. /\ orders' \in [Codes -> Row]
      /\ \A c \in Codes : /\ orders'[c].status = orders[c].status
                          /\ orders'[c].student = orders[c].student
                          /\ orders'[c].amount = orders[c].amount
                          /\ orders'[c].account = orders[c].account
                          /\ orders'[c].txn = orders[c].txn
  <2>1. CASE Stored(Target(w))
    <3> DEFINE row == [orders[Target(w)] EXCEPT !.receiptSent = TRUE]
               old == orders[Target(w)]
    <3>1. old \in Row
      BY <1>1 DEF IInv, TypeOK
    <3>2. /\ row \in Row
          /\ row.status = old.status /\ row.student = old.student /\ row.amount = old.amount
          /\ row.account = old.account /\ row.txn = old.txn
      BY <3>1 DEF Row
    <3>3. orders' = [orders EXCEPT ![Target(w)] = row]
      BY <2>1 DEF MarkReceipt
    <3> HIDE DEF row
    <3> QED
      BY <1>1, <3>2, <3>3 DEF IInv, TypeOK
  <2>2. CASE ~Stored(Target(w))
    BY <2>2 DEF MarkReceipt, IInv, TypeOK
  <2> QED
    BY <2>1, <2>2
<1>3. \A v \in Workers : /\ pc'[v] = IF v = w THEN "idle" ELSE pc[v]
                         /\ job'[v] = IF v = w THEN NoJob ELSE job[v]
  BY DEF MarkReceipt, Answer, IInv, TypeOK
<1>4. TypeOK'
  <2>1. reported' \in [Transfers -> SUBSET Results]
    BY <1>1 DEF MarkReceipt, Answer, IInv, TypeOK, Results, Job
  <2>2. \A c \in Codes : Stored(c)' => orders'[c].student \in students'
    BY <1>2 DEF MarkReceipt, IInv, TypeOK, Stored
  <2> QED
    BY <1>2, <2>1, <2>2 DEF MarkReceipt, Answer, IInv, TypeOK, Labels
<1>5. RowsOK' /\ UniqueKeys'
  BY <1>2 DEF IInv, RowsOK, UniqueKeys, Completed, SameTransfer
<1>6. LedgerMatchesOrders'
  BY <1>2 DEF IInv, TypeOK, TopUp, LedgerMatchesOrders, Completed, MarkReceipt
<1>7. RequestsOK'
  <2> SUFFICES ASSUME NEW v \in Workers, v # w, pc[v] # "idle" PROVE RequestOK(pc[v], job[v])'
    BY <1>3 DEF RequestsOK
  <2>1. job[v] \in Job /\ RequestOK(pc[v], job[v])
    BY BusyRequest
  <2> QED
    BY <1>2, <1>3, <2>1 DEF RequestOK, Stored, AmountMismatch, AccountMismatch, MarkReceipt, Job, Codes
<1>8. HoldersOK'
  <2>1. \A v \in Workers : Holding(v)' => v # w /\ Holding(v) /\ job'[v] = job[v]
    BY <1>3 DEF Holding
  <2>2. ASSUME NEW v \in Workers, v # w, Holding(v) PROVE HolderOK(job[v])'
    <3>1. job[v] \in Job /\ HolderOK(job[v])
      BY <2>2, BusyRequest DEF IInv, HoldersOK, Holding
    <3> QED
      BY <1>2, <1>3, <2>2, <3>1 DEF HolderOK, Stored, Completed, SameTransfer, MarkReceipt, Job, Codes
  <2> QED
    BY <2>1, <2>2 DEF IInv, HoldersOK, Disjoint, TargetOf, SameTransfer
<1> QED
  BY <1>4, <1>5, <1>6, <1>7, <1>8 DEF IInv

\* What holding a row gives the commit: the row's code and student, and that
\* no wallet row carries this code or this transfer.
LEMMA HolderFacts ==
  ASSUME IInv, NEW w \in Workers, Holding(w)
  PROVE  /\ job[w] \in Job /\ RequestOK("claimed", job[w]) /\ HolderOK(job[w])
         /\ Target(w) \in Codes /\ ~Completed(Target(w))
         /\ TargetStudent(w) \in students
         /\ \A r \in topups : r.code # Target(w) /\ ~SameTransfer(job[w].t, r.transfer)
         /\ CompletedRow(w) \in Row
         /\ CompletedRow(w).status = "completed" /\ CompletedRow(w).txn = job[w].t
         /\ CompletedRow(w).student = TargetStudent(w)
         /\ CompletedRow(w).amount = AmountOf[job[w].t]
         /\ CompletedRow(w).account \in {None, AccountOf[job[w].t]}
<1>1. job[w] \in Job /\ RequestOK("claimed", job[w]) /\ HolderOK(job[w])
  BY BusyRequest DEF IInv, HoldersOK, Holding
<1>2. Target(w) \in Codes
  BY <1>1 DEF Target, TargetOf, Job, Codes
<1>3. ~Completed(Target(w))
  BY <1>1 DEF Target, TargetOf, HolderOK, Completed, Stored
<1>4. \A r \in topups : r.code # Target(w) /\ ~SameTransfer(job[w].t, r.transfer)
  BY <1>1, <1>3 DEF IInv, TypeOK, TopUp, LedgerMatchesOrders, Completed, HolderOK
<1>5. CASE job[w].order = None
  <2>1. MemoStudent[job[w].t] \in students /\ students \subseteq StudentIds
    BY <1>1, <1>5 DEF HolderOK, IInv, TypeOK
  <2> QED
    BY <1>1, <1>2, <1>3, <1>4, <1>5, <2>1 DEF TargetStudent, CompletedRow, Row, Statuses, Job
<1>6. CASE job[w].order # None
  <2> DEFINE c == job[w].order
             old == orders[c]
             new == [old EXCEPT !.status = "completed", !.txn = job[w].t]
  <2>1. c \in Codes /\ old \in Row /\ old.status = "pending"
    BY <1>1, <1>6 DEF HolderOK, Job, Codes, IInv, TypeOK
  <2>2. new \in Row /\ new.status = "completed" /\ new.txn = job[w].t
        /\ new.student = old.student /\ new.amount = old.amount /\ new.account = old.account
    BY <1>1, <2>1 DEF Row, Statuses, Job
  <2>3. CompletedRow(w) = new
    BY <1>6 DEF CompletedRow
  <2>4. old.amount = AmountOf[job[w].t] /\ old.account \in {None, AccountOf[job[w].t]}
    BY <1>1, <1>6, <2>1 DEF RequestOK, Stored, AmountMismatch, AccountMismatch
  <2>5. old.student \in students /\ TargetStudent(w) = old.student
    BY <1>6, <2>1 DEF IInv, TypeOK, Stored, TargetStudent
  <2> HIDE DEF new
  <2> QED
    BY <1>1, <1>2, <1>3, <1>4, <2>2, <2>3, <2>4, <2>5
<1> QED
  BY <1>5, <1>6

LEMMA TxCommitStep ==
  ASSUME IInv, NEW w \in Workers, TxCommit(w)
  PROVE  IInv'
<1> DEFINE t == job[w].t
           x == Target(w)
           row == CompletedRow(w)
           new == [code |-> x, student |-> TargetStudent(w), amount |-> AmountOf[t], transfer |-> t]
<1>0. Holding(w)
  BY DEF TxCommit
<1>1. /\ job[w] \in Job /\ RequestOK("claimed", job[w]) /\ HolderOK(job[w])
      /\ x \in Codes /\ ~Completed(x)
      /\ TargetStudent(w) \in students /\ TargetStudent(w) \in StudentIds
      /\ \A r \in topups : r.code # x /\ ~SameTransfer(t, r.transfer)
      /\ row \in Row /\ row.status = "completed" /\ row.txn = t
      /\ row.student = TargetStudent(w) /\ row.amount = AmountOf[t]
      /\ row.account \in {None, AccountOf[t]}
  BY <1>0, HolderFacts DEF IInv, TypeOK
<1>2. new \in TopUp /\ topups' = topups \cup {new}
  BY <1>1 DEF TxCommit, TopUp, Job
<1>3. \A c \in Codes : orders'[c] = IF c = x THEN row ELSE orders[c]
  BY DEF TxCommit, IInv, TypeOK
<1>4. \A v \in Workers : pc'[v] = IF v = w THEN "receipt" ELSE pc[v]
  BY DEF TxCommit, Goto, IInv, TypeOK
<1>5. job' = job
  BY DEF TxCommit, Goto
<1> HIDE DEF row, x
<1>6. TypeOK'
  <2>1. balance' \in [StudentIds -> Nat]
    BY <1>1 DEF TxCommit, IInv, TypeOK, Job
  <2>2. pc' \in [Workers -> Labels] /\ \A v \in Workers : pc'[v] = "idle" <=> job'[v] = NoJob
    BY <1>0, <1>4, <1>5 DEF TxCommit, Goto, IInv, TypeOK, Labels, Holding
  <2>3. orders' \in [Codes -> Row]
    BY <1>1 DEF TxCommit, IInv, TypeOK, row, x
  <2>4. \A c \in Codes : Stored(c)' => orders'[c].student \in students'
    BY <1>1, <1>3 DEF TxCommit, IInv, TypeOK, Stored
  <2> QED
    BY <1>2, <1>5, <2>1, <2>2, <2>3, <2>4 DEF TxCommit, Goto, IInv, TypeOK
<1>7. \A c \in Codes : Completed(c)' <=> Completed(c) \/ c = x
  BY <1>1, <1>3 DEF Completed
<1>8. RowsOK'
  <2>1. x \in OrderCodes \/ x = t
    BY <1>1 DEF x, Target, TargetOf, Job
  <2> QED
    BY <1>1, <1>3, <1>7, <2>1 DEF IInv, RowsOK, Completed, Job
<1>9. UniqueKeys'
  <2> SUFFICES ASSUME NEW c \in Codes, NEW d \in Codes, Completed(c)', Completed(d)',
                      SameTransfer(orders'[c].txn, orders'[d].txn)
               PROVE  c = d
    BY DEF UniqueKeys, SameTransfer
  <2>1. \A e \in Codes : Completed(e) => /\ orders[e].txn \in Transfers
                                         /\ ~SameTransfer(t, orders[e].txn)
                                         /\ ~SameTransfer(orders[e].txn, t)
    <3> SUFFICES ASSUME NEW e \in Codes, Completed(e)
                 PROVE  /\ orders[e].txn \in Transfers
                        /\ ~SameTransfer(t, orders[e].txn) /\ ~SameTransfer(orders[e].txn, t)
      OBVIOUS
    <3>1. orders[e].txn \in Transfers
      BY DEF IInv, TypeOK, RowsOK, Row
    <3> QED
      BY <1>1, <3>1, SameTransferSymmetric DEF HolderOK, Job
  <2>2. CASE c # x /\ d # x
    BY <1>3, <1>7, <2>2 DEF IInv, UniqueKeys
  <2>3. CASE c = x /\ d # x
    BY <1>1, <1>3, <1>7, <2>1, <2>3
  <2>4. CASE c # x /\ d = x
    BY <1>1, <1>3, <1>7, <2>1, <2>4
  <2> QED
    BY <2>2, <2>3, <2>4
<1>10. RequestsOK'
  <2> SUFFICES ASSUME NEW v \in Workers, pc'[v] # "idle" PROVE RequestOK(pc[v], job[v])'
    BY DEF RequestsOK
  <2>1. job[v] \in Job /\ RequestOK(pc[v], job[v])
    BY <1>0, <1>4, BusyRequest DEF Holding
  <2>2. RequestOK(pc'[v], job[v])
    BY <1>0, <1>4, <2>1 DEF RequestOK, Holding
  <2>3. job[v].order # None => job[v].order \in OrderCodes
    BY <2>1 DEF Job
  <2>4. job[v].order # None => /\ orders'[job[v].order].status \notin {"none", "remote"}
                               /\ Stored(job[v].order)' => ~AmountMismatch(job[v].order, job[v].t)'
                                                           /\ ~AccountMismatch(job[v].order, job[v].t)'
    <3>1. CASE job[v].order = x
      <4> SUFFICES ASSUME job[v].order # None
                   PROVE  /\ orders'[x].status = "completed"
                          /\ orders'[x].amount = AmountOf[job[v].t]
                          /\ orders'[x].account \in {None, AccountOf[job[v].t]}
        BY <3>1, <1>5 DEF AmountMismatch, AccountMismatch
      <4>1. job[w].order = x /\ Stored(x)
        BY <1>1, <2>3, <3>1 DEF x, Target, TargetOf, Job, HolderOK, Stored
      <4>2. /\ orders[x].amount = AmountOf[job[v].t] /\ orders[x].amount = AmountOf[t]
            /\ orders[x].account \in {None, AccountOf[job[v].t]}
        BY <1>1, <2>2, <3>1, <4>1 DEF RequestOK, AmountMismatch, AccountMismatch
      <4>3. row.account = orders[x].account
        <5>1. orders[x] \in Row
          BY <1>1 DEF IInv, TypeOK
        <5>2. row = [orders[x] EXCEPT !.status = "completed", !.txn = t]
          BY <4>1, <2>3, <3>1 DEF row, CompletedRow
        <5> QED
          BY <5>1, <5>2 DEF Row
      <4> QED
        BY <1>1, <1>3, <4>2, <4>3
    <3>2. CASE job[v].order # x
      BY <1>3, <1>5, <2>2, <2>3, <3>2 DEF RequestOK, Stored, AmountMismatch, AccountMismatch, Codes
    <3> QED
      BY <3>1, <3>2
  <2> QED
    BY <1>5, <2>2, <2>4 DEF RequestOK, TxCommit
<1>11. HoldersOK'
  <2>1. \A v \in Workers : Holding(v)' => v # w /\ Holding(v)
    BY <1>4 DEF Holding
  <2>2. ASSUME NEW v \in Workers, v # w, Holding(v) PROVE HolderOK(job[v])'
    <3>1. job[v] \in Job /\ HolderOK(job[v])
      BY <2>2, BusyRequest DEF IInv, HoldersOK, Holding
    <3>2. TargetOf(job[v]) # x /\ ~SameTransfer(job[v].t, t)
      BY <1>0, <2>2 DEF IInv, HoldersOK, Disjoint, x, Target
    <3>3. job[v].order # None => job[v].order \in Codes /\ job[v].order # x
      BY <3>1, <3>2 DEF Job, Codes, TargetOf
    <3>4. job[v].order = None => job[v].t \in Codes /\ job[v].t # x
      BY <3>1, <3>2 DEF Job, Codes, TargetOf
    <3>5. \A c \in Codes : Completed(c)' => ~SameTransfer(job[v].t, orders'[c].txn)
      BY <1>1, <1>3, <1>7, <3>1, <3>2 DEF HolderOK
    <3> QED
      BY <1>3, <1>5, <3>1, <3>3, <3>4, <3>5 DEF HolderOK, Stored, SameTransfer, TxCommit
  <2> QED
    BY <1>5, <2>1, <2>2 DEF IInv, HoldersOK, Disjoint, TargetOf, SameTransfer
<1>12. LedgerMatchesOrders'
  <2>1. ASSUME NEW c \in Codes, Completed(c)' PROVE \E r \in topups' : r.code = c
    <3>1. CASE c = x
      BY <1>2, <3>1
    <3>2. CASE c # x
      BY <1>2, <1>7, <2>1, <3>2 DEF IInv, LedgerMatchesOrders
    <3> QED
      BY <3>1, <3>2
  <2>2. ASSUME NEW r \in topups
        PROVE  orders'[r.code] = orders[r.code]
    BY <1>1, <1>3 DEF IInv, TypeOK, TopUp
  <2>3. t \in sent \cap Inbound
    BY <1>1 DEF RequestOK
  <2> QED
    BY <1>1, <1>2, <1>3, <2>1, <2>2, <2>3 DEF IInv, LedgerMatchesOrders, Completed, TxCommit
<1> QED
  BY <1>6, <1>8, <1>9, <1>10, <1>11, <1>12 DEF IInv
-----------------------------------------------------------------------------
(* The theorems *)

LEMMA NextIInv == IInv /\ [Next]_vars => IInv'
<1> SUFFICES ASSUME IInv, [Next]_vars PROVE IInv'
  OBVIOUS
<1>1. ASSUME NEW q \in OrderRequests, CreateRemoteOrder(q) PROVE IInv'
  BY <1>1, CreateRemoteOrderStep
<1>2. ASSUME NEW c \in OrderCodes, PersistOrder(c) PROVE IInv'
  BY <1>2, PersistOrderStep
<1>3. ASSUME NEW t \in Transfers, BankTransfer(t) PROVE IInv'
  BY <1>3, BankTransferStep
<1>4. ASSUME NEW s \in StudentIds, DeleteStudent(s) PROVE IInv'
  BY <1>4, DeleteStudentStep
<1>5. ASSUME NEW w \in Workers, NEW t \in Transfers, Receive(w, t) PROVE IInv'
  BY <1>5, ReceiveStep
<1>6. ASSUME NEW w \in Workers, Step(w) PROVE IInv'
  BY <1>6, LookupStep, MatchStep, TxReadStep, TxClaimStep, TxCommitStep, SendReceiptStep,
     MarkReceiptStep DEF Step
<1>7. ASSUME NEW w \in Workers, TxTimeout(w) PROVE IInv'
  BY <1>7, TxTimeoutStep
<1>8. CASE Crash
  BY <1>8, CrashStep
<1>9. CASE UNCHANGED vars
  BY <1>9 DEF vars, IInv, TypeOK, RowsOK, UniqueKeys, RequestsOK, RequestOK, HoldersOK, HolderOK,
     Holding, LedgerMatchesOrders, Disjoint, Stored, Completed, AmountMismatch, AccountMismatch
<1> QED
  BY <1>1, <1>2, <1>3, <1>4, <1>5, <1>6, <1>7, <1>8, <1>9 DEF Next

\* The inductive invariant: what requests rely on between their steps holds in
\* every reachable state.
THEOREM Invariance == Spec => []IInv
<1>1. Init => IInv
  BY InitIInv
<1>2. IInv /\ [Next]_vars => IInv'
  BY NextIInv
<1> QED
  BY <1>1, <1>2, PTL DEF Spec

\* Type correctness.
THEOREM TypeCorrect == Spec => []TypeOK
<1>1. IInv => TypeOK
  BY DEF IInv
<1> QED
  BY <1>1, Invariance, PTL

\* Orders and wallet rows agree, whatever reports, crashes and deletions occur.
THEOREM LedgerAgrees == Spec => []LedgerMatchesOrders
<1>1. IInv => LedgerMatchesOrders
  BY DEF IInv
<1> QED
  BY <1>1, Invariance, PTL

LEMMA IInvCreditedOnce == IInv => CreditedOnce
<1> SUFFICES ASSUME IInv, NEW r \in topups, NEW q \in topups,
                    SameTransfer(r.transfer, q.transfer) \/ r.code = q.code
             PROVE  r = q
  BY DEF CreditedOnce
<1>1. r \in TopUp /\ q \in TopUp
  BY DEF IInv, TypeOK
<1>2. /\ Completed(r.code) /\ Completed(q.code)
      /\ orders[r.code].txn = r.transfer /\ orders[q.code].txn = q.transfer
      /\ orders[r.code].student = r.student /\ orders[q.code].student = q.student
      /\ r.amount = AmountOf[r.transfer] /\ q.amount = AmountOf[q.transfer]
  BY DEF IInv, LedgerMatchesOrders, Completed
<1>3. r.code = q.code
  BY <1>1, <1>2 DEF IInv, UniqueKeys, TopUp
<1> QED
  BY <1>1, <1>2, <1>3 DEF TopUp

\* No bank transfer, bank reference or order is ever credited twice.
THEOREM NeverCreditedTwice == Spec => []CreditedOnce
  BY Invariance, IInvCreditedOnce, PTL

\* A request that leaves reported alone, or adds an answer other than
\* "duplicate", adds no duplicate.
LEMMA OnlyDuplicateAnswers ==
  ASSUME IInv, NEW w \in Workers, pc[w] # "idle", NEW t \in Transfers,
         UNCHANGED reported \/ (\E r \in Results \ {"duplicate"} : Answer(w, r))
  PROVE  ~("duplicate" \in reported'[t] \ reported[t])
<1>1. job[w] \in Job
  BY BusyRequest
<1> QED
  BY <1>1 DEF Answer, IInv, TypeOK, Job, Results

\* The evidence on which "duplicate" is answered.
LEMMA DuplicateEvidence ==
  ASSUME IInv, NEW w \in Workers, Step(w), NEW t \in Transfers,
         "duplicate" \in reported'[t] \ reported[t]
  PROVE  \E c \in Codes : Completed(c) /\ (SameTransfer(t, orders[c].txn) \/ MemoCode[t] = c)
<1>1. pc[w] # "idle" /\ job[w] \in Job /\ RequestOK(pc[w], job[w])
  BY BusyRequest DEF Step, Lookup, Match, TxRead, TxClaim, TxCommit, SendReceipt, MarkReceipt, Holding
<1>2. Answer(w, "duplicate")
  <2> SUFFICES ASSUME ~Answer(w, "duplicate") PROVE FALSE
    OBVIOUS
  <2>1. UNCHANGED reported \/ (\E r \in Results \ {"duplicate"} : Answer(w, r))
    <3>1. CASE Lookup(w)
      BY <3>1 DEF Lookup, Goto, Results
    <3>2. CASE Match(w)
      BY <3>2 DEF Match, MatchOrder, MatchStatic, Goto, Results
    <3>3. CASE TxRead(w)
      BY <3>3 DEF TxRead, TxReadOrder, TxReadStatic, Goto, Results
    <3>4. CASE TxClaim(w)
      BY <3>4 DEF TxClaim, ClaimOrder, ClaimStatic, Goto, Fail, Results
    <3>5. CASE TxCommit(w) \/ SendReceipt(w) \/ MarkReceipt(w)
      BY <3>5 DEF TxCommit, SendReceipt, MarkReceipt, Goto, Results
    <3> QED
      BY <3>1, <3>2, <3>3, <3>4, <3>5 DEF Step
  <2> QED
    BY <1>1, <2>1, OnlyDuplicateAnswers
<1>3. t = job[w].t
  BY <1>1, <1>2 DEF Answer, IInv, TypeOK, Job
<1>4. pc'[w] = "idle" /\ reported' # reported
  BY <1>2 DEF Answer, IInv, TypeOK
<1>5. CASE Processed(t)
  <2>1. PICK c \in Codes : Stored(c) /\ SameTransfer(t, orders[c].txn)
    BY <1>5 DEF Processed
  <2>2. Completed(c)
    BY <2>1 DEF IInv, RowsOK, SameTransfer
  <2> QED
    BY <2>1, <2>2
<1>6. CASE job[w].order # None /\ Completed(job[w].order)
  BY <1>1, <1>3, <1>6 DEF RequestOK, Job, Codes
<1>7. CASE Matching(t) # None /\ Completed(Matching(t))
  BY <1>1, <1>3, <1>7 DEF Matching, Job, Codes
<1>8. Processed(t) \/ (job[w].order # None /\ Completed(job[w].order))
        \/ (Matching(t) # None /\ Completed(Matching(t)))
  <2> SUFFICES ASSUME ~Processed(t),
                      ~(job[w].order # None /\ Completed(job[w].order)),
                      ~(Matching(t) # None /\ Completed(Matching(t)))
               PROVE  FALSE
    OBVIOUS
  <2>0. \A r \in Results : Answer(w, r) => r = "duplicate"
    <3> SUFFICES ASSUME NEW r \in Results, Answer(w, r), r # "duplicate" PROVE FALSE
      OBVIOUS
    <3> QED
      BY <1>1, OnlyDuplicateAnswers
  <2>1. CASE Lookup(w)
    BY <1>3, <1>4, <2>0, <2>1 DEF Lookup, Goto, Results
  <2>2. CASE Match(w)
    BY <1>3, <1>4, <2>0, <2>2 DEF Match, MatchOrder, MatchStatic, Goto, Results
  <2>3. CASE TxRead(w)
    BY <1>3, <1>4, <2>0, <2>3 DEF TxRead, TxReadOrder, TxReadStatic, Goto, Results
  <2>4. CASE TxClaim(w)
    BY <1>3, <1>4, <2>0, <2>4 DEF TxClaim, ClaimOrder, ClaimStatic, Goto, Fail, Results
  <2>5. CASE TxCommit(w) \/ SendReceipt(w) \/ MarkReceipt(w)
    BY <1>4, <2>0, <2>5 DEF TxCommit, SendReceipt, MarkReceipt, Goto, Results
  <2> QED
    BY <2>1, <2>2, <2>3, <2>4, <2>5 DEF Step
<1> QED
  BY <1>5, <1>6, <1>7, <1>8

\* A "duplicate" answer always rests on a credit for the transfer or its order.
THEOREM DuplicatesAreHonest == Spec => HonestDuplicate
<1> DEFINE A == \A t \in Transfers :
                  "duplicate" \in reported'[t] \ reported[t]
                    => \E c \in Codes : Completed(c)
                         /\ (SameTransfer(t, orders[c].txn) \/ MemoCode[t] = c)
<1>1. IInv /\ [Next]_vars => [A]_vars
  <2> SUFFICES ASSUME IInv, Next, NEW t \in Transfers,
                      "duplicate" \in reported'[t] \ reported[t]
               PROVE  \E c \in Codes : Completed(c)
                         /\ (SameTransfer(t, orders[c].txn) \/ MemoCode[t] = c)
    OBVIOUS
  <2>1. \E w \in Workers : Step(w)
    BY DEF Next, CreateRemoteOrder, PersistOrder, BankTransfer, DeleteStudent, Receive,
       TxTimeout, Fail, Crash
  <2> QED
    BY <2>1, DuplicateEvidence
<1> QED
  BY <1>1, Invariance, PTL DEF Spec, HonestDuplicate

-----------------------------------------------------------------------------
\* Only a commit and a deletion touch the wallet.
LEMMA WalletSteps ==
  ASSUME [Next]_vars
  PROVE  \/ \E w \in Workers : TxCommit(w)
         \/ \E s \in StudentIds : DeleteStudent(s)
         \/ UNCHANGED <<topups, balance>>
  BY DEF Next, vars, dbVars, Step, CreateRemoteOrder, PersistOrder, BankTransfer, Receive, Lookup,
     Match, TxRead, TxClaim, SendReceipt, MarkReceipt, TxTimeout, Crash

(* The balances. *)

\* The sum of a student's rows when one row is added.
LEMMA OneMoreRow ==
  ASSUME IsFiniteSet(topups), topups \subseteq TopUp, NEW x \in TopUp, x \notin topups,
         topups' = topups \cup {x}, NEW s \in StudentIds
  PROVE  SumFunction(AmountsOf(s))' =
           SumFunction(AmountsOf(s)) + IF s = x.student THEN x.amount ELSE 0
<1>1. IsFiniteSet(topups) /\ x \notin topups /\ \A y \in topups \cup {x} : y.amount \in Int
  BY DEF TopUp
<1>2. SumFunction(AmountsIn(topups \cup {x}, s)) =
        SumFunction(AmountsIn(topups, s)) + IF s = x.student THEN x.amount ELSE 0
  BY ONLY <1>1, RowAdded
<1>3. AmountsOf(s) = AmountsIn(topups, s) /\ AmountsOf(s)' = AmountsIn(topups \cup {x}, s)
  BY DEF AmountsOf, AmountsIn
<1> QED
  BY <1>2, <1>3

LEMMA CommitBalances ==
  ASSUME IInv, LedgerOK, NEW w \in Workers, TxCommit(w)
  PROVE  LedgerOK'
<1> DEFINE t == job[w].t
           s == TargetStudent(w)
           x == [code |-> Target(w), student |-> s, amount |-> AmountOf[t], transfer |-> t]
<1>1. /\ t \in Transfers /\ s \in StudentIds /\ Target(w) \in Codes
      /\ \A r \in topups : r.code # Target(w)
  BY HolderFacts DEF TxCommit, Job, IInv, TypeOK
<1>2. /\ x \in TopUp /\ x.student = s /\ x.amount = AmountOf[t] /\ AmountOf[t] \in Nat
      /\ x \notin topups /\ topups' = topups \cup {x}
      /\ balance' = [balance EXCEPT ![s] = @ + AmountOf[t]]
  BY <1>1 DEF TxCommit, TopUp
<1> HIDE DEF t, s, x
<1>3. IsFiniteSet(topups) /\ topups \subseteq TopUp /\ balance \in [StudentIds -> Nat]
  BY DEF LedgerOK, IInv, TypeOK
<1>4. IsFiniteSet(topups')
  BY <1>2, <1>3, FS_AddElement
<1>5. ASSUME NEW q \in StudentIds PROVE balance'[q] = SumFunction(AmountsOf(q))'
  <2>1. balance[q] = SumFunction(AmountsOf(q)) /\ balance[q] \in Nat
    BY <1>3 DEF LedgerOK, BalanceIsLedger
  <2>2. SumFunction(AmountsOf(q))' =
          SumFunction(AmountsOf(q)) + IF q = x.student THEN x.amount ELSE 0
    BY <1>2, <1>3, OneMoreRow
  <2>3. balance'[q] = balance[q] + IF q = s THEN AmountOf[t] ELSE 0
    BY <1>1, <1>2, <1>3, <2>1
  <2> QED
    BY <1>2, <2>1, <2>2, <2>3
<1> QED
  BY <1>4, <1>5 DEF LedgerOK, BalanceIsLedger

LEMMA DeletionBalances ==
  ASSUME IInv, LedgerOK, NEW s \in StudentIds, DeleteStudent(s)
  PROVE  LedgerOK'
<1>1. topups' = {r \in topups : r.student # s} /\ balance' = [balance EXCEPT ![s] = 0]
  BY DEF DeleteStudent
<1>2. IsFiniteSet(topups')
  BY <1>1, FS_Subset DEF LedgerOK
<1>3. ASSUME NEW q \in StudentIds PROVE balance'[q] = SumFunction(AmountsOf(q))'
  <2>1. CASE q = s
    <3>1. DOMAIN AmountsOf(q)' = {}
      BY <1>1, <2>1 DEF AmountsOf
    <3>2. SumFunction(AmountsOf(q)') = 0
      BY <3>1, SumEmpty DEF SumFunction
    <3> QED
      BY <1>1, <2>1, <3>2 DEF IInv, TypeOK
  <2>2. CASE q # s
    <3>1. AmountsOf(q)' = AmountsOf(q)
      BY <1>1, <2>2 DEF AmountsOf
    <3>2. balance'[q] = balance[q]
      BY <1>1, <2>2 DEF IInv, TypeOK
    <3> QED
      BY <3>1, <3>2 DEF LedgerOK, BalanceIsLedger
  <2> QED
    BY <2>1, <2>2
<1> QED
  BY <1>2, <1>3 DEF LedgerOK, BalanceIsLedger

\* The balance of a student is the sum of the student's wallet rows, whatever
\* reports, crashes and deletions interleave.
THEOREM BalancesAreSums == Spec => []BalanceIsLedger
<1>1. Init => LedgerOK
  <2> SUFFICES ASSUME Init PROVE LedgerOK
    OBVIOUS
  <2>1. topups = {} /\ balance = [s \in StudentIds |-> 0]
    BY DEF Init
  <2>2. \A s \in StudentIds : DOMAIN AmountsOf(s) = {}
    BY <2>1 DEF AmountsOf
  <2>3. \A s \in StudentIds : SumFunction(AmountsOf(s)) = 0
    BY <2>2, SumEmpty DEF SumFunction
  <2> QED
    BY <2>1, <2>3, FS_EmptySet DEF LedgerOK, BalanceIsLedger
<1>2. IInv /\ LedgerOK /\ [Next]_vars => LedgerOK'
  <2> SUFFICES ASSUME IInv, LedgerOK, [Next]_vars PROVE LedgerOK'
    OBVIOUS
  <2>1. CASE UNCHANGED <<topups, balance>>
    BY <2>1 DEF LedgerOK, BalanceIsLedger, AmountsOf
  <2>2. \/ \E w \in Workers : TxCommit(w)
        \/ \E s \in StudentIds : DeleteStudent(s)
        \/ UNCHANGED <<topups, balance>>
    BY WalletSteps
  <2> QED
    BY <2>1, <2>2, CommitBalances, DeletionBalances
<1>3. LedgerOK => BalanceIsLedger
  BY DEF LedgerOK
<1> QED
  BY <1>1, <1>2, <1>3, Invariance, PTL DEF Spec

-----------------------------------------------------------------------------
(* The receipts. *)

\* A step that writes no order and no mail, and moves nobody into the mailing.
LEMMA ReceiptsKept ==
  ASSUME ReceiptsOK, UNCHANGED <<students, orders, mailed>>,
         \A v \in Workers : pc'[v] \in {"receipt", "mark"} => pc'[v] = pc[v] /\ job'[v] = job[v]
  PROVE  ReceiptsOK'
<1>1. \A v \in Workers : pc'[v] \in {"receipt", "mark"} => Target(v)' = Target(v)
  BY DEF Target, TargetOf
<1>2. OneReceiptPerOrder'
  BY <1>1 DEF ReceiptsOK, OneReceiptPerOrder, Stored, Completed
<1> QED
  BY <1>1, <1>2 DEF ReceiptsOK, Completed

\* An order row that is not committed as paid appears or becomes pending.
LEMMA OpenOrderReceipts ==
  ASSUME IInv, ReceiptsOK, NEW c \in OrderCodes, NEW row \in Row,
         orders[c].status \in {"none", "remote"}, row.status \in {"remote", "pending"},
         row.receiptSent => orders[c].receiptSent,
         orders' = [orders EXCEPT ![c] = row],
         UNCHANGED <<students, pc, job, mailed>>
  PROVE  ReceiptsOK'
<1>1. \A d \in Codes : orders'[d] = IF d = c THEN row ELSE orders[d]
  BY DEF IInv, TypeOK
<1>2. c \in Codes /\ c \notin Transfers /\ c \notin mailed
  BY DEF ReceiptsOK, Codes
<1>3. ~orders[c].receiptSent
  BY <1>2 DEF ReceiptsOK, OneReceiptPerOrder
<1>4. \A v \in Workers : /\ Target(v)' = Target(v)
                         /\ pc[v] \in {"receipt", "mark"} => Target(v) \in Codes \ {c}
  <2>1. ASSUME NEW v \in Workers, pc[v] \in {"receipt", "mark"} PROVE Target(v) \in Codes \ {c}
    BY <2>1, BusyRequest DEF ReceiptsOK, Target, TargetOf, Job, Codes
  <2> QED
    BY <2>1 DEF Target, TargetOf
<1>5. \A d \in mailed : d \in Codes \ {c}
  BY <1>2 DEF IInv, TypeOK
<1>6. OneReceiptPerOrder'
  BY <1>1, <1>3, <1>4, <1>5 DEF ReceiptsOK, OneReceiptPerOrder, Stored, Completed
<1> QED
  BY <1>1, <1>2, <1>4, <1>5, <1>6 DEF ReceiptsOK, Completed, Codes

LEMMA CreateRemoteOrderReceipts ==
  ASSUME IInv, ReceiptsOK, NEW q \in OrderRequests, CreateRemoteOrder(q)
  PROVE  ReceiptsOK'
<1> DEFINE row == [NoRow EXCEPT !.status = "remote", !.student = q.student,
                                !.amount = q.amount, !.account = q.account]
<1>1. row \in Row /\ row.status = "remote" /\ ~row.receiptSent
  BY DEF Row, NoRow, Statuses, Codes
<1>2. q.code \in OrderCodes /\ orders[q.code].status = "none" /\ orders' = [orders EXCEPT ![q.code] = row]
  BY DEF CreateRemoteOrder
<1> HIDE DEF row
<1> QED
  BY <1>1, <1>2, OpenOrderReceipts DEF CreateRemoteOrder

LEMMA PersistOrderReceipts ==
  ASSUME IInv, ReceiptsOK, NEW c \in OrderCodes, PersistOrder(c)
  PROVE  ReceiptsOK'
<1> DEFINE row == [orders[c] EXCEPT !.status = "pending"]
<1>1. orders[c] \in Row
  BY DEF IInv, TypeOK, Codes
<1>2. row \in Row /\ row.status = "pending" /\ row.receiptSent = orders[c].receiptSent
  BY <1>1 DEF Row, Statuses
<1>3. orders' = [orders EXCEPT ![c] = row]
  BY DEF PersistOrder
<1> HIDE DEF row
<1> QED
  BY <1>2, <1>3, OpenOrderReceipts DEF PersistOrder

LEMMA DeleteStudentReceipts ==
  ASSUME IInv, ReceiptsOK, NEW s \in StudentIds, DeleteStudent(s)
  PROVE  ReceiptsOK'
<1> DEFINE gone == [NoRow EXCEPT !.status = "deleted"]
<1>1. gone.status = "deleted" /\ ~gone.receiptSent
  BY DEF NoRow
<1>2. \A c \in Codes : orders'[c] = IF orders[c].student = s /\ Stored(c) THEN gone ELSE orders[c]
  BY DEF DeleteStudent
<1> HIDE DEF gone
<1>3. students' = students \ {s} /\ UNCHANGED <<pc, job, mailed>>
  BY DEF DeleteStudent
<1>4. \A v \in Workers : Target(v)' = Target(v)
  BY <1>3 DEF Target, TargetOf
<1>5. \A v \in Workers : pc[v] \in {"receipt", "mark"} => Target(v) \in Codes
  BY BusyRequest DEF Target, TargetOf, Job, Codes
<1>6. mailed \subseteq Codes
  BY DEF IInv, TypeOK
<1>7. OneReceiptPerOrder'
  BY <1>1, <1>2, <1>3, <1>4, <1>6 DEF ReceiptsOK, OneReceiptPerOrder, Stored, Completed
<1>8. ASSUME NEW t \in Transfers
      PROVE  /\ Completed(t)' => orders'[t].student = MemoStudent[t]
             /\ orders'[t].status = "deleted" => MemoStudent[t] \notin students'
  <2>1. t \in Codes /\ orders[t].status \in {"none", "completed", "deleted"}
    BY DEF IInv, RowsOK, Codes
  <2> QED
    BY <1>1, <1>2, <1>3, <2>1 DEF ReceiptsOK, Completed, Stored
<1> QED
  BY <1>1, <1>2, <1>3, <1>4, <1>5, <1>6, <1>7, <1>8 DEF ReceiptsOK

LEMMA TxCommitReceipts ==
  ASSUME IInv, ReceiptsOK, NEW w \in Workers, TxCommit(w)
  PROVE  ReceiptsOK'
<1> DEFINE t == job[w].t
           x == Target(w)
           row == CompletedRow(w)
<1>1. /\ job[w] \in Job /\ HolderOK(job[w]) /\ x \in Codes
      /\ row.status = "completed" /\ row.student = TargetStudent(w)
  BY HolderFacts DEF TxCommit
<1>2. orders[x].status \in {"none", "pending"}
  <2>1. CASE job[w].order = None
    <3>1. x = t /\ t \in Transfers /\ ~Stored(t) /\ MemoStudent[t] \in students
      BY <1>1, <2>1 DEF Target, TargetOf, HolderOK, Job
    <3> QED
      BY <3>1 DEF IInv, RowsOK, ReceiptsOK, Stored, Codes
  <2>2. CASE job[w].order # None
    BY <1>1, <2>2 DEF Target, TargetOf, HolderOK
  <2> QED
    BY <2>1, <2>2
<1>3. x \notin mailed /\ ~orders[x].receiptSent
  BY <1>1, <1>2 DEF ReceiptsOK, OneReceiptPerOrder
<1>4. ~row.receiptSent
  <2>1. CASE job[w].order = None
    BY <2>1 DEF CompletedRow
  <2>2. CASE job[w].order # None
    <3>1. x = job[w].order /\ orders[x] \in Row
      BY <1>1, <2>2 DEF Target, TargetOf, IInv, TypeOK
    <3>2. row = [orders[x] EXCEPT !.status = "completed", !.txn = t]
      BY <2>2, <3>1 DEF CompletedRow
    <3> QED
      BY <1>3, <3>1, <3>2 DEF Row
  <2> QED
    BY <2>1, <2>2
<1>5. x \in Transfers => row.student = MemoStudent[x]
  BY <1>1 DEF Target, TargetOf, TargetStudent, Job
<1>6. \A c \in Codes : orders'[c] = IF c = x THEN row ELSE orders[c]
  BY DEF TxCommit, IInv, TypeOK
<1>7. UNCHANGED <<students, job, mailed>> /\ \A v \in Workers : pc'[v] = IF v = w THEN "receipt" ELSE pc[v]
  BY DEF TxCommit, Goto, IInv, TypeOK
<1>8. \A v \in Workers : Target(v)' = Target(v)
  BY <1>7 DEF Target, TargetOf
<1>9. \A v \in Workers : pc[v] \in {"receipt", "mark"} => Target(v) \in Codes \ {x}
  <2> SUFFICES ASSUME NEW v \in Workers, pc[v] \in {"receipt", "mark"} PROVE Target(v) \in Codes \ {x}
    OBVIOUS
  <2>1. Target(v) \in Codes
    BY BusyRequest DEF Target, TargetOf, Job, Codes
  <2>2. orders[Target(v)].status \in {"completed", "deleted"}
    BY DEF ReceiptsOK
  <2> QED
    BY <1>2, <2>1, <2>2
<1>10. \A c \in mailed : c \in Codes \ {x}
  BY <1>3 DEF IInv, TypeOK
<1>11. Target(w) = x
  OBVIOUS
<1> HIDE DEF x, row
<1>12. OneReceiptPerOrder'
  <2>1. \A v \in Workers : pc'[v] = "receipt" => Target(v)' \notin mailed'
    BY <1>3, <1>7, <1>8, <1>11 DEF ReceiptsOK, OneReceiptPerOrder
  <2>2. \A u, v \in Workers :
          pc'[u] \in {"receipt", "mark"} /\ pc'[v] \in {"receipt", "mark"} /\ u # v
            => Target(u)' # Target(v)'
    BY <1>7, <1>8, <1>9, <1>11 DEF ReceiptsOK, OneReceiptPerOrder
  <2>3. \A c \in mailed' : Stored(c)' => Completed(c)'
    BY <1>6, <1>7, <1>10 DEF ReceiptsOK, OneReceiptPerOrder, Stored, Completed
  <2>4. \A c \in Codes : orders'[c].receiptSent => c \in mailed'
    BY <1>4, <1>6, <1>7 DEF ReceiptsOK, OneReceiptPerOrder
  <2> QED
    BY <2>1, <2>2, <2>3, <2>4 DEF OneReceiptPerOrder
<1>13. \A v \in Workers : pc'[v] \in {"receipt", "mark"} =>
          orders'[Target(v)'].status \in {"completed", "deleted"}
  BY <1>1, <1>6, <1>7, <1>8, <1>9, <1>11 DEF ReceiptsOK
<1>14. \A v \in Workers : pc'[v] = "mark" => Target(v)' \in mailed'
  BY <1>7, <1>8 DEF ReceiptsOK
<1>15. \A c \in mailed' : orders'[c].status \in {"completed", "deleted"}
  BY <1>6, <1>7, <1>10 DEF ReceiptsOK
<1>16. \A u \in Transfers : /\ Completed(u)' => orders'[u].student = MemoStudent[u]
                            /\ orders'[u].status = "deleted" => MemoStudent[u] \notin students'
  BY <1>1, <1>5, <1>6, <1>7 DEF ReceiptsOK, Completed, Codes
<1> QED
  BY <1>12, <1>13, <1>14, <1>15, <1>16 DEF ReceiptsOK

LEMMA SendReceiptReceipts ==
  ASSUME IInv, ReceiptsOK, NEW w \in Workers, SendReceipt(w)
  PROVE  ReceiptsOK'
<1>1. CASE Answer(w, "credited") /\ UNCHANGED mailed
  BY <1>1, ReceiptsKept DEF SendReceipt, Answer, dbVars, IInv, TypeOK
<1>2. CASE Stored(Target(w)) /\ mailed' = mailed \cup {Target(w)} /\ Goto(w, "mark")
  <2>1. pc[w] = "receipt" /\ UNCHANGED <<students, orders, job>>
    BY <1>2 DEF SendReceipt, dbVars, Goto
  <2>2. \A v \in Workers : Target(v)' = Target(v) /\ pc'[v] = IF v = w THEN "mark" ELSE pc[v]
    BY <1>2, <2>1 DEF Goto, Target, TargetOf, IInv, TypeOK
  <2>3. Completed(Target(w))
    BY <1>2, <2>1 DEF ReceiptsOK, Stored, Completed
  <2>4. OneReceiptPerOrder'
    BY <1>2, <2>1, <2>2, <2>3 DEF ReceiptsOK, OneReceiptPerOrder, Stored, Completed
  <2> QED
    BY <1>2, <2>1, <2>2, <2>3, <2>4 DEF ReceiptsOK, Completed
<1> QED
  BY <1>1, <1>2 DEF SendReceipt

LEMMA MarkReceiptReceipts ==
  ASSUME IInv, ReceiptsOK, NEW w \in Workers, MarkReceipt(w)
  PROVE  ReceiptsOK'
<1>1. UNCHANGED <<students, mailed>> /\ pc[w] = "mark" /\ Target(w) \in mailed
  BY DEF MarkReceipt, ReceiptsOK
<1>2. \A c \in Codes : /\ orders'[c].status = orders[c].status
                       /\ orders'[c].student = orders[c].student
                       /\ orders'[c].receiptSent => orders[c].receiptSent \/ c = Target(w)
  <2>1. orders \in [Codes -> Row]
    BY DEF IInv, TypeOK
  <2>2. CASE ~Stored(Target(w))
    BY <2>1, <2>2 DEF MarkReceipt
  <2>3. CASE Stored(Target(w))
    <3>1. orders' = [orders EXCEPT ![Target(w)].receiptSent = TRUE]
      BY <2>3 DEF MarkReceipt
    <3>2. ASSUME NEW c \in Codes
          PROVE  orders'[c] = IF c = Target(w) THEN [orders[c] EXCEPT !.receiptSent = TRUE] ELSE orders[c]
      BY <2>1, <3>1
    <3>3. \A row \in Row : /\ [row EXCEPT !.receiptSent = TRUE].status = row.status
                           /\ [row EXCEPT !.receiptSent = TRUE].student = row.student
      BY DEF Row
    <3> QED
      BY <2>1, <3>2, <3>3
  <2> QED
    BY <2>2, <2>3
<1>3. \A v \in Workers : pc'[v] \in {"receipt", "mark"} =>
          pc'[v] = pc[v] /\ Target(v)' = Target(v) /\ Target(v) \in Codes
  <2>1. \A v \in Workers : pc'[v] = IF v = w THEN "idle" ELSE pc[v]
    BY DEF MarkReceipt, Answer, IInv, TypeOK
  <2>2. \A v \in Workers \ {w} : Target(v)' = Target(v)
    BY DEF MarkReceipt, Answer, IInv, TypeOK, Target, TargetOf
  <2>3. \A v \in Workers : pc[v] \in {"receipt", "mark"} => Target(v) \in Codes
    BY BusyRequest DEF Target, TargetOf, Job, Codes
  <2> QED
    BY <2>1, <2>2, <2>3
<1>4. mailed \subseteq Codes
  BY DEF IInv, TypeOK
<1>5. OneReceiptPerOrder'
  BY <1>1, <1>2, <1>3, <1>4 DEF ReceiptsOK, OneReceiptPerOrder, Stored, Completed
<1> QED
  BY <1>1, <1>2, <1>3, <1>4, <1>5 DEF ReceiptsOK, Completed, Codes

LEMMA NextReceipts == IInv /\ ReceiptsOK /\ [Next]_vars => ReceiptsOK'
<1> SUFFICES ASSUME IInv, ReceiptsOK, [Next]_vars PROVE ReceiptsOK'
  OBVIOUS
<1>1. ASSUME NEW q \in OrderRequests, CreateRemoteOrder(q) PROVE ReceiptsOK'
  BY <1>1, CreateRemoteOrderReceipts
<1>2. ASSUME NEW c \in OrderCodes, PersistOrder(c) PROVE ReceiptsOK'
  BY <1>2, PersistOrderReceipts
<1>3. ASSUME NEW t \in Transfers, BankTransfer(t) PROVE ReceiptsOK'
  BY <1>3, ReceiptsKept DEF BankTransfer, dbVars
<1>4. ASSUME NEW s \in StudentIds, DeleteStudent(s) PROVE ReceiptsOK'
  BY <1>4, DeleteStudentReceipts
<1>5. ASSUME NEW w \in Workers, NEW t \in Transfers, Receive(w, t) PROVE ReceiptsOK'
  BY <1>5, ReceiptsKept DEF Receive, dbVars, IInv, TypeOK
<1>6. ASSUME NEW w \in Workers, Step(w) PROVE ReceiptsOK'
  <2>1. CASE Lookup(w) \/ Match(w)
    <3>1. UNCHANGED <<students, orders, mailed>>
      BY <2>1 DEF Lookup, Match, dbVars
    <3>2. \E l \in Labels \ {"receipt", "mark"} : pc' = [pc EXCEPT ![w] = l]
      BY <2>1 DEF Lookup, Match, MatchOrder, MatchStatic, Answer, Goto, Labels
    <3>3. \E j : job' = [job EXCEPT ![w] = j] \/ job' = job
      BY <2>1 DEF Lookup, Match, MatchOrder, MatchStatic, Answer, Goto
    <3> QED
      BY <3>1, <3>2, <3>3, ReceiptsKept DEF IInv, TypeOK
  <2>2. CASE TxRead(w) \/ TxClaim(w)
    <3>1. UNCHANGED <<students, orders, mailed>>
      BY <2>2 DEF TxRead, TxClaim, dbVars
    <3>2. \E l \in Labels \ {"receipt", "mark"} : pc' = [pc EXCEPT ![w] = l]
      BY <2>2 DEF TxRead, TxReadOrder, TxReadStatic, TxClaim, ClaimOrder, ClaimStatic, Answer, Goto,
         Fail, Labels
    <3>3. \E j : job' = [job EXCEPT ![w] = j] \/ job' = job
      BY <2>2 DEF TxRead, TxReadOrder, TxReadStatic, TxClaim, ClaimOrder, ClaimStatic, Answer, Goto,
         Fail
    <3> QED
      BY <3>1, <3>2, <3>3, ReceiptsKept DEF IInv, TypeOK
  <2> QED
    BY <1>6, <2>1, <2>2, TxCommitReceipts, SendReceiptReceipts, MarkReceiptReceipts DEF Step
<1>7. ASSUME NEW w \in Workers, TxTimeout(w) PROVE ReceiptsOK'
  BY <1>7, ReceiptsKept DEF TxTimeout, Fail, dbVars, IInv, TypeOK
<1>8. CASE Crash
  BY <1>8, ReceiptsKept DEF Crash, dbVars
<1>9. CASE UNCHANGED vars
  BY <1>9, ReceiptsKept DEF vars
<1> QED
  BY <1>1, <1>2, <1>3, <1>4, <1>5, <1>6, <1>7, <1>8, <1>9 DEF Next

\* At most one receipt mail goes out per paid order, and only for a paid order,
\* whatever reports, crashes and deletions interleave.
THEOREM OneReceipt == Spec => []OneReceiptPerOrder
<1>1. Init => ReceiptsOK
  <2> SUFFICES ASSUME Init PROVE ReceiptsOK
    OBVIOUS
  <2>1. \A c \in Codes : orders[c].status = "none" /\ ~orders[c].receiptSent
    BY DEF Init, NoRow
  <2>2. mailed = {} /\ \A w \in Workers : pc[w] = "idle"
    BY DEF Init
  <2> QED
    BY <2>1, <2>2 DEF ReceiptsOK, OneReceiptPerOrder, Completed, Codes
<1>2. IInv /\ ReceiptsOK /\ [Next]_vars => ReceiptsOK'
  BY NextReceipts
<1>3. ReceiptsOK => OneReceiptPerOrder
  BY DEF ReceiptsOK
<1> QED
  BY <1>1, <1>2, <1>3, Invariance, PTL DEF Spec

-----------------------------------------------------------------------------
\* The credits of the abstract ledger, and how each step changes them.
Credits == {[source |-> r.transfer, student |-> r.student] : r \in topups}

LEMMA CommitIsCredit ==
  ASSUME IInv, NEW w \in Workers, TxCommit(w)
  PROVE  \E x \in Transfers, s \in StudentIds : Ledger!Credit(x, s)
<1> DEFINE t == job[w].t
           s == TargetStudent(w)
           new == [code |-> Target(w), student |-> s, amount |-> AmountOf[t], transfer |-> t]
<1>1. /\ t \in Transfers /\ s \in StudentIds
      /\ \A r \in topups : ~SameTransfer(t, r.transfer)
  BY HolderFacts DEF TxCommit, Job, IInv, TypeOK
<1>2. ~Ledger!Credited(t)
  BY <1>1 DEF Ledger!Credited, IInv, TypeOK, TopUp, SameTransfer
<1>3. /\ topups' = topups \cup {new} /\ balance' = [balance EXCEPT ![s] = @ + AmountOf[t]]
      /\ new.transfer = t /\ new.student = s
  BY DEF TxCommit
<1> HIDE DEF t, s, new
<1>4. Credits' = Credits \cup {[source |-> t, student |-> s]}
  BY <1>3, Zenon DEF Credits
<1> QED
  BY <1>1, <1>2, <1>3, <1>4 DEF Ledger!Credit, Credits

LEMMA DeletionForgets ==
  ASSUME IInv, NEW s \in StudentIds, DeleteStudent(s)
  PROVE  Ledger!Forget(s)
<1>1. topups' = {r \in topups : r.student # s}
  BY DEF DeleteStudent
<1>2. Credits' = {x \in Credits : x.student # s}
  BY <1>1 DEF Credits
<1> QED
  BY <1>2 DEF Ledger!Forget, Credits, DeleteStudent

\* The webhook implements the abstract ledger: one credit per transfer, in one
\* step, together with the balance.
THEOREM ImplementsLedger == Spec => LedgerSpec
<1>1. Init => Ledger!Init
  BY DEF Init, Ledger!Init
<1>2. IInv /\ [Next]_vars => [Ledger!Next]_<<Credits, balance>>
  <2> SUFFICES ASSUME IInv, [Next]_vars PROVE Ledger!Next \/ UNCHANGED <<Credits, balance>>
    OBVIOUS
  <2>1. ASSUME NEW w \in Workers, TxCommit(w) PROVE Ledger!Next
    BY <2>1, CommitIsCredit DEF Ledger!Next
  <2>2. ASSUME NEW s \in StudentIds, DeleteStudent(s) PROVE Ledger!Next
    BY <2>2, DeletionForgets DEF Ledger!Next
  <2>3. CASE UNCHANGED <<topups, balance>>
    BY <2>3 DEF Credits
  <2>4. \/ \E w \in Workers : TxCommit(w)
        \/ \E s \in StudentIds : DeleteStudent(s)
        \/ UNCHANGED <<topups, balance>>
    BY WalletSteps
  <2> QED
    BY <2>1, <2>2, <2>3, <2>4
<1>3. [Ledger!Next]_<<Credits, balance>> => [Ledger!Next]_Ledger!ledgerVars
  BY DEF Credits, Ledger!ledgerVars
<1> QED
  BY <1>1, <1>2, <1>3, Invariance, PTL DEF Spec, LedgerSpec, Ledger!Spec
=============================================================================
