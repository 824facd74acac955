---------------------------- MODULE SepayWebhook ----------------------------
(***************************************************************************)
(* Reconciliation of SePay bank-transfer webhooks with student wallets.    *)
(*                                                                         *)
(* SePay reports every bank transfer by an HTTP webhook and repeats the    *)
(* report until it is answered, so one transfer may be handled by several  *)
(* requests at once.  A request is a worker here.  It looks at the         *)
(* database outside any transaction, then opens a READ COMMITTED           *)
(* transaction that looks again, claims an order row (or inserts a         *)
(* completed one for a static QR payment), writes the wallet row, moves    *)
(* the balance and commits; the receipt mail follows the commit.           *)
(*                                                                         *)
(* A transaction's reads see committed rows only.  Its first write takes   *)
(* the row lock and the unique-index entries (order code, SePay id,        *)
(* reference code) that a concurrent writer has to wait for; the rest of   *)
(* the transaction is invisible until the commit and is one step.          *)
(***************************************************************************)
EXTENDS Integers, FiniteSets, FiniteSetsExt

CONSTANTS
  Transfers,      \* bank transfers, each with its own SePay transaction id
  RefOf,          \* [Transfers -> reference codes]; not necessarily distinct
  AmountOf,       \* [Transfers -> Nat] transferAmount
  AccountOf,      \* [Transfers -> accounts] receiving account
  MemoCode,       \* [Transfers -> OrderCodes \cup {None}] order code in the memo
  MemoStudent,    \* [Transfers -> StudentIds \cup {None}] UNIST token in the memo
  Inbound,        \* the transfers whose transferType is 'in'
  OrderCodes,     \* codes of dynamic top-up orders
  OrderRequests,  \* orders that may be asked for: [code, student, amount, account]
  Accounts,       \* bank accounts
  StaticAccount,  \* SEPAY_TRANSFER_ACCOUNT_NUMBER, None when not configured
  StudentIds,
  Workers,        \* concurrent webhook requests
  None,
  MaxTransfers,   \* bound: transfers made in one behaviour
  MaxFaults       \* bound: crashes, timeouts and repeated reports of answered transfers

ASSUME TransferAssumption ==
  /\ RefOf \in [Transfers -> Transfers]   \* a reference code is named by a transfer that bears it
  /\ AmountOf \in [Transfers -> Nat]
  /\ AccountOf \in [Transfers -> Accounts]
  /\ MemoCode \in [Transfers -> OrderCodes \cup {None}]
  /\ MemoStudent \in [Transfers -> StudentIds \cup {None}]
  /\ Inbound \subseteq Transfers

ASSUME ConstantAssumption ==
  /\ OrderRequests \subseteq [code : OrderCodes, student : StudentIds, amount : Nat,
                             account : Accounts \cup {None}]
  /\ StaticAccount \in Accounts \cup {None}
  /\ OrderCodes \cap Transfers = {}
  /\ None \notin Transfers \cup OrderCodes \cup StudentIds \cup Accounts
  /\ MaxTransfers \in Nat /\ MaxFaults \in Nat

VARIABLES
  students,   \* ids of the students that exist
  orders,     \* order code -> row of student_wallet_sepay_orders
  topups,     \* wallet_transactions_history rows of type topup
  balance,    \* student id -> accountBalance
  pc,         \* worker -> where its request stands
  job,        \* worker -> what it holds in local variables
  sent,       \* transfers the bank has made
  reported,   \* transfer -> results the webhook has answered so far
  mailed,     \* orders for which a receipt mail has gone out
  faults      \* faults so far

vars == <<students, orders, topups, balance, pc, job, sent, reported, mailed, faults>>
dbVars == <<students, orders, topups, balance>>
-----------------------------------------------------------------------------
\* The code of a static QR order is a digest of the transfer's reference and
\* id: the transfer itself stands for it.
Codes == OrderCodes \cup Transfers

Results == {"ignored", "duplicate", "unmatched", "amount_mismatch", "account_mismatch", "credited"}

\* "remote": known to SePay, not (yet) in the database.
Statuses == {"none", "remote", "pending", "completed", "deleted"}
Row == [status : Statuses, student : StudentIds \cup {None}, amount : Nat,
        account : Accounts \cup {None}, txn : Transfers \cup {None}, receiptSent : BOOLEAN]
NoRow == [status |-> "none", student |-> None, amount |-> 0,
          account |-> None, txn |-> None, receiptSent |-> FALSE]

TopUp == [code : Codes, student : StudentIds, amount : Nat, transfer : Transfers]
Job == [t : Transfers, order : OrderCodes \cup {None}]
NoJob == [t |-> None, order |-> None]

Stored(c) == orders[c].status \in {"pending", "completed"}
Completed(c) == orders[c].status = "completed"

\* findProcessedOrder: a stored order with this SePay id or reference code.
SameTransfer(t, u) == u # None /\ (u = t \/ RefOf[u] = RefOf[t])
Processed(t) == \E c \in Codes : Stored(c) /\ SameTransfer(t, orders[c].txn)

\* findMatchingOrder: the stored order whose code the memo carries.
Matching(t) ==
  IF MemoCode[t] # None /\ Stored(MemoCode[t]) THEN MemoCode[t] ELSE None

\* Mutant: the amount is not compared.
AmountUnchecked(c, t) == FALSE

AmountMismatch(c, t) == orders[c].amount # AmountOf[t]
AccountMismatch(c, t) == orders[c].account # None /\ orders[c].account # AccountOf[t]

\* The row a worker's transaction writes: the matched order, or the static
\* order that the transfer itself names.
TargetOf(j) == IF j.order = None THEN j.t ELSE j.order
Target(w) == TargetOf(job[w])
TargetStudent(w) ==
  IF job[w].order = None THEN MemoStudent[job[w].t] ELSE orders[job[w].order].student

Labels == {"idle", "lookup", "match", "begin", "claim", "claimed", "receipt", "mark"}
InTransaction == {"begin", "claim", "claimed"}
Holding(w) == pc[w] = "claimed"
-----------------------------------------------------------------------------
Init ==
  /\ students = StudentIds
  /\ orders = [c \in Codes |-> NoRow]
  /\ topups = {}
  /\ balance = [s \in StudentIds |-> 0]
  /\ pc = [w \in Workers |-> "idle"]
  /\ job = [w \in Workers |-> NoJob]
  /\ sent = {}
  /\ reported = [t \in Transfers |-> {}]
  /\ mailed = {}
  /\ faults = 0

\* createStudentSePayTopUpOrder, first half: SePay accepts the order.  A code
\* SePay already knows is answered 409 and another one is drawn.
CreateRemoteOrder(q) ==
  /\ q.student \in students /\ orders[q.code].status = "none"
  /\ orders' = [orders EXCEPT ![q.code] =
       [NoRow EXCEPT !.status = "remote", !.student = q.student,
                     !.amount = q.amount, !.account = q.account]]
  /\ UNCHANGED <<students, topups, balance, pc, job, sent, reported, mailed, faults>>

\* ... second half: the row is persisted.  It never is if the process stops in
\* between, and the insert fails if the student is gone.
PersistOrder(c) ==
  /\ orders[c].status = "remote" /\ orders[c].student \in students
  /\ orders' = [orders EXCEPT ![c].status = "pending"]
  /\ UNCHANGED <<students, topups, balance, pc, job, sent, reported, mailed, faults>>

\* Somebody makes a bank transfer (external).
BankTransfer(t) ==
  /\ t \notin sent /\ Cardinality(sent) < MaxTransfers
  /\ sent' = sent \cup {t}
  /\ UNCHANGED <<dbVars, pc, job, reported, mailed, faults>>

\* Mutant: orders outlive their student (ON DELETE SET NULL).
DeleteSetsNull(s) ==
  /\ s \in students
  /\ \A w \in Workers : Holding(w) => TargetStudent(w) # s
  /\ students' = students \ {s}
  /\ orders' = [c \in Codes |->
       IF orders[c].student = s /\ Stored(c)
       THEN [orders[c] EXCEPT !.student = None] ELSE orders[c]]
  /\ topups' = {r \in topups : r.student # s}
  /\ balance' = [balance EXCEPT ![s] = 0]
  /\ UNCHANGED <<pc, job, sent, reported, mailed, faults>>

\* deleteStudent: orders and wallet rows go with the student (ON DELETE
\* CASCADE); it waits for transactions that hold one of those rows.
DeleteStudent(s) ==
  /\ s \in students
  /\ \A w \in Workers : Holding(w) => TargetStudent(w) # s
  /\ students' = students \ {s}
  /\ orders' = [c \in Codes |->
       IF orders[c].student = s /\ Stored(c)
       THEN [NoRow EXCEPT !.status = "deleted"] ELSE orders[c]]
  /\ topups' = {r \in topups : r.student # s}
  /\ balance' = [balance EXCEPT ![s] = 0]
  /\ UNCHANGED <<pc, job, sent, reported, mailed, faults>>
-----------------------------------------------------------------------------
\* The request is over: SePay reads success, whatever the result.
Answer(w, result) ==
  /\ pc' = [pc EXCEPT ![w] = "idle"]
  /\ job' = [job EXCEPT ![w] = NoJob]
  /\ reported' = [reported EXCEPT ![job[w].t] = @ \cup {result}]

\* Mutants: a failed request retries the statement that failed; is acknowledged
\* although it did nothing.
FailRetries(w) == pc' = [pc EXCEPT ![w] = "claim"] /\ UNCHANGED <<job, reported>>
FailAcknowledged(w) == Answer(w, "unmatched")

\* The request is over with an HTTP 500: nothing is reported and the
\* transaction, if any, is rolled back.
Fail(w) ==
  /\ pc' = [pc EXCEPT ![w] = "idle"]
  /\ job' = [job EXCEPT ![w] = NoJob]
  /\ UNCHANGED reported

Goto(w, label) == pc' = [pc EXCEPT ![w] = label] /\ UNCHANGED <<job, reported>>

\* SePay posts a transfer that it has had no success answer for, or posts it
\* again although it has (a lost answer, a manual replay).
Receive(w, t) ==
  /\ pc[w] = "idle" /\ t \in sent
  /\ IF reported[t] = {} THEN UNCHANGED faults
                         ELSE faults < MaxFaults /\ faults' = faults + 1
  /\ pc' = [pc EXCEPT ![w] = "lookup"]
  /\ job' = [job EXCEPT ![w] = [t |-> t, order |-> None]]
  /\ UNCHANGED <<dbVars, sent, reported, mailed>>

\* reconcile, the checks before the transaction: processed already?
Lookup(w) ==
  /\ pc[w] = "lookup"
  /\ LET t == job[w].t IN
       \/ t \notin Inbound /\ Answer(w, "ignored")
       \/ t \in Inbound /\ Processed(t) /\ Answer(w, "duplicate")
       \/ t \in Inbound /\ ~Processed(t) /\ Goto(w, "match")
  /\ UNCHANGED <<dbVars, sent, mailed, faults>>

MatchOrder(w, t, c) ==
  \/ Completed(c) /\ Answer(w, "duplicate")
  \/ ~Completed(c) /\ AmountMismatch(c, t) /\ Answer(w, "amount_mismatch")
  \/ ~Completed(c) /\ ~AmountMismatch(c, t) /\ AccountMismatch(c, t)
       /\ Answer(w, "account_mismatch")
  \/ /\ ~Completed(c) /\ ~AmountMismatch(c, t) /\ ~AccountMismatch(c, t)
     /\ pc' = [pc EXCEPT ![w] = "begin"]
     /\ job' = [job EXCEPT ![w] = [t |-> t, order |-> c]]
     /\ UNCHANGED reported

MatchStatic(w, t) ==
  \/ MemoStudent[t] = None /\ Answer(w, "unmatched")
  \/ MemoStudent[t] # None /\ StaticAccount # AccountOf[t] /\ Answer(w, "account_mismatch")
  \/ MemoStudent[t] # None /\ StaticAccount = AccountOf[t] /\ AmountOf[t] = 0
       /\ Answer(w, "unmatched")
  \/ MemoStudent[t] # None /\ StaticAccount = AccountOf[t] /\ AmountOf[t] > 0
       /\ Goto(w, "begin")

\* ... and is there an order or a student that it pays?
Match(w) ==
  /\ pc[w] = "match"
  /\ LET t == job[w].t  c == Matching(t) IN
       IF c # None THEN MatchOrder(w, t, c) ELSE MatchStatic(w, t)
  /\ UNCHANGED <<dbVars, sent, mailed, faults>>
-----------------------------------------------------------------------------
TxReadOrder(w, t, c) ==
  \/ ~Stored(c) /\ Answer(w, "unmatched")
  \/ Completed(c) /\ Answer(w, "duplicate")
  \/ Stored(c) /\ ~Completed(c) /\ AmountMismatch(c, t) /\ Answer(w, "amount_mismatch")
  \/ Stored(c) /\ ~Completed(c) /\ ~AmountMismatch(c, t) /\ AccountMismatch(c, t)
       /\ Answer(w, "account_mismatch")
  \/ Stored(c) /\ ~Completed(c) /\ ~AmountMismatch(c, t) /\ ~AccountMismatch(c, t)
       /\ Goto(w, "claim")

TxReadStatic(w, t) ==
  \/ MemoStudent[t] \notin students /\ Answer(w, "unmatched")
  \/ MemoStudent[t] \in students /\ Goto(w, "claim")

\* The transaction's reads repeat the checks on committed rows.
TxRead(w) ==
  /\ pc[w] = "begin"
  /\ LET t == job[w].t IN
       \/ Processed(t) /\ Answer(w, "duplicate")
       \/ ~Processed(t) /\ job[w].order # None /\ TxReadOrder(w, t, job[w].order)
       \/ ~Processed(t) /\ job[w].order = None /\ TxReadStatic(w, t)
  /\ UNCHANGED <<dbVars, sent, mailed, faults>>

\* Another open transaction holds the row or one of the unique keys.
Blocked(w) ==
  \E v \in Workers \ {w} :
    Holding(v) /\ (Target(v) = Target(w) \/ SameTransfer(job[w].t, job[v].t))

\* Mutant: no unique index on the SePay id and the reference code.
NoUniqueIndex(w) == FALSE

\* A unique key (SePay id, reference code) of another committed row is hit.
UniqueViolation(w) ==
  \E c \in Codes \ {Target(w)} : Stored(c) /\ SameTransfer(job[w].t, orders[c].txn)

\* Mutant: the claim does not ask for a pending row.
ClaimAnyOrder(w, c) ==
  \/ ~Stored(c) /\ Answer(w, "unmatched")
  \/ Stored(c) /\ UniqueViolation(w) /\ Fail(w)
  \/ Stored(c) /\ ~UniqueViolation(w) /\ Goto(w, "claimed")

\* updateMany: the row is claimed only while it is pending; a missed claim is
\* answered from a second read of the row.
ClaimOrder(w, c) ==
  \/ ~Stored(c) /\ Answer(w, "unmatched")
  \/ Completed(c) /\ Answer(w, "duplicate")
  \/ orders[c].status = "pending" /\ UniqueViolation(w) /\ Fail(w)
  \/ orders[c].status = "pending" /\ ~UniqueViolation(w) /\ Goto(w, "claimed")

\* Mutant: an upsert on the order code in the place of the create.
UpsertStatic(w, t) ==
  \/ (UniqueViolation(w) \/ MemoStudent[t] \notin students) /\ Fail(w)
  \/ ~UniqueViolation(w) /\ MemoStudent[t] \in students /\ Goto(w, "claimed")

\* create: fails on any unique key and when the student is gone.
ClaimStatic(w, t) ==
  \/ (Stored(t) \/ UniqueViolation(w) \/ MemoStudent[t] \notin students) /\ Fail(w)
  \/ /\ ~Stored(t) /\ ~UniqueViolation(w) /\ MemoStudent[t] \in students
     /\ Goto(w, "claimed")

\* Mutant: a row locked by another transaction counts as already claimed.
TxClaimNoWait(w) ==
  /\ pc[w] = "claim"
  /\ \/ Blocked(w) /\ Answer(w, "duplicate")
     \/ /\ ~Blocked(w)
        /\ IF job[w].order = None THEN ClaimStatic(w, job[w].t)
                                  ELSE ClaimOrder(w, job[w].order)
  /\ UNCHANGED <<dbVars, sent, mailed, faults>>

TxClaim(w) ==
  /\ pc[w] = "claim" /\ ~Blocked(w)
  /\ IF job[w].order = None THEN ClaimStatic(w, job[w].t) ELSE ClaimOrder(w, job[w].order)
  /\ UNCHANGED <<dbVars, sent, mailed, faults>>

\* The row as the claim leaves it.
CompletedRow(w) ==
  LET t == job[w].t IN
  IF job[w].order = None
  THEN [status |-> "completed", student |-> MemoStudent[t], amount |-> AmountOf[t],
        account |-> AccountOf[t], txn |-> t, receiptSent |-> FALSE]
  ELSE [orders[job[w].order] EXCEPT !.status = "completed", !.txn = t]

\* Mutant: the balance moved is that of the student named in the memo.
TxCommitMemoStudent(w) ==
  /\ Holding(w)
  /\ LET t == job[w].t IN
       /\ orders' = [orders EXCEPT ![Target(w)] = CompletedRow(w)]
       /\ topups' = topups \cup {[code |-> Target(w), student |-> TargetStudent(w),
                                  amount |-> AmountOf[t], transfer |-> t]}
       /\ balance' = [balance EXCEPT ![MemoStudent[t]] = @ + AmountOf[t]]
  /\ Goto(w, "receipt")
  /\ UNCHANGED <<students, sent, mailed, faults>>

\* The wallet row, the balance increment, the link to the order, the commit.
TxCommit(w) ==
  /\ Holding(w)
  /\ LET t == job[w].t  s == TargetStudent(w) IN
       /\ orders' = [orders EXCEPT ![Target(w)] = CompletedRow(w)]
       /\ topups' = topups \cup {[code |-> Target(w), student |-> s,
                                  amount |-> AmountOf[t], transfer |-> t]}
       /\ balance' = [balance EXCEPT ![s] = @ + AmountOf[t]]
  /\ Goto(w, "receipt")
  /\ UNCHANGED <<students, sent, mailed, faults>>
-----------------------------------------------------------------------------
\* sendReceiptAfterCommit: mail goes out, or not (parent receipts disabled, no
\* recipient, every send failed, the student is gone); no error reaches SePay.
SendReceipt(w) ==
  /\ pc[w] = "receipt"
  /\ \/ Answer(w, "credited") /\ UNCHANGED mailed
     \/ /\ Stored(Target(w))
        /\ mailed' = mailed \cup {Target(w)}
        /\ Goto(w, "mark")
  /\ UNCHANGED <<dbVars, sent, faults>>

\* receiptEmailSentAt; the update throws, and is caught, when the row is gone.
MarkReceipt(w) ==
  /\ pc[w] = "mark"
  /\ orders' = IF Stored(Target(w)) THEN [orders EXCEPT ![Target(w)].receiptSent = TRUE]
                                    ELSE orders
  /\ Answer(w, "credited")
  /\ UNCHANGED <<students, topups, balance, sent, mailed, faults>>

\* The interactive transaction times out or the connection breaks.
TxTimeout(w) ==
  /\ pc[w] \in InTransaction /\ faults < MaxFaults
  /\ Fail(w)
  /\ faults' = faults + 1
  /\ UNCHANGED <<dbVars, sent, mailed>>

\* The API process stops and starts again: every open request is lost.
Crash ==
  /\ \E w \in Workers : pc[w] # "idle"
  /\ faults < MaxFaults
  /\ pc' = [w \in Workers |-> "idle"]
  /\ job' = [w \in Workers |-> NoJob]
  /\ faults' = faults + 1
  /\ UNCHANGED <<dbVars, sent, reported, mailed>>
-----------------------------------------------------------------------------
Step(w) ==
  Lookup(w) \/ Match(w) \/ TxRead(w) \/ TxClaim(w) \/ TxCommit(w) \/ SendReceipt(w)
    \/ MarkReceipt(w)

Next ==
  \/ \E q \in OrderRequests : CreateRemoteOrder(q)
  \/ \E c \in OrderCodes : PersistOrder(c)
  \/ \E t \in Transfers : BankTransfer(t)
  \/ \E s \in StudentIds : DeleteStudent(s)
  \/ \E w \in Workers, t \in Transfers : Receive(w, t)
  \/ \E w \in Workers : Step(w)
  \/ \E w \in Workers : TxTimeout(w)
  \/ Crash

Spec == Init /\ [][Next]_vars

\* Node runs every request it has accepted; SePay repeats a report until it is
\* answered, and some request slot is free for it again and again.
Fairness ==
  /\ \A w \in Workers : WF_vars(Step(w))
  /\ \A t \in Transfers : SF_vars(reported[t] = {} /\ \E w \in Workers : Receive(w, t))

FairSpec == Spec /\ Fairness
-----------------------------------------------------------------------------
(* Properties *)

\* Every variable keeps its type, a stored order belongs to a student that exists
\* (its student_id is a foreign key), and a worker holds a job while it is busy.
TypeOK ==
  /\ students \subseteq StudentIds
  /\ orders \in [Codes -> Row]
  /\ \A c \in Codes : Stored(c) => orders[c].student \in students
  /\ topups \subseteq TopUp
  /\ balance \in [StudentIds -> Nat]
  /\ pc \in [Workers -> Labels]
  /\ job \in [Workers -> Job \cup {NoJob}]
  /\ \A w \in Workers : pc[w] = "idle" <=> job[w] = NoJob
  /\ sent \subseteq Transfers
  /\ reported \in [Transfers -> SUBSET Results]
  /\ mailed \subseteq Codes
  /\ faults \in 0..MaxFaults

\* A transfer (an id or a bank reference) is credited once, and an order is paid
\* once, however many requests report it and wherever they stop.
CreditedOnce ==
  \A r, q \in topups :
    SameTransfer(r.transfer, q.transfer) \/ r.code = q.code => r = q

\* The wallet history and the SePay ledger agree: an order is completed exactly
\* when a wallet row was written for it, by the transfer it records, for the
\* student, the amount and the account it was created with.
LedgerMatchesOrders ==
  /\ \A c \in Codes : Completed(c) => \E r \in topups : r.code = c
  /\ \A r \in topups :
       LET row == orders[r.code] IN
       /\ row.status = "completed" /\ row.txn = r.transfer /\ row.student = r.student
       /\ r.amount = AmountOf[r.transfer] /\ row.amount = r.amount
       /\ row.account \in {None, AccountOf[r.transfer]}
       /\ r.transfer \in sent \cap Inbound

\* The amounts of a student's wallet rows.
AmountsOf(s) == [r \in {q \in topups : q.student = s} |-> r.amount]

\* accountBalance is the sum of the wallet rows.
BalanceIsLedger == \A s \in StudentIds : balance[s] = SumFunction(AmountsOf(s))

\* One receipt per paid order: a request about to mail is the only one to do so,
\* nothing has been mailed for its order, and no order is mailed unpaid.
OneReceiptPerOrder ==
  /\ \A w \in Workers : pc[w] = "receipt" => Target(w) \notin mailed
  /\ \A v, w \in Workers :
       pc[v] \in {"receipt", "mark"} /\ pc[w] \in {"receipt", "mark"} /\ v # w
         => Target(v) # Target(w)
  /\ \A c \in mailed : Stored(c) => Completed(c)
  /\ \A c \in Codes : orders[c].receiptSent => c \in mailed

\* "duplicate" is answered (and SePay stops repeating) only when money has been
\* credited for this transfer or for the order its memo names.
HonestDuplicate ==
  [][\A t \in Transfers :
       "duplicate" \in reported'[t] \ reported[t]
         => \E c \in Codes : Completed(c)
              /\ (SameTransfer(t, orders[c].txn) \/ MemoCode[t] = c)]_vars

\* Detailed to abstract: each credit of a transfer is one atomic step that also
\* moves the balance, and there is at most one per transfer.
Ledger == INSTANCE TopUpLedger WITH
  Sources <- Transfers,
  credits <- {[source |-> r.transfer, student |-> r.student] : r \in topups},
  wallet <- balance

LedgerSpec == Ledger!Spec

\* SePay gets an answer for every transfer.
EveryTransferAnswered == \A t \in Transfers : t \in sent ~> reported[t] # {}

\* A transfer that pays a student's static QR and is not answered yet ends up in
\* a wallet, unless the student is deleted or its reference is credited as
\* another transfer's.
StaticQr(t) ==
  /\ t \in Inbound /\ MemoCode[t] = None /\ MemoStudent[t] # None
  /\ AccountOf[t] = StaticAccount /\ AmountOf[t] > 0

StaticPaymentCredited ==
  \A t \in Transfers :
    StaticQr(t) /\ t \in sent /\ reported[t] = {} ~>
      MemoStudent[t] \notin students \/ \E r \in topups : SameTransfer(t, r.transfer)
-----------------------------------------------------------------------------
(* The inductive invariant behind CreditedOnce and LedgerMatchesOrders. *)

\* What a row can be, by its status and by the kind of its code.
RowsOK ==
  \A c \in Codes :
    /\ ~Completed(c) => orders[c].txn = None
    /\ Completed(c) => orders[c].txn # None
    /\ orders[c].status \in {"remote", "pending", "completed"} => orders[c].student # None
    /\ c \in Transfers => orders[c].status \in {"none", "completed", "deleted"}

\* The unique indexes on the SePay id and the reference code.
UniqueKeys ==
  \A c, d \in Codes :
    Completed(c) /\ Completed(d) /\ SameTransfer(orders[c].txn, orders[d].txn) => c = d

\* What a request that stands at label l with locals j may rely on.
RequestOK(l, j) ==
  /\ j.t \in sent
  /\ l # "lookup" => j.t \in Inbound
  /\ l \in {"lookup", "match"} => j.order = None
  /\ j.order # None =>
       /\ j.order = MemoCode[j.t]
       /\ orders[j.order].status \notin {"none", "remote"}
       /\ Stored(j.order) => ~AmountMismatch(j.order, j.t) /\ ~AccountMismatch(j.order, j.t)
  /\ l \notin {"lookup", "match"} /\ j.order = None => AccountOf[j.t] = StaticAccount

\* The row that a transaction holds is still to be completed, and no committed
\* row carries its transfer.
HolderOK(j) ==
  /\ j.order # None => orders[j.order].status = "pending"
  /\ j.order = None => ~Stored(j.t) /\ MemoStudent[j.t] \in students
  /\ \A c \in Codes : Completed(c) => ~SameTransfer(j.t, orders[c].txn)

Disjoint(i, j) == TargetOf(i) # TargetOf(j) /\ ~SameTransfer(i.t, j.t)

RequestsOK == \A w \in Workers : pc[w] # "idle" => RequestOK(pc[w], job[w])

HoldersOK ==
  /\ \A w \in Workers : Holding(w) => HolderOK(job[w])
  /\ \A v, w \in Workers : Holding(v) /\ Holding(w) /\ v # w => Disjoint(job[v], job[w])

IInv == TypeOK /\ RowsOK /\ UniqueKeys /\ RequestsOK /\ HoldersOK /\ LedgerMatchesOrders

\* ... and, with it, behind BalanceIsLedger: a sum needs finitely many rows.
LedgerOK == IsFiniteSet(topups) /\ BalanceIsLedger

\* ... and behind OneReceiptPerOrder: an order that is mailed about was paid, and
\* a static one is not paid again after its student is deleted.
ReceiptsOK ==
  /\ \A t \in Transfers : Completed(t) => orders[t].student = MemoStudent[t]
  /\ \A t \in Transfers : orders[t].status = "deleted" => MemoStudent[t] \notin students
  /\ \A w \in Workers :
       pc[w] \in {"receipt", "mark"} => orders[Target(w)].status \in {"completed", "deleted"}
  /\ \A w \in Workers : pc[w] = "mark" => Target(w) \in mailed
  /\ \A c \in mailed : orders[c].status \in {"completed", "deleted"}
  /\ OneReceiptPerOrder
=============================================================================
