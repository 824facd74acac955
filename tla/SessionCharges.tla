---------------------------- MODULE SessionCharges ----------------------------
(***************************************************************************)
(* Tuition charged to student wallets by class sessions.                   *)
(*                                                                         *)
(* Creating, editing and deleting a session each run in one READ COMMITTED *)
(* transaction that computes what every attendance row costs, moves the    *)
(* balances by increments and rewrites the rows.  An edit and a deletion   *)
(* read the session first and compute refunds from what they read.  In a   *)
(* one_time class the package is charged with the first chargeable row of  *)
(* a student: such calls take an advisory lock on the class, look for a    *)
(* paid row in another session, and hold the lock until they commit.       *)
(*                                                                         *)
(* A call reads, then looks up (under the lock), then commits; from its    *)
(* first write to its commit it holds the row of the session, so all its   *)
(* writes are one step.  Edits that touch neither attendance, class nor    *)
(* date move no money and are left out, as is the in-process guard against *)
(* creating one slot twice at once, which only removes interleavings.      *)
(*                                                                         *)
(* A class that is not one_time may change between a price per session and *)
(* one per block; its sessions are then repriced and the wallet rows they  *)
(* are linked to rewritten, but for the sessions whose teacher is paid.    *)
(* Its course may turn it into a one_time class as long as nobody has paid *)
(* for a session of it, or back, and reprices nothing.  Either change      *)
(* reads, and writes later without looking again: a session may be charged *)
(* or repriced between the course's count of paid rows and its commit, and *)
(* the course may change between the class's read of its mode and its      *)
(* transaction.                                                            *)
(***************************************************************************)
EXTENDS Integers, FiniteSets, Functions

CONSTANTS
  SessionIds,
  Classes,
  SoldOnce,       \* classes whose pricing mode is one_time at the start
  Price,          \* [Classes -> Nat \ {0}] the default charge in the per_session mode,
  BlockPrice,     \* [Classes -> Nat \ {0}] ... in the per_block mode,
  Package,        \* [Classes -> Nat \ {0}] ... in the one_time mode
  Students,
  Enrolled,       \* [Classes -> SUBSET Students] the active rosters
  Overrides,      \* tuitionFee values a caller may set on an attendance item
  Moves,          \* pairs of classes between which an edit may move a session
  Calls,          \* calls that may run at once
  Managers,       \* changes of a pricing mode that may run at once
  MaxTrouble,     \* bound: calls that begin on a session while another one is at it,
                  \* counted with the changes so far, and changes of a course
  MaxModeChanges, \* bound: changes of pricing mode
  None, Deleted

ASSUME ChargeAssumption ==
  /\ IsFiniteSet(SessionIds)
  /\ SoldOnce \subseteq Classes
  /\ {Price, BlockPrice, Package} \subseteq [Classes -> Nat \ {0}]
  /\ Enrolled \in [Classes -> SUBSET Students]
  /\ Overrides \subseteq Nat
  /\ Moves \subseteq Classes \X Classes
  /\ MaxTrouble \in Nat /\ MaxModeChanges \in Nat
  /\ None \notin Classes \cup SessionIds /\ Deleted \notin Classes \cup {None}

VARIABLES
  sessions,   \* session id -> its class and its attendance rows
  net,        \* session id -> student -> wallet rows written for it: charged minus refunded
  balance,    \* student -> accountBalance, relative to the start
  pc,         \* call -> where it stands
  job,        \* call -> what it holds in local variables
  overlaps,   \* session id -> how often a call has begun on it beside another one
  perBlock,   \* classes whose pricing mode is per_block
  oneTime,    \* classes whose pricing mode is one_time
  sold,       \* classes whose course is sold once (isOneTime)
  raced,      \* history: classes that became one_time under a call, or had been charged
              \* since that was checked, or were entered by a session that had changed
  unlinked,   \* session id -> student -> moved by a change of mode beside the wallet rows
  change,     \* manager -> the change under way: what it holds in local variables
  modeChanges, saleChanges

modes == <<perBlock, oneTime, sold, raced, unlinked, change, modeChanges, saleChanges>>
vars == <<sessions, net, balance, pc, job, overlaps, modes>>
-----------------------------------------------------------------------------
\* Statuses present and excused are chargeable, absent is not (and carries no
\* fee); a linked row has a transactionId, and that wallet row holds its fee.
Row == [chargeable : BOOLEAN, fee : Nat, linked : BOOLEAN]
Item == [chargeable : {TRUE}, override : Overrides \cup {None}]
        \cup [chargeable : {FALSE}, override : {None}]

\* None stands for a row that is not there.
ASSUME RowAssumption == None \notin Row

Session == [class : Classes \cup {None, Deleted}, rows : [Students -> Row \cup {None}]]
NoSession == [class |-> None, rows |-> [s \in Students |-> None]]
GoneSession == [NoSession EXCEPT !.class = Deleted]

\* The attendance an edit may send: every item with an override, or any subset.
Attendance == [Students -> Item \cup {None}]
Listed(att) == {s \in Students : att[s] # None}

Live(x) == sessions[x].class \in Classes
Fee(rows, s) == IF rows[s] = None THEN 0 ELSE rows[s].fee
Busy(k) == pc[k] # "idle"

\* A change of mode by the class or by its course; found is the outcome of the
\* count of paid rows.
Change == [class : Classes, by : {"class", "course"}, found : (SUBSET Students) \cup {None},
           to : {"per_session", "per_block", "one_time"}]

Labels == {"idle", "lookup", "write"}
Job == [op : {"none", "create", "edit", "delete"}, x : SessionIds \cup {None},
        cls : Classes \cup {None}, att : Attendance \cup {None}, old : Session, price : Nat,
        oneTime : BOOLEAN, charged : SUBSET Students, lock : Classes \cup {None},
        lost : SUBSET Students]
NoJob == [op |-> "none", x |-> None, cls |-> None, att |-> None, old |-> NoSession,
          price |-> 0, oneTime |-> FALSE, charged |-> {}, lock |-> None, lost |-> {}]

Init ==
  /\ sessions = [x \in SessionIds |-> NoSession]
  /\ net = [x \in SessionIds |-> [s \in Students |-> 0]]
  /\ balance = [s \in Students |-> 0]
  /\ pc = [k \in Calls |-> "idle"]
  /\ job = [k \in Calls |-> NoJob]
  /\ overlaps = [x \in SessionIds |-> 0]
  /\ perBlock = {} /\ oneTime = SoldOnce /\ sold = SoldOnce /\ raced = {}
  /\ unlinked = [x \in SessionIds |-> [s \in Students |-> 0]]
  /\ change = [m \in Managers |-> None]
  /\ modeChanges = 0 /\ saleChanges = 0

Begin(k, label, j) ==
  /\ pc[k] = "idle"
  /\ pc' = [pc EXCEPT ![k] = label]
  /\ job' = [job EXCEPT ![k] = j]
  /\ IF \E v \in Calls : Busy(v) /\ job[v].x = j.x
     THEN /\ modeChanges + saleChanges + SumFunction(overlaps) < MaxTrouble
          /\ overlaps' = [overlaps EXCEPT ![j.x] = @ + 1]
     ELSE UNCHANGED overlaps
  /\ UNCHANGED <<sessions, net, balance, modes>>

DefaultPrice(c) ==
  IF c \in oneTime THEN Package[c] ELSE IF c \in perBlock THEN BlockPrice[c] ELSE Price[c]

\* createSession reads the mode of the class.  The attendance may hold active
\* students of the class only; in a noAttendance class it is generated: every
\* active student is present.
Create(k, x, c, att) ==
  /\ sessions[x].class = None /\ \A v \in Calls : Busy(v) => job[v].x # x
  /\ Listed(att) \subseteq Enrolled[c]
  /\ Begin(k, "lookup", [NoJob EXCEPT !.op = "create", !.x = x, !.cls = c, !.att = att,
                                      !.oneTime = c \in oneTime, !.price = DefaultPrice(c)])

\* updateSession reads the session.  It may send attendance, another class, or
\* neither (a new date, or a noAttendance session, whose attendance is dropped).
Edit(k, x, c, att) ==
  /\ Live(x)
  /\ c # None => <<sessions[x].class, c>> \in Moves
  /\ Begin(k, "lookup", [NoJob EXCEPT !.op = "edit", !.x = x, !.cls = c, !.att = att,
                                      !.old = sessions[x],
                                      !.oneTime = sessions[x].class \in oneTime])

\* deleteSession reads the session with its attendance.
Delete(k, x) ==
  /\ Live(x)
  /\ Begin(k, "write", [NoJob EXCEPT !.op = "delete", !.x = x, !.old = sessions[x]])
-----------------------------------------------------------------------------
NextClass(j) == IF j.cls # None THEN j.cls ELSE j.old.class

\* The rows the call will write: those sent, or those read, repriced when the
\* class changes and with their own fee otherwise.
Source(j) ==
  IF j.att # None THEN j.att
  ELSE [s \in Students |->
         IF j.old.rows[s] = None THEN None
         ELSE [chargeable |-> j.old.rows[s].chargeable,
               override |-> IF NextClass(j) # j.old.class THEN None ELSE j.old.rows[s].fee]]

\* The mode is that of the class the call has read: an edit looks at the class
\* that the session leaves, and at the rows of the class that it enters.
TakesLock(j) ==
  /\ j.oneTime
  /\ j.op = "create" \/ Listed(Source(j)) # {}

\* Mutants: the paid row is looked for without the lock, or in this session too.
LockFreeAlways(c) == TRUE
ChargedAnywhere(c, x) ==
  {s \in Students : \E y \in SessionIds :
     sessions[y].class = c /\ sessions[y].rows[s] # None /\ sessions[y].rows[s].fee > 0}

\* lockOneTimeClassCharges: the advisory lock of class c is free.
LockFree(c) == \A k \in Calls : job[k].lock # c

\* findOneTimeChargedStudentIds: students with a paid row in another session of c.
Charged(c, x) ==
  {s \in Students : \E y \in SessionIds \ {x} :
     /\ sessions[y].class = c /\ sessions[y].rows[s] # None
     /\ sessions[y].rows[s].chargeable /\ sessions[y].rows[s].fee > 0}

\* The lock and the lookup behind it; an edit reads the prices of the class it
\* enters with the mode of the moment.  Students who are not on the roster of
\* the class end the call with an error.
LookUp(k) ==
  /\ pc[k] = "lookup"
  /\ LET j == job[k]
         c == NextClass(j)
         price == IF j.op = "create" THEN j.price ELSE DefaultPrice(c)
     IN
       /\ Listed(Source(j)) \subseteq Enrolled[c]
       /\ pc' = [pc EXCEPT ![k] = "write"]
       /\ IF TakesLock(j)
          THEN /\ LockFree(c)
               /\ job' = [job EXCEPT ![k].price = price, ![k].lock = c,
                                      ![k].charged = Charged(c, j.x)]
          ELSE job' = [job EXCEPT ![k].price = price]
  /\ UNCHANGED <<sessions, net, balance, overlaps, modes>>
-----------------------------------------------------------------------------
\* What a row costs: nothing when the student is away or has paid the package in
\* another session, else the fee sent with it, else the price of the class.
Resolved(item, paid, price) ==
  IF ~item.chargeable \/ paid THEN 0
  ELSE IF item.override # None THEN item.override ELSE price

\* A row whose fee changes is linked to the wallet row of the new charge, if
\* there is one.
NewRow(j, s) ==
  LET item == Source(j)[s]
      fee == Resolved(item, s \in j.charged, j.price)
  IN  IF item = None THEN None
      ELSE [chargeable |-> item.chargeable, fee |-> fee,
            linked |-> IF fee = Fee(j.old.rows, s)
                       THEN j.old.rows[s] # None /\ j.old.rows[s].linked
                       ELSE fee > 0]
NewRows(j) == [s \in Students |-> NewRow(j, s)]

\* Mutant: a changed fee is charged and the old one is not refunded.
DeltaNoRefund(j, s) == Fee(NewRows(j), s) - (IF NewRow(j, s) = None THEN Fee(j.old.rows, s) ELSE 0)

\* Charges minus refunds, computed from the rows as they were read.
Delta(j, s) == Fee(NewRows(j), s) - Fee(j.old.rows, s)

\* Mutant: the call ends and its lock is not released.
FinishLocked(k) == pc' = [pc EXCEPT ![k] = "idle"] /\ UNCHANGED job

\* The call is over; the rows it has removed are lost to the calls that have read them.
Finish(k) ==
  /\ pc' = [pc EXCEPT ![k] = "idle"]
  /\ LET x == job[k].x
         removed == {s \in Students : sessions[x].rows[s] # None /\ sessions'[x].rows[s] = None}
     IN job' = [v \in Calls |-> IF v = k THEN NoJob
                                ELSE IF job[v].x = x THEN [job[v] EXCEPT !.lost = @ \cup removed]
                                ELSE job[v]]

\* The wallet rows and the balance increments of one commit.
Charge(x, delta) ==
  /\ net' = [net EXCEPT ![x] = [s \in Students |-> @[s] + delta[s]]]
  /\ balance' = [s \in Students |-> balance[s] - delta[s]]

CommitCreate(k) ==
  /\ pc[k] = "write" /\ job[k].op = "create"
  /\ LET j == job[k]  rows == NewRows(job[k]) IN
       /\ sessions' = [sessions EXCEPT ![j.x] = [class |-> j.cls, rows |-> rows]]
       /\ Charge(j.x, [s \in Students |-> Fee(rows, s)])
  /\ Finish(k)
  /\ UNCHANGED <<overlaps, modes>>

\* Rows are upserted; rows that were read and are not in the payload are deleted
\* by id, so one that was removed and added again meanwhile stays.
CommitEdit(k) ==
  /\ pc[k] = "write" /\ job[k].op = "edit" /\ Live(job[k].x)
  /\ LET j == job[k]
         Kept(s) == IF j.old.rows[s] # None /\ s \notin j.lost THEN None
                    ELSE sessions[j.x].rows[s]
     IN
       /\ sessions' = [sessions EXCEPT ![j.x] =
            [class |-> IF j.cls # None THEN j.cls ELSE @.class,
             rows |-> [s \in Students |-> IF NewRow(j, s) # None THEN NewRow(j, s) ELSE Kept(s)]]]
       /\ Charge(j.x, [s \in Students |-> Delta(j, s)])
       /\ raced' = raced \cup {c \in oneTime :
                              /\ sessions'[j.x].class = c
                              /\ sessions[j.x].class # c \/ j.old.class # c
                              /\ sessions[j.x] # j.old \/ j.lost # {}}
  /\ Finish(k)
  /\ UNCHANGED <<overlaps, perBlock, oneTime, sold, unlinked, change, modeChanges, saleChanges>>

CommitDelete(k) ==
  /\ pc[k] = "write" /\ job[k].op = "delete" /\ Live(job[k].x)
  /\ LET j == job[k] IN
       /\ sessions' = [sessions EXCEPT ![j.x] = GoneSession]
       /\ Charge(j.x, [s \in Students |-> 0 - Fee(j.old.rows, s)])
  /\ Finish(k)
  /\ UNCHANGED <<overlaps, modes>>

\* The call is cut off, fails a check, or finds the session deleted: it rolls back.
Abort(k) ==
  /\ Busy(k)
  /\ pc' = [pc EXCEPT ![k] = "idle"]
  /\ job' = [job EXCEPT ![k] = NoJob]
  /\ UNCHANGED <<sessions, net, balance, overlaps, modes>>
-----------------------------------------------------------------------------
\* A manager's call has read something and has written nothing.
Holds(m, read) ==
  /\ change' = [change EXCEPT ![m] = read]
  /\ UNCHANGED <<sessions, net, balance, pc, job, overlaps,
                 perBlock, oneTime, sold, raced, unlinked>>

\* updateClassPricingMode reads the mode of the class, which is not one_time.
ReadMode(m, c) ==
  /\ change[m] = None /\ c \notin oneTime
  /\ modeChanges < MaxModeChanges /\ SumFunction(overlaps) < MaxTrouble
  /\ modeChanges' = modeChanges + 1 /\ UNCHANGED saleChanges
  /\ Holds(m, [class |-> c, by |-> "class", found |-> None,
               to |-> IF c \in perBlock THEN "per_session" ELSE "per_block"])

\* The rows that a change of mode reprices, and by how much.
Hit(repriced, x, s) ==
  x \in repriced /\ sessions[x].rows[s] # None /\ sessions[x].rows[s].chargeable
Repricing(repriced, price, x, s) ==
  IF Hit(repriced, x, s) THEN price - sessions[x].rows[s].fee ELSE 0

\* Its transaction, which does not read the mode again: every chargeable row of a
\* session that is not frozen (its teacher paid) gets the price of the new mode, a
\* fee set by hand is lost.  The balance moves by the difference; the wallet row is
\* rewritten if the row is linked to one.  Not while a call is at one of the sessions.
UpdatePricingMode(m, frozen) ==
  LET c == change[m].class
      repriced == {x \in SessionIds : sessions[x].class = c} \ frozen
      next == IF change[m].to = "per_block" THEN perBlock \cup {c} ELSE perBlock \ {c}
      price == IF c \in next THEN BlockPrice[c] ELSE Price[c]
      Linked(x, s) == sessions[x].rows[s] # None /\ sessions[x].rows[s].linked
      Add(f, linked) == [x \in SessionIds |-> [s \in Students |->
                           f[x][s] + (IF Linked(x, s) = linked THEN Repricing(repriced, price, x, s) ELSE 0)]]
  IN
  /\ change[m] # None /\ change[m].by = "class"
  /\ \A k \in Calls : Busy(k) => job[k].x \notin repriced
  /\ perBlock' = next /\ oneTime' = oneTime \ {c}
  /\ sessions' = [x \in SessionIds |-> [sessions[x] EXCEPT !.rows =
       [s \in Students |-> IF Hit(repriced, x, s) THEN [@[s] EXCEPT !.fee = price] ELSE @[s]]]]
  /\ net' = Add(net, TRUE)
  /\ unlinked' = Add(unlinked, FALSE)
  /\ balance' = [s \in Students |->
       balance[s] - SumFunction([x \in SessionIds |-> Repricing(repriced, price, x, s)])]
  /\ change' = [change EXCEPT ![m] = None]
  /\ UNCHANGED <<sold, raced, modeChanges, saleChanges, pc, job, overlaps>>

\* update of a course with the class c reads whether it is sold once; it will be
\* the other.
ReadSale(m, c) ==
  /\ change[m] = None
  /\ saleChanges + SumFunction(overlaps) < MaxTrouble
  /\ saleChanges' = saleChanges + 1 /\ UNCHANGED modeChanges
  /\ Holds(m, [class |-> c, by |-> "course", found |-> None,
               to |-> IF c \in sold THEN "per_session" ELSE "one_time"])

Uncounted(m) == change[m] # None /\ change[m].to = "one_time" /\ change[m].found = None

\* Mutant: the course does not ask that nobody has paid.
CountUnchecked(m) ==
  /\ Uncounted(m)
  /\ Holds(m, [change[m] EXCEPT !.found = Charged(change[m].class, None)])
  /\ UNCHANGED <<modeChanges, saleChanges>>

\* To be sold once it counts the paid rows of the class, and there is none.
CountPaid(m) ==
  /\ Uncounted(m) /\ Charged(change[m].class, None) = {}
  /\ Holds(m, [change[m] EXCEPT !.found = {}])
  /\ UNCHANGED <<modeChanges, saleChanges>>

\* The course and its class change together, with no lock held since the count: a
\* class that has been charged since, or that a call is at, is raced.
UpdateSaleMode(m) ==
  LET c == change[m].class
      once == change[m].to = "one_time"
      AtClass(k) == job[k].op \in {"create", "edit"} /\ NextClass(job[k]) = c
  IN
  /\ change[m] # None /\ change[m].by = "course" /\ ~Uncounted(m)
  /\ sold' = IF once THEN sold \cup {c} ELSE sold \ {c}
  /\ oneTime' = IF once THEN oneTime \cup {c} ELSE oneTime \ {c}
  /\ perBlock' = perBlock \ {c}
  /\ raced' = raced \cup {d \in {c} : /\ once /\ c \notin oneTime
                                    /\ \/ Charged(c, None) # change[m].found
                                       \/ \E k \in Calls : AtClass(k)}
  /\ change' = [change EXCEPT ![m] = None]
  /\ UNCHANGED <<sessions, net, balance, pc, job, overlaps, unlinked, modeChanges, saleChanges>>
-----------------------------------------------------------------------------
Next ==
  \/ \E m \in Managers :
    \/ \E c \in Classes : ReadMode(m, c) \/ ReadSale(m, c)
    \/ \E frozen \in SUBSET SessionIds : UpdatePricingMode(m, frozen)
    \/ CountPaid(m) \/ UpdateSaleMode(m)
  \/ \E k \in Calls :
    \/ \E x \in SessionIds :
         \/ \E c \in Classes, att \in Attendance : Create(k, x, c, att)
         \/ \E c \in Classes \cup {None}, att \in Attendance \cup {None} : Edit(k, x, c, att)
         \/ Delete(k, x)
    \/ LookUp(k) \/ CommitCreate(k) \/ CommitEdit(k) \/ CommitDelete(k) \/ Abort(k)

Spec == Init /\ [][Next]_vars
-----------------------------------------------------------------------------
(* Properties *)

\* Every variable keeps its type; an idle call holds neither a job nor a lock.
TypeOK ==
  /\ sessions \in [SessionIds -> Session]
  /\ net \in [SessionIds -> [Students -> Int]]
  /\ balance \in [Students -> Int]
  /\ pc \in [Calls -> Labels] /\ job \in [Calls -> Job]
  /\ \A k \in Calls : Busy(k) <=> job[k] # NoJob
  /\ overlaps \in [SessionIds -> 0..MaxTrouble]
  /\ oneTime \subseteq Classes /\ perBlock \subseteq Classes \ oneTime /\ raced \subseteq Classes
  /\ unlinked \in [SessionIds -> [Students -> Int]]
  /\ sold \subseteq Classes /\ change \in [Managers -> Change \cup {None}]
  /\ modeChanges \in 0..MaxModeChanges /\ saleChanges \in 0..MaxTrouble

\* The wallet follows the attendance: whatever the sequence of creations, edits,
\* moves, changes of mode and deletions, the charges and refunds written for a
\* session add up to the fees its rows show now (nothing once it is deleted),
\* unless two calls have overlapped on that very session; and the balances are
\* those sums.  What a change of mode moved for rows without a wallet row, a
\* session free of charge until then, is the one part no wallet row explains.
WalletFollowsAttendance ==
  /\ \A x \in SessionIds, s \in Students :
       overlaps[x] = 0 => net[x][s] + unlinked[x][s] = Fee(sessions[x].rows, s)
  /\ \A s \in Students :
       balance[s] = 0 - SumFunction([x \in SessionIds |-> net[x][s] + unlinked[x][s]])

Paid(row) == row # None /\ row.chargeable /\ row.fee > 0
PaidIn(x, s) == Paid(sessions[x].rows[s])

\* A student has a paid row in at most one session of a one_time class, however
\* creations, edits and deletions interleave (lockOneTimeClassCharges), unless
\* it became one_time while a call was at it or after somebody was charged behind
\* the course's count, or a session that had changed since it was read was moved
\* into it.
OnePaidRowPerPackage ==
  \A c \in oneTime \ raced, s \in Students, x, y \in SessionIds :
    sessions[x].class = c /\ sessions[y].class = c /\ PaidIn(x, s) /\ PaidIn(y, s) => x = y

\* What counts as the package is the package: a paid row of a one_time class,
\* which keeps later sessions free, is not the price of a single session that
\* was charged before the course was sold once, but for the same exceptions.
PaidRowIsPackage ==
  \A c \in oneTime \ raced, s \in Students, x \in SessionIds :
    sessions[x].class = c /\ PaidIn(x, s) => sessions[x].rows[s].fee \in Overrides \cup {Package[c]}

\* Editing the session in which the package was charged does not refund it while
\* the student stays chargeable, unless the edit sets the fee to zero itself.
EditKeepsPackage ==
  [][\A k \in Calls, s \in Students :
       LET j == job[k] IN
       /\ pc[k] = "write" /\ pc'[k] = "idle" /\ j.op = "edit"
       /\ sessions[j.x].class \in oneTime \ raced /\ NextClass(j) = sessions[j.x].class
       /\ PaidIn(j.x, s) /\ sessions'[j.x].class = sessions[j.x].class
       /\ sessions'[j.x].rows[s] # None /\ sessions'[j.x].rows[s].chargeable
       => \/ sessions'[j.x].rows[s].fee > 0
          \/ Source(j)[s].override = 0]_vars

\* Two creations or edits at once in a one_time class do not charge a student's
\* package twice: the wallet rows of the class add up to one price at most.
PackageChargedOnce ==
  \A c \in oneTime \ raced, s \in Students :
    SumFunction([x \in {y \in SessionIds : sessions[y].class = c} |-> net[x][s]]) <= Package[c]
-----------------------------------------------------------------------------
(* The inductive invariant. *)

\* A call is at a session; a creation has a class and has read nothing, an edit or
\* a deletion has read a session that was there, and nothing was looked up yet.
CallOK(k, j) ==
  /\ Busy(k) => j.op # "none" /\ j.x \in SessionIds
  /\ j.op = "create" => j.cls \in Classes /\ j.old = NoSession
  /\ j.op \in {"edit", "delete"} => j.old.class \in Classes
  /\ j.op = "delete" => pc[k] = "write"
  /\ pc[k] = "lookup" => j.lock = None /\ j.charged = {}

\* What a call has read still stands and it is alone at its session, unless
\* another call has begun at that session.
ReadStands(k, j) ==
  Busy(k) /\ overlaps[j.x] = 0 =>
    /\ j.old = sessions[j.x] /\ j.lost = {}
    /\ \A v \in Calls : Busy(v) /\ job[v].x = j.x => v = k

\* In a one_time class a call that stays in the class it has read knows that it
\* is sold once, prices its rows with the package, and has read such rows.
PackagePriced(k, j) ==
  LET c == NextClass(j) IN
  j.op \in {"create", "edit"} /\ c \in oneTime \ raced =>
    /\ j.op = "create" \/ j.old.class = c => j.oneTime
    /\ j.op = "create" \/ pc[k] = "write" => j.price = Package[c]
    /\ j.old.class = c =>
         \A s \in Students : Paid(j.old.rows[s]) =>
           j.old.rows[s].fee \in Overrides \cup {Package[c]}

\* A course goes on only if its count has found nobody who has paid.
NobodyFound == \A m \in Managers : change[m] # None => change[m].found \in {None, {}}

\* A session that was never created has no rows.
NewSessions == \A x \in SessionIds : sessions[x].class = None => sessions[x] = NoSession

IInv ==
  /\ TypeOK /\ NewSessions /\ NobodyFound
  /\ \A k \in Calls : CallOK(k, job[k]) /\ ReadStands(k, job[k]) /\ PackagePriced(k, job[k])
  /\ WalletFollowsAttendance /\ PaidRowIsPackage

\* What the lookup of a call has found holds until it commits: it has the lock, and
\* the students it will charge have no paid row in another session of the class,
\* those it will not charge none in its own.
LookupStands(k, j) ==
  LET c == NextClass(j) IN
  pc[k] = "write" /\ j.op \in {"create", "edit"} /\ j.oneTime /\ c \in oneTime \ raced =>
    /\ j.lock = c \/ (Listed(Source(j)) = {} /\ j.charged = {})
    /\ j.lock = c => \A s \in Students \ j.charged, y \in SessionIds \ {j.x} :
                       ~(sessions[y].class = c /\ PaidIn(y, s))
    /\ \A s \in j.charged : ~(sessions[j.x].class = c /\ PaidIn(j.x, s))

OneHolder ==
  \A k, v \in Calls : job[k].lock # None /\ job[k].lock = job[v].lock => k = v

\* An edit moves a session into a one_time class only out of a one_time class.
NoMoveIn ==
  \A k \in Calls :
    CommitEdit(k) /\ NextClass(job[k]) \in oneTime \ {job[k].old.class} => job[k].oneTime

\* The part of the invariant that needs NoMoveIn.
SaleInv ==
  /\ OneHolder
  /\ \A k \in Calls : LookupStands(k, job[k])
  /\ OnePaidRowPerPackage
=============================================================================
