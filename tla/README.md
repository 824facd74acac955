# Verification of the UnicornsEdu back end

TLA+ models of the parts of the API (`src/apps/api`) in which money, grades or sign-ins depend on
the order of concurrent requests, model-checked with TLC, and proofs checked with TLAPS.

## 1. The system

A NestJS API over one PostgreSQL database (Prisma), a Next.js front end, and a few external
services (SePay for bank transfers, mail, Google Calendar, judges). Every component keeps its
state in database rows; a request handler is a sequence of statements, some of them grouped in
an interactive transaction at isolation level READ COMMITTED. Handlers of different requests,
cron jobs and restarts interleave between statements. So the state of a model is *committed rows*
plus *what each open request holds in local variables*, and an action is one statement or a group
of statements that nobody can observe in parts.

| Component | State | Operations that change it | What is hard | What makes it correct |
|---|---|---|---|---|
| SePay webhook (`sepay/`) | top-up orders, wallet rows, balances | `reconcile`, receipt after the commit | repeated and concurrent reports, crash between commit and answer, static QR rows created by the report | one credit per transfer and per order; wallet rows, balances and orders agree; an answer that stops the repetition is true |
| Student wallet (`student/`) | direct top-up requests, orders, students | file, mail, clean up, approve, expire, delete | two approvals, expiry during approval, failed mail | one credit per request, in time, linked exactly when credited |
| Sessions (`session/`, `class/`, `common/one-time-charge.util.ts`) | sessions, attendance rows, wallet rows, balances | create, edit, delete, change the pricing mode of a class or the sale mode of a course (payment statuses) | edits computed from an earlier read, class lock of one-off packages, moves between classes, repricing, a course that is sold once from now on | wallets follow attendance; one package per student |
| Practice attempts (`attempt/`) | attempts, answers, points | start, save, submit, expire, grade | no lock between two statements; stale answers; three closers | one attempt in progress; closing is final; score and flag match the answers |
| Login and devices (`auth/`, `device/`) | login requests, devices, tokens, identity cache | ask, click, activate, sign in, refresh, log out, revoke | calls without a transaction: activation, refresh and logout interleave at every statement; lost answers; cache filled after invalidation | one session per request, one device per student, no shared session of staff, a removed device stays removed |
| Fixed salaries, payroll (`fixed-salary-settings/`, `staff/`, `payroll/`) | payables, default amounts, overrides, rates, roles | close a month, edit, pay, change roles and settings | automatic against manual close, settings that change during a close, edit against payment, rounding | one payable per role and month, frozen rates, amounts that agree, paid once and for good |
| Tuition arithmetic (`common/`) | none | resolution of the effective fee | overrides, package sizes, zero | the documented chain of defaults |
| Content, classes, lessons, surveys, calendar, notifications, staff, dashboards | rows | create, read, update, delete | little | validation |

Interactions: the SePay webhook, direct top-ups and session charges meet in the students' balances
and in `wallet_transactions_history`; each moves a balance by an increment in the transaction that
writes the wallet row, which is why they can be modelled apart and still add up. Attempts are read
by the statistics, which skip an attempt while `hasUngradedEssay` is set.

`PROJECT.json` lists every component with its sources, what is left out and why, and the hazards
of the code line by line with the properties that cover them.

## 2. Modules

| Module | Models | Proofs |
|---|---|---|
| `TopUpLedger` | abstract: a source of money becomes wallet credit at most once, row and balance together | |
| `SepayWebhook` | `sepay-webhook.service.ts`, order creation, deletion of a student | `SepayWebhookProofs` |
| `DirectTopUp` | direct top-up requests in `student.service.ts` | `DirectTopUpProofs` |
| `SessionCharges` | what sessions charge and refund, changes of pricing mode in `class.service.ts` and of sale mode in `course.service.ts` | `SessionChargesProofs` |
| `ExamAttempt` | `attempt.service.ts` and its expiry job | `ExamAttemptProofs` |
| `StudentLogin` | `auth.service.ts`, `user-device.service.ts`, `device.service.ts`: sessions of one account | `StudentLoginProofs` |
| `StaffPayroll` | `fixed-salary-settings/`, and in `staff.service.ts` the editing and paying of payables | `StaffPayrollProofs` |
| `SumTheorems` | no code: how a sum over a finite set changes with one summand | itself |
| `MC*` | instances for TLC | |

`SepayWebhook` and `DirectTopUp` each instantiate `TopUpLedger` with a refinement mapping: the
wallet rows become `credits`, the balances become `wallet`. Every other step must be a stutter.

### SepayWebhook

`orders` holds rows by order code; a static QR row has the transfer itself as its code, since its
code is a digest of the transfer's reference and id. A row is `remote` when SePay knows it and the
database does not. `pc` and `job` are the position and the local variables of each webhook call:
`lookup` and `match` are the checks before the transaction, `begin` its reads, `claim` the
`updateMany` or `create`, `claimed` the rest up to the commit, `receipt` and `mark` what follows
it. A worker at `claimed` holds the order row and the unique keys of its transfer: another claim of
either waits (`Blocked`); a key of a committed row makes the claim fail (`UniqueViolation`), which
the caller sees as HTTP 500. Writes become visible at `TxCommit`. `Crash` loses all open calls;
`TxTimeout` rolls one transaction back. The catalogue in `MCSepayWebhook` has a payment for
each distinction the code makes: order, amount, account, reference, static QR with and without a
match, zero amount, outgoing, and a memo that names both an order and a student.

Not represented: authentication of the caller, the wording of memos, the wait between a claim and
a rollback seen by a third party (a rollback is a commit of nothing).

### DirectTopUp

`rows` are requests, `filing` is the position of the call that files one (row, then mail, then
cleanup if the mail fails), `pc`, `job` those of the approvals; `job.now` is the clock the call
took before its transaction. An approval that finds the request past its time takes `TxExpire`, an
update by id alone; otherwise `TxClaim`, an `updateMany` that repeats the guard, and `TxCommit`.

### SessionCharges

`sessions` are classes and attendance rows, `net` the wallet rows written for a session (charges
minus refunds), `balance` the balances. A call reads (`Create`, `Edit`, `Delete`), looks for a
paid row under the class lock when the class it read is `one_time` (`LookUp`), and commits. From
its first write to its commit a call holds the row of the session, so the writes are one step. An
edit is computed from `job.old`, the rows it read, and applied to the rows there are: this is what
`CommitEdit` does with `lost`. `overlaps` is an observer that counts calls that begin on a session
while another one is at it.

A change of mode is made by a *manager* (`Managers` are those that run at once; `change` is what each
holds in local variables) and takes two steps or three, since both handlers read and write later without
looking again:

- `updateClassPricingMode` reads the mode of the class outside its transaction (`ReadMode`).
  `UpdatePricingMode` is the transaction: it gives every chargeable row of the sessions whose teacher
  is not paid the price of the new mode, moves the balance by the difference and rewrites the wallet row of
  rows that are `linked` to one (`transactionId`). A row that was chargeable at fee 0 is not linked;
  `unlinked` adds up what such rows move. It does not read the mode again: if the course has turned the
  class `one_time` since, the class leaves that mode with its package rows repriced.
- The update of a course with one class reads whether the course is sold once (`ReadSale`; `sold` is
  the flag of the course, `oneTime` the mode of the class). To be sold once it counts the paid
  rows of the class (`CountPaid`), and commits flag and mode together (`UpdateSaleMode`); nothing is
  repriced. The count takes no lock: sessions may be created, edited and deleted, and the class may be
  repriced, between the count and the commit.

A repricing whose transaction overlaps a call at one of its sessions is left out. A change of a class's
prices concerns later sessions only and is not an action. That every class of the course has a
package is in the assumption on `Package`.

A creation takes mode and price from the class as it read it (`job.oneTime`, `job.price`), an edit takes
the mode from its first read and the prices from the class it reads in its transaction. `raced`
remembers the classes of which the statements about packages do not speak, because they do not hold there:

- a class that becomes `one_time` while the paid rows are no longer those of the count, be it that a session was
  charged or that rows free until then were repriced in between;
- a class that becomes `one_time` while a creation or an edit is at it, which has read the former mode;
- a class in which an edit that moves its session, or finds it moved, put it although the session had
  changed since the edit read it.

### ExamAttempt

The attempts of one student at one assignment. `choice` are stored answers, `points` the patches,
`job.snap` the copy of the answers a call has loaded. Whoever closes an attempt (submit, any read
after the end, the job) goes through `Claim`, one transaction guarded by `status = in_progress`.
Grading an essay is three statements: `WriteGrade`, `CountRemaining`, `ClearFlag`. `Grade` is of a closed
attempt: the handler (`attempt.service.ts:559-597`) asks only that the answer belongs to the latest one,
but a teacher finds the answer in a queue that lists closed attempts (`:458`). That callers keep
to it is an assumption on the environment, on which `CountedIsGraded` and `GradedIsCounted` rest: the closing
wipes a grade that was given while the attempt was in progress, and the clearing of the flag that belongs
to it may come afterwards.

### StudentLogin

One account, a student or a member of staff. `row` are the rows of `user_devices`, `request` the login
request each browser waits for, `cookie` the token each browser holds, `call` the handlers that are running.
Nothing here is a transaction, so an activation is five steps: `ActivateStart` (read and check),
`ActivateRemove`, `ActivateCreate`, `Bind`, `ActivateDelete`. `SignIn`, `RefreshStart` and `SetupPassword`
(the first password of an account that came by Google, which issues tokens for the device of the access
token) go on with `Bind` and `Answer`. The hash of a row is not represented: a token is the device it names
and whether it is the one `bound` to it; binding another unbinds it, unless both were signed in the same
second and are the same token. The cookies of a removed device become `Dead`; handlers keep its id, and an
id is drawn again only when nothing refers to it. `answered` counts the sessions handed out for a request,
`overlapped` says that two activations had both removed and not yet created.

Abstracted: the check and the creation of `studentLoginInit` are one step (nothing can read the
request in between; it is useful only once its link is clicked); so are the look-up and the removal of
a logout. A browser waits for one request at a time. The fallback to "the device used last"
takes any live device, since a request with an access token changes which one that is. Passwords,
the identity cache and tokens without a device id are left out; so `SetupPassword` may come again, where the
code refuses it once a password is set.

### StaffPayroll

One member of staff in one month, for any set of roles. `payable` are the rows of the month. A close
reads staff and roles (`CloseStaff`), salaries and operating rates (`CloseSettings`), then tax rates,
and creates what is missing (`CloseCreate`), in no transaction: settings may change in between, and
another close may run. `AutoClose` is the job's, which does nothing if the month has a row. An edit and
a payment each read pending rows and write later; the edit writes by id, the payment where the
row is still pending. Settings change in one step each, except the override, whose check of the role is
outside its transaction. Operating and tax rates are appended by two endpoints (`UpsertRoleOperatingRates`,
`AppendRoleTaxDeductionRate`). In the code they are per role, and may be overridden per person; the roles of
the model resolve to one operating and one tax rate. No property compares the rates of two roles.
`reported` counts the payments that counted a payable in their answer;
`overtaken` are automatic closes during which another close ended. Amounts are whole, rates whole
percents; `Deduct` rounds as the code does (`Math.round` of a number that is not negative).

## 3. Runs

| Run | Question | Bounds |
|---|---|---|
| `sepay_safety` | Is anything credited twice, wrongly, or reported as a duplicate without being one? Is the ledger implemented? | 10 kinds of transfer of which 2 occur, 2 orders, 2 students, 2 workers, 1 fault |
| `sepay_liveness` | Is every transfer answered, and every static QR payment credited? | 2 transfers that share a reference, 1 order, 2 workers, 1 fault |
| `direct_topup` | Is a request credited once, in time, and linked exactly then? | 2 requests, 2 approvals, 2 students, clock 0..2, lifetime 1 |
| `direct_topup_late` | Is a linked request an approved one, as documented? No | same |
| `session_charges` | Do wallets follow attendance through edits, moves and repricing, is a package paid by one row, at its own price, and kept by edits? | 2 sessions, 1 student, a package class and a per-session class, 2 calls, 2 managers, either an overlap or a change of a course and one of pricing mode, moves out of the package class |
| `session_charged_twice` | Does the class lock keep two edits from charging twice, as commented? No | same, no moves, no change of mode |
| `session_moved_into_package` | Is the package charged once when a session moves into the class? No | same, moves in, no overlap, no change of mode |
| `attempt_safety` | Is closing final, the score right, the flag right? | 2 attempts, 1 choice question, 2 essays, 2 calls and the job, 1 cut-off |
| `attempt_liveness` | Is every attempt closed without the student? | 1 attempt, 2 calls and the job, 2 cut-offs, clock 0..3 |
| `attempt_late_answers` | Are the stored answers the graded ones, as documented? No | 1 attempt, no fault |
| `student_login` | Does a request open one session, has a student one device, do staff share none, does a removed device stay removed? | 2 browsers, 2 device ids, 2 calls, 2 troubles (a call cut off, an answer lost, a session ended from outside) |
| `staff_payroll` | Is a payable created once, frozen, consistent, paid once and for good? | 2 roles, 2 calls, amounts 0 and 3, rates 0 and 60 %, 2 changes of roles or settings |

Why the bounds are enough. The properties relate two requests and a row, or two rows and a
key: two workers and two transfers, requests, sessions or attempts are the smallest instance with
every such pair, and a third would only add pairs. The exceptions are chains (a third
transaction that waits for a second that waits for a first), long sums, and in `session_charges`
overlaps together with changes of mode; the proofs of section 4 cover these, for every invariant and
action property of the passing runs. Amounts are chosen different wherever a mix-up would show (fees
1, 3 and 2 per session, block and package, shares 3, 2 and 2 of 7; of a salary of 3, 60 % and then
60 % of the rest both round up). One fault can hit any statement; after it the environment behaves.
`MaxTransfers`, `MaxFaults`, `MaxTime`, `MaxAttempts`, `MaxModeChanges`, `MaxTrouble`
and `MaxChanges` are the bounds in guards. Two device ids are enough for two calls and two browsers
because an id whose row is gone is free again as soon as nobody refers to it.
Deadlock is checked in `student_login` and `staff_payroll`, where something can always be asked, and
not in the others: there every behaviour may stop when nobody sends a request, and
the bounded clocks and transfers run out. That a call is not stuck is a question of liveness and is
asked there.

Every property of a passing run has a mutant: a definition next to the original with one plausible
bug (the comment says which), under which TLC finds the property violated.

### What the violations show

- `direct_topup_late`: an approval opens a request that expires while it runs; a second call,
  later by its clock, read the row before and writes `expired` over `approved` by id. The credit
  and its link stay, the status is wrong. The database document says only approval links a request.
- `session_charged_twice`: two edits of one session set a student present at the same time. Both
  read a row without a fee, then take the class lock one after the other; the lookup behind
  the lock excludes the session itself. Both charge the package.
- `session_moved_into_package`: the pricing mode asked for is that of the class the session leaves.
- `attempt_late_answers`: submit loads the answers, a save writes another one, the claim
  grades the copy. The saved answer is kept and counts nothing.

### What the documents say and the models do not have

The properties of the passing runs are stated as the code keeps them. These statements of the
documents are stronger, and the model has behaviours that break them:

- "Học sinh runtime chỉ giữ 1 row active" (`docs/Database Schema.md:99`): two activations may both
  remove and then both create (`auth.service.ts:1248`), and a sign-in through Google adds a device
  without removing any. `SingleDevice` therefore speaks of devices from requests and of activations
  that do not overlap in this way.
- "Token đã rotate / thiết bị đã xóa → 401" (`docs/adr/2026-09-07-immediate-device-revocation.md:16`):
  for a student any earlier token is accepted while the account has a live device
  (`user-device.service.ts:155`; its comment says "once"). `NoSharedSession` is stated of staff.
- "Khoản paid không sửa được" (`docs/Database Schema.md:684`): an edit that read the row before a
  payment committed overwrites its amounts (`staff.service.ts:2490`); likewise an edit of the note writes
  back the amounts it read. `PaidStaysPaid` and `PayableConsistent` are what remains true.
- "Chỉ được ghi khi nhân sự đang mang role đó" (`docs/Database Schema.md:682`): the role is checked
  before the transaction that writes the override, and stays when the roles are updated without
  overrides.
- Balances as the sum of the wallet rows (`docs/CHANGELOG.md:683` rebuilds them so): a change of
  pricing mode moves balances without a wallet row (`class.service.ts:2236`), which is the term
  `unlinked` of `WalletFollowsAttendance`.
- "Chỉ bật được khi chưa lớp nào của khoá có điểm danh present/excused mang học phí > 0"
  (`docs/adr/2026-10-04-one-time-course-setting.md:20`): the paid rows are counted at
  `course.service.ts:151` and the mode is written at `:195`, without a lock. A session charged in
  between carries the price of one session and counts as the package; so does one created by a
  call that read the class before. A repricing of the class in between (`class.service.ts:2037`) makes every free
  row cost a block, so that a student may have two paid rows. `PaidRowIsPackage`, `OnePaidRowPerPackage`
  and `EditKeepsPackage` leave such classes out (`raced`), and those into which an edit moved a session
  that another call had changed since.
- A course sold once has only `one_time` classes (`docs/Database Schema.md:358`): a change of pricing mode that
  read the class before the course changed (`class.service.ts:2011`) commits after it, makes the
  class `per_block` again and prices its package rows as blocks. The statements about packages are of
  classes that are `one_time`; the wallet follows the rows here too.
- "Chạy lại không tạo thêm" (`docs/Database Schema.md:684`) is of the same role and person;
  an automatic close that overlaps a manual one adds what was not there yet, hence the exception in
  `AutoClosesOnce`.

### Fairness

- `sepay_liveness`: weak fairness of every step of an accepted request (Node runs a handler whose
  statement has returned), and strong fairness of receiving an unanswered transfer: SePay repeats a
  report until it reads success. Strong, because the slots of the model are busy from
  time to time. `PersistOrder`, transfers, deletions and faults have no fairness.
- `attempt_liveness`: weak fairness of the clock and of the job, which runs every minute. Requests
  have none: a student may vanish at any statement. Cut-offs are bounded, that is, the job does not
  fail for ever.

## 4. Proofs

The proofs hold for all values of the constants, from the named assumptions of the modules. These
are types, bounds, finiteness where something is counted or summed, and that the marker of a missing
value (`None`, `Nil`) is none of the values; TLC evaluates them in every run. Each module of proofs
shows an inductive invariant (`Invariance`: `Spec => []IInv`), action by action, and derives the rest
from it. `IInv` is stated at the end of the component's module, since it says what the code relies on.
It holds as an invariant of the instances of section 3 too.

| Module of proofs | Invariants of the runs | Action properties, refinement |
|---|---|---|
| `SepayWebhookProofs` | `TypeOK`, `LedgerMatchesOrders`, `CreditedOnce`, `BalanceIsLedger`, `OneReceiptPerOrder` | `HonestDuplicate`, `LedgerSpec` |
| `DirectTopUpProofs` | `TypeOK`, `LinkedIffCredited`, `BalanceIsLedger` | `NoCreditAfterExpiry`, `LedgerSpec` |
| `SessionChargesProofs` | `TypeOK`, `WalletFollowsAttendance`, `PaidRowIsPackage`; under `NoMoveIn` `OnePaidRowPerPackage` | under `NoMoveIn` `EditKeepsPackage` |
| `ExamAttemptProofs` | `TypeOK`, `OneInProgress`, `ScoreMatchesPatches`, `CountedIsGraded`, `GradedIsCounted` | `ClosedIsFinal` |
| `StudentLoginProofs` | `TypeOK`, `OneSessionPerRequest`, `SingleDevice`, `NoSharedSession` | `RemovedIsGone` |
| `StaffPayrollProofs` | `TypeOK`, `PayableConsistent`, `PaidOnce` | `FrozenAtClose`, `PaidStaysPaid`, `AutoClosesOnce` |

### SepayWebhook

`CreditedOnce` is not inductive: it says nothing of a transaction that is about to commit. `IInv`
adds what such a transaction knows. `RowsOK` gives each status its shape. `UniqueKeys` is the
database's constraint on committed rows. `RequestsOK` is what a request carries from one statement
to the next: its order was stored once, bears the code of its memo and, while it exists, has the
transfer's amount and account. `HoldersOK` is the heart: a transaction past its claim holds a row
that is still to be completed, no committed row carries its transfer, and two such transactions
differ in both row and transfer. `HolderOK` is established by the claim (guard, unique key, wait)
and kept by every other step because whoever could break it would have to hold the same row or key.
`TypeOK` contains the foreign key: a stored row belongs to a student who exists, which the cascade of a
deletion keeps and the insertion of a row is refused without (in `DirectTopUp` likewise).
With it `TxCommit` adds a wallet row for a fresh order and a fresh transfer, which gives
`LedgerMatchesOrders`; `UniqueKeys` and `LedgerMatchesOrders` give `CreditedOnce`, and the freshness
makes the commit a `Credit` step of the ledger: every step is a step of `TopUpLedger` or a stutter.

That the row is fresh is also what `BalanceIsLedger` needs: the wallet rows are a set, and the balance
moves by the amount of a row that was not in it (`LedgerOK`). For `OneReceiptPerOrder`, `ReceiptsOK`
adds that an order that is mailed about, or was, has been paid, and that a static order whose student
was deleted is not paid again: then only the one transaction that completes an order reaches `receipt`.

### DirectTopUp

`IInv` adds to `LinkedIffCredited` that a running approval is for a request that was filed, that one
past its claim holds a row that is still pending and is its only holder, and that a pending row is not
linked: so the commit meets a request without a credit. The update by id that `direct_topup_late`
complains of keeps all this, because it changes neither link nor wallet.

### Sums

`SumFunction` folds a function over its domain by a recursion that no prover unfolds, and the library's
induction theorems cannot be instantiated. `SumTheorems` proves what is needed from the definition:
the recursion exists and is unique on a finite set, by the minimal counterexample in a family of subsets
(well-foundedness of strict inclusion). From this come the lemmas that the components cite: a summand
can be taken out wherever it is (`SumRemove`), two functions that differ at one place have sums that
differ by that much (`SumChange`), sums add pointwise (`SumPlus`) and over disjoint sets (`SumUnion`).

### SessionCharges

An edit charges the difference between what it computed and what it had read, so
`WalletFollowsAttendance` needs that what it read is still there. `ReadStands` says so of a call that is
alone at its session, and that it is alone: `overlaps` counts the calls that were not. The commit of
such a call changes one summand by what it moves the balance (`SumChange`); a change of pricing mode
changes one summand in every session, once in `net` and once in `unlinked` (`SumPlus`). `CallOK` and
`NewSessions` are the shapes this rests on. `PackagePriced` is the part about prices: in a class sold
once, a call that stays in the class it read knows the class is sold once and has the package for its
price, and rows it keeps are paid at it already. A call for which this is not so moves the session,
and then the price comes from the class it moves to, or the class is in `raced`.
Where a class enters the mode, `NobodyFound` (a course that has counted goes on only if it found nobody)
gives `BecomesOneTime`: unless the class is raced, nobody is charged in it at the commit, whatever has
run since the count, and no call is at it. So `PaidRowIsPackage` starts from no paid row, and
`LookupStands` below from no lookup.

`OnePaidRowPerPackage` does not follow from the lock alone. A call locks the class that it read as sold
once; an edit that moves a session into such a class from one that is not takes no lock and looks nothing
up. This is what `session_moved_into_package` shows, so the theorem has to exclude it: `NoMoveIn` says that
an edit that commits a session to a class sold once in which it was not when it was read, comes from a class
that is sold once too. Apart from the classes in `raced` nothing else is excluded, in particular no number
of calls, sessions, moves or changes of mode. Under it `SaleInv` is inductive: a lock has one holder
(`OneHolder`), and what the holder looked up stands until it commits (`LookupStands`), as every call that
could make a row of the class paid would hold the lock, a repricing takes its class out of the mode, and a
class that enters it without a race is empty in the sense of `BecomesOneTime`. The holder then charges only
students without a paid row elsewhere in the class. `EditKeepsPackage` uses the other half of
`LookupStands`: a student whom the lookup found charged elsewhere has no paid row in the session itself.

### ExamAttempt

No transaction spans two statements of a call, so `CallsOK` says what a call may still rely on:
an attempt that was started stays started, one that is closed stays closed, a graded essay stays
graded, time does not run backwards. So the claim is the one place that closes, it does so for an attempt in
progress only (`ClosedIsFinal`), and the insertion happens when none is in progress
(`OneInProgress`). A call that reaches `clear` has counted no essay left, and none
can be left later (`CountedIsGraded`). `GradedIsCounted` is inductive with `faults` and the calls at work in it:
of two teachers who grade at once, the one who counts last finds nothing left.
`ScoreMatchesPatches` needs that the score is the sum of what the claim wrote, and that the shares of
`split-total-points.ts` add up to the total: the remainders go to the first questions, and the first
`k` shares are `k` times the quotient plus as many of the remainder as fit, by induction on `k`.

### StudentLogin

Nothing is locked here, and every handler works from what it read. `OneSessionPerRequest` holds because
the answer of an activation deletes the request and a request that is there was never answered
(`RequestsOK`). `OneCreator` is the argument for `SingleDevice`: unless two activations have both removed and
not created (`overlapped`), the one that has removed is alone and no device of a request is left.
`NoSharedSession` needs `OneOwner`: a device is *used* by a browser whose cookie names it or for which a
running handler holds it, and of a member of staff it is used by one browser only. A
refresh or an answer moves a token between a handler and the cookie of the same browser; a new
device is drawn among ids that nothing refers to, as a cookie of a removed device is `Dead` and a live one has a
row (`CookiesLive`). The same freedom of new ids gives `RemovedIsGone`.

### StaffPayroll

`CallsOK` says what survives between the read and the write of an edit: the row it read agrees with
itself and has the rates of the payable, as rates never change after creation. So an edit that writes
over a payment writes amounts that agree (`PayableConsistent`) and no status (`PaidStaysPaid`). `PaidOnce` is
not inductive: it needs `ReportedIsPaid`, that a payable which a payment has counted is paid, so that the
guard of the next payment fails. An automatic close keeps seeing an empty month until another close
ends (`AutoClosesOnce`). `TypeOK` contains arithmetic (`DeductionsFit`): a rounded share of at most 100 %
is at most the amount, so operating costs and then tax on what is left leave a natural number.

### Only model-checked

Liveness: `EveryTransferAnswered`, `StaticPaymentCredited`, `EveryAttemptCloses`. Fairness and ENABLED are
beyond the prover. `OnePaidRowPerPackage` and `EditKeepsPackage` are proved under `NoMoveIn`; the run
`session_charges` checks them without naming it, for moves out of the package class. The four
properties of the runs that expect a violation are false.

## 5. Plan

Every safety property of the passing runs is proved. What is left to prove:

1. That `TopUpLedger` itself keeps its promise (one credit per source, balances as sums) as a theorem of
   the abstract specification, and `BalanceIsLedger` of both components as its corollary.
2. A second refinement: the closing of an attempt (one of three closers claims, the rest read) against a
   specification with a single atomic close.
3. `SaleInv` with `raced` narrowed: the classes left out are those of `UpdateSaleMode` and of edits
   over a session that changed. For the former the properties do not hold (section 3), the latter
   might be narrowed to edits that move.

## 6. Not modelled

`PROJECT.json` gives the reason per component. In short:

- the front end (the larger half of the source) and the shared packages: they keep no state that decides
  anything, and what they do to the API is in the models as requests that come at any time, twice, or
  never again;
- dashboards, statistics, reports, histories, calendar views: they read, in one statement or in several
  that promise no snapshot;
- classes, courses, lessons, surveys, content, questions, staff and student profiles, galleries,
  regulations: create, read, update and delete of rows that validate their input and are decided by the
  last write. What moves money in them is in `SessionCharges` and `StaffPayroll`;
- payments of teaching sessions, shares, bonuses, lesson outputs and deposits: updates by id of rows
  that have no relation to one another. They have the weakness that the mutant `PayById` shows for
  payables (`staff.service.ts:4068`), and no statement of the documents to hold them to;
- the chain of defaults of a tuition fee and of teacher allowances, dates and schedules: functions of
  one snapshot, covered by the unit tests beside them;
- a second try of a failed automatic close: there is none, the error is logged
  (`fixed-salary-close.scheduler.ts:33`) and the month stays open until somebody closes it;
- the identity cache: it delays what `StudentLogin` says by its lifetime;
- text and layout (mails, memos, QR pictures, exports), external services behind their answers,
  authentication and access checks in front of a handler, deployment.

Several API processes are not told apart from one with several requests, except for the in-memory
guard of session creation, which is left out because it only removes interleavings within one process.
