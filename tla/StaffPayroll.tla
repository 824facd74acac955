---------------------------- MODULE StaffPayroll ----------------------------
(***************************************************************************)
(* The fixed salaries of one member of staff in one month.                 *)
(*                                                                         *)
(* Closing the month turns each role with a salary into a payable with the *)
(* amount and the rates of that moment; the automatic close of the 28th    *)
(* leaves a month alone that somebody closed by hand.  A pending payable   *)
(* may be edited, and is paid with the other pending items.                *)
(*                                                                         *)
(* The close is no transaction, the others run at READ COMMITTED: what a   *)
(* call read may be out of date when it writes.  So a call is a step per   *)
(* read that another call can overtake, and a step for its last write,     *)
(* whose WHERE clause the database evaluates on the row of that moment.    *)
(***************************************************************************)
EXTENDS Integers, FiniteSets

CONSTANTS
  Role,         \* roles with a fixed salary (FIXED_SALARY_STAFF_ROLES)
  Amounts,      \* gross amounts an administrator may enter
  Rates,        \* percentages an administrator may enter
  Call,         \* handlers that may run at once
  MaxChanges,   \* bound: changes of roles and settings
  None

ASSUME PayrollAssumption ==
  /\ Amounts \subseteq Nat /\ Rates \subseteq 0..100
  /\ MaxChanges \in Nat /\ IsFiniteSet(Role)
  /\ None \notin Role \cup Call \cup Int

VARIABLES
  roles,       \* roles of the member of staff
  active,      \* status is active
  salary,      \* role -> default amount, or None
  override,    \* role -> amount for this member of staff, or None
  opRate,      \* the operating rate that applies, to every role
  taxRate,     \* the tax rate that applies, to every role
  payable,     \* role -> the payable of the month, or None
  call,        \* handler -> where it stands and what it read
  reported,    \* history: role -> payments that counted its payable
  overtaken,   \* history: automatic closes during which the month was closed
  changes

settings == <<roles, active, salary, override, opRate, taxRate, changes>>
vars == <<settings, payable, call, reported, overtaken>>
-----------------------------------------------------------------------------
roundMoney(hundredths) == (hundredths + 50) \div 100

\* Mutant: the tax is taken on the gross amount.
TaxOnGross(gross, op, tax) ==
  LET opAmount == roundMoney(gross * op)
      taxAmount == roundMoney(gross * tax)
  IN  [gross |-> gross, op |-> op, tax |-> tax, opAmount |-> opAmount,
       taxAmount |-> taxAmount, net |-> gross - opAmount - taxAmount]

\* calculateDeductionAmounts: operating costs on the gross amount, the tax on
\* what remains, each rounded.
Deduct(gross, op, tax) ==
  LET opAmount == roundMoney(gross * op)
      taxAmount == roundMoney((gross - opAmount) * tax)
  IN  [gross |-> gross, op |-> op, tax |-> tax, opAmount |-> opAmount,
       taxAmount |-> taxAmount, net |-> gross - opAmount - taxAmount]

\* resolveFixedSalaryAxis: the override, an override of 0 too, else the default.
Applied(r) == IF override[r] # None THEN override[r] ELSE salary[r]

Row == [gross : Nat, op : Rates, tax : Rates, opAmount : Nat, taxAmount : Nat,
        net : Nat, status : {"pending", "paid"}]

ASSUME RowAssumption == None \notin Row

Pending(r) == payable[r] # None /\ payable[r].status = "pending"
Open(f, status) == [gross |-> f.gross, op |-> f.op, tax |-> f.tax, opAmount |-> f.opAmount,
                    taxAmount |-> f.taxAmount, net |-> f.net, status |-> status]

Idle == [at |-> "idle", auto |-> FALSE, roles |-> {}, op |-> None,
         salaries |-> [r \in Role |-> None], read |-> None, amount |-> None]
Free(c) == call[c] = Idle
Finish(c) == call' = [call EXCEPT ![c] = Idle]

Init ==
  /\ roles \in (SUBSET Role) \ {{}}
  /\ active = TRUE
  /\ salary \in [Role -> Amounts]
  /\ override = [r \in Role |-> None]
  /\ opRate \in Rates /\ taxRate \in Rates
  /\ payable = [r \in Role |-> None]
  /\ call = [c \in Call |-> Idle]
  /\ reported = [r \in Role |-> 0]
  /\ overtaken = {}
  /\ changes = 0
-----------------------------------------------------------------------------
(***************************************************************************)
(* Closing the month.                                                      *)
(***************************************************************************)

\* closeMonth, from the page.
ManualClose(c) ==
  /\ Free(c)
  /\ call' = [call EXCEPT ![c].at = "closing"]
  /\ UNCHANGED <<settings, payable, reported, overtaken>>

\* Mutant: only pending payables are counted.
AutoCountsPending(c) ==
  /\ Free(c)
  /\ \A r \in Role : ~Pending(r)
  /\ call' = [call EXCEPT ![c].at = "closing", ![c].auto = TRUE]
  /\ UNCHANGED <<settings, payable, reported, overtaken>>

\* closeMonthIfUnclosed, from the job: nothing when the month has a payable.
AutoClose(c) ==
  /\ Free(c)
  /\ \A r \in Role : payable[r] = None
  /\ call' = [call EXCEPT ![c].at = "closing", ![c].auto = TRUE]
  /\ UNCHANGED <<settings, payable, reported, overtaken>>

\* buildPayableCandidates reads the active staff and their roles,
CloseStaff(c) ==
  /\ call[c].at = "closing"
  /\ call' = [call EXCEPT ![c].at = "staff", ![c].roles = IF active THEN roles ELSE {}]
  /\ UNCHANGED <<settings, payable, reported, overtaken>>

\* ... then the salaries and operating rates,
CloseSettings(c) ==
  /\ call[c].at = "staff"
  /\ call' = [call EXCEPT ![c].at = "settings", ![c].op = opRate,
       ![c].salaries = [r \in Role |-> IF r \in call[c].roles THEN Applied(r) ELSE None]]
  /\ UNCHANGED <<settings, payable, reported, overtaken>>

\* The rows of the close c, with the tax rates of the moment.
Candidates(c) ==
  [r \in {r \in Role : call[c].salaries[r] \notin {None, 0}} |->
     Open(Deduct(call[c].salaries[r], call[c].op, taxRate), "pending")]

Closed(c) ==
  /\ overtaken' = {d \in Call \ {c} : d \in overtaken \/ call[d].auto}
  /\ Finish(c)

\* Mutant: an upsert instead of createMany.
CloseUpserts(c) ==
  /\ call[c].at = "settings"
  /\ payable' = [r \in Role |-> IF r \in DOMAIN Candidates(c) THEN Candidates(c)[r] ELSE payable[r]]
  /\ Closed(c)
  /\ UNCHANGED <<settings, reported>>

\* ... then the tax rates, and creates the rows, skipping those there are: a
\* role has one payable a month.  A tax rate that changes between the two
\* statements might as well change after the second.
CloseCreate(c) ==
  /\ call[c].at = "settings"
  /\ payable' = [r \in Role |->
       IF payable[r] = None /\ r \in DOMAIN Candidates(c) THEN Candidates(c)[r] ELSE payable[r]]
  /\ Closed(c)
  /\ UNCHANGED <<settings, reported>>
-----------------------------------------------------------------------------
(***************************************************************************)
(* Editing and paying.                                                     *)
(***************************************************************************)

\* updateStaffFixedSalaryPayable reads the row and refuses a paid one.  The
\* amount is None when only the note is edited.
EditRead(c, r, amount) ==
  /\ Free(c) /\ Pending(r)
  /\ call' = [call EXCEPT ![c].at = "editing", ![c].roles = {r},
       ![c].read = payable[r], ![c].amount = amount]
  /\ UNCHANGED <<settings, payable, reported, overtaken>>

\* Mutant: the rates of today instead of the payable's own.
EditRepriced(c) ==
  /\ call[c].at = "editing"
  /\ \E r \in call[c].roles :
       LET next == IF call[c].amount = None THEN call[c].read
                   ELSE Deduct(call[c].amount, opRate, taxRate)
       IN payable' = [payable EXCEPT
            ![r].gross = next.gross, ![r].opAmount = next.opAmount,
            ![r].taxAmount = next.taxAmount, ![r].net = next.net]
  /\ Finish(c)
  /\ UNCHANGED <<settings, reported, overtaken>>

\* Mutant: the whole row is written back.
EditReopens(c) ==
  /\ call[c].at = "editing"
  /\ \E r \in call[c].roles :
       LET old == call[c].read
           next == IF call[c].amount = None THEN old
                   ELSE Open(Deduct(call[c].amount, old.op, old.tax), old.status)
       IN payable' = [payable EXCEPT ![r] = next]
  /\ Finish(c)
  /\ UNCHANGED <<settings, reported, overtaken>>

\* ... and writes the amounts by the row's id alone: new ones from the rates
\* it read, or the ones it read.
EditWrite(c) ==
  /\ call[c].at = "editing"
  /\ \E r \in call[c].roles :
       LET old == call[c].read
           next == IF call[c].amount = None THEN old ELSE Deduct(call[c].amount, old.op, old.tax)
       IN payable' = [payable EXCEPT
            ![r].gross = next.gross, ![r].opAmount = next.opAmount,
            ![r].taxAmount = next.taxAmount, ![r].net = next.net]
  /\ Finish(c)
  /\ UNCHANGED <<settings, reported, overtaken>>

\* payAllPayments, paySelectedPayments load the pending items; the selected
\* ones must be among them.
PayRead(c, S) ==
  /\ Free(c)
  /\ S # {} /\ \A r \in S : Pending(r)
  /\ call' = [call EXCEPT ![c].at = "paying", ![c].roles = S]
  /\ UNCHANGED <<settings, payable, reported, overtaken>>

\* Mutant: the update is by id alone, as for the teaching sessions.
PayById(c) ==
  /\ call[c].at = "paying"
  /\ payable' = [r \in Role |-> IF r \in call[c].roles
       THEN [payable[r] EXCEPT !.status = "paid"] ELSE payable[r]]
  /\ reported' = [r \in Role |-> IF r \in call[c].roles THEN reported[r] + 1 ELSE reported[r]]
  /\ Finish(c)
  /\ UNCHANGED <<settings, overtaken>>

\* applyStaffPaymentPreviewRecords, its fixed salaries: what is still pending
\* is paid, and counted in the answer.
PayApply(c) ==
  /\ call[c].at = "paying"
  /\ LET paid == {r \in call[c].roles : Pending(r)} IN
     /\ payable' = [r \in Role |-> IF r \in paid
          THEN [payable[r] EXCEPT !.status = "paid"] ELSE payable[r]]
     /\ reported' = [r \in Role |-> IF r \in paid THEN reported[r] + 1 ELSE reported[r]]
  /\ Finish(c)
  /\ UNCHANGED <<settings, overtaken>>

\* The process stops; a transaction leaves nothing behind.
CutOff(c) ==
  /\ ~Free(c)
  /\ Finish(c)
  /\ overtaken' = overtaken \ {c}
  /\ UNCHANGED <<settings, payable, reported>>
-----------------------------------------------------------------------------
(***************************************************************************)
(* Roles and settings.                                                     *)
(***************************************************************************)
Change ==
  /\ changes < MaxChanges /\ changes' = changes + 1
  /\ UNCHANGED <<payable, reported, overtaken>>

\* updateStaff: the roles, and when the page sends its overrides, they replace
\* those of roles that went.
UpdateStaff(R, synced) ==
  /\ Change
  /\ roles' = R
  /\ override' = [r \in Role |-> IF synced /\ r \notin R THEN None ELSE override[r]]
  /\ UNCHANGED <<active, salary, opRate, taxRate, call>>

\* updateStaffStatus.
UpdateStaffStatus ==
  /\ Change
  /\ active' = ~active
  /\ UNCHANGED <<roles, salary, override, opRate, taxRate, call>>

\* upsertRoleDefaults; None deletes the row.
UpsertRoleDefaults(r, amount) ==
  /\ Change
  /\ amount # salary[r]
  /\ salary' = [salary EXCEPT ![r] = amount]
  /\ UNCHANGED <<roles, active, override, opRate, taxRate, call>>

\* upsertRoleOperatingRates.  Rates are kept per role, and a member of staff may
\* have rates of their own: all roles of the model resolve to one operating rate,
UpsertRoleOperatingRates(op) ==
  /\ Change
  /\ op # opRate /\ opRate' = op
  /\ UNCHANGED <<roles, active, salary, override, taxRate, call>>

\* ... and to one tax rate: appendRoleTaxDeductionRate, of another endpoint.
AppendRoleTaxDeductionRate(tax) ==
  /\ Change
  /\ tax # taxRate /\ taxRate' = tax
  /\ UNCHANGED <<roles, active, salary, override, opRate, call>>

\* upsertStaffAmountOverride reads the roles outside its transaction,
OverrideRead(c, r, amount) ==
  /\ Free(c)
  /\ r \in roles
  /\ call' = [call EXCEPT ![c].at = "overriding", ![c].roles = {r}, ![c].amount = amount]
  /\ UNCHANGED <<settings, payable, reported, overtaken>>

\* ... and writes or deletes the override.
OverrideWrite(c) ==
  /\ call[c].at = "overriding"
  /\ Change
  /\ override' = [r \in Role |-> IF r \in call[c].roles THEN call[c].amount ELSE override[r]]
  /\ Finish(c)
  /\ UNCHANGED <<roles, active, salary, opRate, taxRate>>
-----------------------------------------------------------------------------
Next ==
  \/ \E c \in Call :
       \/ ManualClose(c) \/ AutoClose(c)
       \/ CloseStaff(c) \/ CloseSettings(c) \/ CloseCreate(c)
       \/ EditWrite(c) \/ PayApply(c) \/ OverrideWrite(c) \/ CutOff(c)
       \/ \E S \in SUBSET Role : PayRead(c, S)
       \/ \E r \in Role, amount \in Amounts \cup {None} :
            EditRead(c, r, amount) \/ OverrideRead(c, r, amount)
  \/ \E R \in SUBSET Role, synced \in BOOLEAN : UpdateStaff(R, synced)
  \/ UpdateStaffStatus
  \/ \E r \in Role, amount \in Amounts \cup {None} : UpsertRoleDefaults(r, amount)
  \/ \E rate \in Rates : UpsertRoleOperatingRates(rate) \/ AppendRoleTaxDeductionRate(rate)

Spec == Init /\ [][Next]_vars
-----------------------------------------------------------------------------
\* Every variable keeps its type: rounding never makes a deduction or a net
\* amount of calculateDeductionAmounts negative, at rates up to 100 %.
TypeOK ==
  /\ roles \subseteq Role /\ active \in BOOLEAN
  /\ salary \in [Role -> Amounts \cup {None}]
  /\ override \in [Role -> Amounts \cup {None}]
  /\ opRate \in Rates /\ taxRate \in Rates
  /\ payable \in [Role -> Row \cup {None}]
  /\ call \in [Call ->
       [at : {"idle", "closing", "staff", "settings", "editing", "paying", "overriding"},
        auto : BOOLEAN, roles : SUBSET Role, op : Rates \cup {None},
        salaries : [Role -> Amounts \cup {None}], read : Row \cup {None},
        amount : Amounts \cup {None}]]
  /\ reported \in [Role -> Nat]
  /\ overtaken \subseteq Call
  /\ changes \in 0..MaxChanges

\* Whatever edits and rate changes overlap, the deductions and the net amount
\* of a payable are those of its gross amount at its own rates.
PayableConsistent ==
  \A r \in Role : payable[r] # None =>
    payable[r] = Open(Deduct(payable[r].gross, payable[r].op, payable[r].tax), payable[r].status)

\* Payments that overlap never both report a payable as paid.
PaidOnce == \A r \in Role : reported[r] <= 1

\* Closing the month again changes no payable and adds to none: after its
\* creation only an edit or a payment touches it, and its rates never change.
FrozenAtClose ==
  [][\A r \in Role : payable[r] # None =>
       /\ payable'[r] # None
       /\ payable'[r].op = payable[r].op /\ payable'[r].tax = payable[r].tax
       /\ \A c \in Call : call[c].at = "settings" /\ call'[c] = Idle => payable'[r] = payable[r]]_vars

\* A paid payable is not pending again, though an edit may have read it before
\* it was paid.
PaidStaysPaid ==
  [][\A r \in Role : payable[r] # None /\ payable[r].status = "paid" =>
       payable'[r].status = "paid"]_vars

\* The automatic close adds nothing to a month that was closed before it
\* began; later hires are added only if another close ran at the same time.
AutoClosesOnce ==
  [][\A c \in Call :
       /\ call[c].auto /\ call'[c] = Idle /\ payable' # payable
       => c \in overtaken \/ \A r \in Role : payable[r] = None]_vars
-----------------------------------------------------------------------------
(* The inductive invariant behind these properties. *)

\* An edit keeps the row it read, whose amounts agree and whose rates are those
\* of the payable it will write to; a close has read rates before it creates; an
\* automatic close that no other close overtook still sees an empty month.
CallsOK ==
  \A c \in Call :
    /\ call[c].at = "editing" => \E r \in Role :
         LET old == call[c].read IN
         /\ call[c].roles = {r} /\ payable[r] # None /\ old # None
         /\ old.op = payable[r].op /\ old.tax = payable[r].tax
         /\ old = Open(Deduct(old.gross, old.op, old.tax), old.status)
    /\ call[c].at = "settings" => call[c].op # None
    /\ call[c].auto => c \in overtaken \/ \A r \in Role : payable[r] = None

\* A payable that a payment has counted is paid.
ReportedIsPaid ==
  \A r \in Role : reported[r] # 0 =>
    reported[r] = 1 /\ payable[r] # None /\ payable[r].status = "paid"

IInv == TypeOK /\ PayableConsistent /\ CallsOK /\ ReportedIsPaid
=============================================================================
