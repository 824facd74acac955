------------------------- MODULE StaffPayrollProofs -------------------------
(***************************************************************************)
(* TLAPS proofs about StaffPayroll, for any roles, amounts, percentages    *)
(* and number of concurrent handlers.                                      *)
(*                                                                         *)
(* Deductions first: at rates up to 100 % the two rounded deductions never *)
(* exceed the amount (DeductionsFit), which types the payables.  Then the  *)
(* invariant: what an edit has read agrees with itself and bears the rates *)
(* of the payable, which never change (CallsOK), so writing it by id keeps *)
(* the payable consistent whatever happened in between.                    *)
(***************************************************************************)
EXTENDS StaffPayroll, TLAPS

USE PayrollAssumption

-----------------------------------------------------------------------------
(* calculateDeductionAmounts. *)

\* A percentage of a natural number, in hundredths, rounds to at most the number.
LEMMA RoundedShare ==
  ASSUME NEW n \in Nat, NEW rate \in 0..100
  PROVE  roundMoney(n * rate) \in Nat /\ roundMoney(n * rate) <= n
<1>1. n * rate \in Nat /\ n * rate <= 100 * n
  <2>1. n * (100 - rate) >= 0
    BY SMT
  <2>2. n * (100 - rate) = 100 * n - n * rate
    BY SMT
  <2>3. n * rate \in Nat
    BY SMT
  <2> QED
    BY <2>1, <2>2, <2>3
<1> DEFINE h == n * rate
<1>2. h \in Nat /\ h <= 100 * n
  BY <1>1
<1> HIDE DEF h
<1>3. (h + 50) \div 100 \in Nat /\ (h + 50) \div 100 <= n
  BY <1>2, SMT
<1> QED
  BY <1>3 DEF roundMoney, h

\* The deductions and the net amount are natural numbers that add up to the
\* gross amount, both roundings notwithstanding.
LEMMA DeductionsFit ==
  ASSUME NEW gross \in Nat, NEW op \in Rates, NEW tax \in Rates
  PROVE  LET d == Deduct(gross, op, tax) IN
         /\ d.gross = gross /\ d.op = op /\ d.tax = tax
         /\ d.opAmount \in Nat /\ d.taxAmount \in Nat /\ d.net \in Nat
         /\ d.opAmount + d.taxAmount + d.net = gross
<1> DEFINE o == roundMoney(gross * op)
           t == roundMoney((gross - o) * tax)
<1>1. o \in Nat /\ o <= gross
  BY RoundedShare
<1> HIDE DEF o
<1>2. gross - o \in Nat
  BY <1>1
<1>3. t \in Nat /\ t <= gross - o
  BY <1>2, RoundedShare
<1> HIDE DEF t
<1>4. gross - o - t \in Nat /\ o + t + (gross - o - t) = gross
  BY <1>1, <1>3
<1>5. Deduct(gross, op, tax) = [gross |-> gross, op |-> op, tax |-> tax, opAmount |-> o,
                                taxAmount |-> t, net |-> gross - o - t]
  BY DEF Deduct, o, t
<1> QED
  BY <1>1, <1>3, <1>4, <1>5

Statuses == {"pending", "paid"}
Consistent(p) == p = Open(Deduct(p.gross, p.op, p.tax), p.status)

\* A payable made from a deduction has the type of a row and is consistent.
LEMMA OpenIsRow ==
  ASSUME NEW gross \in Nat, NEW op \in Rates, NEW tax \in Rates, NEW status \in Statuses
  PROVE  Open(Deduct(gross, op, tax), status) \in Row
<1> DEFINE d == Deduct(gross, op, tax)
<1>1. /\ d.gross = gross /\ d.op = op /\ d.tax = tax
      /\ d.opAmount \in Nat /\ d.taxAmount \in Nat /\ d.net \in Nat
  BY DeductionsFit
<1> HIDE DEF d
<1>2. Open(d, status) \in Row
  BY <1>1 DEF Open, Row, Statuses
<1> QED
  BY <1>2 DEF d

LEMMA OpenFields ==
  ASSUME NEW gross, NEW op, NEW tax, NEW status
  PROVE  LET p == Open(Deduct(gross, op, tax), status) IN
         p.gross = gross /\ p.op = op /\ p.tax = tax /\ p.status = status
BY DEF Open, Deduct

LEMMA OpenIsConsistent ==
  ASSUME NEW gross, NEW op, NEW tax, NEW status
  PROVE  Consistent(Open(Deduct(gross, op, tax), status))
<1> DEFINE p == Open(Deduct(gross, op, tax), status)
<1>1. p = Open(Deduct(p.gross, p.op, p.tax), p.status)
  BY OpenFields
<1> HIDE DEF p
<1>2. Consistent(p)
  BY <1>1 DEF Consistent
<1> QED
  BY <1>2 DEF p

-----------------------------------------------------------------------------
(* The invariant. *)

LEMMA InitIInv == Init => IInv
<1> SUFFICES ASSUME Init PROVE IInv
  OBVIOUS
<1>1. Idle.at = "idle" /\ ~Idle.auto
  BY DEF Idle
<1>2. TypeOK
  BY DEF Init, TypeOK, Idle
<1>3. PayableConsistent /\ CallsOK /\ ReportedIsPaid
  BY <1>1 DEF Init, PayableConsistent, CallsOK, ReportedIsPaid
<1> QED
  BY <1>2, <1>3 DEF IInv

CallRecord ==
  [at : {"idle", "closing", "staff", "settings", "editing", "paying", "overriding"},
   auto : BOOLEAN, roles : SUBSET Role, op : Rates \cup {None},
   salaries : [Role -> Amounts \cup {None}], read : Row \cup {None}, amount : Amounts \cup {None}]

\* What CallsOK asks of one call.
CallOK(c) ==
  /\ call[c].at = "editing" => \E r \in Role :
       LET old == call[c].read IN
       /\ call[c].roles = {r} /\ payable[r] # None /\ old # None
       /\ old.op = payable[r].op /\ old.tax = payable[r].tax
       /\ old = Open(Deduct(old.gross, old.op, old.tax), old.status)
  /\ call[c].at = "settings" => call[c].op # None
  /\ call[c].auto => c \in overtaken \/ \A r \in Role : payable[r] = None

\* A step that leaves the payables alone and moves one handler.
LEMMA MoveCall ==
  ASSUME IInv, NEW c \in Call, NEW j \in CallRecord,
         call' = [call EXCEPT ![c] = j], UNCHANGED <<payable, reported>>,
         overtaken' \subseteq Call, overtaken \ {c} \subseteq overtaken',
         TypeOK => /\ roles' \subseteq Role /\ active' \in BOOLEAN
                   /\ salary' \in [Role -> Amounts \cup {None}]
                   /\ override' \in [Role -> Amounts \cup {None}]
                   /\ opRate' \in Rates /\ taxRate' \in Rates /\ changes' \in 0..MaxChanges,
         j.at = "editing" => CallOK(c)',
         j.at = "settings" => j.op # None,
         j.auto => c \in overtaken' \/ \A r \in Role : payable[r] = None
  PROVE  IInv'
<1>1. TypeOK'
  BY DEF IInv, TypeOK, CallRecord
<1>2. PayableConsistent' /\ ReportedIsPaid'
  BY DEF IInv, PayableConsistent, ReportedIsPaid
<1>3. call'[c] = j /\ \A d \in Call \ {c} : call'[d] = call[d]
  BY DEF IInv, TypeOK
<1>4. CallOK(c)'
  BY <1>3 DEF CallOK
<1>5. ASSUME NEW d \in Call \ {c} PROVE CallOK(d)'
  <2>1. CallOK(d)
    BY DEF IInv, CallsOK, CallOK
  <2> QED
    BY <1>3, <2>1 DEF CallOK
<1>6. CallsOK'
  BY <1>4, <1>5 DEF CallsOK, CallOK
<1> QED
  BY <1>1, <1>2, <1>6 DEF IInv

LEMMA CallTyped ==
  ASSUME IInv, NEW c \in Call
  PROVE  call[c] \in CallRecord /\ call \in [Call -> CallRecord] /\ CallOK(c)
BY DEF IInv, TypeOK, CallsOK, CallRecord, CallOK

LEMMA IdleTyped == Idle \in CallRecord /\ Idle.at = "idle" /\ ~Idle.auto
BY DEF Idle, CallRecord

\* A handler that ends without touching a payable; the settings may change.
LEMMA FinishKeeps ==
  ASSUME IInv, NEW c \in Call, Finish(c), UNCHANGED <<payable, reported>>,
         overtaken' \subseteq Call, overtaken \ {c} \subseteq overtaken',
         TypeOK => /\ roles' \subseteq Role /\ active' \in BOOLEAN
                   /\ salary' \in [Role -> Amounts \cup {None}]
                   /\ override' \in [Role -> Amounts \cup {None}]
                   /\ opRate' \in Rates /\ taxRate' \in Rates /\ changes' \in 0..MaxChanges
  PROVE  IInv'
<1>1. call' = [call EXCEPT ![c] = Idle]
  BY DEF Finish
<1> QED
  BY <1>1, IdleTyped, MoveCall

\* Reads of a handler: it stores what it read and goes on.
LEMMA ReadsKeep ==
  ASSUME IInv, NEW c \in Call,
         \/ ManualClose(c) \/ AutoClose(c) \/ CloseStaff(c) \/ CloseSettings(c)
         \/ \E S \in SUBSET Role : PayRead(c, S)
         \/ \E r \in Role, amount \in Amounts \cup {None} :
              EditRead(c, r, amount) \/ OverrideRead(c, r, amount)
  PROVE  IInv'
<1>1. /\ TypeOK /\ overtaken \subseteq Call
      /\ UNCHANGED <<roles, active, salary, override, opRate, taxRate, changes, payable,
                     reported, overtaken>>
  BY DEF IInv, TypeOK, settings, ManualClose, AutoClose, CloseStaff, CloseSettings, PayRead,
     EditRead, OverrideRead
<1>2. TypeOK => /\ roles' \subseteq Role /\ active' \in BOOLEAN
                /\ salary' \in [Role -> Amounts \cup {None}]
                /\ override' \in [Role -> Amounts \cup {None}]
                /\ opRate' \in Rates /\ taxRate' \in Rates /\ changes' \in 0..MaxChanges
  BY <1>1 DEF TypeOK
<1>3. ASSUME NEW j \in CallRecord, call' = [call EXCEPT ![c] = j],
             j.at = "editing" => CallOK(c)', j.at = "settings" => j.op # None,
             j.auto => c \in overtaken \/ \A r \in Role : payable[r] = None
      PROVE  IInv'
  BY <1>1, <1>2, <1>3, MoveCall
<1>4. CASE ManualClose(c)
  <2> DEFINE j == [Idle EXCEPT !.at = "closing"]
  <2>1. j \in CallRecord /\ j.at = "closing" /\ ~j.auto
    BY DEF Idle, CallRecord
  <2>2. call' = [call EXCEPT ![c] = j]
    BY <1>4, CallTyped DEF ManualClose, Free
  <2> HIDE DEF j
  <2> QED
    BY <1>3, <2>1, <2>2
<1>5. CASE AutoClose(c)
  <2> DEFINE j == [Idle EXCEPT !.at = "closing", !.auto = TRUE]
  <2>1. j \in CallRecord /\ j.at = "closing"
    BY DEF Idle, CallRecord
  <2>2. call' = [call EXCEPT ![c] = j] /\ \A r \in Role : payable[r] = None
    BY <1>5, CallTyped DEF AutoClose, Free
  <2> HIDE DEF j
  <2> QED
    BY <1>3, <2>1, <2>2
<1>6. CASE CloseStaff(c)
  <2> DEFINE R == IF active THEN roles ELSE {}
             j == [call[c] EXCEPT !.at = "staff", !.roles = R]
  <2>1. R \subseteq Role
    BY <1>1 DEF TypeOK
  <2>2. call' = [call EXCEPT ![c] = j]
    BY <1>6, CallTyped DEF CloseStaff
  <2> HIDE DEF R
  <2>3. j \in CallRecord /\ j.at = "staff" /\ j.auto = call[c].auto
    BY <2>1, CallTyped, ZenonT(30) DEF CallRecord
  <2> HIDE DEF j
  <2> QED
    BY <1>3, <2>2, <2>3, CallTyped DEF CallOK
<1>7. CASE CloseSettings(c)
  <2> DEFINE paid == [r \in Role |-> IF r \in call[c].roles THEN Applied(r) ELSE None]
             j == [call[c] EXCEPT !.at = "settings", !.op = opRate, !.salaries = paid]
  <2>1. paid \in [Role -> Amounts \cup {None}]
    BY <1>1 DEF TypeOK, Applied
  <2>2. call' = [call EXCEPT ![c] = j]
    BY <1>7, CallTyped DEF CloseSettings
  <2> HIDE DEF paid
  <2>3. opRate # None /\ opRate \in Rates
    BY <1>1 DEF TypeOK
  <2>4. j \in CallRecord /\ j.at = "settings" /\ j.auto = call[c].auto /\ j.op # None
    BY <2>1, <2>3, CallTyped, ZenonT(30) DEF CallRecord
  <2> HIDE DEF j
  <2> QED
    BY <1>3, <2>2, <2>4, CallTyped DEF CallOK
<1>8. ASSUME NEW S \in SUBSET Role, PayRead(c, S) PROVE IInv'
  <2> DEFINE j == [Idle EXCEPT !.at = "paying", !.roles = S]
  <2>1. j \in CallRecord /\ j.at = "paying" /\ ~j.auto
    BY DEF Idle, CallRecord
  <2>2. call' = [call EXCEPT ![c] = j]
    BY <1>8, CallTyped DEF PayRead, Free
  <2> HIDE DEF j
  <2> QED
    BY <1>3, <2>1, <2>2
<1>9. ASSUME NEW r \in Role, NEW amount \in Amounts \cup {None}, EditRead(c, r, amount) PROVE IInv'
  <2> DEFINE j == [Idle EXCEPT !.at = "editing", !.roles = {r}, !.read = payable[r],
                               !.amount = amount]
  <2>1. payable[r] \in Row /\ payable[r] # None
    BY <1>1, <1>9 DEF TypeOK, EditRead, Pending
  <2>2. j \in CallRecord /\ ~j.auto /\ j.roles = {r} /\ j.read = payable[r] /\ j.at = "editing"
    BY <2>1 DEF Idle, CallRecord
  <2>3. call' = [call EXCEPT ![c] = j]
    BY <1>9, CallTyped DEF EditRead, Free
  <2> HIDE DEF j
  <2>4. call'[c] = j /\ payable' = payable
    BY <1>1, <2>3, CallTyped
  <2>5. payable[r] = Open(Deduct(payable[r].gross, payable[r].op, payable[r].tax), payable[r].status)
    BY <2>1 DEF IInv, PayableConsistent
  <2>6. CallOK(c)'
    BY <2>1, <2>2, <2>4, <2>5 DEF CallOK
  <2> QED
    BY <1>3, <2>2, <2>3, <2>6
<1>10. ASSUME NEW r \in Role, NEW amount \in Amounts \cup {None}, OverrideRead(c, r, amount)
       PROVE  IInv'
  <2> DEFINE j == [Idle EXCEPT !.at = "overriding", !.roles = {r}, !.amount = amount]
  <2>1. j \in CallRecord /\ j.at = "overriding" /\ ~j.auto
    BY DEF Idle, CallRecord
  <2>2. call' = [call EXCEPT ![c] = j]
    BY <1>10, CallTyped DEF OverrideRead, Free
  <2> HIDE DEF j
  <2> QED
    BY <1>3, <2>1, <2>2
<1> QED
  BY <1>4, <1>5, <1>6, <1>7, <1>8, <1>9, <1>10

LEMMA SettingsKeep ==
  ASSUME IInv, UNCHANGED <<payable, call, reported, overtaken>>,
         roles' \subseteq Role, active' \in BOOLEAN,
         salary' \in [Role -> Amounts \cup {None}], override' \in [Role -> Amounts \cup {None}],
         opRate' \in Rates, taxRate' \in Rates, changes' \in 0..MaxChanges
  PROVE  IInv'
<1>1. TypeOK'
  BY DEF IInv, TypeOK
<1>2. PayableConsistent' /\ CallsOK' /\ ReportedIsPaid'
  BY DEF IInv, PayableConsistent, CallsOK, ReportedIsPaid
<1> QED
  BY <1>1, <1>2 DEF IInv

\* A payable of the candidates is a consistent row.
LEMMA CandidatesFit ==
  ASSUME IInv, NEW c \in Call, call[c].at = "settings", NEW r \in DOMAIN Candidates(c)
  PROVE  r \in Role /\ Candidates(c)[r] \in Row /\ Consistent(Candidates(c)[r])
<1>1. r \in Role /\ call[c].salaries[r] \in Nat
  <2>1. DOMAIN Candidates(c) = {q \in Role : call[c].salaries[q] \notin {None, 0}}
    BY DEF Candidates
  <2>2. call[c].salaries \in [Role -> Amounts \cup {None}]
    BY CallTyped DEF CallRecord
  <2> QED
    BY <2>1, <2>2
<1>2. call[c].op \in Rates /\ taxRate \in Rates
  BY CallTyped DEF CallRecord, CallOK, IInv, TypeOK
<1>3. Candidates(c)[r] = Open(Deduct(call[c].salaries[r], call[c].op, taxRate), "pending")
  BY DEF Candidates
<1>4. "pending" \in Statuses
  BY DEF Statuses
<1>5. Candidates(c)[r] \in Row
  BY <1>1, <1>2, <1>3, <1>4, OpenIsRow
<1>6. Consistent(Candidates(c)[r])
  BY <1>3, OpenIsConsistent
<1> QED
  BY <1>1, <1>5, <1>6

LEMMA CreateKeeps ==
  ASSUME IInv, NEW c \in Call, CloseCreate(c)
  PROVE  IInv'
<1>1. /\ call[c].at = "settings" /\ call' = [call EXCEPT ![c] = Idle]
      /\ overtaken' = {d \in Call \ {c} : d \in overtaken \/ call[d].auto}
      /\ UNCHANGED <<roles, active, salary, override, opRate, taxRate, changes, reported>>
      /\ payable' = [r \in Role |-> IF payable[r] = None /\ r \in DOMAIN Candidates(c)
                                    THEN Candidates(c)[r] ELSE payable[r]]
  BY DEF CloseCreate, Closed, Finish, settings
<1>2. ASSUME NEW r \in Role PROVE /\ payable'[r] \in Row \cup {None}
                                  /\ payable[r] # None => payable'[r] = payable[r]
                                  /\ payable'[r] # None => Consistent(payable'[r])
  BY <1>1, CandidatesFit DEF IInv, TypeOK, PayableConsistent, Consistent
<1>3. TypeOK'
  <2>1. payable' \in [Role -> Row \cup {None}]
    BY <1>1, <1>2
  <2> QED
    BY <1>1, <2>1, IdleTyped DEF IInv, TypeOK, CallRecord
<1>4. PayableConsistent'
  BY <1>2 DEF PayableConsistent, Consistent
<1>5. ReportedIsPaid'
  BY <1>1, <1>2 DEF IInv, ReportedIsPaid
<1>6. ASSUME NEW d \in Call PROVE CallOK(d)'
  <2>1. call'[d] = IF d = c THEN Idle ELSE call[d]
    BY <1>1, CallTyped
  <2> QED
    BY <1>1, <1>2, <2>1, CallTyped, IdleTyped DEF CallOK
<1>7. CallsOK'
  BY <1>6 DEF CallsOK, CallOK
<1> QED
  BY <1>3, <1>4, <1>5, <1>7 DEF IInv

\* A step that ends a handler and rewrites payables that exist, keeping their
\* rates, their consistency, and the status of the paid ones.
LEMMA RewriteKeeps ==
  ASSUME IInv, NEW c \in Call, Finish(c),
         UNCHANGED <<roles, active, salary, override, opRate, taxRate, changes, overtaken>>,
         payable' \in [Role -> Row \cup {None}],
         \A r \in Role : (payable[r] = None) <=> (payable'[r] = None),
         \A r \in Role : payable[r] # None =>
           /\ payable'[r].op = payable[r].op /\ payable'[r].tax = payable[r].tax
           /\ Consistent(payable'[r]),
         reported' \in [Role -> Nat], ReportedIsPaid'
  PROVE  IInv'
<1>1. call' = [call EXCEPT ![c] = Idle]
  BY DEF Finish
<1>2. TypeOK'
  BY <1>1, IdleTyped DEF IInv, TypeOK, CallRecord
<1>3. PayableConsistent'
  BY DEF PayableConsistent, Consistent
<1>4. ASSUME NEW d \in Call PROVE CallOK(d)'
  <2>1. call'[d] = IF d = c THEN Idle ELSE call[d]
    BY <1>1, CallTyped
  <2> QED
    BY <2>1, CallTyped, IdleTyped DEF CallOK
<1>5. CallsOK'
  BY <1>4 DEF CallsOK, CallOK
<1> QED
  BY <1>2, <1>3, <1>5 DEF IInv

\* What an edit writes: a consistent payable with the rates and the status that
\* the row has when it is written.
LEMMA EditFacts ==
  ASSUME IInv, NEW c \in Call, EditWrite(c)
  PROVE  \E r \in Role : \E p \in Row :
           /\ payable[r] # None /\ payable' = [payable EXCEPT ![r] = p] /\ Consistent(p)
           /\ p.op = payable[r].op /\ p.tax = payable[r].tax /\ p.status = payable[r].status
<1> DEFINE old == call[c].read
<1>1. PICK r \in Role :
        /\ call[c].roles = {r} /\ payable[r] # None /\ old # None
        /\ old.op = payable[r].op /\ old.tax = payable[r].tax
        /\ Consistent(old)
  BY CallTyped DEF EditWrite, CallOK, Consistent
<1> DEFINE next == IF call[c].amount = None THEN old ELSE Deduct(call[c].amount, old.op, old.tax)
<1>2. payable' = [payable EXCEPT ![r].gross = next.gross, ![r].opAmount = next.opAmount,
                                 ![r].taxAmount = next.taxAmount, ![r].net = next.net]
  BY <1>1 DEF EditWrite
<1>3. payable[r] \in Row /\ old \in Row
  BY <1>1, CallTyped DEF IInv, TypeOK, CallRecord
<1>4. old.gross \in Nat /\ call[c].amount \in Nat \cup {None} /\ old.op \in Rates /\ old.tax \in Rates
  BY <1>3, CallTyped DEF Row, CallRecord
<1> DEFINE gross == IF call[c].amount = None THEN old.gross ELSE call[c].amount
           p == Open(Deduct(gross, old.op, old.tax), payable[r].status)
<1>5. gross \in Nat
  BY <1>4
<1>6. /\ next.gross = p.gross /\ next.opAmount = p.opAmount /\ next.taxAmount = p.taxAmount
      /\ next.net = p.net
  <2>1. CASE call[c].amount = None
    <3> DEFINE d == Deduct(old.gross, old.op, old.tax)
    <3>1. old = Open(d, old.status) /\ p = Open(d, payable[r].status) /\ next = old
      BY <1>1, <2>1 DEF Consistent
    <3> HIDE DEF d, old, p, next
    <3> QED
      BY <3>1 DEF Open
  <2>2. CASE call[c].amount # None
    <3> DEFINE d == Deduct(call[c].amount, old.op, old.tax)
    <3>1. p = Open(d, payable[r].status) /\ next = d
      BY <2>2
    <3> HIDE DEF d, p, next
    <3> QED
      BY <3>1 DEF Open
  <2> QED
    BY <2>1, <2>2
<1>7. payable[r].status \in Statuses
  BY <1>3 DEF Row, Statuses
<1>8. /\ p \in Row /\ Consistent(p) /\ p.op = payable[r].op /\ p.tax = payable[r].tax
      /\ p.status = payable[r].status
  <2>1. p = Open(Deduct(gross, old.op, old.tax), payable[r].status)
    OBVIOUS
  <2> HIDE DEF gross, old, p
  <2> QED
    <3>1. p \in Row
      BY <1>4, <1>5, <1>7, <2>1, OpenIsRow
    <3>2. Consistent(p)
      BY <2>1, OpenIsConsistent
    <3>3. p.op = old.op /\ p.tax = old.tax /\ p.status = payable[r].status
      BY <2>1, OpenFields
    <3> QED
      BY <1>1, <3>1, <3>2, <3>3
<1> HIDE DEF p, next, old
<1>9. payable' = [payable EXCEPT ![r] = p]
  <2>1. p = [payable[r] EXCEPT !.gross = next.gross, !.opAmount = next.opAmount,
                               !.taxAmount = next.taxAmount, !.net = next.net]
    BY <1>3, <1>6, <1>8 DEF Row
  <2> QED
    BY <1>2, <2>1 DEF IInv, TypeOK
<1> QED
  BY <1>1, <1>8, <1>9

LEMMA EditKeeps ==
  ASSUME IInv, NEW c \in Call, EditWrite(c)
  PROVE  IInv'
<1>1. PICK r \in Role, p \in Row :
           /\ payable[r] # None /\ payable' = [payable EXCEPT ![r] = p] /\ Consistent(p)
           /\ p.op = payable[r].op /\ p.tax = payable[r].tax /\ p.status = payable[r].status
  BY EditFacts
<1>2. /\ Finish(c)
      /\ UNCHANGED <<roles, active, salary, override, opRate, taxRate, changes, reported, overtaken>>
  BY DEF EditWrite, settings
<1>3. payable \in [Role -> Row \cup {None}] /\ None \notin Row
  BY RowAssumption DEF IInv, TypeOK
<1> QED
  BY <1>1, <1>2, <1>3, RewriteKeeps DEF IInv, TypeOK, PayableConsistent, Consistent, ReportedIsPaid

LEMMA PaymentKeeps ==
  ASSUME IInv, NEW c \in Call, PayApply(c)
  PROVE  IInv'
<1> DEFINE paid == {r \in call[c].roles : Pending(r)}
<1>1. /\ payable' = [r \in Role |-> IF r \in paid
             THEN [payable[r] EXCEPT !.status = "paid"] ELSE payable[r]]
      /\ reported' = [r \in Role |-> IF r \in paid THEN reported[r] + 1 ELSE reported[r]]
      /\ Finish(c)
      /\ UNCHANGED <<roles, active, salary, override, opRate, taxRate, changes, overtaken>>
  BY DEF PayApply, settings
<1>2. \A r \in paid : payable[r] # None /\ payable[r].status = "pending"
  BY DEF Pending
<1> HIDE DEF paid
<1>3. ASSUME NEW r \in Role, r \in paid
      PROVE  /\ payable'[r] \in Row /\ payable'[r].status = "paid" /\ Consistent(payable'[r])
             /\ payable'[r].op = payable[r].op /\ payable'[r].tax = payable[r].tax
  <2> DEFINE p == payable[r]
  <2>1. p \in Row /\ Consistent(p) /\ payable'[r] = [p EXCEPT !.status = "paid"]
    BY <1>1, <1>2, <1>3 DEF IInv, TypeOK, PayableConsistent, Consistent
  <2> DEFINE d == Deduct(p.gross, p.op, p.tax)
             q == Open(d, "paid")
  <2>2. p = Open(d, p.status)
    BY <2>1 DEF Consistent
  <2> HIDE DEF d
  <2>3. [p EXCEPT !.status = "paid"] = q
    <3> HIDE DEF p, q
    <3>1. p.gross = d.gross /\ p.op = d.op /\ p.tax = d.tax /\ p.opAmount = d.opAmount
          /\ p.taxAmount = d.taxAmount /\ p.net = d.net
      BY <2>2 DEF Open
    <3> QED
      BY <2>1, <3>1 DEF q, Open, Row
  <2>4. /\ q \in Row /\ Consistent(q) /\ q.op = p.op /\ q.tax = p.tax /\ q.status = "paid"
    <3>1. p.gross \in Nat /\ p.op \in Rates /\ p.tax \in Rates
      BY <2>1 DEF Row
    <3>2. q = Open(Deduct(p.gross, p.op, p.tax), "paid")
      BY DEF d
    <3> HIDE DEF p, q
    <3>3. "paid" \in Statuses
      BY DEF Statuses
    <3>4. q \in Row
      BY <3>1, <3>2, <3>3, OpenIsRow
    <3>5. Consistent(q)
      BY <3>2, OpenIsConsistent
    <3>6. q.op = p.op /\ q.tax = p.tax /\ q.status = "paid"
      BY <3>2, OpenFields
    <3> QED
      BY <3>4, <3>5, <3>6
  <2> HIDE DEF q
  <2> QED
    BY <2>1, <2>3, <2>4
<1>4. /\ payable' \in [Role -> Row \cup {None}]
      /\ reported' \in [Role -> Nat]
  BY <1>1, <1>3 DEF IInv, TypeOK
<1>5. \A r \in Role : /\ (payable[r] = None) <=> (payable'[r] = None)
                      /\ payable[r] # None => /\ payable'[r].op = payable[r].op
                                              /\ payable'[r].tax = payable[r].tax
                                              /\ Consistent(payable'[r])
  BY <1>1, <1>2, <1>3, RowAssumption DEF IInv, PayableConsistent, Consistent
<1>6. ReportedIsPaid'
  <2>1. ASSUME NEW r \in Role, r \in paid
        PROVE  reported'[r] = 1 /\ payable'[r] # None /\ payable'[r].status = "paid"
    <3>1. reported[r] = 0
      BY <1>2, <2>1 DEF IInv, ReportedIsPaid
    <3>2. reported'[r] = 1
      BY <1>1, <2>1, <3>1
    <3> QED
      BY <1>3, <2>1, <3>2, RowAssumption
  <2>2. ASSUME NEW r \in Role, r \notin paid
        PROVE  reported'[r] = reported[r] /\ payable'[r] = payable[r]
    BY <1>1, <2>2
  <2> QED
    BY <2>1, <2>2 DEF IInv, ReportedIsPaid
<1> QED
  BY <1>1, <1>4, <1>5, <1>6, RewriteKeeps

\* Roles, salaries, rates and overrides change what later closes read, never a payable.
LEMMA ChangesKeep ==
  ASSUME IInv,
         \/ \E R \in SUBSET Role, synced \in BOOLEAN : UpdateStaff(R, synced)
         \/ UpdateStaffStatus
         \/ \E r \in Role, amount \in Amounts \cup {None} : UpsertRoleDefaults(r, amount)
         \/ \E rate \in Rates : UpsertRoleOperatingRates(rate) \/ AppendRoleTaxDeductionRate(rate)
  PROVE  IInv'
<1>1. /\ UNCHANGED <<payable, call, reported, overtaken>> /\ changes' \in 0..MaxChanges
  BY DEF IInv, TypeOK, UpdateStaff, UpdateStaffStatus, UpsertRoleDefaults,
     UpsertRoleOperatingRates, AppendRoleTaxDeductionRate, Change
<1>2. /\ roles' \subseteq Role /\ active' \in BOOLEAN /\ opRate' \in Rates /\ taxRate' \in Rates
  BY DEF IInv, TypeOK, UpdateStaff, UpdateStaffStatus, UpsertRoleDefaults,
     UpsertRoleOperatingRates, AppendRoleTaxDeductionRate, Change
<1>3. salary' \in [Role -> Amounts \cup {None}] /\ override' \in [Role -> Amounts \cup {None}]
  BY DEF IInv, TypeOK, UpdateStaff, UpdateStaffStatus, UpsertRoleDefaults,
     UpsertRoleOperatingRates, AppendRoleTaxDeductionRate, Change
<1> QED
  BY <1>1, <1>2, <1>3, SettingsKeep

LEMMA OverrideKeeps ==
  ASSUME IInv, NEW c \in Call, OverrideWrite(c)
  PROVE  IInv'
<1>1. /\ override' \in [Role -> Amounts \cup {None}]
  BY CallTyped DEF OverrideWrite, IInv, TypeOK, CallRecord
<1>2. changes' \in 0..MaxChanges
  BY DEF OverrideWrite, Change, IInv, TypeOK
<1>3. /\ Finish(c)
      /\ UNCHANGED <<roles, active, salary, opRate, taxRate, payable, reported, overtaken>>
  BY DEF OverrideWrite, Change
<1> QED
  BY <1>1, <1>2, <1>3, FinishKeeps DEF IInv, TypeOK

LEMMA CutOffKeeps ==
  ASSUME IInv, NEW c \in Call, CutOff(c)
  PROVE  IInv'
<1>1. /\ Finish(c) /\ overtaken' = overtaken \ {c}
      /\ UNCHANGED <<roles, active, salary, override, opRate, taxRate, changes, payable, reported>>
  BY DEF CutOff, settings
<1> QED
  BY <1>1, FinishKeeps DEF IInv, TypeOK

LEMMA StutterKeeps == IInv /\ UNCHANGED vars => IInv'
<1> SUFFICES ASSUME IInv, UNCHANGED vars PROVE IInv'
  OBVIOUS
<1> QED
  BY SettingsKeep DEF vars, settings, IInv, TypeOK

LEMMA NextIInv == IInv /\ [Next]_vars => IInv'
<1> SUFFICES ASSUME IInv, [Next]_vars PROVE IInv'
  OBVIOUS
<1>1. ASSUME NEW c \in Call,
             \/ ManualClose(c) \/ AutoClose(c) \/ CloseStaff(c) \/ CloseSettings(c)
             \/ \E S \in SUBSET Role : PayRead(c, S)
             \/ \E r \in Role, amount \in Amounts \cup {None} :
                  EditRead(c, r, amount) \/ OverrideRead(c, r, amount)
      PROVE  IInv'
  BY <1>1, ReadsKeep
<1>2. ASSUME NEW c \in Call,
             CloseCreate(c) \/ EditWrite(c) \/ PayApply(c) \/ OverrideWrite(c) \/ CutOff(c)
      PROVE  IInv'
  BY <1>2, CreateKeeps, EditKeeps, PaymentKeeps, OverrideKeeps, CutOffKeeps
<1>3. CASE \/ \E R \in SUBSET Role, synced \in BOOLEAN : UpdateStaff(R, synced)
           \/ UpdateStaffStatus
           \/ \E r \in Role, amount \in Amounts \cup {None} : UpsertRoleDefaults(r, amount)
           \/ \E rate \in Rates : UpsertRoleOperatingRates(rate) \/ AppendRoleTaxDeductionRate(rate)
  BY <1>3, ChangesKeep
<1>4. CASE UNCHANGED vars
  BY <1>4, StutterKeeps
<1> QED
  BY <1>1, <1>2, <1>3, <1>4 DEF Next

-----------------------------------------------------------------------------
\* The inductive invariant holds of every reachable state, whatever closes,
\* edits, payments and changes of settings overlap.
THEOREM Invariance == Spec => []IInv
<1> QED
  BY InitIInv, NextIInv, PTL DEF Spec

\* Every variable keeps its type: no deduction or net amount is ever negative.
THEOREM TypeCorrect == Spec => []TypeOK
<1>1. IInv => TypeOK
  BY DEF IInv
<1> QED
  BY <1>1, Invariance, PTL

\* The amounts of a payable are those that calculateDeductionAmounts derives from
\* its gross amount at its own rates, though edits write by id what they read before.
THEOREM AmountsAgree == Spec => []PayableConsistent
<1>1. IInv => PayableConsistent
  BY DEF IInv
<1> QED
  BY <1>1, Invariance, PTL

\* Overlapping payments never both report a payable as paid.
THEOREM NeverPaidTwice == Spec => []PaidOnce
<1>1. IInv => PaidOnce
  BY DEF IInv, PaidOnce, ReportedIsPaid, TypeOK
<1> QED
  BY <1>1, Invariance, PTL

-----------------------------------------------------------------------------
(* Action properties. *)

\* What a step may do to a payable that exists: nothing, an edit of its amounts,
\* or a payment.
LEMMA PayableSteps ==
  ASSUME IInv, [Next]_vars, NEW r \in Role, payable[r] # None
  PROVE  \/ payable'[r] = payable[r]
         \/ /\ payable'[r] \in Row
            /\ payable'[r].op = payable[r].op /\ payable'[r].tax = payable[r].tax
            /\ payable'[r].status \in {payable[r].status, "paid"}
            /\ \E c \in Call : /\ call[c].at \in {"editing", "paying"}
                               /\ call' = [call EXCEPT ![c] = Idle]
<1>1. payable[r] \in Row /\ payable \in [Role -> Row \cup {None}]
  BY DEF IInv, TypeOK
<1>2. ASSUME NEW c \in Call, CloseCreate(c) PROVE payable'[r] = payable[r]
  BY <1>2 DEF CloseCreate
<1>3. ASSUME NEW c \in Call, EditWrite(c)
      PROVE  \/ payable'[r] = payable[r]
             \/ /\ payable'[r] \in Row /\ payable'[r].status = payable[r].status
                /\ payable'[r].op = payable[r].op /\ payable'[r].tax = payable[r].tax
                /\ call[c].at = "editing" /\ call' = [call EXCEPT ![c] = Idle]
  <2>1. PICK q \in Role, p \in Row :
             /\ payable' = [payable EXCEPT ![q] = p]
             /\ p.op = payable[q].op /\ p.tax = payable[q].tax /\ p.status = payable[q].status
    BY <1>3, EditFacts
  <2>2. call[c].at = "editing" /\ call' = [call EXCEPT ![c] = Idle]
    BY <1>3 DEF EditWrite, Finish
  <2> QED
    BY <1>1, <2>1, <2>2
<1>4. ASSUME NEW c \in Call, PayApply(c)
      PROVE  \/ payable'[r] = payable[r]
             \/ /\ payable'[r] \in Row /\ payable'[r].status = "paid"
                /\ payable'[r].op = payable[r].op /\ payable'[r].tax = payable[r].tax
                /\ call[c].at = "paying" /\ call' = [call EXCEPT ![c] = Idle]
  <2>1. call[c].at = "paying" /\ call' = [call EXCEPT ![c] = Idle]
    BY <1>4 DEF PayApply, Finish
  <2>2. payable'[r] = payable[r] \/ payable'[r] = [payable[r] EXCEPT !.status = "paid"]
    BY <1>4 DEF PayApply
  <2> QED
    BY <1>1, <2>1, <2>2 DEF Row
<1>5. \/ UNCHANGED payable
      \/ \E c \in Call : CloseCreate(c) \/ EditWrite(c) \/ PayApply(c)
  BY ZenonT(30) DEF Next, vars, ManualClose, AutoClose, CloseStaff, CloseSettings, PayRead, EditRead,
     OverrideRead, OverrideWrite, CutOff, UpdateStaff, UpdateStaffStatus, UpsertRoleDefaults,
     UpsertRoleOperatingRates, AppendRoleTaxDeductionRate, Change
<1> QED
  BY <1>2, <1>3, <1>4, <1>5

\* Closing the month again leaves every payable as it is, and no step at all
\* changes the rates of one or removes it.
THEOREM ClosedMonthIsFrozen == Spec => FrozenAtClose
<1> DEFINE Frozen(r) == payable[r] # None =>
             /\ payable'[r] # None
             /\ payable'[r].op = payable[r].op /\ payable'[r].tax = payable[r].tax
             /\ \A c \in Call : call[c].at = "settings" /\ call'[c] = Idle =>
                  payable'[r] = payable[r]
<1>1. IInv /\ [Next]_vars => \A r \in Role : Frozen(r)
  <2> SUFFICES ASSUME IInv, [Next]_vars, NEW r \in Role, payable[r] # None
               PROVE  /\ payable'[r] # None
                      /\ payable'[r].op = payable[r].op /\ payable'[r].tax = payable[r].tax
                      /\ \A c \in Call : call[c].at = "settings" /\ call'[c] = Idle =>
                           payable'[r] = payable[r]
    OBVIOUS
  <2>1. CASE payable'[r] = payable[r]
    BY <2>1
  <2>2. ASSUME payable'[r] \in Row,
               payable'[r].op = payable[r].op, payable'[r].tax = payable[r].tax,
               NEW c \in Call, call[c].at \in {"editing", "paying"},
               call' = [call EXCEPT ![c] = Idle]
        PROVE  /\ payable'[r] # None
               /\ \A d \in Call : call[d].at = "settings" => call'[d] # Idle
    <3>1. \A d \in Call : call'[d] = IF d = c THEN Idle ELSE call[d]
      BY <2>2, CallTyped
    <3> QED
      BY <2>2, <3>1, RowAssumption, IdleTyped
  <2> QED
    BY <2>1, <2>2, PayableSteps
<1>2. (\A r \in Role : Frozen(r)) => [\A r \in Role : Frozen(r)]_vars
  OBVIOUS
<1> QED
  BY <1>1, <1>2, Invariance, PTL DEF Spec, FrozenAtClose

\* A paid payable stays paid, though an edit that began before may write to it.
THEOREM PaymentIsFinal == Spec => PaidStaysPaid
<1> DEFINE Kept(r) == payable[r] # None /\ payable[r].status = "paid" =>
                        payable'[r].status = "paid"
<1>1. IInv /\ [Next]_vars => \A r \in Role : Kept(r)
  BY PayableSteps
<1>2. (\A r \in Role : Kept(r)) => [\A r \in Role : Kept(r)]_vars
  OBVIOUS
<1> QED
  BY <1>1, <1>2, Invariance, PTL DEF Spec, PaidStaysPaid

\* The automatic close adds nothing to a month that was closed before it began,
\* unless another close ended while it ran.
THEOREM AutoCloseOnce == Spec => AutoClosesOnce
<1> DEFINE Once(c) ==
       /\ call[c].auto /\ call'[c] = Idle /\ payable' # payable
       => c \in overtaken \/ \A r \in Role : payable[r] = None
<1>1. IInv /\ [Next]_vars => \A c \in Call : Once(c)
  BY DEF IInv, CallsOK
<1>2. (\A c \in Call : Once(c)) => [\A c \in Call : Once(c)]_vars
  OBVIOUS
<1> QED
  BY <1>1, <1>2, Invariance, PTL DEF Spec, AutoClosesOnce
=============================================================================
