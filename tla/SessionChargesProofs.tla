------------------------ MODULE SessionChargesProofs ------------------------
(***************************************************************************)
(* The theorems of SessionCharges.                                         *)
(*                                                                         *)
(* A call computes what it moves from what it has read.  As long as no     *)
(* other call has begun at its session, what it has read is what the       *)
(* session still shows (ReadStands), so the charges and refunds it writes  *)
(* take the wallet from the old fees to the new ones.                      *)
(***************************************************************************)
EXTENDS SessionCharges, SumTheorems

\* The session, and the job, that every history starts with.
LEMMA StartTypes == NoSession \in Session /\ GoneSession \in Session /\ NoJob \in Job
BY ChargeAssumption DEF NoSession, GoneSession, Session, NoJob, Job

\* What a row shows is a number.
LEMMA FeeType ==
  ASSUME NEW S \in Session, NEW s \in Students
  PROVE  Fee(S.rows, s) \in Nat
BY DEF Fee, Session, Row

\* An item the call will write, whichever way it came by it.
LEMMA SourceType ==
  ASSUME NEW j \in Job, NEW s \in Students
  PROVE  Source(j)[s] = None \/ Source(j)[s] \in [chargeable : BOOLEAN, override : Nat \cup {None}]
<1>1. CASE j.att # None
  <2>1. j.att \in Attendance /\ Source(j) = j.att
    BY <1>1 DEF Job, Source
  <2> QED
    BY <2>1, ChargeAssumption DEF Attendance, Item
<1>2. CASE j.att = None
  <2>1. j.old \in Session
    BY DEF Job
  <2>2. j.old.rows[s] = None \/ j.old.rows[s] \in Row
    BY <2>1 DEF Session
  <2>3. Source(j)[s] = IF j.old.rows[s] = None THEN None
           ELSE [chargeable |-> j.old.rows[s].chargeable,
                 override |-> IF NextClass(j) # j.old.class THEN None ELSE j.old.rows[s].fee]
    BY <1>2 DEF Source
  <2> QED
    BY <2>2, <2>3 DEF Row
<1> QED
  BY <1>1, <1>2

\* What a call will write.
LEMMA NewRowType ==
  ASSUME NEW j \in Job, NEW s \in Students
  PROVE  NewRow(j, s) \in Row \cup {None}
<1> DEFINE item == Source(j)[s]
           paid == s \in j.charged
           fee == Resolved(item, s \in j.charged, j.price)
           was == j.old.rows[s]
           linked == IF fee = Fee(j.old.rows, s) THEN was # None /\ was.linked ELSE fee > 0
<1>1. j.price \in Nat /\ j.old \in Session
  BY DEF Job
<1>2. was = None \/ was \in Row
  BY <1>1 DEF Session
<1>3. NewRow(j, s) = IF item = None THEN None
                     ELSE [chargeable |-> item.chargeable, fee |-> fee, linked |-> linked]
  BY DEF NewRow
<1>4. CASE item = None
  BY <1>3, <1>4
<1>5. CASE item # None
  <2>1. item.chargeable \in BOOLEAN /\ item.override \in Nat \cup {None}
    BY <1>5, SourceType
  <2>2. fee \in Nat
    BY <1>1, <2>1 DEF Resolved
  <2>3. linked \in BOOLEAN
    <3>1. (was # None /\ was.linked) \in BOOLEAN
      OBVIOUS
    <3>2. (fee > 0) \in BOOLEAN
      OBVIOUS
    <3> HIDE DEF was, fee, item
    <3> QED
      BY <3>1, <3>2, Zenon
  <2> HIDE DEF item, fee, linked
  <2> QED
    BY <1>3, <1>5, <2>1, <2>2, <2>3 DEF Row
<1> QED
  BY <1>4, <1>5

\* A student is in the payload of a call that writes a row.
LEMMA NewRowListed ==
  ASSUME NEW j \in Job, NEW s \in Students, NewRow(j, s) # None
  PROVE  s \in Listed(Source(j))
BY DEF NewRow, Listed

\* What a call moves, from the rows it has read to those it will write.
LEMMA NewFee ==
  ASSUME NEW j \in Job, NEW s \in Students
  PROVE  /\ Fee(NewRows(j), s) = IF NewRow(j, s) = None THEN 0 ELSE NewRow(j, s).fee
         /\ Fee(NewRows(j), s) \in Nat /\ Delta(j, s) \in Int
         /\ Delta(j, s) = Fee(NewRows(j), s) - Fee(j.old.rows, s)
<1>1. NewRows(j)[s] = NewRow(j, s)
  BY DEF NewRows
<1>2. Fee(NewRows(j), s) \in Nat
  BY <1>1, NewRowType DEF Fee, Row
<1>3. Fee(j.old.rows, s) \in Nat
  BY FeeType DEF Job
<1> QED
  BY <1>1, <1>2, <1>3 DEF Fee, Delta

\* The class that a call writes to.
LEMMA NextClassType ==
  ASSUME NEW k \in Calls, NEW j \in Job, CallOK(k, j), j.op \in {"create", "edit"}
  PROVE  NextClass(j) \in Classes
BY ChargeAssumption DEF CallOK, NextClass, Job

\* The default price is one of the three of the class.
LEMMA DefaultPriceType ==
  ASSUME TypeOK, NEW c \in Classes
  PROVE  /\ DefaultPrice(c) \in Nat /\ DefaultPrice(c) > 0
         /\ c \in oneTime => DefaultPrice(c) = Package[c]
BY ChargeAssumption DEF DefaultPrice

\* The calls on a session have overlapped on it less often than on all together.
LEMMA OverlapsFit ==
  ASSUME TypeOK, NEW x \in SessionIds
  PROVE  /\ SumFunction(overlaps) \in Nat /\ overlaps[x] <= SumFunction(overlaps)
<1>1. DOMAIN overlaps = SessionIds /\ IsFiniteSet(SessionIds)
  BY ChargeAssumption DEF TypeOK
<1>2. \A y \in SessionIds : overlaps[y] \in Int /\ 0 <= overlaps[y]
  BY ChargeAssumption DEF TypeOK
<1>3. SumFunction(overlaps) = SumFunctionOnSet(overlaps, SessionIds)
  BY <1>1 DEF SumFunction
<1> DEFINE W == SessionIds \ {x}
<1>4. IsFiniteSet(W) /\ \A y \in W : overlaps[y] \in Int /\ 0 <= overlaps[y]
  BY <1>1, <1>2, FS_Subset
<1>5. SumFunctionOnSet(overlaps, SessionIds) = overlaps[x] + SumFunctionOnSet(overlaps, W)
  BY <1>1, <1>2, SumRemove
<1> HIDE DEF W
<1>6. SumFunctionOnSet(overlaps, W) \in Int
  BY <1>4, SumType
<1>7. 0 <= SumFunctionOnSet(overlaps, W)
  BY <1>4, SumNat
<1> QED
  BY <1>2, <1>3, <1>5, <1>6, <1>7
\* What a call knows of prices and of paid rows does not change while nothing it
\* refers to does.
LEMMA PricedStays ==
  ASSUME NEW v, PackagePriced(v, job[v]), job'[v] = job[v], pc'[v] = pc[v],
         UNCHANGED <<oneTime, raced>>
  PROVE  PackagePriced(v, job[v])'
BY DEF PackagePriced, NextClass, Paid

LEMMA LookupStays ==
  ASSUME NEW v, LookupStands(v, job[v]), job'[v] = job[v], pc'[v] = pc[v],
         UNCHANGED <<sessions, oneTime, raced>>
  PROVE  LookupStands(v, job[v])'
<1>1. NextClass(job[v])' = NextClass(job[v]) /\ Listed(Source(job[v]))' = Listed(Source(job[v]))
  BY DEF NextClass, Listed, Source
<1>2. \A y, s : PaidIn(y, s)' <=> PaidIn(y, s)
  BY DEF PaidIn, Paid
<1> QED
  BY <1>1, <1>2 DEF LookupStands
-----------------------------------------------------------------------------
(* A call begins. *)

\* What creations, edits and deletions have in common: the call holds what it has
\* read, and whoever is at that session already has not been alone since.
LEMMA BeginKeeps ==
  ASSUME IInv, NEW k \in Calls, NEW label \in {"lookup", "write"}, NEW j \in Job,
         Begin(k, label, j),
         j.op # "none", j.x \in SessionIds, j.old = sessions[j.x], j.lost = {},
         j.op = "create" => j.cls \in Classes /\ j.old = NoSession,
         j.op \in {"edit", "delete"} => j.old.class \in Classes,
         j.op = "delete" => label = "write",
         label = "lookup" => j.lock = None /\ j.charged = {},
         label = "write" => j.op = "delete",
         j.op \in {"create", "edit"} /\ NextClass(j) \in oneTime \ raced =>
           /\ j.op = "create" \/ j.old.class = NextClass(j) => j.oneTime
           /\ j.op = "create" => j.price = Package[NextClass(j)]
  PROVE  IInv'
<1>1. /\ pc' = [pc EXCEPT ![k] = label] /\ job' = [job EXCEPT ![k] = j]
      /\ UNCHANGED <<sessions, net, balance, modes>>
      /\ pc[k] = "idle" /\ TypeOK
  BY DEF Begin, IInv
<1>2. UNCHANGED <<sessions, net, balance, perBlock, oneTime, raced, unlinked,
                  sold, change, modeChanges, saleChanges>>
  BY <1>1 DEF modes
<1>3. /\ pc'[k] = label /\ job'[k] = j
      /\ \A v \in Calls \ {k} : pc'[v] = pc[v] /\ job'[v] = job[v]
  BY <1>1 DEF TypeOK
<1>4. /\ overlaps' \in [SessionIds -> 0..MaxTrouble]
      /\ \A x \in SessionIds : overlaps'[x] = 0 =>
           /\ overlaps[x] = 0
           /\ x = j.x => \A v \in Calls : Busy(v) => job[v].x # x
  <2>1. overlaps \in [SessionIds -> 0..MaxTrouble] /\ MaxTrouble \in Nat
    BY <1>1, ChargeAssumption DEF TypeOK
  <2>2. CASE \E v \in Calls : Busy(v) /\ job[v].x = j.x
    <3>1. /\ modeChanges + saleChanges + SumFunction(overlaps) < MaxTrouble
          /\ overlaps' = [overlaps EXCEPT ![j.x] = @ + 1]
      BY <2>2 DEF Begin
    <3>2. SumFunction(overlaps) \in Nat /\ overlaps[j.x] <= SumFunction(overlaps)
      BY <1>1, OverlapsFit
    <3>3. modeChanges \in Nat /\ saleChanges \in Nat /\ overlaps[j.x] \in Nat
      BY <1>1, <2>1 DEF TypeOK
    <3>4. overlaps[j.x] + 1 \in 0..MaxTrouble /\ overlaps[j.x] + 1 # 0
      BY <2>1, <3>1, <3>2, <3>3
    <3> QED
      BY <2>1, <3>1, <3>4
  <2>3. CASE ~ \E v \in Calls : Busy(v) /\ job[v].x = j.x
    <3>1. overlaps' = overlaps
      BY <2>3 DEF Begin
    <3> QED
      BY <2>1, <2>3, <3>1
  <2> QED
    BY <2>2, <2>3
<1>5. TypeOK'
  <2>1. pc' \in [Calls -> Labels] /\ job' \in [Calls -> Job]
    BY <1>1 DEF TypeOK, Labels
  <2>2. \A v \in Calls : Busy(v)' <=> job'[v] # NoJob
    <3>1. Busy(k)' /\ job'[k] # NoJob
      BY <1>3 DEF Busy, NoJob
    <3>2. \A v \in Calls \ {k} : Busy(v)' <=> job'[v] # NoJob
      BY <1>1, <1>3 DEF Busy, TypeOK
    <3> QED
      BY <3>1, <3>2
  <2> QED
    BY <1>1, <1>2, <1>4, <2>1, <2>2 DEF TypeOK
<1>6. \A v \in Calls : CallOK(v, job[v])'
  <2>1. CallOK(k, job[k])'
    BY <1>3 DEF CallOK, Busy
  <2>2. ASSUME NEW v \in Calls \ {k} PROVE CallOK(v, job[v])'
    <3>1. CallOK(v, job[v])
      BY DEF IInv
    <3> QED
      BY <1>3, <3>1 DEF CallOK, Busy
  <2> QED
    BY <2>1, <2>2
<1>7. \A v \in Calls : ReadStands(v, job[v])'
  <2>1. ReadStands(k, job[k])'
    <3> SUFFICES ASSUME overlaps'[j.x] = 0
                 PROVE  \A v \in Calls : pc'[v] # "idle" /\ job'[v].x = j.x => v = k
      BY <1>2, <1>3 DEF ReadStands, Busy
    <3>1. \A v \in Calls : Busy(v) => job[v].x # j.x
      BY <1>4
    <3> QED
      BY <1>3, <3>1 DEF Busy
  <2>2. ASSUME NEW v \in Calls \ {k} PROVE ReadStands(v, job[v])'
    <3>1. ReadStands(v, job[v]) /\ CallOK(v, job[v])
      BY DEF IInv
    <3> SUFFICES ASSUME Busy(v), overlaps'[job[v].x] = 0
                 PROVE  /\ job[v].old = sessions[job[v].x] /\ job[v].lost = {}
                        /\ \A w \in Calls : pc'[w] # "idle" /\ job'[w].x = job[v].x => w = v
      BY <1>2, <1>3 DEF ReadStands, Busy
    <3>2. job[v].x \in SessionIds
      BY <3>1 DEF CallOK
    <3>3. overlaps[job[v].x] = 0 /\ job[v].x # j.x
      BY <1>4, <3>2
    <3>4. /\ job[v].old = sessions[job[v].x] /\ job[v].lost = {}
          /\ \A w \in Calls : Busy(w) /\ job[w].x = job[v].x => w = v
      BY <3>1, <3>3 DEF ReadStands
    <3> QED
      BY <1>3, <3>3, <3>4 DEF Busy
  <2> QED
    BY <2>1, <2>2
<1>8. \A v \in Calls : PackagePriced(v, job[v])'
  <2>1. PackagePriced(k, job[k])'
    <3> DEFINE c == NextClass(j)
    <3> SUFFICES ASSUME j.op \in {"create", "edit"}, c \in oneTime \ raced
                 PROVE  /\ j.op = "create" \/ j.old.class = c => j.oneTime
                        /\ j.op = "create" \/ label = "write" => j.price = Package[c]
                        /\ j.old.class = c => \A s \in Students : Paid(j.old.rows[s]) =>
                             j.old.rows[s].fee \in Overrides \cup {Package[c]}
      BY <1>2, <1>3 DEF PackagePriced, NextClass, Paid
    <3>1. /\ j.op = "create" \/ j.old.class = c => j.oneTime
          /\ j.op = "create" \/ label = "write" => j.price = Package[c]
      OBVIOUS
    <3>2. j.old.class = c => \A s \in Students : Paid(j.old.rows[s]) =>
                               j.old.rows[s].fee \in Overrides \cup {Package[c]}
      BY DEF IInv, PaidRowIsPackage, PaidIn
    <3> QED
      BY <3>1, <3>2
  <2>2. ASSUME NEW v \in Calls \ {k} PROVE PackagePriced(v, job[v])'
    <3>1. PackagePriced(v, job[v])
      BY DEF IInv
    <3> QED
      BY <1>2, <1>3, <3>1, PricedStays
  <2> QED
    BY <2>1, <2>2
<1>9. NewSessions' /\ NobodyFound' /\ PaidRowIsPackage'
  BY <1>2 DEF IInv, NewSessions, NobodyFound, PaidRowIsPackage, PaidIn, Paid
<1>10. WalletFollowsAttendance'
  BY <1>2, <1>4 DEF IInv, WalletFollowsAttendance, Fee
<1> QED
  BY <1>5, <1>6, <1>7, <1>8, <1>9, <1>10 DEF IInv

LEMMA CreateKeeps ==
  ASSUME IInv, NEW k \in Calls, NEW x \in SessionIds, NEW c \in Classes, NEW att \in Attendance,
         Create(k, x, c, att)
  PROVE  IInv'
<1> DEFINE once == c \in oneTime
           j == [NoJob EXCEPT !.op = "create", !.x = x, !.cls = c, !.att = att,
                              !.oneTime = once, !.price = DefaultPrice(c)]
<1>1. Begin(k, "lookup", j) /\ sessions[x].class = None
  BY DEF Create
<1>2. DefaultPrice(c) \in Nat /\ (c \in oneTime => DefaultPrice(c) = Package[c])
  BY DefaultPriceType DEF IInv
<1>0. once \in BOOLEAN
  OBVIOUS
<1>3. j \in Job
  <2> HIDE DEF once
  <2> QED
    BY <1>0, <1>2, StartTypes DEF Job
<1>4. sessions[x] = NoSession
  BY <1>1 DEF IInv, NewSessions
<1>5. /\ j.op = "create" /\ j.x = x /\ j.cls = c /\ j.old = NoSession /\ j.lost = {}
      /\ j.lock = None /\ j.charged = {} /\ j.oneTime = once
      /\ j.price = DefaultPrice(c)
  BY DEF NoJob
<1>6. NextClass(j) = c
  BY <1>5, ChargeAssumption DEF NextClass
<1> HIDE DEF j
<1> QED
  BY <1>1, <1>2, <1>3, <1>4, <1>5, <1>6, BeginKeeps

LEMMA EditKeeps ==
  ASSUME IInv, NEW k \in Calls, NEW x \in SessionIds, NEW c \in Classes \cup {None},
         NEW att \in Attendance \cup {None}, Edit(k, x, c, att)
  PROVE  IInv'
<1> DEFINE once == sessions[x].class \in oneTime
           j == [NoJob EXCEPT !.op = "edit", !.x = x, !.cls = c, !.att = att,
                              !.old = sessions[x], !.oneTime = once]
<1>1. Begin(k, "lookup", j) /\ sessions[x].class \in Classes
  BY DEF Edit, Live
<1>2. sessions[x] \in Session
  BY DEF IInv, TypeOK
<1>0. once \in BOOLEAN
  OBVIOUS
<1>3. j \in Job
  <2> HIDE DEF once
  <2> QED
    BY <1>0, <1>2, StartTypes DEF Job
<1>4. /\ j.op = "edit" /\ j.x = x /\ j.cls = c /\ j.old = sessions[x] /\ j.lost = {}
      /\ j.lock = None /\ j.charged = {} /\ j.oneTime = once
  BY DEF NoJob
<1> HIDE DEF j
<1> QED
  BY <1>1, <1>2, <1>3, <1>4, BeginKeeps

LEMMA DeleteKeeps ==
  ASSUME IInv, NEW k \in Calls, NEW x \in SessionIds, Delete(k, x)
  PROVE  IInv'
<1> DEFINE j == [NoJob EXCEPT !.op = "delete", !.x = x, !.old = sessions[x]]
<1>1. Begin(k, "write", j) /\ sessions[x].class \in Classes
  BY DEF Delete, Live
<1>2. sessions[x] \in Session
  BY DEF IInv, TypeOK
<1>3. j \in Job
  BY <1>2, StartTypes DEF Job
<1>4. j.op = "delete" /\ j.x = x /\ j.old = sessions[x] /\ j.lost = {}
  BY DEF NoJob
<1> HIDE DEF j
<1> QED
  BY <1>1, <1>2, <1>3, <1>4, BeginKeeps
-----------------------------------------------------------------------------
(* A call looks up, or ends. *)

\* Reading prices and paid rows changes nothing that others rely on.
LEMMA LookUpKeeps ==
  ASSUME IInv, NEW k \in Calls, LookUp(k)
  PROVE  IInv'
<1> DEFINE j == job[k]
           c == NextClass(j)
           price == IF j.op = "create" THEN j.price ELSE DefaultPrice(c)
<1>1. /\ pc[k] = "lookup" /\ pc' = [pc EXCEPT ![k] = "write"]
      /\ \/ job' = [job EXCEPT ![k].price = price, ![k].lock = c, ![k].charged = Charged(c, j.x)]
         \/ job' = [job EXCEPT ![k].price = price]
      /\ UNCHANGED <<sessions, net, balance, overlaps, modes>>
  BY DEF LookUp
<1>2. UNCHANGED <<sessions, net, balance, overlaps, perBlock, oneTime, raced, unlinked,
                  sold, change, modeChanges, saleChanges>>
  BY <1>1 DEF modes
<1>3. TypeOK /\ j \in Job /\ CallOK(k, j) /\ Busy(k)
  BY <1>1 DEF IInv, TypeOK, Busy
<1>4. j.op \in {"create", "edit"}
  BY <1>1, <1>3 DEF CallOK, Job
<1>5. c \in Classes
  BY <1>3, <1>4, NextClassType
<1>6. price \in Nat
  BY <1>3, <1>5, DefaultPriceType DEF Job
<1>7. Charged(c, j.x) \subseteq Students
  BY DEF Charged
<1>8. PICK l \in Job : /\ job' = [job EXCEPT ![k] = l]
                       /\ l.price = price
                       /\ l.op = j.op /\ l.x = j.x /\ l.cls = j.cls /\ l.att = j.att
                       /\ l.old = j.old /\ l.oneTime = j.oneTime /\ l.lost = j.lost
  <2> DEFINE a == [j EXCEPT !.price = price, !.lock = c, !.charged = Charged(c, j.x)]
             b == [j EXCEPT !.price = price]
  <2>1. a \in Job /\ b \in Job
    <3> HIDE DEF price, c
    <3> QED
      BY <1>3, <1>5, <1>6, <1>7 DEF Job
  <2>2. job' = [job EXCEPT ![k] = a] \/ job' = [job EXCEPT ![k] = b]
    BY <1>1
  <2>3. /\ a.price = price /\ b.price = price
        /\ a.op = j.op /\ a.x = j.x /\ a.cls = j.cls /\ a.att = j.att /\ a.old = j.old
        /\ a.oneTime = j.oneTime /\ a.lost = j.lost
        /\ b.op = j.op /\ b.x = j.x /\ b.cls = j.cls /\ b.att = j.att /\ b.old = j.old
        /\ b.oneTime = j.oneTime /\ b.lost = j.lost
    <3> HIDE DEF price, c
    <3> QED
      BY <1>3 DEF Job
  <2> HIDE DEF a, b, j, price
  <2> QED
    BY <2>1, <2>2, <2>3
<1> HIDE DEF price
<1>9. /\ pc'[k] = "write" /\ job'[k] = l
      /\ \A v \in Calls \ {k} : pc'[v] = pc[v] /\ job'[v] = job[v]
  BY <1>1, <1>3, <1>8 DEF TypeOK
<1>10. NextClass(l) = c
  BY <1>8 DEF NextClass
<1>11. \A v \in Calls : (Busy(v)' <=> Busy(v)) /\ job'[v].x = job[v].x
  BY <1>1, <1>8, <1>9 DEF Busy
<1>12. TypeOK'
  <2>1. pc' \in [Calls -> Labels] /\ job' \in [Calls -> Job]
    BY <1>1, <1>3, <1>8 DEF TypeOK, Labels
  <2>2. \A v \in Calls : Busy(v)' <=> job'[v] # NoJob
    <3>1. job'[k] # NoJob
      BY <1>4, <1>8, <1>9 DEF NoJob
    <3> QED
      BY <1>3, <1>9, <1>11, <3>1 DEF TypeOK
  <2> QED
    BY <1>2, <1>3, <2>1, <2>2 DEF TypeOK
<1>13. \A v \in Calls : CallOK(v, job[v])'
  <2>1. CallOK(k, job[k])'
    BY <1>3, <1>8, <1>9 DEF CallOK, Busy
  <2>2. ASSUME NEW v \in Calls \ {k} PROVE CallOK(v, job[v])'
    <3>1. CallOK(v, job[v])
      BY DEF IInv
    <3> QED
      BY <1>9, <3>1 DEF CallOK, Busy
  <2> QED
    BY <2>1, <2>2
<1>14. \A v \in Calls : ReadStands(v, job[v])'
  <2> SUFFICES ASSUME NEW v \in Calls PROVE ReadStands(v, job[v])'
    OBVIOUS
  <2>1. ReadStands(v, job[v])
    BY DEF IInv
  <2>2. job'[v].old = job[v].old /\ job'[v].lost = job[v].lost
    BY <1>8, <1>9
  <2> QED
    BY <1>2, <1>11, <2>1, <2>2 DEF ReadStands
<1>15. \A v \in Calls : PackagePriced(v, job[v])'
  <2>1. PackagePriced(k, job[k])'
    <3>1. PackagePriced(k, j)
      BY DEF IInv
    <3> SUFFICES ASSUME c \in oneTime \ raced
                 PROVE  /\ l.op = "create" \/ l.old.class = c => l.oneTime
                        /\ l.price = Package[c]
                        /\ l.old.class = c => \A s \in Students : Paid(l.old.rows[s]) =>
                             l.old.rows[s].fee \in Overrides \cup {Package[c]}
      <4> HIDE DEF c
      <4> QED
        BY <1>2, <1>9, <1>10 DEF PackagePriced, NextClass, Paid
    <3>2. /\ j.op = "create" \/ j.old.class = c => j.oneTime
          /\ j.op = "create" => j.price = Package[c]
          /\ j.old.class = c => \A s \in Students : Paid(j.old.rows[s]) =>
                                  j.old.rows[s].fee \in Overrides \cup {Package[c]}
      BY <1>4, <3>1 DEF PackagePriced
    <3>3. price = Package[c]
      BY <1>3, <1>5, <3>2, DefaultPriceType DEF price
    <3> QED
      BY <1>8, <3>2, <3>3
  <2>2. ASSUME NEW v \in Calls \ {k} PROVE PackagePriced(v, job[v])'
    <3>1. PackagePriced(v, job[v])
      BY DEF IInv
    <3> QED
      BY <1>2, <1>9, <3>1 DEF PackagePriced, NextClass, Paid
  <2> QED
    BY <2>1, <2>2
<1>16. NewSessions' /\ NobodyFound' /\ PaidRowIsPackage' /\ WalletFollowsAttendance'
  BY <1>2 DEF IInv, NewSessions, NobodyFound, PaidRowIsPackage, PaidIn, Paid,
              WalletFollowsAttendance, Fee
<1> QED
  BY <1>12, <1>13, <1>14, <1>15, <1>16 DEF IInv

\* A call that is cut off leaves only its job.
LEMMA AbortKeeps ==
  ASSUME IInv, NEW k \in Calls, Abort(k)
  PROVE  IInv'
<1>1. /\ pc' = [pc EXCEPT ![k] = "idle"] /\ job' = [job EXCEPT ![k] = NoJob]
      /\ UNCHANGED <<sessions, net, balance, overlaps, modes>>
  BY DEF Abort
<1>2. UNCHANGED <<sessions, net, balance, overlaps, perBlock, oneTime, raced, unlinked,
                  sold, change, modeChanges, saleChanges>>
  BY <1>1 DEF modes
<1>3. /\ pc'[k] = "idle" /\ job'[k] = NoJob
      /\ \A v \in Calls \ {k} : pc'[v] = pc[v] /\ job'[v] = job[v]
  BY <1>1 DEF IInv, TypeOK
<1>4. TypeOK'
  <2>1. pc' \in [Calls -> Labels] /\ job' \in [Calls -> Job]
    BY <1>1, StartTypes DEF IInv, TypeOK, Labels
  <2>2. \A v \in Calls : Busy(v)' <=> job'[v] # NoJob
    BY <1>3 DEF Busy, IInv, TypeOK
  <2> QED
    BY <1>2, <2>1, <2>2 DEF IInv, TypeOK
<1>5. ASSUME NEW v \in Calls
      PROVE  CallOK(v, job[v])' /\ ReadStands(v, job[v])' /\ PackagePriced(v, job[v])'
  <2>1. CASE v = k
    BY <1>3, <2>1 DEF CallOK, ReadStands, PackagePriced, Busy, NoJob
  <2>2. CASE v # k
    <3>1. CallOK(v, job[v]) /\ ReadStands(v, job[v]) /\ PackagePriced(v, job[v])
      BY DEF IInv
    <3>2. CallOK(v, job[v])'
      BY <1>3, <2>2, <3>1 DEF CallOK, Busy
    <3>3. ReadStands(v, job[v])'
      BY <1>2, <1>3, <2>2, <3>1 DEF ReadStands, Busy
    <3>4. PackagePriced(v, job[v])'
      BY <1>2, <1>3, <2>2, <3>1, PricedStays
    <3> QED
      BY <3>2, <3>3, <3>4
  <2> QED
    BY <2>1, <2>2
<1>6. NewSessions' /\ NobodyFound' /\ PaidRowIsPackage' /\ WalletFollowsAttendance'
  BY <1>2 DEF IInv, NewSessions, NobodyFound, PaidRowIsPackage, PaidIn, Paid,
              WalletFollowsAttendance, Fee
<1> QED
  BY <1>4, <1>5, <1>6 DEF IInv
-----------------------------------------------------------------------------
(* A call commits. *)

\* A sum in which one summand has grown by d.
LEMMA OneSummand ==
  ASSUME NEW S, IsFiniteSet(S), NEW x \in S, NEW f \in [S -> Int], NEW g \in [S -> Int],
         NEW d \in Int, g[x] = f[x] + d, \A y \in S \ {x} : g[y] = f[y]
  PROVE  SumFunction(g) = SumFunction(f) + d /\ SumFunction(f) \in Int
<1>1. SumFunction(f) = SumFunctionOnSet(f, S) /\ SumFunction(g) = SumFunctionOnSet(g, S)
  BY DEF SumFunction
<1>2. \A y \in S : f[y] \in Int /\ g[y] \in Int
  OBVIOUS
<1>3. SumFunctionOnSet(g, S) = SumFunctionOnSet(f, S) + g[x] - f[x]
  BY <1>2, SumChange
<1>4. SumFunctionOnSet(f, S) \in Int
  BY <1>2, SumType
<1> QED
  BY <1>1, <1>2, <1>3, <1>4

\* Who ends leaves the others what they hold, but for the rows it has removed.
LEMMA Finished ==
  ASSUME TypeOK, NEW k \in Calls, Finish(k)
  PROVE  /\ pc' = [pc EXCEPT ![k] = "idle"] /\ job'[k] = NoJob /\ job' \in [Calls -> Job]
         /\ \A v \in Calls \ {k} :
              /\ pc'[v] = pc[v]
              /\ job'[v].op = job[v].op /\ job'[v].x = job[v].x /\ job'[v].cls = job[v].cls
              /\ job'[v].att = job[v].att /\ job'[v].old = job[v].old
              /\ job'[v].price = job[v].price /\ job'[v].oneTime = job[v].oneTime
              /\ job'[v].charged = job[v].charged /\ job'[v].lock = job[v].lock
              /\ job[v].lost \subseteq job'[v].lost
              /\ job[v].x # job[k].x => job'[v].lost = job[v].lost
<1> DEFINE x == job[k].x
           removed == {s \in Students : sessions[x].rows[s] # None /\ sessions'[x].rows[s] = None}
<1>1. /\ pc' = [pc EXCEPT ![k] = "idle"]
      /\ job' = [v \in Calls |-> IF v = k THEN NoJob
                                 ELSE IF job[v].x = x THEN [job[v] EXCEPT !.lost = @ \cup removed]
                                 ELSE job[v]]
  BY DEF Finish
<1>2. removed \subseteq Students
  OBVIOUS
<1> HIDE DEF removed
<1>3. ASSUME NEW v \in Calls \ {k}
      PROVE  /\ job'[v] \in Job
             /\ job'[v].op = job[v].op /\ job'[v].x = job[v].x /\ job'[v].cls = job[v].cls
             /\ job'[v].att = job[v].att /\ job'[v].old = job[v].old
             /\ job'[v].price = job[v].price /\ job'[v].oneTime = job[v].oneTime
             /\ job'[v].charged = job[v].charged /\ job'[v].lock = job[v].lock
             /\ job[v].lost \subseteq job'[v].lost
             /\ job[v].x # x => job'[v].lost = job[v].lost
  <2>1. job[v] \in Job
    BY DEF TypeOK
  <2>2. job'[v] = [job[v] EXCEPT !.lost = @ \cup removed] \/ job'[v] = job[v]
    BY <1>1
  <2>3. job[v].x # x => job'[v] = job[v]
    BY <1>1
  <2> QED
    BY <1>2, <2>1, <2>2, <2>3 DEF Job
<1>4. job'[k] = NoJob
  BY <1>1
<1>5. \A v \in Calls : job'[v] \in Job
  BY <1>3, <1>4, StartTypes
<1>6. job' \in [Calls -> Job]
  BY <1>1, <1>5
<1>7. \A v \in Calls \ {k} : pc'[v] = pc[v]
  BY <1>1 DEF TypeOK
<1> HIDE DEF x
<1> QED
  BY <1>1, <1>3, <1>4, <1>6, <1>7 DEF x

\* What creations, edits and deletions have in common: the session shows new rows
\* and, if the call was alone with it, the wallet moves by what its fees change;
\* the paid rows of a one_time class are those of the package.
LEMMA CommitKeeps ==
  ASSUME IInv, NEW k \in Calls, NEW x \in SessionIds, Busy(k), x = job[k].x,
         NEW new \in Session, new.class # None,
         NEW delta, \A s \in Students : delta[s] \in Int,
         sessions' = [sessions EXCEPT ![x] = new],
         Charge(x, delta), Finish(k),
         overlaps[x] = 0 =>
           \A s \in Students : delta[s] = Fee(new.rows, s) - Fee(sessions[x].rows, s),
         UNCHANGED <<overlaps, perBlock, oneTime, sold, unlinked, change, modeChanges, saleChanges>>,
         raced \subseteq raced', raced' \subseteq Classes,
         new.class \in oneTime \ raced' =>
           \A s \in Students : Paid(new.rows[s]) =>
             new.rows[s].fee \in Overrides \cup {Package[new.class]}
  PROVE  IInv'
<1>1. TypeOK /\ sessions'[x] = new /\ \A y \in SessionIds \ {x} : sessions'[y] = sessions[y]
  BY DEF IInv, TypeOK
<1>2. /\ pc' = [pc EXCEPT ![k] = "idle"] /\ job'[k] = NoJob /\ job' \in [Calls -> Job]
      /\ \A v \in Calls \ {k} :
           /\ pc'[v] = pc[v]
           /\ job'[v].op = job[v].op /\ job'[v].x = job[v].x /\ job'[v].cls = job[v].cls
           /\ job'[v].att = job[v].att /\ job'[v].old = job[v].old
           /\ job'[v].price = job[v].price /\ job'[v].oneTime = job[v].oneTime
           /\ job'[v].charged = job[v].charged /\ job'[v].lock = job[v].lock
           /\ job[v].lost \subseteq job'[v].lost
           /\ job[v].x # job[k].x => job'[v].lost = job[v].lost
  BY <1>1, Finished
<1>3. pc'[k] = "idle"
  BY <1>1, <1>2 DEF TypeOK
<1>4. /\ net' \in [SessionIds -> [Students -> Int]] /\ balance' \in [Students -> Int]
      /\ \A s \in Students : /\ net'[x][s] = net[x][s] + delta[s]
                             /\ balance'[s] = balance[s] - delta[s]
      /\ \A y \in SessionIds \ {x} : net'[y] = net[y]
  <2>1. net \in [SessionIds -> [Students -> Int]] /\ balance \in [Students -> Int]
    BY <1>1 DEF TypeOK
  <2>2. /\ net' = [net EXCEPT ![x] = [s \in Students |-> net[x][s] + delta[s]]]
        /\ balance' = [s \in Students |-> balance[s] - delta[s]]
    BY <2>1 DEF Charge
  <2>3. [s \in Students |-> net[x][s] + delta[s]] \in [Students -> Int]
    BY <2>1
  <2>4. balance' \in [Students -> Int]
    BY <2>1, <2>2
  <2>5. net' \in [SessionIds -> [Students -> Int]]
    BY <2>1, <2>2, <2>3
  <2> QED
    BY <2>1, <2>2, <2>4, <2>5
<1>5. TypeOK'
  <2>1. sessions' \in [SessionIds -> Session]
    BY <1>1 DEF TypeOK
  <2>2. pc' \in [Calls -> Labels]
    BY <1>1, <1>2 DEF TypeOK, Labels
  <2>3. \A v \in Calls : Busy(v)' <=> job'[v] # NoJob
    <3>1. ASSUME NEW v \in Calls \ {k} PROVE Busy(v)' <=> job'[v] # NoJob
      <4>1. Busy(v) => job'[v] # NoJob
        BY <1>2 DEF IInv, CallOK, NoJob
      <4>2. ~Busy(v) => job'[v] = NoJob
        <5> SUFFICES ASSUME ~Busy(v) PROVE job'[v] = NoJob
          OBVIOUS
        <5>1. job[v] = NoJob
          BY <1>1 DEF TypeOK
        <5>2. job[v].x # x
          BY <5>1, ChargeAssumption DEF NoJob
        <5>3. job'[v] = job[v]
          BY <5>2 DEF Finish
        <5> QED
          BY <5>1, <5>3
      <4> QED
        BY <1>2, <4>1, <4>2 DEF Busy
    <3> QED
      BY <1>2, <1>3, <3>1 DEF Busy
  <2> QED
    BY <1>1, <1>2, <1>4, <2>1, <2>2, <2>3 DEF TypeOK
<1>6. ASSUME NEW v \in Calls
      PROVE  CallOK(v, job[v])' /\ ReadStands(v, job[v])' /\ PackagePriced(v, job[v])'
  <2>1. CASE v = k
    BY <1>2, <1>3, <2>1 DEF CallOK, ReadStands, PackagePriced, Busy, NoJob
  <2>2. CASE v # k
    <3>1. CallOK(v, job[v]) /\ ReadStands(v, job[v]) /\ PackagePriced(v, job[v])
      BY DEF IInv
    <3>2. CallOK(v, job[v])'
      BY <1>2, <2>2, <3>1 DEF CallOK, Busy
    <3>3. ReadStands(v, job[v])'
      <4> SUFFICES ASSUME Busy(v), overlaps[job[v].x] = 0
                   PROVE  /\ job'[v].old = sessions'[job[v].x] /\ job'[v].lost = {}
                          /\ \A w \in Calls : pc'[w] # "idle" /\ job'[w].x = job[v].x => w = v
        BY <1>2, <2>2 DEF ReadStands, Busy
      <4>1. /\ job[v].old = sessions[job[v].x] /\ job[v].lost = {}
            /\ \A w \in Calls : Busy(w) /\ job[w].x = job[v].x => w = v
        BY <3>1 DEF ReadStands
      <4>2. job[v].x # x /\ job[v].x \in SessionIds
        BY <2>2, <3>1, <4>1 DEF CallOK
      <4>3. \A w \in Calls : pc'[w] # "idle" /\ job'[w].x = job[v].x => w = v
        BY <1>2, <1>3, <4>1 DEF Busy
      <4> QED
        BY <1>1, <1>2, <2>2, <4>1, <4>2, <4>3
    <3>4. PackagePriced(v, job[v])'
      <4>1. NextClass(job[v])' = NextClass(job[v])
        BY <1>2, <2>2 DEF NextClass
      <4> QED
        BY <1>2, <2>2, <3>1, <4>1 DEF PackagePriced, Paid
    <3> QED
      BY <3>2, <3>3, <3>4
  <2> QED
    BY <2>1, <2>2
<1>7. NewSessions' /\ NobodyFound'
  BY <1>1 DEF IInv, NewSessions, NobodyFound
<1>8. PaidRowIsPackage'
  <2> SUFFICES ASSUME NEW c \in oneTime \ raced', NEW s \in Students, NEW y \in SessionIds,
                      sessions'[y].class = c, Paid(sessions'[y].rows[s])
               PROVE  sessions'[y].rows[s].fee \in Overrides \cup {Package[c]}
    BY DEF PaidRowIsPackage, PaidIn, Paid
  <2>1. CASE y = x
    BY <1>1, <2>1
  <2>2. CASE y # x
    BY <1>1, <2>2 DEF IInv, PaidRowIsPackage, PaidIn
  <2> QED
    BY <2>1, <2>2
<1>9. WalletFollowsAttendance'
  <2>1. ASSUME NEW y \in SessionIds, NEW s \in Students, overlaps[y] = 0
        PROVE  net'[y][s] + unlinked[y][s] = Fee(sessions'[y].rows, s)
    <3>1. net[y][s] + unlinked[y][s] = Fee(sessions[y].rows, s)
      BY <2>1 DEF IInv, WalletFollowsAttendance
    <3>2. CASE y # x
      BY <1>1, <1>4, <3>1, <3>2
    <3>3. CASE y = x
      <4>1. delta[s] = Fee(new.rows, s) - Fee(sessions[x].rows, s)
        BY <2>1, <3>3
      <4>2. net[x][s] \in Int /\ unlinked[x][s] \in Int
        BY <1>1 DEF TypeOK
      <4>3. Fee(new.rows, s) \in Nat /\ Fee(sessions[x].rows, s) \in Nat
        BY <1>1, FeeType DEF TypeOK
      <4> QED
        BY <1>1, <1>4, <3>1, <3>3, <4>1, <4>2, <4>3
    <3> QED
      BY <3>2, <3>3
  <2>2. ASSUME NEW s \in Students
        PROVE  balance'[s] = 0 - SumFunction([y \in SessionIds |-> net'[y][s] + unlinked[y][s]])
    <3> DEFINE f == [y \in SessionIds |-> net[y][s] + unlinked[y][s]]
               g == [y \in SessionIds |-> net'[y][s] + unlinked[y][s]]
    <3>1. f \in [SessionIds -> Int] /\ g \in [SessionIds -> Int]
      BY <1>1, <1>4 DEF TypeOK
    <3>2. g[x] = f[x] + delta[s] /\ \A y \in SessionIds \ {x} : g[y] = f[y]
      BY <1>1, <1>4 DEF TypeOK
    <3>3. balance[s] = 0 - SumFunction(f)
      BY DEF IInv, WalletFollowsAttendance
    <3>4. IsFiniteSet(SessionIds) /\ delta[s] \in Int
      BY ChargeAssumption
    <3> HIDE DEF f, g
    <3>5. SumFunction(g) = SumFunction(f) + delta[s] /\ SumFunction(f) \in Int
      BY ONLY <3>1, <3>2, <3>4, x \in SessionIds, OneSummand
    <3>6. balance'[s] = 0 - SumFunction(g)
      BY <1>4, <3>3, <3>4, <3>5
    <3> QED
      BY <3>6 DEF g
  <2> QED
    BY <2>1, <2>2, Zenon DEF WalletFollowsAttendance, Fee
<1> QED
  BY <1>5, <1>6, <1>7, <1>8, <1>9 DEF IInv

\* A paid row that a call writes has the price of the package, or the fee set with it.
LEMMA NewFeeIsPackage ==
  ASSUME NEW j \in Job, NEW s \in Students, NEW c, NextClass(j) = c, j.price = Package[c],
         j.old.class = c => (Paid(j.old.rows[s]) =>
                               j.old.rows[s].fee \in Overrides \cup {Package[c]}),
         Paid(NewRow(j, s))
  PROVE  NewRow(j, s).fee \in Overrides \cup {Package[c]}
<1> DEFINE item == Source(j)[s]
<1>1. /\ item # None /\ NewRow(j, s).chargeable = item.chargeable
      /\ NewRow(j, s).fee = Resolved(item, s \in j.charged, j.price)
  BY DEF Paid, NewRow
<1>2. item.chargeable /\ NewRow(j, s).fee > 0
  BY <1>1 DEF Paid
<1>3. NewRow(j, s).fee = IF item.override # None THEN item.override ELSE Package[c]
  BY <1>1, <1>2 DEF Resolved
<1>4. CASE j.att # None
  <2>1. item \in Item
    BY <1>1, <1>4 DEF Job, Source, Attendance
  <2>2. item.override \in Overrides \cup {None}
    BY <2>1 DEF Item
  <2> QED
    BY <1>3, <2>2
<1>5. CASE j.att = None
  <2> DEFINE was == j.old.rows[s]
  <2>1. item = IF was = None THEN None
          ELSE [chargeable |-> was.chargeable,
                override |-> IF NextClass(j) # j.old.class THEN None ELSE was.fee]
    BY <1>5 DEF Source
  <2>2. /\ was # None /\ item.chargeable = was.chargeable
        /\ item.override = IF c # j.old.class THEN None ELSE was.fee
    BY <1>1, <2>1
  <2> HIDE DEF item
  <2>3. CASE c # j.old.class
    BY <1>3, <2>2, <2>3
  <2>4. CASE c = j.old.class /\ was.fee # None
    <3>1. NewRow(j, s).fee = was.fee
      BY <1>3, <2>2, <2>4
    <3>2. Paid(was)
      BY <1>2, <2>2, <3>1 DEF Paid
    <3> QED
      BY <2>4, <3>1, <3>2
  <2>5. CASE c = j.old.class /\ was.fee = None
    BY <1>3, <2>2, <2>5
  <2> QED
    BY <2>3, <2>4, <2>5
<1> QED
  BY <1>4, <1>5

LEMMA CommitCreateKeeps ==
  ASSUME IInv, NEW k \in Calls, CommitCreate(k)
  PROVE  IInv'
<1> DEFINE j == job[k]
           x == j.x
           new == [class |-> j.cls, rows |-> NewRows(j)]
           delta == [s \in Students |-> Fee(NewRows(j), s)]
<1>1. /\ pc[k] = "write" /\ j.op = "create" /\ Finish(k) /\ Charge(x, delta)
      /\ sessions' = [sessions EXCEPT ![x] = new]
      /\ UNCHANGED <<overlaps, modes>>
  BY DEF CommitCreate
<1>2. Busy(k) /\ j \in Job /\ CallOK(k, j) /\ TypeOK
  BY <1>1 DEF Busy, IInv, TypeOK
<1>3. x \in SessionIds /\ j.cls \in Classes /\ j.old = NoSession /\ NextClass(j) = j.cls
  BY <1>1, <1>2, ChargeAssumption DEF CallOK, NextClass
<1>4. new \in Session /\ new.class # None /\ new.class = j.cls /\ new.rows = NewRows(j)
  BY <1>2, <1>3, NewRowType, ChargeAssumption DEF NewRows, Session
<1>5. \A s \in Students : delta[s] = Fee(NewRows(j), s) /\ delta[s] \in Int
  BY <1>2, NewFee
<1>6. ASSUME overlaps[x] = 0, NEW s \in Students
      PROVE  delta[s] = Fee(new.rows, s) - Fee(sessions[x].rows, s)
  <2>1. sessions[x] = NoSession
    BY <1>2, <1>3, <1>6 DEF IInv, ReadStands
  <2>2. Fee(sessions[x].rows, s) = 0
    BY <2>1 DEF NoSession, Fee
  <2>3. delta[s] = Fee(new.rows, s) /\ delta[s] \in Int
    BY <1>4, <1>5
  <2> HIDE DEF delta, new, x
  <2> QED
    BY <2>2, <2>3
<1>7. ASSUME new.class \in oneTime \ raced, NEW s \in Students, Paid(new.rows[s])
      PROVE  new.rows[s].fee \in Overrides \cup {Package[new.class]}
  <2>1. new.rows[s] = NewRow(j, s)
    BY DEF NewRows
  <2>2. j.price = Package[j.cls]
    BY <1>1, <1>3, <1>7 DEF IInv, PackagePriced
  <2>3. j.old.class # j.cls
    BY <1>3, ChargeAssumption DEF NoSession
  <2>4. Paid(NewRow(j, s))
    BY <1>7, <2>1
  <2>5. NewRow(j, s).fee \in Overrides \cup {Package[j.cls]}
    BY <1>2, <1>3, <2>2, <2>3, <2>4, NewFeeIsPackage
  <2> QED
    BY <2>1, <2>5
<1>8. /\ UNCHANGED <<overlaps, perBlock, oneTime, sold, unlinked, change, modeChanges, saleChanges>>
      /\ raced' = raced /\ raced \subseteq Classes
  BY <1>1, <1>2 DEF modes, TypeOK
<1>9. x = job[k].x
  OBVIOUS
<1> HIDE DEF j, x, new, delta
<1> QED
  BY <1>1, <1>2, <1>3, <1>4, <1>5, <1>6, <1>7, <1>8, <1>9, CommitKeeps

LEMMA CommitDeleteKeeps ==
  ASSUME IInv, NEW k \in Calls, CommitDelete(k)
  PROVE  IInv'
<1> DEFINE j == job[k]
           x == j.x
           delta == [s \in Students |-> 0 - Fee(j.old.rows, s)]
<1>1. /\ pc[k] = "write" /\ j.op = "delete" /\ Finish(k) /\ Charge(x, delta)
      /\ sessions' = [sessions EXCEPT ![x] = GoneSession]
      /\ UNCHANGED <<overlaps, modes>>
  BY DEF CommitDelete
<1>2. Busy(k) /\ j \in Job /\ CallOK(k, j) /\ TypeOK
  BY <1>1 DEF Busy, IInv, TypeOK
<1>3. x \in SessionIds /\ j.old \in Session
  BY <1>1, <1>2 DEF CallOK, Job
<1>4. GoneSession \in Session /\ GoneSession.class = Deleted /\ Deleted # None
      /\ Deleted \notin Classes /\ \A s \in Students : GoneSession.rows[s] = None
  BY StartTypes, ChargeAssumption DEF GoneSession, NoSession
<1>5. \A s \in Students : /\ Fee(j.old.rows, s) \in Nat /\ delta[s] \in Int
                          /\ delta[s] = 0 - Fee(j.old.rows, s)
  BY <1>3, FeeType
<1>6. ASSUME overlaps[x] = 0, NEW s \in Students
      PROVE  delta[s] = Fee(GoneSession.rows, s) - Fee(sessions[x].rows, s)
  <2>1. sessions[x] = j.old
    BY <1>2, <1>3, <1>6 DEF IInv, ReadStands
  <2>2. Fee(GoneSession.rows, s) = 0
    BY <1>4 DEF Fee
  <2> QED
    BY <1>5, <2>1, <2>2
<1>7. /\ UNCHANGED <<overlaps, perBlock, oneTime, sold, unlinked, change, modeChanges, saleChanges>>
      /\ raced' = raced /\ raced \subseteq Classes /\ oneTime \subseteq Classes
  BY <1>1, <1>2 DEF modes, TypeOK
<1>8. x = job[k].x
  OBVIOUS
<1> HIDE DEF j, x, delta
<1> QED
  BY <1>1, <1>2, <1>3, <1>4, <1>5, <1>6, <1>7, <1>8, CommitKeeps

\* Where an edit lands: in a one_time class that was not raced the call has read
\* that class, or moves the session as it has read it; a row it keeps was there.
LEMMA EditLands ==
  ASSUME IInv, NEW k \in Calls, CommitEdit(k), NEW c,
         sessions'[job[k].x].class = c, c \in oneTime \ raced'
  PROVE  LET x == job[k].x IN
         /\ NextClass(job[k]) = c
         /\ \A s \in Students :
              \/ sessions'[x].rows[s] = NewRow(job[k], s)
              \/ ~Paid(sessions'[x].rows[s])
              \/ /\ sessions[x].class = c /\ job[k].old.class = c
                 /\ sessions'[x].rows[s] = sessions[x].rows[s]
<1> DEFINE j == job[k]
           x == j.x
           Kept(s) == IF j.old.rows[s] # None /\ s \notin j.lost THEN None
                      ELSE sessions[x].rows[s]
           new == [class |-> IF j.cls # None THEN j.cls ELSE sessions[x].class,
                   rows |-> [s \in Students |-> IF NewRow(j, s) # None THEN NewRow(j, s)
                                                ELSE Kept(s)]]
<1>1. /\ pc[k] = "write" /\ j.op = "edit"
      /\ raced' = raced \cup {d \in oneTime : /\ sessions'[x].class = d
                                              /\ sessions[x].class # d \/ j.old.class # d
                                              /\ sessions[x] # j.old \/ j.lost # {}}
  BY DEF CommitEdit
<1>2. j \in Job /\ CallOK(k, j) /\ TypeOK /\ Busy(k)
  BY <1>1 DEF Busy, IInv, TypeOK
<1>3. x \in SessionIds
  BY <1>2 DEF CallOK
<1>4. sessions' = [sessions EXCEPT ![x] = new]
  BY <1>3 DEF CommitEdit, TypeOK, IInv
<1>5. sessions'[x] = new
  BY <1>2, <1>3, <1>4 DEF TypeOK
<1>6. /\ c = IF j.cls # None THEN j.cls ELSE sessions[x].class
      /\ \A s \in Students : sessions'[x].rows[s] = IF NewRow(j, s) # None THEN NewRow(j, s)
                                                     ELSE Kept(s)
  BY <1>5
<1>7. \/ sessions[x].class = c /\ j.old.class = c
      \/ sessions[x] = j.old /\ j.lost = {}
  BY <1>1
<1> HIDE DEF j, x
<1>8. NextClass(j) = c
  BY <1>6, <1>7 DEF NextClass
<1>9. ASSUME NEW s \in Students
      PROVE  \/ sessions'[x].rows[s] = NewRow(j, s)
             \/ ~Paid(sessions'[x].rows[s])
             \/ /\ sessions[x].class = c /\ j.old.class = c
                /\ sessions'[x].rows[s] = sessions[x].rows[s]
  <2> SUFFICES ASSUME NewRow(j, s) = None, sessions'[x].rows[s] # None
               PROVE  /\ sessions[x].class = c /\ j.old.class = c
                      /\ sessions'[x].rows[s] = sessions[x].rows[s]
    BY <1>6 DEF Paid
  <2>1. sessions'[x].rows[s] = sessions[x].rows[s] /\ (j.old.rows[s] = None \/ s \in j.lost)
    BY <1>6
  <2> QED
    BY <1>7, <2>1
<1> QED
  BY <1>8, <1>9 DEF j, x

LEMMA CommitEditKeeps ==
  ASSUME IInv, NEW k \in Calls, CommitEdit(k)
  PROVE  IInv'
<1> DEFINE j == job[k]
           x == j.x
           Kept(s) == IF j.old.rows[s] # None /\ s \notin j.lost THEN None
                      ELSE sessions[x].rows[s]
           new == [class |-> IF j.cls # None THEN j.cls ELSE sessions[x].class,
                   rows |-> [s \in Students |-> IF NewRow(j, s) # None THEN NewRow(j, s)
                                                ELSE Kept(s)]]
           delta == [s \in Students |-> Delta(j, s)]
<1>1. /\ pc[k] = "write" /\ j.op = "edit" /\ sessions[x].class \in Classes
      /\ Charge(x, delta) /\ Finish(k)
      /\ raced' = raced \cup {d \in oneTime : /\ sessions'[x].class = d
                                              /\ sessions[x].class # d \/ j.old.class # d
                                              /\ sessions[x] # j.old \/ j.lost # {}}
      /\ UNCHANGED <<overlaps, perBlock, oneTime, sold, unlinked, change, modeChanges, saleChanges>>
  BY DEF CommitEdit, Live
<1>2. j \in Job /\ CallOK(k, j) /\ TypeOK /\ Busy(k)
  BY <1>1 DEF Busy, IInv, TypeOK
<1>3. x \in SessionIds /\ sessions[x] \in Session
  BY <1>2 DEF CallOK, TypeOK
<1>4. sessions' = [sessions EXCEPT ![x] = new]
  BY <1>3 DEF CommitEdit, TypeOK, IInv
<1>5. sessions'[x] = new
  BY <1>2, <1>3, <1>4 DEF TypeOK
<1>6. /\ new.class = IF j.cls # None THEN j.cls ELSE sessions[x].class
      /\ \A s \in Students : new.rows[s] = IF NewRow(j, s) # None THEN NewRow(j, s) ELSE Kept(s)
  OBVIOUS
<1>7. new.class \in Classes /\ new.class # None
  BY <1>1, <1>2, <1>6, ChargeAssumption DEF Job
<1>8. new \in Session
  <2>1. \A s \in Students : Kept(s) \in Row \cup {None}
    BY <1>3 DEF Session
  <2>2. \A s \in Students : NewRow(j, s) \in Row \cup {None}
    BY <1>2, NewRowType
  <2> HIDE DEF Kept, j
  <2> QED
    BY <1>6, <1>7, <2>1, <2>2 DEF Session
<1>9. \A s \in Students : delta[s] = Delta(j, s) /\ delta[s] \in Int
  BY <1>2, NewFee
<1>10. ASSUME overlaps[x] = 0, NEW s \in Students
       PROVE  delta[s] = Fee(new.rows, s) - Fee(sessions[x].rows, s)
  <2>1. sessions[x] = j.old /\ j.lost = {}
    BY <1>2, <1>3, <1>10 DEF IInv, ReadStands
  <2>2. Kept(s) = None
    BY <2>1
  <2>3. Fee(new.rows, s) = Fee(NewRows(j), s)
    BY <1>2, <1>6, <2>2, NewFee DEF Fee
  <2>4. Delta(j, s) = Fee(NewRows(j), s) - Fee(j.old.rows, s)
    BY <1>2, NewFee
  <2> QED
    BY <1>9, <2>1, <2>3, <2>4
<1>11. raced \subseteq raced' /\ raced' \subseteq Classes
  BY <1>1, <1>2 DEF TypeOK
<1>12. ASSUME new.class \in oneTime \ raced', NEW s \in Students, Paid(new.rows[s])
       PROVE  new.rows[s].fee \in Overrides \cup {Package[new.class]}
  <2> DEFINE c == new.class
  <2>1. /\ sessions'[x].class = c /\ sessions'[x].rows[s] = new.rows[s]
        /\ c \in oneTime \ raced' /\ c \in oneTime \ raced
    BY <1>5, <1>11, <1>12
  <2> HIDE DEF new, x, j
  <2>2. /\ NextClass(j) = c
        /\ \/ new.rows[s] = NewRow(j, s)
           \/ sessions[x].class = c /\ new.rows[s] = sessions[x].rows[s]
    BY <1>12, <2>1, EditLands DEF j, x
  <2>3. CASE new.rows[s] = NewRow(j, s)
    <3>1. PackagePriced(k, j)
      BY DEF IInv, j
    <3>2. /\ j.price = Package[c]
          /\ j.old.class = c => (Paid(j.old.rows[s]) =>
                                   j.old.rows[s].fee \in Overrides \cup {Package[c]})
      BY <1>1, <2>1, <2>2, <3>1 DEF PackagePriced
    <3>3. Paid(NewRow(j, s))
      BY <1>12, <2>3
    <3> HIDE DEF c
    <3>4. NewRow(j, s).fee \in Overrides \cup {Package[c]}
      BY <1>2, <2>2, <3>2, <3>3, NewFeeIsPackage
    <3> QED
      BY <2>3, <3>4 DEF c
  <2>4. CASE sessions[x].class = c /\ new.rows[s] = sessions[x].rows[s]
    <3>1. PaidIn(x, s)
      BY <1>12, <2>4 DEF PaidIn
    <3>2. x \in SessionIds /\ c \in oneTime \ raced
      BY <1>3, <2>1
    <3> QED
      BY <1>12, <2>4, <3>1, <3>2 DEF IInv, PaidRowIsPackage
  <2> QED
    BY <2>2, <2>3, <2>4
<1>13. x = job[k].x
  OBVIOUS
<1> HIDE DEF j, x, new, delta
<1>14. new.class \in oneTime \ raced' =>
         \A s \in Students : Paid(new.rows[s]) => new.rows[s].fee \in Overrides \cup {Package[new.class]}
  BY ONLY <1>12
<1>15. overlaps[x] = 0 =>
         \A s \in Students : delta[s] = Fee(new.rows, s) - Fee(sessions[x].rows, s)
  BY ONLY <1>10
<1>16. /\ Busy(k) /\ new.class # None /\ Charge(x, delta) /\ Finish(k)
       /\ UNCHANGED <<overlaps, perBlock, oneTime, sold, unlinked, change, modeChanges, saleChanges>>
       /\ \A s \in Students : delta[s] \in Int
  BY ONLY <1>1, <1>2, <1>7, <1>9
<1> QED
  BY ONLY IInv, k \in Calls, <1>3, <1>4, <1>8, <1>11, <1>13, <1>14, <1>15, <1>16, CommitKeeps
-----------------------------------------------------------------------------
(* The mode of a class changes. *)

\* A repriced row shows the price of the new mode: its fee has changed by what the
\* balance moves.
LEMMA PricingModeKeeps ==
  ASSUME IInv, NEW m \in Managers, NEW frozen, UpdatePricingMode(m, frozen)
  PROVE  IInv'
<1> DEFINE c == change[m].class
           repriced == {x \in SessionIds : sessions[x].class = c} \ frozen
           next == IF change[m].to = "per_block" THEN perBlock \cup {c} ELSE perBlock \ {c}
           price == IF c \in next THEN BlockPrice[c] ELSE Price[c]
           Linked(x, s) == sessions[x].rows[s] # None /\ sessions[x].rows[s].linked
           D(x, s) == Repricing(repriced, price, x, s)
           H(x, s) == Hit(repriced, x, s)
<1>1. /\ change[m] # None /\ change' = [change EXCEPT ![m] = None]
      /\ \A k \in Calls : Busy(k) => job[k].x \notin repriced
      /\ perBlock' = next /\ oneTime' = oneTime \ {c}
      /\ sessions' = [x \in SessionIds |-> [sessions[x] EXCEPT !.rows =
           [s \in Students |-> IF H(x, s) THEN [@[s] EXCEPT !.fee = price] ELSE @[s]]]]
      /\ net' = [x \in SessionIds |-> [s \in Students |->
           net[x][s] + (IF Linked(x, s) = TRUE THEN D(x, s) ELSE 0)]]
      /\ unlinked' = [x \in SessionIds |-> [s \in Students |->
           unlinked[x][s] + (IF Linked(x, s) = FALSE THEN D(x, s) ELSE 0)]]
      /\ balance' = [s \in Students |->
           balance[s] - SumFunction([x \in SessionIds |-> D(x, s)])]
      /\ UNCHANGED <<sold, raced, modeChanges, saleChanges, pc, job, overlaps>>
  BY DEF UpdatePricingMode
<1>2. TypeOK /\ c \in Classes /\ price \in Nat
  <2>1. TypeOK /\ c \in Classes
    BY <1>1 DEF IInv, TypeOK, Change
  <2> HIDE DEF c
  <2> QED
    BY <2>1, ChargeAssumption
<1> HIDE DEF c
<1>3. \A x \in SessionIds : sessions[x] \in Session
  BY <1>2 DEF TypeOK
<1>4. ASSUME NEW x \in SessionIds
      PROVE  /\ sessions'[x] \in Session /\ sessions'[x].class = sessions[x].class
             /\ \A s \in Students :
                  sessions'[x].rows[s] = IF H(x, s) THEN [sessions[x].rows[s] EXCEPT !.fee = price]
                                         ELSE sessions[x].rows[s]
  <2>1. sessions'[x] = [sessions[x] EXCEPT !.rows =
           [s \in Students |-> IF H(x, s) THEN [sessions[x].rows[s] EXCEPT !.fee = price]
                               ELSE sessions[x].rows[s]]]
    BY <1>1, <1>3 DEF Session
  <2>2. \A s \in Students :
          (IF H(x, s) THEN [sessions[x].rows[s] EXCEPT !.fee = price]
           ELSE sessions[x].rows[s]) \in Row \cup {None}
    <3> TAKE s \in Students
    <3>1. sessions[x].rows[s] \in Row \cup {None}
      BY <1>3 DEF Session
    <3>2. CASE H(x, s)
      <4>1. sessions[x].rows[s] \in Row
        BY <3>1, <3>2 DEF Hit
      <4> HIDE DEF price
      <4> QED
        BY <1>2, <3>2, <4>1 DEF Row
    <3> QED
      BY <3>1, <3>2
  <2> HIDE DEF H, price
  <2> QED
    BY <1>3, <2>1, <2>2 DEF Session
<1>5. ASSUME NEW x \in SessionIds, x \notin repriced
      PROVE  sessions'[x] = sessions[x]
  <2>1. \A s \in Students : ~H(x, s)
    BY <1>5 DEF Hit
  <2>2. \A s \in Students : sessions'[x].rows[s] = sessions[x].rows[s]
    BY <1>4, <2>1
  <2> HIDE DEF H, price, repriced
  <2> QED
    BY <1>3, <1>4, <2>2 DEF Session
<1>6. ASSUME NEW x \in SessionIds, NEW s \in Students
      PROVE  /\ D(x, s) \in Int
             /\ Fee(sessions'[x].rows, s) = Fee(sessions[x].rows, s) + D(x, s)
             /\ net'[x][s] + unlinked'[x][s] = net[x][s] + unlinked[x][s] + D(x, s)
             /\ net'[x][s] \in Int /\ unlinked'[x][s] \in Int
             /\ net[x][s] \in Int /\ unlinked[x][s] \in Int
  <2>1. sessions[x].rows[s] = None \/ sessions[x].rows[s] \in Row
    BY <1>3 DEF Session
  <2>2. net[x][s] \in Int /\ unlinked[x][s] \in Int
    BY <1>2 DEF TypeOK
  <2>3. ASSUME H(x, s)
        PROVE  D(x, s) \in Int /\ Fee(sessions'[x].rows, s) = Fee(sessions[x].rows, s) + D(x, s)
    <3> DEFINE row == sessions[x].rows[s]
               after == [row EXCEPT !.fee = price]
    <3>1. row \in Row /\ row.fee \in Nat /\ row # None
      BY <2>1, <2>3 DEF Hit, Row
    <3>2. sessions'[x].rows[s] = after /\ after.fee = price
      BY <1>4, <2>3, <3>1 DEF Row
    <3>3. D(x, s) = price - row.fee
      BY <2>3 DEF Repricing
    <3>4. Fee(sessions[x].rows, s) = row.fee
      BY <3>1 DEF Fee
    <3>5. after # None
      <4>1. after \in Row
        BY <1>2, <3>1 DEF Row
      <4> HIDE DEF after
      <4> QED
        BY <4>1, RowAssumption
    <3>6. Fee(sessions'[x].rows, s) = price
      BY <3>2, <3>5 DEF Fee
    <3> HIDE DEF D, price, row
    <3> QED
      BY <1>2, <3>1, <3>3, <3>4, <3>6
  <2>4. ASSUME ~H(x, s)
        PROVE  D(x, s) \in Int /\ Fee(sessions'[x].rows, s) = Fee(sessions[x].rows, s) + D(x, s)
    <3>1. sessions'[x].rows[s] = sessions[x].rows[s] /\ D(x, s) = 0
      BY <1>4, <2>4 DEF Repricing
    <3>2. Fee(sessions[x].rows, s) \in Nat
      BY <1>3, FeeType
    <3> HIDE DEF D
    <3> QED
      BY <3>1, <3>2 DEF Fee
  <2>5. D(x, s) \in Int /\ Fee(sessions'[x].rows, s) = Fee(sessions[x].rows, s) + D(x, s)
    BY <2>3, <2>4
  <2>6. /\ net'[x][s] = net[x][s] + (IF Linked(x, s) = TRUE THEN D(x, s) ELSE 0)
        /\ unlinked'[x][s] = unlinked[x][s] + (IF Linked(x, s) = FALSE THEN D(x, s) ELSE 0)
    BY <1>1
  <2>7. Linked(x, s) = TRUE \/ Linked(x, s) = FALSE
    OBVIOUS
  <2> HIDE DEF D, Linked
  <2>8. CASE Linked(x, s) = TRUE
    <3>1. net'[x][s] = net[x][s] + D(x, s) /\ unlinked'[x][s] = unlinked[x][s] + 0
      BY <2>6, <2>8
    <3> QED
      BY <2>2, <2>5, <3>1
  <2>9. CASE Linked(x, s) = FALSE
    <3>1. net'[x][s] = net[x][s] + 0 /\ unlinked'[x][s] = unlinked[x][s] + D(x, s)
      BY <2>6, <2>9
    <3> QED
      BY <2>2, <2>5, <3>1
  <2> QED
    BY <2>7, <2>8, <2>9
<1>7. ASSUME NEW s \in Students
      PROVE  /\ balance'[s] \in Int
             /\ balance'[s] = 0 - SumFunction([x \in SessionIds |-> net'[x][s] + unlinked'[x][s]])
  <2> DEFINE f == [x \in SessionIds |-> net[x][s] + unlinked[x][s]]
             g == [x \in SessionIds |-> D(x, s)]
             h == [x \in SessionIds |-> net'[x][s] + unlinked'[x][s]]
  <2>1. \A x \in SessionIds : f[x] \in Int /\ g[x] \in Int /\ h[x] = f[x] + g[x]
    <3> HIDE DEF D
    <3> QED
      BY <1>6
  <2>2. /\ SumFunction(f) = SumFunctionOnSet(f, SessionIds)
        /\ SumFunction(g) = SumFunctionOnSet(g, SessionIds)
        /\ SumFunction(h) = SumFunctionOnSet(h, SessionIds)
    BY DEF SumFunction
  <2>3. balance[s] = 0 - SumFunction(f) /\ balance'[s] = balance[s] - SumFunction(g)
    BY <1>1 DEF IInv, WalletFollowsAttendance
  <2>4. IsFiniteSet(SessionIds)
    BY ChargeAssumption
  <2> HIDE DEF f, g, h
  <2>5. SumFunctionOnSet(h, SessionIds) =
          SumFunctionOnSet(f, SessionIds) + SumFunctionOnSet(g, SessionIds)
    BY ONLY <2>1, <2>4, SumPlus
  <2>6. SumFunctionOnSet(f, SessionIds) \in Int
    BY ONLY <2>1, <2>4, SumType
  <2>7. SumFunctionOnSet(g, SessionIds) \in Int
    BY ONLY <2>1, <2>4, SumType
  <2>8. balance'[s] \in Int /\ balance'[s] = 0 - SumFunction(h)
    BY <2>2, <2>3, <2>5, <2>6, <2>7
  <2> QED
    BY <2>8 DEF h
<1>8. TypeOK'
  <2>1. sessions' \in [SessionIds -> Session]
    BY <1>1, <1>4
  <2>2. net' \in [SessionIds -> [Students -> Int]] /\ unlinked' \in [SessionIds -> [Students -> Int]]
    <3> HIDE DEF D, Linked
    <3>1. /\ net' = [x \in SessionIds |-> [s \in Students |-> net'[x][s]]]
          /\ unlinked' = [x \in SessionIds |-> [s \in Students |-> unlinked'[x][s]]]
      BY <1>1
    <3> QED
      BY <1>6, <3>1
  <2>3. balance' \in [Students -> Int]
    <3> HIDE DEF D
    <3>1. balance' = [s \in Students |-> balance'[s]]
      BY <1>1
    <3> QED
      BY <1>7, <3>1
  <2>4. oneTime' \subseteq Classes /\ perBlock' \subseteq Classes \ oneTime'
    BY <1>1, <1>2 DEF TypeOK
  <2>5. change' \in [Managers -> Change \cup {None}]
    BY <1>1, <1>2 DEF TypeOK
  <2> QED
    BY <1>1, <1>2, <2>1, <2>2, <2>3, <2>4, <2>5 DEF TypeOK, Busy
<1>9. ASSUME NEW k \in Calls
      PROVE  CallOK(k, job[k])' /\ ReadStands(k, job[k])' /\ PackagePriced(k, job[k])'
  <2>1. CallOK(k, job[k]) /\ ReadStands(k, job[k]) /\ PackagePriced(k, job[k])
    BY DEF IInv
  <2>2. Busy(k) => sessions'[job[k].x] = sessions[job[k].x]
    BY <1>1, <1>5, <2>1 DEF CallOK
  <2> HIDE DEF D, H, Linked, price, repriced, next
  <2>3. CallOK(k, job[k])'
    BY <1>1, <2>1 DEF CallOK, Busy
  <2>4. ReadStands(k, job[k])'
    BY <1>1, <2>1, <2>2 DEF ReadStands, Busy
  <2>5. PackagePriced(k, job[k])'
    BY <1>1, <2>1 DEF PackagePriced, NextClass, Paid
  <2> QED
    BY <2>3, <2>4, <2>5
<1>10. NewSessions' /\ NobodyFound'
  <2>0. NobodyFound'
    BY <1>1, <1>2 DEF IInv, NobodyFound, TypeOK
  <2> SUFFICES ASSUME NEW x \in SessionIds, sessions'[x].class = None
               PROVE  sessions'[x] = NoSession
    BY <2>0 DEF NewSessions
  <2>1. sessions[x].class = None
    BY <1>4
  <2>2. x \notin repriced
    BY <1>2, <2>1, ChargeAssumption
  <2> QED
    BY <1>5, <2>1, <2>2 DEF IInv, NewSessions
<1>11. PaidRowIsPackage'
  <2> SUFFICES ASSUME NEW d \in oneTime \ raced, d # c, NEW s \in Students, NEW x \in SessionIds,
                      sessions'[x].class = d, Paid(sessions'[x].rows[s])
               PROVE  sessions'[x].rows[s].fee \in Overrides \cup {Package[d]}
    BY <1>1 DEF PaidRowIsPackage, PaidIn, Paid
  <2>1. sessions[x].class = d
    BY <1>4
  <2>2. sessions'[x] = sessions[x]
    BY <1>1, <1>5, <2>1
  <2> QED
    BY <2>1, <2>2 DEF IInv, PaidRowIsPackage, PaidIn
<1>12. WalletFollowsAttendance'
  <2>1. ASSUME NEW x \in SessionIds, NEW s \in Students, overlaps'[x] = 0
        PROVE  net'[x][s] + unlinked'[x][s] = Fee(sessions'[x].rows, s)
    <3>1. net[x][s] + unlinked[x][s] = Fee(sessions[x].rows, s)
      BY <1>1, <2>1 DEF IInv, WalletFollowsAttendance
    <3> HIDE DEF D
    <3> QED
      BY <1>6, <3>1
  <2> QED
    BY <1>7, <2>1, Zenon DEF WalletFollowsAttendance, Fee
<1> QED
  BY <1>8, <1>9, <1>10, <1>11, <1>12 DEF IInv

\* A manager's call that reads changes nothing that the invariant speaks of, but for
\* what the call holds.
LEMMA HoldsKeeps ==
  ASSUME IInv, NEW m \in Managers, NEW read \in Change, read.found \in {None, {}},
         Holds(m, read),
         modeChanges' \in 0..MaxModeChanges, saleChanges' \in 0..MaxTrouble
  PROVE  IInv'
<1>1. /\ change' = [change EXCEPT ![m] = read] /\ TypeOK
      /\ UNCHANGED <<sessions, net, balance, pc, job, overlaps,
                     perBlock, oneTime, sold, raced, unlinked>>
  BY DEF Holds, IInv
<1>2. TypeOK'
  <2>1. change' \in [Managers -> Change \cup {None}]
    BY <1>1 DEF TypeOK
  <2> QED
    BY <1>1, <2>1 DEF TypeOK, Busy
<1>3. NobodyFound'
  BY <1>1 DEF IInv, NobodyFound, TypeOK
<1>4. ASSUME NEW k \in Calls
      PROVE  CallOK(k, job[k])' /\ ReadStands(k, job[k])' /\ PackagePriced(k, job[k])'
  <2>1. CallOK(k, job[k]) /\ ReadStands(k, job[k]) /\ PackagePriced(k, job[k])
    BY DEF IInv
  <2>2. CallOK(k, job[k])' /\ ReadStands(k, job[k])'
    BY <1>1, <2>1 DEF CallOK, ReadStands, Busy
  <2>3. PackagePriced(k, job[k])'
    BY <1>1, <2>1, PricedStays
  <2> QED
    BY <2>2, <2>3
<1>5. NewSessions' /\ PaidRowIsPackage' /\ WalletFollowsAttendance'
  BY <1>1 DEF IInv, NewSessions, PaidRowIsPackage, PaidIn, Paid, WalletFollowsAttendance, Fee
<1> QED
  BY <1>2, <1>3, <1>4, <1>5 DEF IInv

LEMMA ReadModeKeeps ==
  ASSUME IInv, NEW m \in Managers, NEW c \in Classes, ReadMode(m, c)
  PROVE  IInv'
<1> DEFINE read == [class |-> c, by |-> "class", found |-> None,
                    to |-> IF c \in perBlock THEN "per_session" ELSE "per_block"]
<1>1. /\ Holds(m, read) /\ modeChanges < MaxModeChanges
      /\ modeChanges' = modeChanges + 1 /\ saleChanges' = saleChanges
  BY DEF ReadMode
<1>2. read \in Change /\ read.found = None
  BY DEF Change
<1>3. modeChanges' \in 0..MaxModeChanges /\ saleChanges' \in 0..MaxTrouble
  BY <1>1, ChargeAssumption DEF IInv, TypeOK
<1> HIDE DEF read
<1> QED
  BY <1>1, <1>2, <1>3, HoldsKeeps

LEMMA ReadSaleKeeps ==
  ASSUME IInv, NEW m \in Managers, NEW c \in Classes, ReadSale(m, c)
  PROVE  IInv'
<1> DEFINE read == [class |-> c, by |-> "course", found |-> None,
                    to |-> IF c \in sold THEN "per_session" ELSE "one_time"]
<1>1. /\ Holds(m, read) /\ saleChanges + SumFunction(overlaps) < MaxTrouble
      /\ saleChanges' = saleChanges + 1 /\ modeChanges' = modeChanges
  BY DEF ReadSale
<1>2. read \in Change /\ read.found = None
  BY DEF Change
<1>3. modeChanges' \in 0..MaxModeChanges /\ saleChanges' \in 0..MaxTrouble
  <2>1. TypeOK
    BY DEF IInv
  <2>2. SessionIds # {} => SumFunction(overlaps) \in Nat
    BY <2>1, OverlapsFit
  <2>3. SessionIds = {} => SumFunction(overlaps) = 0
    BY <2>1, SumEmpty DEF SumFunction, TypeOK
  <2> QED
    BY <1>1, <2>1, <2>2, <2>3, ChargeAssumption DEF TypeOK
<1> HIDE DEF read
<1> QED
  BY <1>1, <1>2, <1>3, HoldsKeeps

LEMMA CountPaidKeeps ==
  ASSUME IInv, NEW m \in Managers, CountPaid(m)
  PROVE  IInv'
<1> DEFINE read == [change[m] EXCEPT !.found = {}]
<1>1. /\ change[m] # None /\ Holds(m, read)
      /\ modeChanges' = modeChanges /\ saleChanges' = saleChanges
  BY DEF CountPaid, Uncounted
<1>2. read \in Change /\ read.found = {}
  BY <1>1 DEF IInv, TypeOK, Change
<1>3. modeChanges' \in 0..MaxModeChanges /\ saleChanges' \in 0..MaxTrouble
  BY <1>1 DEF IInv, TypeOK
<1> HIDE DEF read
<1> QED
  BY <1>1, <1>2, <1>3, HoldsKeeps

\* A class that becomes one_time and is not raced was charged by nobody, neither when
\* the course counted nor since, and no call is at it.
LEMMA BecomesOneTime ==
  ASSUME IInv, NEW m \in Managers, UpdateSaleMode(m)
  PROVE  /\ raced \subseteq raced' /\ raced' \subseteq Classes
         /\ \A d \in oneTime' \ raced' :
              \/ d \in oneTime \ raced
              \/ /\ Charged(d, None) = {}
                 /\ \A k \in Calls : job[k].op \in {"create", "edit"} => NextClass(job[k]) # d
<1> DEFINE c == change[m].class
           once == change[m].to = "one_time"
           AtClass(k) == job[k].op \in {"create", "edit"} /\ NextClass(job[k]) = c
<1>1. /\ change[m] # None /\ (once => change[m].found # None)
      /\ oneTime' = IF once THEN oneTime \cup {c} ELSE oneTime \ {c}
      /\ raced' = raced \cup {d \in {c} : /\ once /\ c \notin oneTime
                                        /\ \/ Charged(c, None) # change[m].found
                                           \/ \E k \in Calls : AtClass(k)}
  BY DEF UpdateSaleMode, Uncounted
<1>2. c \in Classes /\ raced \subseteq Classes
  BY <1>1 DEF IInv, TypeOK, Change
<1>3. once => change[m].found = {}
  BY <1>1 DEF IInv, NobodyFound
<1> HIDE DEF c, once
<1>4. raced \subseteq raced' /\ raced' \subseteq Classes
  BY <1>1, <1>2
<1>5. ASSUME NEW d \in oneTime' \ raced', d \notin oneTime \ raced
      PROVE  /\ Charged(d, None) = {}
             /\ \A k \in Calls : job[k].op \in {"create", "edit"} => NextClass(job[k]) # d
  <2>1. d = c /\ once /\ c \notin oneTime /\ c \notin raced'
    BY <1>1, <1>4, <1>5
  <2>2. Charged(c, None) = change[m].found /\ ~ \E k \in Calls : AtClass(k)
    BY <1>1, <2>1
  <2> QED
    BY <1>3, <2>1, <2>2
<1> QED
  BY <1>4, <1>5

\* A class enters or leaves the one_time mode; the invariant speaks of it then only if
\* nobody is charged and no call is at it.
LEMMA SaleModeKeeps ==
  ASSUME IInv, NEW m \in Managers, UpdateSaleMode(m)
  PROVE  IInv'
<1> DEFINE c == change[m].class
           once == change[m].to = "one_time"
<1>1. /\ change[m] # None /\ change' = [change EXCEPT ![m] = None]
      /\ sold' = IF once THEN sold \cup {c} ELSE sold \ {c}
      /\ oneTime' = IF once THEN oneTime \cup {c} ELSE oneTime \ {c}
      /\ perBlock' = perBlock \ {c}
      /\ UNCHANGED <<sessions, net, balance, pc, job, overlaps, unlinked, modeChanges, saleChanges>>
  BY DEF UpdateSaleMode
<1>2. TypeOK /\ c \in Classes
  BY <1>1 DEF IInv, TypeOK, Change
<1> HIDE DEF c, once
<1>3. TypeOK'
  <2>1. /\ oneTime' \subseteq Classes /\ perBlock' \subseteq Classes \ oneTime'
        /\ sold' \subseteq Classes /\ raced' \subseteq Classes
    BY <1>1, <1>2, BecomesOneTime DEF TypeOK
  <2>2. change' \in [Managers -> Change \cup {None}]
    BY <1>1, <1>2 DEF TypeOK
  <2> QED
    BY <1>1, <1>2, <2>1, <2>2 DEF TypeOK, Busy
<1>4. ASSUME NEW k \in Calls
      PROVE  CallOK(k, job[k])' /\ ReadStands(k, job[k])' /\ PackagePriced(k, job[k])'
  <2>1. CallOK(k, job[k]) /\ ReadStands(k, job[k]) /\ PackagePriced(k, job[k])
    BY DEF IInv
  <2>2. CallOK(k, job[k])'
    BY <1>1, <2>1 DEF CallOK, Busy
  <2>3. ReadStands(k, job[k])'
    BY <1>1, <2>1 DEF ReadStands, Busy
  <2>4. PackagePriced(k, job[k])'
    <3>1. ASSUME job[k].op \in {"create", "edit"}, NextClass(job[k]) \in oneTime' \ raced'
          PROVE  NextClass(job[k]) \in oneTime \ raced
      BY <3>1, BecomesOneTime
    <3>2. job' = job /\ pc' = pc
      BY <1>1
    <3> QED
      BY <2>1, <3>1, <3>2 DEF PackagePriced, NextClass, Paid
  <2> QED
    BY <2>2, <2>3, <2>4
<1>5. PaidRowIsPackage'
  <2> SUFFICES ASSUME NEW d \in oneTime' \ raced', NEW s \in Students, NEW x \in SessionIds,
                      sessions[x].class = d, Paid(sessions[x].rows[s])
               PROVE  sessions[x].rows[s].fee \in Overrides \cup {Package[d]}
    BY <1>1 DEF PaidRowIsPackage, PaidIn, Paid
  <2>1. CASE d \in oneTime \ raced
    BY <2>1 DEF IInv, PaidRowIsPackage, PaidIn
  <2>2. CASE Charged(d, None) = {}
    <3>1. x \in SessionIds \ {None}
      BY ChargeAssumption
    <3>2. s \in Charged(d, None)
      BY <3>1 DEF Charged, Paid
    <3> QED
      BY <2>2, <3>2
  <2> QED
    BY <2>1, <2>2, BecomesOneTime
<1>6. NewSessions' /\ NobodyFound' /\ WalletFollowsAttendance'
  <2>1. NobodyFound'
    BY <1>1, <1>2 DEF IInv, NobodyFound, TypeOK
  <2> QED
    BY <1>1, <2>1 DEF IInv, NewSessions, WalletFollowsAttendance, Fee
<1> QED
  BY <1>3, <1>4, <1>5, <1>6 DEF IInv
-----------------------------------------------------------------------------
(* The invariant. *)

\* A sum of zeros is zero.
LEMMA SumZero ==
  ASSUME NEW S, IsFiniteSet(S), NEW f, DOMAIN f = S, \A x \in S : f[x] = 0
  PROVE  SumFunction(f) = 0
<1>1. SumFunction(f) = SumFunctionOnSet(f, S)
  BY DEF SumFunction
<1>2. \A x \in S : f[x] \in Int /\ f[x] = f[x] + f[x]
  OBVIOUS
<1>3. SumFunctionOnSet(f, S) = SumFunctionOnSet(f, S) + SumFunctionOnSet(f, S)
  <2>1. \A x \in S : f[x] \in Int /\ f[x] \in Int /\ f[x] = f[x] + f[x]
    BY <1>2
  <2> QED
    BY <2>1, SumPlus
<1>4. SumFunctionOnSet(f, S) \in Int
  BY <1>2, SumType
<1>5. ASSUME NEW n \in Int, n = n + n PROVE n = 0
  BY <1>5
<1> QED
  BY <1>1, <1>3, <1>4, <1>5

LEMMA InitHolds == Init => IInv
<1> SUFFICES ASSUME Init PROVE IInv
  OBVIOUS
<1>1. /\ sessions = [x \in SessionIds |-> NoSession] /\ pc = [k \in Calls |-> "idle"]
      /\ job = [k \in Calls |-> NoJob] /\ overlaps = [x \in SessionIds |-> 0]
      /\ net = [x \in SessionIds |-> [s \in Students |-> 0]]
      /\ unlinked = [x \in SessionIds |-> [s \in Students |-> 0]]
      /\ balance = [s \in Students |-> 0]
      /\ perBlock = {} /\ oneTime = SoldOnce /\ raced = {} /\ sold = SoldOnce
      /\ change = [m \in Managers |-> None] /\ modeChanges = 0 /\ saleChanges = 0
  BY DEF Init
<1>2. TypeOK
  <2>1. sessions \in [SessionIds -> Session] /\ job \in [Calls -> Job]
    BY <1>1, StartTypes
  <2>2. pc \in [Calls -> Labels] /\ \A k \in Calls : Busy(k) <=> job[k] # NoJob
    BY <1>1 DEF Labels, Busy
  <2>3. /\ overlaps \in [SessionIds -> 0..MaxTrouble] /\ modeChanges \in 0..MaxModeChanges
        /\ saleChanges \in 0..MaxTrouble /\ change \in [Managers -> Change \cup {None}]
    BY <1>1, ChargeAssumption
  <2> QED
    BY <1>1, <2>1, <2>2, <2>3, ChargeAssumption DEF TypeOK
<1>3. ASSUME NEW k \in Calls
      PROVE  CallOK(k, job[k]) /\ ReadStands(k, job[k]) /\ PackagePriced(k, job[k])
  BY <1>1 DEF CallOK, ReadStands, PackagePriced, Busy, NoJob
<1>4. NewSessions /\ NobodyFound
  BY <1>1 DEF NewSessions, NobodyFound
<1>5. \A x \in SessionIds : \A s \in Students : sessions[x].rows[s] = None
  BY <1>1 DEF NoSession
<1>6. PaidRowIsPackage
  BY <1>5 DEF PaidRowIsPackage, PaidIn, Paid
<1>7. WalletFollowsAttendance
  <2>1. \A x \in SessionIds, s \in Students : net[x][s] + unlinked[x][s] = 0
    BY <1>1
  <2>2. ASSUME NEW s \in Students
        PROVE  balance[s] = 0 - SumFunction([x \in SessionIds |-> net[x][s] + unlinked[x][s]])
    <3> DEFINE f == [x \in SessionIds |-> net[x][s] + unlinked[x][s]]
    <3>1. DOMAIN f = SessionIds /\ \A x \in SessionIds : f[x] = 0
      BY <2>1
    <3>2. IsFiniteSet(SessionIds) /\ balance[s] = 0
      BY <1>1, ChargeAssumption
    <3> HIDE DEF f
    <3>3. SumFunction(f) = 0
      BY <3>1, <3>2, SumZero
    <3>4. balance[s] = 0 - SumFunction(f)
      BY <3>2, <3>3
    <3> QED
      BY <3>4 DEF f
  <2>3. \A x \in SessionIds, s \in Students :
          overlaps[x] = 0 => net[x][s] + unlinked[x][s] = Fee(sessions[x].rows, s)
    BY <1>5, <2>1 DEF Fee
  <2> QED
    BY <2>2, <2>3, Zenon DEF WalletFollowsAttendance
<1> QED
  BY <1>2, <1>3, <1>4, <1>6, <1>7 DEF IInv

\* The inductive invariant: what every call holds, the wallets and the prices.
THEOREM Invariance == Spec => []IInv
<1>1. IInv /\ [Next]_vars => IInv'
  <2> SUFFICES ASSUME IInv, [Next]_vars PROVE IInv'
    OBVIOUS
  <2>1. CASE UNCHANGED vars
    <3>1. UNCHANGED <<sessions, net, balance, pc, job, overlaps, perBlock, oneTime, raced, unlinked,
                      sold, change, modeChanges, saleChanges>>
      BY <2>1 DEF vars, modes
    <3>2. TypeOK' /\ NewSessions' /\ NobodyFound'
      BY <3>1 DEF IInv, TypeOK, Busy, NewSessions, NobodyFound
    <3>3. ASSUME NEW k \in Calls
          PROVE  CallOK(k, job[k])' /\ ReadStands(k, job[k])' /\ PackagePriced(k, job[k])'
      <4>1. CallOK(k, job[k]) /\ ReadStands(k, job[k]) /\ PackagePriced(k, job[k])
        BY DEF IInv
      <4>2. CallOK(k, job[k])'
        BY <3>1, <4>1 DEF CallOK, Busy
      <4>3. ReadStands(k, job[k])'
        BY <3>1, <4>1 DEF ReadStands, Busy
      <4>4. PackagePriced(k, job[k])'
        BY <3>1, <4>1, PricedStays
      <4> QED
        BY <4>2, <4>3, <4>4
    <3>4. WalletFollowsAttendance'
      BY <3>1 DEF IInv, WalletFollowsAttendance, Fee
    <3>5. PaidRowIsPackage'
      BY <3>1 DEF IInv, PaidRowIsPackage, PaidIn, Paid
    <3> QED
      BY <3>2, <3>3, <3>4, <3>5 DEF IInv
  <2>2. CASE Next
    <3>1. ASSUME NEW m \in Managers, NEW frozen, UpdatePricingMode(m, frozen) PROVE IInv'
      BY <3>1, PricingModeKeeps
    <3>2. ASSUME NEW m \in Managers, UpdateSaleMode(m) PROVE IInv'
      BY <3>2, SaleModeKeeps
    <3>11. ASSUME NEW m \in Managers, NEW c \in Classes, ReadMode(m, c) PROVE IInv'
      BY <3>11, ReadModeKeeps
    <3>12. ASSUME NEW m \in Managers, NEW c \in Classes, ReadSale(m, c) PROVE IInv'
      BY <3>12, ReadSaleKeeps
    <3>13. ASSUME NEW m \in Managers, CountPaid(m) PROVE IInv'
      BY <3>13, CountPaidKeeps
    <3>3. ASSUME NEW k \in Calls, NEW x \in SessionIds, NEW c \in Classes,
                 NEW att \in Attendance, Create(k, x, c, att)
          PROVE  IInv'
      BY <3>3, CreateKeeps
    <3>4. ASSUME NEW k \in Calls, NEW x \in SessionIds, NEW c \in Classes \cup {None},
                 NEW att \in Attendance \cup {None}, Edit(k, x, c, att)
          PROVE  IInv'
      BY <3>4, EditKeeps
    <3>5. ASSUME NEW k \in Calls, NEW x \in SessionIds, Delete(k, x) PROVE IInv'
      BY <3>5, DeleteKeeps
    <3>6. ASSUME NEW k \in Calls, LookUp(k) PROVE IInv'
      BY <3>6, LookUpKeeps
    <3>7. ASSUME NEW k \in Calls, CommitCreate(k) PROVE IInv'
      BY <3>7, CommitCreateKeeps
    <3>8. ASSUME NEW k \in Calls, CommitEdit(k) PROVE IInv'
      BY <3>8, CommitEditKeeps
    <3>9. ASSUME NEW k \in Calls, CommitDelete(k) PROVE IInv'
      BY <3>9, CommitDeleteKeeps
    <3>10. ASSUME NEW k \in Calls, Abort(k) PROVE IInv'
      BY <3>10, AbortKeeps
    <3> QED
      BY <2>2, <3>1, <3>2, <3>3, <3>4, <3>5, <3>6, <3>7, <3>8, <3>9, <3>10,
         <3>11, <3>12, <3>13 DEF Next
  <2> QED
    BY <2>1, <2>2
<1> QED
  BY InitHolds, <1>1, PTL DEF Spec

\* Every variable keeps its type, and an idle call holds neither a job nor a lock.
THEOREM TypeCorrect == Spec => []TypeOK
<1>1. IInv => TypeOK
  BY DEF IInv
<1> QED
  BY <1>1, Invariance, PTL

\* Wallet rows and balances are what the attendance of the sessions says, for any
\* number of sessions, students and calls, unless calls have overlapped on a session.
THEOREM WalletIsAttendance == Spec => []WalletFollowsAttendance
<1>1. IInv => WalletFollowsAttendance
  BY DEF IInv
<1> QED
  BY <1>1, Invariance, PTL

\* What is paid in a one_time class is the package or a fee set by hand.
THEOREM PackageIsPaid == Spec => []PaidRowIsPackage
<1>1. IInv => PaidRowIsPackage
  BY DEF IInv
<1> QED
  BY <1>1, Invariance, PTL
-----------------------------------------------------------------------------
(* The package is paid once. *)

\* An action that leaves sessions and modes alone, after which the call k has no
\* lock and is not about to write rows.
LEMMA SaleUntouched ==
  ASSUME IInv, SaleInv, NEW k \in Calls,
         UNCHANGED <<sessions, oneTime, raced>>,
         job'[k].lock = None, pc'[k] = "write" => job'[k].op \notin {"create", "edit"},
         \A v \in Calls \ {k} : pc'[v] = pc[v] /\ job'[v] = job[v]
  PROVE  SaleInv'
<1>1. OneHolder'
  BY DEF SaleInv, OneHolder
<1>2. ASSUME NEW v \in Calls PROVE LookupStands(v, job[v])'
  <2>1. CASE v = k
    BY <2>1 DEF LookupStands
  <2>2. CASE v # k
    <3>1. LookupStands(v, job[v])
      BY DEF SaleInv
    <3> QED
      BY <2>2, <3>1, LookupStays
  <2> QED
    BY <2>1, <2>2
<1>3. OnePaidRowPerPackage'
  BY DEF SaleInv, OnePaidRowPerPackage, PaidIn, Paid
<1> QED
  BY <1>1, <1>2, <1>3 DEF SaleInv

\* The lookup finds, under the lock, who has paid the package elsewhere.
LEMMA LookUpFinds ==
  ASSUME IInv, SaleInv, NEW k \in Calls, LookUp(k)
  PROVE  SaleInv'
<1> DEFINE j == job[k]
           c == NextClass(j)
           l == job'[k]
<1>1. /\ pc[k] = "lookup" /\ pc' = [pc EXCEPT ![k] = "write"]
      /\ UNCHANGED <<sessions, oneTime, raced>>
      /\ j \in Job /\ CallOK(k, j) /\ TypeOK
  BY DEF LookUp, modes, IInv, TypeOK
<1>2. \A v \in Calls \ {k} : pc'[v] = pc[v] /\ job'[v] = job[v]
  BY <1>1 DEF LookUp, TypeOK
<1>3. /\ l.op = j.op /\ l.x = j.x /\ l.cls = j.cls /\ l.att = j.att /\ l.old = j.old
      /\ l.oneTime = j.oneTime
      /\ IF TakesLock(j)
         THEN LockFree(c) /\ l.lock = c /\ l.charged = Charged(c, j.x)
         ELSE l.lock = j.lock /\ l.charged = j.charged
  <2>1. job \in [Calls -> Job]
    BY <1>1 DEF TypeOK
  <2>2. PICK price : /\ TakesLock(j) =>
                          /\ LockFree(c)
                          /\ job' = [job EXCEPT ![k].price = price, ![k].lock = c,
                                                ![k].charged = Charged(c, j.x)]
                     /\ ~TakesLock(j) => job' = [job EXCEPT ![k].price = price]
    BY DEF LookUp
  <2>3. CASE TakesLock(j)
    <3>1. l = [j EXCEPT !.price = price, !.lock = c, !.charged = Charged(c, j.x)]
      BY <2>1, <2>2, <2>3
    <3> HIDE DEF l, c
    <3> QED
      BY <1>1, <2>2, <2>3, <3>1 DEF Job
  <2>4. CASE ~TakesLock(j)
    <3>1. l = [j EXCEPT !.price = price]
      BY <2>1, <2>2, <2>4
    <3> HIDE DEF l, c
    <3> QED
      BY <1>1, <2>4, <3>1 DEF Job
  <2> QED
    BY <2>3, <2>4
<1>4. j.lock = None /\ j.charged = {} /\ j.op \in {"create", "edit"} /\ c \in Classes /\ Busy(k)
  BY <1>1, NextClassType DEF CallOK, Job, Busy
<1>5. NextClass(l) = c /\ Source(l) = Source(j)
  BY <1>3 DEF NextClass, Source
<1>6. j.x \in SessionIds
  BY <1>1, <1>4 DEF CallOK
<1> HIDE DEF j, l
<1>7. OneHolder'
  <2> SUFFICES ASSUME NEW v \in Calls, NEW w \in Calls, job'[v].lock # None,
                      job'[v].lock = job'[w].lock, v # w
               PROVE  FALSE
    BY DEF OneHolder
  <2>1. \A u \in Calls \ {k} : l.lock # None => job[u].lock # l.lock
    BY <1>3, <1>4 DEF LockFree
  <2>2. v # k /\ w # k
    BY <1>2, <2>1 DEF l
  <2> QED
    BY <1>2, <2>2 DEF SaleInv, OneHolder
<1>8. ASSUME NEW v \in Calls PROVE LookupStands(v, job[v])'
  <2>1. CASE v = k
    <3> HIDE DEF c
    <3> SUFFICES ASSUME j.oneTime, c \in oneTime \ raced
                 PROVE  /\ l.lock = c \/ (Listed(Source(j)) = {} /\ l.charged = {})
                        /\ l.lock = c => \A s \in Students \ l.charged, y \in SessionIds \ {j.x} :
                             ~(sessions[y].class = c /\ PaidIn(y, s))
                        /\ \A s \in l.charged : ~(sessions[j.x].class = c /\ PaidIn(j.x, s))
      BY <1>1, <1>3, <1>5, <2>1 DEF LookupStands, PaidIn, Paid, l
    <3>1. CASE TakesLock(j)
      <4>1. l.lock = c /\ l.charged = Charged(c, j.x)
        BY <1>3, <3>1
      <4>2. \A s \in Students, y \in SessionIds \ {j.x} :
              sessions[y].class = c /\ PaidIn(y, s) => s \in Charged(c, j.x)
        BY DEF Charged, PaidIn, Paid
      <4>3. ASSUME NEW s \in Charged(c, j.x), sessions[j.x].class = c, PaidIn(j.x, s)
            PROVE  FALSE
        <5>1. PICK y \in SessionIds \ {j.x} : sessions[y].class = c /\ PaidIn(y, s)
          BY DEF Charged, PaidIn, Paid
        <5>2. s \in Students
          BY DEF Charged
        <5> QED
          BY <1>6, <4>3, <5>1, <5>2 DEF SaleInv, OnePaidRowPerPackage
      <4> QED
        BY <4>1, <4>2, <4>3
    <3>2. CASE ~TakesLock(j)
      <4>1. Listed(Source(j)) = {} /\ l.lock = None /\ l.charged = {}
        BY <1>3, <1>4, <3>2 DEF TakesLock
      <4> QED
        BY <1>4, <4>1, ChargeAssumption
    <3> QED
      BY <3>1, <3>2
  <2>2. CASE v # k
    <3>1. LookupStands(v, job[v])
      BY DEF SaleInv
    <3> QED
      BY <1>1, <1>2, <2>2, <3>1, LookupStays
  <2> QED
    BY <2>1, <2>2
<1>9. OnePaidRowPerPackage'
  BY <1>1 DEF SaleInv, OnePaidRowPerPackage, PaidIn, Paid
<1> QED
  BY <1>7, <1>8, <1>9 DEF SaleInv

\* A paid row that a commit leaves in a one_time class was there, or the call has
\* the lock of the class and has found that the student has not paid elsewhere.
Rightful(k, x, c, s) ==
  \/ sessions[x].class = c /\ PaidIn(x, s)
  \/ /\ job[k].op \in {"create", "edit"} /\ NextClass(job[k]) = c /\ job[k].oneTime
     /\ job[k].lock = c /\ s \notin job[k].charged

\* A row that is written to be paid: its call has the lock.
LEMMA NewRowRightful ==
  ASSUME SaleInv, NEW k \in Calls, NEW x, job[k] \in Job, pc[k] = "write",
         job[k].op \in {"create", "edit"}, job[k].oneTime,
         NEW c \in oneTime \ raced, NextClass(job[k]) = c,
         NEW s \in Students, Paid(NewRow(job[k], s))
  PROVE  Rightful(k, x, c, s)
<1> DEFINE j == job[k]
           item == Source(j)[s]
<1>1. /\ item # None /\ NewRow(j, s).fee = Resolved(item, s \in j.charged, j.price)
      /\ NewRow(j, s).fee > 0
  BY DEF Paid, NewRow
<1>2. s \notin j.charged
  <2> SUFFICES ASSUME s \in j.charged PROVE FALSE
    OBVIOUS
  <2>1. NewRow(j, s).fee = 0
    BY <1>1 DEF Resolved
  <2> QED
    BY <1>1, <2>1
<1>3. s \in Listed(Source(j))
  BY <1>1 DEF Listed
<1>4. j.lock = c
  BY <1>3 DEF SaleInv, LookupStands
<1> QED
  BY <1>2, <1>4 DEF Rightful

\* Commits whose paid rows are rightful keep the package paid once.
LEMMA SaleCommit ==
  ASSUME IInv, SaleInv, NEW k \in Calls, NEW x \in SessionIds, x = job[k].x,
         pc[k] = "write", Finish(k),
         \A y \in SessionIds \ {x} : sessions'[y] = sessions[y],
         oneTime' = oneTime, raced \subseteq raced',
         \A c \in oneTime \ raced', s \in Students :
           sessions'[x].class = c /\ Paid(sessions'[x].rows[s]) => Rightful(k, x, c, s)
  PROVE  SaleInv'
<1>1. /\ pc' = [pc EXCEPT ![k] = "idle"] /\ job'[k] = NoJob
      /\ \A v \in Calls \ {k} :
           /\ pc'[v] = pc[v]
           /\ job'[v].op = job[v].op /\ job'[v].x = job[v].x /\ job'[v].cls = job[v].cls
           /\ job'[v].att = job[v].att /\ job'[v].old = job[v].old
           /\ job'[v].oneTime = job[v].oneTime
           /\ job'[v].charged = job[v].charged /\ job'[v].lock = job[v].lock
  BY Finished DEF IInv
<1>2. job'[k].lock = None /\ job'[k].op = "none"
  BY <1>1 DEF NoJob
<1>3. OneHolder'
  BY <1>1, <1>2 DEF SaleInv, OneHolder
<1>4. ASSUME NEW c \in oneTime \ raced', NEW s \in Students, NEW y \in SessionIds,
             sessions'[y].class = c, Paid(sessions'[y].rows[s])
      PROVE  \/ sessions[y].class = c /\ PaidIn(y, s)
             \/ y = x /\ Rightful(k, x, c, s)
  BY <1>4 DEF PaidIn
<1>5. ASSUME NEW v \in Calls PROVE LookupStands(v, job[v])'
  <2>1. CASE v = k
    BY <1>2, <2>1 DEF LookupStands
  <2>2. CASE v # k
    <3> DEFINE j == job[v]
               c == NextClass(j)
    <3>1. /\ NextClass(job[v])' = c /\ Source(job[v])' = Source(j)
          /\ pc'[v] = pc[v] /\ job'[v].op = j.op /\ job'[v].x = j.x /\ job'[v].oneTime = j.oneTime
          /\ job'[v].charged = j.charged /\ job'[v].lock = j.lock
      BY <1>1, <2>2 DEF NextClass, Source
    <3> HIDE DEF c
    <3> SUFFICES ASSUME pc[v] = "write", j.op \in {"create", "edit"}, j.oneTime,
                        c \in oneTime \ raced'
                 PROVE  /\ j.lock = c \/ (Listed(Source(j)) = {} /\ j.charged = {})
                        /\ j.lock = c =>
                             \A s \in Students \ j.charged, y \in SessionIds \ {j.x} :
                               ~(sessions'[y].class = c /\ Paid(sessions'[y].rows[s]))
                        /\ \A s \in j.charged :
                             ~(sessions'[j.x].class = c /\ Paid(sessions'[j.x].rows[s]))
      BY <3>1 DEF LookupStands, PaidIn, Paid, Listed
    <3>2. /\ j.lock = c \/ (Listed(Source(j)) = {} /\ j.charged = {})
          /\ j.lock = c => \A s \in Students \ j.charged, y \in SessionIds \ {j.x} :
                             ~(sessions[y].class = c /\ PaidIn(y, s))
          /\ \A s \in j.charged : ~(sessions[j.x].class = c /\ PaidIn(j.x, s))
      BY DEF SaleInv, LookupStands, c
    <3>3. /\ c \in oneTime \ raced' /\ c # None
          /\ j \in Job /\ j.x \in SessionIds
      BY ChargeAssumption DEF IInv, TypeOK, CallOK, Busy
    <3>4. j.lock = c => \A s \in Students : Rightful(k, x, c, s) =>
                           sessions[x].class = c /\ PaidIn(x, s)
      BY <2>2, <3>3 DEF Rightful, SaleInv, OneHolder
    <3>5. ASSUME j.lock = c, NEW s \in Students \ j.charged, NEW y \in SessionIds \ {j.x},
                 sessions'[y].class = c, Paid(sessions'[y].rows[s])
          PROVE  FALSE
      BY <1>4, <3>2, <3>3, <3>4, <3>5
    <3>6. ASSUME NEW s \in j.charged, sessions'[j.x].class = c, Paid(sessions'[j.x].rows[s])
          PROVE  FALSE
      <4>1. j.lock = c /\ s \in Students
        BY <3>2, <3>3 DEF Job
      <4> QED
        BY <1>4, <3>2, <3>3, <3>4, <3>6, <4>1
    <3> QED
      BY <3>2, <3>5, <3>6
  <2> QED
    BY <2>1, <2>2
<1>6. OnePaidRowPerPackage'
  <2> SUFFICES ASSUME NEW c \in oneTime \ raced', NEW s \in Students,
                      NEW y \in SessionIds, NEW z \in SessionIds, y # z,
                      sessions'[y].class = c, Paid(sessions'[y].rows[s]),
                      sessions'[z].class = c, Paid(sessions'[z].rows[s])
               PROVE  FALSE
    BY DEF OnePaidRowPerPackage, PaidIn, Paid
  <2>1. ASSUME NEW a \in SessionIds, sessions[a].class = c, PaidIn(a, s), a # x,
               Rightful(k, x, c, s)
        PROVE  sessions[x].class = c /\ PaidIn(x, s)
    BY <2>1 DEF Rightful, SaleInv, LookupStands
  <2>2. (sessions[y].class = c /\ PaidIn(y, s)) \/ (y = x /\ Rightful(k, x, c, s))
    BY <1>4
  <2>3. (sessions[z].class = c /\ PaidIn(z, s)) \/ (z = x /\ Rightful(k, x, c, s))
    BY <1>4
  <2>4. sessions[y].class = c /\ PaidIn(y, s) /\ sessions[z].class = c /\ PaidIn(z, s)
    BY <2>1, <2>2, <2>3
  <2> QED
    BY <2>4 DEF SaleInv, OnePaidRowPerPackage
<1> QED
  BY <1>3, <1>5, <1>6 DEF SaleInv

LEMMA CommitCreateSale ==
  ASSUME IInv, SaleInv, NEW k \in Calls, CommitCreate(k)
  PROVE  SaleInv'
<1> DEFINE j == job[k]
           x == j.x
<1>1. /\ pc[k] = "write" /\ j.op = "create" /\ Finish(k)
      /\ sessions' = [sessions EXCEPT ![x] = [class |-> j.cls, rows |-> NewRows(j)]]
      /\ oneTime' = oneTime /\ raced' = raced
  BY DEF CommitCreate, modes
<1>2. Busy(k) /\ j \in Job /\ CallOK(k, j) /\ TypeOK
  BY <1>1 DEF Busy, IInv, TypeOK
<1>3. x \in SessionIds /\ j.cls \in Classes /\ NextClass(j) = j.cls
  BY <1>1, <1>2, ChargeAssumption DEF CallOK, NextClass
<1>4. /\ sessions'[x] = [class |-> j.cls, rows |-> NewRows(j)]
      /\ \A y \in SessionIds \ {x} : sessions'[y] = sessions[y]
  BY <1>1, <1>2, <1>3 DEF TypeOK
<1>5. ASSUME NEW c \in oneTime \ raced', NEW s \in Students,
             sessions'[x].class = c, Paid(sessions'[x].rows[s])
      PROVE  Rightful(k, x, c, s)
  <2>1. NextClass(j) = c /\ Paid(NewRow(j, s)) /\ c \in oneTime \ raced
    BY <1>1, <1>3, <1>4, <1>5 DEF NewRows
  <2>2. j.oneTime
    BY <1>1, <2>1 DEF IInv, PackagePriced
  <2> HIDE DEF x
  <2> QED
    BY <1>1, <1>2, <2>1, <2>2, NewRowRightful
<1>6. x = job[k].x
  OBVIOUS
<1> HIDE DEF j, x
<1> QED
  BY <1>1, <1>3, <1>4, <1>5, <1>6, SaleCommit

LEMMA CommitEditSale ==
  ASSUME IInv, SaleInv, NEW k \in Calls, CommitEdit(k), NoMoveIn
  PROVE  SaleInv'
<1> DEFINE j == job[k]
           x == j.x
<1>1. /\ pc[k] = "write" /\ j.op = "edit" /\ Finish(k) /\ oneTime' = oneTime
      /\ raced \subseteq raced'
  BY DEF CommitEdit
<1>2. Busy(k) /\ j \in Job /\ CallOK(k, j) /\ TypeOK
  BY <1>1 DEF Busy, IInv, TypeOK
<1>3. x \in SessionIds
  BY <1>2 DEF CallOK
<1>4. \A y \in SessionIds \ {x} : sessions'[y] = sessions[y]
  <2>1. PICK new : sessions' = [sessions EXCEPT ![x] = new]
    BY DEF CommitEdit
  <2> QED
    BY <1>2, <2>1 DEF TypeOK
<1>5. ASSUME NEW c \in oneTime \ raced', NEW s \in Students,
             sessions'[x].class = c, Paid(sessions'[x].rows[s])
      PROVE  Rightful(k, x, c, s)
  <2>1. /\ NextClass(j) = c
        /\ \/ sessions'[x].rows[s] = NewRow(j, s)
           \/ sessions[x].class = c /\ sessions'[x].rows[s] = sessions[x].rows[s]
    BY <1>5, EditLands
  <2>2. CASE sessions[x].class = c /\ sessions'[x].rows[s] = sessions[x].rows[s]
    BY <1>5, <2>2 DEF Rightful, PaidIn
  <2>3. CASE sessions'[x].rows[s] = NewRow(j, s)
    <3>1. c \in oneTime \ raced /\ Paid(NewRow(j, s))
      BY <1>1, <1>5, <2>3
    <3>2. j.oneTime
      <4>1. CASE j.old.class = c
        BY <1>1, <2>1, <3>1, <4>1 DEF IInv, PackagePriced
      <4>2. CASE j.old.class # c
        BY <2>1, <3>1, <4>2 DEF NoMoveIn
      <4> QED
        BY <4>1, <4>2
    <3> HIDE DEF x
    <3> QED
      BY <1>1, <1>2, <2>1, <3>1, <3>2, NewRowRightful
  <2> QED
    BY <2>1, <2>2, <2>3
<1>6. x = job[k].x
  OBVIOUS
<1> HIDE DEF j, x
<1> QED
  BY <1>1, <1>3, <1>4, <1>5, <1>6, SaleCommit

LEMMA CommitDeleteSale ==
  ASSUME IInv, SaleInv, NEW k \in Calls, CommitDelete(k)
  PROVE  SaleInv'
<1> DEFINE x == job[k].x
<1>1. /\ pc[k] = "write" /\ job[k].op = "delete" /\ Finish(k)
      /\ sessions' = [sessions EXCEPT ![x] = GoneSession]
      /\ oneTime' = oneTime /\ raced' = raced
  BY DEF CommitDelete, modes
<1>2. x \in SessionIds /\ TypeOK
  BY <1>1 DEF Busy, IInv, CallOK
<1>3. sessions'[x] = GoneSession /\ \A y \in SessionIds \ {x} : sessions'[y] = sessions[y]
  BY <1>1, <1>2 DEF TypeOK
<1>4. \A c \in oneTime \ raced' : sessions'[x].class # c
  BY <1>2, <1>3, ChargeAssumption DEF GoneSession, NoSession, TypeOK
<1> HIDE DEF x
<1>5. x = job[k].x
  BY DEF x
<1> QED
  BY <1>1, <1>2, <1>3, <1>4, <1>5, SaleCommit

\* A change of prices does not touch the one_time classes.
LEMMA PricingModeSale ==
  ASSUME IInv, SaleInv, NEW m \in Managers, NEW frozen, UpdatePricingMode(m, frozen)
  PROVE  SaleInv'
<1> DEFINE c == change[m].class
<1>1. /\ oneTime' = oneTime \ {c} /\ UNCHANGED <<raced, pc, job>>
      /\ \A x \in SessionIds : sessions'[x].class = sessions[x].class
      /\ \A x \in SessionIds : sessions[x].class # c => sessions'[x] = sessions[x]
  <2> DEFINE repriced == {x \in SessionIds : sessions[x].class = c} \ frozen
             next == IF change[m].to = "per_block" THEN perBlock \cup {c} ELSE perBlock \ {c}
             price == IF c \in next THEN BlockPrice[c] ELSE Price[c]
             H(x, s) == Hit(repriced, x, s)
  <2>1. /\ oneTime' = oneTime \ {c} /\ UNCHANGED <<raced, pc, job>>
        /\ sessions' = [x \in SessionIds |-> [sessions[x] EXCEPT !.rows =
             [s \in Students |-> IF H(x, s) THEN [@[s] EXCEPT !.fee = price] ELSE @[s]]]]
    BY DEF UpdatePricingMode
  <2>2. ASSUME NEW x \in SessionIds
        PROVE  /\ sessions'[x].class = sessions[x].class
               /\ sessions[x].class # c => sessions'[x] = sessions[x]
    <3>1. sessions[x] \in Session
      BY DEF IInv, TypeOK
    <3>2. sessions'[x] = [sessions[x] EXCEPT !.rows =
             [s \in Students |-> IF H(x, s) THEN [sessions[x].rows[s] EXCEPT !.fee = price]
                                 ELSE sessions[x].rows[s]]]
      BY <2>1, <3>1 DEF Session
    <3>3. ASSUME sessions[x].class # c PROVE sessions'[x] = sessions[x]
      <4>1. \A s \in Students : ~H(x, s)
        BY <3>3 DEF Hit
      <4>2. sessions'[x] = [sessions[x] EXCEPT !.rows = [s \in Students |-> sessions[x].rows[s]]]
        BY <3>2, <4>1
      <4>3. [s \in Students |-> sessions[x].rows[s]] = sessions[x].rows
        BY <3>1 DEF Session
      <4> QED
        BY <3>1, <4>2, <4>3 DEF Session
    <3> HIDE DEF H, price
    <3> QED
      BY <3>1, <3>2, <3>3 DEF Session
  <2> QED
    BY <2>1, <2>2
<1> HIDE DEF c
<1>2. \A x \in SessionIds, d \in oneTime', s \in Students :
        /\ sessions'[x].class = d <=> sessions[x].class = d
        /\ sessions[x].class = d => sessions'[x].rows[s] = sessions[x].rows[s]
  BY <1>1
<1>3. OneHolder'
  BY <1>1 DEF SaleInv, OneHolder
<1>4. ASSUME NEW v \in Calls PROVE LookupStands(v, job[v])'
  <2>1. LookupStands(v, job[v]) /\ (pc[v] = "write" => job[v].x \in SessionIds)
        /\ job[v].charged \subseteq Students
    BY DEF SaleInv, IInv, TypeOK, CallOK, Busy, Job
  <2>2. pc'[v] = pc[v] /\ job'[v] = job[v]
    BY <1>1
  <2> QED
    BY <1>1, <1>2, <2>1, <2>2 DEF LookupStands, PaidIn, Paid
<1>5. OnePaidRowPerPackage'
  BY <1>1, <1>2 DEF SaleInv, OnePaidRowPerPackage, PaidIn, Paid
<1> QED
  BY <1>3, <1>4, <1>5 DEF SaleInv

\* A class becomes one_time: with the lookups of calls and the paid rows at it the
\* invariant is not concerned, unless there are none.
LEMMA SaleModeSale ==
  ASSUME IInv, SaleInv, NEW m \in Managers, UpdateSaleMode(m)
  PROVE  SaleInv'
<1>1. job' = job /\ pc' = pc /\ sessions' = sessions
  BY DEF UpdateSaleMode
<1>2. OneHolder'
  BY <1>1 DEF SaleInv, OneHolder
<1>3. ASSUME NEW v \in Calls PROVE LookupStands(v, job[v])'
  <2>1. LookupStands(v, job[v])
    BY DEF SaleInv
  <2>2. ASSUME job[v].op \in {"create", "edit"}, NextClass(job[v]) \in oneTime' \ raced'
        PROVE  NextClass(job[v]) \in oneTime \ raced
    BY <2>2, BecomesOneTime
  <2> QED
    BY <1>1, <2>1, <2>2 DEF LookupStands, NextClass, Source, Listed, PaidIn, Paid
<1>4. OnePaidRowPerPackage'
  <2> SUFFICES ASSUME NEW d \in oneTime' \ raced', NEW s \in Students,
                      NEW y \in SessionIds, NEW z \in SessionIds,
                      sessions[y].class = d, PaidIn(y, s), sessions[z].class = d, PaidIn(z, s)
               PROVE  y = z
    BY <1>1 DEF OnePaidRowPerPackage, PaidIn, Paid
  <2>1. CASE d \in oneTime \ raced
    BY <2>1 DEF SaleInv, OnePaidRowPerPackage
  <2>2. CASE Charged(d, None) = {}
    <3>1. y \in SessionIds \ {None}
      BY ChargeAssumption
    <3>2. s \in Charged(d, None)
      BY <3>1 DEF Charged, PaidIn, Paid
    <3> QED
      BY <2>2, <3>2
  <2> QED
    BY <2>1, <2>2, BecomesOneTime
<1> QED
  BY <1>2, <1>3, <1>4 DEF SaleInv

\* The invariant of the packages, where no session is moved into a one_time class
\* out of one that is not.
THEOREM PackageInvariance == Spec /\ [][NoMoveIn]_vars => []SaleInv
<1>1. Init => SaleInv
  <2> SUFFICES ASSUME Init PROVE SaleInv
    OBVIOUS
  <2>1. /\ \A k \in Calls : job[k] = NoJob /\ pc[k] = "idle"
        /\ \A x \in SessionIds : \A s \in Students : sessions[x].rows[s] = None
    BY DEF Init, NoSession
  <2>2. OneHolder
    BY <2>1 DEF OneHolder, NoJob
  <2>3. \A k \in Calls : LookupStands(k, job[k])
    BY <2>1 DEF LookupStands
  <2>4. OnePaidRowPerPackage
    BY <2>1 DEF OnePaidRowPerPackage, PaidIn, Paid
  <2> QED
    BY <2>2, <2>3, <2>4 DEF SaleInv
<1>2. IInv /\ SaleInv /\ [Next]_vars /\ [NoMoveIn]_vars => SaleInv'
  <2> SUFFICES ASSUME IInv, SaleInv, [Next]_vars, [NoMoveIn]_vars PROVE SaleInv'
    OBVIOUS
  <2>1. CASE UNCHANGED vars
    <3>1. UNCHANGED <<sessions, pc, job, oneTime, raced>>
      BY <2>1 DEF vars, modes
    <3>2. OneHolder'
      BY <3>1 DEF SaleInv, OneHolder
    <3>3. ASSUME NEW k \in Calls PROVE LookupStands(k, job[k])'
      <4>1. LookupStands(k, job[k])
        BY DEF SaleInv
      <4> QED
        BY <3>1, <4>1, LookupStays
    <3>4. OnePaidRowPerPackage'
      BY <3>1 DEF SaleInv, OnePaidRowPerPackage, PaidIn, Paid
    <3> QED
      BY <3>2, <3>3, <3>4 DEF SaleInv
  <2>2. CASE Next /\ NoMoveIn
    <3>1. ASSUME NEW m \in Managers, NEW frozen, UpdatePricingMode(m, frozen) PROVE SaleInv'
      BY <3>1, PricingModeSale
    <3>2. ASSUME NEW m \in Managers, UpdateSaleMode(m) PROVE SaleInv'
      BY <3>2, SaleModeSale
    <3>12. ASSUME NEW m, NEW read, Holds(m, read) PROVE SaleInv'
      <4>1. OneHolder' /\ OnePaidRowPerPackage'
        BY <3>12 DEF Holds, SaleInv, OneHolder, OnePaidRowPerPackage, PaidIn, Paid
      <4>2. ASSUME NEW k \in Calls PROVE LookupStands(k, job[k])'
        BY <3>12, LookupStays DEF Holds, SaleInv
      <4> QED
        BY <4>1, <4>2 DEF SaleInv
    <3>3. ASSUME NEW k \in Calls, NEW label, NEW j,
                 Begin(k, label, j), j.lock = None, label = "write" => j.op = "delete"
          PROVE  SaleInv'
      <4>1. /\ pc' = [pc EXCEPT ![k] = label] /\ job' = [job EXCEPT ![k] = j]
            /\ UNCHANGED <<sessions, oneTime, raced>> /\ TypeOK
        BY <3>3 DEF Begin, modes, IInv
      <4>2. /\ pc'[k] = label /\ job'[k] = j
            /\ \A v \in Calls \ {k} : pc'[v] = pc[v] /\ job'[v] = job[v]
        BY <4>1 DEF TypeOK
      <4> QED
        BY <3>3, <4>1, <4>2, SaleUntouched
    <3>4. ASSUME NEW k \in Calls, LookUp(k) PROVE SaleInv'
      BY <3>4, LookUpFinds
    <3>5. ASSUME NEW k \in Calls, CommitCreate(k) PROVE SaleInv'
      BY <3>5, CommitCreateSale
    <3>6. ASSUME NEW k \in Calls, CommitEdit(k) PROVE SaleInv'
      BY <2>2, <3>6, CommitEditSale
    <3>7. ASSUME NEW k \in Calls, CommitDelete(k) PROVE SaleInv'
      BY <3>7, CommitDeleteSale
    <3>8. ASSUME NEW k \in Calls, Abort(k) PROVE SaleInv'
      <4>1. /\ pc' = [pc EXCEPT ![k] = "idle"] /\ job' = [job EXCEPT ![k] = NoJob]
            /\ UNCHANGED <<sessions, oneTime, raced>> /\ TypeOK
        BY <3>8 DEF Abort, modes, IInv
      <4>2. /\ pc'[k] = "idle" /\ job'[k].lock = None
            /\ \A v \in Calls \ {k} : pc'[v] = pc[v] /\ job'[v] = job[v]
        BY <4>1 DEF TypeOK, NoJob
      <4> QED
        BY <4>1, <4>2, SaleUntouched
    <3>9. ASSUME NEW k \in Calls, NEW x \in SessionIds, NEW c \in Classes,
                 NEW att \in Attendance, Create(k, x, c, att)
          PROVE  SaleInv'
      <4> DEFINE j == [NoJob EXCEPT !.op = "create", !.x = x, !.cls = c, !.att = att,
                                    !.oneTime = c \in oneTime, !.price = DefaultPrice(c)]
      <4>1. Begin(k, "lookup", j)
        BY <3>9 DEF Create
      <4>2. j.lock = None
        BY DEF NoJob
      <4> HIDE DEF j
      <4> QED
        BY <3>3, <4>1, <4>2
    <3>10. ASSUME NEW k \in Calls, NEW x \in SessionIds, NEW c \in Classes \cup {None},
                  NEW att \in Attendance \cup {None}, Edit(k, x, c, att)
           PROVE  SaleInv'
      <4> DEFINE j == [NoJob EXCEPT !.op = "edit", !.x = x, !.cls = c, !.att = att,
                                    !.old = sessions[x],
                                    !.oneTime = sessions[x].class \in oneTime]
      <4>1. Begin(k, "lookup", j)
        BY <3>10 DEF Edit
      <4>2. j.lock = None
        BY DEF NoJob
      <4> HIDE DEF j
      <4> QED
        BY <3>3, <4>1, <4>2
    <3>11. ASSUME NEW k \in Calls, NEW x \in SessionIds, Delete(k, x) PROVE SaleInv'
      <4> DEFINE j == [NoJob EXCEPT !.op = "delete", !.x = x, !.old = sessions[x]]
      <4>1. Begin(k, "write", j)
        BY <3>11 DEF Delete
      <4>2. j.lock = None /\ j.op = "delete"
        BY DEF NoJob
      <4> HIDE DEF j
      <4> QED
        BY <3>3, <4>1, <4>2
    <3> QED
      BY <2>2, <3>1, <3>2, <3>4, <3>5, <3>6, <3>7, <3>8, <3>9, <3>10, <3>11, <3>12
         DEF Next, ReadMode, ReadSale, CountPaid
  <2> QED
    BY <2>1, <2>2
<1> QED
  BY <1>1, <1>2, Invariance, PTL DEF Spec

\* A student pays the package of a one_time class in one session at most, if no
\* session is moved into such a class out of one that is not one_time: with the
\* advisory lock the lookup of paid rows stands until the call commits.
THEOREM PackagePaidOnce == Spec /\ [][NoMoveIn]_vars => []OnePaidRowPerPackage
<1>1. SaleInv => OnePaidRowPerPackage
  BY DEF SaleInv
<1> QED
  BY <1>1, PackageInvariance, PTL

\* An edit of the session where the package was charged does not refund it, under
\* the same condition: no other session was paid when it looked.
THEOREM PackageIsKept == Spec /\ [][NoMoveIn]_vars => EditKeepsPackage
<1> DEFINE P(k, s) ==
       LET j == job[k] IN
       /\ pc[k] = "write" /\ pc'[k] = "idle" /\ j.op = "edit"
       /\ sessions[j.x].class \in oneTime \ raced /\ NextClass(j) = sessions[j.x].class
       /\ PaidIn(j.x, s) /\ sessions'[j.x].class = sessions[j.x].class
       /\ sessions'[j.x].rows[s] # None /\ sessions'[j.x].rows[s].chargeable
       => \/ sessions'[j.x].rows[s].fee > 0
          \/ Source(j)[s].override = 0
<1>1. IInv /\ SaleInv /\ [Next]_vars /\ [NoMoveIn]_vars =>
        \A k \in Calls, s \in Students : P(k, s)
  <2> SUFFICES ASSUME IInv, SaleInv, [Next]_vars, [NoMoveIn]_vars, NEW k \in Calls, NEW s \in Students,
                      pc[k] = "write", pc'[k] = "idle", job[k].op = "edit",
                      sessions[job[k].x].class \in oneTime \ raced,
                      NextClass(job[k]) = sessions[job[k].x].class,
                      PaidIn(job[k].x, s),
                      sessions'[job[k].x].rows[s] # None,
                      sessions'[job[k].x].rows[s].chargeable
               PROVE  \/ sessions'[job[k].x].rows[s].fee > 0
                      \/ Source(job[k])[s].override = 0
    OBVIOUS
  <2>1. CASE sessions'[job[k].x] = sessions[job[k].x]
    BY <2>1 DEF PaidIn, Paid
  <2>2. CASE CommitEdit(k) /\ NoMoveIn
    <3> DEFINE j == job[k]
               x == j.x
               c == NextClass(j)
               item == Source(j)[s]
    <3>1. j \in Job /\ CallOK(k, j) /\ TypeOK /\ x \in SessionIds
      BY DEF IInv, TypeOK, CallOK, Busy
    <3>2. sessions'[x].rows[s] = IF NewRow(j, s) # None THEN NewRow(j, s)
             ELSE IF j.old.rows[s] # None /\ s \notin j.lost THEN None ELSE sessions[x].rows[s]
      BY <2>2, <3>1 DEF CommitEdit, TypeOK
    <3>3. j.oneTime /\ j.price = Package[c] /\ c \in oneTime \ raced
      <4>1. PackagePriced(k, j)
        BY DEF IInv
      <4>2. j.old.class # c => j.oneTime
        BY <2>2 DEF NoMoveIn
      <4> QED
        BY <4>1, <4>2 DEF PackagePriced
    <3>4. s \notin j.charged
      BY <3>3 DEF SaleInv, LookupStands
    <3>5. CASE NewRow(j, s) = None
      BY <3>2, <3>5 DEF PaidIn, Paid
    <3>6. CASE NewRow(j, s) # None
      <4>1. /\ item # None /\ item.chargeable = NewRow(j, s).chargeable
            /\ NewRow(j, s).fee = Resolved(item, s \in j.charged, j.price)
        BY <3>6 DEF NewRow
      <4>2. item.chargeable /\ sessions'[x].rows[s].fee = NewRow(j, s).fee
        BY <3>2, <3>6, <4>1
      <4>3. NewRow(j, s).fee = IF item.override # None THEN item.override ELSE Package[c]
        BY <3>3, <3>4, <4>1, <4>2 DEF Resolved
      <4>4. item.override \in Nat \cup {None}
        BY <3>1, <4>1, SourceType
      <4>5. Package[c] \in Nat /\ Package[c] > 0
        BY <3>1, <3>3, ChargeAssumption DEF TypeOK
      <4> HIDE DEF item, c, x, j
      <4>6. NewRow(j, s).fee > 0 \/ item.override = 0
        BY <4>3, <4>4, <4>5
      <4> QED
        BY <4>2, <4>6 DEF item, x, j
    <3> QED
      BY <3>5, <3>6
  <2>3. sessions'[job[k].x] = sessions[job[k].x] \/ (CommitEdit(k) /\ NoMoveIn)
    <3>1. TypeOK
      BY DEF IInv
    <3>2. ASSUME NEW v \in Calls \ {k}, NEW l, pc' = [pc EXCEPT ![v] = l] PROVE FALSE
      BY <3>1, <3>2 DEF TypeOK
    <3>3. ASSUME NEW v \in Calls,
                 \/ \E label, j : Begin(v, label, j)
                 \/ LookUp(v) \/ CommitCreate(v) \/ CommitDelete(v)
          PROVE  FALSE
      <4>1. v = k
        <5>1. (\E label, j : Begin(v, label, j)) => \E l : pc' = [pc EXCEPT ![v] = l]
          BY DEF Begin
        <5>2. LookUp(v) => pc' = [pc EXCEPT ![v] = "write"]
          BY DEF LookUp
        <5>3. CommitCreate(v) \/ CommitDelete(v) => pc' = [pc EXCEPT ![v] = "idle"]
          BY DEF CommitCreate, CommitDelete, Finish
        <5>4. \E l : pc' = [pc EXCEPT ![v] = l]
          BY <3>3, <5>1, <5>2, <5>3
        <5> QED
          BY <3>2, <5>4
      <4>2. ~LookUp(k) /\ ~CommitCreate(k) /\ ~CommitDelete(k)
        BY DEF LookUp, CommitCreate, CommitDelete
      <4>3. \A label, j : ~Begin(k, label, j)
        BY DEF Begin
      <4> QED
        BY <3>3, <4>1, <4>2, <4>3
    <3>4. ASSUME NEW v \in Calls, CommitEdit(v) PROVE CommitEdit(k)
      <4>1. pc' = [pc EXCEPT ![v] = "idle"]
        BY <3>4 DEF CommitEdit, Finish
      <4> QED
        BY <3>2, <3>4, <4>1
    <3>5. CASE UNCHANGED vars
      BY <3>5 DEF vars
    <3>6. CASE Next /\ NoMoveIn
      <4>1. CASE \E v \in Calls : Abort(v)
        BY <4>1 DEF Abort
      <4>2. CASE \E m \in Managers : \/ \E c \in Classes : ReadMode(m, c) \/ ReadSale(m, c)
                                     \/ \E frozen \in SUBSET SessionIds : UpdatePricingMode(m, frozen)
                                     \/ CountPaid(m) \/ UpdateSaleMode(m)
        <5>1. pc' = pc
          BY <4>2 DEF ReadMode, ReadSale, CountPaid, Holds, UpdateSaleMode, UpdatePricingMode
        <5> QED
          BY <5>1
      <4> QED
        BY <3>3, <3>4, <3>6, <4>1, <4>2 DEF Next, Create, Edit, Delete
    <3> QED
      BY <3>5, <3>6
  <2> QED
    BY <2>1, <2>2, <2>3
<1>2. (\A k \in Calls, s \in Students : P(k, s)) => [\A k \in Calls, s \in Students : P(k, s)]_vars
  OBVIOUS
<1> QED
  BY <1>1, <1>2, PackageInvariance, Invariance, PTL DEF Spec, EditKeepsPackage
=============================================================================
