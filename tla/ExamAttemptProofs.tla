------------------------- MODULE ExamAttemptProofs -------------------------
(***************************************************************************)
(* TLAPS proofs about ExamAttempt, for any number of questions, attempts   *)
(* and concurrent calls and for any total of points.                       *)
(*                                                                         *)
(* The argument: a call relies on an attempt that was started staying      *)
(* started, on a closed one staying closed, and on a graded essay staying  *)
(* graded (CallsOK).  Steps that only move a call are instances of         *)
(* MoveCall; the steps that write attempts or points are treated one by    *)
(* one.  That the shares add up to the total is proved by induction over   *)
(* the sets 1..k of questions.                                             *)
(***************************************************************************)
EXTENDS ExamAttempt, SumTheorems, TLAPS

USE AttemptAssumption

N == Cardinality(Questions)

LEMMA Size == N \in Nat \ {0} /\ Questions = 1..N
<1>1. N \in Nat /\ Questions = 1..N
  BY FS_CardinalityType DEF N
<1>2. N # 0
  BY <1>1
<1> QED
  BY <1>1, <1>2

LEMMA FiniteParts == IsFiniteSet(SingleChoice) /\ IsFiniteSet(Essays)
<1>1. SingleChoice \in SUBSET Questions /\ Essays \in SUBSET Questions
  BY DEF Questions
<1> QED
  BY <1>1, FS_Subset

LEMMA Division ==
  /\ TotalPoints \div N \in Nat /\ TotalPoints % N \in 0..(N - 1)
  /\ TotalPoints = N * (TotalPoints \div N) + (TotalPoints % N)
<1>1. N \in Nat \ {0} /\ TotalPoints \in Nat
  BY Size
<1> QED
  BY ONLY <1>1, SMT

\* A share is a number of points, at most all of them.
LEMMA ShareType == \A q \in Questions : PointsPossible(q) \in 0..TotalPoints
<1>1. PICK d \in Nat, m \in 0..(N - 1) :
        d = TotalPoints \div N /\ m = TotalPoints % N /\ TotalPoints = N * d + m
  BY Division
<1>2. N * d >= d
  BY Size
<1>3. \A q \in Questions : PointsPossible(q) = d + IF q <= m THEN 1 ELSE 0
  BY <1>1 DEF PointsPossible, N
<1> QED
  BY <1>1, <1>2, <1>3, Size

Shares == [q \in Questions |-> PointsPossible(q)]

\* The shares of the first k questions.
LEMMA FirstShares ==
  ASSUME NEW k \in 0..N
  PROVE  SumFunctionOnSet(Shares, 1..k) =
           k * (TotalPoints \div N) + IF k <= TotalPoints % N THEN k ELSE TotalPoints % N
<1>1. PICK d \in Nat, m \in 0..(N - 1) : d = TotalPoints \div N /\ m = TotalPoints % N
  BY Division
<1>2. \A q \in 1..N : Shares[q] = d + (IF q <= m THEN 1 ELSE 0) /\ Shares[q] \in Int
  BY <1>1, Size DEF Shares, PointsPossible, N
<1> DEFINE First(i) == i * d + IF i <= m THEN i ELSE m
           Bad == {T \in SUBSET (1..N) :
                     \E i \in 0..N : T = 1..i /\ SumFunctionOnSet(Shares, T) # First(i)}
<1>3. Bad = {}
  <2> SUFFICES ASSUME Bad # {} PROVE FALSE
    OBVIOUS
  <2>1. Bad \in SUBSET (SUBSET (1..N)) /\ IsFiniteSet(1..N)
    BY Size
  <2>2. PICK T \in Bad : \A U \in Bad : U \subseteq T => U = T
    <3> DEFINE S == 1..N
    <3>1. IsFiniteSet(S) /\ Bad \in SUBSET (SUBSET S)
      BY <2>1
    <3> HIDE DEF Bad, S
    <3> QED
      BY <3>1, Minimal
  <2>3. PICK i \in 0..N : T = 1..i /\ SumFunctionOnSet(Shares, T) # First(i)
    OBVIOUS
  <2>4. i # 0
    <3> SUFFICES ASSUME i = 0 PROVE FALSE
      OBVIOUS
    <3>1. T = {} /\ First(i) = 0
      BY <1>1, <2>3
    <3> QED
      BY <2>3, <3>1, SumEmpty
  <2>5. i \in 1..N /\ i - 1 \in 0..N /\ 1..(i - 1) = T \ {i} /\ i \in T /\ IsFiniteSet(T)
        /\ T \subseteq 1..N
    <3>1. i \in 1..N /\ i - 1 \in 0..N
      BY <2>3, <2>4, Size
    <3>2. 1..(i - 1) = T \ {i} /\ i \in T /\ T \subseteq 1..N
      BY <2>3, <3>1, Size
    <3> QED
      BY <2>1, <3>1, <3>2, FS_Subset
  <2>6. T \ {i} \notin Bad
    BY <2>2, <2>5
  <2>7. SumFunctionOnSet(Shares, T \ {i}) = First(i - 1)
    BY <2>5, <2>6
  <2>8. SumFunctionOnSet(Shares, T) = Shares[i] + SumFunctionOnSet(Shares, T \ {i})
    <3>1. \A x \in T : Shares[x] \in Int
      BY <1>2, <2>5
    <3>2. IsFiniteSet(T) /\ i \in T
      BY <2>5
    <3> QED
      BY ONLY <3>1, <3>2, SumRemove
  <2>9. First(i) = Shares[i] + First(i - 1)
    <3>1. i \in Nat \ {0} /\ d \in Nat
      BY <1>1, <2>5, Size
    <3>2. i * d = (i - 1) * d + d /\ (i - 1) * d \in Nat
      BY ONLY <3>1, SMT
    <3> HIDE DEF Bad
    <3>3. First(i) = (i - 1) * d + d + IF i <= m THEN i ELSE m
      BY <3>2
    <3>4. First(i - 1) = (i - 1) * d + IF i - 1 <= m THEN i - 1 ELSE m
      OBVIOUS
    <3>5. Shares[i] = d + IF i <= m THEN 1 ELSE 0
      BY <1>2, <2>5
    <3> HIDE DEF First
    <3>6. PICK p \in Nat : p = (i - 1) * d
      BY <3>2
    <3>7. i \in Nat \ {0} /\ d \in Nat /\ m \in Nat
      BY <1>1, <3>1, Size
    <3>8. /\ First(i) = p + d + IF i <= m THEN i ELSE m
          /\ First(i - 1) = p + IF i - 1 <= m THEN i - 1 ELSE m
      BY <3>3, <3>4, <3>6
    <3> QED
      BY ONLY <3>5, <3>7, <3>8
  <2> QED
    BY <2>3, <2>7, <2>8, <2>9
<1>4. 1..k \in SUBSET (1..N)
  BY Size
<1>5. SumFunctionOnSet(Shares, 1..k) = First(k)
  BY <1>3, <1>4
<1> QED
  BY <1>1, <1>5

\* splitTotalPoints loses no point and makes up none.
LEMMA SharesAddUp == SumFunctionOnSet(Shares, Questions) = TotalPoints
<1>1. SumFunctionOnSet(Shares, 1..N) =
        N * (TotalPoints \div N) + IF N <= TotalPoints % N THEN N ELSE TotalPoints % N
  BY FirstShares, Size
<1> QED
  BY <1>1, Division, Size

\* The choice questions never earn more than the essays leave.
LEMMA ScoreFits ==
  ASSUME NEW snap
  PROVE  /\ Score(snap) \in 0..TotalPoints
         /\ Score(snap) + SumFunction([e \in Essays |-> PointsPossible(e)]) <= TotalPoints
<1> DEFINE f == [q \in SingleChoice |-> Awarded(snap, q)]
           g == [e \in Essays |-> PointsPossible(e)]
           A == SumFunctionOnSet(f, SingleChoice)
           B == SumFunctionOnSet(Shares, SingleChoice)
           C == SumFunctionOnSet(Shares, Essays)
<1>1. \A q \in SingleChoice : f[q] \in Int /\ Shares[q] \in Int /\ f[q] <= Shares[q] /\ 0 <= f[q]
  BY ShareType DEF Awarded, Shares, Questions
<1>2. \A e \in Essays : g[e] = Shares[e] /\ Shares[e] \in Int /\ 0 <= Shares[e]
  BY ShareType DEF Shares, Questions
<1>3. Score(snap) = A /\ SumFunction(g) = SumFunctionOnSet(g, Essays)
  BY DEF Score, SumFunction
<1> HIDE DEF f, g
<1>4. SumFunctionOnSet(g, Essays) = C
  BY <1>2, FiniteParts, SumSame
<1>5. A \in Int /\ A <= B
  <2>1. \A q \in SingleChoice : f[q] \in Int
    BY <1>1
  <2>2. \A q \in SingleChoice : f[q] \in Int /\ Shares[q] \in Int /\ f[q] <= Shares[q]
    BY <1>1
  <2>3. IsFiniteSet(SingleChoice)
    BY FiniteParts
  <2>4. A \in Int
    BY ONLY <2>1, <2>3, SumType
  <2>5. A <= B
    BY ONLY <2>2, <2>3, SumLeq
  <2> QED
    BY <2>4, <2>5
<1>6. 0 <= A
  <2>1. SumFunctionOnSet(f, SingleChoice) >= 0
    BY <1>1, FiniteParts, SumNat
  <2> QED
    BY <2>1
<1>7. 0 <= C
  BY <1>2, FiniteParts, SumNat
<1>8. B + C = TotalPoints /\ B \in Int /\ C \in Int
  <2>1. \A q \in SingleChoice \cup Essays : Shares[q] \in Int
    BY <1>1, <1>2
  <2>2. IsFiniteSet(SingleChoice) /\ IsFiniteSet(Essays) /\ SingleChoice \cap Essays = {}
    BY FiniteParts
  <2>3. SumFunctionOnSet(Shares, SingleChoice \cup Essays) = B + C
    BY ONLY <2>1, <2>2, SumUnion
  <2>4. B \in Int /\ C \in Int
    BY <2>1, <2>2, SumType
  <2> QED
    BY <2>3, <2>4, SharesAddUp DEF Questions
<1> HIDE DEF A, B, C
<1>9. A \in 0..TotalPoints /\ A + C <= TotalPoints
  BY <1>5, <1>6, <1>7, <1>8
<1> QED
  BY <1>3, <1>4, <1>9 DEF g, C
-----------------------------------------------------------------------------
(* The inductive invariant. *)

LEMMA NoneRemains ==
  \A p : Cardinality({e \in Essays : p[e] = None}) = 0 <=> \A e \in Essays : p[e] # None
<1> TAKE p
<1> DEFINE S == {e \in Essays : p[e] = None}
<1>1. S \in SUBSET Essays /\ IsFiniteSet(S)
  BY FiniteParts, FS_Subset
<1>2. Cardinality(S) = 0 <=> S = {}
  <2> HIDE DEF S
  <2> QED
    BY <1>1, FS_EmptySet
<1> QED
  BY <1>2

LEMMA InitIInv == Init => IInv
<1> SUFFICES ASSUME Init PROVE IInv
  OBVIOUS
<1>1. Unanswered \in [SingleChoice -> Answer] /\ NoJob \in Job
  BY DEF Unanswered, Answer, NoJob, Job
<1>2. NoAttempt \in Attempt
  BY DEF NoAttempt, Attempt
<1>3. TypeOK
  BY <1>1, <1>2 DEF Init, TypeOK, Labels
<1>4. \A a \in Ids : attempts[a].status = "none"
  BY DEF Init, NoAttempt
<1>5. CallsOK
  BY DEF Init, CallsOK, CallOK
<1>6. (\A a, b \in InProgress : a = b) /\ \A a \in Ids : ~IsClosed(a)
  BY <1>4 DEF InProgress, IsClosed, Closed
<1> QED
  BY <1>3, <1>5, <1>6 DEF IInv, ScoreMatchesPatches, CountedIsGraded, GradedIsCounted

\* A busy call, and what CallsOK says of it.
LEMMA BusyCall ==
  ASSUME IInv, NEW k \in Workers
  PROVE  job[k] \in Job /\ CallOK(pc[k], job[k])
  BY DEF IInv, TypeOK, CallsOK

\* What the other calls rely on is kept as long as attempts only advance.
LEMMA CallsKept ==
  ASSUME IInv, NEW k \in Workers, clock' \in Int, clock <= clock',
         \A c \in Workers \ {k} : pc'[c] = pc[c] /\ job'[c] = job[c],
         NEW l, NEW j, pc'[k] = l, job'[k] = j, CallOK(l, j)',
         \A a \in Ids : attempts[a].status # "none" =>
           attempts'[a].status # "none" /\ attempts'[a].startedAt = attempts[a].startedAt,
         \A a \in Ids : IsClosed(a) => IsClosed(a)',
         \A a \in Ids : IsClosed(a) /\ Remaining(a) = 0 => Remaining(a)' = 0
  PROVE  CallsOK'
<1>1. ASSUME NEW m, NEW i, CallOK(m, i), i \in Job PROVE CallOK(m, i)'
  <2>1. \A a \in Ids : attempts[a].status # "none" /\ IsExpired(a) => IsExpired(a)'
    BY DEF IInv, TypeOK, Attempt, IsExpired, EndsAt
  <2> QED
    BY <1>1, <2>1 DEF CallOK
<1>2. ASSUME NEW c \in Workers PROVE CallOK(pc[c], job[c])'
  <2>1. CASE c = k
    BY <2>1
  <2>2. CASE c # k
    <3>1. PICK m, i : m = pc[c] /\ i = job[c]
      OBVIOUS
    <3>2. CallOK(m, i)'
      BY <1>1, <3>1, BusyCall
    <3> QED
      BY <2>2, <3>1, <3>2
  <2> QED
    BY <2>1, <2>2
<1> QED
  BY <1>2 DEF CallsOK

\* A step that only moves one call, or ends it.
LEMMA MoveCall ==
  ASSUME IInv, NEW k \in Workers, NEW l \in Labels, NEW j \in Job, Goto(k, l, j),
         UNCHANGED <<attempts, points, clock>>,
         choice' \in [Ids -> [SingleChoice -> Answer]],
         faults' \in 0..MaxFaults, faults <= faults',
         l = "idle" => j = NoJob, CallOK(l, j),
         k \in Calls /\ pc[k] \in {"count", "clear"} /\ faults' = 0 =>
           \/ l \in {"count", "clear"} /\ j.a = job[k].a
           \/ Remaining(job[k].a) # 0
  PROVE  IInv'
<1>1. \A c \in Workers : /\ pc'[c] = IF c = k THEN l ELSE pc[c]
                         /\ job'[c] = IF c = k THEN j ELSE job[c]
  BY DEF Goto, IInv, TypeOK
<1>2. TypeOK'
  BY <1>1 DEF Goto, IInv, TypeOK
<1>3. CallsOK'
  <2>1. CallOK(l, j)'
    BY DEF CallOK, IsClosed, IsExpired, EndsAt, Remaining
  <2>2. clock' \in Int /\ clock <= clock'
    BY DEF IInv, TypeOK
  <2> QED
    BY <1>1, <2>1, <2>2, CallsKept DEF IsClosed, Remaining
<1>4. (\A a, b \in InProgress : a = b)' /\ ScoreMatchesPatches' /\ CountedIsGraded'
  BY DEF IInv, InProgress, ScoreMatchesPatches, CountedIsGraded, IsClosed, Remaining
<1>5. GradedIsCounted'
  <2> SUFFICES ASSUME NEW a \in Ids, IsClosed(a), Remaining(a) = 0, faults' = 0,
                      \A c \in Calls : job'[c].a = a => pc'[c] \notin {"count", "clear"}
               PROVE  ~attempts[a].ungraded
    BY DEF GradedIsCounted, IsClosed, Remaining
  <2>1. faults = 0
    BY DEF IInv, TypeOK
  <2>2. ASSUME NEW c \in Calls, job[c].a = a PROVE pc[c] \notin {"count", "clear"}
    BY <1>1, <2>2 DEF Workers
  <2> QED
    BY <2>1, <2>2 DEF IInv, GradedIsCounted
<1> QED
  BY <1>2, <1>3, <1>4, <1>5 DEF IInv
-----------------------------------------------------------------------------
(* The steps that write neither attempts nor points. *)

LEMMA NoJobType == NoJob \in Job /\ Unanswered \in [SingleChoice -> Answer]
  BY DEF NoJob, Job, Unanswered, Answer

\* A call ends; one that was counting essays only if some are left, or is cut off.
LEMMA EndCall ==
  ASSUME IInv, NEW k \in Workers, Done(k), UNCHANGED <<attempts, choice, points, clock>>,
         faults' \in 0..MaxFaults, faults <= faults',
         k \in Calls /\ pc[k] \in {"count", "clear"} /\ faults' = 0 => Remaining(job[k].a) # 0
  PROVE  IInv'
<1>1. CallOK("idle", NoJob)
  BY DEF CallOK
<1>2. choice' \in [Ids -> [SingleChoice -> Answer]]
  BY DEF IInv, TypeOK
<1> QED
  BY <1>1, <1>2, NoJobType, MoveCall DEF Done, Labels

\* A call that has loaded an attempt goes on to close it.
LEMMA Closing ==
  ASSUME IInv, NEW k \in Workers, pc[k] \notin {"count", "clear"},
         NEW a \in Ids, attempts[a].status # "none",
         NEW status \in Closed, status = "timed_out" => IsExpired(a), Close(k, a, status),
         UNCHANGED <<attempts, choice, points, clock, faults>>
  PROVE  IInv'
<1> DEFINE j == [NoJob EXCEPT !.a = a, !.snap = choice[a], !.status = status]
<1>1. j \in Job /\ j.a = a /\ j.status = status
  BY NoJobType DEF IInv, TypeOK, NoJob, Job
<1>2. Goto(k, "claim", j)
  BY DEF Close
<1> HIDE DEF j
<1>3. CallOK("claim", j)
  BY <1>1 DEF CallOK
<1>4. choice' \in [Ids -> [SingleChoice -> Answer]] /\ faults' \in 0..MaxFaults /\ faults <= faults'
  BY DEF IInv, TypeOK
<1> QED
  BY <1>1, <1>2, <1>3, <1>4, MoveCall DEF Labels

LEMMA Finalizing ==
  ASSUME IInv, NEW k \in Workers, pc[k] \notin {"count", "clear"},
         NEW a \in Ids, FinalizeIfExpired(k, a),
         UNCHANGED <<attempts, choice, points, clock, faults>>
  PROVE  IInv'
<1>1. CASE a \in InProgress /\ IsExpired(a)
  BY <1>1, Closing DEF FinalizeIfExpired, InProgress, Closed
<1>2. CASE ~(a \in InProgress /\ IsExpired(a))
  BY <1>2, EndCall DEF FinalizeIfExpired, IInv, TypeOK
<1> QED
  BY <1>1, <1>2

LEMMA StartStep ==
  ASSUME IInv, NEW k \in Calls, Start(k)
  PROVE  IInv'
<1>1. k \in Workers /\ pc[k] = "idle" /\ UNCHANGED <<attempts, choice, points, clock, faults>>
  BY DEF Start, Workers
<1>2. CASE \E a \in InProgress : FinalizeIfExpired(k, a)
  BY <1>1, <1>2, Finalizing DEF InProgress
<1>3. CASE Goto(k, "insert", [NoJob EXCEPT !.at = clock])
  <2> DEFINE j == [NoJob EXCEPT !.at = clock]
  <2>1. j \in Job
    BY NoJobType DEF IInv, TypeOK, NoJob, Job
  <2>2. Goto(k, "insert", j)
    BY <1>3
  <2> HIDE DEF j
  <2>3. CallOK("insert", j)
    BY DEF CallOK
  <2>4. choice' \in [Ids -> [SingleChoice -> Answer]] /\ faults' \in 0..MaxFaults /\ faults <= faults'
    BY <1>1 DEF IInv, TypeOK
  <2> QED
    BY <1>1, <2>1, <2>2, <2>3, <2>4, MoveCall DEF Labels
<1> QED
  BY <1>2, <1>3 DEF Start

LEMMA SaveStep ==
  ASSUME IInv, NEW k \in Calls, NEW a \in Ids, NEW answers \in [SingleChoice -> Answer],
         Save(k, a, answers)
  PROVE  IInv'
<1> DEFINE j == [NoJob EXCEPT !.a = a, !.snap = answers]
<1>1. k \in Workers /\ pc[k] = "idle" /\ UNCHANGED <<attempts, choice, points, clock, faults>>
      /\ attempts[a].status # "none"
  BY DEF Save, Workers, InProgress
<1>2. j \in Job /\ j.a = a
  BY NoJobType DEF NoJob, Job
<1>3. Goto(k, "save", j)
  BY DEF Save
<1> HIDE DEF j
<1>4. CallOK("save", j)
  BY <1>1, <1>2 DEF CallOK
<1>5. choice' \in [Ids -> [SingleChoice -> Answer]] /\ faults' \in 0..MaxFaults /\ faults <= faults'
  BY <1>1 DEF IInv, TypeOK
<1> QED
  BY <1>1, <1>2, <1>3, <1>4, <1>5, MoveCall DEF Labels

LEMMA WriteAnswersStep ==
  ASSUME IInv, NEW k \in Workers, WriteAnswers(k)
  PROVE  IInv'
<1> DEFINE a == job[k].a
           j == [NoJob EXCEPT !.a = a]
           new == [q \in SingleChoice |-> IF job[k].snap[q] # None THEN job[k].snap[q] ELSE choice[a][q]]
<1>1. pc[k] = "save" /\ UNCHANGED <<attempts, points, clock, faults>>
  BY DEF WriteAnswers
<1>2. a \in Ids /\ attempts[a].status # "none" /\ job[k] \in Job
  BY <1>1, BusyCall DEF CallOK
<1>3. j \in Job /\ j.a = a
  BY <1>2, NoJobType DEF NoJob, Job
<1>4. Goto(k, "reload", j)
  BY DEF WriteAnswers
<1>5. new \in [SingleChoice -> Answer]
  BY <1>2 DEF IInv, TypeOK, Job
<1>6. choice' = [choice EXCEPT ![a] = new]
  BY DEF WriteAnswers
<1> HIDE DEF j, new, a
<1>7. CallOK("reload", j)
  BY <1>2, <1>3 DEF CallOK
<1>8. choice' \in [Ids -> [SingleChoice -> Answer]] /\ faults' \in 0..MaxFaults /\ faults <= faults'
  BY <1>1, <1>2, <1>5, <1>6 DEF IInv, TypeOK
<1> QED
  BY <1>1, <1>3, <1>4, <1>7, <1>8, MoveCall DEF Labels

LEMMA ReloadStep ==
  ASSUME IInv, NEW k \in Workers, Reload(k)
  PROVE  IInv'
<1>1. pc[k] = "reload" /\ UNCHANGED <<attempts, choice, points, clock, faults>>
  BY DEF Reload
<1>2. PICK a \in Ids : FinalizeIfExpired(k, a)
  BY <1>1, BusyCall DEF CallOK, Reload
<1> QED
  BY <1>1, <1>2, Finalizing

LEMMA CronScanStep ==
  ASSUME IInv, CronScan
  PROVE  IInv'
<1>1. Cron \in Workers /\ UNCHANGED <<attempts, choice, points, clock, faults>>
      /\ pc[Cron] = "idle"
  BY DEF Workers, CronScan
<1>2. PICK a \in InProgress : Goto(Cron, "check", [NoJob EXCEPT !.a = a, !.snap = choice[a]])
  BY DEF CronScan
<1>3. a \in Ids /\ attempts[a].status # "none"
  BY <1>2 DEF InProgress
<1> DEFINE j == [NoJob EXCEPT !.a = a, !.snap = choice[a]]
<1>4. j \in Job /\ j.a = a
  BY <1>3, NoJobType DEF IInv, TypeOK, NoJob, Job
<1>5. Goto(Cron, "check", j)
  BY <1>2
<1> HIDE DEF j
<1>6. CallOK("check", j)
  BY <1>3, <1>4 DEF CallOK
<1>7. choice' \in [Ids -> [SingleChoice -> Answer]] /\ faults' \in 0..MaxFaults /\ faults <= faults'
  BY <1>1 DEF IInv, TypeOK
<1> QED
  BY <1>1, <1>4, <1>5, <1>6, <1>7, MoveCall DEF Labels

LEMMA CronCheckStep ==
  ASSUME IInv, CronCheck
  PROVE  IInv'
<1>1. /\ Cron \in Workers /\ UNCHANGED <<attempts, choice, points, clock, faults>>
      /\ pc[Cron] = "check" /\ Cron \notin Calls
  BY DEF Workers, CronCheck
<1>2. job[Cron] \in Job /\ CallOK("check", job[Cron])
  BY <1>1, BusyCall
<1>3. CASE Done(Cron)
  BY <1>1, <1>3, EndCall DEF IInv, TypeOK
<1>4. CASE IsExpired(job[Cron].a) /\ Goto(Cron, "claim", [job[Cron] EXCEPT !.status = "timed_out"])
  <2> DEFINE j == [job[Cron] EXCEPT !.status = "timed_out"]
  <2>1. j \in Job /\ j.a = job[Cron].a /\ j.status = "timed_out"
    BY <1>2 DEF Job, Closed
  <2>2. Goto(Cron, "claim", j)
    BY <1>4
  <2> HIDE DEF j
  <2>3. CallOK("claim", j)
    BY <1>2, <1>4, <2>1 DEF CallOK, Closed
  <2>4. choice' \in [Ids -> [SingleChoice -> Answer]] /\ faults' \in 0..MaxFaults /\ faults <= faults'
    BY <1>1 DEF IInv, TypeOK
  <2> QED
    BY <1>1, <2>1, <2>2, <2>3, <2>4, MoveCall DEF Labels
<1> QED
  BY <1>3, <1>4 DEF CronCheck

LEMMA GradeStep ==
  ASSUME IInv, NEW k \in Calls, NEW a \in Ids, NEW e \in Essays, NEW g \in Grades, Grade(k, a, e, g)
  PROVE  IInv'
<1> DEFINE j == [NoJob EXCEPT !.a = a, !.essay = e, !.grade = g]
<1>1. k \in Workers /\ pc[k] = "idle" /\ UNCHANGED <<attempts, choice, points, clock, faults>>
      /\ IsClosed(a) /\ g <= PointsPossible(e)
  BY DEF Grade, Workers
<1>2. j \in Job /\ j.a = a /\ j.essay = e /\ j.grade = g
  BY NoJobType DEF NoJob, Job
<1>3. Goto(k, "grade", j)
  BY DEF Grade
<1> HIDE DEF j
<1>4. CallOK("grade", j)
  BY <1>1, <1>2 DEF CallOK
<1>5. choice' \in [Ids -> [SingleChoice -> Answer]] /\ faults' \in 0..MaxFaults /\ faults <= faults'
  BY <1>1 DEF IInv, TypeOK
<1> QED
  BY <1>1, <1>2, <1>3, <1>4, <1>5, MoveCall DEF Labels

LEMMA CountRemainingStep ==
  ASSUME IInv, NEW k \in Workers, CountRemaining(k)
  PROVE  IInv'
<1>1. pc[k] = "count" /\ UNCHANGED <<attempts, choice, points, clock, faults>>
  BY DEF CountRemaining
<1>2. job[k] \in Job /\ CallOK("count", job[k])
  BY <1>1, BusyCall
<1>3. choice' \in [Ids -> [SingleChoice -> Answer]] /\ faults' \in 0..MaxFaults /\ faults <= faults'
  BY <1>1 DEF IInv, TypeOK
<1>4. CASE Remaining(job[k].a) # 0 /\ Done(k)
  BY <1>1, <1>3, <1>4, EndCall
<1>5. CASE Remaining(job[k].a) = 0 /\ Goto(k, "clear", job[k])
  <2>1. CallOK("clear", job[k])
    BY <1>2, <1>5 DEF CallOK
  <2> QED
    BY <1>1, <1>2, <1>3, <1>5, <2>1, MoveCall DEF Labels
<1> QED
  BY <1>4, <1>5 DEF CountRemaining

LEMMA AbortStep ==
  ASSUME IInv, NEW k \in Workers, Abort(k)
  PROVE  IInv'
<1>1. faults' \in 0..MaxFaults /\ faults <= faults' /\ faults' # 0
  BY DEF Abort, IInv, TypeOK
<1> QED
  BY <1>1, EndCall DEF Abort

LEMMA TickStep ==
  ASSUME IInv, Tick
  PROVE  IInv'
<1>1. UNCHANGED <<attempts, choice, points, pc, job, faults>> /\ clock' = clock + 1
      /\ clock' \in 0..MaxTime /\ clock \in 0..MaxTime
  BY DEF Tick, IInv, TypeOK
<1>2. TypeOK'
  BY <1>1 DEF IInv, TypeOK
<1>3. \A a \in Ids : attempts[a].status # "none" /\ IsExpired(a) => IsExpired(a)'
  BY <1>1 DEF IInv, TypeOK, Attempt, IsExpired, EndsAt
<1>4. CallsOK'
  BY <1>1, <1>3 DEF IInv, CallsOK, CallOK, IsClosed, Remaining
<1>5. (\A a, b \in InProgress : a = b)' /\ ScoreMatchesPatches' /\ CountedIsGraded' /\ GradedIsCounted'
  BY <1>1 DEF IInv, InProgress, ScoreMatchesPatches, CountedIsGraded, GradedIsCounted, IsClosed,
     Remaining
<1> QED
  BY <1>2, <1>4, <1>5 DEF IInv
-----------------------------------------------------------------------------
(* The steps that write attempts or points. *)

\* The caller k ends; the rest of the state is TypeOK by what it writes.
LEMMA EndedType ==
  ASSUME IInv, NEW k \in Workers, Done(k), UNCHANGED <<choice, clock, faults>>,
         attempts' \in [Ids -> Attempt],
         points' \in [Ids -> [Questions -> 0..TotalPoints \cup {None}]]
  PROVE  /\ TypeOK'
         /\ \A c \in Workers \ {k} : pc'[c] = pc[c] /\ job'[c] = job[c]
         /\ pc'[k] = "idle" /\ job'[k] = NoJob
<1>1. \A c \in Workers : /\ pc'[c] = IF c = k THEN "idle" ELSE pc[c]
                         /\ job'[c] = IF c = k THEN NoJob ELSE job[c]
  BY DEF Done, Goto, IInv, TypeOK
<1>2. TypeOK'
  BY <1>1, NoJobType DEF Done, Goto, IInv, TypeOK, Labels
<1> QED
  BY <1>1, <1>2

LEMMA EndedCalls ==
  ASSUME IInv, NEW k \in Workers, Done(k), UNCHANGED <<choice, clock, faults>>,
         \A a \in Ids : attempts[a].status # "none" =>
           attempts'[a].status # "none" /\ attempts'[a].startedAt = attempts[a].startedAt,
         \A a \in Ids : IsClosed(a) => IsClosed(a)',
         \A a \in Ids : IsClosed(a) /\ Remaining(a) = 0 => Remaining(a)' = 0
  PROVE  CallsOK'
<1>1. \A c \in Workers : /\ pc'[c] = IF c = k THEN "idle" ELSE pc[c]
                         /\ job'[c] = IF c = k THEN NoJob ELSE job[c]
  BY DEF Done, Goto, IInv, TypeOK
<1>2. CallOK("idle", NoJob)'
  BY DEF CallOK
<1>3. clock' \in Int /\ clock <= clock'
  BY DEF IInv, TypeOK
<1> QED
  BY <1>1, <1>2, <1>3, CallsKept

LEMMA InsertStep ==
  ASSUME IInv, NEW k \in Calls, Insert(k)
  PROVE  IInv'
<1>1. k \in Workers /\ pc[k] = "insert" /\ UNCHANGED <<choice, points, clock, faults>>
  BY DEF Insert, Workers
<1>2. CASE InProgress # {} /\ UNCHANGED attempts
             /\ (Done(k) \/ \E a \in InProgress : FinalizeIfExpired(k, a))
  <2>1. CASE Done(k)
    BY <1>1, <1>2, <2>1, EndCall DEF IInv, TypeOK
  <2>2. CASE \E a \in InProgress : FinalizeIfExpired(k, a)
    BY <1>1, <1>2, <2>2, Finalizing DEF InProgress
  <2> QED
    BY <1>2, <2>1, <2>2
<1>3. ASSUME NEW a \in Ids, InProgress = {}, attempts[a].status = "none", Done(k),
             attempts' = [attempts EXCEPT ![a] =
               [NoAttempt EXCEPT !.status = "in_progress", !.startedAt = job[k].at]]
      PROVE  IInv'
  <2> DEFINE row == [NoAttempt EXCEPT !.status = "in_progress", !.startedAt = job[k].at]
  <2>1. row \in Attempt /\ row.status = "in_progress"
    BY <1>1, BusyCall DEF NoAttempt, Attempt, Job
  <2>2. \A b \in Ids : attempts'[b] = IF b = a THEN row ELSE attempts[b]
    BY <1>3 DEF IInv, TypeOK
  <2>3. attempts' \in [Ids -> Attempt] /\ points' \in [Ids -> [Questions -> 0..TotalPoints \cup {None}]]
    BY <1>1, <1>3, <2>1 DEF IInv, TypeOK
  <2> HIDE DEF row
  <2>4. TypeOK' /\ pc'[k] = "idle" /\ \A c \in Workers \ {k} : pc'[c] = pc[c] /\ job'[c] = job[c]
    BY <1>1, <1>3, <2>3, EndedType
  <2>5. \A b \in Ids : /\ IsClosed(b)' <=> IsClosed(b)
                       /\ IsClosed(b) => attempts'[b] = attempts[b]
                       /\ Remaining(b)' = Remaining(b)
                       /\ b \in InProgress' => b = a
    BY <1>1, <1>3, <2>1, <2>2 DEF IsClosed, Closed, Remaining, InProgress
  <2>6. \A b \in Ids : attempts[b].status # "none" => attempts'[b] = attempts[b]
    BY <1>3, <2>2
  <2>7. CallsOK'
    <3>1. \A b \in Ids : attempts[b].status # "none" =>
             attempts'[b].status # "none" /\ attempts'[b].startedAt = attempts[b].startedAt
      BY <2>6
    <3> QED
      BY <1>1, <1>3, <2>5, <3>1, EndedCalls
  <2>8. (\A b, c \in InProgress : b = c)'
    BY <2>5 DEF InProgress
  <2>9. ScoreMatchesPatches' /\ CountedIsGraded'
    BY <1>1, <2>5 DEF IInv, ScoreMatchesPatches, CountedIsGraded
  <2>10. GradedIsCounted'
    <3>1. \A c \in Calls : pc[c] \in {"count", "clear"} => pc'[c] = pc[c] /\ job'[c] = job[c]
      BY <1>1, <2>4 DEF Workers
    <3> QED
      BY <1>1, <2>5, <3>1 DEF IInv, GradedIsCounted
  <2> QED
    BY <2>4, <2>7, <2>8, <2>9, <2>10 DEF IInv
<1> QED
  BY <1>2, <1>3 DEF Insert

LEMMA ClaimStep ==
  ASSUME IInv, NEW k \in Workers, Claim(k)
  PROVE  IInv'
<1>0. PICK a, snap, status : a = job[k].a /\ snap = job[k].snap /\ status = job[k].status
  OBVIOUS
<1> DEFINE row == [status |-> status, startedAt |-> attempts[a].startedAt,
                   score |-> Score(snap), ungraded |-> Essays # {}]
           patch == [q \in Questions |-> IF q \in Essays THEN None ELSE Awarded(snap, q)]
<1>1. pc[k] = "claim" /\ Done(k) /\ UNCHANGED <<choice, clock, faults>>
  BY DEF Claim
<1>2. a \in Ids /\ status \in Closed
  BY <1>0, <1>1, BusyCall DEF CallOK
<1>3. CASE a \notin InProgress /\ UNCHANGED <<attempts, points>>
  BY <1>1, <1>3, EndCall DEF IInv, TypeOK
<1>4. CASE a \in InProgress
  <2>1. /\ attempts' = [attempts EXCEPT ![a].status = status, ![a].ungraded = (Essays # {}),
                                        ![a].score = Score(snap)]
        /\ points' = [points EXCEPT ![a] = patch]
    BY <1>0, <1>4 DEF Claim
  <2>2. attempts[a] \in Attempt /\ attempts[a].status = "in_progress"
    BY <1>2, <1>4 DEF IInv, TypeOK, InProgress
  <2>3. row \in Attempt
    BY <1>2, <2>2, ScoreFits DEF Attempt
  <2>4. \A b \in Ids : attempts'[b] = IF b = a THEN row ELSE attempts[b]
    <3> SUFFICES ASSUME NEW b \in Ids PROVE attempts'[b] = IF b = a THEN row ELSE attempts[b]
      OBVIOUS
    <3>1. attempts \in [Ids -> Attempt]
      BY DEF IInv, TypeOK
    <3>2. CASE b = a
      <4>1. attempts'[a] = [attempts[a] EXCEPT !.status = status, !.ungraded = (Essays # {}),
                                               !.score = Score(snap)]
        BY <1>2, <2>1, <3>1
      <4> QED
        BY <2>2, <3>2, <4>1 DEF Attempt
    <3>3. CASE b # a
      BY <2>1, <3>1, <3>3
    <3> QED
      BY <3>2, <3>3
  <2>5. patch \in [Questions -> 0..TotalPoints \cup {None}]
    BY ShareType DEF Awarded
  <2>6. \A b \in Ids : points'[b] = IF b = a THEN patch ELSE points[b]
    BY <2>1 DEF IInv, TypeOK
  <2>7. DOMAIN attempts' = Ids /\ attempts' \in [Ids -> Attempt]
        /\ points' \in [Ids -> [Questions -> 0..TotalPoints \cup {None}]]
    <3>1. attempts' = [b \in Ids |-> attempts'[b]]
      BY <2>1 DEF IInv, TypeOK
    <3>2. \A b \in Ids : attempts'[b] \in Attempt
      BY <2>3, <2>4 DEF IInv, TypeOK
    <3> QED
      BY <1>2, <2>1, <2>5, <3>1, <3>2 DEF IInv, TypeOK
  <2>8. /\ \A q \in SingleChoice : patch[q] = Awarded(snap, q)
        /\ \A e \in Essays : patch[e] = None
    BY DEF Questions
  <2>9. row.score = Score(snap) /\ row.status \in Closed /\ row.ungraded = (Essays # {})
        /\ row.startedAt = attempts[a].startedAt
    BY <1>2
  <2> HIDE DEF row, patch
  <2>10. TypeOK' /\ pc'[k] = "idle" /\ \A c \in Workers \ {k} : pc'[c] = pc[c] /\ job'[c] = job[c]
    BY <1>1, <2>7, EndedType
  <2>11. \A b \in Ids : b # a => /\ attempts'[b] = attempts[b] /\ points'[b] = points[b]
                                 /\ IsClosed(b)' = IsClosed(b) /\ Remaining(b)' = Remaining(b)
                                 /\ b \in InProgress' <=> b \in InProgress
    BY <2>4, <2>6 DEF IsClosed, Remaining, InProgress
  <2>12. IsClosed(a)' /\ ~IsClosed(a) /\ a \notin InProgress'
    BY <1>2, <2>2, <2>4, <2>9 DEF IsClosed, Closed, InProgress
  <2>13. Remaining(a)' = 0 <=> Essays = {}
    BY <1>2, <2>6, <2>8, NoneRemains DEF Remaining
  <2>14. CallsOK'
    <3>1. \A b \in Ids : attempts[b].status # "none" =>
             attempts'[b].status # "none" /\ attempts'[b].startedAt = attempts[b].startedAt
      BY <2>4, <2>9 DEF Closed
    <3> QED
      BY <1>1, <2>11, <2>12, <3>1, EndedCalls
  <2>15. (\A b, c \in InProgress : b = c)'
    BY <2>11, <2>12 DEF IInv, InProgress
  <2>16. ScoreMatchesPatches'
    <3>1. Score(snap) = SumFunctionOnSet(patch, SingleChoice)
      <4> DEFINE f == [q \in SingleChoice |-> Awarded(snap, q)]
      <4>1. \A q \in SingleChoice : f[q] = patch[q]
        BY <2>8
      <4>2. Score(snap) = SumFunctionOnSet(f, SingleChoice)
        BY DEF Score, SumFunction
      <4> HIDE DEF f
      <4> QED
        BY <4>1, <4>2, FiniteParts, SumSame
    <3>2. ASSUME NEW b \in Ids, IsClosed(b)'
          PROVE  /\ attempts'[b].score = SumFunctionOnSet(points'[b], SingleChoice)
                 /\ attempts'[b].score + SumFunction([e \in Essays |-> PointsPossible(e)]) <= TotalPoints
      <4>1. CASE b = a
        BY <1>2, <2>4, <2>6, <2>9, <3>1, <4>1, ScoreFits
      <4>2. CASE b # a
        BY <2>11, <3>2, <4>2 DEF IInv, ScoreMatchesPatches
      <4> QED
        BY <4>1, <4>2
    <3> QED
      BY <3>2 DEF ScoreMatchesPatches
  <2>17. CountedIsGraded'
    BY <1>2, <2>4, <2>9, <2>11, <2>13 DEF IInv, CountedIsGraded
  <2>18. GradedIsCounted'
    <3>1. \A c \in Calls : pc[c] \in {"count", "clear"} => pc'[c] = pc[c] /\ job'[c] = job[c]
      BY <1>1, <2>10 DEF Workers
    <3> QED
      BY <1>1, <1>2, <2>4, <2>9, <2>11, <2>13, <3>1 DEF IInv, GradedIsCounted
  <2> QED
    BY <2>10, <2>14, <2>15, <2>16, <2>17, <2>18 DEF IInv
<1> QED
  BY <1>0, <1>3, <1>4 DEF Claim

LEMMA WriteGradeStep ==
  ASSUME IInv, NEW k \in Calls, WriteGrade(k)
  PROVE  IInv'
<1>0. PICK a, e, g : a = job[k].a /\ e = job[k].essay /\ g = job[k].grade
  OBVIOUS
<1> DEFINE j == [NoJob EXCEPT !.a = a]
<1>1. pc[k] = "grade" /\ UNCHANGED <<attempts, choice, clock, faults>>
      /\ points' = [points EXCEPT ![a][e] = g] /\ Goto(k, "count", [NoJob EXCEPT !.a = a])
      /\ k \in Workers
  BY <1>0 DEF WriteGrade, Workers
<1>2. /\ a \in Ids /\ IsClosed(a) /\ e \in Essays /\ g \in Nat /\ g <= PointsPossible(e)
  BY <1>0, <1>1, BusyCall DEF CallOK, Job
<1>3. e \in Questions /\ e \notin SingleChoice /\ g \in 0..TotalPoints /\ g # None
  BY <1>2, ShareType DEF Questions
<1>4. j \in Job /\ j.a = a /\ Goto(k, "count", j)
  BY <1>1, <1>2, NoJobType DEF NoJob, Job
<1> HIDE DEF j
<1>5. /\ points' \in [Ids -> [Questions -> 0..TotalPoints \cup {None}]]
      /\ \A b \in Ids, q \in Questions :
           points'[b][q] = IF b = a /\ q = e THEN g ELSE points[b][q]
  BY <1>1, <1>2, <1>3 DEF IInv, TypeOK
<1>6. \A c \in Workers : /\ pc'[c] = IF c = k THEN "count" ELSE pc[c]
                         /\ job'[c] = IF c = k THEN j ELSE job[c]
  BY <1>4 DEF Goto, IInv, TypeOK
<1>7. TypeOK'
  <2>1. pc' \in [Workers -> Labels] /\ job' \in [Workers -> Job]
    BY <1>4 DEF Goto, IInv, TypeOK, Labels
  <2>2. \A c \in Workers : pc'[c] = "idle" => job'[c] = NoJob
    BY <1>6 DEF IInv, TypeOK
  <2> QED
    BY <1>1, <1>5, <2>1, <2>2 DEF IInv, TypeOK
<1>8. \A b \in Ids : IsClosed(b)' = IsClosed(b)
  BY <1>1 DEF IsClosed
<1>9. \A b \in Ids : Remaining(b) = 0 => Remaining(b)' = 0
  BY <1>3, <1>5, NoneRemains DEF Remaining, Questions
<1>10. \A b \in Ids : b # a => Remaining(b)' = Remaining(b)
  <2> SUFFICES ASSUME NEW b \in Ids, b # a PROVE points'[b] = points[b]
    BY DEF Remaining
  <2> QED
    BY <1>1 DEF IInv, TypeOK
<1>11. CallsOK'
  <2>1. CallOK("count", j)'
    BY <1>2, <1>4, <1>8 DEF CallOK
  <2>2. clock' \in Int /\ clock <= clock'
    BY <1>1 DEF IInv, TypeOK
  <2>3. \A b \in Ids : attempts[b].status # "none" =>
           attempts'[b].status # "none" /\ attempts'[b].startedAt = attempts[b].startedAt
    BY <1>1
  <2> QED
    BY <1>1, <1>6, <1>8, <1>9, <2>1, <2>2, <2>3, CallsKept
<1>12. (\A b, c \in InProgress : b = c)'
  BY <1>1 DEF IInv, InProgress
<1>13. ScoreMatchesPatches'
  <2> SUFFICES ASSUME NEW b \in Ids, IsClosed(b)
               PROVE  SumFunctionOnSet(points'[b], SingleChoice) = SumFunctionOnSet(points[b], SingleChoice)
    BY <1>1, <1>8 DEF IInv, ScoreMatchesPatches
  <2>1. \A q \in SingleChoice : points'[b][q] = points[b][q]
    BY <1>3, <1>5 DEF Questions
  <2> QED
    BY <2>1, FiniteParts, SumSame
<1>14. CountedIsGraded'
  BY <1>1, <1>8, <1>9 DEF IInv, CountedIsGraded
<1>15. GradedIsCounted'
  <2> SUFFICES ASSUME NEW b \in Ids, IsClosed(b), Remaining(b)' = 0, faults = 0,
                      \A c \in Calls : job'[c].a = b => pc'[c] \notin {"count", "clear"}
               PROVE  ~attempts[b].ungraded
    BY <1>1, <1>8 DEF GradedIsCounted
  <2>1. b # a
    BY <1>1, <1>4, <1>6
  <2>2. \A c \in Calls : job[c].a = b => pc[c] \notin {"count", "clear"}
    BY <1>0, <1>6, <2>1 DEF Workers
  <2> QED
    BY <1>10, <2>1, <2>2 DEF IInv, GradedIsCounted
<1> QED
  BY <1>7, <1>11, <1>12, <1>13, <1>14, <1>15 DEF IInv

LEMMA ClearFlagStep ==
  ASSUME IInv, NEW k \in Calls, ClearFlag(k)
  PROVE  IInv'
<1>0. PICK a : a = job[k].a
  OBVIOUS
<1> DEFINE row == [attempts[a] EXCEPT !.ungraded = FALSE]
<1>1. /\ pc[k] = "clear" /\ Done(k) /\ UNCHANGED <<choice, points, clock, faults>>
      /\ attempts' = [attempts EXCEPT ![a].ungraded = FALSE] /\ k \in Workers
  BY <1>0 DEF ClearFlag, Workers
<1>2. a \in Ids /\ IsClosed(a) /\ Remaining(a) = 0
  BY <1>0, <1>1, BusyCall DEF CallOK
<1>3. /\ row \in Attempt /\ row.status = attempts[a].status /\ row.startedAt = attempts[a].startedAt
      /\ row.score = attempts[a].score /\ row.ungraded = FALSE
  <2>1. attempts[a] \in Attempt
    BY <1>2 DEF IInv, TypeOK
  <2> QED
    BY <2>1 DEF Attempt
<1>4. attempts' = [attempts EXCEPT ![a] = row]
  BY <1>1
<1> HIDE DEF row
<1>5. \A b \in Ids : attempts'[b] = IF b = a THEN row ELSE attempts[b]
  BY <1>4 DEF IInv, TypeOK
<1>6. attempts' \in [Ids -> Attempt] /\ points' \in [Ids -> [Questions -> 0..TotalPoints \cup {None}]]
  BY <1>1, <1>3, <1>4 DEF IInv, TypeOK
<1>7. TypeOK' /\ pc'[k] = "idle" /\ \A c \in Workers \ {k} : pc'[c] = pc[c] /\ job'[c] = job[c]
  BY <1>1, <1>6, EndedType
<1>8. \A b \in Ids : /\ attempts'[b].status = attempts[b].status
                     /\ attempts'[b].startedAt = attempts[b].startedAt
                     /\ attempts'[b].score = attempts[b].score
                     /\ IsClosed(b)' = IsClosed(b)
                     /\ Remaining(b)' = Remaining(b)
  BY <1>1, <1>3, <1>5 DEF IsClosed, Remaining
<1>9. CallsOK'
  BY <1>1, <1>8, EndedCalls
<1>10. (\A b, c \in InProgress : b = c)'
  BY <1>8 DEF IInv, InProgress
<1>11. ScoreMatchesPatches'
  BY <1>1, <1>8 DEF IInv, ScoreMatchesPatches
<1>12. CountedIsGraded'
  BY <1>2, <1>5, <1>8 DEF IInv, CountedIsGraded
<1>13. GradedIsCounted'
  <2>1. \A c \in Calls : pc[c] \in {"count", "clear"} /\ job[c].a # a => pc'[c] = pc[c] /\ job'[c] = job[c]
    BY <1>0, <1>7 DEF Workers
  <2> QED
    BY <1>1, <1>3, <1>5, <1>8, <2>1 DEF IInv, GradedIsCounted
<1> QED
  BY <1>7, <1>9, <1>10, <1>11, <1>12, <1>13 DEF IInv
-----------------------------------------------------------------------------
(* The theorems *)

LEMMA NextIInv == IInv /\ [Next]_vars => IInv'
<1> SUFFICES ASSUME IInv, [Next]_vars PROVE IInv'
  OBVIOUS
<1>1. CASE Tick
  BY <1>1, TickStep
<1>2. ASSUME NEW k \in Calls, Start(k) PROVE IInv'
  BY <1>2, StartStep
<1>3. ASSUME NEW k \in Calls, Proceed(k) PROVE IInv'
  BY <1>3, InsertStep, WriteAnswersStep, ReloadStep, ClaimStep, WriteGradeStep, CountRemainingStep,
     ClearFlagStep DEF Proceed, Workers
<1>4. ASSUME NEW k \in Calls, NEW a \in Ids, Get(k, a) PROVE IInv'
  <2>1. k \in Workers
    BY DEF Workers
  <2> QED
    BY <1>4, <2>1, Finalizing DEF Get
<1>5. ASSUME NEW k \in Calls, NEW a \in Ids, Submit(k, a) PROVE IInv'
  <2>1. k \in Workers /\ pc[k] = "idle" /\ attempts[a].status # "none"
    BY <1>5 DEF Workers, Submit, InProgress
  <2>2. PICK status \in Closed : Close(k, a, status) /\ (status = "timed_out" => IsExpired(a))
    BY <1>5 DEF Submit, Closed
  <2> QED
    BY <1>5, <2>1, <2>2, Closing DEF Submit
<1>6. ASSUME NEW k \in Calls, NEW a \in Ids, NEW answers \in [SingleChoice -> Answer],
             Save(k, a, answers)
      PROVE  IInv'
  BY <1>6, SaveStep
<1>7. ASSUME NEW k \in Calls, NEW a \in Ids, NEW e \in Essays, NEW g \in Grades, Grade(k, a, e, g)
      PROVE  IInv'
  BY <1>7, GradeStep
<1>8. CASE CronStep
  BY <1>8, CronScanStep, CronCheckStep, ClaimStep DEF CronStep, Workers
<1>9. ASSUME NEW k \in Workers, Abort(k) PROVE IInv'
  BY <1>9, AbortStep
<1>10. CASE UNCHANGED vars
  BY <1>10 DEF vars, IInv, TypeOK, CallsOK, CallOK, IsClosed, IsExpired, EndsAt, Remaining, InProgress,
     ScoreMatchesPatches, CountedIsGraded, GradedIsCounted
<1> QED
  BY <1>1, <1>2, <1>3, <1>4, <1>5, <1>6, <1>7, <1>8, <1>9, <1>10 DEF Next

\* The inductive invariant: what calls rely on between their statements holds in
\* every reachable state.
THEOREM Invariance == Spec => []IInv
<1>1. Init => IInv
  BY InitIInv
<1>2. IInv /\ [Next]_vars => IInv'
  BY NextIInv
<1> QED
  BY <1>1, <1>2, PTL DEF Spec

\* Type correctness; in particular no score and no grade exceeds the total.
THEOREM TypeCorrect == Spec => []TypeOK
<1>1. IInv => TypeOK
  BY DEF IInv
<1> QED
  BY <1>1, Invariance, PTL

\* The score of a closed attempt is the sum of its patches and leaves room for
\* the essays, for every number of questions and every total.
THEOREM ScoresAddUp == Spec => []ScoreMatchesPatches
<1>1. IInv => ScoreMatchesPatches
  BY DEF IInv
<1> QED
  BY <1>1, Invariance, PTL

\* An attempt in the statistics has no ungraded essay.
THEOREM CountedAreGraded == Spec => []CountedIsGraded
<1>1. IInv => CountedIsGraded
  BY DEF IInv
<1> QED
  BY <1>1, Invariance, PTL

\* A fully graded attempt is in the statistics once its graders are done.
THEOREM GradedAreCounted == Spec => []GradedIsCounted
<1>1. IInv => GradedIsCounted
  BY DEF IInv
<1> QED
  BY <1>1, Invariance, PTL

\* However many starts meet, one attempt is in progress at most.
THEOREM OneAttemptAtATime == Spec => []OneInProgress
<1>1. IInv => OneInProgress
  <2> SUFFICES ASSUME IInv PROVE Cardinality(InProgress) <= 1
    BY DEF OneInProgress
  <2>1. CASE InProgress = {}
    BY <2>1, FS_EmptySet
  <2>2. CASE InProgress # {}
    <3>1. PICK a : InProgress = {a}
      <4>1. PICK a \in InProgress : TRUE
        BY <2>2
      <4>2. \A b \in InProgress : b = a
        BY DEF IInv
      <4> QED
        BY <4>1, <4>2
    <3>2. Cardinality({a}) = 1
      BY FS_Singleton
    <3> QED
      BY <3>1, <3>2
  <2> QED
    BY <2>1, <2>2
<1> QED
  BY <1>1, Invariance, PTL
-----------------------------------------------------------------------------
(* Closing is final. *)

\* What a step may not do to an attempt.
Settled(a) ==
  /\ a \in InProgress /\ attempts'[a].status = "timed_out" => clock >= EndsAt(a)
  /\ IsClosed(a) =>
       /\ attempts'[a] = [attempts[a] EXCEPT !.ungraded = attempts'[a].ungraded]
       /\ attempts'[a].ungraded => attempts[a].ungraded
       /\ \A q \in SingleChoice : points'[a][q] = points[a][q]
       /\ \A e \in Essays : points[a][e] # None => points'[a][e] # None

LEMMA Untouched ==
  ASSUME IInv, NEW a \in Ids, attempts'[a] = attempts[a], points'[a] = points[a]
  PROVE  Settled(a)
<1>1. attempts[a] \in Attempt
  BY DEF IInv, TypeOK
<1>2. attempts[a] = [attempts[a] EXCEPT !.ungraded = attempts[a].ungraded]
  BY <1>1 DEF Attempt
<1> QED
  BY <1>2 DEF Settled, InProgress

LEMMA InsertSettles ==
  ASSUME IInv, NEW k \in Calls, Insert(k), NEW a \in Ids
  PROVE  Settled(a)
<1>1. UNCHANGED points
  BY DEF Insert
<1>2. CASE UNCHANGED attempts
  BY <1>1, <1>2, Untouched
<1>3. ASSUME NEW b \in Ids, InProgress = {}, attempts[b].status = "none",
             attempts' = [attempts EXCEPT ![b] =
               [NoAttempt EXCEPT !.status = "in_progress", !.startedAt = job[k].at]]
      PROVE  Settled(a)
  <2>1. CASE a = b
    BY <1>3, <2>1 DEF Settled, IsClosed, Closed
  <2>2. CASE a # b
    BY <1>1, <1>3, <2>2, Untouched DEF IInv, TypeOK
  <2> QED
    BY <2>1, <2>2
<1> QED
  BY <1>2, <1>3 DEF Insert

LEMMA ClaimSettles ==
  ASSUME IInv, NEW k \in Workers, Claim(k), NEW a \in Ids
  PROVE  Settled(a)
<1>1. pc[k] = "claim" /\ CallOK("claim", job[k])
  BY BusyCall DEF Claim
<1>2. CASE UNCHANGED <<attempts, points>>
  BY <1>2, Untouched
<1>3. CASE job[k].a \in InProgress
  <2>1. CASE a = job[k].a
    <3>1. attempts' = [attempts EXCEPT ![a].status = job[k].status, ![a].ungraded = (Essays # {}),
                                       ![a].score = Score(job[k].snap)]
      BY <1>3, <2>1 DEF Claim
    <3>2. attempts[a] \in Attempt /\ attempts[a].status = "in_progress"
      BY <1>3, <2>1 DEF IInv, TypeOK, InProgress
    <3>3. attempts'[a].status = job[k].status
      BY <3>1, <3>2 DEF IInv, TypeOK, Attempt
    <3>4. job[k].status = "timed_out" => clock >= EndsAt(a)
      BY <1>1, <2>1 DEF CallOK, IsExpired
    <3> QED
      BY <3>2, <3>3, <3>4 DEF Settled, IsClosed, Closed
  <2>2. CASE a # job[k].a
    <3>1. attempts'[a] = attempts[a] /\ points'[a] = points[a]
      BY <1>3, <2>2 DEF Claim, IInv, TypeOK
    <3> QED
      BY <3>1, Untouched
  <2> QED
    BY <2>1, <2>2
<1> QED
  BY <1>2, <1>3 DEF Claim

LEMMA WriteGradeSettles ==
  ASSUME IInv, NEW k \in Calls, WriteGrade(k), NEW a \in Ids
  PROVE  Settled(a)
<1>1. /\ UNCHANGED attempts /\ k \in Workers /\ pc[k] = "grade"
      /\ points' = [points EXCEPT ![job[k].a][job[k].essay] = job[k].grade]
  BY DEF WriteGrade, Workers
<1>2. job[k].essay \in Essays /\ job[k].grade \in Nat /\ job[k].grade # None
      /\ job[k].essay \notin SingleChoice
  BY <1>1, BusyCall DEF CallOK, Job
<1>3. CASE a = job[k].a
  <2>1. \A q \in Questions : points'[a][q] = IF q = job[k].essay THEN job[k].grade ELSE points[a][q]
    BY <1>1, <1>2, <1>3 DEF IInv, TypeOK, Questions
  <2>2. attempts[a] \in Attempt /\ attempts'[a] = attempts[a]
    BY <1>1 DEF IInv, TypeOK
  <2>3. attempts[a] = [attempts[a] EXCEPT !.ungraded = attempts[a].ungraded]
    BY <2>2 DEF Attempt
  <2> QED
    BY <1>2, <2>1, <2>2, <2>3 DEF Settled, InProgress, Questions
<1>4. CASE a # job[k].a
  <2>1. attempts'[a] = attempts[a] /\ points'[a] = points[a]
    BY <1>1, <1>4 DEF IInv, TypeOK
  <2> QED
    BY <2>1, Untouched
<1> QED
  BY <1>3, <1>4

LEMMA ClearFlagSettles ==
  ASSUME IInv, NEW k \in Calls, ClearFlag(k), NEW a \in Ids
  PROVE  Settled(a)
<1>1. UNCHANGED points /\ attempts' = [attempts EXCEPT ![job[k].a].ungraded = FALSE]
  BY DEF ClearFlag
<1>2. CASE a = job[k].a
  <2> DEFINE row == [attempts[a] EXCEPT !.ungraded = FALSE]
  <2>1. attempts[a] \in Attempt /\ attempts'[a] = row
    BY <1>1, <1>2 DEF IInv, TypeOK
  <2>2. row.ungraded = FALSE /\ row.status = attempts[a].status
    BY <2>1 DEF Attempt
  <2>3. attempts'[a] = [attempts[a] EXCEPT !.ungraded = attempts'[a].ungraded]
    BY <2>1, <2>2
  <2> QED
    BY <1>1, <2>1, <2>2, <2>3 DEF Settled, InProgress
<1>3. CASE a # job[k].a
  <2>1. attempts'[a] = attempts[a] /\ points'[a] = points[a]
    BY <1>1, <1>3 DEF IInv, TypeOK
  <2> QED
    BY <2>1, Untouched
<1> QED
  BY <1>2, <1>3

\* Whoever closes an attempt closes it once, and only a late one as timed out;
\* later requests change neither its status nor its score.
THEOREM ClosingIsFinal == Spec => ClosedIsFinal
<1> DEFINE P(a) ==
       /\ a \in InProgress /\ attempts'[a].status = "timed_out" => clock >= EndsAt(a)
       /\ IsClosed(a) =>
            /\ attempts'[a] = [attempts[a] EXCEPT !.ungraded = attempts'[a].ungraded]
            /\ attempts'[a].ungraded => attempts[a].ungraded
            /\ \A q \in SingleChoice : points'[a][q] = points[a][q]
            /\ \A e \in Essays : points[a][e] # None => points'[a][e] # None
<1>1. IInv /\ [Next]_vars => \A a \in Ids : P(a)
  <2> SUFFICES ASSUME IInv, [Next]_vars, NEW a \in Ids PROVE Settled(a)
    BY DEF Settled
  <2>1. CASE UNCHANGED <<attempts, points>>
    BY <2>1, Untouched
  <2>2. \/ UNCHANGED <<attempts, points>>
        \/ \E k \in Calls : Insert(k) \/ WriteGrade(k) \/ ClearFlag(k)
        \/ \E k \in Workers : Claim(k)
    BY DEF Next, vars, Proceed, CronStep, Tick, Start, WriteAnswers, Reload, CountRemaining, Get,
       Submit, Save, Grade, CronScan, CronCheck, Abort, Workers
  <2> QED
    BY <2>1, <2>2, InsertSettles, ClaimSettles, WriteGradeSettles, ClearFlagSettles
<1>2. (\A a \in Ids : P(a)) => [\A a \in Ids : P(a)]_vars
  OBVIOUS
<1> QED
  BY <1>1, <1>2, Invariance, PTL DEF Spec, ClosedIsFinal
==============================================================================
