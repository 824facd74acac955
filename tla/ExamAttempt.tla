---------------------------- MODULE ExamAttempt ----------------------------
(***************************************************************************)
(* Attempts of one student at one practice assignment.                     *)
(*                                                                         *)
(* Starting an attempt copies the questions; the student saves answers and *)
(* submits; an attempt whose time is up is closed by whoever meets it: the *)
(* student's own requests or the job that runs every minute.  Whoever      *)
(* closes has loaded the answers before, computes the score from that      *)
(* copy, and claims the attempt while it is in progress.  Essays are       *)
(* graded later, one question at a time, and the last one lets the attempt *)
(* into the statistics.  Nothing holds a lock between two statements.      *)
(***************************************************************************)
EXTENDS Integers, FiniteSets, FiniteSetsExt

CONSTANTS
  SingleChoice,   \* positions 1..k of the single-choice questions
  Essays,         \* positions of the essay questions
  TotalPoints,    \* ATTEMPT_TOTAL_POINTS
  AnswerValues,   \* answers a student may give to a choice question: "right", "wrong"
  Grades,         \* points a teacher may ask for
  Duration,       \* durationMinutes
  Calls,          \* requests that may run at once
  Cron,           \* the expiry job
  MaxAttempts,    \* bound: attempts of the student
  MaxTime,        \* bound on the clock
  MaxFaults,      \* bound: requests cut off
  None

Questions == SingleChoice \cup Essays

ASSUME AttemptAssumption ==
  /\ SingleChoice \cap Essays = {}
  /\ IsFiniteSet(Questions) /\ Questions = 1..Cardinality(Questions)
  /\ Questions # {}   \* an assignment without questions cannot be started
  /\ AnswerValues \subseteq {"right", "wrong"}
  /\ TotalPoints \in Nat /\ Grades \subseteq Nat
  /\ Duration \in Nat \ {0} /\ MaxAttempts \in Nat /\ MaxTime \in Nat /\ MaxFaults \in Nat
  /\ Cron \notin Calls /\ None \notin Calls \cup {Cron} \cup Nat

VARIABLES
  attempts,   \* attempt -> its row
  choice,     \* attempt -> question -> the stored answer: right, wrong or none
  points,     \* attempt -> question -> pointsAwarded
  pc, job,    \* worker -> where its call stands and what it holds
  clock,
  faults

vars == <<attempts, choice, points, pc, job, clock, faults>>
-----------------------------------------------------------------------------
Ids == 1..MaxAttempts
Workers == Calls \cup {Cron}
Answer == AnswerValues \cup {None}
Unanswered == [q \in SingleChoice |-> None]
Closed == {"submitted", "timed_out"}

\* Mutant: the shares are rounded up.
PointsRoundedUp(q) ==
  LET n == Cardinality(Questions) IN
  TotalPoints \div n + (IF TotalPoints % n > 0 THEN 1 ELSE 0)

\* splitTotalPoints: equal shares, the remainder one point each to the first.
PointsPossible(q) ==
  LET n == Cardinality(Questions) IN
  TotalPoints \div n + (IF q <= TotalPoints % n THEN 1 ELSE 0)

Attempt == [status : {"none", "in_progress"} \cup Closed, startedAt : 0..MaxTime,
            score : 0..TotalPoints \cup {None}, ungraded : BOOLEAN]
NoAttempt == [status |-> "none", startedAt |-> 0, score |-> None, ungraded |-> FALSE]
Labels == {"idle", "insert", "save", "reload", "check", "claim", "grade", "count", "clear"}
Job == [a : Ids \cup {None}, snap : [SingleChoice -> Answer], status : {"none"} \cup Closed,
        at : 0..MaxTime, essay : Essays \cup {None}, grade : Nat]
NoJob == [a |-> None, snap |-> Unanswered, status |-> "none", at |-> 0, essay |-> None, grade |-> 0]

InProgress == {a \in Ids : attempts[a].status = "in_progress"}
IsClosed(a) == attempts[a].status \in Closed
EndsAt(a) == attempts[a].startedAt + Duration

IsExpired(a) == clock >= EndsAt(a)

\* The attempt that orderBy startedAt desc finds first.
Latest(a) == \A b \in Ids :
  attempts[b].status # "none" => attempts[b].startedAt <= attempts[a].startedAt

Init ==
  /\ attempts = [a \in Ids |-> NoAttempt]
  /\ choice = [a \in Ids |-> Unanswered]
  /\ points = [a \in Ids |-> [q \in Questions |-> None]]
  /\ pc = [k \in Workers |-> "idle"]
  /\ job = [k \in Workers |-> NoJob]
  /\ clock = 0
  /\ faults = 0

Tick == clock < MaxTime /\ clock' = clock + 1 /\ UNCHANGED <<attempts, choice, points, pc, job, faults>>
-----------------------------------------------------------------------------
Goto(k, label, j) ==
  /\ pc' = [pc EXCEPT ![k] = label]
  /\ job' = [job EXCEPT ![k] = j]

Done(k) == Goto(k, "idle", NoJob)

\* The attempt as it is loaded now, to be closed with the given status.
Close(k, a, status) ==
  Goto(k, "claim", [NoJob EXCEPT !.a = a, !.snap = choice[a], !.status = status])

\* finalizeIfExpired.
FinalizeIfExpired(k, a) ==
  IF a \in InProgress /\ IsExpired(a) THEN Close(k, a, "timed_out") ELSE Done(k)

\* start: an attempt in progress is resumed; else one is to be inserted, and
\* its clock starts now.
Start(k) ==
  /\ pc[k] = "idle"
  /\ IF InProgress # {} THEN \E a \in InProgress : FinalizeIfExpired(k, a)
     ELSE /\ clock + Duration <= MaxTime   \* bound: the clock must reach the end
          /\ Goto(k, "insert", [NoJob EXCEPT !.at = clock])
  /\ UNCHANGED <<attempts, choice, points, clock, faults>>

\* Mutant: no unique index on the attempts in progress.
InsertTwice(k) ==
  /\ pc[k] = "insert"
  /\ \E a \in Ids :
       /\ attempts[a].status = "none" /\ \A b \in 1..(a - 1) : attempts[b].status # "none"
       /\ attempts' = [attempts EXCEPT ![a] =
            [NoAttempt EXCEPT !.status = "in_progress", !.startedAt = job[k].at]]
       /\ Done(k)
  /\ UNCHANGED <<choice, points, clock, faults>>

\* The partial unique index lets one of two inserts through; the other call
\* turns to the attempt that won, or fails when that one is closed by then.
Insert(k) ==
  /\ pc[k] = "insert"
  /\ \/ \E a \in Ids :
          /\ InProgress = {}
          /\ attempts[a].status = "none" /\ \A b \in 1..(a - 1) : attempts[b].status # "none"
          /\ attempts' = [attempts EXCEPT ![a] =
               [NoAttempt EXCEPT !.status = "in_progress", !.startedAt = job[k].at]]
          /\ Done(k)
     \/ /\ InProgress # {}
        /\ Done(k) \/ \E a \in InProgress : FinalizeIfExpired(k, a)
        /\ UNCHANGED attempts
  /\ UNCHANGED <<choice, points, clock, faults>>

Get(k, a) ==
  /\ pc[k] = "idle" /\ a \in InProgress
  /\ FinalizeIfExpired(k, a)
  /\ UNCHANGED <<attempts, choice, points, clock, faults>>

\* submit: the time is compared when the attempt is loaded.
Submit(k, a) ==
  /\ pc[k] = "idle" /\ a \in InProgress
  /\ Close(k, a, IF IsExpired(a) THEN "timed_out" ELSE "submitted")
  /\ UNCHANGED <<attempts, choice, points, clock, faults>>

\* saveAnswers looks at the status, writes the answers, then acts as get.
Save(k, a, answers) ==
  /\ pc[k] = "idle" /\ a \in InProgress /\ answers # Unanswered
  /\ Goto(k, "save", [NoJob EXCEPT !.a = a, !.snap = answers])
  /\ UNCHANGED <<attempts, choice, points, clock, faults>>

WriteAnswers(k) ==
  /\ pc[k] = "save"
  /\ choice' = [choice EXCEPT ![job[k].a] =
       [q \in SingleChoice |-> IF job[k].snap[q] # None THEN job[k].snap[q] ELSE @[q]]]
  /\ Goto(k, "reload", [NoJob EXCEPT !.a = job[k].a])
  /\ UNCHANGED <<attempts, points, clock, faults>>

Reload(k) ==
  /\ pc[k] = "reload"
  /\ FinalizeIfExpired(k, job[k].a)
  /\ UNCHANGED <<attempts, choice, points, clock, faults>>
-----------------------------------------------------------------------------
\* Mutant: the scan asks for the attempts that end this very minute.
CronScanThisMinute ==
  /\ pc[Cron] = "idle"
  /\ \E a \in InProgress : /\ EndsAt(a) = clock
                            /\ Goto(Cron, "check", [NoJob EXCEPT !.a = a, !.snap = choice[a]])
  /\ UNCHANGED <<attempts, choice, points, clock, faults>>

\* finalizeExpiredInProgress: all attempts in progress are loaded, then each is
\* looked at in turn.
CronScan ==
  /\ pc[Cron] = "idle"
  /\ \E a \in InProgress : Goto(Cron, "check", [NoJob EXCEPT !.a = a, !.snap = choice[a]])
  /\ UNCHANGED <<attempts, choice, points, clock, faults>>

CronCheck ==
  /\ pc[Cron] = "check"
  /\ IF IsExpired(job[Cron].a)
     THEN Goto(Cron, "claim", [job[Cron] EXCEPT !.status = "timed_out"])
     ELSE Done(Cron)
  /\ UNCHANGED <<attempts, choice, points, clock, faults>>

\* What the loaded answers earn.
Awarded(snap, q) == IF snap[q] = "right" THEN PointsPossible(q) ELSE 0
Score(snap) == SumFunction([q \in SingleChoice |-> Awarded(snap, q)])

\* Mutant: the claim does not ask for the status.
ClaimAlways(k) ==
  /\ pc[k] = "claim"
  /\ LET j == job[k]  a == job[k].a IN
       /\ attempts' = [attempts EXCEPT
            ![a].status = j.status, ![a].ungraded = (Essays # {}),
            ![a].score = Score(j.snap)]
       /\ points' = [points EXCEPT ![a] =
            [q \in Questions |-> IF q \in Essays THEN None ELSE Awarded(j.snap, q)]]
  /\ Done(k)
  /\ UNCHANGED <<choice, clock, faults>>

\* claimAndGrade: one transaction; a missed claim writes nothing.
Claim(k) ==
  /\ pc[k] = "claim"
  /\ LET j == job[k]  a == job[k].a IN
       IF a \in InProgress
       THEN /\ attempts' = [attempts EXCEPT
                 ![a].status = j.status, ![a].ungraded = (Essays # {}),
                 ![a].score = Score(j.snap)]
            /\ points' = [points EXCEPT ![a] =
                 [q \in Questions |-> IF q \in Essays THEN None ELSE Awarded(j.snap, q)]]
       ELSE UNCHANGED <<attempts, points>>
  /\ Done(k)
  /\ UNCHANGED <<choice, clock, faults>>
-----------------------------------------------------------------------------
\* Mutant: the points are not compared with the share of the essay.
GradeUnbounded(k, a, e, g) ==
  /\ pc[k] = "idle" /\ IsClosed(a) /\ Latest(a)
  /\ Goto(k, "grade", [NoJob EXCEPT !.a = a, !.essay = e, !.grade = g])
  /\ UNCHANGED <<attempts, choice, points, clock, faults>>

\* gradeEssayAnswer: a teacher grades an answer of the latest attempt.  The handler
\* does not ask whether it is closed: that is an assumption about its callers, who
\* take the answer from the queue, and the queue lists closed attempts.
Grade(k, a, e, g) ==
  /\ pc[k] = "idle" /\ IsClosed(a) /\ Latest(a) /\ g <= PointsPossible(e)
  /\ Goto(k, "grade", [NoJob EXCEPT !.a = a, !.essay = e, !.grade = g])
  /\ UNCHANGED <<attempts, choice, points, clock, faults>>

WriteGrade(k) ==
  /\ pc[k] = "grade"
  /\ points' = [points EXCEPT ![job[k].a][job[k].essay] = job[k].grade]
  /\ Goto(k, "count", [NoJob EXCEPT !.a = job[k].a])
  /\ UNCHANGED <<attempts, choice, clock, faults>>

Remaining(a) == Cardinality({e \in Essays : points[a][e] = None})

\* Mutant: the flag is dropped with one essay to go.
ClearAtOne(k) ==
  /\ pc[k] = "count"
  /\ IF Remaining(job[k].a) <= 1
     THEN Goto(k, "clear", job[k]) ELSE Done(k)
  /\ UNCHANGED <<attempts, choice, points, clock, faults>>

CountRemaining(k) ==
  /\ pc[k] = "count"
  /\ IF Remaining(job[k].a) = 0 THEN Goto(k, "clear", job[k]) ELSE Done(k)
  /\ UNCHANGED <<attempts, choice, points, clock, faults>>

\* Mutant: the flag is dropped only while the attempt is still the latest.
ClearIfLatest(k) ==
  /\ pc[k] = "clear"
  /\ attempts' = [attempts EXCEPT ![job[k].a].ungraded = ~Latest(job[k].a)]
  /\ Done(k)
  /\ UNCHANGED <<choice, points, clock, faults>>

ClearFlag(k) ==
  /\ pc[k] = "clear"
  /\ attempts' = [attempts EXCEPT ![job[k].a].ungraded = FALSE]
  /\ Done(k)
  /\ UNCHANGED <<choice, points, clock, faults>>

\* A call is cut off between two of its statements.
Abort(k) ==
  /\ pc[k] # "idle" /\ faults < MaxFaults
  /\ faults' = faults + 1
  /\ Done(k)
  /\ UNCHANGED <<attempts, choice, points, clock>>
-----------------------------------------------------------------------------
Proceed(k) ==
  \/ Insert(k) \/ WriteAnswers(k) \/ Reload(k) \/ Claim(k)
  \/ WriteGrade(k) \/ CountRemaining(k) \/ ClearFlag(k)

CronStep == CronScan \/ CronCheck \/ Claim(Cron)

Next ==
  \/ Tick
  \/ \E k \in Calls :
       \/ Start(k) \/ Proceed(k)
       \/ \E a \in Ids : \/ Get(k, a) \/ Submit(k, a)
                         \/ \E answers \in [SingleChoice -> Answer] : Save(k, a, answers)
                         \/ \E e \in Essays, g \in Grades : Grade(k, a, e, g)
  \/ CronStep
  \/ \E k \in Workers : Abort(k)

Spec == Init /\ [][Next]_vars

\* Time passes and the job runs every minute.  No request need ever end, and the
\* student need never come back.
FairSpec == Spec /\ WF_vars(Tick) /\ WF_vars(CronStep)
-----------------------------------------------------------------------------
(* Properties *)

\* Every variable keeps its type; a worker holds a job only while it is busy.
TypeOK ==
  /\ attempts \in [Ids -> Attempt]
  /\ choice \in [Ids -> [SingleChoice -> Answer]]
  /\ points \in [Ids -> [Questions -> 0..TotalPoints \cup {None}]]
  /\ pc \in [Workers -> Labels]
  /\ job \in [Workers -> Job]
  /\ \A k \in Workers : pc[k] = "idle" => job[k] = NoJob
  /\ clock \in 0..MaxTime /\ faults \in 0..MaxFaults

\* A student has one attempt in progress at most, and an older one is not
\* reopened: two starts at once end up at the same attempt.
OneInProgress == Cardinality(InProgress) <= 1

\* The score of a closed attempt is the sum of its patches, whichever call closed
\* it, and leaves room for the essays on the scale of TotalPoints.
ScoreMatchesPatches ==
  \A a \in Ids : IsClosed(a) =>
    /\ attempts[a].score = SumFunctionOnSet(points[a], SingleChoice)
    /\ attempts[a].score + SumFunction([e \in Essays |-> PointsPossible(e)]) <= TotalPoints

\* Closing is final: no later request, late answer or second closer changes the
\* status or the score, and no grade is taken back to "ungraded".  An attempt is
\* timed out only when its time is up.
ClosedIsFinal ==
  [][\A a \in Ids :
       /\ a \in InProgress /\ attempts'[a].status = "timed_out" => clock >= EndsAt(a)
       /\ IsClosed(a) =>
            /\ attempts'[a] = [attempts[a] EXCEPT !.ungraded = attempts'[a].ungraded]
            /\ attempts'[a].ungraded => attempts[a].ungraded
            /\ \A q \in SingleChoice : points'[a][q] = points[a][q]
            /\ \A e \in Essays : points[a][e] # None => points'[a][e] # None]_vars

\* The statistics count an attempt only when every essay is graded ...
CountedIsGraded ==
  \A a \in Ids : IsClosed(a) /\ ~attempts[a].ungraded => Remaining(a) = 0

\* ... and a fully graded one does not stay out of them: once the teachers at
\* work on it are done, and none was cut off, it is counted.
GradedIsCounted ==
  \A a \in Ids :
    IsClosed(a) /\ Remaining(a) = 0 /\ faults = 0
      /\ (\A k \in Calls : job[k].a = a => pc[k] \notin {"count", "clear"})
    => ~attempts[a].ungraded

\* An attempt that was started is closed, whether or not the student comes back.
EveryAttemptCloses == \A a \in Ids : a \in InProgress ~> IsClosed(a)

\* The documented meaning of closing: the answers that are stored are settled
\* and graded.
StoredAnswersGraded ==
  \A a \in Ids : IsClosed(a) => \A q \in SingleChoice : points[a][q] = Awarded(choice[a], q)
-----------------------------------------------------------------------------
(* The inductive invariant behind them. *)

\* What a call that stands at label l with locals j may rely on.
CallOK(l, j) ==
  /\ l \in {"save", "reload", "check", "claim"} => j.a \in Ids /\ attempts[j.a].status # "none"
  /\ l = "claim" => j.status \in Closed /\ (j.status = "timed_out" => IsExpired(j.a))
  /\ l \in {"grade", "count", "clear"} => j.a \in Ids /\ IsClosed(j.a)
  /\ l = "grade" => j.essay \in Essays /\ j.grade <= PointsPossible(j.essay)
  /\ l = "clear" => Remaining(j.a) = 0

CallsOK == \A k \in Workers : CallOK(pc[k], job[k])

IInv ==
  /\ TypeOK /\ CallsOK
  /\ \A a, b \in InProgress : a = b
  /\ ScoreMatchesPatches /\ CountedIsGraded /\ GradedIsCounted
=============================================================================
