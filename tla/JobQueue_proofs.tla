--------------------------- MODULE JobQueue_proofs ---------------------------
(***************************************************************************)
(* Theorems about JobQueue for every number of jobs, workers, attempts and *)
(* faults, every lease length and every retry delay.                       *)
(*                                                                         *)
(* The argument: a claim hands out a token nobody has (TokensSpent), so no *)
(* two workers ever hold the same one (TokensUnique); the worker whose     *)
(* token is in the row was the last to claim it, so its copy of the row is *)
(* current (CopyIsCurrent) and what complete and fail write from the copy  *)
(* is what the row calls for (BudgetRespected, ReportIsCurrent).           *)
(***************************************************************************)
EXTENDS JobQueue, FiniteSetTheorems, TLAPS

-----------------------------------------------------------------------------
(* What the statements of the repository return, row by row *)

\* A row just committed is QUEUED and nobody has it.
LEMMA RowCreated ==
    ASSUME NEW t \in Nat
    PROVE  /\ NewRow(t) \in Row
           /\ NewRow(t).status = "QUEUED" /\ NewRow(t).attempts = 0
           /\ NewRow(t).report = 0
           /\ NewRow(t).token = NULL /\ NewRow(t).until = NULL
<1>1. AbsentRow \in Row
  BY AttemptsAssumption DEF AbsentRow, Row, Status, Terminal, Errors, NULL
<1>2. NewRow(t) \in Row
  BY <1>1 DEF NewRow, Row, Status
<1> QED
  BY <1>2 DEF NewRow, AbsentRow

\* A claim takes an attempt and gives the row a token and a lease.
LEMMA RowClaimed ==
    ASSUME NEW r \in Row, NEW k \in Nat, NEW t \in Nat, ~ Exhausted(r)
    PROVE  /\ Claimed(r, k, t) \in Row
           /\ Claimed(r, k, t).status = "PROCESSING"
           /\ Claimed(r, k, t).token = k
           /\ Claimed(r, k, t).until # NULL
           /\ Claimed(r, k, t).attempts = r.attempts + 1
           /\ Claimed(r, k, t).report = r.report
           /\ r.attempts + 1 \in 1..MaxAttempts
<1>1. r.attempts + 1 \in 0..MaxAttempts /\ r.attempts + 1 \in 1..MaxAttempts
  <2>1. r.attempts \in 0..MaxAttempts
    BY DEF Row
  <2> QED
    BY <2>1, AttemptsAssumption DEF Exhausted
<1>2. t + LeaseSeconds \in Nat /\ t + LeaseSeconds # NULL
  BY LeaseAssumption DEF NULL
<1> QED
  BY <1>1, <1>2 DEF Claimed, Row, Status, Errors

\* A row whose attempts are spent fails without a lease.
LEMMA RowReaped ==
    ASSUME NEW r \in Row
    PROVE  /\ Reaped(r) \in Row
           /\ Reaped(r).status = "FAILED"
           /\ Reaped(r).attempts = r.attempts /\ Reaped(r).report = r.report
           /\ Reaped(r).token = NULL /\ Reaped(r).until = NULL
BY DEF Reaped, Row, Status, Terminal, Errors, NULL

\* A completion keeps the row's attempts and writes the worker's into the report.
LEMMA RowCompleted ==
    ASSUME NEW Ids, NEW r \in Row, NEW job \in Job(Ids)
    PROVE  /\ Completed(r, job) \in Row
           /\ Completed(r, job).status = "COMPLETED"
           /\ Completed(r, job).attempts = r.attempts
           /\ Completed(r, job).report = job.attempts
           /\ Completed(r, job).token = NULL /\ Completed(r, job).until = NULL
<1>1. job.attempts \in 0..MaxAttempts
  BY AttemptsAssumption DEF Job
<1>2. Completed(r, job) \in Row
  BY <1>1 DEF Completed, Row, Status, Terminal, Errors, NULL
<1> QED
  BY <1>2 DEF Completed, Row

\* A failure of the last attempt is final, one before it queues the row again.
LEMMA RowFailed ==
    ASSUME NEW Ids, NEW r \in Row, NEW job \in Job(Ids), NEW t \in Nat
    PROVE  /\ Failed(r, job, t) \in Row
           /\ Failed(r, job, t).status =
                  IF LastAttempt(job) THEN "FAILED" ELSE "QUEUED"
           /\ Failed(r, job, t).attempts = r.attempts
           /\ Failed(r, job, t).report = r.report
           /\ Failed(r, job, t).token = NULL /\ Failed(r, job, t).until = NULL
<1>1. t + Backoff(job.attempts) \in Nat
  BY BackoffAssumption DEF Job
<1>2. LastAttempt(job) \in BOOLEAN
  BY DEF LastAttempt
<1>3. Failed(r, job, t) \in Row
  BY <1>1, <1>2 DEF Failed, Row, Status, Terminal, Errors, NULL
<1> QED
  BY <1>3 DEF Failed, Row

-----------------------------------------------------------------------------
(* The audit trail *)

Redrives(log) == {i \in 1..Len(log) : log[i] = "inspection_redrive_requested"}

\* The claims of the current cycle.
Claims(log) ==
    {i \in 1..Len(log) : /\ log[i] = "inspection_processing"
                         /\ \A r \in Redrives(log) : r < i}

\* What one more event does to the number of attempts the trail tells.
LEMMA AttemptsAppended ==
    ASSUME NEW log \in Seq(Event), NEW e \in Event
    PROVE  AttemptsIn(Append(log, e)) =
               IF e = "inspection_processing" THEN AttemptsIn(log) + 1
               ELSE IF e = "inspection_redrive_requested" THEN 0
               ELSE AttemptsIn(log)
<1> DEFINE n == Len(log)
           new == Append(log, e)
<1>1. /\ n \in Nat /\ Len(new) = n + 1 /\ new[n + 1] = e
      /\ \A i \in 1..n : new[i] = log[i] /\ i < n + 1 /\ i # n + 1
      /\ 1..(n + 1) = (1..n) \cup {n + 1}
  OBVIOUS
<1>2. AttemptsIn(log) = Cardinality(Claims(log)) /\ AttemptsIn(new) = Cardinality(Claims(new))
  BY DEF AttemptsIn, Claims, Redrives
<1>3. IsFiniteSet(Claims(log)) /\ n + 1 \notin Claims(log)
  <2>1. Claims(log) \in SUBSET (1..n)
    BY DEF Claims
  <2>2. IsFiniteSet(1..n)
    BY <1>1, FS_Interval
  <2> QED
    BY <1>1, <2>1, <2>2, FS_Subset
<1> HIDE DEF n, new
<1>4. CASE e = "inspection_processing"
  <2>1. Redrives(new) = Redrives(log)
    BY <1>1, <1>4 DEF Redrives, n
  <2>2. Claims(new) = Claims(log) \cup {n + 1}
    BY <1>1, <1>4, <2>1 DEF Claims, Redrives, n
  <2> QED
    BY <1>2, <1>3, <1>4, <2>2, FS_AddElement DEF new
<1>5. CASE e = "inspection_redrive_requested"
  <2>1. n + 1 \in Redrives(new) /\ \A i \in 1..(n + 1) : ~ (n + 1 < i)
    BY <1>1, <1>5 DEF Redrives
  <2>2. Claims(new) = {}
    BY <1>1, <2>1 DEF Claims
  <2> QED
    BY <1>2, <1>5, <2>2, FS_EmptySet DEF new
<1>6. CASE e \notin {"inspection_processing", "inspection_redrive_requested"}
  <2>1. Redrives(new) = Redrives(log)
    BY <1>1, <1>6 DEF Redrives, n
  <2>2. Claims(new) = Claims(log)
    BY <1>1, <1>6, <2>1 DEF Claims, n
  <2> QED
    BY <1>2, <1>6, <2>2 DEF new
<1> QED
  BY <1>4, <1>5, <1>6

\* An event that says what became of the row keeps the trail in step.
LEMMA ReplaysOn ==
    ASSUME NEW log \in Seq(Event), NEW e \in Event, NEW old, NEW new,
           Replays(log, old),
           new.status = StatusAfter(e),
           IF e = "inspection_processing"
           THEN old.status # "ABSENT" /\ new.attempts = old.attempts + 1
           ELSE IF e \in {"inspection_queued", "inspection_redrive_requested"}
           THEN new.attempts = 0 /\ (e = "inspection_queued" => log = <<>>)
           ELSE old.status # "ABSENT" /\ new.attempts = old.attempts
    PROVE  Replays(Append(log, e), new)
<1> DEFINE longer == Append(log, e)
<1>1. longer # <<>> /\ longer[Len(longer)] = e
  <2>1. /\ Len(log) \in Nat /\ Len(longer) = Len(log) + 1
        /\ longer[Len(log) + 1] = e
    OBVIOUS
  <2>2. Len(<<>>) = 0
    OBVIOUS
  <2> QED
    BY <2>1, <2>2
<1>2. new.attempts = AttemptsIn(longer)
  <2>1. AttemptsIn(longer) =
            IF e = "inspection_processing" THEN AttemptsIn(log) + 1
            ELSE IF e = "inspection_redrive_requested" THEN 0
            ELSE AttemptsIn(log)
    BY AttemptsAppended
  <2>2. CASE e = "inspection_queued"
    <3>1. Claims(<<>>) = {}
      <4>1. Len(<<>>) = 0
        OBVIOUS
      <4>2. 1..0 = {}
        OBVIOUS
      <4> QED
        BY <4>1, <4>2 DEF Claims
    <3>2. AttemptsIn(<<>>) = 0
      BY <3>1, FS_EmptySet DEF AttemptsIn, Claims, Redrives
    <3>3. log = <<>> /\ new.attempts = 0
      BY <2>2
    <3> QED
      BY <2>1, <2>2, <3>2, <3>3
  <2>3. CASE e = "inspection_redrive_requested"
    BY <2>1, <2>3
  <2>4. CASE e \notin {"inspection_queued", "inspection_redrive_requested"}
    <3>1. old.attempts = AttemptsIn(log)
      BY <2>4 DEF Replays
    <3> QED
      BY <2>1, <2>4, <3>1
  <2> QED
    BY <2>2, <2>3, <2>4
<1> QED
  BY <1>1, <1>2 DEF Replays

-----------------------------------------------------------------------------
(* Three ways a step can treat the table *)

\* Workers keep the job they have or let go of it.
Forgets == \A w \in Workers : held'[w] \in {held[w], NoJob}

\* A step that writes no row.
LEMMA QuietStep ==
    ASSUME IInv, TypeOK', LocalsMatch', NowIsPast', Forgets,
           UNCHANGED <<inspections, nextToken>>
    PROVE  IInv'
<1> USE DEF IInv
<1>1. LeaseShape' /\ BudgetRespected' /\ ReportIsCurrent'
  BY DEF LeaseShape, BudgetRespected, ReportIsCurrent
<1>2. TokensSpent'
  BY DEF TokensSpent, Forgets
<1>3. TokensUnique'
  BY DEF TokensUnique, Forgets
<1>4. CopyIsCurrent'
  BY DEF CopyIsCurrent, Owns, Forgets
<1> QED
  BY <1>1, <1>2, <1>3, <1>4

\* A step that leaves the row of j without a lease.
LEMMA ReleasingStep ==
    ASSUME IInv, TypeOK', LocalsMatch', NowIsPast', Forgets, nextToken' = nextToken,
           NEW j \in Jobs, NEW r \in Row, SetRow(j, r),
           r.status \notin {"PROCESSING", "ABSENT"},
           r.token = NULL, r.until = NULL,
           r.status = "QUEUED" => ~ Exhausted(r),
           r.status = "FAILED" => Exhausted(r),
           r.report = IF r.status = "COMPLETED" THEN r.attempts ELSE 0
    PROVE  IInv'
<1> USE DEF IInv
<1>1. /\ inspections'[j] = r
      /\ \A i \in Jobs : i # j => inspections'[i] = inspections[i]
  BY DEF TypeOK, SetRow
<1>2. LeaseShape'
  BY <1>1 DEF LeaseShape
<1>3. TokensSpent'
  <2>1. NULL < nextToken
    BY DEF TypeOK, NULL
  <2> QED
    BY <1>1, <2>1 DEF TokensSpent, Forgets
<1>4. TokensUnique'
  BY DEF TokensUnique, Forgets
<1>5. CopyIsCurrent'
  <2> SUFFICES ASSUME NEW w \in Workers, NEW i \in Jobs, Owns(w, i)'
               PROVE  /\ inspections'[i].status = "PROCESSING"
                      /\ inspections'[i].attempts = held'[w].attempts
    BY DEF CopyIsCurrent
  <2>1. held'[w] = held[w] /\ held[w] # NoJob
    BY DEF Owns, Forgets
  <2>2. held[w].token # NULL
    BY <2>1 DEF TypeOK, Job, NULL
  <2>3. i # j
    BY <1>1, <2>1, <2>2 DEF Owns
  <2> QED
    BY <1>1, <2>1, <2>3 DEF CopyIsCurrent, Owns
<1>6. BudgetRespected'
  BY <1>1 DEF BudgetRespected
<1>7. ReportIsCurrent'
  BY <1>1 DEF ReportIsCurrent
<1> QED
  BY <1>2, <1>3, <1>4, <1>5, <1>6, <1>7

\* A committed claim of j, whose job reaches worker w or nobody.
LEMMA ClaimingStep ==
    ASSUME IInv, TypeOK', LocalsMatch', NowIsPast',
           NEW j \in Jobs, NEW t \in Nat, NEW w \in Workers,
           Eligible(inspections[j], t), WriteClaim(j, t),
           \A v \in Workers :
               \/ held'[v] \in {held[v], NoJob}
               \/ /\ v = w
                  /\ held'[v] = [id |-> j, token |-> nextToken,
                                 attempts |-> inspections[j].attempts + 1]
    PROVE  IInv'
<1> USE DEF IInv
<1> DEFINE r == inspections[j]
           new == Claimed(r, nextToken, t)
<1>1. r \in Row /\ nextToken \in Nat /\ ~ Exhausted(r)
  BY DEF TypeOK, WriteClaim
<1>2. /\ new.status = "PROCESSING" /\ new.token = nextToken
      /\ new.until # NULL
      /\ new.attempts = r.attempts + 1 /\ new.report = r.report
      /\ r.attempts + 1 \in 1..MaxAttempts
  BY <1>1, RowClaimed
<1> HIDE DEF new
<1>3. /\ inspections'[j] = new
      /\ \A i \in Jobs : i # j => inspections'[i] = inspections[i]
      /\ nextToken' = nextToken + 1
  BY DEF TypeOK, WriteClaim, SetRow, new
<1>4. nextToken # NULL
  BY <1>1 DEF NULL
<1>5. LeaseShape'
  <2>1. new.attempts > 0
    BY <1>2
  <2> QED
    BY <1>2, <1>3, <1>4, <2>1 DEF LeaseShape
<1>6. TokensSpent'
  <2>1. \A i \in Jobs : inspections'[i].token < nextToken'
    <3> TAKE i \in Jobs
    <3>1. CASE i = j
      BY <1>1, <1>2, <1>3, <3>1
    <3>2. CASE i # j
      <4>1. inspections[i].token < nextToken
        BY DEF TokensSpent
      <4>2. inspections[i].token \in Nat \cup {NULL}
        BY DEF TypeOK, Row
      <4> QED
        BY <1>1, <1>3, <3>2, <4>1, <4>2 DEF NULL
    <3> QED
      BY <3>1, <3>2
  <2>2. \A v \in Workers : held'[v] # NoJob => held'[v].token < nextToken'
    <3> SUFFICES ASSUME NEW v \in Workers, held'[v] # NoJob
                 PROVE  held'[v].token < nextToken'
      OBVIOUS
    <3>1. CASE held'[v] = held[v]
      <4>1. held[v].token < nextToken /\ held[v].token \in Nat
        BY <3>1 DEF TokensSpent, TypeOK, Job
      <4> QED
        BY <1>1, <1>3, <3>1, <4>1
    <3>2. CASE held'[v] # held[v]
      <4>1. held'[v].token = nextToken
        BY <3>2
      <4> QED
        BY <1>1, <1>3, <4>1
    <3> QED
      BY <3>1, <3>2
  <2> QED
    BY <2>1, <2>2 DEF TokensSpent
<1>7. \A v \in Workers : held[v] # NoJob => held[v].token # nextToken
  BY <1>1, SMTT(30) DEF TokensSpent, TypeOK, Job
<1>8. TokensUnique'
  BY <1>7 DEF TokensUnique
<1>9. CopyIsCurrent'
  <2> SUFFICES ASSUME NEW v \in Workers, NEW i \in Jobs, Owns(v, i)'
               PROVE  /\ inspections'[i].status = "PROCESSING"
                      /\ inspections'[i].attempts = held'[v].attempts
    BY DEF CopyIsCurrent
  <2>1. CASE held'[v] = held[v]
    <3>1. i # j
      BY <1>2, <1>3, <1>7, <2>1 DEF Owns
    <3> QED
      BY <1>3, <2>1, <3>1 DEF CopyIsCurrent, Owns
  <2>2. CASE held'[v] # held[v]
    <3>1. held'[v] = [id |-> j, token |-> nextToken,
                      attempts |-> r.attempts + 1]
      BY <2>2 DEF Owns
    <3>2. i = j /\ held'[v].attempts = r.attempts + 1
      BY <3>1 DEF Owns
    <3> QED
      BY <1>2, <1>3, <3>2
  <2> QED
    BY <2>1, <2>2
<1>10. BudgetRespected'
  BY <1>2, <1>3 DEF BudgetRespected
<1>11. ReportIsCurrent'
  <2>1. r.report = 0
    BY DEF ReportIsCurrent, Eligible, Ready, Expired
  <2> QED
    BY <1>2, <1>3, <2>1 DEF ReportIsCurrent
<1> QED
  BY <1>5, <1>6, <1>8, <1>9, <1>10, <1>11

-----------------------------------------------------------------------------
(* The worker's locals, and the tables' types *)

LEMMA LeaveLocals ==
    ASSUME IInv, NEW w \in Workers, Leave(w), UNCHANGED clock
    PROVE  /\ pc' \in [Workers -> Steps] /\ now' \in [Workers -> Nat]
           /\ tries' \in [Workers -> 0..ClaimTries]
           /\ selected' \in [Workers -> Jobs \cup {NULL}]
           /\ held' \in [Workers -> Job(Jobs) \cup {NoJob}]
           /\ LocalsMatch' /\ NowIsPast' /\ Forgets
<1>1. 0 \in 0..ClaimTries
  BY BoundsAssumption
<1> QED
  BY <1>1 DEF IInv, TypeOK, Leave, LocalsMatch, NowIsPast, Forgets, Steps

LEMMA AgainLocals ==
    ASSUME IInv, NEW w \in Workers, pc[w] = "update", Again(w),
           UNCHANGED clock
    PROVE  /\ pc' \in [Workers -> Steps] /\ now' \in [Workers -> Nat]
           /\ tries' \in [Workers -> 0..ClaimTries]
           /\ selected' \in [Workers -> Jobs \cup {NULL}]
           /\ held' \in [Workers -> Job(Jobs) \cup {NoJob}]
           /\ LocalsMatch' /\ NowIsPast' /\ Forgets
BY DEF IInv, TypeOK, Again, LocalsMatch, NowIsPast, Forgets, Steps

LEMMA CallLocals ==
    ASSUME IInv, NEW w \in Workers, NEW step \in {"complete", "fail"},
           pc[w] \in {"infer", "complete", "fail"}, Call(w, step), UNCHANGED clock
    PROVE  /\ pc' \in [Workers -> Steps] /\ now' \in [Workers -> Nat]
           /\ tries' \in [Workers -> 0..ClaimTries]
           /\ selected' \in [Workers -> Jobs \cup {NULL}]
           /\ held' \in [Workers -> Job(Jobs) \cup {NoJob}]
           /\ LocalsMatch' /\ NowIsPast' /\ Forgets
BY DEF IInv, TypeOK, Call, LocalsMatch, NowIsPast, Forgets, Steps

LEMMA WrittenTables ==
    ASSUME IInv, NEW j \in Jobs, NEW r \in Row, NEW e \in Event,
           SetRow(j, r), Audit(j, e)
    PROVE  inspections' \in [Jobs -> Row] /\ events' \in [Jobs -> Seq(Event)]
<1>1. inspections' \in [Jobs -> Row]
  BY DEF IInv, TypeOK, SetRow
<1>2. Append(events[j], e) \in Seq(Event)
  <2>1. events[j] \in Seq(Event)
    BY DEF IInv, TypeOK
  <2> QED
    BY <2>1
<1>3. events' \in [Jobs -> Seq(Event)]
  BY <1>2 DEF IInv, TypeOK, Audit
<1> QED
  BY <1>1, <1>3

LEMMA FaultsCounted ==
    ASSUME IInv, Fault
    PROVE  faults' \in 0..MaxFaults
BY BoundsAssumption DEF IInv, TypeOK, Fault

-----------------------------------------------------------------------------
(* The fence of complete and fail *)

LEMMA FencedRow ==
    ASSUME IInv, NEW w \in Workers, pc[w] \in {"complete", "fail"}, Holds(w)
    PROVE  /\ held[w] \in Job(Jobs) /\ held[w].id \in Jobs
           /\ inspections[held[w].id] \in Row
           /\ inspections[held[w].id].status = "PROCESSING"
           /\ inspections[held[w].id].attempts = held[w].attempts
           /\ inspections[held[w].id].report = 0
<1>1. held[w] \in Job(Jobs) /\ held[w] # NoJob /\ held[w].id \in Jobs
  BY NoJobAssumption DEF IInv, TypeOK, LocalsMatch, Job
<1>2. Owns(w, held[w].id) /\ inspections[held[w].id].status = "PROCESSING"
  BY <1>1 DEF Holds, Fenced, Owns
<1> QED
  BY <1>1, <1>2 DEF IInv, TypeOK, CopyIsCurrent, ReportIsCurrent

\* complete(), acknowledged or not
LEMMA CompletingStep ==
    ASSUME IInv, NEW w \in Workers, pc[w] = "complete", Holds(w),
           WriteComplete(held[w]), UNCHANGED clock, faults' \in 0..MaxFaults,
           Leave(w) \/ Call(w, "fail")
    PROVE  IInv'
<1> DEFINE j == held[w].id
           r == Completed(inspections[j], held[w])
<1>1. /\ held[w] \in Job(Jobs) /\ j \in Jobs /\ inspections[j] \in Row
      /\ inspections[j].attempts = held[w].attempts
  BY FencedRow
<1>2. r \in Row
  BY <1>1, RowCompleted
<1>3. /\ r.status = "COMPLETED" /\ r.token = NULL /\ r.until = NULL
      /\ r.report = r.attempts
  BY <1>1 DEF Completed, Row
<1>4. SetRow(j, r) /\ Audit(j, "inspection_completed") /\ nextToken' = nextToken
  BY DEF WriteComplete
<1> HIDE DEF j, r
<1>5. inspections' \in [Jobs -> Row] /\ events' \in [Jobs -> Seq(Event)]
  <2>1. "inspection_completed" \in Event
    BY DEF Event
  <2> QED
    BY <1>1, <1>2, <1>4, <2>1, WrittenTables
<1>6. TypeOK' /\ LocalsMatch' /\ NowIsPast' /\ Forgets
  <2>1. CASE Leave(w)
    BY <1>4, <1>5, <2>1, LeaveLocals DEF IInv, TypeOK
  <2>2. CASE Call(w, "fail")
    BY <1>4, <1>5, <2>2, CallLocals DEF IInv, TypeOK
  <2> QED
    BY <2>1, <2>2
<1> QED
  BY <1>1, <1>2, <1>3, <1>4, <1>6, ReleasingStep

\* fail(): the branch taken from the copy is the one the row calls for.
LEMMA FailingStep ==
    ASSUME IInv, NEW w \in Workers, FailJob(w)
    PROVE  IInv'
<1> DEFINE j == held[w].id
           r == Failed(inspections[j], held[w], now[w])
           e == IF LastAttempt(held[w]) THEN "inspection_failed"
                ELSE "inspection_retry_scheduled"
<1>1. /\ held[w] \in Job(Jobs) /\ j \in Jobs /\ inspections[j] \in Row
      /\ inspections[j].attempts = held[w].attempts
      /\ inspections[j].report = 0
  BY FencedRow DEF FailJob
<1>2. r \in Row
  BY <1>1, RowFailed DEF IInv, TypeOK
<1>3. /\ r.status = IF LastAttempt(held[w]) THEN "FAILED" ELSE "QUEUED"
      /\ r.token = NULL /\ r.until = NULL /\ r.report = 0
      /\ r.attempts = held[w].attempts
  BY <1>1 DEF Failed, Row
<1>4. LastAttempt(held[w]) <=> Exhausted(r)
  BY <1>3 DEF LastAttempt, Exhausted
<1>5. /\ SetRow(j, r) /\ Audit(j, e) /\ Leave(w)
      /\ nextToken' = nextToken /\ UNCHANGED <<clock, faults>>
  BY DEF FailJob
<1>6. e \in Event
  BY DEF Event
<1> HIDE DEF j, r, e
<1>7. inspections' \in [Jobs -> Row] /\ events' \in [Jobs -> Seq(Event)]
  BY <1>1, <1>2, <1>5, <1>6, WrittenTables
<1>8. TypeOK' /\ LocalsMatch' /\ NowIsPast' /\ Forgets
  BY <1>5, <1>7, LeaveLocals DEF IInv, TypeOK
<1> QED
  BY <1>1, <1>2, <1>3, <1>4, <1>5, <1>8, ReleasingStep

LEMMA ReapingStep ==
    ASSUME IInv, NEW w \in Workers, Reap(w)
    PROVE  IInv'
<1> DEFINE j == selected[w]
           r == Reaped(inspections[j])
<1>1. j \in Jobs /\ inspections[j] \in Row
  BY DEF IInv, TypeOK, LocalsMatch, Reap, CanClaim
<1>2. inspections[j].status \in {"QUEUED", "PROCESSING"}
  BY DEF Reap, CanClaim, Eligible, Ready, Expired
<1>3. inspections[j].report = 0
  BY <1>1, <1>2 DEF IInv, ReportIsCurrent
<1>4. r \in Row
  BY <1>1, RowReaped
<1>5. /\ r.status = "FAILED" /\ r.token = NULL /\ r.until = NULL
      /\ r.report = 0 /\ Exhausted(r)
  BY <1>1, <1>3 DEF Reaped, Row, Reap, Exhausted
<1>6. /\ SetRow(j, r) /\ Audit(j, "inspection_failed") /\ Again(w)
      /\ nextToken' = nextToken /\ UNCHANGED <<clock, faults>>
      /\ pc[w] = "update"
  BY DEF Reap, CanClaim
<1>7. "inspection_failed" \in Event
  BY DEF Event
<1> HIDE DEF j, r
<1>8. inspections' \in [Jobs -> Row] /\ events' \in [Jobs -> Seq(Event)]
  BY <1>1, <1>4, <1>6, <1>7, WrittenTables
<1>9. TypeOK' /\ LocalsMatch' /\ NowIsPast' /\ Forgets
  BY <1>6, <1>8, AgainLocals DEF IInv, TypeOK
<1> QED
  BY <1>1, <1>4, <1>5, <1>6, <1>9, ReleasingStep

LEMMA CreatingStep ==
    ASSUME IInv, NEW j \in Jobs, Create(j)
    PROVE  IInv'
<1> DEFINE r == NewRow(clock)
<1>1. r \in Row
  BY RowCreated DEF IInv, TypeOK
<1>2. /\ r.status = "QUEUED" /\ r.token = NULL /\ r.until = NULL
      /\ r.report = 0 /\ r.attempts = 0
  BY DEF NewRow, AbsentRow
<1>3. ~ Exhausted(r)
  BY <1>2, AttemptsAssumption DEF Exhausted
<1>4. /\ SetRow(j, r) /\ Audit(j, "inspection_queued")
      /\ UNCHANGED <<nextToken, clock, locals, faults>>
  BY DEF Create
<1>5. "inspection_queued" \in Event
  BY DEF Event
<1> HIDE DEF r
<1>6. inspections' \in [Jobs -> Row] /\ events' \in [Jobs -> Seq(Event)]
  BY <1>1, <1>4, <1>5, WrittenTables
<1>7. TypeOK' /\ LocalsMatch' /\ NowIsPast' /\ Forgets
  BY <1>4, <1>6 DEF IInv, TypeOK, LocalsMatch, NowIsPast, Forgets, locals
<1> QED
  BY <1>1, <1>2, <1>3, <1>4, <1>7, ReleasingStep

\* What a committed claim writes has its types, whoever gets the job.
LEMMA ClaimedTables ==
    ASSUME IInv, NEW w \in Workers, CanClaim(w), WriteClaim(selected[w], now[w])
    PROVE  /\ selected[w] \in Jobs /\ now[w] \in Nat
           /\ Eligible(inspections[selected[w]], now[w])
           /\ inspections[selected[w]].attempts + 1 \in 1..MaxAttempts
           /\ inspections' \in [Jobs -> Row] /\ events' \in [Jobs -> Seq(Event)]
           /\ nextToken \in Nat /\ nextToken' \in Nat
<1> DEFINE j == selected[w]
           r == Claimed(inspections[j], nextToken, now[w])
<1>1. j \in Jobs /\ now[w] \in Nat /\ inspections[j] \in Row /\ nextToken \in Nat
  BY DEF IInv, TypeOK, LocalsMatch, CanClaim
<1>2. /\ SetRow(j, r) /\ Audit(j, "inspection_processing")
      /\ nextToken' = nextToken + 1 /\ ~ Exhausted(inspections[j])
      /\ Eligible(inspections[j], now[w])
  BY DEF WriteClaim, CanClaim
<1>3. r \in Row /\ inspections[j].attempts + 1 \in 1..MaxAttempts
  BY <1>1, <1>2, RowClaimed
<1>4. "inspection_processing" \in Event
  BY DEF Event
<1> HIDE DEF r
<1>5. inspections' \in [Jobs -> Row] /\ events' \in [Jobs -> Seq(Event)]
  BY <1>1, <1>2, <1>3, <1>4, WrittenTables
<1> QED
  BY <1>1, <1>2, <1>3, <1>5

LEMMA TakingStep ==
    ASSUME IInv, NEW w \in Workers, Take(w)
    PROVE  IInv'
<1> DEFINE job == [id |-> selected[w], token |-> nextToken,
                   attempts |-> inspections[selected[w]].attempts + 1]
<1>1. CanClaim(w) /\ WriteClaim(selected[w], now[w]) /\ pc[w] = "update"
  BY DEF Take, CanClaim
<1>2. job \in Job(Jobs) /\ job # NoJob
  BY <1>1, ClaimedTables, NoJobAssumption DEF Job
<1>0. Copy(selected[w], inspections'[selected[w]]) = job
  <2>1. /\ selected[w] \in Jobs /\ inspections[selected[w]] \in Row
        /\ now[w] \in Nat /\ nextToken \in Nat
        /\ ~ Exhausted(inspections[selected[w]])
    BY <1>1, ClaimedTables DEF IInv, TypeOK, WriteClaim
  <2>2. inspections'[selected[w]]
          = Claimed(inspections[selected[w]], nextToken, now[w])
    BY <1>1, <2>1 DEF IInv, TypeOK, WriteClaim, SetRow
  <2> QED
    BY <2>1, <2>2, RowClaimed DEF Copy
<1>3. /\ held' = [held EXCEPT ![w] = job]
      /\ pc' = [pc EXCEPT ![w] = "infer"]
      /\ tries' = [tries EXCEPT ![w] = 0]
      /\ selected' = [selected EXCEPT ![w] = NULL]
      /\ now' = [now EXCEPT ![w] = 0]
      /\ UNCHANGED <<clock, faults>>
  BY <1>0 DEF Take
<1>4. 0 \in 0..ClaimTries
  BY BoundsAssumption
<1>5. \A v \in Workers : \/ held'[v] \in {held[v], NoJob}
                         \/ v = w /\ held'[v] = job
  BY <1>3 DEF IInv, TypeOK
<1>6. TypeOK'
  <2> HIDE DEF job
  <2> QED
    BY <1>1, <1>2, <1>3, <1>4, ClaimedTables DEF IInv, TypeOK, Steps
<1>7. LocalsMatch' /\ NowIsPast'
  <2> HIDE DEF job
  <2> QED
    BY <1>2, <1>3 DEF IInv, TypeOK, LocalsMatch, NowIsPast
<1> QED
  BY <1>1, <1>5, <1>6, <1>7, ClaimedTables, ClaimingStep

LEMMA LosingStep ==
    ASSUME IInv, NEW w \in Workers, LostClaim(w)
    PROVE  IInv'
<1>1. /\ CanClaim(w) /\ WriteClaim(selected[w], now[w])
      /\ Leave(w) /\ Fault /\ UNCHANGED clock
  BY DEF LostClaim
<1>2. TypeOK' /\ LocalsMatch' /\ NowIsPast' /\ Forgets
  BY <1>1, LeaveLocals, ClaimedTables, FaultsCounted DEF IInv, TypeOK
<1> QED
  BY <1>1, <1>2, ClaimedTables, ClaimingStep DEF Forgets

-----------------------------------------------------------------------------
(* The invariant *)

LEMMA InitInv == Init => IInv
<1> SUFFICES ASSUME Init PROVE IInv
  OBVIOUS
<1> USE DEF Init
<1>1. AbsentRow \in Row
  BY AttemptsAssumption DEF AbsentRow, Row, Status, Terminal, Errors, NULL
<1>2. TypeOK
  BY <1>1, BoundsAssumption DEF TypeOK, Steps
<1>3. LeaseShape /\ BudgetRespected /\ ReportIsCurrent
  BY DEF LeaseShape, BudgetRespected, ReportIsCurrent, AbsentRow, NULL
<1>4. TokensSpent /\ TokensUnique /\ CopyIsCurrent /\ LocalsMatch /\ NowIsPast
  BY DEF TokensSpent, TokensUnique, CopyIsCurrent, LocalsMatch, NowIsPast,
         Owns, AbsentRow, NULL
<1> QED
  BY <1>2, <1>3, <1>4 DEF IInv

LEMMA WorkerStepInv ==
    ASSUME IInv, NEW w \in Workers, WorkerStep(w)
    PROVE  IInv'
<1> USE DEF database, locals
<1>1. CASE Poll(w)
  <2>1. TypeOK' /\ LocalsMatch' /\ NowIsPast' /\ Forgets
    BY <1>1 DEF IInv, TypeOK, LocalsMatch, NowIsPast, Forgets, Poll, Steps
  <2> QED
    BY <1>1, <2>1, QuietStep DEF Poll
<1>2. CASE Select(w)
  <2>1. tries[w] + 1 \in 0..ClaimTries
    BY <1>2, BoundsAssumption DEF IInv, TypeOK, Select
  <2>2. TypeOK' /\ LocalsMatch' /\ NowIsPast' /\ Forgets
    BY <1>2, <2>1 DEF IInv, TypeOK, LocalsMatch, NowIsPast, Forgets, Select, Steps
  <2> QED
    BY <1>2, <2>2, QuietStep DEF Select
<1>3. CASE NoWork(w)
  BY <1>3, LeaveLocals, QuietStep DEF NoWork, IInv, TypeOK
<1>4. CASE LostRace(w)
  BY <1>4, AgainLocals, QuietStep DEF LostRace, IInv, TypeOK
<1>5. CASE Take(w)
  BY <1>5, TakingStep
<1>6. CASE Reap(w)
  BY <1>6, ReapingStep
<1>7. CASE Infer(w)
  BY <1>7, CallLocals, QuietStep DEF Infer, IInv, TypeOK
<1>8. CASE InferRaises(w)
  BY <1>8, CallLocals, QuietStep DEF InferRaises, IInv, TypeOK
<1>9. CASE Complete(w)
  BY <1>9, CompletingStep DEF Complete, IInv, TypeOK
<1>10. CASE Discard(w)
  BY <1>10, LeaveLocals, QuietStep DEF Discard, IInv, TypeOK
<1>11. CASE FailJob(w)
  BY <1>11, FailingStep
<1>12. CASE DropFailure(w)
  BY <1>12, LeaveLocals, QuietStep DEF DropFailure, IInv, TypeOK
<1> QED
  BY <1>1, <1>2, <1>3, <1>4, <1>5, <1>6, <1>7, <1>8, <1>9, <1>10, <1>11, <1>12
  DEF WorkerStep

LEMMA FaultStepInv ==
    ASSUME IInv, NEW w \in Workers, FaultStep(w)
    PROVE  IInv'
<1>1. CASE Crash(w)
  BY <1>1, LeaveLocals, FaultsCounted, QuietStep
  DEF Crash, IInv, TypeOK, database
<1>2. CASE LostClaim(w)
  BY <1>2, LosingStep
<1>3. CASE CompleteRaises(w)
  BY <1>3, CallLocals, FaultsCounted, QuietStep
  DEF CompleteRaises, IInv, TypeOK, database
<1>4. CASE CompleteAckLost(w)
  BY <1>4, FaultsCounted, CompletingStep DEF CompleteAckLost
<1> QED
  BY <1>1, <1>2, <1>3, <1>4 DEF FaultStep

LEMMA NextInv == IInv /\ [Next]_vars => IInv'
<1> SUFFICES ASSUME IInv, [Next]_vars PROVE IInv'
  OBVIOUS
<1>1. CASE \E j \in Jobs : Create(j)
  BY <1>1, CreatingStep
<1>2. CASE Tick
  <2>1. TypeOK' /\ LocalsMatch' /\ NowIsPast' /\ Forgets
    BY <1>2 DEF IInv, TypeOK, LocalsMatch, NowIsPast, Forgets, Tick, database, locals
  <2> QED
    BY <1>2, <2>1, QuietStep DEF Tick, database
<1>3. CASE \E w \in Workers : WorkerStep(w) \/ FaultStep(w)
  BY <1>3, WorkerStepInv, FaultStepInv
<1>4. CASE UNCHANGED vars
  <2>1. TypeOK' /\ LocalsMatch' /\ NowIsPast' /\ Forgets
    BY <1>4 DEF IInv, TypeOK, LocalsMatch, NowIsPast, Forgets, vars, database, locals
  <2> QED
    BY <1>4, <2>1, QuietStep DEF vars, database
<1> QED
  BY <1>1, <1>2, <1>3, <1>4 DEF Next

\* Types, leases, tokens, copies, budgets and reports are sound at every
\* instant, whatever workers, crashes and delays do (repository.py, worker.py).
THEOREM Invariance == Spec => []IInv
BY InitInv, NextInv, PTL DEF Spec

\* Every column, audit trail and local keeps its type.
THEOREM TypeCorrect == Spec => []TypeOK
<1>1. IInv => TypeOK
  BY DEF IInv
<1> QED
  BY <1>1, Invariance, PTL

\* The lease fence has one owner at most.
THEOREM Ownership == Spec => []OneOwner
<1>1. IInv => OneOwner
  BY DEF IInv, OneOwner, TokensUnique, Owns
<1> QED
  BY <1>1, Invariance, PTL

\* fail() and complete() write from a copy that agrees with the row.
THEOREM CopiesCurrent == Spec => []CopyIsCurrent
<1>1. IInv => CopyIsCurrent
  BY DEF IInv
<1> QED
  BY <1>1, Invariance, PTL

\* No job waits without a budget or is failed with one left.
THEOREM Budgets == Spec => []BudgetRespected
<1>1. IInv => BudgetRespected
  BY DEF IInv
<1> QED
  BY <1>1, Invariance, PTL

\* A published report is the latest attempt's, and only COMPLETED jobs have one.
THEOREM Reports == Spec => []ReportIsCurrent
<1>1. IInv => ReportIsCurrent
  BY DEF IInv
<1> QED
  BY <1>1, Invariance, PTL

-----------------------------------------------------------------------------
(* What each step does to the rows *)

\* Every step is one of five things to the tables.
Writes(j, r, e) == j \in Jobs /\ SetRow(j, r) /\ Audit(j, e)

CreateRow ==
    \E j \in Jobs : /\ inspections[j].status = "ABSENT"
                    /\ Writes(j, NewRow(clock), "inspection_queued")

ClaimRow ==
    \E j \in Jobs : \E t \in 0..clock :
        /\ Eligible(inspections[j], t) /\ ~ Exhausted(inspections[j])
        /\ Writes(j, Claimed(inspections[j], nextToken, t), "inspection_processing")

ReapRow ==
    \E j \in Jobs :
        /\ inspections[j].status = "PROCESSING" /\ Exhausted(inspections[j])
        /\ Writes(j, Reaped(inspections[j]), "inspection_failed")

CompleteRow ==
    \E w \in Workers :
        /\ pc[w] = "complete" /\ Holds(w)
        /\ WriteComplete(held[w])

FailRow == \E w \in Workers : FailJob(w)

LEMMA StepsOnTables ==
    ASSUME IInv, [Next]_vars
    PROVE  \/ UNCHANGED <<inspections, events>>
           \/ CreateRow \/ ClaimRow \/ ReapRow \/ CompleteRow \/ FailRow
<1> USE DEF database
<1>1. CASE \E j \in Jobs : Create(j)
  BY <1>1 DEF Create, CreateRow, Writes
<1>2. CASE Tick \/ UNCHANGED vars
  BY <1>2 DEF Tick, vars
<1>3. ASSUME NEW w \in Workers, WorkerStep(w) \/ FaultStep(w)
      PROVE  \/ UNCHANGED <<inspections, events>>
             \/ ClaimRow \/ ReapRow \/ CompleteRow \/ FailRow
  <2>1. ASSUME CanClaim(w), WriteClaim(selected[w], now[w])
        PROVE  ClaimRow
    <3>1. selected[w] \in Jobs /\ now[w] \in 0..clock
      BY <2>1 DEF IInv, TypeOK, LocalsMatch, NowIsPast, CanClaim
    <3> QED
      BY <2>1, <3>1 DEF ClaimRow, Writes, CanClaim, WriteClaim
  <2>2. ASSUME Reap(w)
        PROVE  ReapRow
    <3>1. selected[w] \in Jobs
      BY <2>2 DEF IInv, TypeOK, LocalsMatch, Reap, CanClaim
    <3>2. inspections[selected[w]].status = "PROCESSING"
      BY <2>2, <3>1
      DEF IInv, BudgetRespected, Reap, CanClaim, Eligible, Ready, Expired
    <3> QED
      BY <2>2, <3>1, <3>2 DEF ReapRow, Writes, Reap
  <2>3. CASE Take(w) \/ LostClaim(w)
    BY <2>1, <2>3 DEF Take, LostClaim
  <2>4. CASE Reap(w)
    BY <2>2, <2>4
  <2>5. CASE Complete(w) \/ CompleteAckLost(w)
    BY <2>5 DEF Complete, CompleteAckLost, CompleteRow
  <2>6. CASE FailJob(w)
    BY <2>6 DEF FailRow
  <2>7. CASE \/ Poll(w) \/ Select(w) \/ NoWork(w) \/ LostRace(w) \/ Infer(w)
             \/ InferRaises(w) \/ Discard(w) \/ DropFailure(w) \/ Crash(w)
             \/ CompleteRaises(w)
    BY <2>7 DEF Poll, Select, NoWork, LostRace, Infer, InferRaises, Discard,
                DropFailure, Crash, CompleteRaises
  <2> QED
    BY <1>3, <2>3, <2>4, <2>5, <2>6, <2>7 DEF WorkerStep, FaultStep
<1> QED
  BY <1>1, <1>2, <1>3 DEF Next

\* A step writes at most one row and its trail.
LEMMA OneRow ==
    ASSUME IInv, NEW j, NEW r, NEW e, Writes(j, r, e)
    PROVE  /\ inspections'[j] = r
           /\ \A i \in Jobs \ {j} : UNCHANGED <<inspections[i], events[i]>>
BY DEF IInv, TypeOK, Writes, SetRow, Audit

\* No step writes a COMPLETED or FAILED row or its trail: a late worker, a
\* duplicate claim or the fail() after a lost acknowledgement changes nothing.
THEOREM TerminalForEver == Spec => TerminalIsFinal
<1>1. IInv /\ [Next]_vars => TerminalRowsKept
  <2> SUFFICES ASSUME IInv, [Next]_vars, NEW i \in Jobs,
                      inspections[i].status \in Terminal
               PROVE  UNCHANGED <<inspections[i], events[i]>>
    BY DEF TerminalRowsKept
  <2> USE DEF Terminal
  <2>1. CASE UNCHANGED <<inspections, events>>
    BY <2>1
  <2>2. CASE CreateRow
    BY <2>2, OneRow DEF CreateRow
  <2>3. CASE ClaimRow
    BY <2>3, OneRow DEF ClaimRow, Eligible, Ready, Expired
  <2>4. CASE ReapRow
    BY <2>4, OneRow DEF ReapRow
  <2>5. CASE CompleteRow
    <3>1. PICK w \in Workers : /\ pc[w] = "complete" /\ Holds(w)
                               /\ WriteComplete(held[w])
      BY <2>5 DEF CompleteRow
    <3>2. held[w].id \in Jobs /\ inspections[held[w].id].status = "PROCESSING"
      BY <3>1, FencedRow
    <3> QED
      BY <3>1, <3>2, OneRow DEF WriteComplete, Writes
  <2>6. CASE FailRow
    <3>1. PICK w \in Workers : FailJob(w)
      BY <2>6 DEF FailRow
    <3>2. held[w].id \in Jobs /\ inspections[held[w].id].status = "PROCESSING"
      BY <3>1, FencedRow DEF FailJob
    <3> QED
      BY <3>1, <3>2, OneRow DEF FailJob, Writes
  <2> QED
    BY <2>1, <2>2, <2>3, <2>4, <2>5, <2>6, StepsOnTables
<1> QED
  BY <1>1, Invariance, PTL DEF Spec, TerminalIsFinal

\* A token enters a row only when its lease ran out or its retry is due by the
\* clock itself, though claim compares with a time it read earlier.
THEOREM ClaimsNeverEarly == Spec => NeverEarly
<1>1. IInv /\ [Next]_vars => ClaimsInTime
  <2> SUFFICES ASSUME IInv, [Next]_vars, NEW i \in Jobs,
                      inspections'[i].token \notin {inspections[i].token, NULL}
               PROVE  Eligible(inspections[i], clock)
    BY DEF ClaimsInTime
  <2>1. CASE UNCHANGED <<inspections, events>>
    BY <2>1
  <2>2. CASE CreateRow
    <3>1. PICK j \in Jobs : Writes(j, NewRow(clock), "inspection_queued")
      BY <2>2 DEF CreateRow
    <3>2. NewRow(clock).token = NULL
      BY DEF NewRow, AbsentRow
    <3> QED
      BY <3>1, <3>2, OneRow
  <2>3. CASE ClaimRow
    <3>1. PICK j \in Jobs, t \in 0..clock :
            /\ Eligible(inspections[j], t)
            /\ Writes(j, Claimed(inspections[j], nextToken, t),
                      "inspection_processing")
      BY <2>3 DEF ClaimRow
    <3>2. i = j
      BY <3>1, OneRow
    <3>3. /\ inspections[j].available \in Nat
          /\ inspections[j].until \in Nat \cup {NULL}
          /\ clock \in Nat
      BY DEF IInv, TypeOK, Row
    <3> QED
      BY <3>1, <3>2, <3>3 DEF Eligible, Ready, Expired, NULL
  <2>4. CASE ReapRow
    <3>1. PICK j \in Jobs : Writes(j, Reaped(inspections[j]), "inspection_failed")
      BY <2>4 DEF ReapRow
    <3>2. inspections[j] \in Row
      BY DEF IInv, TypeOK
    <3>3. Reaped(inspections[j]).token = NULL
      BY <3>2 DEF Reaped, Row
    <3> QED
      BY <3>1, <3>3, OneRow
  <2>5. CASE CompleteRow
    <3>1. PICK w \in Workers : /\ pc[w] = "complete" /\ Holds(w)
                               /\ WriteComplete(held[w])
      BY <2>5 DEF CompleteRow
    <3>2. held[w].id \in Jobs /\ inspections[held[w].id] \in Row
      BY <3>1, FencedRow
    <3>3. Completed(inspections[held[w].id], held[w]).token = NULL
      BY <3>2 DEF Completed, Row
    <3> QED
      BY <3>1, <3>2, <3>3, OneRow DEF WriteComplete, Writes
  <2>6. CASE FailRow
    <3>1. PICK w \in Workers : FailJob(w)
      BY <2>6 DEF FailRow
    <3>2. held[w].id \in Jobs /\ inspections[held[w].id] \in Row
      BY <3>1, FencedRow DEF FailJob
    <3>3. Failed(inspections[held[w].id], held[w], now[w]).token = NULL
      BY <3>2 DEF Failed, Row
    <3> QED
      BY <3>1, <3>2, <3>3, OneRow DEF FailJob, Writes
  <2> QED
    BY <2>1, <2>2, <2>3, <2>4, <2>5, <2>6, StepsOnTables
<1> QED
  BY <1>1, Invariance, PTL DEF Spec, NeverEarly

-----------------------------------------------------------------------------
(* The audit trail *)

LEMMA InitTrail == Init => TrailReplays
BY DEF Init, TrailReplays, Replays, AbsentRow

\* A row that was not created has no trail.
LEMMA NoTrail ==
    ASSUME IInv, TrailReplays, NEW j \in Jobs, inspections[j].status = "ABSENT"
    PROVE  events[j] = <<>>
<1> SUFFICES ASSUME events[j] # <<>>
             PROVE  FALSE
  OBVIOUS
<1>1. events[j] \in Seq(Event)
  BY DEF IInv, TypeOK
<1>2. events[j][Len(events[j])] \in Event
  BY <1>1
<1>3. StatusAfter(events[j][Len(events[j])]) # "ABSENT"
  BY <1>2 DEF StatusAfter, Event
<1>4. inspections[j].status = StatusAfter(events[j][Len(events[j])])
  BY DEF TrailReplays, Replays
<1> QED
  BY <1>3, <1>4

\* A row and its event, written together, agree.
LEMMA TrailWritten ==
    ASSUME IInv, TrailReplays, NEW j, NEW r, NEW e \in Event, Writes(j, r, e),
           r.status = StatusAfter(e),
           IF e = "inspection_processing"
           THEN /\ inspections[j].status # "ABSENT"
                /\ r.attempts = inspections[j].attempts + 1
           ELSE IF e \in {"inspection_queued", "inspection_redrive_requested"}
           THEN r.attempts = 0 /\ (e = "inspection_queued" => events[j] = <<>>)
           ELSE /\ inspections[j].status # "ABSENT"
                /\ r.attempts = inspections[j].attempts
    PROVE  TrailReplays'
<1>1. j \in Jobs /\ events[j] \in Seq(Event) /\ Replays(events[j], inspections[j])
  BY DEF Writes, IInv, TypeOK, TrailReplays
<1>2. Replays(Append(events[j], e), r)
  BY <1>1, ReplaysOn
<1>3. inspections'[j] = r /\ events'[j] = Append(events[j], e)
  BY <1>1 DEF Writes, SetRow, Audit, IInv, TypeOK
<1>4. \A i \in Jobs \ {j} : UNCHANGED <<inspections[i], events[i]>>
  BY OneRow
<1>5. \A i \in Jobs : Replays(events'[i], inspections'[i])
  BY <1>2, <1>3, <1>4 DEF TrailReplays
<1> QED
  BY <1>5 DEF TrailReplays

LEMMA TrailKept == IInv /\ TrailReplays /\ [Next]_vars => TrailReplays'
<1> SUFFICES ASSUME IInv, TrailReplays, [Next]_vars
             PROVE  TrailReplays'
  OBVIOUS
<1> USE DEF StatusAfter, Event
<1>1. CASE UNCHANGED <<inspections, events>>
  BY <1>1 DEF TrailReplays
<1>2. CASE CreateRow
  <2>1. PICK j \in Jobs : /\ inspections[j].status = "ABSENT"
                          /\ Writes(j, NewRow(clock), "inspection_queued")
    BY <1>2 DEF CreateRow
  <2>2. NewRow(clock).status = "QUEUED" /\ NewRow(clock).attempts = 0
    BY RowCreated DEF IInv, TypeOK
  <2>3. events[j] = <<>>
    BY <2>1, NoTrail
  <2> QED
    BY <2>1, <2>2, <2>3, TrailWritten
<1>3. CASE ClaimRow
  <2>1. PICK j \in Jobs, t \in 0..clock :
          /\ Eligible(inspections[j], t) /\ ~ Exhausted(inspections[j])
          /\ Writes(j, Claimed(inspections[j], nextToken, t),
                    "inspection_processing")
    BY <1>3 DEF ClaimRow
  <2>2. inspections[j] \in Row /\ nextToken \in Nat /\ t \in Nat
    BY DEF IInv, TypeOK
  <2>3. /\ Claimed(inspections[j], nextToken, t).status = "PROCESSING"
        /\ Claimed(inspections[j], nextToken, t).attempts
               = inspections[j].attempts + 1
    BY <2>1, <2>2, RowClaimed
  <2>4. inspections[j].status # "ABSENT"
    BY <2>1 DEF Eligible, Ready, Expired
  <2> QED
    BY <2>1, <2>3, <2>4, TrailWritten
<1>4. CASE ReapRow
  <2>1. PICK j \in Jobs : /\ inspections[j].status = "PROCESSING"
                          /\ Writes(j, Reaped(inspections[j]), "inspection_failed")
    BY <1>4 DEF ReapRow
  <2>2. /\ Reaped(inspections[j]).status = "FAILED"
        /\ Reaped(inspections[j]).attempts = inspections[j].attempts
    BY RowReaped DEF IInv, TypeOK
  <2> QED
    BY <2>1, <2>2, TrailWritten
<1>5. CASE CompleteRow
  <2>1. PICK w \in Workers : /\ pc[w] = "complete" /\ Holds(w)
                             /\ WriteComplete(held[w])
    BY <1>5 DEF CompleteRow
  <2> DEFINE j == held[w].id
             r == Completed(inspections[j], held[w])
  <2>2. /\ held[w] \in Job(Jobs) /\ j \in Jobs /\ inspections[j] \in Row
        /\ inspections[j].status = "PROCESSING"
    BY <2>1, FencedRow
  <2>3. r.status = "COMPLETED" /\ r.attempts = inspections[j].attempts
    BY <2>2, RowCompleted
  <2>4. Writes(j, r, "inspection_completed")
    BY <2>1, <2>2 DEF WriteComplete, Writes
  <2> QED
    BY <2>2, <2>3, <2>4, TrailWritten
<1>6. CASE FailRow
  <2>1. PICK w \in Workers : FailJob(w)
    BY <1>6 DEF FailRow
  <2> DEFINE j == held[w].id
             r == Failed(inspections[j], held[w], now[w])
             e == IF LastAttempt(held[w]) THEN "inspection_failed"
                  ELSE "inspection_retry_scheduled"
  <2>2. /\ held[w] \in Job(Jobs) /\ j \in Jobs /\ inspections[j] \in Row
        /\ inspections[j].status = "PROCESSING" /\ now[w] \in Nat
    BY <2>1, FencedRow DEF FailJob, IInv, TypeOK
  <2>3. /\ r.status = IF LastAttempt(held[w]) THEN "FAILED" ELSE "QUEUED"
        /\ r.attempts = inspections[j].attempts
    BY <2>2, RowFailed
  <2>4. Writes(j, r, e)
    BY <2>1, <2>2 DEF FailJob, Writes
  <2>5. /\ e \in {"inspection_failed", "inspection_retry_scheduled"}
        /\ r.status = StatusAfter(e)
    BY <2>3
  <2> HIDE DEF j, r, e
  <2> QED
    BY <2>2, <2>3, <2>4, <2>5, TrailWritten
<1> QED
  BY <1>1, <1>2, <1>3, <1>4, <1>5, <1>6, StepsOnTables

\* The trail alone tells the status and the attempts of every inspection, also
\* where an acknowledgement was lost or a worker died between two statements.
THEOREM Trail == Spec => []TrailReplays
BY InitTrail, TrailKept, Invariance, PTL DEF Spec

-----------------------------------------------------------------------------
(* The queue implements the lifecycle *)

LEMMA InitRefines == Init => Lifecycle!Init
BY DEF Init, AbsentRow, Lifecycle!Init, StatusOf, AttemptsOf, ReportOf

\* The row of j, and a step that writes it, seen through the mapping.
LEMMA MappedRow ==
    ASSUME NEW j \in Jobs
    PROVE  /\ StatusOf[j] = inspections[j].status
           /\ AttemptsOf[j] = inspections[j].attempts
           /\ ReportOf[j] = inspections[j].report
BY DEF StatusOf, AttemptsOf, ReportOf

LEMMA MappedWrite ==
    ASSUME IInv, NEW j \in Jobs, NEW r \in Row, NEW e, Writes(j, r, e)
    PROVE  /\ StatusOf'   = [StatusOf EXCEPT ![j] = r.status]
           /\ AttemptsOf' = [AttemptsOf EXCEPT ![j] = r.attempts]
           /\ ReportOf'   = [ReportOf EXCEPT ![j] = r.report]
BY DEF IInv, TypeOK, Writes, SetRow, StatusOf, AttemptsOf, ReportOf

LEMMA MappedSame ==
    ASSUME NEW j \in Jobs
    PROVE  /\ [StatusOf EXCEPT ![j] = StatusOf[j]] = StatusOf
           /\ [AttemptsOf EXCEPT ![j] = AttemptsOf[j]] = AttemptsOf
           /\ [ReportOf EXCEPT ![j] = ReportOf[j]] = ReportOf
BY DEF StatusOf, AttemptsOf, ReportOf

LEMMA StepRefines ==
    ASSUME IInv, [Next]_vars
    PROVE  [Lifecycle!Next]_(Lifecycle!vars)
<1> USE DEF Lifecycle!Move, Lifecycle!HasBudget
<1>1. CASE UNCHANGED <<inspections, events>>
  BY <1>1 DEF Lifecycle!vars, StatusOf, AttemptsOf, ReportOf
<1>2. CASE CreateRow
  <2>1. PICK j \in Jobs : /\ inspections[j].status = "ABSENT"
                          /\ Writes(j, NewRow(clock), "inspection_queued")
    BY <1>2 DEF CreateRow
  <2>2. /\ NewRow(clock) \in Row /\ NewRow(clock).status = "QUEUED"
        /\ NewRow(clock).attempts = 0 /\ NewRow(clock).report = 0
    BY RowCreated DEF IInv, TypeOK, NewRow, AbsentRow
  <2>3. inspections[j].attempts = 0 /\ inspections[j].report = 0
    BY <2>1 DEF IInv, LeaseShape, AbsentRow
  <2>4. Lifecycle!Submit(j)
    BY <2>1, <2>2, <2>3, MappedRow, MappedWrite, MappedSame
    DEF Lifecycle!Submit
  <2> QED
    BY <2>4 DEF Lifecycle!Next
<1>3. CASE ClaimRow
  <2>1. PICK j \in Jobs, t \in 0..clock :
          /\ Eligible(inspections[j], t) /\ ~ Exhausted(inspections[j])
          /\ Writes(j, Claimed(inspections[j], nextToken, t),
                    "inspection_processing")
    BY <1>3 DEF ClaimRow
  <2> DEFINE r == Claimed(inspections[j], nextToken, t)
  <2>2. /\ r \in Row /\ r.status = "PROCESSING"
        /\ r.attempts = inspections[j].attempts + 1
        /\ r.report = inspections[j].report
    BY <2>1, RowClaimed DEF IInv, TypeOK
  <2>3. inspections[j].status \in {"QUEUED", "PROCESSING"}
    BY <2>1 DEF Eligible, Ready, Expired
  <2>4. inspections[j].attempts < MaxAttempts
    BY <2>1, AttemptsAssumption DEF Exhausted, IInv, TypeOK, Row
  <2> HIDE DEF r
  <2>5. Writes(j, r, "inspection_processing")
    BY <2>1 DEF r
  <2>6. Lifecycle!Attempt(j)
    BY <2>2, <2>3, <2>4, <2>5, MappedRow, MappedWrite, MappedSame
    DEF Lifecycle!Attempt
  <2> QED
    BY <2>6 DEF Lifecycle!Next
<1>4. CASE ReapRow
  <2>1. PICK j \in Jobs :
          /\ inspections[j].status = "PROCESSING" /\ Exhausted(inspections[j])
          /\ Writes(j, Reaped(inspections[j]), "inspection_failed")
    BY <1>4 DEF ReapRow
  <2> DEFINE r == Reaped(inspections[j])
  <2>2. /\ r \in Row /\ r.status = "FAILED"
        /\ r.attempts = inspections[j].attempts
        /\ r.report = inspections[j].report
    <3>1. inspections[j] \in Row
      BY DEF IInv, TypeOK
    <3> QED
      BY <3>1, RowReaped DEF Reaped, Row
  <2>3. ~ (inspections[j].attempts < MaxAttempts)
    BY <2>1, AttemptsAssumption DEF Exhausted, IInv, TypeOK, Row
  <2> HIDE DEF r
  <2>4. Writes(j, r, "inspection_failed")
    BY <2>1 DEF r
  <2>5. Lifecycle!GiveUp(j)
    BY <2>1, <2>2, <2>3, <2>4, MappedRow, MappedWrite, MappedSame
    DEF Lifecycle!GiveUp
  <2> QED
    BY <2>5 DEF Lifecycle!Next
<1>5. CASE CompleteRow
  <2>1. PICK w \in Workers : /\ pc[w] = "complete" /\ Holds(w)
                             /\ WriteComplete(held[w])
    BY <1>5 DEF CompleteRow
  <2> DEFINE j == held[w].id
             r == Completed(inspections[j], held[w])
  <2>2. /\ held[w] \in Job(Jobs) /\ j \in Jobs /\ inspections[j] \in Row
        /\ inspections[j].status = "PROCESSING"
        /\ inspections[j].attempts = held[w].attempts
    BY <2>1, FencedRow
  <2>3. r \in Row
    BY <2>2, RowCompleted
  <2>4. /\ r.status = "COMPLETED" /\ r.attempts = inspections[j].attempts
        /\ r.report = inspections[j].attempts
    BY <2>2 DEF Completed, Row
  <2>5. Writes(j, r, "inspection_completed")
    BY <2>1, <2>2 DEF WriteComplete, Writes
  <2> HIDE DEF j, r
  <2>6. Lifecycle!Complete(j)
    BY <2>2, <2>3, <2>4, <2>5, MappedRow, MappedWrite, MappedSame
    DEF Lifecycle!Complete
  <2> QED
    BY <2>2, <2>6 DEF Lifecycle!Next
<1>6. CASE FailRow
  <2>1. PICK w \in Workers : FailJob(w)
    BY <1>6 DEF FailRow
  <2> DEFINE j == held[w].id
             r == Failed(inspections[j], held[w], now[w])
             e == IF LastAttempt(held[w]) THEN "inspection_failed"
                  ELSE "inspection_retry_scheduled"
  <2>2. /\ held[w] \in Job(Jobs) /\ j \in Jobs /\ inspections[j] \in Row
        /\ inspections[j].status = "PROCESSING"
        /\ inspections[j].attempts = held[w].attempts
    BY <2>1, FencedRow DEF FailJob
  <2>3. r \in Row
    BY <2>2, RowFailed DEF IInv, TypeOK
  <2>4. /\ r.status = IF LastAttempt(held[w]) THEN "FAILED" ELSE "QUEUED"
        /\ r.attempts = inspections[j].attempts
        /\ r.report = inspections[j].report
    BY <2>2 DEF Failed, Row
  <2>5. LastAttempt(held[w]) <=> ~ (inspections[j].attempts < MaxAttempts)
    BY <2>2, AttemptsAssumption DEF LastAttempt, Row
  <2>6. Writes(j, r, e)
    BY <2>1, <2>2 DEF FailJob, Writes
  <2> HIDE DEF j, r, e
  <2>7. CASE LastAttempt(held[w])
    <3>1. Lifecycle!GiveUp(j)
      BY <2>2, <2>3, <2>4, <2>5, <2>6, <2>7, MappedRow, MappedWrite, MappedSame
      DEF Lifecycle!GiveUp
    <3> QED
      BY <2>2, <3>1 DEF Lifecycle!Next
  <2>8. CASE ~ LastAttempt(held[w])
    <3>1. Lifecycle!Retry(j)
      BY <2>2, <2>3, <2>4, <2>5, <2>6, <2>8, MappedRow, MappedWrite, MappedSame
      DEF Lifecycle!Retry
    <3> QED
      BY <2>2, <3>1 DEF Lifecycle!Next
  <2> QED
    BY <2>7, <2>8
<1> QED
  BY <1>1, <1>2, <1>3, <1>4, <1>5, <1>6, StepsOnTables

\* However many workers race, stall, crash or lose acknowledgements, a client
\* sees only the steps of InspectionLifecycle.
THEOREM Refinement == Spec => ImplementsLifecycle
<1>1. IInv /\ [Next]_vars => [Lifecycle!Next]_(Lifecycle!vars)
  BY StepRefines
<1> QED
  BY <1>1, InitRefines, Invariance, PTL DEF Spec, ImplementsLifecycle, Lifecycle!Spec
=============================================================================
