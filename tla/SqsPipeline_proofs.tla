------------------------- MODULE SqsPipeline_proofs -------------------------
(***************************************************************************)
(* Theorems about SqsPipeline for every number of jobs, workers, messages, *)
(* attempts, receives, heartbeats, redrives and faults.                    *)
(*                                                                         *)
(* The inductive invariant has three parts.  RowInv is about leases: a     *)
(* claim hands out a token nobody has, so the worker whose token is in the *)
(* row is alone and its copy of the row is current.  LocalsMatch ties a    *)
(* worker's position to its message and its job.  DeliveryInv is about     *)
(* what is owed: COMPLETED is never left, a worker about to acknowledge    *)
(* has seen it, and a job that was sent and is not COMPLETED still has a   *)
(* copy, because only such an acknowledgement takes copies away.           *)
(***************************************************************************)
EXTENDS SqsPipeline, TLAPS

-----------------------------------------------------------------------------
(* What the statements of the repository return, row by row *)

\* A row just committed is QUEUED and nobody has it.
LEMMA RowCreated ==
    ASSUME NEW t \in Nat
    PROVE  /\ NewRow(t) \in Row
           /\ NewRow(t).status = "QUEUED" /\ NewRow(t).attempts = 0
           /\ NewRow(t).report = 0
           /\ NewRow(t).token = NULL /\ NewRow(t).until = NULL
<1>1. AbsentRow \in Row
  BY AttemptsAssumption DEF AbsentRow, Row, Status, Terminal, Errors, NULL
<1>2. NewRow(t) \in Row
  BY <1>1 DEF NewRow, Row, Status
<1> QED
  BY <1>2 DEF NewRow, AbsentRow

\* A claim takes an attempt and gives the row a token and a lease.
LEMMA RowClaimed ==
    ASSUME NEW r \in Row, NEW k \in Nat, NEW t \in Nat, ~ Exhausted(r)
    PROVE  /\ Claimed(r, k, t) \in Row
           /\ Claimed(r, k, t).status = "PROCESSING"
           /\ Claimed(r, k, t).token = k
           /\ Claimed(r, k, t).until # NULL
           /\ Claimed(r, k, t).attempts = r.attempts + 1
           /\ Claimed(r, k, t).report = r.report
           /\ r.attempts + 1 \in 1..MaxAttempts
<1>1. r.attempts + 1 \in 0..MaxAttempts /\ r.attempts + 1 \in 1..MaxAttempts
  <2>1. r.attempts \in 0..MaxAttempts
    BY DEF Row
  <2> QED
    BY <2>1, AttemptsAssumption DEF Exhausted
<1>2. t + LeaseSeconds \in Nat /\ t + LeaseSeconds # NULL
  BY LeaseAssumption DEF NULL
<1> QED
  BY <1>1, <1>2 DEF Claimed, Row, Status, Errors

\* A row whose attempts are spent fails without a lease.
LEMMA RowReaped ==
    ASSUME NEW r \in Row
    PROVE  /\ Reaped(r) \in Row
           /\ Reaped(r).status = "FAILED"
           /\ Reaped(r).attempts = r.attempts /\ Reaped(r).report = r.report
           /\ Reaped(r).token = NULL /\ Reaped(r).until = NULL
BY DEF Reaped, Row, Status, Terminal, Errors, NULL

\* A completion keeps the row's attempts and writes the worker's into the report.
LEMMA RowCompleted ==
    ASSUME NEW Ids, NEW r \in Row, NEW job \in Job(Ids)
    PROVE  /\ Completed(r, job) \in Row
           /\ Completed(r, job).status = "COMPLETED"
           /\ Completed(r, job).attempts = r.attempts
           /\ Completed(r, job).report = job.attempts
           /\ Completed(r, job).token = NULL /\ Completed(r, job).until = NULL
<1>1. job.attempts \in 0..MaxAttempts
  BY AttemptsAssumption DEF Job
<1>2. Completed(r, job) \in Row
  BY <1>1 DEF Completed, Row, Status, Terminal, Errors, NULL
<1> QED
  BY <1>2 DEF Completed, Row

\* A failure of the last attempt is final, one before it queues the row again.
LEMMA RowFailed ==
    ASSUME NEW Ids, NEW r \in Row, NEW job \in Job(Ids), NEW t \in Nat
    PROVE  /\ Failed(r, job, t) \in Row
           /\ Failed(r, job, t).status =
                  IF LastAttempt(job) THEN "FAILED" ELSE "QUEUED"
           /\ Failed(r, job, t).attempts = r.attempts
           /\ Failed(r, job, t).report = r.report
           /\ Failed(r, job, t).token = NULL /\ Failed(r, job, t).until = NULL
<1>1. t + Backoff(job.attempts) \in Nat
  BY BackoffAssumption DEF Job
<1>2. LastAttempt(job) \in BOOLEAN
  BY DEF LastAttempt
<1>3. Failed(r, job, t) \in Row
  BY <1>1, <1>2 DEF Failed, Row, Status, Terminal, Errors, NULL
<1> QED
  BY <1>3 DEF Failed, Row

\* A renewal changes the deadline and nothing else.
LEMMA RowRenewed ==
    ASSUME NEW r \in Row, NEW t \in Nat
    PROVE  /\ Renewed(r, t) \in Row
           /\ Renewed(r, t).status = r.status
           /\ Renewed(r, t).attempts = r.attempts
           /\ Renewed(r, t).report = r.report
           /\ Renewed(r, t).token = r.token /\ Renewed(r, t).until # NULL
<1>1. t + LeaseSeconds \in Nat /\ t + LeaseSeconds # NULL
  BY LeaseAssumption DEF NULL
<1> QED
  BY <1>1 DEF Renewed, Row

\* A redrive begins a new cycle of attempts.
LEMMA RowRedriven ==
    ASSUME NEW r \in Row, NEW t \in Nat
    PROVE  /\ Redriven(r, t) \in Row
           /\ Redriven(r, t).status = "QUEUED"
           /\ Redriven(r, t).attempts = 0 /\ Redriven(r, t).report = r.report
           /\ Redriven(r, t).token = NULL /\ Redriven(r, t).until = NULL
<1>1. 0 \in 0..MaxAttempts
  BY AttemptsAssumption
<1> QED
  BY <1>1 DEF Redriven, Row, Status, Errors

-----------------------------------------------------------------------------
(* The inductive invariant *)

\* A row carries a lease exactly while it is PROCESSING; before its creation
\* it is blank.
LeaseShape ==
    \A j \in Jobs :
        /\ inspections[j].status = "PROCESSING" <=> inspections[j].token # NULL
        /\ inspections[j].token # NULL <=> inspections[j].until # NULL
        /\ inspections[j].status = "ABSENT" =>
               inspections[j].attempts = 0 /\ inspections[j].report = 0

\* Tokens in use were handed out before.
TokensSpent ==
    /\ \A j \in Jobs : inspections[j].token < nextToken
    /\ \A w \in Workers : held[w] # NoJob => held[w].token < nextToken

\* No two workers have the same token.
TokensUnique ==
    \A v, w \in Workers :
        held[v] # NoJob /\ held[w] # NoJob /\ held[v].token = held[w].token
            => v = w

\* The copy of the worker whose token is in the row agrees with the row.
CopyIsCurrent ==
    \A w \in Workers, j \in Jobs :
        Owns(w, j) => /\ inspections[j].status = "PROCESSING"
                      /\ inspections[j].attempts = held[w].attempts

\* A job waits only with attempts left and is failed only without.
BudgetRespected ==
    \A j \in Jobs :
        /\ inspections[j].status = "QUEUED" => ~ Exhausted(inspections[j])
        /\ inspections[j].status = "FAILED" => Exhausted(inspections[j])

\* Only COMPLETED jobs have a report: that of their latest attempt.
ReportIsCurrent ==
    \A j \in Jobs :
        inspections[j].report =
            IF inspections[j].status = "COMPLETED" THEN inspections[j].attempts
            ELSE 0

RowInv ==
    /\ LeaseShape /\ TokensSpent /\ TokensUnique
    /\ CopyIsCurrent /\ BudgetRespected /\ ReportIsCurrent

\* Where the main thread works on a job, and where it relies on the id of its
\* message being a job's.
Working   == {"pulse", "extend", "infer", "complete", "fail", "close", "abort",
              "reread", "delay"}
Targeting == {"select", "update", "ack"}

LocalsMatch ==
    \A w \in Workers :
        /\ pc[w] \in Working => held[w] # NoJob
        /\ beat[w] # "off" => held[w] # NoJob
        /\ pc[w] = "idle" <=> message[w] = NoMessage
        /\ pc[w] = "idle" => held[w] = NoJob
        /\ message[w] # NoMessage => queue[message[w]].place # "unsent"
        /\ pc[w] \in Targeting => Target(w) \in Jobs
        /\ held[w] # NoJob => held[w].id = Target(w)

\* A worker acknowledges what it has seen COMPLETED.
AckReady ==
    \A w \in Workers :
        pc[w] = "ack" => inspections[Target(w)].status = "COMPLETED"

\* What was accepted is owed or was sent.
OwedOrSent ==
    \A j \in Jobs :
        /\ inspections[j].status = "ABSENT" => ~ sent[j]
        /\ inspections[j].status # "ABSENT" => pending[j] \/ sent[j]

\* What was sent and did not complete can still be received or looked up.
SentHasCopy ==
    \A j \in Jobs :
        sent[j] /\ inspections[j].status # "COMPLETED" =>
            \E m \in Messages : /\ queue[m].id = j
                                /\ queue[m].place \in {"queue", "dead"}

DeliveryInv == AckReady /\ OwedOrSent /\ SentHasCopy /\ AckOnlyCompleted

IInv == TypeOK /\ RowInv /\ LocalsMatch /\ DeliveryInv

-----------------------------------------------------------------------------
(* TypeOK in parts *)

TablesTyped == inspections \in [Jobs -> Row] /\ nextToken \in Nat

PublisherTyped == pending \in [Jobs -> BOOLEAN] /\ sent \in [Jobs -> BOOLEAN]

QueueTyped ==
    queue \in [Messages -> [place : {"unsent", "queue", "deleted", "dead"},
                            id : Jobs \cup {Unknown}, receives : 0..MaxReceives]]

LocalsTyped ==
    /\ pc      \in [Workers -> Steps]
    /\ now     \in [Workers -> Nat]
    /\ tries   \in [Workers -> 0..ClaimTries]
    /\ message \in [Workers -> Messages \cup {NoMessage}]
    /\ held    \in [Workers -> Job(Jobs) \cup {NoJob}]
    /\ beat    \in [Workers -> Beats]
    /\ beatNow \in [Workers -> Nat]
    /\ pulses  \in [Workers -> 0..MaxPulses]
    /\ lost    \in [Workers -> BOOLEAN]
    /\ stopped \in [Workers -> BOOLEAN]

RestTyped == clock \in Nat /\ faults \in 0..MaxFaults /\ redrives \in 0..MaxRedrives

LEMMA TypeInParts ==
    /\ TypeOK <=> /\ TablesTyped /\ PublisherTyped /\ QueueTyped
                  /\ LocalsTyped /\ RestTyped
    /\ TypeOK' <=> /\ TablesTyped' /\ PublisherTyped' /\ QueueTyped'
                   /\ LocalsTyped' /\ RestTyped'
BY DEF TypeOK, TablesTyped, PublisherTyped, QueueTyped, LocalsTyped, RestTyped

LEMMA CountersTyped ==
    ASSUME RestTyped, clock' = clock, Fault \/ UNCHANGED counts
    PROVE  RestTyped'
BY BoundsAssumption DEF RestTyped, Fault, counts

-----------------------------------------------------------------------------
(* The five ways a step can treat the rows *)

\* Workers keep the job they have or let go of it.
Forgets == \A w \in Workers : held'[w] \in {held[w], NoJob}

\* What DeliveryInv needs to know of a step's effect on the rows.
StatusKept ==
    \A j \in Jobs :
        /\ inspections[j].status = "COMPLETED" => inspections'[j].status = "COMPLETED"
        /\ inspections[j].status = "ABSENT" <=> inspections'[j].status = "ABSENT"

RowsGood == TablesTyped' /\ RowInv' /\ StatusKept

\* A step that writes no row.
LEMMA QuietRows ==
    ASSUME TypeOK, RowInv, Forgets, UNCHANGED tables
    PROVE  RowsGood
<1> USE DEF RowInv, tables
<1>1. LeaseShape' /\ BudgetRespected' /\ ReportIsCurrent' /\ StatusKept
  BY DEF LeaseShape, BudgetRespected, ReportIsCurrent, StatusKept
<1>2. TokensSpent' /\ TokensUnique'
  BY DEF TokensSpent, TokensUnique, Forgets
<1>3. CopyIsCurrent'
  BY DEF CopyIsCurrent, Owns, Forgets
<1> QED
  BY <1>1, <1>2, <1>3 DEF RowsGood, TypeOK, TablesTyped

\* A step that leaves the row of j without a lease.
LEMMA ReleasingRow ==
    ASSUME TypeOK, RowInv, Forgets, nextToken' = nextToken,
           NEW j \in Jobs, NEW r \in Row, SetRow(j, r),
           r.status \notin {"PROCESSING", "ABSENT"},
           r.token = NULL, r.until = NULL,
           r.status = "QUEUED" => ~ Exhausted(r),
           r.status = "FAILED" => Exhausted(r),
           r.report = IF r.status = "COMPLETED" THEN r.attempts ELSE 0
    PROVE  TablesTyped' /\ RowInv'
<1> USE DEF RowInv
<1>1. /\ inspections'[j] = r
      /\ \A i \in Jobs : i # j => inspections'[i] = inspections[i]
  BY DEF TypeOK, SetRow
<1>2. LeaseShape' /\ BudgetRespected' /\ ReportIsCurrent'
  BY <1>1 DEF LeaseShape, BudgetRespected, ReportIsCurrent
<1>3. TokensSpent'
  <2>1. NULL < nextToken
    BY DEF TypeOK, NULL
  <2> QED
    BY <1>1, <2>1 DEF TokensSpent, Forgets
<1>4. TokensUnique'
  BY DEF TokensUnique, Forgets
<1>5. CopyIsCurrent'
  <2> SUFFICES ASSUME NEW w \in Workers, NEW i \in Jobs, Owns(w, i)'
               PROVE  /\ inspections'[i].status = "PROCESSING"
                      /\ inspections'[i].attempts = held'[w].attempts
    BY DEF CopyIsCurrent
  <2>1. held'[w] = held[w] /\ held[w] # NoJob
    BY DEF Owns, Forgets
  <2>2. held[w].token # NULL
    BY <2>1 DEF TypeOK, Job, NULL
  <2>3. i # j
    BY <1>1, <2>1, <2>2 DEF Owns
  <2> QED
    BY <1>1, <2>1, <2>3 DEF CopyIsCurrent, Owns
<1>6. TablesTyped'
  BY DEF TypeOK, TablesTyped, SetRow
<1> QED
  BY <1>2, <1>3, <1>4, <1>5, <1>6

\* A heartbeat that moves the lease of j.
LEMMA RenewingRow ==
    ASSUME TypeOK, RowInv, Forgets, nextToken' = nextToken,
           NEW j \in Jobs, NEW t \in Nat,
           inspections[j].status = "PROCESSING", SetRow(j, Renewed(inspections[j], t))
    PROVE  RowsGood
<1> USE DEF RowInv
<1> DEFINE r == Renewed(inspections[j], t)
<1>1. inspections[j] \in Row
  BY DEF TypeOK
<1>2. /\ r \in Row
      /\ r.status = inspections[j].status /\ r.attempts = inspections[j].attempts
      /\ r.report = inspections[j].report /\ r.token = inspections[j].token
      /\ r.until # NULL
  BY <1>1, RowRenewed
<1> HIDE DEF r
<1>3. inspections' = [inspections EXCEPT ![j] = r]
  BY DEF SetRow, r
<1>4. \A i \in Jobs : /\ inspections'[i].status = inspections[i].status
                      /\ inspections'[i].attempts = inspections[i].attempts
                      /\ inspections'[i].report = inspections[i].report
                      /\ inspections'[i].token = inspections[i].token
                      /\ inspections'[i].token # NULL => inspections'[i].until # NULL
                      /\ inspections'[i].until # NULL => inspections'[i].token # NULL
  BY <1>2, <1>3 DEF TypeOK, LeaseShape
<1>5. LeaseShape' /\ StatusKept
  BY <1>4 DEF LeaseShape, StatusKept
<1>6. BudgetRespected' /\ ReportIsCurrent'
  BY <1>4 DEF BudgetRespected, ReportIsCurrent, Exhausted
<1>7. TokensSpent' /\ TokensUnique'
  BY <1>4 DEF TokensSpent, TokensUnique, Forgets
<1>8. CopyIsCurrent'
  BY <1>4 DEF CopyIsCurrent, Owns, Forgets
<1>9. TablesTyped'
  BY <1>2, <1>3 DEF TypeOK, TablesTyped
<1> QED
  BY <1>5, <1>6, <1>7, <1>8, <1>9 DEF RowsGood

\* A committed claim of j, whose job reaches worker w or nobody.
LEMMA ClaimingRow ==
    ASSUME TypeOK, RowInv, NEW j \in Jobs, NEW t \in Nat, NEW w \in Workers,
           Eligible(inspections[j], t), ~ Exhausted(inspections[j]),
           SetRow(j, Claimed(inspections[j], nextToken, t)),
           nextToken' = nextToken + 1,
           \A v \in Workers :
               \/ held'[v] \in {held[v], NoJob}
               \/ /\ v = w
                  /\ held'[v] = [id |-> j, token |-> nextToken,
                                 attempts |-> inspections[j].attempts + 1]
    PROVE  RowsGood
<1> USE DEF RowInv
<1> DEFINE r == inspections[j]
           new == Claimed(r, nextToken, t)
<1>1. r \in Row /\ nextToken \in Nat /\ ~ Exhausted(r)
  BY DEF TypeOK
<1>2. /\ new \in Row /\ new.status = "PROCESSING" /\ new.token = nextToken
      /\ new.until # NULL
      /\ new.attempts = r.attempts + 1 /\ new.report = r.report
  BY <1>1, RowClaimed
<1>3. r.status \in {"QUEUED", "PROCESSING"}
  BY DEF Eligible, Ready, Expired
<1>4. inspections' = [inspections EXCEPT ![j] = new] /\ nextToken' = nextToken + 1
  BY DEF SetRow
<1> HIDE DEF new
<1>5. /\ inspections'[j] = new
      /\ \A i \in Jobs : i # j => inspections'[i] = inspections[i]
  BY <1>4 DEF TypeOK
<1>6. TablesTyped'
  BY <1>1, <1>2, <1>4 DEF TypeOK, TablesTyped
<1>7. LeaseShape'
  BY <1>1, <1>2, <1>5 DEF LeaseShape, NULL
<1>8. TokensSpent'
  <2>1. /\ \A i \in Jobs : inspections[i].token \in Nat \cup {NULL}
        /\ \A v \in Workers : held[v] # NoJob => held[v].token \in Nat
    BY DEF TypeOK, Row, Job
  <2>2. /\ \A i \in Jobs : inspections[i].token < nextToken + 1
        /\ \A v \in Workers : held[v] # NoJob => held[v].token < nextToken + 1
        /\ nextToken < nextToken + 1
    BY <1>1, <2>1 DEF TokensSpent, NULL
  <2> QED
    BY <1>2, <1>4, <1>5, <2>2 DEF TokensSpent
<1>9. \A v \in Workers : held[v] # NoJob => held[v].token # nextToken
  BY <1>1 DEF TokensSpent, TypeOK, Job
<1>10. TokensUnique'
  BY <1>9 DEF TokensUnique
<1>11. CopyIsCurrent'
  <2> SUFFICES ASSUME NEW v \in Workers, NEW i \in Jobs, Owns(v, i)'
               PROVE  /\ inspections'[i].status = "PROCESSING"
                      /\ inspections'[i].attempts = held'[v].attempts
    BY DEF CopyIsCurrent
  <2>1. CASE held'[v] = held[v]
    <3>1. i # j
      BY <1>2, <1>5, <1>9, <2>1 DEF Owns
    <3> QED
      BY <1>5, <2>1, <3>1 DEF CopyIsCurrent, Owns
  <2>2. CASE held'[v] # held[v]
    <3>1. held'[v] = [id |-> j, token |-> nextToken, attempts |-> r.attempts + 1]
      BY <2>2 DEF Owns
    <3>2. i = j /\ held'[v].attempts = r.attempts + 1
      BY <3>1 DEF Owns
    <3> QED
      BY <1>2, <1>5, <3>2
  <2> QED
    BY <2>1, <2>2
<1>12. BudgetRespected'
  BY <1>2, <1>5 DEF BudgetRespected
<1>13. ReportIsCurrent'
  <2>1. r.report = 0
    BY <1>3 DEF ReportIsCurrent
  <2> QED
    BY <1>2, <1>5, <2>1 DEF ReportIsCurrent
<1>14. StatusKept
  BY <1>2, <1>3, <1>5 DEF StatusKept
<1> QED
  BY <1>6, <1>7, <1>8, <1>10, <1>11, <1>12, <1>13, <1>14 DEF RowsGood

-----------------------------------------------------------------------------
(* complete, fail and the reaping claim *)

\* The worker that passes the fence owns the row, and its copy is current.
LEMMA FencedRow ==
    ASSUME TypeOK, RowInv, LocalsMatch, NEW w \in Workers, held[w] # NoJob,
           NEW t, Fenced(inspections[held[w].id], held[w], t)
    PROVE  /\ held[w] \in Job(Jobs) /\ held[w].id \in Jobs
           /\ inspections[held[w].id] \in Row
           /\ inspections[held[w].id].status = "PROCESSING"
           /\ inspections[held[w].id].attempts = held[w].attempts
           /\ inspections[held[w].id].report = 0
<1>1. held[w] \in Job(Jobs) /\ held[w].id \in Jobs
  BY DEF TypeOK, Job
<1>2. Owns(w, held[w].id) /\ inspections[held[w].id].status = "PROCESSING"
  BY DEF Fenced, Owns
<1> QED
  BY <1>1, <1>2 DEF TypeOK, RowInv, CopyIsCurrent, ReportIsCurrent

LEMMA CompletingRow ==
    ASSUME TypeOK, RowInv, LocalsMatch, Forgets, nextToken' = nextToken,
           NEW w \in Workers, held[w] # NoJob, WriteComplete(w)
    PROVE  RowsGood
<1> DEFINE j == held[w].id
           r == Completed(inspections[j], held[w])
<1>1. /\ held[w] \in Job(Jobs) /\ j \in Jobs /\ inspections[j] \in Row
      /\ inspections[j].attempts = held[w].attempts
      /\ inspections[j].status = "PROCESSING"
  BY FencedRow DEF WriteComplete, Holds
<1>2. /\ r \in Row /\ r.status = "COMPLETED" /\ r.token = NULL /\ r.until = NULL
      /\ r.report = r.attempts
  BY <1>1, RowCompleted
<1>3. SetRow(j, r)
  BY DEF WriteComplete
<1> HIDE DEF j, r
<1>4. TablesTyped' /\ RowInv'
  BY <1>1, <1>2, <1>3, ReleasingRow
<1>5. StatusKept
  BY <1>1, <1>2, <1>3 DEF TypeOK, SetRow, StatusKept
<1> QED
  BY <1>4, <1>5 DEF RowsGood

\* The branch fail() takes from the copy is the one the row calls for.
LEMMA FailingRow ==
    ASSUME TypeOK, RowInv, LocalsMatch, Forgets, nextToken' = nextToken,
           NEW w \in Workers, held[w] # NoJob, WriteFail(w)
    PROVE  RowsGood
<1> DEFINE j == held[w].id
           r == Failed(inspections[j], held[w], now[w])
<1>1. /\ held[w] \in Job(Jobs) /\ j \in Jobs /\ inspections[j] \in Row
      /\ inspections[j].attempts = held[w].attempts
      /\ inspections[j].status = "PROCESSING"
      /\ inspections[j].report = 0
  BY FencedRow DEF WriteFail, Holds
<1>2. now[w] \in Nat
  BY DEF TypeOK
<1>3. /\ r \in Row /\ r.token = NULL /\ r.until = NULL /\ r.report = 0
      /\ r.status = IF LastAttempt(held[w]) THEN "FAILED" ELSE "QUEUED"
      /\ r.attempts = held[w].attempts
  BY <1>1, <1>2, RowFailed
<1>4. LastAttempt(held[w]) <=> Exhausted(r)
  BY <1>3 DEF LastAttempt, Exhausted
<1>5. SetRow(j, r)
  BY DEF WriteFail
<1> HIDE DEF j, r
<1>6. TablesTyped' /\ RowInv'
  BY <1>1, <1>3, <1>4, <1>5, ReleasingRow
<1>7. StatusKept
  BY <1>1, <1>3, <1>5 DEF TypeOK, SetRow, StatusKept
<1> QED
  BY <1>6, <1>7 DEF RowsGood

LEMMA ReapingRow ==
    ASSUME TypeOK, RowInv, Forgets, nextToken' = nextToken, NEW j \in Jobs, NEW t,
           Eligible(inspections[j], t), Exhausted(inspections[j]),
           SetRow(j, Reaped(inspections[j]))
    PROVE  RowsGood
<1> DEFINE r == Reaped(inspections[j])
<1>1. inspections[j] \in Row /\ inspections[j].status \in {"QUEUED", "PROCESSING"}
  BY DEF TypeOK, Eligible, Ready, Expired
<1>2. inspections[j].report = 0
  BY <1>1 DEF RowInv, ReportIsCurrent
<1>3. /\ r \in Row /\ r.status = "FAILED" /\ r.token = NULL /\ r.until = NULL
      /\ r.report = 0 /\ r.attempts = inspections[j].attempts
  BY <1>1, <1>2, RowReaped
<1>4. Exhausted(r)
  BY <1>3 DEF Exhausted
<1>5. SetRow(j, r)
  OBVIOUS
<1> HIDE DEF r
<1>6. TablesTyped' /\ RowInv'
  BY <1>3, <1>4, <1>5, ReleasingRow
<1>7. StatusKept
  BY <1>1, <1>3, <1>5 DEF TypeOK, SetRow, StatusKept
<1> QED
  BY <1>6, <1>7 DEF RowsGood

-----------------------------------------------------------------------------
(* What a step does to the locals of its worker *)

\* Messages that were sent keep their job and stay sent.
QueueKept ==
    \A m \in Messages :
        queue[m].place # "unsent" =>
            queue'[m].place # "unsent" /\ queue'[m].id = queue[m].id

\* Who is about to acknowledge already was, of the same message.
AcksKept ==
    \A w \in Workers :
        pc'[w] = "ack" => pc[w] = "ack" /\ message'[w] = message[w]

LEMMA SameTarget ==
    ASSUME TypeOK, LocalsMatch, QueueKept, NEW w \in Workers, message[w] # NoMessage
    PROVE  /\ queue'[message[w]].place # "unsent"
           /\ queue'[message[w]].id = Target(w)
BY DEF TypeOK, LocalsMatch, QueueKept, Target

LEMMA LeaveLocals ==
    ASSUME TypeOK, LocalsMatch, NEW w \in Workers, Leave(w), QueueKept
    PROVE  LocalsTyped' /\ LocalsMatch' /\ Forgets /\ AcksKept
<1>1. LocalsTyped'
  <2>1. 0 \in 0..ClaimTries /\ 0 \in 0..MaxPulses
    BY BoundsAssumption
  <2> QED
    BY <2>1 DEF TypeOK, LocalsTyped, Leave, Goto, Steps, Beats
<1>2. Forgets /\ AcksKept
  BY DEF TypeOK, Forgets, AcksKept, Leave, Goto
<1>3. LocalsMatch'
  <2> SUFFICES ASSUME NEW v \in Workers
               PROVE  /\ pc'[v] \in Working => held'[v] # NoJob
                      /\ beat'[v] # "off" => held'[v] # NoJob
                      /\ pc'[v] = "idle" <=> message'[v] = NoMessage
                      /\ pc'[v] = "idle" => held'[v] = NoJob
                      /\ message'[v] # NoMessage => queue'[message'[v]].place # "unsent"
                      /\ pc'[v] \in Targeting => queue'[message'[v]].id \in Jobs
                      /\ held'[v] # NoJob => held'[v].id = queue'[message'[v]].id
    BY DEF LocalsMatch, Target
  <2>1. CASE v = w
    BY <2>1 DEF TypeOK, Leave, Goto, Working, Targeting
  <2>2. CASE v # w
    <3>1. /\ pc'[v] = pc[v] /\ held'[v] = held[v] /\ beat'[v] = beat[v]
          /\ message'[v] = message[v]
      BY <2>2 DEF TypeOK, Leave, Goto
    <3> QED
      BY <3>1, SameTarget DEF LocalsMatch, Targeting
  <2> QED
    BY <2>1, <2>2
<1> QED
  BY <1>1, <1>2, <1>3

\* A step of the main thread within run_once, message and job in hand.
LEMMA MoveLocals ==
    ASSUME TypeOK, LocalsMatch, NEW w \in Workers, NEW step \in Steps \ {"idle"},
           pc[w] # "idle", Goto(w, step), UNCHANGED <<message, held>>, QueueKept,
           step \in Working => held[w] # NoJob,
           step \in Targeting => Target(w) \in Jobs,
           \A v \in Workers : beat'[v] # "off" => held[v] # NoJob
    PROVE  LocalsMatch' /\ Forgets /\ (step # "ack" => AcksKept)
<1>1. Forgets /\ (step # "ack" => AcksKept)
  BY DEF TypeOK, Goto, Forgets, AcksKept
<1>2. LocalsMatch'
  <2> SUFFICES ASSUME NEW v \in Workers
               PROVE  /\ pc'[v] \in Working => held[v] # NoJob
                      /\ pc'[v] = "idle" <=> message[v] = NoMessage
                      /\ pc'[v] = "idle" => held[v] = NoJob
                      /\ message[v] # NoMessage => queue'[message[v]].place # "unsent"
                      /\ pc'[v] \in Targeting => queue'[message[v]].id \in Jobs
                      /\ held[v] # NoJob => held[v].id = queue'[message[v]].id
    BY DEF LocalsMatch, Target
  <2>1. CASE v = w
    <3>1. pc'[v] = step /\ message[v] # NoMessage
      BY <2>1 DEF TypeOK, Goto, LocalsMatch
    <3> QED
      BY <2>1, <3>1, SameTarget DEF LocalsMatch
  <2>2. CASE v # w
    <3>1. pc'[v] = pc[v]
      BY <2>2 DEF TypeOK, Goto
    <3> QED
      BY <3>1, SameTarget DEF LocalsMatch, Targeting
  <2> QED
    BY <2>1, <2>2
<1> QED
  BY <1>1, <1>2

LEMMA StepLocals ==
    ASSUME TypeOK, LocalsMatch, NEW w \in Workers, NEW step \in Steps \ {"idle"},
           pc[w] # "idle", Step(w, step) \/ Call(w, step), QueueKept,
           step \in Working => held[w] # NoJob,
           step \in Targeting => Target(w) \in Jobs
    PROVE  LocalsTyped' /\ LocalsMatch' /\ Forgets /\ (step # "ack" => AcksKept)
<1>1. LocalsTyped'
  BY DEF TypeOK, LocalsTyped, Step, Call, Goto, heartbeat
<1>2. Goto(w, step) /\ UNCHANGED <<message, held, beat>>
  BY DEF Step, Call, heartbeat
<1>3. \A v \in Workers : beat'[v] # "off" => held[v] # NoJob
  BY <1>2 DEF LocalsMatch
<1> QED
  BY <1>1, <1>2, <1>3, MoveLocals

\* A step that leaves the main threads alone.
LEMMA BeatLocals ==
    ASSUME TypeOK, LocalsMatch, UNCHANGED main, QueueKept,
           \A v \in Workers : beat'[v] # "off" => held[v] # NoJob
    PROVE  LocalsMatch' /\ Forgets /\ AcksKept
<1>1. Forgets /\ AcksKept
  BY DEF Forgets, AcksKept, main
<1>2. LocalsMatch'
  <2> SUFFICES ASSUME NEW v \in Workers
               PROVE  /\ message[v] # NoMessage => queue'[message[v]].place # "unsent"
                      /\ pc[v] \in Targeting => queue'[message[v]].id \in Jobs
                      /\ held[v] # NoJob => held[v].id = queue'[message[v]].id
    BY DEF LocalsMatch, Target, main
  <2>1. CASE message[v] = NoMessage
    BY <2>1 DEF LocalsMatch, Targeting
  <2>2. CASE message[v] # NoMessage
    BY <2>2, SameTarget DEF LocalsMatch
  <2> QED
    BY <2>1, <2>2
<1> QED
  BY <1>1, <1>2

LEMMA SameLocals ==
    ASSUME TypeOK, LocalsMatch, UNCHANGED <<main, heartbeat>>, QueueKept
    PROVE  LocalsTyped' /\ LocalsMatch' /\ Forgets /\ AcksKept
<1>1. LocalsTyped'
  BY DEF TypeOK, LocalsTyped, main, heartbeat
<1>2. \A v \in Workers : beat'[v] # "off" => held[v] # NoJob
  BY DEF LocalsMatch, heartbeat
<1> QED
  BY <1>1, <1>2, BeatLocals

LEMMA SameQueue ==
    ASSUME TypeOK, queue' = queue
    PROVE  QueueTyped' /\ QueueKept
BY DEF TypeOK, QueueTyped, QueueKept

-----------------------------------------------------------------------------
(* What is owed *)

LEMMA AckReadyKept ==
    ASSUME TypeOK, LocalsMatch, AckReady, StatusKept, QueueKept, AcksKept
    PROVE  AckReady'
<1> SUFFICES ASSUME NEW w \in Workers, pc'[w] = "ack"
             PROVE  inspections'[queue'[message'[w]].id].status = "COMPLETED"
  BY DEF AckReady, Target
<1>1. pc[w] = "ack" /\ message'[w] = message[w]
  BY DEF AcksKept
<1>2. message[w] # NoMessage /\ Target(w) \in Jobs
  BY <1>1 DEF LocalsMatch, Targeting
<1>3. queue'[message[w]].id = Target(w)
  BY <1>2, SameTarget
<1> QED
  BY <1>1, <1>2, <1>3 DEF AckReady, StatusKept

\* A step that sends, owes and acknowledges nothing.
LEMMA DeliveryKept ==
    ASSUME TypeOK, LocalsMatch, DeliveryInv, StatusKept, AckReady',
           UNCHANGED <<pending, sent, queue>>
    PROVE  DeliveryInv'
<1>1. OwedOrSent' /\ SentHasCopy'
  BY DEF DeliveryInv, OwedOrSent, SentHasCopy, StatusKept
<1>2. AckOnlyCompleted'
  BY DEF DeliveryInv, AckOnlyCompleted, StatusKept
<1> QED
  BY <1>1, <1>2 DEF DeliveryInv

\* The invariant after a step of a worker that does not touch the queue.
LEMMA WorkerKeeps ==
    ASSUME IInv, RowsGood, LocalsTyped', LocalsMatch', AckReady',
           UNCHANGED <<pending, sent, queue, clock>>, Fault \/ UNCHANGED counts
    PROVE  IInv'
<1>1. RestTyped'
  BY CountersTyped, TypeInParts DEF IInv
<1>2. QueueTyped' /\ PublisherTyped'
  BY TypeInParts DEF IInv, QueueTyped, PublisherTyped
<1>3. TypeOK'
  BY <1>1, <1>2, TypeInParts DEF RowsGood
<1>4. DeliveryInv'
  BY DeliveryKept DEF IInv, RowsGood
<1> QED
  BY <1>3, <1>4 DEF IInv, RowsGood

-----------------------------------------------------------------------------
(* The steps of the environment *)

LEMMA CreateInv ==
    ASSUME IInv, NEW j \in Jobs, Create(j)
    PROVE  IInv'
<1> USE DEF IInv
<1> DEFINE r == NewRow(clock)
<1>1. /\ r \in Row /\ r.status = "QUEUED" /\ r.attempts = 0 /\ r.report = 0
      /\ r.token = NULL /\ r.until = NULL
  BY RowCreated DEF TypeOK
<1>2. ~ Exhausted(r)
  BY <1>1, AttemptsAssumption DEF Exhausted
<1>3. /\ SetRow(j, r) /\ inspections[j].status = "ABSENT"
      /\ UNCHANGED <<nextToken, queue, clock, main, heartbeat, counts>>
      /\ pending' = [pending EXCEPT ![j] = TRUE] /\ sent' = [sent EXCEPT ![j] = FALSE]
  BY DEF Create, Outbox!Open
<1> HIDE DEF r
<1>4. QueueTyped' /\ QueueKept
  BY <1>3, SameQueue
<1>5. LocalsTyped' /\ LocalsMatch' /\ Forgets /\ AcksKept
  BY <1>3, <1>4, SameLocals
<1>6. TablesTyped' /\ RowInv'
  BY <1>1, <1>2, <1>3, <1>5, ReleasingRow
<1>7. TypeOK'
  <2>1. PublisherTyped'
    BY <1>3 DEF TypeOK, PublisherTyped
  <2>2. RestTyped'
    BY <1>3, CountersTyped, TypeInParts
  <2> QED
    BY <1>4, <1>5, <1>6, <2>1, <2>2, TypeInParts
<1>8. /\ inspections'[j] = r
      /\ \A i \in Jobs : i # j => inspections'[i] = inspections[i]
      /\ pending'[j] /\ ~ sent'[j]
      /\ \A i \in Jobs : i # j => pending'[i] = pending[i] /\ sent'[i] = sent[i]
  BY <1>3 DEF TypeOK, SetRow
<1>9. OwedOrSent' /\ SentHasCopy' /\ AckOnlyCompleted'
  BY <1>1, <1>3, <1>8
  DEF DeliveryInv, OwedOrSent, SentHasCopy, AckOnlyCompleted
<1>10. AckReady'
  <2> SUFFICES ASSUME NEW w \in Workers, pc[w] = "ack"
               PROVE  inspections'[Target(w)].status = "COMPLETED"
    BY <1>3 DEF AckReady, Target, main
  <2>1. Target(w) \in Jobs /\ inspections[Target(w)].status = "COMPLETED"
    BY DEF LocalsMatch, Targeting, DeliveryInv, AckReady
  <2> QED
    BY <1>3, <1>8, <2>1
<1> QED
  BY <1>5, <1>6, <1>7, <1>9, <1>10 DEF DeliveryInv

LEMMA SendInv ==
    ASSUME IInv, NEW j \in Jobs, Send(j)
    PROVE  IInv'
<1> USE DEF IInv
<1>1. PICK m \in Messages :
        /\ queue[m].place = "unsent"
        /\ queue' = [queue EXCEPT ![m] = [place |-> "queue", id |-> j, receives |-> 0]]
  BY DEF Send
<1>2. /\ inspections[j].status # "ABSENT"
      /\ UNCHANGED <<tables, clock, main, heartbeat, counts>>
      /\ sent' = [sent EXCEPT ![j] = TRUE] /\ pending' = pending
  BY DEF Send, Outbox!Send
<1>3. QueueTyped'
  <2>1. 0 \in 0..MaxReceives
    BY MarginAssumption, AttemptsAssumption
  <2> QED
    BY <1>1, <2>1 DEF TypeOK, QueueTyped
<1>4. /\ queue'[m].id = j /\ queue'[m].place = "queue"
      /\ \A n \in Messages : n # m => queue'[n] = queue[n]
  BY <1>1 DEF TypeOK
<1>5. QueueKept
  BY <1>1, <1>4 DEF QueueKept
<1>6. LocalsTyped' /\ LocalsMatch' /\ Forgets /\ AcksKept
  BY <1>2, <1>5, SameLocals
<1>7. RowsGood
  BY <1>2, <1>6, QuietRows
<1>8. TypeOK'
  <2>1. PublisherTyped'
    BY <1>2 DEF TypeOK, PublisherTyped
  <2>2. RestTyped'
    BY <1>2, CountersTyped, TypeInParts
  <2> QED
    BY <1>3, <1>6, <1>7, <2>1, <2>2, TypeInParts DEF RowsGood
<1>9. AckReady'
  BY <1>5, <1>6, <1>7, AckReadyKept DEF DeliveryInv, RowsGood
<1>10. inspections' = inspections
  BY <1>2 DEF tables
<1>11. OwedOrSent'
  BY <1>2, <1>10 DEF TypeOK, DeliveryInv, OwedOrSent
<1>12. SentHasCopy'
  <2> SUFFICES ASSUME NEW i \in Jobs, sent'[i], inspections[i].status # "COMPLETED"
               PROVE  \E n \in Messages : /\ queue'[n].id = i
                                          /\ queue'[n].place \in {"queue", "dead"}
    BY <1>10 DEF SentHasCopy
  <2>1. CASE i = j
    BY <1>4, <2>1
  <2>2. CASE i # j
    <3>1. sent[i]
      BY <1>2, <2>2 DEF TypeOK
    <3>2. PICK n \in Messages : queue[n].id = i /\ queue[n].place \in {"queue", "dead"}
      BY <3>1 DEF DeliveryInv, SentHasCopy
    <3>3. n # m
      BY <1>1, <3>2
    <3> QED
      BY <1>4, <3>2, <3>3
  <2> QED
    BY <2>1, <2>2
<1>13. AckOnlyCompleted'
  BY <1>4, <1>10 DEF DeliveryInv, AckOnlyCompleted
<1> QED
  BY <1>6, <1>7, <1>8, <1>9, <1>11, <1>12, <1>13 DEF DeliveryInv, RowsGood

LEMMA PublishInv ==
    ASSUME IInv, NEW j \in Jobs, Publish(j)
    PROVE  IInv'
<1> USE DEF IInv
<1>1. /\ UNCHANGED <<tables, queue, clock, main, heartbeat, counts>>
      /\ sent[j] /\ sent' = sent /\ pending' = [pending EXCEPT ![j] = FALSE]
  BY DEF Publish, Outbox!Publish
<1>2. QueueTyped' /\ QueueKept
  BY <1>1, SameQueue
<1>3. LocalsTyped' /\ LocalsMatch' /\ Forgets /\ AcksKept
  BY <1>1, <1>2, SameLocals
<1>4. RowsGood
  BY <1>1, <1>3, QuietRows
<1>5. TypeOK'
  <2>1. PublisherTyped'
    BY <1>1 DEF TypeOK, PublisherTyped
  <2>2. RestTyped'
    BY <1>1, CountersTyped, TypeInParts
  <2> QED
    BY <1>2, <1>3, <1>4, <2>1, <2>2, TypeInParts DEF RowsGood
<1>6. AckReady'
  BY <1>2, <1>3, <1>4, AckReadyKept DEF DeliveryInv, RowsGood
<1>7. OwedOrSent' /\ SentHasCopy' /\ AckOnlyCompleted'
  BY <1>1
  DEF TypeOK, tables, DeliveryInv, OwedOrSent, SentHasCopy, AckOnlyCompleted
<1> QED
  BY <1>3, <1>4, <1>5, <1>6, <1>7 DEF DeliveryInv, RowsGood

LEMMA RedriveInv ==
    ASSUME IInv, NEW j \in Jobs, Redrive(j)
    PROVE  IInv'
<1> USE DEF IInv
<1> DEFINE r == Redriven(inspections[j], clock)
<1>1. inspections[j] \in Row /\ inspections[j].status = "FAILED" /\ clock \in Nat
  BY DEF TypeOK, Redrive, Redrivable
<1>2. inspections[j].report = 0
  BY <1>1 DEF RowInv, ReportIsCurrent
<1>3. /\ r \in Row /\ r.status = "QUEUED" /\ r.attempts = 0 /\ r.report = 0
      /\ r.token = NULL /\ r.until = NULL
  BY <1>1, <1>2, RowRedriven
<1>4. ~ Exhausted(r)
  BY <1>3, AttemptsAssumption DEF Exhausted
<1>5. /\ SetRow(j, r)
      /\ UNCHANGED <<nextToken, queue, clock, main, heartbeat, faults>>
      /\ redrives < MaxRedrives /\ redrives' = redrives + 1
      /\ pending' = [pending EXCEPT ![j] = TRUE] /\ sent' = [sent EXCEPT ![j] = FALSE]
  BY DEF Redrive, Outbox!Open
<1> HIDE DEF r
<1>6. QueueTyped' /\ QueueKept
  BY <1>5, SameQueue
<1>7. LocalsTyped' /\ LocalsMatch' /\ Forgets /\ AcksKept
  BY <1>5, <1>6, SameLocals
<1>8. TablesTyped' /\ RowInv'
  BY <1>3, <1>4, <1>5, <1>7, ReleasingRow
<1>9. StatusKept
  BY <1>1, <1>3, <1>5 DEF TypeOK, SetRow, StatusKept
<1>10. TypeOK'
  <2>1. PublisherTyped'
    BY <1>5 DEF TypeOK, PublisherTyped
  <2>2. RestTyped'
    BY <1>5, BoundsAssumption DEF TypeOK, RestTyped
  <2> QED
    BY <1>6, <1>7, <1>8, <2>1, <2>2, TypeInParts
<1>11. AckReady'
  BY <1>6, <1>7, <1>9, AckReadyKept DEF DeliveryInv
<1>12. /\ pending'[j] /\ ~ sent'[j]
       /\ \A i \in Jobs : i # j => pending'[i] = pending[i] /\ sent'[i] = sent[i]
  BY <1>5 DEF TypeOK
<1>13. OwedOrSent' /\ SentHasCopy' /\ AckOnlyCompleted'
  BY <1>1, <1>5, <1>9, <1>12
  DEF DeliveryInv, OwedOrSent, SentHasCopy, AckOnlyCompleted, StatusKept
<1> QED
  BY <1>7, <1>8, <1>10, <1>11, <1>13 DEF DeliveryInv

\* The dead-letter queue still holds the message.
LEMMA DeadLetterInv ==
    ASSUME IInv, NEW m \in Messages, DeadLetter(m)
    PROVE  IInv'
<1> USE DEF IInv
<1>1. /\ queue[m].place = "queue" /\ queue' = [queue EXCEPT ![m].place = "dead"]
      /\ UNCHANGED <<tables, publisher, clock, main, heartbeat, counts>>
  BY DEF DeadLetter
<1>2. /\ \A n \in Messages : queue'[n].id = queue[n].id
      /\ queue'[m].place = "dead"
      /\ \A n \in Messages : n # m => queue'[n] = queue[n]
  BY <1>1 DEF TypeOK
<1>3. QueueTyped' /\ QueueKept
  BY <1>1, <1>2 DEF TypeOK, QueueTyped, QueueKept
<1>4. LocalsTyped' /\ LocalsMatch' /\ Forgets /\ AcksKept
  BY <1>1, <1>3, SameLocals
<1>5. RowsGood
  BY <1>1, <1>4, QuietRows
<1>6. TypeOK'
  <2>1. PublisherTyped'
    BY <1>1 DEF TypeOK, PublisherTyped, publisher
  <2>2. RestTyped'
    BY <1>1, CountersTyped, TypeInParts
  <2> QED
    BY <1>3, <1>4, <1>5, <2>1, <2>2, TypeInParts DEF RowsGood
<1>7. AckReady'
  BY <1>3, <1>4, <1>5, AckReadyKept DEF DeliveryInv, RowsGood
<1>8. OwedOrSent'
  BY <1>1 DEF tables, publisher, DeliveryInv, OwedOrSent
<1>9. SentHasCopy'
  <2> SUFFICES ASSUME NEW i \in Jobs, sent[i], inspections[i].status # "COMPLETED"
               PROVE  \E n \in Messages : /\ queue'[n].id = i
                                          /\ queue'[n].place \in {"queue", "dead"}
    BY <1>1 DEF SentHasCopy, tables, publisher
  <2>1. PICK n \in Messages : queue[n].id = i /\ queue[n].place \in {"queue", "dead"}
    BY DEF DeliveryInv, SentHasCopy
  <2> QED
    BY <1>2, <2>1
<1>10. AckOnlyCompleted'
  BY <1>1, <1>2 DEF tables, DeliveryInv, AckOnlyCompleted
<1> QED
  BY <1>4, <1>5, <1>6, <1>7, <1>8, <1>9, <1>10 DEF DeliveryInv, RowsGood

LEMMA TickInv ==
    ASSUME IInv, Tick \/ UNCHANGED vars
    PROVE  IInv'
<1> USE DEF IInv
<1>1. /\ UNCHANGED <<tables, publisher, queue, main, heartbeat, counts>>
      /\ clock' \in Nat
  BY DEF Tick, vars, TypeOK
<1>2. QueueTyped' /\ QueueKept
  BY <1>1, SameQueue
<1>3. LocalsTyped' /\ LocalsMatch' /\ Forgets /\ AcksKept
  BY <1>1, <1>2, SameLocals
<1>4. RowsGood
  BY <1>1, <1>3, QuietRows
<1>5. TypeOK'
  <2>1. PublisherTyped' /\ RestTyped'
    BY <1>1 DEF TypeOK, PublisherTyped, publisher, RestTyped, counts
  <2> QED
    BY <1>2, <1>3, <1>4, <2>1, TypeInParts DEF RowsGood
<1>6. AckReady'
  BY <1>2, <1>3, <1>4, AckReadyKept DEF DeliveryInv, RowsGood
<1>7. DeliveryInv'
  BY <1>1, <1>4, <1>6, DeliveryKept DEF RowsGood, publisher
<1> QED
  BY <1>3, <1>4, <1>5, <1>7 DEF RowsGood

-----------------------------------------------------------------------------
(* The steps of a worker that write no row and leave the queue alone *)

LEMMA QuietWorker ==
    ASSUME IInv, UNCHANGED <<tables, publisher, queue, clock>>,
           Fault \/ UNCHANGED counts,
           LocalsTyped', LocalsMatch', Forgets, AcksKept \/ AckReady'
    PROVE  IInv'
<1>1. RowsGood
  BY QuietRows DEF IInv
<1>2. AckReady'
  BY <1>1, SameQueue, AckReadyKept DEF IInv, DeliveryInv, RowsGood
<1> QED
  BY <1>1, <1>2, WorkerKeeps DEF publisher

\* Steps that end run_once, or the process.
LEMMA LeavingInv ==
    ASSUME IInv, NEW w \in Workers,
           RejectPoison(w) \/ NoClaim(w) \/ Delay(w) \/ Crash(w)
    PROVE  IInv'
<1>1. Leave(w) /\ UNCHANGED <<tables, publisher, queue, clock>>
  BY DEF RejectPoison, NoClaim, Delay, Crash
<1>2. Fault \/ UNCHANGED counts
  BY DEF RejectPoison, NoClaim, Delay, Crash
<1> QED
  BY <1>1, <1>2, SameQueue, LeaveLocals, QuietWorker DEF IInv

LEMMA ResolveInv ==
    ASSUME IInv, NEW w \in Workers, Resolve(w)
    PROVE  IInv'
<1> USE DEF IInv
<1>1. /\ UNCHANGED <<tables, publisher, queue, clock, counts>>
      /\ pc[w] = "resolve" /\ Target(w) \in Jobs
  BY DEF Resolve
<1>2. QueueKept
  BY <1>1, SameQueue
<1>3. CASE Leave(w)
  BY <1>1, <1>2, <1>3, LeaveLocals, QuietWorker
<1>4. CASE Call(w, "select")
  BY <1>1, <1>2, <1>4, StepLocals, QuietWorker DEF Steps, Working
<1>5. CASE inspections[Target(w)].status = "COMPLETED" /\ Step(w, "ack")
  <2>1. LocalsTyped' /\ LocalsMatch' /\ Forgets
    BY <1>1, <1>2, <1>5, StepLocals DEF Steps, Working
  <2>2. AckReady'
    BY <1>1, <1>5
    DEF TypeOK, tables, Step, Goto, Target, DeliveryInv, AckReady
  <2> QED
    BY <1>1, <2>1, <2>2, QuietWorker
<1> QED
  BY <1>3, <1>4, <1>5 DEF Resolve

\* Between the SELECT of a claim and its UPDATE.
LEMMA SelectingInv ==
    ASSUME IInv, NEW w \in Workers, Select(w) \/ LostRace(w)
    PROVE  IInv'
<1> USE DEF IInv
<1>1. /\ UNCHANGED <<tables, publisher, queue, clock, counts>>
      /\ pc[w] \in {"select", "update"} /\ Target(w) \in Jobs
  BY DEF Select, LostRace, LocalsMatch, Targeting
<1>2. QueueKept
  BY <1>1, SameQueue
<1>3. CASE LostRace(w)
  BY <1>1, <1>2, <1>3, StepLocals, QuietWorker DEF LostRace, Steps, Working
<1>4. CASE Select(w)
  <2>1. /\ Goto(w, "update") /\ UNCHANGED <<now, message, held, heartbeat>>
        /\ tries' = [tries EXCEPT ![w] = tries[w] + 1] /\ tries[w] < ClaimTries
    BY <1>4 DEF Select
  <2>2. tries[w] + 1 \in 0..ClaimTries
    BY <2>1, BoundsAssumption DEF TypeOK
  <2>3. LocalsTyped'
    BY <2>1, <2>2 DEF TypeOK, LocalsTyped, Goto, heartbeat, Steps
  <2>4. \A v \in Workers : beat'[v] # "off" => held[v] # NoJob
    BY <2>1 DEF LocalsMatch, heartbeat
  <2>5. LocalsMatch' /\ Forgets /\ AcksKept
    BY <1>1, <1>2, <2>1, <2>4, MoveLocals DEF Steps, Working
  <2> QED
    BY <1>1, <2>3, <2>5, QuietWorker
<1> QED
  BY <1>3, <1>4

\* Starting the heartbeat, and process() up to its write.
LEMMA ProcessingInv ==
    ASSUME IInv, NEW w \in Workers,
           StartThread(w) \/ InferDone(w) \/ InferRaises(w)
    PROVE  IInv'
<1> USE DEF IInv
<1>1. /\ UNCHANGED <<tables, publisher, queue, clock, counts>>
      /\ pc[w] \in {"extend", "infer"} /\ held[w] # NoJob
  BY DEF StartThread, InferDone, InferRaises, LocalsMatch, Working
<1>2. QueueKept
  BY <1>1, SameQueue
<1>3. CASE InferDone(w) \/ InferRaises(w)
  <2>1. PICK step \in {"close", "complete", "fail"} : Step(w, step) \/ Call(w, step)
    BY <1>3 DEF InferDone, InferRaises
  <2> QED
    BY <1>1, <1>2, <2>1, StepLocals, QuietWorker DEF Steps, Working, Targeting
<1>4. CASE StartThread(w)
  <2>1. /\ Goto(w, "infer") /\ beat' = [beat EXCEPT ![w] = "waiting"]
        /\ UNCHANGED <<now, tries, message, held, beatNow, pulses, lost, stopped>>
    BY <1>4 DEF StartThread
  <2>2. LocalsTyped'
    BY <2>1 DEF TypeOK, LocalsTyped, Goto, Steps, Beats
  <2>3. \A v \in Workers : beat'[v] # "off" => held[v] # NoJob
    BY <1>1, <2>1 DEF TypeOK, LocalsMatch
  <2>4. LocalsMatch' /\ Forgets /\ AcksKept
    BY <1>1, <1>2, <2>1, <2>3, MoveLocals DEF Steps, Working, Targeting
  <2> QED
    BY <1>1, <2>2, <2>4, QuietWorker
<1> QED
  BY <1>3, <1>4

\* heartbeat.close()
LEMMA ClosingInv ==
    ASSUME IInv, NEW w \in Workers, Close(w) \/ Join(w)
    PROVE  IInv'
<1> USE DEF IInv
<1>1. UNCHANGED <<tables, publisher, queue, clock, counts>>
  BY DEF Close, Join
<1>2. QueueKept
  BY <1>1, SameQueue
<1>3. CASE Close(w)
  <2>1. UNCHANGED <<main, beat, beatNow, pulses, lost>>
    BY <1>3 DEF Close
  <2>2. LocalsTyped'
    BY <1>3 DEF Close, TypeOK, LocalsTyped, main
  <2>3. \A v \in Workers : beat'[v] # "off" => held[v] # NoJob
    BY <2>1 DEF LocalsMatch
  <2> QED
    BY <1>1, <1>2, <2>1, <2>2, <2>3, BeatLocals, QuietWorker
<1>4. CASE pc[w] = "close" /\ Step(w, "reread")
  <2>1. held[w] # NoJob
    BY <1>4 DEF LocalsMatch, Working
  <2> QED
    BY <1>1, <1>2, <1>4, <2>1, StepLocals, QuietWorker DEF Steps, Targeting
<1>5. CASE Leave(w)
  BY <1>1, <1>2, <1>5, LeaveLocals, QuietWorker
<1> QED
  BY <1>3, <1>4, <1>5 DEF Join

\* The state is read again before the acknowledgement.
LEMMA RereadInv ==
    ASSUME IInv, NEW w \in Workers, Reread(w)
    PROVE  IInv'
<1> USE DEF IInv
<1>1. /\ UNCHANGED <<tables, publisher, queue, clock, counts>> /\ pc[w] = "reread"
      /\ held[w] # NoJob
  BY DEF Reread, LocalsMatch, Working
<1>2. QueueKept
  BY <1>1, SameQueue
<1>3. CASE Leave(w)
  BY <1>1, <1>2, <1>3, LeaveLocals, QuietWorker
<1>4. CASE Step(w, "delay")
  BY <1>1, <1>2, <1>4, StepLocals, QuietWorker DEF Steps, Targeting
<1>5. CASE inspections[held[w].id].status = "COMPLETED" /\ Step(w, "ack")
  <2>1. held[w].id = Target(w) /\ Target(w) \in Jobs
    BY <1>1 DEF TypeOK, Job, LocalsMatch
  <2>2. LocalsTyped' /\ LocalsMatch' /\ Forgets
    BY <1>1, <1>2, <1>5, <2>1, StepLocals DEF Steps, Working
  <2>3. AckReady'
    BY <1>1, <1>5, <2>1
    DEF TypeOK, tables, Step, Goto, Target, DeliveryInv, AckReady
  <2> QED
    BY <1>1, <2>2, <2>3, QuietWorker
<1> QED
  BY <1>3, <1>4, <1>5 DEF Reread

\* The heartbeat thread between its database calls.
LEMMA BeatInv ==
    ASSUME IInv, NEW w \in Workers,
           \/ Wake(w) \/ Lookup(w) \/ Extend(w) \/ StopThread(w) \/ BeatRaises(w)
    PROVE  IInv'
<1> USE DEF IInv
<1>1. /\ UNCHANGED <<tables, publisher, queue, clock, main, stopped>>
      /\ Fault \/ UNCHANGED counts
  BY DEF Wake, Lookup, Extend, StopThread, BeatRaises
<1>2. QueueKept
  BY <1>1, SameQueue
<1>3. beat[w] # "off"
  BY DEF Wake, Lookup, Extend, StopThread, BeatRaises
<1>4. LocalsTyped' /\ \A v \in Workers : beat'[v] # "off" => held[v] # NoJob
  <2>1. CASE Wake(w)
    <3>1. pulses[w] + 1 \in 0..MaxPulses
      BY <2>1, BoundsAssumption DEF TypeOK, Wake
    <3> QED
      BY <1>1, <1>3, <2>1, <3>1
      DEF Wake, TypeOK, LocalsTyped, LocalsMatch, main, Beats
  <2>2. CASE Lookup(w)
    BY <1>1, <1>3, <2>2 DEF Lookup, TypeOK, LocalsTyped, LocalsMatch, main, Beats
  <2>3. CASE Extend(w) \/ StopThread(w)
    BY <1>1, <1>3, <2>3
    DEF Extend, StopThread, TypeOK, LocalsTyped, LocalsMatch, main, Beats
  <2>4. CASE BeatRaises(w)
    BY <1>1, <1>3, <2>4
    DEF BeatRaises, TypeOK, LocalsTyped, LocalsMatch, main, Beats
  <2> QED
    BY <2>1, <2>2, <2>3, <2>4
<1> QED
  BY <1>1, <1>2, <1>4, BeatLocals, QuietWorker

-----------------------------------------------------------------------------
(* The steps of a worker that write a row *)

LEMMA ClaimInv ==
    ASSUME IInv, NEW w \in Workers, Take(w) \/ LostClaim(w)
    PROVE  IInv'
<1> USE DEF IInv
<1> DEFINE j == Target(w)
<1>1. /\ WriteClaim(w) /\ UNCHANGED <<publisher, queue, clock>>
      /\ Fault \/ UNCHANGED counts
  BY DEF Take, LostClaim
<1>2. /\ pc[w] = "update" /\ j \in Jobs /\ now[w] \in Nat
      /\ Eligible(inspections[j], now[w]) /\ ~ Exhausted(inspections[j])
      /\ SetRow(j, Claimed(inspections[j], nextToken, now[w]))
      /\ nextToken' = nextToken + 1
  BY <1>1 DEF WriteClaim, LocalsMatch, Targeting, TypeOK
<1>3. QueueKept
  BY <1>1, SameQueue
<1>4. CASE LostClaim(w)
  <2>1. LocalsTyped' /\ LocalsMatch' /\ Forgets /\ AcksKept
    BY <1>3, <1>4, LeaveLocals DEF LostClaim
  <2>2. RowsGood
    BY <1>2, <2>1, ClaimingRow DEF Forgets
  <2>3. AckReady'
    BY <1>3, <2>1, <2>2, AckReadyKept DEF DeliveryInv, RowsGood
  <2> QED
    BY <1>1, <2>1, <2>2, <2>3, WorkerKeeps DEF publisher
<1>5. CASE Take(w)
  <2> DEFINE copy == [id |-> j, token |-> nextToken,
                      attempts |-> inspections[j].attempts + 1]
  <2>1. inspections[j] \in Row /\ nextToken \in Nat
    BY <1>2 DEF TypeOK
  <2>2. /\ Claimed(inspections[j], nextToken, now[w]).token = nextToken
        /\ Claimed(inspections[j], nextToken, now[w]).attempts
               = inspections[j].attempts + 1
        /\ inspections[j].attempts + 1 \in 1..MaxAttempts
    BY <1>2, <2>1, RowClaimed
  <2>3. inspections'[j] = Claimed(inspections[j], nextToken, now[w])
    BY <1>2 DEF TypeOK, SetRow
  <2>4. held' = [held EXCEPT ![w] = copy]
    BY <1>5, <2>2, <2>3 DEF Take, Copy
  <2>5. copy \in Job(Jobs) /\ copy # NoJob /\ copy.id = j
    BY <1>2, <2>1, <2>2, NamesAssumption DEF Job
  <2>6. \A v \in Workers : held'[v] \in {held[v], NoJob} \/ (v = w /\ held'[v] = copy)
    BY <2>4 DEF TypeOK
  <2>7. RowsGood
    BY <1>2, <2>6, ClaimingRow
  <2> HIDE DEF copy
  <2>8. LocalsTyped'
    <3>1. 0 \in 0..ClaimTries
      BY BoundsAssumption
    <3> QED
      BY <1>5, <2>4, <2>5, <3>1 DEF Take, TypeOK, LocalsTyped, Goto, Steps, heartbeat
  <2>9. /\ pc' = [pc EXCEPT ![w] = "pulse"] /\ UNCHANGED <<queue, message, beat>>
    BY <1>5 DEF Take, Goto, heartbeat
  <2>10. LocalsMatch'
    <3> SUFFICES ASSUME NEW v \in Workers
                 PROVE  /\ pc'[v] \in Working => held'[v] # NoJob
                        /\ beat[v] # "off" => held'[v] # NoJob
                        /\ pc'[v] = "idle" <=> message[v] = NoMessage
                        /\ pc'[v] = "idle" => held'[v] = NoJob
                        /\ message[v] # NoMessage => queue[message[v]].place # "unsent"
                        /\ pc'[v] \in Targeting => Target(v) \in Jobs
                        /\ held'[v] # NoJob => held'[v].id = Target(v)
      BY <2>9 DEF LocalsMatch, Target
    <3>1. CASE v = w
      <4>1. pc'[v] = "pulse" /\ held'[v] = copy
        BY <2>4, <2>9, <3>1 DEF TypeOK
      <4> QED
        BY <1>2, <2>5, <3>1, <4>1 DEF LocalsMatch, Targeting
    <3>2. CASE v # w
      <4>1. pc'[v] = pc[v] /\ held'[v] = held[v]
        BY <2>4, <2>9, <3>2 DEF TypeOK
      <4> QED
        BY <4>1 DEF LocalsMatch
    <3> QED
      BY <3>1, <3>2
  <2>11. AcksKept
    BY <2>9 DEF AcksKept, TypeOK
  <2>12. AckReady'
    BY <1>3, <2>7, <2>11, AckReadyKept DEF DeliveryInv, RowsGood
  <2> QED
    BY <1>1, <2>7, <2>8, <2>10, <2>12, WorkerKeeps DEF publisher
<1> QED
  BY <1>4, <1>5

LEMMA ReapInv ==
    ASSUME IInv, NEW w \in Workers, Reap(w)
    PROVE  IInv'
<1> USE DEF IInv
<1>1. /\ UNCHANGED <<nextToken, publisher, queue, clock, counts>>
      /\ pc[w] = "update" /\ Step(w, "select") /\ Target(w) \in Jobs
      /\ Eligible(inspections[Target(w)], now[w]) /\ Exhausted(inspections[Target(w)])
      /\ SetRow(Target(w), Reaped(inspections[Target(w)]))
  BY DEF Reap, LocalsMatch, Targeting
<1>2. QueueKept
  BY <1>1, SameQueue
<1>3. LocalsTyped' /\ LocalsMatch' /\ Forgets /\ AcksKept
  BY <1>1, <1>2, StepLocals DEF Steps, Working
<1>4. RowsGood
  BY <1>1, <1>3, ReapingRow
<1>5. AckReady'
  BY <1>2, <1>3, <1>4, AckReadyKept DEF DeliveryInv, RowsGood
<1> QED
  BY <1>1, <1>3, <1>4, <1>5, WorkerKeeps DEF publisher

\* The first pulse in the main thread.
LEMMA FirstPulseInv ==
    ASSUME IInv, NEW w \in Workers, FirstPulse(w)
    PROVE  IInv'
<1> USE DEF IInv
<1>1. /\ UNCHANGED <<nextToken, publisher, queue, clock, counts>>
      /\ pc[w] = "pulse" /\ held[w] # NoJob /\ held[w].id \in Jobs /\ now[w] \in Nat
  BY DEF FirstPulse, LocalsMatch, Working, TypeOK, Job
<1>2. QueueKept
  BY <1>1, SameQueue
<1>3. CASE /\ Renewable(w, now[w]) /\ Step(w, "extend")
           /\ SetRow(held[w].id, Renewed(inspections[held[w].id], now[w]))
  <2>1. LocalsTyped' /\ LocalsMatch' /\ Forgets /\ AcksKept
    BY <1>1, <1>2, <1>3, StepLocals DEF Steps, Targeting
  <2>2. RowsGood
    BY <1>1, <1>3, <2>1, RenewingRow DEF Renewable, Fenced
  <2>3. AckReady'
    BY <1>2, <2>1, <2>2, AckReadyKept DEF DeliveryInv, RowsGood
  <2> QED
    BY <1>1, <2>1, <2>2, <2>3, WorkerKeeps DEF publisher
<1>4. CASE Leave(w) /\ UNCHANGED inspections
  BY <1>1, <1>2, <1>4, LeaveLocals, QuietWorker DEF tables
<1> QED
  BY <1>3, <1>4 DEF FirstPulse

\* A pulse of the heartbeat thread.
LEMMA RenewInv ==
    ASSUME IInv, NEW w \in Workers, Renew(w)
    PROVE  IInv'
<1> USE DEF IInv
<1>1. /\ UNCHANGED <<nextToken, publisher, queue, clock, main, counts>>
      /\ UNCHANGED <<beatNow, pulses, lost, stopped>>
      /\ beat[w] = "renew" /\ held[w] # NoJob /\ held[w].id \in Jobs
      /\ beatNow[w] \in Nat
  BY DEF Renew, LocalsMatch, TypeOK, Job
<1>2. QueueKept
  BY <1>1, SameQueue
<1>3. PICK b \in {"extend", "lookup"} : beat' = [beat EXCEPT ![w] = b]
  BY DEF Renew
<1>4. LocalsTyped' /\ \A v \in Workers : beat'[v] # "off" => held[v] # NoJob
  BY <1>1, <1>3 DEF TypeOK, LocalsTyped, LocalsMatch, main, Beats
<1>5. LocalsMatch' /\ Forgets /\ AcksKept
  BY <1>1, <1>2, <1>4, BeatLocals
<1>6. CASE /\ Renewable(w, beatNow[w])
           /\ SetRow(held[w].id, Renewed(inspections[held[w].id], beatNow[w]))
  <2>1. RowsGood
    BY <1>1, <1>5, <1>6, RenewingRow DEF Renewable, Fenced
  <2>2. AckReady'
    BY <1>2, <1>5, <2>1, AckReadyKept DEF DeliveryInv, RowsGood
  <2> QED
    BY <1>1, <1>4, <1>5, <2>1, <2>2, WorkerKeeps DEF publisher
<1>7. CASE UNCHANGED inspections
  BY <1>1, <1>4, <1>5, <1>7, QuietWorker DEF tables
<1> QED
  BY <1>6, <1>7 DEF Renew

\* complete() and fail(), whether they write, are fenced off or raise.
LEMMA WritingInv ==
    ASSUME IInv, NEW w \in Workers,
           Complete(w) \/ CompleteRaises(w) \/ FailJob(w) \/ FailRaises(w)
    PROVE  IInv'
<1> USE DEF IInv
<1>1. /\ UNCHANGED <<nextToken, publisher, queue, clock>>
      /\ Fault \/ UNCHANGED counts
      /\ pc[w] \in {"complete", "fail"} /\ held[w] # NoJob
  BY DEF Complete, CompleteRaises, FailJob, FailRaises, LocalsMatch, Working
<1>2. QueueKept
  BY <1>1, SameQueue
<1>3. PICK step \in {"close", "fail", "abort"} : Step(w, step) \/ Call(w, step)
  BY DEF Complete, CompleteRaises, FailJob, FailRaises
<1>4. LocalsTyped' /\ LocalsMatch' /\ Forgets /\ AcksKept
  BY <1>1, <1>2, <1>3, StepLocals DEF Steps, Working, Targeting
<1>5. CASE WriteComplete(w) \/ WriteFail(w)
  <2>1. RowsGood
    BY <1>1, <1>4, <1>5, CompletingRow, FailingRow
  <2>2. AckReady'
    BY <1>2, <1>4, <2>1, AckReadyKept DEF DeliveryInv, RowsGood
  <2> QED
    BY <1>1, <1>4, <2>1, <2>2, WorkerKeeps DEF publisher
<1>6. CASE UNCHANGED inspections
  BY <1>1, <1>4, <1>6, QuietWorker DEF tables
<1> QED
  BY <1>5, <1>6 DEF Complete, CompleteRaises, FailJob, FailRaises

-----------------------------------------------------------------------------
(* The steps of a worker that change the queue *)

LEMMA ReceiveInv ==
    ASSUME IInv, NEW w \in Workers, NEW m \in Messages, Receive(w, m)
    PROVE  IInv'
<1> USE DEF IInv
<1>1. /\ pc[w] = "idle" /\ queue[m].place \in {"queue", "deleted"}
      /\ queue[m].receives < MaxReceives
      /\ queue' = [queue EXCEPT ![m].receives = queue[m].receives + 1]
      /\ message' = [message EXCEPT ![w] = m] /\ Goto(w, "resolve")
      /\ UNCHANGED <<tables, publisher, clock, now, tries, held, heartbeat, counts>>
  BY DEF Receive
<1>2. queue[m].receives + 1 \in 0..MaxReceives
  BY <1>1, MarginAssumption DEF TypeOK
<1>3. QueueTyped'
  BY <1>1, <1>2 DEF TypeOK, QueueTyped
<1>4. \A n \in Messages : queue'[n].id = queue[n].id /\ queue'[n].place = queue[n].place
  BY <1>1 DEF TypeOK
<1>5. QueueKept
  BY <1>4 DEF QueueKept
<1>6. LocalsTyped'
  BY <1>1 DEF TypeOK, LocalsTyped, Goto, heartbeat, Steps
<1>7. m # NoMessage /\ held[w] = NoJob /\ beat[w] = "off"
  BY <1>1, NamesAssumption DEF LocalsMatch
<1>8. LocalsMatch' /\ Forgets /\ AcksKept
  <2>1. Forgets
    BY <1>1 DEF Forgets
  <2>2. AcksKept
    BY <1>1 DEF TypeOK, AcksKept, Goto
  <2>3. LocalsMatch'
    <3> SUFFICES ASSUME NEW v \in Workers
                 PROVE  /\ pc'[v] \in Working => held[v] # NoJob
                        /\ beat[v] # "off" => held[v] # NoJob
                        /\ pc'[v] = "idle" <=> message'[v] = NoMessage
                        /\ pc'[v] = "idle" => held[v] = NoJob
                        /\ message'[v] # NoMessage =>
                               queue'[message'[v]].place # "unsent"
                        /\ pc'[v] \in Targeting => queue'[message'[v]].id \in Jobs
                        /\ held[v] # NoJob => held[v].id = queue'[message'[v]].id
      BY <1>1 DEF LocalsMatch, Target, heartbeat
    <3>1. CASE v = w
      <4>1. pc'[v] = "resolve" /\ message'[v] = m
        BY <1>1, <3>1 DEF TypeOK, Goto
      <4> QED
        BY <1>1, <1>4, <1>7, <3>1, <4>1 DEF Working, Targeting
    <3>2. CASE v # w
      <4>1. pc'[v] = pc[v] /\ message'[v] = message[v]
        BY <1>1, <3>2 DEF TypeOK, Goto
      <4> QED
        BY <1>5, <4>1, SameTarget DEF LocalsMatch, Targeting
    <3> QED
      BY <3>1, <3>2
  <2> QED
    BY <2>1, <2>2, <2>3
<1>9. RowsGood
  BY <1>1, <1>8, QuietRows
<1>10. TypeOK'
  <2>1. PublisherTyped' /\ RestTyped'
    BY <1>1 DEF TypeOK, PublisherTyped, publisher, RestTyped, counts
  <2> QED
    BY <1>3, <1>6, <1>9, <2>1, TypeInParts DEF RowsGood
<1>11. AckReady'
  BY <1>5, <1>8, <1>9, AckReadyKept DEF DeliveryInv, RowsGood
<1>12. OwedOrSent' /\ SentHasCopy' /\ AckOnlyCompleted'
  BY <1>1, <1>4
  DEF tables, publisher, DeliveryInv, OwedOrSent, SentHasCopy, AckOnlyCompleted
<1> QED
  BY <1>8, <1>9, <1>10, <1>11, <1>12 DEF DeliveryInv, RowsGood

\* The message that goes is one of a COMPLETED job.
LEMMA AckInv ==
    ASSUME IInv, NEW w \in Workers, Ack(w)
    PROVE  IInv'
<1> USE DEF IInv
<1> DEFINE m == message[w]
<1>1. /\ pc[w] = "ack" /\ Leave(w)
      /\ queue' = [queue EXCEPT ![m].place =
                     IF queue[m].place = "queue" THEN "deleted" ELSE queue[m].place]
      /\ UNCHANGED <<tables, publisher, clock, counts>>
  BY DEF Ack
<1>2. /\ m \in Messages /\ queue[m].place # "unsent"
      /\ queue[m].id \in Jobs /\ inspections[queue[m].id].status = "COMPLETED"
  BY <1>1 DEF TypeOK, LocalsMatch, Targeting, DeliveryInv, AckReady, Target
<1> HIDE DEF m
<1>3. /\ \A n \in Messages : queue'[n].id = queue[n].id
      /\ \A n \in Messages : n # m => queue'[n].place = queue[n].place
      /\ queue'[m].place \in {"deleted", queue[m].place}
  BY <1>1, <1>2 DEF TypeOK
<1>4. QueueTyped'
  BY <1>1, <1>2 DEF TypeOK, QueueTyped
<1>5. QueueKept
  BY <1>2, <1>3 DEF QueueKept
<1>6. LocalsTyped' /\ LocalsMatch' /\ Forgets /\ AcksKept
  BY <1>1, <1>5, LeaveLocals
<1>7. RowsGood
  BY <1>1, <1>6, QuietRows
<1>8. TypeOK'
  <2>1. PublisherTyped' /\ RestTyped'
    BY <1>1 DEF TypeOK, PublisherTyped, publisher, RestTyped, counts
  <2> QED
    BY <1>4, <1>6, <1>7, <2>1, TypeInParts DEF RowsGood
<1>9. AckReady'
  BY <1>5, <1>6, <1>7, AckReadyKept DEF DeliveryInv, RowsGood
<1>10. UNCHANGED <<inspections, pending, sent>>
  BY <1>1 DEF tables, publisher
<1>11. OwedOrSent' /\ AckOnlyCompleted'
  BY <1>2, <1>3, <1>10 DEF DeliveryInv, OwedOrSent, AckOnlyCompleted
<1>12. SentHasCopy'
  <2> SUFFICES ASSUME NEW i \in Jobs, sent[i], inspections[i].status # "COMPLETED"
               PROVE  \E n \in Messages : /\ queue'[n].id = i
                                          /\ queue'[n].place \in {"queue", "dead"}
    BY <1>10 DEF SentHasCopy
  <2>1. PICK n \in Messages : queue[n].id = i /\ queue[n].place \in {"queue", "dead"}
    BY DEF DeliveryInv, SentHasCopy
  <2>2. n # m
    BY <1>2, <2>1
  <2> QED
    BY <1>3, <2>1, <2>2
<1> QED
  BY <1>6, <1>7, <1>8, <1>9, <1>11, <1>12 DEF DeliveryInv, RowsGood

-----------------------------------------------------------------------------
(* The invariant and what follows from it *)

LEMMA InitInv == Init => IInv
<1> SUFFICES ASSUME Init PROVE IInv
  OBVIOUS
<1>1. AbsentRow \in Row
  BY AttemptsAssumption DEF AbsentRow, Row, Status, Terminal, Errors, NULL
<1>2. /\ 0 \in 0..MaxReceives /\ 0 \in 0..ClaimTries /\ 0 \in 0..MaxPulses
      /\ 0 \in 0..MaxFaults /\ 0 \in 0..MaxRedrives
  BY MarginAssumption, AttemptsAssumption, BoundsAssumption
<1>3. TypeOK
  BY <1>1, <1>2 DEF Init, TypeOK, Steps, Beats
<1>4. RowInv
  BY DEF Init, AbsentRow, NULL, RowInv, LeaseShape, TokensSpent, TokensUnique,
         CopyIsCurrent, Owns, BudgetRespected, ReportIsCurrent
<1>5. LocalsMatch
  BY DEF Init, LocalsMatch, Working, Targeting
<1>6. DeliveryInv
  BY DEF Init, AbsentRow, DeliveryInv, AckReady, OwedOrSent, SentHasCopy,
         AckOnlyCompleted
<1> QED
  BY <1>3, <1>4, <1>5, <1>6 DEF IInv

LEMMA NextInv == IInv /\ [Next]_vars => IInv'
<1> SUFFICES ASSUME IInv, [Next]_vars PROVE IInv'
  OBVIOUS
<1>1. CASE Environment
  BY <1>1, CreateInv, SendInv, PublishInv, RedriveInv, DeadLetterInv, TickInv
  DEF Environment
<1>2. ASSUME NEW w \in Workers, MainStep(w)
      PROVE  IInv'
  BY <1>2, ReceiveInv, LeavingInv, ResolveInv, SelectingInv, ClaimInv, ReapInv,
     FirstPulseInv, ProcessingInv, WritingInv, ClosingInv, RereadInv, AckInv
  DEF MainStep
<1>3. ASSUME NEW w \in Workers, BeatStep(w)
      PROVE  IInv'
  BY <1>3, BeatInv, RenewInv DEF BeatStep
<1>4. ASSUME NEW w \in Workers, FaultStep(w)
      PROVE  IInv'
  BY <1>4, LeavingInv, ClaimInv, WritingInv, BeatInv DEF FaultStep
<1>5. CASE UNCHANGED vars
  BY <1>5, TickInv
<1> QED
  BY <1>1, <1>2, <1>3, <1>4, <1>5 DEF Next

\* Leases, positions and deliveries are sound at every instant, whatever
\* duplicates, heartbeats, crashes and redrives do (sqs_worker.py, queue.py).
THEOREM Invariance == Spec => []IInv
BY InitInv, NextInv, PTL DEF Spec

\* Every column, message and local keeps its type.
THEOREM TypeCorrect == Spec => []TypeOK
<1>1. IInv => TypeOK
  BY DEF IInv
<1> QED
  BY <1>1, Invariance, PTL

\* However often a message is delivered, one worker at most owns its job, and
\* with a current copy of the row.
THEOREM Ownership == Spec => []OneOwner
<1>1. IInv => OneOwner
  BY DEF IInv, RowInv, OneOwner, TokensUnique, CopyIsCurrent, Owns
<1> QED
  BY <1>1, Invariance, PTL

\* Only durable completion permits the acknowledgement.
THEOREM Acknowledged == Spec => []AckOnlyCompleted
<1>1. IInv => AckOnlyCompleted
  BY DEF IInv, DeliveryInv
<1> QED
  BY <1>1, Invariance, PTL

\* An accepted job is owed by the outbox, or SQS has a copy of its event.
THEOREM JobsKept == Spec => []NothingLost
<1>1. IInv => NothingLost
  <2> SUFFICES ASSUME IInv, NEW j \in Jobs,
                      inspections[j].status \in {"QUEUED", "PROCESSING"}, ~ pending[j]
               PROVE  \E m \in Messages : /\ queue[m].id = j
                                          /\ queue[m].place \in {"queue", "dead"}
    BY DEF NothingLost
  <2>1. sent[j]
    BY DEF IInv, DeliveryInv, OwedOrSent
  <2> QED
    BY <2>1 DEF IInv, DeliveryInv, SentHasCopy
<1> QED
  BY <1>1, Invariance, PTL

-----------------------------------------------------------------------------
(* What each step does to the rows *)

CreateRow ==
    \E j \in Jobs : /\ inspections[j].status = "ABSENT"
                    /\ SetRow(j, NewRow(clock))

ClaimRow ==
    \E j \in Jobs : \E t \in Nat :
        /\ Eligible(inspections[j], t) /\ ~ Exhausted(inspections[j])
        /\ SetRow(j, Claimed(inspections[j], nextToken, t))

ReapRow ==
    \E j \in Jobs : \E t \in Nat :
        /\ Eligible(inspections[j], t) /\ Exhausted(inspections[j])
        /\ SetRow(j, Reaped(inspections[j]))

RenewRow ==
    \E j \in Jobs : \E t \in Nat : SetRow(j, Renewed(inspections[j], t))

CompleteRow == \E w \in Workers : held[w] # NoJob /\ WriteComplete(w)

FailRow == \E w \in Workers : held[w] # NoJob /\ WriteFail(w)

RedriveRow ==
    \E j \in Jobs : /\ inspections[j].status = "FAILED"
                    /\ SetRow(j, Redriven(inspections[j], clock))

LEMMA StepsOnRows ==
    ASSUME IInv, [Next]_vars
    PROVE  \/ UNCHANGED inspections
           \/ CreateRow \/ ClaimRow \/ ReapRow \/ RenewRow
           \/ CompleteRow \/ FailRow \/ RedriveRow
<1> USE DEF IInv, tables
<1>1. ASSUME NEW w \in Workers, WriteClaim(w)
      PROVE  ClaimRow
  <2>1. Target(w) \in Jobs /\ now[w] \in Nat
    BY <1>1 DEF TypeOK, LocalsMatch, Targeting, WriteClaim
  <2> QED
    BY <1>1, <2>1 DEF ClaimRow, WriteClaim
<1>2. ASSUME NEW w \in Workers, Reap(w)
      PROVE  ReapRow
  <2>1. Target(w) \in Jobs /\ now[w] \in Nat
    BY <1>2 DEF TypeOK, LocalsMatch, Targeting, Reap
  <2> QED
    BY <1>2, <2>1 DEF ReapRow, Reap
<1>3. ASSUME NEW w \in Workers, FirstPulse(w) \/ Renew(w)
      PROVE  UNCHANGED inspections \/ RenewRow
  <2>1. held[w] # NoJob
    BY <1>3 DEF LocalsMatch, Working, FirstPulse, Renew
  <2>2. held[w].id \in Jobs /\ now[w] \in Nat /\ beatNow[w] \in Nat
    BY <2>1 DEF TypeOK, Job
  <2> QED
    BY <1>3, <2>2 DEF RenewRow, FirstPulse, Renew
<1>4. ASSUME NEW w \in Workers,
             Complete(w) \/ CompleteRaises(w) \/ FailJob(w) \/ FailRaises(w)
      PROVE  UNCHANGED inspections \/ CompleteRow \/ FailRow
  <2>1. held[w] # NoJob
    BY <1>4
    DEF LocalsMatch, Working, Complete, CompleteRaises, FailJob, FailRaises
  <2> QED
    BY <1>4, <2>1
    DEF CompleteRow, FailRow, Complete, CompleteRaises, FailJob, FailRaises
<1>5. CASE Environment
  BY <1>5
  DEF Environment, Create, Send, Publish, Redrive, Redrivable, DeadLetter, Tick,
      CreateRow, RedriveRow
<1>6. ASSUME NEW w \in Workers, MainStep(w)
      PROVE  \/ UNCHANGED inspections \/ ClaimRow \/ ReapRow \/ RenewRow
             \/ CompleteRow \/ FailRow
  <2>1. CASE Take(w) \/ Reap(w) \/ FirstPulse(w) \/ Complete(w) \/ FailJob(w)
    BY <1>1, <1>2, <1>3, <1>4, <2>1 DEF Take
  <2>2. CASE \/ \E m \in Messages : Receive(w, m)
             \/ RejectPoison(w) \/ Resolve(w) \/ Select(w) \/ NoClaim(w)
             \/ LostRace(w) \/ StartThread(w) \/ InferDone(w) \/ InferRaises(w)
             \/ Close(w) \/ Join(w) \/ Reread(w) \/ Delay(w) \/ Ack(w)
    BY <2>2
    DEF Receive, RejectPoison, Resolve, Select, NoClaim, LostRace, StartThread,
        InferDone, InferRaises, Close, Join, Reread, Delay, Ack
  <2> QED
    BY <1>6, <2>1, <2>2 DEF MainStep
<1>7. ASSUME NEW w \in Workers, BeatStep(w) \/ FaultStep(w)
      PROVE  \/ UNCHANGED inspections \/ ClaimRow \/ RenewRow
             \/ CompleteRow \/ FailRow
  BY <1>1, <1>3, <1>4, <1>7
  DEF BeatStep, FaultStep, Wake, Lookup, Extend, StopThread, Crash, LostClaim,
      BeatRaises
<1>8. CASE UNCHANGED vars
  BY <1>8 DEF vars
<1> QED
  BY <1>5, <1>6, <1>7, <1>8 DEF Next

-----------------------------------------------------------------------------
(* The pipeline implements the lifecycle *)

LEMMA InitRefines == Init => Lifecycle!Init
BY DEF Init, AbsentRow, Lifecycle!Init, StatusOf, AttemptsOf, ReportOf

\* The row of j, and a step that writes it, seen through the mapping.
LEMMA MappedRow ==
    ASSUME NEW j \in Jobs
    PROVE  /\ StatusOf[j] = inspections[j].status
           /\ AttemptsOf[j] = inspections[j].attempts
           /\ ReportOf[j] = inspections[j].report
           /\ [StatusOf EXCEPT ![j] = StatusOf[j]] = StatusOf
           /\ [AttemptsOf EXCEPT ![j] = AttemptsOf[j]] = AttemptsOf
           /\ [ReportOf EXCEPT ![j] = ReportOf[j]] = ReportOf
BY DEF StatusOf, AttemptsOf, ReportOf

LEMMA MappedWrite ==
    ASSUME IInv, NEW j \in Jobs, NEW r \in Row, SetRow(j, r)
    PROVE  /\ StatusOf'   = [StatusOf EXCEPT ![j] = r.status]
           /\ AttemptsOf' = [AttemptsOf EXCEPT ![j] = r.attempts]
           /\ ReportOf'   = [ReportOf EXCEPT ![j] = r.report]
BY DEF IInv, TypeOK, SetRow, StatusOf, AttemptsOf, ReportOf

LEMMA StepRefines ==
    ASSUME IInv, [Next]_vars
    PROVE  [Lifecycle!Next]_(Lifecycle!vars)
<1> USE DEF Lifecycle!Move, Lifecycle!HasBudget
<1>0. \A j \in Jobs : inspections[j] \in Row
  BY DEF IInv, TypeOK
<1>1. CASE UNCHANGED inspections
  BY <1>1 DEF Lifecycle!vars, StatusOf, AttemptsOf, ReportOf
<1>2. CASE CreateRow
  <2>1. PICK j \in Jobs : /\ inspections[j].status = "ABSENT"
                          /\ SetRow(j, NewRow(clock))
    BY <1>2 DEF CreateRow
  <2> DEFINE r == NewRow(clock)
  <2>2. /\ r \in Row /\ r.status = "QUEUED"
        /\ r.attempts = 0 /\ r.report = 0 /\ SetRow(j, r)
    BY <2>1, RowCreated DEF IInv, TypeOK
  <2>3. inspections[j].attempts = 0 /\ inspections[j].report = 0
    BY <2>1 DEF IInv, RowInv, LeaseShape
  <2> HIDE DEF r
  <2>4. Lifecycle!Submit(j)
    BY <2>1, <2>2, <2>3, MappedRow, MappedWrite DEF Lifecycle!Submit
  <2> QED
    BY <2>4 DEF Lifecycle!Next
<1>3. CASE ClaimRow
  <2>1. PICK j \in Jobs, t \in Nat :
          /\ Eligible(inspections[j], t) /\ ~ Exhausted(inspections[j])
          /\ SetRow(j, Claimed(inspections[j], nextToken, t))
    BY <1>3 DEF ClaimRow
  <2> DEFINE r == Claimed(inspections[j], nextToken, t)
  <2>2. /\ r \in Row /\ r.status = "PROCESSING"
        /\ r.attempts = inspections[j].attempts + 1
        /\ r.report = inspections[j].report /\ SetRow(j, r)
    BY <2>1, RowClaimed DEF IInv, TypeOK
  <2>3. inspections[j].status \in {"QUEUED", "PROCESSING"}
    BY <2>1 DEF Eligible, Ready, Expired
  <2>4. inspections[j].attempts < MaxAttempts
    BY <1>0, <2>1, AttemptsAssumption DEF Exhausted, Row
  <2> HIDE DEF r
  <2>5. Lifecycle!Attempt(j)
    BY <2>2, <2>3, <2>4, MappedRow, MappedWrite DEF Lifecycle!Attempt
  <2> QED
    BY <2>5 DEF Lifecycle!Next
<1>4. CASE ReapRow
  <2>1. PICK j \in Jobs, t \in Nat :
          /\ Eligible(inspections[j], t) /\ Exhausted(inspections[j])
          /\ SetRow(j, Reaped(inspections[j]))
    BY <1>4 DEF ReapRow
  <2> DEFINE r == Reaped(inspections[j])
  <2>2. /\ r \in Row /\ r.status = "FAILED"
        /\ r.attempts = inspections[j].attempts
        /\ r.report = inspections[j].report /\ SetRow(j, r)
    BY <1>0, <2>1, RowReaped
  <2>3. inspections[j].status = "PROCESSING"
    BY <2>1 DEF Eligible, Ready, Expired, IInv, RowInv, BudgetRespected
  <2>4. ~ (inspections[j].attempts < MaxAttempts)
    BY <1>0, <2>1, AttemptsAssumption DEF Exhausted, Row
  <2> HIDE DEF r
  <2>5. Lifecycle!GiveUp(j)
    BY <2>2, <2>3, <2>4, MappedRow, MappedWrite DEF Lifecycle!GiveUp
  <2> QED
    BY <2>5 DEF Lifecycle!Next
<1>5. CASE RenewRow
  <2>1. PICK j \in Jobs, t \in Nat : SetRow(j, Renewed(inspections[j], t))
    BY <1>5 DEF RenewRow
  <2> DEFINE r == Renewed(inspections[j], t)
  <2>2. /\ r \in Row /\ r.status = inspections[j].status
        /\ r.attempts = inspections[j].attempts
        /\ r.report = inspections[j].report /\ SetRow(j, r)
    BY <1>0, <2>1, RowRenewed
  <2> HIDE DEF r
  <2>3. UNCHANGED <<StatusOf, AttemptsOf, ReportOf>>
    BY <2>2, MappedRow, MappedWrite
  <2> QED
    BY <2>3 DEF Lifecycle!vars
<1>6. CASE CompleteRow
  <2>1. PICK w \in Workers : held[w] # NoJob /\ WriteComplete(w)
    BY <1>6 DEF CompleteRow
  <2> DEFINE j == held[w].id
             r == Completed(inspections[j], held[w])
  <2>2. /\ held[w] \in Job(Jobs) /\ j \in Jobs /\ inspections[j] \in Row
        /\ inspections[j].status = "PROCESSING"
        /\ inspections[j].attempts = held[w].attempts
    BY <2>1, FencedRow DEF IInv, WriteComplete, Holds
  <2>3. /\ r \in Row /\ r.status = "COMPLETED"
        /\ r.attempts = inspections[j].attempts
        /\ r.report = inspections[j].attempts
    BY <2>2, RowCompleted
  <2>4. SetRow(j, r)
    BY <2>1 DEF WriteComplete
  <2> HIDE DEF j, r
  <2>5. Lifecycle!Complete(j)
    BY <2>2, <2>3, <2>4, MappedRow, MappedWrite DEF Lifecycle!Complete
  <2> QED
    BY <2>2, <2>5 DEF Lifecycle!Next
<1>7. CASE FailRow
  <2>1. PICK w \in Workers : held[w] # NoJob /\ WriteFail(w)
    BY <1>7 DEF FailRow
  <2> DEFINE j == held[w].id
             r == Failed(inspections[j], held[w], now[w])
  <2>2. /\ held[w] \in Job(Jobs) /\ j \in Jobs /\ inspections[j] \in Row
        /\ inspections[j].status = "PROCESSING"
        /\ inspections[j].attempts = held[w].attempts
    BY <2>1, FencedRow DEF IInv, WriteFail, Holds
  <2>3. now[w] \in Nat
    BY DEF IInv, TypeOK
  <2>4. /\ r \in Row /\ r.status = IF LastAttempt(held[w]) THEN "FAILED" ELSE "QUEUED"
        /\ r.attempts = inspections[j].attempts
        /\ r.report = inspections[j].report
    BY <2>2, <2>3, RowFailed
  <2>5. LastAttempt(held[w]) <=> ~ (inspections[j].attempts < MaxAttempts)
    BY <2>2, AttemptsAssumption DEF LastAttempt, Row
  <2>6. SetRow(j, r)
    BY <2>1 DEF WriteFail
  <2> HIDE DEF j, r
  <2>7. CASE LastAttempt(held[w])
    <3>1. Lifecycle!GiveUp(j)
      BY <2>2, <2>4, <2>5, <2>6, <2>7, MappedRow, MappedWrite
      DEF Lifecycle!GiveUp
    <3> QED
      BY <2>2, <3>1 DEF Lifecycle!Next
  <2>8. CASE ~ LastAttempt(held[w])
    <3>1. Lifecycle!Retry(j)
      BY <2>2, <2>4, <2>5, <2>6, <2>8, MappedRow, MappedWrite
      DEF Lifecycle!Retry
    <3> QED
      BY <2>2, <3>1 DEF Lifecycle!Next
  <2> QED
    BY <2>7, <2>8
<1>8. CASE RedriveRow
  <2>1. PICK j \in Jobs : /\ inspections[j].status = "FAILED"
                          /\ SetRow(j, Redriven(inspections[j], clock))
    BY <1>8 DEF RedriveRow
  <2> DEFINE r == Redriven(inspections[j], clock)
  <2>2. /\ r \in Row /\ r.status = "QUEUED" /\ r.attempts = 0
        /\ r.report = inspections[j].report /\ SetRow(j, r)
    BY <1>0, <2>1, RowRedriven DEF IInv, TypeOK
  <2> HIDE DEF r
  <2>3. Lifecycle!Redrive(j)
    BY <2>1, <2>2, MappedRow, MappedWrite DEF Lifecycle!Redrive
  <2> QED
    BY <2>3 DEF Lifecycle!Next
<1> QED
  BY <1>1, <1>2, <1>3, <1>4, <1>5, <1>6, <1>7, <1>8, StepsOnRows

\* Behind duplicates, heartbeats, redrives and crashes, a client sees only the
\* steps of InspectionLifecycle.
THEOREM Refinement == Spec => ImplementsLifecycle
<1>1. IInv /\ [Next]_vars => [Lifecycle!Next]_(Lifecycle!vars)
  BY StepRefines
<1> QED
  BY <1>1, InitRefines, Invariance, PTL DEF Spec, ImplementsLifecycle, Lifecycle!Spec
=============================================================================
