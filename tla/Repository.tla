----------------------------- MODULE Repository -----------------------------
(***************************************************************************)
(* The row of one inspection (database.py, class Inspection) and what each *)
(* transaction of repository.py and of Outbox.redrive does to it.  Every   *)
(* operator below is one UPDATE ... WHERE ... RETURNING statement, split   *)
(* into the WHERE clause (a predicate on the row) and the new row.  The    *)
(* modules JobQueue and SqsPipeline decide who runs which one and when.    *)
(*                                                                         *)
(* Abstractions: times are natural numbers on one clock; a lease token     *)
(* (uuid4) is a number never handed out before; a report is the number of  *)
(* the attempt whose inference produced it, 0 standing for SQL NULL;       *)
(* completed_at is kept as whether it is set.                              *)
(***************************************************************************)
EXTENDS Integers, Sequences, FiniteSets

CONSTANTS
    MaxAttempts,    \* settings.max_attempts
    LeaseSeconds,   \* settings.lease_seconds
    RetryDelay      \* settings.retry_delay_seconds, in units of the clock

\* retry_delay_seconds * 2 ** (attempts - 1)
Backoff(n) == RetryDelay * 2 ^ (n - 1)

\* config.py bounds: max_attempts > 0, lease_seconds > 0, retry delay >= 0.
ASSUME AttemptsAssumption == MaxAttempts \in Nat \ {0}
ASSUME LeaseAssumption    == LeaseSeconds \in Nat \ {0}
ASSUME BackoffAssumption  == \A n \in 1..MaxAttempts : Backoff(n) \in Nat

NULL == -1                       \* SQL NULL of lease_token and lease_until

Terminal == {"COMPLETED", "FAILED"}
Status   == {"ABSENT", "QUEUED", "PROCESSING"} \cup Terminal
Errors   == {"none", "INFERENCE_FAILED", "RETRY_LIMIT_EXCEEDED"}

Row == [status    : Status,
        created   : Nat,
        available : Nat,
        attempts  : 0..MaxAttempts,
        token     : Nat \cup {NULL},
        until     : Nat \cup {NULL},
        error     : Errors,
        report    : 0..MaxAttempts,
        completed : BOOLEAN]

\* Before create() the row does not exist: no statement selects it.
AbsentRow == [status |-> "ABSENT", created |-> 0, available |-> 0,
              attempts |-> 0, token |-> NULL, until |-> NULL,
              error |-> "none", report |-> 0, completed |-> FALSE]

-----------------------------------------------------------------------------
(* create *)

NewRow(now) == [AbsentRow EXCEPT !.status = "QUEUED", !.created = now,
                                 !.available = now]

-----------------------------------------------------------------------------
(* claim: the disjunction `eligible`, then the two outcomes of the UPDATE *)

Ready(row, now) == row.status = "QUEUED" /\ row.available <= now

\* Slip: a lease that ran out is nobody's business.
ExpiredNever(row, now) == FALSE

\* A NULL lease compares with nothing.
Expired(row, now) ==
    row.status = "PROCESSING" /\ row.until # NULL /\ row.until <= now

Eligible(row, now) == Ready(row, now) \/ Expired(row, now)

\* Slip: off by one.
ExhaustedEarly(row) == row.attempts >= MaxAttempts - 1

Exhausted(row) == row.attempts >= MaxAttempts

\* Slip: taking over an expired lease keeps its token.
ClaimedKeepsToken(row, token, now) ==
    [row EXCEPT !.status = "PROCESSING",
                !.token = IF @ = NULL THEN token ELSE @,
                !.until = now + LeaseSeconds,
                !.attempts = @ + 1, !.error = "none"]

Claimed(row, token, now) ==
    [row EXCEPT !.status = "PROCESSING", !.token = token,
                !.until = now + LeaseSeconds,
                !.attempts = @ + 1, !.error = "none"]

\* An exhausted job is failed in the transaction that picked it up.
Reaped(row) ==
    [row EXCEPT !.status = "FAILED", !.error = "RETRY_LIMIT_EXCEEDED",
                !.completed = TRUE, !.token = NULL, !.until = NULL]

-----------------------------------------------------------------------------
(* complete, fail and renew: the fence, then the new row.  `job` is the    *)
(* detached copy of the row that claim returned to the worker.             *)

Job(Jobs) == [id : Jobs, token : Nat, attempts : 1..MaxAttempts]

\* Slip: a fence without the token.
FencedAnyToken(row, job, now) ==
    row.status = "PROCESSING" /\ row.until # NULL /\ row.until > now

\* RETURNING Inspection: the worker's detached copy of row j.
Copy(j, row) == [id |-> j, token |-> row.token, attempts |-> row.attempts]

Fenced(row, job, now) ==
    /\ row.status = "PROCESSING"
    /\ row.token # NULL /\ row.token = job.token
    /\ row.until # NULL /\ row.until > now

Completed(row, job) ==
    [row EXCEPT !.status = "COMPLETED", !.completed = TRUE,
                !.token = NULL, !.until = NULL,
                !.report = job.attempts, !.error = "none"]

\* Slip: one attempt too many.
LastAttemptLate(job) == job.attempts > MaxAttempts

\* fail() decides from the worker's copy, not from the row.
LastAttempt(job) == job.attempts >= MaxAttempts

Failed(row, job, now) ==
    [row EXCEPT !.status = IF LastAttempt(job) THEN "FAILED" ELSE "QUEUED",
                !.completed = LastAttempt(job),
                !.available = now + Backoff(job.attempts),
                !.error = "INFERENCE_FAILED",
                !.token = NULL, !.until = NULL]

Renewed(row, now) == [row EXCEPT !.until = now + LeaseSeconds]

-----------------------------------------------------------------------------
(* Outbox.redrive, the operator's explicit retry of a failed SQS job *)

Redrivable(row) == row.status = "FAILED"

Redriven(row, now) ==
    [row EXCEPT !.status = "QUEUED", !.attempts = 0, !.available = now,
                !.completed = FALSE, !.error = "none",
                !.token = NULL, !.until = NULL]

-----------------------------------------------------------------------------
(* The audit trail: what a row should look like, told from its events.     *)

Event == {"inspection_queued", "inspection_processing",
          "inspection_retry_scheduled", "inspection_failed",
          "inspection_completed", "inspection_redrive_requested"}

\* Attempts begun since the submission or the latest redrive.
AttemptsIn(log) ==
    LET redrives == {i \in 1..Len(log) : log[i] = "inspection_redrive_requested"}
    IN  Cardinality({i \in 1..Len(log) :
                        /\ log[i] = "inspection_processing"
                        /\ \A r \in redrives : r < i})

StatusAfter(event) ==
    CASE event \in {"inspection_queued", "inspection_retry_scheduled",
                    "inspection_redrive_requested"} -> "QUEUED"
      [] event = "inspection_processing" -> "PROCESSING"
      [] event = "inspection_completed"  -> "COMPLETED"
      [] event = "inspection_failed"     -> "FAILED"

\* The trail of an inspection tells its state: the last event its status, the
\* processing events of the current cycle its attempts.
Replays(log, row) ==
    IF log = <<>> THEN row.status = "ABSENT"
    ELSE /\ row.status = StatusAfter(log[Len(log)])
         /\ row.attempts = AttemptsIn(log)
=============================================================================
