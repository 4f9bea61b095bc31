------------------------------ MODULE JobQueue ------------------------------
(***************************************************************************)
(* The database queue (PCB_QUEUE_BACKEND=database): polling workers        *)
(* (worker.py) that claim, run and commit inspections through the          *)
(* repository (repository.py).  There is no heartbeat in this backend: a   *)
(* worker slower than its lease is overtaken by another.                   *)
(*                                                                         *)
(* One database statement is one step.  A worker reads time.time() before  *)
(* it opens the transaction, so the time it compares leases with (now[w])  *)
(* may be old when the statement runs; claim is a SELECT followed by an    *)
(* UPDATE, and other workers may run between the two (READ COMMITTED).     *)
(* Claiming is mapped to Poll, Select and the claim outcomes; inference to *)
(* Infer and InferRaises; the commit to Complete, Discard, FailJob and     *)
(* DropFailure.  Faults are actions of their own, bounded by MaxFaults.    *)
(***************************************************************************)
EXTENDS Repository

CONSTANTS
    Jobs,         \* inspection ids, numbers so that ORDER BY has its order
    Workers,      \* worker processes
    FairWorkers,  \* the workers that keep running; the others may stall
    NoJob,        \* what a worker holds outside process()
    ClaimTries,   \* `for _ in range(10)`
    MaxFaults     \* BOUND on crashes and database errors in a behaviour

ASSUME JobsAssumption    == Jobs \subseteq Nat
ASSUME WorkersAssumption == FairWorkers \subseteq Workers
ASSUME NoJobAssumption   == NoJob \notin Job(Jobs)
ASSUME BoundsAssumption  == ClaimTries \in Nat \ {0} /\ MaxFaults \in Nat

VARIABLES
    inspections,  \* the table: one row per id
    events,       \* inspection_events, the audit trail of each inspection
    nextToken,    \* the next uuid4
    clock,        \* time.time()
    pc,           \* where each worker is
    now,          \* the time each worker read at the start of its call
    tries,        \* iterations of the claim loop begun
    selected,     \* the id its SELECT returned
    held,         \* the job its claim returned
    faults        \* crashes and errors so far

database == <<inspections, events, nextToken>>
locals   == <<pc, now, tries, selected, held>>
vars     == <<database, clock, locals, faults>>

Steps == {"idle", "select", "update", "infer", "complete", "fail"}

Init ==
    /\ inspections = [j \in Jobs |-> AbsentRow]
    /\ events    = [j \in Jobs |-> <<>>]
    /\ nextToken = 1
    /\ clock     = 0
    /\ pc        = [w \in Workers |-> "idle"]
    /\ now       = [w \in Workers |-> 0]
    /\ tries     = [w \in Workers |-> 0]
    /\ selected  = [w \in Workers |-> NULL]
    /\ held      = [w \in Workers |-> NoJob]
    /\ faults    = 0

-----------------------------------------------------------------------------
(* Helpers *)

Audit(j, event) == events' = [events EXCEPT ![j] = Append(@, event)]

SetRow(j, row) == inspections' = [inspections EXCEPT ![j] = row]

\* The worker's locals go out of scope.
Leave(w) ==
    /\ pc'       = [pc EXCEPT ![w] = "idle"]
    /\ now'      = [now EXCEPT ![w] = 0]
    /\ tries'    = [tries EXCEPT ![w] = 0]
    /\ selected' = [selected EXCEPT ![w] = NULL]
    /\ held'     = [held EXCEPT ![w] = NoJob]

\* The next iteration of the claim loop.
Again(w) ==
    /\ pc'       = [pc EXCEPT ![w] = "select"]
    /\ selected' = [selected EXCEPT ![w] = NULL]
    /\ UNCHANGED <<now, tries, held>>

\* Call complete() or fail(): both read the clock first.
Call(w, step) ==
    /\ pc'  = [pc EXCEPT ![w] = step]
    /\ now' = [now EXCEPT ![w] = clock]
    /\ UNCHANGED <<tries, selected, held>>

Fault == faults < MaxFaults /\ faults' = faults + 1

Before(i, j) ==
    \/ inspections[i].created < inspections[j].created
    \/ inspections[i].created = inspections[j].created /\ i <= j

-----------------------------------------------------------------------------
(* The API and the clock *)

\* repository.create, called by the upload endpoint.
Create(j) ==
    /\ inspections[j].status = "ABSENT"
    /\ SetRow(j, NewRow(clock))
    /\ Audit(j, "inspection_queued")
    /\ UNCHANGED <<nextToken, clock, locals, faults>>

\* Time matters only while a deadline lies ahead: a lease or a retry delay.
Tick ==
    /\ \E j \in Jobs :
          \/ inspections[j].status = "QUEUED" /\ inspections[j].available > clock
          \/ inspections[j].status = "PROCESSING" /\ inspections[j].until > clock
    /\ clock' = clock + 1
    /\ UNCHANGED <<database, locals, faults>>

-----------------------------------------------------------------------------
(* repository.claim *)

Poll(w) ==
    /\ pc[w] = "idle"
    /\ pc'  = [pc EXCEPT ![w] = "select"]
    /\ now' = [now EXCEPT ![w] = clock]
    /\ UNCHANGED <<database, clock, tries, selected, held, faults>>

\* The oldest eligible job of this iteration.
Select(w) ==
    /\ pc[w] = "select"
    /\ tries[w] < ClaimTries
    /\ \E j \in Jobs :
          /\ Eligible(inspections[j], now[w])
          /\ \A i \in Jobs : Eligible(inspections[i], now[w]) => Before(j, i)
          /\ selected' = [selected EXCEPT ![w] = j]
    /\ pc'    = [pc EXCEPT ![w] = "update"]
    /\ tries' = [tries EXCEPT ![w] = @ + 1]
    /\ UNCHANGED <<database, clock, now, held, faults>>

\* No eligible job, or the tenth iteration is over: claim returns None.
NoWork(w) ==
    /\ pc[w] = "select"
    /\ \/ tries[w] = ClaimTries
       \/ \A j \in Jobs : ~ Eligible(inspections[j], now[w])
    /\ Leave(w)
    /\ UNCHANGED <<database, clock, faults>>

\* Another worker changed the row since the SELECT: the UPDATE matches nothing.
LostRace(w) ==
    /\ pc[w] = "update"
    /\ ~ Eligible(inspections[selected[w]], now[w])
    /\ Again(w)
    /\ UNCHANGED <<database, clock, faults>>

\* Slip: the UPDATE trusts the SELECT (WHERE id only).
CanClaimUnchecked(w) == pc[w] = "update"

CanClaim(w) ==
    /\ pc[w] = "update"
    /\ Eligible(inspections[selected[w]], now[w])

\* What the transaction of a successful claim writes.
WriteClaim(j, t) ==
    /\ ~ Exhausted(inspections[j])
    /\ SetRow(j, Claimed(inspections[j], nextToken, t))
    /\ nextToken' = nextToken + 1
    /\ Audit(j, "inspection_processing")

Take(w) ==
    /\ CanClaim(w)
    /\ WriteClaim(selected[w], now[w])
    /\ held' = [held EXCEPT ![w] = Copy(selected[w], inspections'[selected[w]])]
    /\ pc'   = [pc EXCEPT ![w] = "infer"]
    /\ tries'    = [tries EXCEPT ![w] = 0]
    /\ selected' = [selected EXCEPT ![w] = NULL]
    /\ now'      = [now EXCEPT ![w] = 0]
    /\ UNCHANGED <<clock, faults>>

\* Slip: the reaped job leaves no event.
ReapSilently(w) ==
    /\ CanClaim(w)
    /\ Exhausted(inspections[selected[w]])
    /\ SetRow(selected[w], Reaped(inspections[selected[w]]))
    /\ Again(w)
    /\ UNCHANGED <<events, nextToken, clock, faults>>

Reap(w) ==
    /\ CanClaim(w)
    /\ Exhausted(inspections[selected[w]])
    /\ SetRow(selected[w], Reaped(inspections[selected[w]]))
    /\ Audit(selected[w], "inspection_failed")
    /\ Again(w)
    /\ UNCHANGED <<nextToken, clock, faults>>

-----------------------------------------------------------------------------
(* Worker.process: storage.get, predict, decide, then complete or fail *)

Infer(w) ==
    /\ pc[w] = "infer"
    /\ Call(w, "complete")
    /\ UNCHANGED <<database, clock, faults>>

InferRaises(w) ==
    /\ pc[w] = "infer"
    /\ Call(w, "fail")
    /\ UNCHANGED <<database, clock, faults>>

Holds(w) == Fenced(inspections[held[w].id], held[w], now[w])

WriteComplete(job) ==
    /\ SetRow(job.id, Completed(inspections[job.id], job))
    /\ Audit(job.id, "inspection_completed")
    /\ UNCHANGED nextToken

Complete(w) ==
    /\ pc[w] = "complete"
    /\ Holds(w)
    /\ WriteComplete(held[w])
    /\ Leave(w)
    /\ UNCHANGED <<clock, faults>>

\* "stale_result_discarded"
Discard(w) ==
    /\ pc[w] = "complete"
    /\ ~ Holds(w)
    /\ Leave(w)
    /\ UNCHANGED <<database, clock, faults>>

FailJob(w) ==
    /\ pc[w] = "fail"
    /\ Holds(w)
    /\ SetRow(held[w].id, Failed(inspections[held[w].id], held[w], now[w]))
    /\ Audit(held[w].id, IF LastAttempt(held[w]) THEN "inspection_failed"
                         ELSE "inspection_retry_scheduled")
    /\ Leave(w)
    /\ UNCHANGED <<nextToken, clock, faults>>

DropFailure(w) ==
    /\ pc[w] = "fail"
    /\ ~ Holds(w)
    /\ Leave(w)
    /\ UNCHANGED <<database, clock, faults>>

-----------------------------------------------------------------------------
(* Faults *)

\* The process dies and is restarted, or claim or fail raises with its
\* transaction rolled back and main's loop catches the exception.  A fail()
\* that commits and then raises ends as FailJob does.
Crash(w) ==
    /\ pc[w] # "idle"
    /\ Fault
    /\ Leave(w)
    /\ UNCHANGED <<database, clock>>

\* The claim commits, but the worker dies or gets an error instead of the job.
LostClaim(w) ==
    /\ CanClaim(w)
    /\ WriteClaim(selected[w], now[w])
    /\ Fault
    /\ Leave(w)
    /\ UNCHANGED clock

\* complete() raises after its transaction rolled back: process calls fail().
CompleteRaises(w) ==
    /\ pc[w] = "complete"
    /\ Fault
    /\ Call(w, "fail")
    /\ UNCHANGED <<database, clock>>

\* The commit went through, its acknowledgement did not: process calls fail()
\* for a job that is COMPLETED.
CompleteAckLost(w) ==
    /\ pc[w] = "complete"
    /\ Holds(w)
    /\ WriteComplete(held[w])
    /\ Fault
    /\ Call(w, "fail")
    /\ UNCHANGED clock

-----------------------------------------------------------------------------
WorkerStep(w) ==
    \/ Poll(w) \/ Select(w) \/ NoWork(w) \/ LostRace(w) \/ Take(w) \/ Reap(w)
    \/ Infer(w) \/ InferRaises(w) \/ Complete(w) \/ Discard(w)
    \/ FailJob(w) \/ DropFailure(w)

FaultStep(w) ==
    Crash(w) \/ LostClaim(w) \/ CompleteRaises(w) \/ CompleteAckLost(w)

Next ==
    \/ \E j \in Jobs : Create(j)
    \/ Tick
    \/ \E w \in Workers : WorkerStep(w) \/ FaultStep(w)

Spec == Init /\ [][Next]_vars

\* Time passes, and the loop of main() keeps a fair worker going.  Nothing is
\* assumed of the other workers: they may stop anywhere, holding a lease.
Fairness ==
    /\ WF_vars(Tick)
    /\ \A w \in FairWorkers : WF_vars(WorkerStep(w))

FairSpec == Spec /\ Fairness

-----------------------------------------------------------------------------
(* Properties *)

\* The variables have their types: columns, audit trail and worker locals.
TypeOK ==
    /\ inspections \in [Jobs -> Row]
    /\ events    \in [Jobs -> Seq(Event)]
    /\ nextToken \in Nat
    /\ clock     \in Nat
    /\ pc        \in [Workers -> Steps]
    /\ now       \in [Workers -> Nat]
    /\ tries     \in [Workers -> 0..ClaimTries]
    /\ selected  \in [Workers -> Jobs \cup {NULL}]
    /\ held      \in [Workers -> Job(Jobs) \cup {NoJob}]
    /\ faults    \in 0..MaxFaults

\* w holds the lease that is in the row now, expired or not.
Owns(w, j) ==
    /\ held[w] # NoJob
    /\ held[w].id = j
    /\ held[w].token = inspections[j].token

\* However claims, expiries, retries and lost acknowledgements interleave, at
\* most one worker holds a job's current token: the lease fence of complete
\* and fail then admits one writer (repository.py, claim's fresh uuid4).
OneOwner ==
    \A j \in Jobs : \A v, w \in Workers : Owns(v, j) /\ Owns(w, j) => v = w

\* The owner's detached copy of the row still has the attempt number of the
\* row, so that fail() takes the right branch from the copy (`terminal`).
CopyIsCurrent ==
    \A w \in Workers, j \in Jobs :
        Owns(w, j) => /\ inspections[j].status = "PROCESSING"
                      /\ inspections[j].attempts = held[w].attempts

\* A job waits only while it has attempts left, and is failed only when it has
\* none, whether by fail() or by the claim that finds it exhausted.
BudgetRespected ==
    \A j \in Jobs :
        /\ inspections[j].status = "QUEUED" => ~ Exhausted(inspections[j])
        /\ inspections[j].status = "FAILED" => Exhausted(inspections[j])

\* A report is there exactly when the job is COMPLETED, and it is the latest
\* attempt's: a worker that was overtaken never publishes.
ReportIsCurrent ==
    \A j \in Jobs :
        inspections[j].report =
            IF inspections[j].status = "COMPLETED" THEN inspections[j].attempts
            ELSE 0

\* Every change of a row and its audit event commit together: the trail alone
\* tells the status and the attempts, also when acknowledgements are lost.
TrailReplays == \A j \in Jobs : Replays(events[j], inspections[j])

\* A worker's reading of the clock is never ahead of it.
NowIsPast == \A w \in Workers : now[w] <= clock

\* COMPLETED and FAILED rows are never written again in this backend: not by a
\* late worker, not by the fail() that follows a lost commit acknowledgement.
TerminalRowsKept ==
    \A j \in Jobs : inspections[j].status \in Terminal =>
                        UNCHANGED <<inspections[j], events[j]>>

TerminalIsFinal == [][TerminalRowsKept]_vars

\* Although claim compares with a time read before its transaction, no lease
\* is taken over before it ran out and no retry starts before its delay.
ClaimsInTime ==
    \A j \in Jobs :
        inspections'[j].token \notin {inspections[j].token, NULL} =>
            Eligible(inspections[j], clock)

NeverEarly == [][ClaimsInTime]_vars

-----------------------------------------------------------------------------
(* The inductive invariant: the properties above need these four as well *)

\* A row carries a lease exactly while it is PROCESSING, and then an attempt
\* has begun; a row that was not created is blank.
LeaseShape ==
    \A j \in Jobs :
        /\ inspections[j].status = "PROCESSING" <=> inspections[j].token # NULL
        /\ inspections[j].token # NULL <=> inspections[j].until # NULL
        /\ inspections[j].status = "PROCESSING" => inspections[j].attempts > 0
        /\ inspections[j].status = "ABSENT" => inspections[j] = AbsentRow

\* Tokens in use were handed out by an earlier claim.
TokensSpent ==
    /\ \A j \in Jobs : inspections[j].token < nextToken
    /\ \A w \in Workers : held[w] # NoJob => held[w].token < nextToken

\* No two workers were ever given the same token.
TokensUnique ==
    \A v, w \in Workers :
        held[v] # NoJob /\ held[w] # NoJob /\ held[v].token = held[w].token
            => v = w

\* The worker's locals are those of the function it is in.
LocalsMatch ==
    \A w \in Workers :
        /\ pc[w] \in {"infer", "complete", "fail"} <=> held[w] # NoJob
        /\ pc[w] = "update" => selected[w] \in Jobs

\* Ownership, budgets and reports are sound at every step of every worker.
IInv ==
    /\ TypeOK
    /\ LeaseShape
    /\ TokensSpent
    /\ TokensUnique
    /\ LocalsMatch
    /\ CopyIsCurrent
    /\ BudgetRespected
    /\ ReportIsCurrent
    /\ NowIsPast

-----------------------------------------------------------------------------
\* The queue implements the lifecycle that clients are promised: an attempt
\* begins only with budget left, only the current one publishes, and a job is
\* given up only when the budget is spent (the statuses of docs/api.md).
StatusOf   == [j \in Jobs |-> inspections[j].status]
AttemptsOf == [j \in Jobs |-> inspections[j].attempts]
ReportOf   == [j \in Jobs |-> inspections[j].report]

Lifecycle == INSTANCE InspectionLifecycle WITH
    Inspections <- Jobs, status <- StatusOf, attempts <- AttemptsOf,
    report <- ReportOf

ImplementsLifecycle == Lifecycle!Spec

\* With one worker that keeps running, every accepted job is eventually
\* COMPLETED or FAILED, even if all others stop for ever with leases in hand.
EveryJobEnds ==
    \A j \in Jobs : inspections[j].status # "ABSENT"
                        ~> inspections[j].status \in Terminal
=============================================================================
