------------------------------- MODULE Outbox -------------------------------
(***************************************************************************)
(* The transactional outbox (outbox.py): publishers lease the event of a   *)
(* submitted SQS job, send it and mark it published; an operator may       *)
(* redrive a failed job, which reopens its event.  One database statement  *)
(* is one step; as in JobQueue the time a publisher compares leases with   *)
(* is read before its transaction, and its claim is a SELECT and an UPDATE *)
(* with other processes in between.                                        *)
(*                                                                         *)
(* The worker side is reduced to what redrive depends on: a job whose      *)
(* event was sent may end FAILED.  SqsPipeline models it in full.          *)
(***************************************************************************)
EXTENDS Integers

CONSTANTS
    Jobs,             \* one event per job (inspection_id is unique)
    Publishers,       \* publisher processes
    FairPublishers,   \* those that never stop for good
    NoEvent,          \* what a publisher holds between events
    OutboxLease,      \* settings.outbox_lease_seconds
    BackoffCap,       \* the 300 of min(300, ...), in units of the clock
    ClaimTries,       \* `for _ in range(10)`
    MaxFaults,        \* BOUND on failed sends, lost answers, crashes and overruns
    MaxRedrives,      \* BOUND on operator redrives
    MaxClock          \* BOUND on time

NULL == -1

MinOf(a, b) == IF a <= b THEN a ELSE b

\* min(300, 2 ** min(attempts, 8))
SendBackoff(n) == MinOf(BackoffCap, 2 ^ MinOf(n, 8))

Event == [id : Jobs, token : Nat, attempts : Nat]

ASSUME OutboxAssumption ==
    /\ Jobs \subseteq Nat
    /\ FairPublishers \subseteq Publishers
    /\ NoEvent \notin Event
    /\ OutboxLease \in Nat \ {0} /\ ClaimTries \in Nat \ {0}
    /\ BackoffCap \in Nat
    /\ MaxFaults \in Nat /\ MaxRedrives \in Nat /\ MaxClock \in Nat

VARIABLES
    outbox,     \* the submission_outbox row of each job
    job,        \* "absent", "unsent", "sent" (some message exists), "FAILED"
    sent,       \* HISTORY: a send succeeded since the event was (re)opened
    nextToken,  \* the next uuid4
    clock,      \* time.time()
    pc, now, tries, selected, held,   \* each publisher's position and locals
    faults, redrives                  \* what the bounds count

tables == <<outbox, job, sent, nextToken>>
locals == <<pc, now, tries, selected, held>>
counts == <<faults, redrives>>
vars   == <<tables, clock, locals, counts>>

Steps == {"idle", "select", "update", "send", "sent", "failed", "stopped"}

NoRow == [created |-> 0, available |-> 0, attempts |-> 0,
          token |-> NULL, until |-> NULL, published |-> FALSE]

Init ==
    /\ outbox    = [j \in Jobs |-> NoRow]
    /\ job       = [j \in Jobs |-> "absent"]
    /\ sent      = [j \in Jobs |-> FALSE]
    /\ nextToken = 1
    /\ clock     = 0
    /\ pc        = [p \in Publishers |-> "idle"]
    /\ now       = [p \in Publishers |-> 0]
    /\ tries     = [p \in Publishers |-> 0]
    /\ selected  = [p \in Publishers |-> NULL]
    /\ held      = [p \in Publishers |-> NoEvent]
    /\ faults = 0 /\ redrives = 0

Forget(p) ==
    /\ now'      = [now EXCEPT ![p] = 0]
    /\ tries'    = [tries EXCEPT ![p] = 0]
    /\ selected' = [selected EXCEPT ![p] = NULL]
    /\ held'     = [held EXCEPT ![p] = NoEvent]

Leave(p) == pc' = [pc EXCEPT ![p] = "idle"] /\ Forget(p)

Fault == faults < MaxFaults /\ faults' = faults + 1 /\ UNCHANGED redrives

-----------------------------------------------------------------------------
(* Submission, the job's failure, the operator, the clock *)

\* repository.create with queue_backend = "sqs": job and event in one commit.
Submit(j) ==
    /\ job[j] = "absent"
    /\ job'    = [job EXCEPT ![j] = "unsent"]
    /\ outbox' = [outbox EXCEPT ![j] = [NoRow EXCEPT !.created = clock,
                                                     !.available = clock]]
    /\ UNCHANGED <<sent, nextToken, clock, locals, counts>>

\* A worker that received any copy, old or new, ends the job FAILED.
JobFails(j) ==
    /\ job[j] = "sent"
    /\ redrives < MaxRedrives
    /\ job' = [job EXCEPT ![j] = "FAILED"]
    /\ UNCHANGED <<outbox, sent, nextToken, clock, locals, counts>>

\* Slip: the lease of the publisher at work survives the redrive.
ReopenedLeased(row) == [row EXCEPT !.published = FALSE, !.available = clock]

Reopened(row) == [row EXCEPT !.published = FALSE, !.available = clock,
                             !.token = NULL, !.until = NULL]

\* Outbox.redrive: the reset of the job and of its event commit together.
Redrive(j) ==
    /\ job[j] = "FAILED"
    /\ redrives < MaxRedrives
    /\ job'    = [job EXCEPT ![j] = "sent"]
    /\ outbox' = [outbox EXCEPT ![j] = Reopened(@)]
    /\ sent'   = [sent EXCEPT ![j] = FALSE]
    /\ redrives' = redrives + 1
    /\ UNCHANGED <<nextToken, clock, locals, faults>>

\* The SDK's timeouts (aws.py) let a publisher that runs answer within its lease.
WouldOverrun ==
    \E p \in Publishers :
        /\ held[p] # NoEvent
        /\ outbox[held[p].id].token = held[p].token
        /\ outbox[held[p].id].until = clock + 1

\* Time matters while an event waits for its delay or for a lease to run out.
TimePasses ==
    /\ clock < MaxClock
    /\ \E j \in Jobs : outbox[j].available > clock \/ outbox[j].until > clock
    /\ clock' = clock + 1
    /\ UNCHANGED <<tables, locals>>

Tick == ~ WouldOverrun /\ TimePasses /\ UNCHANGED counts

-----------------------------------------------------------------------------
(* Outbox.claim *)

Poll(p) ==
    /\ pc[p] = "idle"
    /\ pc'  = [pc EXCEPT ![p] = "select"]
    /\ now' = [now EXCEPT ![p] = clock]
    /\ UNCHANGED <<tables, clock, tries, selected, held, counts>>

\* Slip: only an event that nobody ever leased is taken.
EligibleUnleased(j, t) ==
    /\ job[j] # "absent"
    /\ ~ outbox[j].published /\ outbox[j].available <= t
    /\ outbox[j].until = NULL

Eligible(j, t) ==
    /\ job[j] # "absent"
    /\ ~ outbox[j].published
    /\ outbox[j].available <= t
    /\ outbox[j].until = NULL \/ outbox[j].until <= t

\* ORDER BY created_at only: events of the same instant come in any order.
Select(p) ==
    /\ pc[p] = "select"
    /\ tries[p] < ClaimTries
    /\ \E j \in Jobs :
          /\ Eligible(j, now[p])
          /\ \A i \in Jobs : Eligible(i, now[p])
                                => outbox[j].created <= outbox[i].created
          /\ selected' = [selected EXCEPT ![p] = j]
    /\ pc'    = [pc EXCEPT ![p] = "update"]
    /\ tries' = [tries EXCEPT ![p] = @ + 1]
    /\ UNCHANGED <<tables, clock, now, held, counts>>

NoWork(p) ==
    /\ pc[p] = "select"
    /\ tries[p] = ClaimTries \/ \A j \in Jobs : ~ Eligible(j, now[p])
    /\ Leave(p)
    /\ UNCHANGED <<tables, clock, counts>>

LostRace(p) ==
    /\ pc[p] = "update"
    /\ ~ Eligible(selected[p], now[p])
    /\ pc' = [pc EXCEPT ![p] = "select"]
    /\ selected' = [selected EXCEPT ![p] = NULL]
    /\ UNCHANGED <<tables, clock, now, tries, held, counts>>

\* Slip: taking over an expired lease keeps its token.
LeasedKeepsToken(row, token, t) ==
    [row EXCEPT !.token = IF @ = NULL THEN token ELSE @,
                !.until = t + OutboxLease, !.attempts = @ + 1]

Leased(row, token, t) ==
    [row EXCEPT !.token = token, !.until = t + OutboxLease, !.attempts = @ + 1]

WriteClaim(p) ==
    /\ pc[p] = "update"
    /\ Eligible(selected[p], now[p])
    /\ outbox' = [outbox EXCEPT ![selected[p]] = Leased(@, nextToken, now[p])]
    /\ nextToken' = nextToken + 1
    /\ UNCHANGED <<job, sent>>

Take(p) ==
    /\ WriteClaim(p)
    /\ held' = [held EXCEPT ![p] =
                  [id |-> selected[p], token |-> outbox'[selected[p]].token,
                   attempts |-> outbox'[selected[p]].attempts]]
    /\ pc'   = [pc EXCEPT ![p] = "send"]
    /\ now'      = [now EXCEPT ![p] = 0]
    /\ tries'    = [tries EXCEPT ![p] = 0]
    /\ selected' = [selected EXCEPT ![p] = NULL]
    /\ UNCHANGED <<clock, counts>>

-----------------------------------------------------------------------------
(* Publisher.run_once: send, then finish *)

\* The queue accepts the message.
Deliver(j) ==
    /\ sent' = [sent EXCEPT ![j] = TRUE]
    /\ job'  = [job EXCEPT ![j] = IF @ = "unsent" THEN "sent" ELSE @]
    /\ UNCHANGED <<outbox, nextToken>>

CallFinish(p, step) ==
    /\ pc'  = [pc EXCEPT ![p] = step]
    /\ now' = [now EXCEPT ![p] = clock]
    /\ UNCHANGED <<tries, selected, held>>

Send(p) ==
    /\ pc[p] = "send"
    /\ Deliver(held[p].id)
    /\ CallFinish(p, "sent")
    /\ UNCHANGED <<clock, counts>>

\* SendMessage raises: the message was lost, or only the answer was.
SendRaises(p) ==
    /\ pc[p] = "send"
    /\ Deliver(held[p].id) \/ UNCHANGED tables
    /\ CallFinish(p, "failed")
    /\ Fault
    /\ UNCHANGED clock

Fence(p) ==
    LET row == outbox[held[p].id] IN
        /\ ~ row.published
        /\ row.token = held[p].token
        /\ row.until > now[p]

Finished(row, p) ==
    [row EXCEPT !.published = (pc[p] = "sent"),
                !.available = IF pc[p] = "sent" THEN now[p]
                              ELSE now[p] + SendBackoff(held[p].attempts),
                !.token = NULL, !.until = NULL]

Finish(p) ==
    /\ pc[p] \in {"sent", "failed"}
    /\ Fence(p)
    /\ outbox' = [outbox EXCEPT ![held[p].id] = Finished(@, p)]
    /\ Leave(p)
    /\ UNCHANGED <<job, sent, nextToken, clock, counts>>

\* The lease ran out, was taken over or was cleared by a redrive.
DropFinish(p) ==
    /\ pc[p] \in {"sent", "failed"}
    /\ ~ Fence(p)
    /\ Leave(p)
    /\ UNCHANGED <<tables, clock, counts>>

-----------------------------------------------------------------------------
(* Faults: a stall in which the lease runs out; a crash, or a database     *)
(* error that rolls back; a claim that commits without the publisher       *)
(* learning of it; and a publisher that never comes back.                  *)

Overrun == WouldOverrun /\ TimePasses /\ Fault

Crash(p) ==
    /\ pc[p] \notin {"idle", "stopped"}
    /\ Fault
    /\ Leave(p)
    /\ UNCHANGED <<tables, clock>>

LostClaim(p) ==
    /\ WriteClaim(p)
    /\ Fault
    /\ Leave(p)
    /\ UNCHANGED clock

\* Wherever it is: what it leased stays leased in the row.
Stop(p) ==
    /\ p \notin FairPublishers
    /\ pc[p] # "stopped"
    /\ pc' = [pc EXCEPT ![p] = "stopped"]
    /\ Forget(p)
    /\ UNCHANGED <<tables, clock, counts>>

-----------------------------------------------------------------------------
PublisherStep(p) ==
    \/ Poll(p) \/ Select(p) \/ NoWork(p) \/ LostRace(p) \/ Take(p)
    \/ Send(p) \/ Finish(p) \/ DropFinish(p)

Next ==
    \/ \E j \in Jobs : Submit(j) \/ JobFails(j) \/ Redrive(j)
    \/ Tick \/ Overrun
    \/ \E p \in Publishers :
          \/ PublisherStep(p) \/ Stop(p)
          \/ SendRaises(p) \/ Crash(p) \/ LostClaim(p)

Spec == Init /\ [][Next]_vars

\* A publisher goes on or has stopped for good; those in FairPublishers cannot.
FairSpec ==
    /\ Spec
    /\ WF_vars(Tick)
    /\ \A p \in Publishers : WF_vars(PublisherStep(p) \/ Stop(p))

-----------------------------------------------------------------------------
(* Properties *)

\* The variables have their types.
TypeOK ==
    /\ outbox \in [Jobs -> [created : Nat, available : Nat, attempts : Nat,
                            token : Nat \cup {NULL}, until : Nat \cup {NULL},
                            published : BOOLEAN]]
    /\ job  \in [Jobs -> {"absent", "unsent", "sent", "FAILED"}]
    /\ sent \in [Jobs -> BOOLEAN]
    /\ nextToken \in Nat /\ clock \in Nat
    /\ pc       \in [Publishers -> Steps]
    /\ now      \in [Publishers -> Nat]
    /\ tries    \in [Publishers -> 0..ClaimTries]
    /\ selected \in [Publishers -> Jobs \cup {NULL}]
    /\ held     \in [Publishers -> Event \cup {NoEvent}]
    /\ faults \in 0..MaxFaults /\ redrives \in 0..MaxRedrives

\* p's lease is the one in the row, expired or not.
Owns(p, j) ==
    held[p] # NoEvent /\ held[p].id = j /\ held[p].token = outbox[j].token

\* At most one publisher can finish an event, whatever stalls and redrives.
OneSender ==
    \A j \in Jobs : \A p, q \in Publishers : Owns(p, j) /\ Owns(q, j) => p = q

\* The outbox keeps the promise the rest of the pipeline builds on: above all, a publisher
\* that sent before a redrive cannot close the reopened event.
PendingOf == [j \in Jobs |-> job[j] # "absent" /\ ~ outbox[j].published]

Promise == INSTANCE Publication WITH pending <- PendingOf

ImplementsPublication == Promise!Spec

\* A redrive always leads to a publication of its own, as a submission does, even
\* if a publisher holding the lease stops for ever, while another keeps running.
EveryEventPublished ==
    \A j \in Jobs : PendingOf[j] ~> ~ PendingOf[j]
=============================================================================
