----------------------------- MODULE SqsPipeline -----------------------------
(***************************************************************************)
(* The SQS backend end to end (PCB_QUEUE_BACKEND=sqs): the inspections     *)
(* table, the outbox as Publication promises it, a standard queue with its *)
(* dead-letter queue, and the workers of sqs_worker.py, each a main thread *)
(* and a heartbeat thread.                                                 *)
(*                                                                         *)
(* One database statement, one SQS call or one read of a shared flag is    *)
(* one step.  Each thread reads time.time() when it calls into the         *)
(* repository, before the transaction: now[w] and beatNow[w].              *)
(*                                                                         *)
(* SQS (external) is modelled by what the code may rely on: a message that *)
(* is in the queue can be delivered at any time, to anybody, again and     *)
(* again (visibility is a hint), even after it was deleted, until it has    *)
(* been received MaxReceives times and moves to the dead-letter queue.     *)
(***************************************************************************)
EXTENDS Repository

CONSTANTS
    Jobs,         \* inspection ids
    Workers,      \* SQS worker processes
    Messages,     \* copies of events SQS may come to hold; BOUND on sends
    NoJob,        \* what a worker holds before claim returns
    NoMessage,    \* what a worker holds between deliveries
    Poison,       \* messages that are malformed or name an unknown event
    Unknown,      \* the id of such a message
    MaxReceives,  \* the queue's maxReceiveCount
    ClaimTries,   \* `for _ in range(10)`
    MaxPulses,    \* BOUND on heartbeats per delivery
    MaxFaults,    \* BOUND on crashes, database errors and SQS errors
    MaxRedrives   \* BOUND on operator redrives

ASSUME JobsAssumption == Jobs \subseteq Nat
ASSUME NamesAssumption ==
    /\ NoJob \notin Job(Jobs) /\ NoMessage \notin Messages
    /\ Unknown \notin Jobs /\ Poison \subseteq Messages
\* queue.py validate(): the redrive policy leaves room for every attempt.
ASSUME MarginAssumption == MaxReceives \in Nat /\ MaxReceives >= MaxAttempts + 2
ASSUME BoundsAssumption ==
    /\ ClaimTries \in Nat \ {0} /\ MaxPulses \in Nat
    /\ MaxFaults \in Nat /\ MaxRedrives \in Nat

VARIABLES
    inspections,  \* the table
    nextToken,    \* the next uuid4
    pending,      \* the event of j is not published yet
    sent,         \* HISTORY: it was sent since it was (re)opened
    queue,        \* each message: its place, its job, how often received
    clock,        \* time.time()
    pc, now, tries, message, held,      \* main thread: position and locals
    beat, beatNow, pulses,              \* heartbeat thread
    lost, stopped,                      \* the two threading.Events
    faults, redrives

tables    == <<inspections, nextToken>>
publisher == <<pending, sent>>
main      == <<pc, now, tries, message, held>>
heartbeat == <<beat, beatNow, pulses, lost, stopped>>
counts    == <<faults, redrives>>
vars      == <<tables, publisher, queue, clock, main, heartbeat, counts>>

Steps == {"idle", "resolve", "select", "update", "pulse", "extend", "infer",
          "complete", "fail", "close", "abort", "reread", "delay", "ack"}
Beats == {"off", "waiting", "renew", "lookup", "extend"}

Init ==
    /\ inspections = [j \in Jobs |-> AbsentRow]
    /\ nextToken = 1
    /\ pending = [j \in Jobs |-> FALSE]
    /\ sent    = [j \in Jobs |-> FALSE]
    /\ queue   = [m \in Messages |->
                    [place |-> IF m \in Poison THEN "queue" ELSE "unsent",
                     id |-> Unknown, receives |-> 0]]
    /\ clock   = 0
    /\ pc      = [w \in Workers |-> "idle"]
    /\ now     = [w \in Workers |-> 0]
    /\ tries   = [w \in Workers |-> 0]
    /\ message = [w \in Workers |-> NoMessage]
    /\ held    = [w \in Workers |-> NoJob]
    /\ beat    = [w \in Workers |-> "off"]
    /\ beatNow = [w \in Workers |-> 0]
    /\ pulses  = [w \in Workers |-> 0]
    /\ lost    = [w \in Workers |-> FALSE]
    /\ stopped = [w \in Workers |-> FALSE]
    /\ faults = 0 /\ redrives = 0

-----------------------------------------------------------------------------
(* Helpers *)

\* The publishers, seen through what Outbox implements.
Outbox == INSTANCE Publication

SetRow(j, row) == inspections' = [inspections EXCEPT ![j] = row]

Goto(w, step) == pc' = [pc EXCEPT ![w] = step]

\* run_once returns or raises: its locals and its heartbeat are gone.
Leave(w) ==
    /\ Goto(w, "idle")
    /\ now'     = [now EXCEPT ![w] = 0]
    /\ tries'   = [tries EXCEPT ![w] = 0]
    /\ message' = [message EXCEPT ![w] = NoMessage]
    /\ held'    = [held EXCEPT ![w] = NoJob]
    /\ beat'    = [beat EXCEPT ![w] = "off"]
    /\ beatNow' = [beatNow EXCEPT ![w] = 0]
    /\ pulses'  = [pulses EXCEPT ![w] = 0]
    /\ lost'    = [lost EXCEPT ![w] = FALSE]
    /\ stopped' = [stopped EXCEPT ![w] = FALSE]

Step(w, step) ==
    Goto(w, step) /\ UNCHANGED <<now, tries, message, held, heartbeat>>

\* Call into the repository: the clock is read first.
Call(w, step) ==
    /\ Goto(w, step)
    /\ now' = [now EXCEPT ![w] = clock]
    /\ UNCHANGED <<tries, message, held, heartbeat>>

Fault == faults < MaxFaults /\ faults' = faults + 1 /\ UNCHANGED redrives

\* The job of the message w is working on.
Target(w) == queue[message[w]].id
-----------------------------------------------------------------------------
(* Submission, publication, redrive, the queue and the clock *)

Create(j) ==
    /\ inspections[j].status = "ABSENT"
    /\ SetRow(j, NewRow(clock))
    /\ Outbox!Open(j)
    /\ UNCHANGED <<nextToken, queue, clock, main, heartbeat, counts>>

\* A copy of j's event reaches the queue.  A publisher that was overtaken may
\* still send after the event was published, so pending[j] is no condition.
Send(j) ==
    /\ inspections[j].status # "ABSENT"
    /\ \E m \in Messages :
          /\ queue[m].place = "unsent"
          /\ queue' = [queue EXCEPT ![m] = [place |-> "queue", id |-> j,
                                            receives |-> 0]]
    /\ Outbox!Send(j)
    /\ UNCHANGED <<tables, clock, main, heartbeat, counts>>

Publish(j) ==
    /\ Outbox!Publish(j)
    /\ UNCHANGED <<tables, queue, clock, main, heartbeat, counts>>

\* Outbox.redrive
Redrive(j) ==
    /\ Redrivable(inspections[j])
    /\ redrives < MaxRedrives /\ redrives' = redrives + 1
    /\ SetRow(j, Redriven(inspections[j], clock))
    /\ Outbox!Open(j)
    /\ UNCHANGED <<nextToken, queue, clock, main, heartbeat, faults>>

\* Time matters only while a deadline lies ahead.
Tick ==
    /\ \E j \in Jobs :
          \/ inspections[j].status = "QUEUED" /\ inspections[j].available > clock
          \/ inspections[j].status = "PROCESSING" /\ inspections[j].until > clock
    /\ clock' = clock + 1
    /\ UNCHANGED <<tables, publisher, queue, main, heartbeat, counts>>

\* SQS moves a message received too often to the dead-letter queue.
DeadLetter(m) ==
    /\ queue[m].place = "queue"
    /\ queue[m].receives >= MaxReceives
    /\ queue' = [queue EXCEPT ![m].place = "dead"]
    /\ UNCHANGED <<tables, publisher, clock, main, heartbeat, counts>>

-----------------------------------------------------------------------------
(* SQSWorker.run_once: receive, resolve, claim *)

Receive(w, m) ==
    /\ pc[w] = "idle"
    /\ queue[m].place \in {"queue", "deleted"}
    /\ queue[m].receives < MaxReceives
    /\ queue'   = [queue EXCEPT ![m].receives = @ + 1]
    /\ message' = [message EXCEPT ![w] = m]
    /\ Goto(w, "resolve")
    /\ UNCHANGED <<tables, publisher, clock, now, tries, held, heartbeat, counts>>

\* "invalid_queue_event" and "unknown_queue_event": never acknowledged.
RejectPoison(w) ==
    /\ pc[w] = "resolve"
    /\ Target(w) \notin Jobs
    /\ Leave(w)
    /\ UNCHANGED <<tables, publisher, queue, clock, counts>>

\* message_job: what is to be done with the delivery.
Resolve(w) ==
    /\ pc[w] = "resolve"
    /\ Target(w) \in Jobs
    /\ CASE inspections[Target(w)].status = "COMPLETED" -> Step(w, "ack")
         [] inspections[Target(w)].status = "FAILED"    -> Leave(w)
         [] OTHER                                        -> Call(w, "select")
    /\ UNCHANGED <<tables, publisher, queue, clock, counts>>

Select(w) ==
    /\ pc[w] = "select"
    /\ tries[w] < ClaimTries
    /\ Eligible(inspections[Target(w)], now[w])
    /\ tries' = [tries EXCEPT ![w] = @ + 1]
    /\ Goto(w, "update")
    /\ UNCHANGED <<tables, publisher, queue, clock, now, message, held,
                   heartbeat, counts>>

\* Slip: a delivery that cannot be claimed is acknowledged as a duplicate.
NoClaimAcks(w) ==
    /\ pc[w] = "select"
    /\ tries[w] = ClaimTries \/ ~ Eligible(inspections[Target(w)], now[w])
    /\ Step(w, "ack")
    /\ UNCHANGED <<tables, publisher, queue, clock, counts>>

\* claim returns None: an active duplicate, or too early.  Not acknowledged.
NoClaim(w) ==
    /\ pc[w] = "select"
    /\ tries[w] = ClaimTries \/ ~ Eligible(inspections[Target(w)], now[w])
    /\ Leave(w)
    /\ UNCHANGED <<tables, publisher, queue, clock, counts>>

LostRace(w) ==
    /\ pc[w] = "update"
    /\ ~ Eligible(inspections[Target(w)], now[w])
    /\ Step(w, "select")
    /\ UNCHANGED <<tables, publisher, queue, clock, counts>>

WriteClaim(w) ==
    LET row == inspections[Target(w)] IN
        /\ pc[w] = "update"
        /\ Eligible(row, now[w])
        /\ ~ Exhausted(row)
        /\ SetRow(Target(w), Claimed(row, nextToken, now[w]))
        /\ nextToken' = nextToken + 1

\* Then Heartbeat(...) and its first pulse, in the main thread.
Take(w) ==
    /\ WriteClaim(w)
    /\ held' = [held EXCEPT ![w] = Copy(Target(w), inspections'[Target(w)])]
    /\ Goto(w, "pulse")
    /\ now'   = [now EXCEPT ![w] = clock]
    /\ tries' = [tries EXCEPT ![w] = 0]
    /\ UNCHANGED <<publisher, queue, clock, message, heartbeat, counts>>

Reap(w) ==
    LET row == inspections[Target(w)] IN
        /\ pc[w] = "update"
        /\ Eligible(row, now[w])
        /\ Exhausted(row)
        /\ SetRow(Target(w), Reaped(row))
        /\ Step(w, "select")
        /\ UNCHANGED <<nextToken, publisher, queue, clock, counts>>

-----------------------------------------------------------------------------
(* Heartbeat.pulse: first in the main thread, then in the thread it starts *)

Renewable(w, t) == Fenced(inspections[held[w].id], held[w], t)

FirstPulse(w) ==
    /\ pc[w] = "pulse"
    /\ IF Renewable(w, now[w])
       THEN /\ SetRow(held[w].id, Renewed(inspections[held[w].id], now[w]))
            /\ Step(w, "extend")
       ELSE /\ Leave(w)      \* lost or retired: run_once returns
            /\ UNCHANGED inspections
    /\ UNCHANGED <<nextToken, publisher, queue, clock, counts>>

\* queue.renew succeeds; the thread starts and process() begins.
StartThread(w) ==
    /\ pc[w] = "extend"
    /\ Goto(w, "infer")
    /\ beat' = [beat EXCEPT ![w] = "waiting"]
    /\ UNCHANGED <<tables, publisher, queue, clock, now, tries, message, held,
                   beatNow, pulses, lost, stopped, counts>>

\* The interval of stopped.wait() is over; repository.renew reads the clock.
Wake(w) ==
    /\ beat[w] = "waiting"
    /\ ~ stopped[w]
    /\ pulses[w] < MaxPulses
    /\ pulses'  = [pulses EXCEPT ![w] = @ + 1]
    /\ beat'    = [beat EXCEPT ![w] = "renew"]
    /\ beatNow' = [beatNow EXCEPT ![w] = clock]
    /\ UNCHANGED <<tables, publisher, queue, clock, main, lost, stopped, counts>>

Renew(w) ==
    /\ beat[w] = "renew"
    /\ IF Renewable(w, beatNow[w])
       THEN /\ SetRow(held[w].id, Renewed(inspections[held[w].id], beatNow[w]))
            /\ beat' = [beat EXCEPT ![w] = "extend"]
       ELSE /\ beat' = [beat EXCEPT ![w] = "lookup"]
            /\ UNCHANGED inspections
    /\ UNCHANGED <<nextToken, publisher, queue, clock, main, beatNow, pulses,
                   lost, stopped, counts>>

\* A terminal state retires the lease quietly; anything else means it is lost.
Lookup(w) ==
    /\ beat[w] = "lookup"
    /\ lost' = [lost EXCEPT ![w] = inspections[held[w].id].status \notin Terminal]
    /\ beat' = [beat EXCEPT ![w] = "off"]
    /\ UNCHANGED <<tables, publisher, queue, clock, main, beatNow, pulses,
                   stopped, counts>>

Extend(w) ==
    /\ beat[w] = "extend"
    /\ beat' = [beat EXCEPT ![w] = "waiting"]
    /\ UNCHANGED <<tables, publisher, queue, clock, main, beatNow, pulses,
                   lost, stopped, counts>>

StopThread(w) ==
    /\ beat[w] = "waiting"
    /\ stopped[w]
    /\ beat' = [beat EXCEPT ![w] = "off"]
    /\ UNCHANGED <<tables, publisher, queue, clock, main, beatNow, pulses,
                   lost, stopped, counts>>

-----------------------------------------------------------------------------
(* Worker.process, with can_commit = the heartbeat has not been lost       *)

\* Inference ends; can_commit() is read, then complete() or fail() is called.
InferDone(w) ==
    /\ pc[w] = "infer"
    /\ IF lost[w] THEN Step(w, "close") ELSE Call(w, "complete")
    /\ UNCHANGED <<tables, publisher, queue, clock, counts>>

InferRaises(w) ==
    /\ pc[w] = "infer"
    /\ IF lost[w] THEN Step(w, "close") ELSE Call(w, "fail")
    /\ UNCHANGED <<tables, publisher, queue, clock, counts>>

Holds(w) == Fenced(inspections[held[w].id], held[w], now[w])

WriteComplete(w) ==
    /\ Holds(w)
    /\ SetRow(held[w].id, Completed(inspections[held[w].id], held[w]))

Complete(w) ==
    /\ pc[w] = "complete"
    /\ WriteComplete(w) \/ (~ Holds(w) /\ UNCHANGED inspections)
    /\ Step(w, "close")
    /\ UNCHANGED <<nextToken, publisher, queue, clock, counts>>

WriteFail(w) ==
    /\ Holds(w)
    /\ SetRow(held[w].id, Failed(inspections[held[w].id], held[w], now[w]))

FailJob(w) ==
    /\ pc[w] = "fail"
    /\ WriteFail(w) \/ (~ Holds(w) /\ UNCHANGED inspections)
    /\ Step(w, "close")
    /\ UNCHANGED <<nextToken, publisher, queue, clock, counts>>

-----------------------------------------------------------------------------
(* Heartbeat.close, then the acknowledgement *)

\* stopped.set(); "abort" is the same in the `finally` of an exception.
Close(w) ==
    /\ pc[w] \in {"close", "abort"}
    /\ ~ stopped[w]
    /\ stopped' = [stopped EXCEPT ![w] = TRUE]
    /\ UNCHANGED <<tables, publisher, queue, clock, main, beat, beatNow, pulses,
                   lost, counts>>

\* thread.join() returns when the thread has ended.
Join(w) ==
    /\ stopped[w]
    /\ beat[w] = "off"
    /\ \/ pc[w] = "close" /\ Step(w, "reread")
       \/ pc[w] = "abort" /\ Leave(w)
    /\ UNCHANGED <<tables, publisher, queue, clock, counts>>

\* Slip: the worker acknowledges whatever process() did.
RereadTrusting(w) ==
    /\ pc[w] = "reread"
    /\ Step(w, "ack")
    /\ UNCHANGED <<tables, publisher, queue, clock, counts>>

\* The state is read again: only durable completion permits the ACK.
Reread(w) ==
    /\ pc[w] = "reread"
    /\ CASE inspections[held[w].id].status = "COMPLETED" -> Step(w, "ack")
         [] inspections[held[w].id].status = "QUEUED" /\ ~ lost[w]
                                                          -> Step(w, "delay")
         [] OTHER                                         -> Leave(w)
    /\ UNCHANGED <<tables, publisher, queue, clock, counts>>

\* queue.renew(delivery, delay): the message stays, hidden for a while.
Delay(w) ==
    /\ pc[w] = "delay"
    /\ Leave(w)
    /\ UNCHANGED <<tables, publisher, queue, clock, counts>>

Ack(w) ==
    /\ pc[w] = "ack"
    /\ queue' = [queue EXCEPT ![message[w]].place =
                    IF @ = "queue" THEN "deleted" ELSE @]
    /\ Leave(w)
    /\ UNCHANGED <<tables, publisher, clock, counts>>

-----------------------------------------------------------------------------
(* Faults *)

\* The process dies, or a call outside process() raises: a claim that rolled
\* back, the first pulse, the second message_job, a visibility change, an ACK.
Crash(w) ==
    /\ pc[w] # "idle"
    /\ Fault
    /\ Leave(w)
    /\ UNCHANGED <<tables, publisher, queue, clock>>

LostClaim(w) ==
    /\ WriteClaim(w)
    /\ Fault
    /\ Leave(w)
    /\ UNCHANGED <<publisher, queue, clock>>

\* complete() raises, before or after its commit: fail(), if can_commit().
CompleteRaises(w) ==
    /\ pc[w] = "complete"
    /\ WriteComplete(w) \/ UNCHANGED inspections
    /\ IF lost[w] THEN Step(w, "close") ELSE Call(w, "fail")
    /\ Fault
    /\ UNCHANGED <<nextToken, publisher, queue, clock>>

\* fail() raises: the exception leaves run_once through heartbeat.close().
FailRaises(w) ==
    /\ pc[w] = "fail"
    /\ WriteFail(w) \/ UNCHANGED inspections
    /\ Step(w, "abort")
    /\ Fault
    /\ UNCHANGED <<nextToken, publisher, queue, clock>>

\* A database or SQS error in the heartbeat thread.
BeatRaises(w) ==
    /\ beat[w] \in {"renew", "lookup", "extend"}
    /\ lost' = [lost EXCEPT ![w] = TRUE]
    /\ beat' = [beat EXCEPT ![w] = "off"]
    /\ Fault
    /\ UNCHANGED <<tables, publisher, queue, clock, main, beatNow, pulses, stopped>>

-----------------------------------------------------------------------------
MainStep(w) ==
    \/ \E m \in Messages : Receive(w, m)
    \/ RejectPoison(w) \/ Resolve(w)
    \/ Select(w) \/ NoClaim(w) \/ LostRace(w) \/ Take(w) \/ Reap(w)
    \/ FirstPulse(w) \/ StartThread(w) \/ InferDone(w) \/ InferRaises(w)
    \/ Complete(w) \/ FailJob(w) \/ Close(w) \/ Join(w)
    \/ Reread(w) \/ Delay(w) \/ Ack(w)

BeatStep(w) ==
    Wake(w) \/ Renew(w) \/ Lookup(w) \/ Extend(w) \/ StopThread(w)

FaultStep(w) ==
    \/ Crash(w) \/ LostClaim(w) \/ CompleteRaises(w) \/ FailRaises(w)
    \/ BeatRaises(w)

Environment ==
    \/ \E j \in Jobs : Create(j) \/ Send(j) \/ Publish(j) \/ Redrive(j)
    \/ \E m \in Messages : DeadLetter(m)
    \/ Tick

Next ==
    \/ Environment
    \/ \E w \in Workers : MainStep(w) \/ BeatStep(w) \/ FaultStep(w)

Spec == Init /\ [][Next]_vars

\* Outbox publishes what it owes (EveryEventPublished there), SQS quarantines,
\* time passes, and both threads of every worker keep running.
FairSpec ==
    /\ Spec
    /\ \A j \in Jobs : WF_vars(pending[j] /\ (Send(j) \/ Publish(j)))
    /\ WF_vars(Tick)
    /\ WF_vars(\E m \in Messages : DeadLetter(m))
    /\ \A w \in Workers : WF_vars(MainStep(w)) /\ WF_vars(BeatStep(w))

-----------------------------------------------------------------------------
(* Properties *)

\* The variables have their types.
TypeOK ==
    /\ inspections \in [Jobs -> Row]
    /\ nextToken \in Nat /\ clock \in Nat
    /\ pending \in [Jobs -> BOOLEAN] /\ sent \in [Jobs -> BOOLEAN]
    /\ queue \in [Messages -> [place : {"unsent", "queue", "deleted", "dead"},
                               id : Jobs \cup {Unknown},
                               receives : 0..MaxReceives]]
    /\ pc      \in [Workers -> Steps]
    /\ now     \in [Workers -> Nat]
    /\ tries   \in [Workers -> 0..ClaimTries]
    /\ message \in [Workers -> Messages \cup {NoMessage}]
    /\ held    \in [Workers -> Job(Jobs) \cup {NoJob}]
    /\ beat    \in [Workers -> Beats]
    /\ beatNow \in [Workers -> Nat]
    /\ pulses  \in [Workers -> 0..MaxPulses]
    /\ lost    \in [Workers -> BOOLEAN]
    /\ stopped \in [Workers -> BOOLEAN]
    /\ faults \in 0..MaxFaults /\ redrives \in 0..MaxRedrives

\* w's lease is the one in the row, expired or not.
Owns(w, j) ==
    /\ held[w] # NoJob
    /\ held[w].id = j
    /\ held[w].token = inspections[j].token

\* Duplicate deliveries, late heartbeats and redrives leave one owner at most,
\* whose copy of the row is current.
OneOwner ==
    /\ \A j \in Jobs : \A v, w \in Workers : Owns(v, j) /\ Owns(w, j) => v = w
    /\ \A j \in Jobs, w \in Workers :
          Owns(w, j) => /\ inspections[j].status = "PROCESSING"
                        /\ inspections[j].attempts = held[w].attempts

\* A message is acknowledged only for a durably COMPLETED job ("only durable
\* completion permits ACK", sqs_worker.py:1).
AckOnlyCompleted ==
    \A m \in Messages :
        queue[m].place = "deleted" =>
            queue[m].id \in Jobs /\ inspections[queue[m].id].status = "COMPLETED"

\* No accepted job is lost: until it is terminal its event is pending or a
\* message of it is in the queue or the dead-letter queue.
NothingLost ==
    \A j \in Jobs :
        inspections[j].status \in {"QUEUED", "PROCESSING"} =>
            \/ pending[j]
            \/ \E m \in Messages : /\ queue[m].id = j
                                   /\ queue[m].place \in {"queue", "dead"}

\* Redrive included, clients see only the steps of the lifecycle.
StatusOf   == [j \in Jobs |-> inspections[j].status]
AttemptsOf == [j \in Jobs |-> inspections[j].attempts]
ReportOf   == [j \in Jobs |-> inspections[j].report]

Lifecycle == INSTANCE InspectionLifecycle WITH
    Inspections <- Jobs,
    status <- StatusOf, attempts <- AttemptsOf, report <- ReportOf

ImplementsLifecycle == Lifecycle!Spec

\* A job never waits for ever in silence: it ends, or all its messages are in
\* the dead-letter queue, where docs/cloud-integrations.md says to look.
Quarantined(j) ==
    /\ ~ pending[j]
    /\ \A m \in Messages : queue[m].id = j => queue[m].place = "dead"

EveryJobSettles ==
    \A j \in Jobs : inspections[j].status # "ABSENT"
        ~> inspections[j].status \in Terminal \/ Quarantined(j)

\* "A renewal failure prevents that worker from committing an unfinished
\* result" (docs/cloud-integrations.md:18).
LostNeverCommits ==
    [][\A w \in Workers :
          lost[w] /\ pc[w] = "complete" /\ pc'[w] = "close"
              => UNCHANGED inspections]_vars

\* "Retriable failures retain the message and apply the database's retry
\* delay" (docs/cloud-integrations.md:22): the worker whose fail() queued the
\* job again, which nobody took since, goes on to delay the message.
RetryDelayApplied ==
    [][\A w \in Workers :
          (/\ pc[w] = "reread"
           /\ inspections[held[w].id].status = "QUEUED"
           /\ inspections[held[w].id].attempts = held[w].attempts
           /\ pc'[w] # "reread")
              => pc'[w] = "delay"]_vars
=============================================================================
