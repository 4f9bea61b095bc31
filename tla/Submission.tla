----------------------------- MODULE Submission -----------------------------
(***************************************************************************)
(* The upload endpoint (api.py, upload), the object store it writes first  *)
(* (storage.py) and the audit that looks for objects no inspection refers  *)
(* to (storage_audit.py).  Every POST has an inspection id of its own, so  *)
(* an upload, its object and its row are all named by one id.              *)
(*                                                                         *)
(* The request is stored, then recorded, then answered; the server may die *)
(* and calls may raise between any two steps, before or after their        *)
(* effect.  The audit reads the clock, then one object after the other,    *)
(* and looks each old one up in the table, while uploads go on.            *)
(*                                                                         *)
(* Cleanup is not code: it is the operator's deletion of candidates as the *)
(* audit's `limitation` asks for it, "Pause submissions and recheck".      *)
(***************************************************************************)
EXTENDS Integers

CONSTANTS
    Uploads,     \* one element per POST
    MinAge,      \* min_age_seconds
    MaxFaults,   \* BOUND on errors and server crashes
    MaxClock     \* BOUND on time

\* audit() refuses a grace period that is not positive.
ASSUME SubmissionAssumption ==
    MinAge \in Nat \ {0} /\ MaxFaults \in Nat /\ MaxClock \in Nat

VARIABLES
    backend,      \* settings.storage_backend
    object,       \* what the store holds for each id
    modified,     \* its modification time
    inspections,  \* ids of the committed rows
    committed,    \* HISTORY: when the row was committed
    request,      \* where the request is on the server
    answer,       \* what its client knows
    audit,        \* where the audit is
    now,          \* the time the audit read
    due,          \* HISTORY: orphans this audit ought to report
    unread,       \* objects its inventory has not come to
    current,      \* the object being looked up
    candidates,   \* its report so far
    clock,
    faults

upload == <<backend, object, modified, inspections, committed, request, answer>>
audits == <<audit, now, due, unread, current, candidates>>
vars   == <<upload, audits, clock, faults>>

Positions == {"new", "put", "replace", "create", "reply", "over"}

Init ==
    /\ backend \in {"local", "s3"}
    /\ object      = [u \in Uploads |-> "none"]
    /\ modified    = [u \in Uploads |-> 0]
    /\ inspections = {}
    /\ committed   = [u \in Uploads |-> 0]
    /\ request     = [u \in Uploads |-> "new"]
    /\ answer      = [u \in Uploads |-> "none"]
    /\ audit = "idle" /\ now = 0 /\ due = {} /\ unread = {} /\ current = {}
    /\ candidates = {}
    /\ clock = 0 /\ faults = 0

-----------------------------------------------------------------------------
(* Helpers *)

Goto(u, position) == request' = [request EXCEPT ![u] = position]

Hold(u, what) == object' = [object EXCEPT ![u] = what]

Touch(u) == modified' = [modified EXCEPT ![u] = clock]

Fault == faults < MaxFaults /\ faults' = faults + 1

\* The client gets a 500, or nothing at all: it cannot tell what happened.
Broken(u) ==
    /\ Goto(u, "over")
    /\ answer' = [answer EXCEPT ![u] = "uncertain"]

InFlight == {u \in Uploads : request[u] \notin {"new", "over"}}

-----------------------------------------------------------------------------
(* upload: read, validate, then persist() in a thread of its own *)

\* The body is read and the image validated: persist() starts.
Post(u) ==
    /\ request[u] = "new"
    /\ Goto(u, "put")
    /\ UNCHANGED <<backend, object, modified, inspections, committed, answer,
                   audits, clock, faults>>

\* 413 and 422: nothing was written.
Reject(u) ==
    /\ request[u] = "new"
    /\ Goto(u, "over")
    /\ answer' = [answer EXCEPT ![u] = "rejected"]
    /\ UNCHANGED <<backend, object, modified, inspections, committed,
                   audits, clock, faults>>

\* LocalObjectStore.put: write and fsync a temporary file ...
WriteTemporary(u) ==
    /\ request[u] = "put"
    /\ backend = "local"
    /\ Hold(u, "temporary")
    /\ Touch(u)
    /\ Goto(u, "replace")
    /\ UNCHANGED <<backend, inspections, committed, answer, audits, clock, faults>>

\* ... then os.replace, which keeps the file's modification time.
Replace(u) ==
    /\ request[u] = "replace"
    /\ Hold(u, "stored")
    /\ Goto(u, "create")
    /\ UNCHANGED <<backend, modified, inspections, committed, answer, audits,
                   clock, faults>>

\* S3ObjectStore.put
PutObject(u) ==
    /\ request[u] = "put"
    /\ backend = "s3"
    /\ Hold(u, "stored")
    /\ Touch(u)
    /\ Goto(u, "create")
    /\ UNCHANGED <<backend, inspections, committed, answer, audits, clock, faults>>

\* repository.create commits.
Commit(u) ==
    /\ request[u] = "create"
    /\ inspections' = inspections \cup {u}
    /\ committed'   = [committed EXCEPT ![u] = clock]

Create(u) ==
    /\ Commit(u)
    /\ Goto(u, "reply")
    /\ UNCHANGED <<backend, object, modified, answer, audits, clock, faults>>

\* Slip: the answer does not wait for the row.
ReplyEarly(u) ==
    /\ request[u] \in {"create", "reply"}
    /\ Goto(u, "over")
    /\ answer' = [answer EXCEPT ![u] = "accepted"]
    /\ UNCHANGED <<backend, object, modified, inspections, committed, audits,
                   clock, faults>>

\* 202 with the inspection id.
Reply(u) ==
    /\ request[u] = "reply"
    /\ Goto(u, "over")
    /\ answer' = [answer EXCEPT ![u] = "accepted"]
    /\ UNCHANGED <<backend, object, modified, inspections, committed, audits,
                   clock, faults>>

-----------------------------------------------------------------------------
(* Faults *)

\* put raises.  The local store's `finally` removes the temporary file; S3 may
\* have stored the object before the answer was lost.
PutRaises(u) ==
    /\ request[u] \in {"put", "replace"}
    /\ Fault
    /\ \/ Hold(u, "none") /\ UNCHANGED modified
       \/ backend = "s3" /\ Hold(u, "stored") /\ Touch(u)
    /\ Broken(u)
    /\ UNCHANGED <<backend, inspections, committed, audits, clock>>

\* Slip: the exception handler removes the object it just stored.
CreateRaisesDeletes(u) ==
    /\ request[u] = "create"
    /\ Fault
    /\ Commit(u) \/ UNCHANGED <<inspections, committed>>
    /\ Hold(u, "none")
    /\ Broken(u)
    /\ UNCHANGED <<backend, modified, audits, clock>>

\* "submission_commit_uncertain": create raises, before or after the commit,
\* and the object is retained either way.
CreateRaises(u) ==
    /\ request[u] = "create"
    /\ Fault
    /\ Commit(u) \/ UNCHANGED <<inspections, committed>>
    /\ Broken(u)
    /\ UNCHANGED <<backend, object, modified, audits, clock>>

\* The answer is lost, or the browser's 30 seconds were over.
ReplyLost(u) ==
    /\ request[u] = "reply"
    /\ Fault
    /\ Broken(u)
    /\ UNCHANGED <<backend, object, modified, inspections, committed, audits, clock>>

\* The server process dies with every request it is working on; temporary
\* files stay behind.
ServerCrash ==
    /\ InFlight # {}
    /\ Fault
    /\ request' = [u \in Uploads |-> IF u \in InFlight THEN "over" ELSE request[u]]
    /\ answer'  = [u \in Uploads |-> IF u \in InFlight THEN "uncertain"
                                     ELSE answer[u]]
    /\ UNCHANGED <<backend, object, modified, inspections, committed, audits, clock>>

-----------------------------------------------------------------------------
(* storage_audit.audit over inventory(store), and the operator *)

Stored == {u \in Uploads : object[u] = "stored"}

StartAudit ==
    /\ audit = "idle"
    /\ audit'  = "scan"
    /\ now'    = clock
    /\ due'    = {u \in Stored \ inspections :
                    u \notin InFlight /\ modified[u] + MinAge <= clock}
    /\ unread' = Stored
    /\ candidates' = {}
    /\ UNCHANGED <<upload, current, clock, faults>>

\* Slips: off by one at the boundary; no grace period.
YoungAtBoundary(u) == modified[u] >= now - MinAge
YoungNever(u)      == modified[u] > now

Young(u) == modified[u] > now - MinAge

\* The inventory yields an object that was there at the start, or one that
\* was added while it was being read.
Visit(u) ==
    /\ audit = "scan"
    /\ u \in Stored /\ u \notin candidates
    /\ IF Young(u) THEN UNCHANGED <<audit, current>>
                   ELSE audit' = "lookup" /\ current' = {u}
    /\ unread' = unread \ {u}
    /\ UNCHANGED <<upload, now, due, candidates, clock, faults>>

\* SELECT id WHERE image_key = key LIMIT 1
LookUp ==
    /\ audit = "lookup"
    /\ candidates' = candidates \cup (current \ inspections)
    /\ current' = {}
    /\ audit'   = "scan"
    /\ UNCHANGED <<upload, now, due, unread, clock, faults>>

Report ==
    /\ audit = "scan"
    /\ unread = {}
    /\ audit' = "reported"
    /\ UNCHANGED <<upload, now, due, unread, current, candidates, clock, faults>>

\* Submissions are paused and the candidates checked again.
Cleanup ==
    /\ audit = "reported"
    /\ InFlight = {}
    /\ object' = [u \in Uploads |-> IF u \in candidates \ inspections THEN "none"
                                    ELSE object[u]]
    /\ audit'  = "idle"
    /\ now' = 0 /\ due' = {} /\ candidates' = {}
    /\ UNCHANGED <<backend, modified, inspections, committed, request, answer,
                   unread, current, clock, faults>>

Discard ==
    /\ audit = "reported"
    /\ audit' = "idle"
    /\ now' = 0 /\ due' = {} /\ candidates' = {}
    /\ UNCHANGED <<upload, unread, current, clock, faults>>

\* Ages matter while there are objects.
Tick ==
    /\ clock < MaxClock
    /\ clock' = clock + 1
    /\ UNCHANGED <<upload, audits, faults>>

-----------------------------------------------------------------------------
RequestStep(u) ==
    \/ Post(u) \/ Reject(u) \/ WriteTemporary(u) \/ Replace(u) \/ PutObject(u)
    \/ Create(u) \/ Reply(u)

FaultStep(u) == PutRaises(u) \/ CreateRaises(u) \/ ReplyLost(u)

AuditStep ==
    \/ \E u \in Uploads : Visit(u)
    \/ StartAudit \/ LookUp \/ Report

Next ==
    \/ \E u \in Uploads : RequestStep(u) \/ FaultStep(u)
    \/ ServerCrash
    \/ AuditStep \/ Cleanup \/ Discard
    \/ Tick

Spec == Init /\ [][Next]_vars

-----------------------------------------------------------------------------
(* Properties *)

\* The variables have their types; no object is ever half-written under its
\* final name.
TypeOK ==
    /\ backend \in {"local", "s3"}
    /\ object   \in [Uploads -> {"none", "temporary", "stored"}]
    /\ modified \in [Uploads -> Nat] /\ committed \in [Uploads -> Nat]
    /\ inspections \subseteq Uploads
    /\ request \in [Uploads -> Positions]
    /\ answer  \in [Uploads -> {"none", "rejected", "accepted", "uncertain"}]
    /\ audit \in {"idle", "scan", "lookup", "reported"}
    /\ now \in Nat /\ clock \in Nat /\ faults \in 0..MaxFaults
    /\ due \subseteq Uploads /\ unread \subseteq Uploads
    /\ current \subseteq Uploads /\ candidates \subseteq Uploads

\* Every inspection has its whole image, whatever raised or crashed between
\* the object and the row, and also after cleanups: a worker or GET /image
\* never meets a missing or half-written object.
RowHasObject == inspections \subseteq Stored

\* An accepted upload is there for good; a rejected one left nothing; after
\* an uncertain answer both are possible, hence "inspect history before
\* retrying" (docs/cloud-integrations.md:27).
AnswersAreTrue ==
    \A u \in Uploads :
        /\ answer[u] = "accepted" => u \in inspections
        /\ answer[u] = "rejected" => u \notin inspections /\ object[u] = "none"

\* The report is complete: an object old enough and left over when the audit
\* began is listed at its end, however many uploads went on meanwhile.
OrphansReported == audit = "reported" => due \subseteq candidates

\* A candidate that turns out to be referenced belongs to an upload that took
\* longer than the grace period between its object and its row.
GraceProtects ==
    \A u \in candidates \cap inspections :
        committed[u] >= modified[u] + MinAge
=============================================================================
