-------------------------- MODULE Submission_proofs --------------------------
(***************************************************************************)
(* Theorems about Submission for every number of uploads, grace period,    *)
(* number of faults and stretch of time.                                   *)
(*                                                                         *)
(* The argument: an object is written only while its request is in "put"   *)
(* or "replace" and nothing removes it before the request is over, so the  *)
(* row that "create" commits finds it (PositionsMatch); an object the      *)
(* audit has to report belongs to a request that is over, so no step but   *)
(* the operator's changes it while the audit reads on (AuditSound).        *)
(***************************************************************************)
EXTENDS Submission, TLAPS

-----------------------------------------------------------------------------
(* The inductive invariant *)

\* What a request's position says of its object, its row and its answer.
PositionsMatch ==
    \A u \in Uploads :
        /\ request[u] \in {"new", "put", "replace", "create"} => u \notin inspections
        /\ request[u] = "new" => object[u] = "none"
        /\ request[u] = "create" => object[u] = "stored"
        /\ request[u] = "reply" => u \in inspections
        /\ object[u] = "stored" => request[u] \in {"create", "reply", "over"}
        /\ answer[u] # "none" => request[u] = "over"

UploadInv == PositionsMatch /\ RowHasObject /\ AnswersAreTrue

\* What the audit has listed or is looking up was old when it read the clock.
ListedAreOld ==
    \A u \in candidates \cup current :
        object[u] = "stored" /\ modified[u] + MinAge <= now

\* What it ought to report stays an orphan, and it has not passed it over.
DueIsAhead ==
    /\ \A u \in due : /\ object[u] = "stored" /\ u \notin inspections
                      /\ request[u] = "over" /\ modified[u] + MinAge <= now
    /\ due \subseteq unread \cup current \cup candidates
    /\ audit # "lookup" => current = {}
    /\ audit = "reported" => unread = {}

AuditSound == now <= clock /\ ListedAreOld /\ DueIsAhead /\ GraceProtects

IInv == TypeOK /\ UploadInv /\ AuditSound

-----------------------------------------------------------------------------
(* The two ways a step can matter to the audit *)

\* A step of the requests: objects that are stored stay and keep their time,
\* rows are added only to requests in "create", at the time of the clock.
RequestsKeep ==
    /\ \A u \in Uploads :
          object[u] = "stored" => object'[u] = "stored" /\ modified'[u] = modified[u]
    /\ \A u \in Uploads : request[u] = "over" => request'[u] = "over"
    /\ inspections \subseteq inspections'
    /\ \A u \in inspections : committed'[u] = committed[u]
    /\ \A u \in inspections' \ inspections :
          request[u] = "create" /\ committed'[u] = clock

LEMMA AuditUndisturbed ==
    ASSUME IInv, TypeOK', RequestsKeep, UNCHANGED audits, clock <= clock'
    PROVE  AuditSound'
<1> USE DEF IInv, AuditSound, audits
<1>1. now' <= clock'
  BY DEF TypeOK
<1>2. /\ candidates \subseteq Uploads /\ current \subseteq Uploads
      /\ due \subseteq Uploads
  BY DEF TypeOK
<1>3. ListedAreOld'
  BY <1>2 DEF ListedAreOld, RequestsKeep
<1>4. DueIsAhead'
  BY <1>2 DEF DueIsAhead, RequestsKeep
<1>5. GraceProtects'
  <2> SUFFICES ASSUME NEW u \in candidates, u \in inspections'
               PROVE  committed'[u] >= modified'[u] + MinAge
    BY DEF GraceProtects
  <2>1. /\ u \in Uploads /\ modified'[u] = modified[u]
        /\ modified[u] + MinAge <= now
    BY <1>2 DEF ListedAreOld, RequestsKeep
  <2>2. CASE u \in inspections
    BY <2>1, <2>2 DEF GraceProtects, RequestsKeep
  <2>3. CASE u \notin inspections
    <3>1. committed'[u] = clock
      BY <2>3 DEF RequestsKeep
    <3>2. modified[u] \in Nat /\ now \in Nat /\ clock \in Nat /\ MinAge \in Nat
      BY <2>1, SubmissionAssumption DEF TypeOK
    <3> QED
      BY <2>1, <3>1, <3>2
  <2> QED
    BY <2>2, <2>3
<1> QED
  BY <1>1, <1>3, <1>4, <1>5

-----------------------------------------------------------------------------
(* The steps of a request *)

LEMMA FaultCounted ==
    ASSUME TypeOK, Fault
    PROVE  faults' \in 0..MaxFaults
BY SubmissionAssumption DEF TypeOK, Fault

\* A request that gets no further than it was: nothing stored, nothing written.
LEMMA RequestStepInv ==
    ASSUME IInv, NEW u \in Uploads, RequestStep(u)
    PROVE  IInv'
<1> USE DEF IInv, UploadInv, Goto, Hold, Touch, Positions
<1>1. clock' = clock /\ UNCHANGED <<audits, faults>>
  BY DEF RequestStep, Post, Reject, WriteTemporary, Replace, PutObject, Create, Reply
<1>2. CASE Post(u) \/ Reject(u) \/ Reply(u)
  <2> USE DEF Post, Reject, Reply
  <2>1. TypeOK'
    BY <1>1, <1>2 DEF TypeOK, audits
  <2>2. PositionsMatch'
    BY <1>2 DEF TypeOK, PositionsMatch
  <2>3. RowHasObject'
    BY <1>2 DEF RowHasObject, Stored
  <2>4. AnswersAreTrue'
    BY <1>2 DEF TypeOK, PositionsMatch, AnswersAreTrue
  <2>5. RequestsKeep
    BY <1>2 DEF TypeOK, RequestsKeep
  <2> QED
    BY <1>1, <2>1, <2>2, <2>3, <2>4, <2>5, AuditUndisturbed DEF TypeOK
<1>3. CASE WriteTemporary(u) \/ PutObject(u) \/ Replace(u)
  <2> USE DEF WriteTemporary, PutObject, Replace
  <2>1. TypeOK'
    BY <1>1, <1>3 DEF TypeOK, audits
  <2>2. PositionsMatch'
    BY <1>3 DEF TypeOK, PositionsMatch
  <2>3. RowHasObject'
    BY <1>3 DEF TypeOK, PositionsMatch, RowHasObject, Stored
  <2>4. AnswersAreTrue'
    BY <1>3 DEF TypeOK, PositionsMatch, AnswersAreTrue
  <2>5. RequestsKeep
    BY <1>3 DEF TypeOK, PositionsMatch, RequestsKeep
  <2> QED
    BY <1>1, <2>1, <2>2, <2>3, <2>4, <2>5, AuditUndisturbed DEF TypeOK
<1>4. CASE Create(u)
  <2> USE DEF Create, Commit
  <2>1. TypeOK'
    BY <1>1, <1>4 DEF TypeOK, audits
  <2>2. PositionsMatch'
    BY <1>4 DEF TypeOK, PositionsMatch
  <2>3. RowHasObject'
    BY <1>4 DEF TypeOK, PositionsMatch, RowHasObject, Stored
  <2>4. AnswersAreTrue'
    BY <1>4 DEF TypeOK, PositionsMatch, AnswersAreTrue
  <2>5. RequestsKeep
    BY <1>4 DEF TypeOK, PositionsMatch, RequestsKeep
  <2> QED
    BY <1>1, <2>1, <2>2, <2>3, <2>4, <2>5, AuditUndisturbed DEF TypeOK
<1> QED
  BY <1>2, <1>3, <1>4 DEF RequestStep

LEMMA FaultStepInv ==
    ASSUME IInv, NEW u \in Uploads, FaultStep(u)
    PROVE  IInv'
<1> USE DEF IInv, UploadInv, Goto, Hold, Touch, Broken, Positions
<1>1. clock' = clock /\ UNCHANGED audits /\ faults' \in 0..MaxFaults
  BY FaultCounted DEF FaultStep, PutRaises, CreateRaises, ReplyLost
<1>2. CASE PutRaises(u)
  <2> USE DEF PutRaises
  <2>1. TypeOK'
    BY <1>1, <1>2 DEF TypeOK, audits
  <2>2. PositionsMatch'
    BY <1>2 DEF TypeOK, PositionsMatch
  <2>3. RowHasObject'
    BY <1>2 DEF TypeOK, PositionsMatch, RowHasObject, Stored
  <2>4. AnswersAreTrue'
    BY <1>2 DEF TypeOK, PositionsMatch, AnswersAreTrue
  <2>5. RequestsKeep
    BY <1>2 DEF TypeOK, PositionsMatch, RequestsKeep
  <2> QED
    BY <1>1, <2>1, <2>2, <2>3, <2>4, <2>5, AuditUndisturbed DEF TypeOK
<1>3. CASE CreateRaises(u)
  <2> USE DEF CreateRaises, Commit
  <2>1. TypeOK'
    BY <1>1, <1>3 DEF TypeOK, audits
  <2>2. PositionsMatch'
    BY <1>3 DEF TypeOK, PositionsMatch
  <2>3. RowHasObject'
    BY <1>3 DEF TypeOK, PositionsMatch, RowHasObject, Stored
  <2>4. AnswersAreTrue'
    BY <1>3 DEF TypeOK, PositionsMatch, AnswersAreTrue
  <2>5. RequestsKeep
    BY <1>3 DEF TypeOK, PositionsMatch, RequestsKeep
  <2> QED
    BY <1>1, <2>1, <2>2, <2>3, <2>4, <2>5, AuditUndisturbed DEF TypeOK
<1>4. CASE ReplyLost(u)
  <2> USE DEF ReplyLost
  <2>1. TypeOK'
    BY <1>1, <1>4 DEF TypeOK, audits
  <2>2. PositionsMatch'
    BY <1>4 DEF TypeOK, PositionsMatch
  <2>3. RowHasObject'
    BY <1>4 DEF RowHasObject, Stored
  <2>4. AnswersAreTrue'
    BY <1>4 DEF TypeOK, PositionsMatch, AnswersAreTrue
  <2>5. RequestsKeep
    BY <1>4 DEF TypeOK, RequestsKeep
  <2> QED
    BY <1>1, <2>1, <2>2, <2>3, <2>4, <2>5, AuditUndisturbed DEF TypeOK
<1> QED
  BY <1>2, <1>3, <1>4 DEF FaultStep

\* Every request in flight ends, its object and its row as they are.
LEMMA ServerCrashInv ==
    ASSUME IInv, ServerCrash
    PROVE  IInv'
<1> USE DEF IInv, UploadInv, ServerCrash
<1>1. clock' = clock /\ UNCHANGED audits /\ faults' \in 0..MaxFaults
  BY FaultCounted
<1>2. \A u \in Uploads :
        /\ request'[u] = IF u \in InFlight THEN "over" ELSE request[u]
        /\ answer'[u] = IF u \in InFlight THEN "uncertain" ELSE answer[u]
  OBVIOUS
<1>3. TypeOK'
  BY <1>1 DEF TypeOK, audits, Positions
<1>4. PositionsMatch'
  BY <1>2 DEF PositionsMatch, InFlight
<1>5. RowHasObject' /\ AnswersAreTrue'
  BY <1>2 DEF RowHasObject, Stored, AnswersAreTrue
<1>6. RequestsKeep
  BY <1>2 DEF RequestsKeep, InFlight
<1> QED
  BY <1>1, <1>3, <1>4, <1>5, <1>6, AuditUndisturbed DEF TypeOK

-----------------------------------------------------------------------------
(* The audit, the operator and the clock *)

LEMMA SameUpload ==
    ASSUME UploadInv, UNCHANGED upload
    PROVE  UploadInv'
BY DEF UploadInv, PositionsMatch, RowHasObject, Stored, AnswersAreTrue, upload

LEMMA StartAuditInv ==
    ASSUME IInv, StartAudit
    PROVE  IInv'
<1> USE DEF IInv, AuditSound, StartAudit, upload
<1>1. UploadInv'
  BY SameUpload
<1>2. TypeOK'
  BY DEF TypeOK, Stored
<1>3. ListedAreOld' /\ GraceProtects' /\ now' <= clock'
  BY DEF TypeOK, ListedAreOld, GraceProtects, DueIsAhead
<1>4. DueIsAhead'
  <2>1. \A u \in due' : request[u] = "over"
    BY DEF UploadInv, PositionsMatch, InFlight, Stored
  <2> QED
    BY <2>1 DEF DueIsAhead, Stored
<1> QED
  BY <1>1, <1>2, <1>3, <1>4

LEMMA VisitInv ==
    ASSUME IInv, NEW u \in Uploads, Visit(u)
    PROVE  IInv'
<1> USE DEF IInv, AuditSound, Visit, upload
<1>1. UploadInv'
  BY SameUpload
<1>2. TypeOK'
  BY DEF TypeOK
<1>3. modified[u] \in Nat /\ now \in Nat /\ MinAge \in Nat
  BY SubmissionAssumption DEF TypeOK
<1>4. ~ Young(u) <=> modified[u] + MinAge <= now
  BY <1>3 DEF Young
<1>5. ListedAreOld'
  BY <1>4 DEF ListedAreOld, Stored, DueIsAhead
<1>6. DueIsAhead'
  BY <1>4 DEF DueIsAhead
<1>7. GraceProtects' /\ now' <= clock'
  BY DEF GraceProtects
<1> QED
  BY <1>1, <1>2, <1>5, <1>6, <1>7

LEMMA LookUpInv ==
    ASSUME IInv, LookUp
    PROVE  IInv'
<1> USE DEF IInv, AuditSound, LookUp, upload
<1>1. UploadInv'
  BY SameUpload
<1>2. TypeOK'
  BY DEF TypeOK
<1>3. ListedAreOld'
  BY DEF ListedAreOld
<1>4. DueIsAhead'
  BY DEF DueIsAhead
<1>5. GraceProtects' /\ now' <= clock'
  BY DEF GraceProtects
<1> QED
  BY <1>1, <1>2, <1>3, <1>4, <1>5

LEMMA ReportInv ==
    ASSUME IInv, Report
    PROVE  IInv'
<1> USE DEF IInv, AuditSound, Report, upload
<1>1. UploadInv'
  BY SameUpload
<1> QED
  BY <1>1 DEF TypeOK, ListedAreOld, DueIsAhead, GraceProtects

LEMMA DiscardInv ==
    ASSUME IInv, Discard
    PROVE  IInv'
<1> USE DEF IInv, AuditSound, Discard, upload
<1>1. UploadInv'
  BY SameUpload
<1> QED
  BY <1>1 DEF TypeOK, ListedAreOld, DueIsAhead, GraceProtects

\* No request is in flight, and referenced objects are left alone.
LEMMA CleanupInv ==
    ASSUME IInv, Cleanup
    PROVE  IInv'
<1> USE DEF IInv, AuditSound, Cleanup
<1>1. \A u \in Uploads :
        object'[u] = IF u \in candidates \ inspections THEN "none" ELSE object[u]
  OBVIOUS
<1>2. \A u \in Uploads : request[u] \in {"new", "over"}
  BY DEF InFlight
<1>3. TypeOK'
  BY <1>1 DEF TypeOK
<1>4. PositionsMatch'
  BY <1>1, <1>2 DEF UploadInv, PositionsMatch
<1>5. RowHasObject' /\ AnswersAreTrue'
  BY <1>1 DEF UploadInv, RowHasObject, Stored, AnswersAreTrue
<1>6. AuditSound'
  BY DEF TypeOK, ListedAreOld, DueIsAhead, GraceProtects
<1> QED
  BY <1>3, <1>4, <1>5, <1>6 DEF UploadInv

LEMMA TickInv ==
    ASSUME IInv, Tick \/ UNCHANGED vars
    PROVE  IInv'
<1> USE DEF IInv, Tick, vars
<1>1. UploadInv'
  BY SameUpload
<1>2. TypeOK' /\ clock <= clock'
  BY DEF TypeOK, upload, audits
<1>3. RequestsKeep
  BY DEF RequestsKeep, upload
<1> QED
  BY <1>1, <1>2, <1>3, AuditUndisturbed

-----------------------------------------------------------------------------
(* Theorems *)

LEMMA InitInv == Init => IInv
BY SubmissionAssumption
DEF Init, IInv, TypeOK, Positions, UploadInv, PositionsMatch, RowHasObject, Stored,
    AnswersAreTrue, AuditSound, ListedAreOld, DueIsAhead, GraceProtects

LEMMA NextInv == IInv /\ [Next]_vars => IInv'
<1> SUFFICES ASSUME IInv, [Next]_vars PROVE IInv'
  OBVIOUS
<1>1. ASSUME NEW u \in Uploads, RequestStep(u) \/ FaultStep(u)
      PROVE  IInv'
  BY <1>1, RequestStepInv, FaultStepInv
<1>2. CASE AuditStep
  BY <1>2, StartAuditInv, VisitInv, LookUpInv, ReportInv DEF AuditStep
<1>3. CASE ServerCrash \/ Cleanup \/ Discard
  BY <1>3, ServerCrashInv, CleanupInv, DiscardInv
<1>4. CASE Tick \/ UNCHANGED vars
  BY <1>4, TickInv
<1> QED
  BY <1>1, <1>2, <1>3, <1>4 DEF Next

\* Uploads, objects, rows, answers and the audit agree at every instant,
\* whatever raises or crashes (api.py, storage.py, storage_audit.py).
THEOREM Invariance == Spec => []IInv
BY InitInv, NextInv, PTL DEF Spec

\* Every variable keeps its type.
THEOREM TypeCorrect == Spec => []TypeOK
<1>1. IInv => TypeOK
  BY DEF IInv
<1> QED
  BY <1>1, Invariance, PTL

\* Every committed row refers to a whole object, cleanups included.
THEOREM RowsHaveObjects == Spec => []RowHasObject
<1>1. IInv => RowHasObject
  BY DEF IInv, UploadInv
<1> QED
  BY <1>1, Invariance, PTL

\* A 202 is never taken back, and a 413 or 422 left nothing behind.
THEOREM Answers == Spec => []AnswersAreTrue
<1>1. IInv => AnswersAreTrue
  BY DEF IInv, UploadInv
<1> QED
  BY <1>1, Invariance, PTL

\* The audit misses no orphan that was old enough when it began.
THEOREM Complete == Spec => []OrphansReported
<1>1. IInv => OrphansReported
  BY DEF IInv, AuditSound, DueIsAhead, OrphansReported
<1> QED
  BY <1>1, Invariance, PTL

\* It lists the object of a live upload only if that one outlasted the grace.
THEOREM Grace == Spec => []GraceProtects
<1>1. IInv => GraceProtects
  BY DEF IInv, AuditSound
<1> QED
  BY <1>1, Invariance, PTL
=============================================================================
