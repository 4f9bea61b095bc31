---------------------------- MODULE Outbox_proofs ----------------------------
(***************************************************************************)
(* Theorems about Outbox for every number of jobs, publishers, redrives    *)
(* and faults and every lease length.                                      *)
(*                                                                         *)
(* The argument: a claim hands out a token that neither a row nor a        *)
(* publisher has (TokensSpent), so the token in a row belongs to one       *)
(* publisher at most (TokensUnique); redrive takes the token out of the    *)
(* row, so a publisher that owns a row and has sent did so after the event *)
(* was last opened (SenderSent).                                           *)
(***************************************************************************)
EXTENDS Outbox, TLAPS

EventRow == [created : Nat, available : Nat, attempts : Nat,
             token : Nat \cup {NULL}, until : Nat \cup {NULL},
             published : BOOLEAN]

-----------------------------------------------------------------------------
(* The inductive invariant *)

\* What a publisher has in hand says where it is, and the reverse.
LocalsMatch ==
    \A p \in Publishers :
        /\ held[p] # NoEvent <=> pc[p] \in {"send", "sent", "failed"}
        /\ pc[p] = "update" => selected[p] \in Jobs

\* Tokens in use were handed out before.
TokensSpent ==
    /\ \A j \in Jobs : outbox[j].token < nextToken
    /\ \A p \in Publishers : held[p] # NoEvent => held[p].token < nextToken

\* No two publishers have the same token.
TokensUnique ==
    \A p, q \in Publishers :
        held[p] # NoEvent /\ held[q] # NoEvent /\ held[p].token = held[q].token
            => p = q

\* An event exists from its job's submission on.
EventsExist ==
    /\ \A j \in Jobs : job[j] = "absent" => ~ sent[j]
    /\ \A p \in Publishers : held[p] # NoEvent => job[held[p].id] # "absent"

\* Who still owns a row sent its event, if it sent at all, since the last redrive.
SenderSent ==
    \A p \in Publishers :
        /\ pc[p] = "sent"
        /\ held[p].token = outbox[held[p].id].token
        => sent[held[p].id]

IInv ==
    /\ TypeOK /\ LocalsMatch /\ TokensSpent /\ TokensUnique
    /\ EventsExist /\ SenderSent

\* The two halves of TypeOK that most steps treat apart.
TablesTyped ==
    /\ outbox \in [Jobs -> EventRow]
    /\ job  \in [Jobs -> {"absent", "unsent", "sent", "FAILED"}]
    /\ sent \in [Jobs -> BOOLEAN]
    /\ nextToken \in Nat

LocalsTyped ==
    /\ pc       \in [Publishers -> Steps]
    /\ now      \in [Publishers -> Nat]
    /\ tries    \in [Publishers -> 0..ClaimTries]
    /\ selected \in [Publishers -> Jobs \cup {NULL}]
    /\ held     \in [Publishers -> Event \cup {NoEvent}]

RestTyped == clock \in Nat /\ faults \in 0..MaxFaults /\ redrives \in 0..MaxRedrives

LEMMA TypeInTwo ==
    /\ TypeOK <=> TablesTyped /\ LocalsTyped /\ RestTyped
    /\ TypeOK' <=> TablesTyped' /\ LocalsTyped' /\ RestTyped'
BY DEF TypeOK, TablesTyped, LocalsTyped, RestTyped, EventRow

-----------------------------------------------------------------------------
(* What the statements write *)

\* min(300, 2 ** min(attempts, 8)) is a delay.
LEMMA BackoffIsNat ==
    ASSUME NEW n \in Nat
    PROVE  SendBackoff(n) \in Nat
<1> DEFINE m == MinOf(n, 8)
<1>1. \/ m = 0 \/ m = 1 \/ m = 2 \/ m = 3 \/ m = 4
      \/ m = 5 \/ m = 6 \/ m = 7 \/ m = 8
  BY DEF MinOf
<1>2. /\ 2 ^ 0 \in Nat /\ 2 ^ 1 \in Nat /\ 2 ^ 2 \in Nat
      /\ 2 ^ 3 \in Nat /\ 2 ^ 4 \in Nat /\ 2 ^ 5 \in Nat
      /\ 2 ^ 6 \in Nat /\ 2 ^ 7 \in Nat /\ 2 ^ 8 \in Nat
  OBVIOUS
<1> HIDE DEF m
<1>3. 2 ^ m \in Nat
  BY <1>1, <1>2, Zenon
<1> DEFINE k == 2 ^ m
<1>4. k \in Nat /\ SendBackoff(n) = MinOf(BackoffCap, k)
  BY <1>3 DEF SendBackoff, m
<1> HIDE DEF k
<1>5. BackoffCap \in Nat
  BY OutboxAssumption
<1>6. MinOf(BackoffCap, k) \in Nat
  BY <1>4, <1>5 DEF MinOf
<1> QED
  BY <1>4, <1>6

LEMMA RowLeased ==
    ASSUME NEW r \in EventRow, NEW k \in Nat, NEW t \in Nat
    PROVE  /\ Leased(r, k, t) \in EventRow
           /\ Leased(r, k, t).token = k
           /\ Leased(r, k, t).published = r.published
<1> DEFINE u == t + OutboxLease
           n == r.attempts + 1
<1>1. u \in Nat /\ n \in Nat
  BY OutboxAssumption DEF EventRow
<1>2. Leased(r, k, t) = [r EXCEPT !.token = k, !.until = u, !.attempts = n]
  BY DEF Leased
<1> HIDE DEF u, n
<1> QED
  BY <1>1, <1>2 DEF EventRow

LEMMA RowReopened ==
    ASSUME NEW r \in EventRow, clock \in Nat
    PROVE  /\ Reopened(r) \in EventRow
           /\ Reopened(r).token = NULL
           /\ Reopened(r).published = FALSE
BY DEF Reopened, EventRow

LEMMA RowFinished ==
    ASSUME NEW r \in EventRow, NEW p \in Publishers,
           now[p] \in Nat, held[p] \in Event
    PROVE  /\ Finished(r, p) \in EventRow
           /\ Finished(r, p).token = NULL
           /\ Finished(r, p).published = (pc[p] = "sent")
<1>1. now[p] + SendBackoff(held[p].attempts) \in Nat
  BY BackoffIsNat DEF Event
<1> DEFINE later == now[p] + SendBackoff(held[p].attempts)
           done  == (pc[p] = "sent")
<1>2. later \in Nat /\ done \in BOOLEAN
  BY <1>1
<1>3. Finished(r, p) = [r EXCEPT !.published = done,
                                 !.available = IF done THEN now[p] ELSE later,
                                 !.token = NULL, !.until = NULL]
  BY DEF Finished
<1> HIDE DEF later, done
<1>4. /\ Finished(r, p) \in EventRow /\ Finished(r, p).token = NULL
      /\ Finished(r, p).published = done
  BY <1>2, <1>3 DEF EventRow
<1> QED
  BY <1>4 DEF done

LEMMA NewEvent ==
    ASSUME clock \in Nat
    PROVE  LET r == [NoRow EXCEPT !.created = clock, !.available = clock]
           IN  r \in EventRow /\ r.token = NULL /\ r.published = FALSE
BY DEF NoRow, EventRow, NULL

\* The counters of the bounds.
LEMMA FaultsCounted ==
    ASSUME TypeOK, Fault \/ UNCHANGED counts
    PROVE  faults' \in 0..MaxFaults /\ redrives' \in 0..MaxRedrives
BY OutboxAssumption DEF TypeOK, Fault, counts

-----------------------------------------------------------------------------
(* What the steps do to the publishers' locals *)

\* Publishers keep the event they have or let go of it, and none gets to
\* "sent" that was not there.
Forgets ==
    \A p \in Publishers : /\ held'[p] \in {held[p], NoEvent}
                          /\ pc'[p] = "sent" => pc[p] = "sent"

LEMMA LeaveLocals ==
    ASSUME TypeOK, LocalsMatch, NEW p \in Publishers,
           Leave(p) \/ Stop(p)
    PROVE  LocalsTyped' /\ LocalsMatch' /\ Forgets
<1>0. Forget(p) /\ \E s \in {"idle", "stopped"} : pc' = [pc EXCEPT ![p] = s]
  BY DEF Leave, Stop
<1>1. LocalsTyped'
  BY <1>0, OutboxAssumption DEF TypeOK, LocalsTyped, Forget, Steps
<1>2. LocalsMatch'
  BY <1>0 DEF TypeOK, LocalsMatch, Forget
<1>3. Forgets
  BY <1>0 DEF TypeOK, Forgets, Forget
<1> QED
  BY <1>1, <1>2, <1>3

LEMMA SameLocals ==
    ASSUME TypeOK, LocalsMatch, UNCHANGED locals
    PROVE  LocalsTyped' /\ LocalsMatch' /\ Forgets
BY DEF TypeOK, LocalsTyped, LocalsMatch, Forgets, locals

-----------------------------------------------------------------------------
(* The four ways a step can treat the tables *)

\* A step that writes none of them.
LEMMA QuietStep ==
    ASSUME IInv, TypeOK', LocalsMatch', Forgets, UNCHANGED tables
    PROVE  IInv'
<1> USE DEF IInv, tables
<1>1. TokensSpent'
  BY DEF TokensSpent, Forgets
<1>2. TokensUnique'
  BY DEF TokensUnique, Forgets
<1>3. EventsExist'
  BY DEF EventsExist, Forgets
<1>4. SenderSent'
  <2> SUFFICES ASSUME NEW p \in Publishers, pc'[p] = "sent",
                      held'[p].token = outbox[held'[p].id].token
               PROVE  sent[held'[p].id]
    BY DEF SenderSent
  <2>1. pc[p] = "sent" /\ held'[p] = held[p]
    BY DEF Forgets, LocalsMatch
  <2> QED
    BY <2>1 DEF SenderSent
<1> QED
  BY <1>1, <1>2, <1>3, <1>4

\* A step that leaves the row of j without a lease.
LEMMA ReleasingStep ==
    ASSUME IInv, TypeOK', LocalsMatch', Forgets, nextToken' = nextToken,
           NEW j \in Jobs, NEW r \in EventRow, outbox' = [outbox EXCEPT ![j] = r],
           r.token = NULL,
           \A i \in Jobs : job'[i] = "absent" => job[i] = "absent",
           \A i \in Jobs : sent'[i] => sent[i],
           \A i \in Jobs \ {j} : sent'[i] = sent[i]
    PROVE  IInv'
<1> USE DEF IInv
<1>1. /\ outbox'[j] = r
      /\ \A i \in Jobs : i # j => outbox'[i] = outbox[i]
  BY DEF TypeOK
<1>2. TokensSpent'
  <2>1. NULL < nextToken
    BY DEF TypeOK, NULL
  <2> QED
    BY <1>1, <2>1 DEF TokensSpent, Forgets
<1>3. TokensUnique'
  BY DEF TokensUnique, Forgets
<1>4. EventsExist'
  <2>1. \A p \in Publishers : held[p] # NoEvent => held[p].id \in Jobs
    BY DEF TypeOK, Event
  <2> QED
    BY <2>1 DEF EventsExist, Forgets
<1>5. SenderSent'
  <2> SUFFICES ASSUME NEW p \in Publishers, pc'[p] = "sent",
                      held'[p].token = outbox'[held'[p].id].token
               PROVE  sent'[held'[p].id]
    BY DEF SenderSent
  <2>1. pc[p] = "sent" /\ held'[p] = held[p] /\ held[p] # NoEvent
    BY DEF Forgets, LocalsMatch
  <2>2. held[p].id \in Jobs /\ held[p].token # NULL
    BY <2>1 DEF TypeOK, Event, NULL
  <2>3. held[p].id # j
    BY <1>1, <2>1, <2>2
  <2> QED
    BY <1>1, <2>1, <2>2, <2>3 DEF SenderSent
<1> QED
  BY <1>2, <1>3, <1>4, <1>5

\* A committed claim of j, whose event reaches publisher p or nobody.
LEMMA ClaimingStep ==
    ASSUME IInv, TypeOK', LocalsMatch', UNCHANGED <<job, sent>>,
           NEW j \in Jobs, job[j] # "absent",
           NEW r \in EventRow, outbox' = [outbox EXCEPT ![j] = r],
           r.token = nextToken, nextToken' = nextToken + 1,
           NEW p \in Publishers,
           \A q \in Publishers :
               \/ held'[q] \in {held[q], NoEvent}
               \/ q = p /\ held'[q].id = j /\ held'[q].token = nextToken,
           \A q \in Publishers : pc'[q] = "sent" => pc[q] = "sent" /\ held'[q] = held[q]
    PROVE  IInv'
<1> USE DEF IInv
<1>1. /\ outbox'[j] = r
      /\ \A i \in Jobs : i # j => outbox'[i] = outbox[i]
  BY DEF TypeOK
<1>2. nextToken \in Nat
  BY DEF TypeOK
<1>3. TokensSpent'
  <2>1. /\ \A i \in Jobs : outbox[i].token \in Nat \cup {NULL}
        /\ \A q \in Publishers : held[q] # NoEvent => held[q].token \in Nat
    BY DEF TypeOK, Event
  <2>2. /\ \A i \in Jobs : outbox[i].token < nextToken + 1
        /\ \A q \in Publishers : held[q] # NoEvent => held[q].token < nextToken + 1
    BY <1>2, <2>1 DEF TokensSpent, NULL
  <2>3. nextToken < nextToken + 1
    BY <1>2
  <2> QED
    BY <1>1, <2>2, <2>3 DEF TokensSpent
<1>4. TokensUnique'
  <2>1. \A q \in Publishers : held[q] # NoEvent => held[q].token # nextToken
    BY <1>2 DEF TokensSpent
  <2> QED
    BY <2>1 DEF TokensUnique
<1>5. EventsExist'
  BY DEF EventsExist
<1>6. SenderSent'
  <2> SUFFICES ASSUME NEW q \in Publishers, pc'[q] = "sent",
                      held'[q].token = outbox'[held'[q].id].token
               PROVE  sent[held'[q].id]
    BY DEF SenderSent
  <2>1. pc[q] = "sent" /\ held'[q] = held[q] /\ held[q] # NoEvent
    BY DEF LocalsMatch
  <2>2. held[q].id \in Jobs /\ held[q].token # nextToken
    BY <1>2, <2>1 DEF TypeOK, Event, TokensSpent
  <2>3. held[q].id # j
    BY <1>1, <2>1, <2>2
  <2> QED
    BY <1>1, <2>1, <2>2, <2>3 DEF SenderSent
<1> QED
  BY <1>3, <1>4, <1>5, <1>6

\* SQS accepts the event of publisher p.
LEMMA DeliveringStep ==
    ASSUME IInv, TypeOK', LocalsMatch', NEW p \in Publishers,
           held[p] # NoEvent, held' = held, Deliver(held[p].id),
           \A q \in Publishers \ {p} : pc'[q] = pc[q]
    PROVE  IInv'
<1> USE DEF IInv, Deliver
<1>1. held[p].id \in Jobs
  BY DEF TypeOK, Event
<1>2. \A i \in Jobs : sent[i] => sent'[i]
  BY <1>1 DEF TypeOK
<1>3. sent'[held[p].id]
  BY <1>1 DEF TypeOK
<1>4. \A i \in Jobs : job[i] # "absent" => job'[i] # "absent"
  BY <1>1 DEF TypeOK
<1>5. TokensSpent'
  BY DEF TokensSpent
<1>6. TokensUnique'
  BY DEF TokensUnique
<1>7. EventsExist'
  <2>1. job[held[p].id] # "absent"
    BY DEF EventsExist
  <2>2. \A i \in Jobs : job'[i] = "absent" => sent'[i] = sent[i]
    BY <1>1, <1>4, <2>1 DEF TypeOK
  <2>3. \A q \in Publishers : held[q] # NoEvent => held[q].id \in Jobs
    BY DEF TypeOK, Event
  <2> QED
    BY <1>4, <2>2, <2>3 DEF EventsExist
<1>8. SenderSent'
  <2> SUFFICES ASSUME NEW q \in Publishers, pc'[q] = "sent",
                      held[q].token = outbox[held[q].id].token
               PROVE  sent'[held[q].id]
    BY DEF SenderSent
  <2>1. CASE q = p
    BY <1>3, <2>1
  <2>2. CASE q # p
    <3>1. pc[q] = "sent" /\ held[q] # NoEvent
      BY <2>2 DEF LocalsMatch
    <3>2. held[q].id \in Jobs
      BY <3>1 DEF TypeOK, Event
    <3> QED
      BY <1>2, <3>1, <3>2 DEF SenderSent
  <2> QED
    BY <2>1, <2>2
<1> QED
  BY <1>5, <1>6, <1>7, <1>8

-----------------------------------------------------------------------------
(* Every step keeps the invariant *)

LEMMA InitInv == Init => IInv
<1> SUFFICES ASSUME Init PROVE IInv
  OBVIOUS
<1> USE DEF Init, NoRow, NULL
<1>1. TypeOK
  BY OutboxAssumption DEF TypeOK, Steps
<1> QED
  BY <1>1 DEF IInv, LocalsMatch, TokensSpent, TokensUnique, EventsExist, SenderSent

LEMMA SubmitInv ==
    ASSUME IInv, NEW j \in Jobs, Submit(j)
    PROVE  IInv'
<1> DEFINE r == [NoRow EXCEPT !.created = clock, !.available = clock]
<1> USE DEF IInv
<1>1. r \in EventRow /\ r.token = NULL
  BY NewEvent DEF TypeOK
<1>2. outbox' = [outbox EXCEPT ![j] = r]
  BY DEF Submit
<1> HIDE DEF r
<1>3. TypeOK'
  BY <1>1, <1>2, TypeInTwo DEF RestTyped, Submit, TablesTyped, LocalsTyped, locals, counts
<1>4. LocalsMatch' /\ Forgets
  BY SameLocals DEF Submit
<1>5. \A i \in Jobs : job'[i] = "absent" => job[i] = "absent"
  BY DEF Submit, TypeOK
<1> QED
  BY <1>1, <1>2, <1>3, <1>4, <1>5, ReleasingStep DEF Submit

LEMMA JobFailsInv ==
    ASSUME IInv, NEW j \in Jobs, JobFails(j)
    PROVE  IInv'
<1> USE DEF IInv
<1>1. TypeOK'
  BY TypeInTwo DEF RestTyped, JobFails, TablesTyped, LocalsTyped, locals, counts
<1>2. /\ UNCHANGED <<outbox, sent, nextToken, held, pc>>
      /\ \A i \in Jobs : job'[i] = "absent" <=> job[i] = "absent"
  BY DEF JobFails, TypeOK, locals
<1>3. LocalsMatch'
  BY DEF JobFails, LocalsMatch, locals
<1>4. TokensSpent' /\ TokensUnique' /\ SenderSent'
  BY <1>2 DEF TokensSpent, TokensUnique, SenderSent
<1>5. EventsExist'
  <2>1. \A p \in Publishers : held[p] # NoEvent => held[p].id \in Jobs
    BY DEF TypeOK, Event
  <2> QED
    BY <1>2, <2>1 DEF EventsExist
<1> QED
  BY <1>1, <1>3, <1>4, <1>5

LEMMA RedriveInv ==
    ASSUME IInv, NEW j \in Jobs, Redrive(j)
    PROVE  IInv'
<1> DEFINE r == Reopened(outbox[j])
<1> USE DEF IInv
<1>1. r \in EventRow /\ r.token = NULL
  BY RowReopened, TypeInTwo DEF RestTyped, TablesTyped
<1>2. outbox' = [outbox EXCEPT ![j] = r]
  BY DEF Redrive
<1> HIDE DEF r
<1>3. redrives' \in 0..MaxRedrives
  BY OutboxAssumption DEF Redrive, TypeOK
<1>4. TypeOK'
  BY <1>1, <1>2, <1>3, TypeInTwo DEF RestTyped, Redrive, TablesTyped, LocalsTyped, locals
<1>5. LocalsMatch' /\ Forgets
  BY SameLocals DEF Redrive
<1>6. \A i \in Jobs : /\ job'[i] = "absent" => job[i] = "absent"
                      /\ sent'[i] => sent[i]
                      /\ i # j => sent'[i] = sent[i]
  BY DEF Redrive, TypeOK
<1> QED
  BY <1>1, <1>2, <1>4, <1>5, <1>6, ReleasingStep DEF Redrive

LEMMA TimeInv ==
    ASSUME IInv, Tick \/ Overrun
    PROVE  IInv'
<1> USE DEF IInv, Tick, Overrun, TimePasses
<1>1. clock' \in Nat
  BY DEF TypeOK
<1>2. LocalsTyped' /\ LocalsMatch' /\ Forgets
  BY SameLocals
<1>3. TypeOK'
  BY <1>1, <1>2, TypeInTwo, FaultsCounted DEF RestTyped, tables, TablesTyped
<1> QED
  BY <1>2, <1>3, QuietStep

\* Steps of a publisher that leave the tables alone.
LEMMA PublisherQuiet ==
    ASSUME IInv, NEW p \in Publishers,
           \/ Poll(p) \/ Select(p) \/ NoWork(p) \/ LostRace(p) \/ DropFinish(p)
           \/ Crash(p) \/ Stop(p)
    PROVE  IInv'
<1> USE DEF IInv
<1>1. UNCHANGED <<tables, clock>> /\ (Fault \/ UNCHANGED counts)
  BY DEF Poll, Select, NoWork, LostRace, DropFinish, Crash, Stop
<1>2. LocalsTyped' /\ LocalsMatch' /\ Forgets
  <2>1. CASE Poll(p)
    BY <2>1 DEF Poll, TypeOK, LocalsTyped, LocalsMatch, Forgets, Steps
  <2>2. CASE Select(p)
    <3>1. tries[p] + 1 \in 0..ClaimTries
      BY <2>2, OutboxAssumption DEF Select, TypeOK
    <3> QED
      BY <2>2, <3>1 DEF Select, TypeOK, LocalsTyped, LocalsMatch, Forgets, Steps
  <2>3. CASE LostRace(p)
    BY <2>3 DEF LostRace, TypeOK, LocalsTyped, LocalsMatch, Forgets, Steps
  <2>4. CASE NoWork(p) \/ DropFinish(p) \/ Crash(p) \/ Stop(p)
    BY <2>4, LeaveLocals DEF NoWork, DropFinish, Crash
  <2> QED
    BY <2>1, <2>2, <2>3, <2>4
<1>3. TypeOK'
  BY <1>1, <1>2, TypeInTwo, FaultsCounted DEF RestTyped, tables, TablesTyped
<1> QED
  BY <1>1, <1>2, <1>3, QuietStep

LEMMA ClaimInv ==
    ASSUME IInv, NEW p \in Publishers, Take(p) \/ LostClaim(p)
    PROVE  IInv'
<1> USE DEF IInv
<1> DEFINE j == selected[p]
           r == Leased(outbox[j], nextToken, now[p])
<1>1. WriteClaim(p) /\ clock' = clock /\ (Fault \/ UNCHANGED counts)
  BY DEF Take, LostClaim
<1>2. j \in Jobs /\ job[j] # "absent" /\ held[p] = NoEvent
  BY <1>1 DEF WriteClaim, Eligible, LocalsMatch
<1>3. now[p] \in Nat /\ nextToken \in Nat /\ outbox[j] \in EventRow
  BY <1>2, TypeInTwo DEF TablesTyped, LocalsTyped
<1>4. r \in EventRow /\ r.token = nextToken
  BY <1>3, RowLeased
<1>5. /\ outbox' = [outbox EXCEPT ![j] = r] /\ nextToken' = nextToken + 1
      /\ UNCHANGED <<job, sent>>
  BY <1>1 DEF WriteClaim
<1>6. outbox'[j] = r
  BY <1>2, <1>5 DEF TypeOK
<1> HIDE DEF r
<1>7. TablesTyped'
  BY <1>2, <1>4, <1>5, TypeInTwo DEF TablesTyped
<1>8. CASE LostClaim(p)
  <2>1. LocalsTyped' /\ LocalsMatch' /\ Forgets
    BY <1>8, LeaveLocals DEF LostClaim
  <2>2. TypeOK'
    BY <1>1, <1>7, <2>1, TypeInTwo, FaultsCounted DEF RestTyped, TypeOK
  <2>3. \A q \in Publishers : pc'[q] = "sent" => pc[q] = "sent" /\ held'[q] = held[q]
    BY <2>1 DEF Forgets, LocalsMatch
  <2> QED
    BY <1>2, <1>4, <1>5, <2>1, <2>2, <2>3, ClaimingStep DEF Forgets
<1>9. CASE Take(p)
  <2> DEFINE e == [id |-> j, token |-> r.token, attempts |-> r.attempts]
  <2>1. e \in Event /\ e # NoEvent /\ e.id = j /\ e.token = nextToken
    BY <1>2, <1>3, <1>4, OutboxAssumption DEF Event, EventRow
  <2>2. held' = [held EXCEPT ![p] = e]
    BY <1>6, <1>9 DEF Take
  <2> HIDE DEF e
  <2>3. LocalsTyped' /\ LocalsMatch'
    <3>1. LocalsTyped'
      BY <1>9, <2>1, <2>2, OutboxAssumption DEF Take, TypeOK, LocalsTyped, Steps
    <3>2. LocalsMatch'
      BY <1>9, <2>1, <2>2 DEF Take, TypeOK, LocalsMatch
    <3> QED
      BY <3>1, <3>2
  <2>4. TypeOK'
    BY <1>1, <1>7, <2>3, TypeInTwo, FaultsCounted DEF RestTyped, TypeOK
  <2>5. \A q \in Publishers : pc'[q] = "sent" => pc[q] = "sent" /\ held'[q] = held[q]
    BY <1>9, <2>2 DEF Take, TypeOK
  <2>6. \A q \in Publishers :
            \/ held'[q] \in {held[q], NoEvent}
            \/ q = p /\ held'[q].id = j /\ held'[q].token = nextToken
    BY <2>1, <2>2 DEF TypeOK
  <2> QED
    BY <1>2, <1>4, <1>5, <2>3, <2>4, <2>5, <2>6, ClaimingStep
<1> QED
  BY <1>8, <1>9

\* SQS took the event, or may have before the call raised.
LEMMA SendInv ==
    ASSUME IInv, NEW p \in Publishers, Send(p) \/ SendRaises(p)
    PROVE  IInv'
<1> USE DEF IInv
<1>1. /\ pc[p] = "send" /\ clock' = clock /\ (Fault \/ UNCHANGED counts)
      /\ held' = held
      /\ \A q \in Publishers \ {p} : pc'[q] = pc[q]
      /\ pc'[p] \in {"sent", "failed"}
  BY DEF Send, SendRaises, CallFinish, TypeOK
<1>2. held[p] # NoEvent /\ held[p].id \in Jobs
  BY <1>1 DEF LocalsMatch, TypeOK, Event
<1>3. LocalsTyped'
  BY DEF Send, SendRaises, CallFinish, TypeOK, LocalsTyped, Steps
<1>4. LocalsMatch'
  BY <1>1, <1>2 DEF Send, SendRaises, CallFinish, TypeOK, LocalsMatch
<1>5. CASE Deliver(held[p].id)
  <2>1. TablesTyped'
    BY <1>2, <1>5, TypeInTwo DEF TablesTyped, Deliver
  <2>2. TypeOK'
    BY <1>1, <1>3, <2>1, TypeInTwo, FaultsCounted DEF RestTyped, TypeOK
  <2> QED
    BY <1>1, <1>2, <1>4, <1>5, <2>2, DeliveringStep
<1>6. CASE UNCHANGED tables /\ SendRaises(p)
  <2>1. TypeOK'
    BY <1>1, <1>3, <1>6, TypeInTwo, FaultsCounted DEF RestTyped, TablesTyped, tables
  <2>2. pc'[p] = "failed"
    BY <1>6 DEF SendRaises, CallFinish, TypeOK
  <2>3. Forgets
    BY <1>1, <2>2 DEF Forgets
  <2> QED
    BY <1>4, <1>6, <2>1, <2>3, QuietStep
<1> QED
  BY <1>5, <1>6 DEF Send, SendRaises

\* The row and the publisher of a finish that writes.
LEMMA Finishing ==
    ASSUME IInv, NEW p \in Publishers, Finish(p)
    PROVE  LET j == held[p].id
               r == Finished(outbox[j], p)
           IN  /\ j \in Jobs /\ r \in EventRow /\ outbox' = [outbox EXCEPT ![j] = r]
               /\ r.token = NULL /\ r.published = (pc[p] = "sent")
               /\ job[j] # "absent" /\ ~ outbox[j].published
               /\ pc[p] = "sent" => sent[j]
<1> USE DEF IInv
<1>1. held[p] # NoEvent /\ held[p] \in Event /\ now[p] \in Nat
  BY DEF Finish, LocalsMatch, TypeOK
<1>2. held[p].id \in Jobs /\ outbox[held[p].id] \in EventRow
  BY <1>1, TypeInTwo DEF Event, TablesTyped
<1> QED
  BY <1>1, <1>2, RowFinished DEF Finish, Fence, EventsExist, SenderSent

LEMMA FinishInv ==
    ASSUME IInv, NEW p \in Publishers, Finish(p)
    PROVE  IInv'
<1> USE DEF IInv
<1> DEFINE j == held[p].id
           r == Finished(outbox[j], p)
<1>1. /\ j \in Jobs /\ r \in EventRow /\ outbox' = [outbox EXCEPT ![j] = r]
      /\ r.token = NULL
  BY Finishing
<1> HIDE DEF j, r
<1>2. LocalsTyped' /\ LocalsMatch' /\ Forgets
  BY LeaveLocals DEF Finish
<1>3. TypeOK'
  BY <1>1, <1>2, TypeInTwo, FaultsCounted DEF RestTyped, Finish, TablesTyped
<1> QED
  BY <1>1, <1>2, <1>3, ReleasingStep DEF Finish

LEMMA NextInv == IInv /\ [Next]_vars => IInv'
<1> SUFFICES ASSUME IInv, [Next]_vars PROVE IInv'
  OBVIOUS
<1>1. ASSUME NEW j \in Jobs, Submit(j) \/ JobFails(j) \/ Redrive(j)
      PROVE  IInv'
  BY <1>1, SubmitInv, JobFailsInv, RedriveInv
<1>2. CASE Tick \/ Overrun
  BY <1>2, TimeInv
<1>3. ASSUME NEW p \in Publishers,
             \/ PublisherStep(p) \/ Stop(p)
             \/ SendRaises(p) \/ Crash(p) \/ LostClaim(p)
      PROVE  IInv'
  BY <1>3, PublisherQuiet, ClaimInv, SendInv, FinishInv DEF PublisherStep
<1>4. CASE UNCHANGED vars
  <2>1. LocalsMatch' /\ LocalsTyped' /\ Forgets
    BY <1>4, SameLocals DEF IInv, vars
  <2>2. TypeOK'
    BY <1>4, <2>1, TypeInTwo DEF RestTyped, IInv, vars, tables, counts, TablesTyped
  <2> QED
    BY <1>4, <2>1, <2>2, QuietStep DEF vars
<1> QED
  BY <1>1, <1>2, <1>3, <1>4 DEF Next

-----------------------------------------------------------------------------
(* Theorems *)

\* Tokens, locals and what was sent agree at every instant, whatever stalls,
\* crashes and redrives do (outbox.py).
THEOREM Invariance == Spec => []IInv
BY InitInv, NextInv, PTL DEF Spec

\* Every column and local keeps its type.
THEOREM TypeCorrect == Spec => []TypeOK
<1>1. IInv => TypeOK
  BY DEF IInv
<1> QED
  BY <1>1, Invariance, PTL

\* Two publishers never hold the lease of one event.
THEOREM SingleSender == Spec => []OneSender
<1>1. IInv => OneSender
  BY DEF IInv, OneSender, TokensUnique, Owns
<1> QED
  BY <1>1, Invariance, PTL

-----------------------------------------------------------------------------
(* The outbox implements Publication *)

LEMMA InitRefines == Init => Promise!Init
BY DEF Init, Promise!Init, PendingOf

LEMMA PendingRow ==
    ASSUME NEW j \in Jobs
    PROVE  PendingOf[j] <=> job[j] # "absent" /\ ~ outbox[j].published
BY DEF PendingOf

LEMMA StepRefines ==
    ASSUME IInv, [Next]_vars
    PROVE  [Promise!Next]_(Promise!vars)
<1> USE DEF IInv
<1>1. ASSUME NEW j \in Jobs, Submit(j)
      PROVE  Promise!Open(j)
  <2> DEFINE r == [NoRow EXCEPT !.created = clock, !.available = clock]
  <2>1. r.published = FALSE
    BY NewEvent DEF TypeOK
  <2>2. job' = [job EXCEPT ![j] = "unsent"] /\ outbox' = [outbox EXCEPT ![j] = r]
    BY <1>1 DEF Submit
  <2> HIDE DEF r
  <2>3. PendingOf' = [PendingOf EXCEPT ![j] = TRUE]
    BY <2>1, <2>2 DEF PendingOf, TypeOK
  <2>4. sent' = [sent EXCEPT ![j] = FALSE]
    BY <1>1 DEF Submit, EventsExist, TypeOK
  <2> QED
    BY <2>3, <2>4 DEF Promise!Open
<1>2. ASSUME NEW j \in Jobs, Redrive(j)
      PROVE  Promise!Open(j)
  <2> DEFINE r == Reopened(outbox[j])
  <2>1. r.published = FALSE
    BY RowReopened, TypeInTwo DEF RestTyped, TablesTyped
  <2>2. job' = [job EXCEPT ![j] = "sent"] /\ outbox' = [outbox EXCEPT ![j] = r]
    BY <1>2 DEF Redrive
  <2> HIDE DEF r
  <2>3. PendingOf' = [PendingOf EXCEPT ![j] = TRUE]
    BY <2>1, <2>2 DEF PendingOf, TypeOK
  <2> QED
    BY <1>2, <2>3 DEF Promise!Open, Redrive
<1>3. ASSUME NEW p \in Publishers, held[p] # NoEvent, Deliver(held[p].id)
      PROVE  Promise!Send(held[p].id)
  <2>1. held[p].id \in Jobs /\ job[held[p].id] # "absent"
    BY <1>3 DEF TypeOK, Event, EventsExist
  <2>2. PendingOf' = PendingOf
    BY <1>3, <2>1 DEF PendingOf, Deliver, TypeOK
  <2> QED
    BY <1>3, <2>2 DEF Promise!Send, Deliver
<1>4. ASSUME NEW p \in Publishers, Finish(p), pc[p] = "sent"
      PROVE  Promise!Publish(held[p].id)
  <2> DEFINE j == held[p].id
             r == Finished(outbox[j], p)
  <2>1. /\ j \in Jobs /\ outbox' = [outbox EXCEPT ![j] = r] /\ r.published
        /\ job[j] # "absent" /\ ~ outbox[j].published /\ sent[j]
    BY <1>4, Finishing
  <2>2. job' = job /\ sent' = sent
    BY <1>4 DEF Finish
  <2> HIDE DEF j, r
  <2>3. PendingOf[j] /\ PendingOf' = [PendingOf EXCEPT ![j] = FALSE]
    BY <2>1, <2>2 DEF PendingOf, TypeOK
  <2> QED
    BY <2>1, <2>2, <2>3 DEF Promise!Publish, j
<1>5. ASSUME NEW p \in Publishers, Finish(p), pc[p] # "sent"
      PROVE  UNCHANGED Promise!vars
  <2> DEFINE j == held[p].id
             r == Finished(outbox[j], p)
  <2>1. /\ j \in Jobs /\ outbox' = [outbox EXCEPT ![j] = r] /\ ~ r.published
        /\ ~ outbox[j].published
    BY <1>5, Finishing
  <2>2. job' = job /\ sent' = sent
    BY <1>5 DEF Finish
  <2> HIDE DEF j, r
  <2>3. PendingOf' = PendingOf
    BY <2>1, <2>2 DEF PendingOf, TypeOK
  <2> QED
    BY <2>2, <2>3 DEF Promise!vars
<1>6. ASSUME NEW p \in Publishers, WriteClaim(p)
      PROVE  UNCHANGED Promise!vars
  <2> DEFINE j == selected[p]
             r == Leased(outbox[j], nextToken, now[p])
  <2>1. j \in Jobs /\ now[p] \in Nat /\ nextToken \in Nat /\ outbox[j] \in EventRow
    BY <1>6, TypeInTwo DEF TablesTyped, LocalsTyped, LocalsMatch, WriteClaim
  <2>2. r.published = outbox[j].published
    BY <2>1, RowLeased
  <2>3. outbox' = [outbox EXCEPT ![j] = r] /\ job' = job /\ sent' = sent
    BY <1>6 DEF WriteClaim
  <2> HIDE DEF j, r
  <2>4. PendingOf' = PendingOf
    BY <2>1, <2>2, <2>3 DEF PendingOf, TypeOK
  <2> QED
    BY <2>3, <2>4 DEF Promise!vars
<1>7. ASSUME NEW j \in Jobs, JobFails(j)
      PROVE  UNCHANGED Promise!vars
  <2>1. PendingOf' = PendingOf
    BY <1>7 DEF JobFails, PendingOf, TypeOK
  <2> QED
    BY <1>7, <2>1 DEF Promise!vars, JobFails
<1>8. CASE UNCHANGED tables
  BY <1>8 DEF Promise!vars, PendingOf, tables
<1>9. ASSUME NEW p \in Publishers,
             \/ PublisherStep(p) \/ Stop(p)
             \/ SendRaises(p) \/ Crash(p) \/ LostClaim(p)
      PROVE  [Promise!Next]_(Promise!vars)
  <2>1. CASE Take(p) \/ LostClaim(p)
    BY <1>6, <2>1 DEF Take, LostClaim
  <2>2. CASE Finish(p)
    <3>1. held[p].id \in Jobs
      BY <2>2, Finishing
    <3> QED
      BY <1>4, <1>5, <2>2, <3>1 DEF Promise!Next
  <2>3. CASE Send(p) \/ SendRaises(p)
    <3>1. held[p] # NoEvent /\ held[p].id \in Jobs
      BY <2>3 DEF Send, SendRaises, LocalsMatch, TypeOK, Event
    <3> QED
      BY <1>3, <1>8, <2>3, <3>1 DEF Send, SendRaises, Promise!Next
  <2>4. CASE \/ Poll(p) \/ Select(p) \/ NoWork(p) \/ LostRace(p) \/ DropFinish(p)
             \/ Crash(p) \/ Stop(p)
    BY <1>8, <2>4 DEF Poll, Select, NoWork, LostRace, DropFinish, Crash, Stop
  <2> QED
    BY <1>9, <2>1, <2>2, <2>3, <2>4 DEF PublisherStep
<1>10. CASE Tick \/ Overrun \/ UNCHANGED vars
  BY <1>8, <1>10 DEF Tick, Overrun, TimePasses, vars
<1> QED
  BY <1>1, <1>2, <1>7, <1>9, <1>10 DEF Next, Promise!Next

\* However publishers stall, are overtaken or lose answers, an event is called
\* published only after it was sent since it was last opened.
THEOREM Refinement == Spec => ImplementsPublication
<1>1. IInv /\ [Next]_vars => [Promise!Next]_(Promise!vars)
  BY StepRefines
<1> QED
  BY <1>1, InitRefines, Invariance, PTL DEF Spec, ImplementsPublication, Promise!Spec
=============================================================================
