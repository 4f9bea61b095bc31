----------------------------- MODULE Publication -----------------------------
(***************************************************************************)
(* What the transactional outbox promises about the event of one SQS job:  *)
(* it is recorded together with the job, handed to SQS at least once after *)
(* every submission or redrive, and called published only after that.      *)
(***************************************************************************)
CONSTANT Jobs

VARIABLES
    pending,    \* published_at IS NULL: the publisher still owes a send
    sent        \* SendMessage succeeded since the event was (re)opened

vars == <<pending, sent>>

Init ==
    /\ pending = [j \in Jobs |-> FALSE]
    /\ sent    = [j \in Jobs |-> FALSE]

\* create() and redrive() open the event in the job's own transaction.
Open(j) ==
    /\ pending' = [pending EXCEPT ![j] = TRUE]
    /\ sent'    = [sent EXCEPT ![j] = FALSE]

\* Also by a publisher that was overtaken: SQS sees duplicates.
Send(j) ==
    /\ sent' = [sent EXCEPT ![j] = TRUE]
    /\ UNCHANGED pending

Publish(j) ==
    /\ pending[j] /\ sent[j]
    /\ pending' = [pending EXCEPT ![j] = FALSE]
    /\ UNCHANGED sent

Next == \E j \in Jobs : Open(j) \/ Send(j) \/ Publish(j)

Spec == Init /\ [][Next]_vars
=============================================================================
