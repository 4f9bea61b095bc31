------------------------ MODULE InspectionLifecycle ------------------------
(***************************************************************************)
(* What the backend promises about one inspection, whatever queue carries  *)
(* it and however many workers, messages or crashes there are: the states  *)
(* a client can see through GET /inspections/{id}/status and the report.   *)
(* There are no leases, tokens, clocks or messages here.                   *)
(***************************************************************************)
EXTENDS Integers

CONSTANTS Inspections, MaxAttempts

VARIABLES
    status,     \* what the status endpoint answers
    attempts,   \* inference attempts begun in the current cycle
    report      \* the attempt whose report is published, 0 for none

vars == <<status, attempts, report>>

Init ==
    /\ status   = [i \in Inspections |-> "ABSENT"]
    /\ attempts = [i \in Inspections |-> 0]
    /\ report   = [i \in Inspections |-> 0]

Move(i, from, to) ==
    /\ status[i] = from
    /\ status' = [status EXCEPT ![i] = to]

HasBudget(i) == attempts[i] < MaxAttempts

Submit(i) == Move(i, "ABSENT", "QUEUED") /\ UNCHANGED <<attempts, report>>

\* An attempt begins; one whose worker went silent is superseded by the next.
Attempt(i) ==
    /\ Move(i, "QUEUED", "PROCESSING") \/ Move(i, "PROCESSING", "PROCESSING")
    /\ HasBudget(i)
    /\ attempts' = [attempts EXCEPT ![i] = @ + 1]
    /\ UNCHANGED report

\* Only the current attempt can publish.
Complete(i) ==
    /\ Move(i, "PROCESSING", "COMPLETED")
    /\ report' = [report EXCEPT ![i] = attempts[i]]
    /\ UNCHANGED attempts

Retry(i) ==
    /\ Move(i, "PROCESSING", "QUEUED")
    /\ HasBudget(i)
    /\ UNCHANGED <<attempts, report>>

\* A job is given up only after its whole budget.
GiveUp(i) ==
    /\ Move(i, "PROCESSING", "FAILED")
    /\ ~ HasBudget(i)
    /\ UNCHANGED <<attempts, report>>

\* The operator's explicit retry opens a new cycle.
Redrive(i) ==
    /\ Move(i, "FAILED", "QUEUED")
    /\ attempts' = [attempts EXCEPT ![i] = 0]
    /\ UNCHANGED report

Next == \E i \in Inspections :
    Submit(i) \/ Attempt(i) \/ Complete(i) \/ Retry(i) \/ GiveUp(i) \/ Redrive(i)

Spec == Init /\ [][Next]_vars
=============================================================================
