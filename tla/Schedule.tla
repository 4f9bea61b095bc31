------------------------------ MODULE Schedule ------------------------------
(***************************************************************************)
(* ml/schedule.py: which views a training run visits, in which order, and  *)
(* what a finished run must look like before its weights may be loaded.    *)
(*                                                                         *)
(* A configuration has epochs > 0 or budget > 0 (--max-steps), the other   *)
(* is 0.  Passes, epochs, steps and views are counted from 1.              *)
(***************************************************************************)
EXTENDS Integers, Sequences

CONSTANTS
    Nothing,              \* the value a file does not record (None, or a missing key)
    RandomOrder(_, _)     \* the order in which a seed leaves so many views

ASSUME NothingAssumption == Nothing \notin Nat

ByBudget(c) == c.budget > 0

\* What is known of random.shuffle: the views in another order, each of them once.
IsOrder(s, views) ==
    /\ s \in [1..views -> 1..views]
    /\ \A v \in 1..views : \E i \in 1..views : s[i] = v

Shuffled(views, seed) ==
    IF IsOrder(RandomOrder(views, seed), views) THEN RandomOrder(views, seed)
    ELSE [i \in 1..views |-> i]

Least(a, b) == IF a < b THEN a ELSE b

PassCount(c, views) ==
    IF ByBudget(c) THEN (c.budget + views - 1) \div views ELSE c.epochs

\* Slip: a pass is cut to the budget, not to what earlier passes left of it.
PassLengthWhole(c, views, consumed) ==
    IF ByBudget(c) THEN Least(views, c.budget)
    ELSE IF c.smoke THEN Least(views, 2)
    ELSE views

PassLength(c, views, consumed) ==
    IF ByBudget(c) THEN Least(views, c.budget - consumed)
    ELSE IF c.smoke THEN Least(views, 2)
    ELSE views

PassIndices(c, views, pass, consumed) ==
    SubSeq(Shuffled(views, c.seed + pass - 1), 1, PassLength(c, views, consumed))

Consumed(c, views) ==
    LET upTo[pass \in 0..PassCount(c, views)] ==
            IF pass = 0 THEN 0
            ELSE upTo[pass - 1] + Len(PassIndices(c, views, pass, upTo[pass - 1]))
    IN  upTo

TrainingSchedule(c, views) ==
    [pass \in 1..PassCount(c, views) |->
        PassIndices(c, views, pass, Consumed(c, views)[pass - 1])]

-----------------------------------------------------------------------------
(* validate_training.  A row of history is                                 *)
(* [number, indices, first, last, whole, score].                           *)

Best(history) ==
    CHOOSE i \in DOMAIN history :
        /\ \A j \in DOMAIN history : history[j].score <= history[i].score
        /\ \A j \in 1..(i - 1) : history[j].score < history[i].score

ValidEpochs(c, summary, checkpoint, history) ==
    /\ summary.epochs = c.epochs
    /\ Len(history) = c.epochs
    /\ \A i \in DOMAIN history : history[i].number = i
    /\ checkpoint.epoch = Best(history)

ValidPass(c, views, history, pass) ==
    LET consumed == Consumed(c, views)
        indices  == TrainingSchedule(c, views)[pass]
        row      == history[pass]
    IN  /\ row.number = pass
        /\ row.indices = indices
        /\ row.first = consumed[pass - 1] + 1
        /\ row.last = consumed[pass - 1] + Len(indices)
        /\ row.whole = (Len(indices) = views)
        /\ (row.score # Nothing) = (pass = PassCount(c, views))

ValidBudget(c, views, summary, checkpoint, history) ==
    LET complete == c.budget \div views
        partial  == c.budget % views
        count    == complete + (IF partial > 0 THEN 1 ELSE 0)
    IN  /\ Len(history) = count
        /\ summary.steps = c.budget
        /\ summary.epochs = complete
        /\ summary.partial = partial
        /\ \A pass \in 1..count : ValidPass(c, views, history, pass)
        /\ checkpoint.step = c.budget
        /\ checkpoint.epoch = Nothing
        /\ summary.best = history[count].score

ValidTraining(c, views, summary, checkpoint, history) ==
    IF ByBudget(c) THEN ValidBudget(c, views, summary, checkpoint, history)
                   ELSE ValidEpochs(c, summary, checkpoint, history)

\* The row validate_training returns.
Selected(c, history) == IF ByBudget(c) THEN Len(history) ELSE Best(history)
=============================================================================
