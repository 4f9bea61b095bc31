------------------------------ MODULE Matching ------------------------------
(***************************************************************************)
(* Predictions against labels: match_image of ml/error_analysis.py, and    *)
(* the operating points of ml/qualification.py, which matches once without *)
(* a threshold and derives every threshold from that one matching.         *)
(*                                                                         *)
(* A score is a percentage, a box <<left, top, right, bottom>>, an overlap *)
(* (intersection over union) the pair [inter, union].                      *)
(***************************************************************************)
EXTENDS FiniteSets, TileViews

NoLabel == 0

Area(box) == (box[3] - box[1]) * (box[4] - box[2])

Overlap(a, b) ==
    LET common == Clip(a, b)
        inter  == IF HasArea(common) THEN Area(common) ELSE 0
    IN  [inter |-> inter, union |-> Area(a) + Area(b) - inter]

Half(o)       == 2 * o.inter >= o.union
AtLeast(o, p) == o.inter * p.union >= p.inter * o.union

\* The first of the best overlapping labels; no label when nothing overlaps.
BestOverlap(indices, overlaps) ==
    LET touching == {i \in indices : overlaps[i].inter > 0}
        best     == {i \in touching : \A j \in touching : AtLeast(overlaps[i], overlaps[j])}
    IN  IF best = {} THEN NoLabel ELSE CHOOSE i \in best : \A j \in best : i <= j

Close(index, overlaps) == index # NoLabel /\ Half(overlaps[index])

-----------------------------------------------------------------------------
(* match_image *)

\* The members of S, highest score first; equal scores keep the order of the rows.
ByScore(rows, S) ==
    LET Before(i, j) == \/ rows[i].score > rows[j].score
                        \/ rows[i].score = rows[j].score /\ i < j
    IN  [k \in 1..Cardinality(S) |->
            CHOOSE i \in S : Cardinality({j \in S : Before(j, i)}) = k - 1]

Retained(predictions, threshold) ==
    ByScore(predictions, {i \in DOMAIN predictions : predictions[i].score >= threshold})

Outcome(available, same, any, overlaps) ==
    IF Close(available, overlaps) THEN "matched"
    ELSE IF Close(same, overlaps) THEN "duplicate"
    ELSE IF Close(any, overlaps) THEN "class_confusion"
    ELSE IF any # NoLabel THEN "partial_overlap"
    ELSE "no_overlap"

Taken(matches) == {m.label : m \in {matches[i] : i \in DOMAIN matches}} \ {NoLabel}

\* Slip: a label that has its match is offered again.
MatchNextAgain(truth, predictions, matches, p) ==
    LET overlaps == [i \in DOMAIN truth |-> Overlap(predictions[p].box, truth[i].box)]
        same     == {i \in DOMAIN truth : truth[i].category = predictions[p].category}
        best     == BestOverlap(same, overlaps)
        outcome  == Outcome(best, best, BestOverlap(DOMAIN truth, overlaps), overlaps)
    IN  Append(matches,
            [prediction |-> p, outcome |-> outcome,
             label |-> IF outcome = "matched" THEN best ELSE NoLabel])

MatchNext(truth, predictions, matches, p) ==
    LET overlaps  == [i \in DOMAIN truth |-> Overlap(predictions[p].box, truth[i].box)]
        same      == {i \in DOMAIN truth : truth[i].category = predictions[p].category}
        available == BestOverlap(same \ Taken(matches), overlaps)
        outcome   == Outcome(available, BestOverlap(same, overlaps),
                             BestOverlap(DOMAIN truth, overlaps), overlaps)
    IN  Append(matches,
            [prediction |-> p, outcome |-> outcome,
             label |-> IF outcome = "matched" THEN available ELSE NoLabel])

MatchImage(truth, predictions, threshold) ==
    LET order == Retained(predictions, threshold)
        upTo[k \in 0..Len(order)] ==
            IF k = 0 THEN <<>> ELSE MatchNext(truth, predictions, upTo[k - 1], order[k])
    IN  upTo[Len(order)]

Hits(matches) == {k \in DOMAIN matches : matches[k].outcome = "matched"}

\* A board is one validation image: [truth, predictions, matches].
Counts(boards, matchings) ==
    LET hits   == UNION {{b} \X Hits(matchings[b]) : b \in DOMAIN boards}
        alarms == UNION {{b} \X (DOMAIN matchings[b] \ Hits(matchings[b])) : b \in DOMAIN boards}
        missed == UNION {{b} \X (DOMAIN boards[b].truth \ Taken(matchings[b])) :
                         b \in DOMAIN boards}
    IN  [tp |-> Cardinality(hits), fp |-> Cardinality(alarms), fn |-> Cardinality(missed)]

\* analyze: the counts of one diagnostic profile.
Profile(boards, threshold) ==
    Counts(boards, [b \in DOMAIN boards |->
        MatchImage(boards[b].truth, boards[b].predictions, threshold)])

-----------------------------------------------------------------------------
(* qualification *)

\* prepare: one matching without a threshold.
Board(truth, predictions) ==
    [truth |-> truth, predictions |-> predictions,
     matches |-> MatchImage(truth, predictions, 0)]

MatchesAt(board, threshold) ==
    Picked(board.matches, {k \in DOMAIN board.matches :
                               board.predictions[board.matches[k].prediction].score >= threshold})

Labelled(boards) == {b \in DOMAIN boards : boards[b].truth # <<>>}

Flagged(boards, threshold) ==
    {b \in DOMAIN boards : MatchesAt(boards[b], threshold) # <<>>}

Point(boards, threshold) ==
    [counts  |-> Counts(boards, [b \in DOMAIN boards |-> MatchesAt(boards[b], threshold)]),
     flagged |-> Flagged(boards, threshold),
     escaped |-> Labelled(boards) \ Flagged(boards, threshold)]

Thresholds(boards) ==
    {0, 100} \cup UNION {{boards[b].predictions[m].score : m \in DOMAIN boards[b].predictions} :
                         b \in DOMAIN boards}

RowScore(boards, row) ==
    boards[row[1]].predictions[boards[row[1]].matches[row[2]].prediction].score

\* The matches of all boards as rows <<board, match>>, highest score first; equal scores
\* keep their order.
SweepRows(boards) ==
    LET all == UNION {{<<b, k>> : k \in DOMAIN boards[b].matches} : b \in DOMAIN boards}
        Precedes(x, y) == \/ x[1] < y[1]
                          \/ x[1] = y[1] /\ x[2] < y[2]
        Before(x, y) == \/ RowScore(boards, x) > RowScore(boards, y)
                        \/ RowScore(boards, x) = RowScore(boards, y) /\ Precedes(x, y)
    IN  [k \in 1..Cardinality(all) |->
            CHOOSE x \in all : Cardinality({y \in all : Before(y, x)}) = k - 1]

\* Slip: the sweep leaves the rows that score just the threshold to the next one.
RowsAbove(boards, threshold) ==
    LET rows == SweepRows(boards)
        passed == {k \in DOMAIN rows : \A j \in 1..k : RowScore(boards, rows[j]) > threshold}
    IN  {rows[k] : k \in passed}

\* The rows the sweep has passed at a threshold: it stops at the first that is below.
RowsAt(boards, threshold) ==
    LET rows == SweepRows(boards)
        passed == {k \in DOMAIN rows : \A j \in 1..k : RowScore(boards, rows[j]) >= threshold}
    IN  {rows[k] : k \in passed}

FrontierPoint(boards, threshold) ==
    LET rows    == RowsAt(boards, threshold)
        matched == {r \in rows : boards[r[1]].matches[r[2]].outcome = "matched"}
        labels  == UNION {{b} \X DOMAIN boards[b].truth : b \in DOMAIN boards}
    IN  [tp |-> Cardinality(matched), fp |-> Cardinality(rows \ matched),
         fn |-> Cardinality(labels) - Cardinality(matched),
         flagged |-> {r[1] : r \in rows}]

Frontier(boards) == [t \in Thresholds(boards) |-> FrontierPoint(boards, t)]

-----------------------------------------------------------------------------
(* audit_run *)

Precise(counts, floor) ==
    /\ counts.tp + counts.fp > 0
    /\ counts.tp * 100 >= floor * (counts.tp + counts.fp)

\* Recall first (the number of labels is fixed), then few false positives, then threshold.
Preferred(frontier, t, u) ==
    \/ frontier[t].tp > frontier[u].tp
    \/ frontier[t].tp = frontier[u].tp /\ frontier[t].fp < frontier[u].fp
    \/ frontier[t].tp = frontier[u].tp /\ frontier[t].fp = frontier[u].fp /\ t >= u

AtFloor(frontier, floor) ==
    {t \in DOMAIN frontier :
        /\ Precise(frontier[t], floor)
        /\ \A u \in DOMAIN frontier : Precise(frontier[u], floor) => Preferred(frontier, t, u)}

ZeroEscape(boards, frontier) ==
    LET eligible == {t \in DOMAIN frontier :
                        Labelled(boards) # {} /\ Labelled(boards) \subseteq frontier[t].flagged}
    IN  {t \in eligible : \A u \in eligible : u <= t}
=============================================================================
