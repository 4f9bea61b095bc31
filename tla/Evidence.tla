------------------------------ MODULE Evidence ------------------------------
(***************************************************************************)
(* What is read off a finished run: the evidence of ml/summarize.py, the   *)
(* error analysis (ml/error_analysis.py) and the audit of operating points *)
(* (ml/qualification.py), each written once, at any time after training.   *)
(***************************************************************************)
EXTENDS Training

VARIABLES
    analysis,    \* the diagnostic profiles: threshold -> counts
    audit        \* [points, frontier, floors, zeroEscape]

vars == <<releaseVars, runVars, analysis, audit>>

Diagnostics == {5, 25, 50}
AuditPoints == {5, 25, 50, 75, 90, 95}
Floors      == {50, 80, 90, 95}

\* summarize() returns evidence instead of raising.
Summarized ==
    /\ \A file \in {"checkpoint", "summary", "history", "best", "validation"} : Readable(file)
    /\ files.failure = Absent /\ ~config.smoke
    /\ Accepted(files.checkpoint)
    /\ files.validation.checkpoint.state = files.state
    /\ files.best.predictions = files.validation.predictions
    /\ files.history[Selected(config, files.history)].score = files.best.score

Saved == Boards(files.best.predictions)

Analyze ==
    /\ analysis = Absent /\ Summarized /\ SameRelease
    /\ analysis' = [t \in Diagnostics |-> Profile(Saved, t)]
    /\ UNCHANGED <<releaseVars, runVars, audit>>

Audit ==
    LET frontier == Frontier(Saved)
    IN  /\ audit = Absent /\ Summarized /\ SameRelease
        /\ audit' = [points     |-> [t \in AuditPoints |-> Point(Saved, t)],
                     frontier   |-> frontier,
                     floors     |-> [f \in Floors |-> AtFloor(frontier, f)],
                     zeroEscape |-> ZeroEscape(Saved, frontier)]
        /\ UNCHANGED <<releaseVars, runVars, analysis>>

EvidenceInit == ReleaseInit /\ Init /\ analysis = Absent /\ audit = Absent

\* BOUND: once a run begins the release is complete and nobody is at work on it.  Of later
\* edits those to the manifest are followed, as any other can but make verify_release
\* refuse, and only between the end of the run, as evaluations are refused before, and the
\* first analysis.
Released ==
    \/ pc = "waiting" /\ (Prepare \/ EditManifest)
    \/ pc = "done" /\ analysis = Absent /\ audit = Absent /\ EditManifest

Next ==
    \/ Released /\ UNCHANGED <<runVars, analysis, audit>>
    \/ (Train \/ Evaluate) /\ UNCHANGED <<releaseVars, analysis, audit>>
    \/ Analyze \/ Audit

Spec == EvidenceInit /\ [][Next]_vars

-----------------------------------------------------------------------------
(* Properties *)

\* One matching serves every threshold: the audit matches once, without a threshold, and
\* cuts that matching; the analysis matches anew for each threshold; the frontier sweeps
\* through the scores.  All three count the same hits, false alarms and misses, equal
\* scores and overlapping labels included (match_image, point, frontier).
ThresholdsAgree ==
    audit # Absent =>
        LET boards == Saved
        IN  /\ \A t \in AuditPoints : audit.points[t].counts = Profile(boards, t)
            /\ \A t \in DOMAIN audit.frontier :
                 LET p == audit.frontier[t]
                 IN  [tp |-> p.tp, fp |-> p.fp, fn |-> p.fn] = Profile(boards, t)
            /\ analysis # Absent => \A t \in Diagnostics : analysis[t] = audit.points[t].counts

\* The operating points the audit names are the best there are at ANY threshold, not only
\* at those the sweep stops at: nothing as precise finds more labels, no higher threshold
\* leaves every labelled board flagged, and the named ones keep what they promise.
NamedAreBest(thresholds) ==
    audit # Absent =>
        LET boards     == Saved
            Safe(t)    == \A b \in Labelled(boards) : Retained(boards[b].predictions, t) # <<>>
        IN  \A t \in thresholds :
              LET found == Profile(boards, t)
              IN  /\ \A f \in Floors : Precise(found, f) =>
                       \E best \in audit.floors[f] :
                           /\ audit.frontier[best].tp >= found.tp
                           /\ Precise(Profile(boards, best), f)
                  /\ Labelled(boards) # {} =>
                       (Safe(t) <=> \E z \in audit.zeroEscape : t <= z)

\* At thresholds below, at, between and above the scores of the instance.
NamedPointsAreBest == NamedAreBest({0, 40, 45, 50, 60, 75, 90, 100})

=============================================================================
