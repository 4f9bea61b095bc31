---------------------------- MODULE ReviewLedger ----------------------------
(***************************************************************************)
(* Review of a model run's labels (ml/adjudication.py).  Reviewers export  *)
(* notes on annotations and predictions; an import collects them as cases  *)
(* of a ledger; an adjudicator decides cases; once all are resolved a      *)
(* candidate manifest may be derived.  Each invocation writes a new        *)
(* directory and none is ever changed, so revisions form a tree: two       *)
(* invocations may start from the same parent.                             *)
(*                                                                         *)
(* One board stands for the reviewed split, `rest` for everything else in  *)
(* the manifest.  A label is a class with its box.                         *)
(***************************************************************************)
EXTENDS Integers, Sequences, FiniteSets, SequencesExt

CONSTANTS
    Original,      \* labels of the reviewed board, in manifest order
    Edited,        \* labels it may have after somebody edits the manifest
    Predictions,   \* false positives of the model on that board
    NoLabel,       \* Resolution.annotation is None
    Exports,       \* notes files: [reviewer, notes: subject -> note]
    Batches,       \* decision files: subject -> [action, label]
    MaxRevisions,  \* BOUND on ledger directories
    MaxCandidates, \* BOUND on candidates written
    MaxEdits,      \* BOUND on edits of the manifest, none of them undone
    MaxTorn        \* BOUND on invocations that die while they write

Subjects == ({"annotation"} \X DOMAIN Original) \cup ({"prediction"} \X Predictions)

Torn   == [torn |-> TRUE]
Frozen == [reviewed |-> Original, rest |-> 0]
Idle   == [step |-> "idle", parent |-> 0, raced |-> FALSE]

ASSUME ReviewAssumption ==
    /\ IsInjective(Original) /\ NoLabel \notin Range(Original)
    /\ MaxRevisions \in Nat /\ MaxCandidates \in Nat
    /\ MaxEdits \in Nat /\ MaxTorn \in Nat

\* validate_note refuses a note on anything else.
ASSUME ExportAssumption == \A e \in Exports : DOMAIN e.notes \subseteq Subjects

VARIABLES
    revisions,    \* ledger.json of each directory: [version, parent, cases]
    candidates,   \* HISTORY: [ledger, labels, rest, raced] of each candidate written
    manifest,     \* the manifest file: [reviewed, rest]
    deriving,     \* the `candidate` invocation at work: [step, parent, raced];
                  \* raced is HISTORY: an edit came after it compared the hash
    edits, torn   \* what the bounds count

vars == <<revisions, candidates, manifest, deriving, edits, torn>>

Init ==
    /\ revisions = <<>> /\ candidates = {}
    /\ manifest = Frozen /\ deriving = Idle
    /\ edits = 0 /\ torn = 0

-----------------------------------------------------------------------------
(* Revisions *)

\* load_ledger: a directory whose ledger.json is missing, cut short or fails
\* its checksum is of no use to anybody.
Readable(k) == k \in DOMAIN revisions /\ revisions[k] # Torn

\* Without --previous an import starts from nothing.
CasesAt(k)   == IF k = 0 THEN <<>> ELSE revisions[k].cases
VersionAt(k) == IF k = 0 THEN 0 ELSE revisions[k].version

\* build_payload refuses to work once the manifest differs from the release.
ReviewVerified == manifest = Frozen

\* mkdir refuses a directory that exists, so every write is a new revision; it
\* may stop between mkdir and the end of ledger.json.
Write(parent, cases) ==
    /\ Len(revisions) < MaxRevisions
    /\ \/ /\ revisions' = Append(revisions, [version |-> VersionAt(parent) + 1,
                                             parent |-> parent, cases |-> cases])
          /\ UNCHANGED torn
       \/ /\ torn < MaxTorn /\ torn' = torn + 1
          /\ revisions' = Append(revisions, Torn)
    /\ UNCHANGED <<candidates, manifest, deriving, edits>>

-----------------------------------------------------------------------------
(* import *)

NewCase == [observations |-> <<>>, decisions |-> <<>>]

\* Slip: a repeated note counts as known only if it is the latest one.
KnownLast(case, reviewer, note) ==
    /\ case.observations # <<>>
    /\ Last(case.observations) = [reviewer |-> reviewer, note |-> note]

\* The same reviewer already said exactly this.
Known(case, reviewer, note) ==
    [reviewer |-> reviewer, note |-> note] \in ToSet(case.observations)

\* import_notes: what the notes file e adds to `cases`.
Observed(cases, e) ==
    [s \in DOMAIN cases \cup DOMAIN e.notes |->
        LET case == IF s \in DOMAIN cases THEN cases[s] ELSE NewCase IN
        IF s \in DOMAIN e.notes /\ ~ Known(case, e.reviewer, e.notes[s])
        THEN [case EXCEPT !.observations =
                Append(@, [reviewer |-> e.reviewer, note |-> e.notes[s]])]
        ELSE case]

\* "No new observations; repeated imports are idempotent": no revision.
Import(e, parent) ==
    /\ parent = 0 \/ Readable(parent)
    /\ ReviewVerified
    /\ Observed(CasesAt(parent), e) # CasesAt(parent)
    /\ Write(parent, Observed(CasesAt(parent), e))

-----------------------------------------------------------------------------
(* adjudicate *)

Actions(s) ==
    IF s[1] = "annotation"
    THEN {"keep_label", "correct_label", "remove_label", "needs_reference"}
    ELSE {"add_label", "dismiss_prediction", "needs_reference"}

ValidResolution(s, r) ==
    /\ r.action \in Actions(s)
    /\ (r.action \in {"correct_label", "add_label"}) = (r.label # NoLabel)

\* Each decision records how many observations the case had.
Decided(cases, b) ==
    [s \in DOMAIN cases |->
        IF s \in DOMAIN b
        THEN [cases[s] EXCEPT !.decisions =
                Append(@, [resolution |-> b[s],
                           count |-> Len(cases[s].observations)])]
        ELSE cases[s]]

Adjudicate(b, parent) ==
    /\ Readable(parent)
    /\ ReviewVerified
    /\ DOMAIN b \subseteq DOMAIN CasesAt(parent)
    /\ \A s \in DOMAIN b : ValidResolution(s, b[s])
    /\ Write(parent, Decided(CasesAt(parent), b))

-----------------------------------------------------------------------------
(* candidate *)

\* Slip: the last decision counts whatever was observed since.
StatusOfLast(case) ==
    IF case.decisions = <<>> THEN "pending"
    ELSE IF Last(case.decisions).resolution.action = "needs_reference"
         THEN "needs_reference" ELSE "resolved"

Status(case) ==
    IF \/ case.decisions = <<>>
       \/ Last(case.decisions).count # Len(case.observations)
    THEN "pending"
    ELSE IF Last(case.decisions).resolution.action = "needs_reference"
         THEN "needs_reference" ELSE "resolved"

AllResolved(cases) ==
    DOMAIN cases # {} /\ \A s \in DOMAIN cases : Status(cases[s]) = "resolved"

Resolution(cases, s) ==
    IF s \in DOMAIN cases THEN Last(cases[s].decisions).resolution
    ELSE [action |-> "keep_label", label |-> NoLabel]

\* The labels after all decisions, by the subject each belongs to: an edit is
\* looked up by the label's index in the manifest, never by its new position.
Entries(labels, cases) ==
    LET kept  == {s \in {"annotation"} \X DOMAIN labels :
                    Resolution(cases, s).action # "remove_label"}
        added == {s \in DOMAIN cases : Resolution(cases, s).action = "add_label"}
    IN  [s \in kept \cup added |->
           LET r == Resolution(cases, s)
           IN  IF r.label # NoLabel THEN r.label ELSE labels[s[2]]]

\* What candidate() insists on once the manifest m is read: the boards are as
\* reviewed, something changes, every correction changes its label and no
\* label comes twice.
Acceptable(m, cases) ==
    /\ m.reviewed = Original
    /\ \E s \in DOMAIN cases :
          Resolution(cases, s).action \notin {"keep_label", "dismiss_prediction"}
    /\ \A s \in DOMAIN cases :
          Resolution(cases, s).action = "correct_label"
             => Resolution(cases, s).label # Original[s[2]]
    /\ IsInjective(Entries(m.reviewed, cases))

\* build_payload and load_ledger: the boards come from the manifest as of now.
StartCandidate(parent) ==
    /\ deriving = Idle
    /\ Cardinality(candidates) < MaxCandidates
    /\ Readable(parent)
    /\ ReviewVerified
    /\ deriving' = [Idle EXCEPT !.step = "verified", !.parent = parent]
    /\ UNCHANGED <<revisions, candidates, manifest, edits, torn>>

\* Slip: the manifest is not compared again.
HashUnchecked ==
    /\ deriving.step = "verified"
    /\ deriving' = [deriving EXCEPT !.step = "hashed"]
    /\ UNCHANGED <<revisions, candidates, manifest, edits, torn>>

\* "Manifest changed after review verification"
HashManifest ==
    /\ deriving.step = "verified"
    /\ deriving' = IF manifest = Frozen THEN [deriving EXCEPT !.step = "hashed"]
                                        ELSE Idle
    /\ UNCHANGED <<revisions, candidates, manifest, edits, torn>>

\* The file is read once more after its hash was compared; then candidate()
\* refuses, or writes all of what it read, corrected, to candidate-manifest.json,
\* beside corrections.json with the hash that was compared.
FinishCandidate ==
    /\ deriving.step = "hashed"
    /\ deriving' = Idle
    /\ LET cases == CasesAt(deriving.parent) IN
       candidates' =
          IF AllResolved(cases) /\ Acceptable(manifest, cases)
          THEN candidates \cup {[ledger |-> deriving.parent,
                                 labels |-> Range(Entries(manifest.reviewed, cases)),
                                 rest   |-> manifest.rest,
                                 raced  |-> deriving.raced]}
          ELSE candidates
    /\ UNCHANGED <<revisions, manifest, edits, torn>>

CrashCandidate ==
    /\ deriving # Idle /\ torn < MaxTorn
    /\ deriving' = Idle /\ torn' = torn + 1
    /\ UNCHANGED <<revisions, candidates, manifest, edits>>

\* Somebody edits the file, on the reviewed board or elsewhere.
EditManifest ==
    /\ edits < MaxEdits
    /\ edits' = edits + 1
    /\ manifest' \in {[reviewed |-> Edited, rest |-> 0], [reviewed |-> Original, rest |-> 1]}
    /\ deriving' = IF deriving.step = "hashed" THEN [deriving EXCEPT !.raced = TRUE]
                                               ELSE deriving
    /\ UNCHANGED <<revisions, candidates, torn>>

-----------------------------------------------------------------------------
Next ==
    \/ \E parent \in 0..Len(revisions) :
          \/ \E e \in Exports : Import(e, parent)
          \/ \E b \in Batches : Adjudicate(b, parent)
          \/ StartCandidate(parent)
    \/ HashManifest \/ FinishCandidate \/ CrashCandidate \/ EditManifest

Spec == Init /\ [][Next]_vars

-----------------------------------------------------------------------------
(* Properties *)

\* The variables have their types; a ledger has cases of subjects only.
Observations ==
    UNION {{[reviewer |-> e.reviewer, note |-> e.notes[s]] : s \in DOMAIN e.notes}
              : e \in Exports}

Decisions == [resolution : UNION {Range(b) : b \in Batches}, count : Nat]

Case == [observations : Seq(Observations), decisions : Seq(Decisions)]

IsLedger(l) ==
    /\ l.version \in Nat /\ l.parent \in Nat
    /\ DOMAIN l.cases \subseteq Subjects
    /\ l.cases \in [DOMAIN l.cases -> Case]

TypeOK ==
    /\ revisions \in Seq(Range(revisions))
    /\ \A k \in DOMAIN revisions : revisions[k] = Torn \/ IsLedger(revisions[k])
    /\ manifest \in [reviewed : {Original, Edited}, rest : {0, 1}]
    /\ deriving \in [step : {"idle", "verified", "hashed"}, parent : Nat, raced : BOOLEAN]
    /\ edits \in 0..MaxEdits /\ torn \in 0..MaxTorn

\* The revisions that led to k, k included: whatever has k, and with each
\* revision its parent, has them.
ParentAt(k) == IF k = 0 \/ revisions[k] = Torn THEN 0 ELSE revisions[k].parent

Ancestry(k) ==
    {i \in 1..k : \A path \in SUBSET (0..k) :
        k \in path /\ (\A j \in path : ParentAt(j) \in path) => i \in path}

CaseIn(k, s) == IF s \in DOMAIN CasesAt(k) THEN CasesAt(k)[s] ELSE NewCase

ObservedAt(k, s) ==
    CaseIn(k, s).observations # CaseIn(revisions[k].parent, s).observations

DecidedAt(k, s) ==
    CaseIn(k, s).decisions # CaseIn(revisions[k].parent, s).decisions

\* A candidate rests on human decisions that come, for every subject, after
\* the last import that said something new about it: an observation made
\* since a decision reopens the case (adjudication.py, status).
CandidateIsCurrent ==
    \A c \in candidates : \A s \in Subjects : \A i \in Ancestry(c.ledger) :
        ObservedAt(i, s) => \E d \in Ancestry(c.ledger) : d > i /\ DecidedAt(d, s)

\* A candidate differs from what was reviewed by its decisions: on the reviewed
\* board a label that is gone was removed or corrected, and a new one was given by
\* a decision, whatever happened to the manifest meanwhile.  Everything else is as
\* in the release, unless the manifest was edited in the instant between its hash
\* and its last reading (adjudication.py:509, :511): such an edit does reach
\* candidate-manifest.json, under a corrections.json that does not know of it.
CandidateFollowsReview ==
    \A c \in candidates : LET cases == CasesAt(c.ledger) IN
        /\ \A l \in c.labels \ Range(Original) :
              \E s \in DOMAIN cases : Resolution(cases, s).label = l
        /\ \A i \in DOMAIN Original :
              Original[i] \notin c.labels
                 <=> /\ Resolution(cases, <<"annotation", i>>).action
                           \in {"remove_label", "correct_label"}
                     /\ \A s \in DOMAIN cases : Resolution(cases, s).label # Original[i]
        /\ c.rest # Frozen.rest => c.raced

\* Along every branch nothing is erased, and an old notes file imported again
\* reopens no case: no reviewer's note is ever recorded twice.
HistoryIsKept ==
    \A k \in DOMAIN revisions : revisions[k] # Torn =>
        \A s \in Subjects :
            LET old == CaseIn(revisions[k].parent, s) IN
            LET new == CaseIn(k, s) IN
            /\ IsPrefix(old.observations, new.observations)
            /\ IsPrefix(old.decisions, new.decisions)
            /\ IsInjective(new.observations)
=============================================================================
