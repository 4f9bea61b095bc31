------------------------- MODULE ReviewLedger_proofs -------------------------
(***************************************************************************)
(* Theorems about ReviewLedger for any board, any notes and decision files *)
(* and any tree of revisions.                                              *)
(*                                                                         *)
(* The argument: a revision is never changed (OldRevisions), so what is   *)
(* said of one is said once, when it is written, of its parent's cases and *)
(* the one step from them (Follows).  Each step moves a case by one        *)
(* observation or one decision, and a decision that counts all             *)
(* observations comes after all of them, wherever on the branch they were  *)
(* made (CasesSettled).                                                    *)
(***************************************************************************)
EXTENDS ReviewLedger, TLAPS

-----------------------------------------------------------------------------
(* The inductive invariant *)

\* Revisions are written on revisions that were there and readable.
TreeOK ==
    \A k \in DOMAIN revisions : revisions[k] # Torn =>
        /\ revisions[k].parent \in 0..(k - 1)
        /\ revisions[k].parent # 0 => Readable(revisions[k].parent)

\* Decisions are valid for their subject and counted what there was.
ValidCase(s, case) ==
    \A j \in DOMAIN case.decisions :
        /\ ValidResolution(s, case.decisions[j].resolution)
        /\ case.decisions[j].count <= Len(case.observations)

CasesValid ==
    \A k \in DOMAIN revisions : revisions[k] # Torn =>
        \A s \in DOMAIN CasesAt(k) : ValidCase(s, CasesAt(k)[s])

\* Every observation on the way to k was followed by a decision.
Settled(k, s) ==
    \A i \in Ancestry(k) :
        ObservedAt(i, s) => \E d \in Ancestry(k) : d > i /\ DecidedAt(d, s)

\* The last decision counted all observations.
UpToDate(case) ==
    case.decisions # <<>> /\ Last(case.decisions).count = Len(case.observations)

CasesSettled ==
    \A k \in DOMAIN revisions : revisions[k] # Torn =>
        \A s \in Subjects :
            UpToDate(CaseIn(k, s)) \/ CaseIn(k, s).observations = <<>> => Settled(k, s)

\* Candidates were derived from complete ledgers and the reviewed labels.
CandidatesDerived ==
    \A c \in candidates :
        /\ Readable(c.ledger)
        /\ AllResolved(CasesAt(c.ledger))
        /\ c.labels = Range(Entries(Original, CasesAt(c.ledger)))
        /\ c.rest # Frozen.rest => c.raced

DerivingReadable == deriving # Idle => Readable(deriving.parent)

\* Once its hash was compared, only a race can have changed the manifest.
HashHolds == deriving.step = "hashed" /\ ~ deriving.raced => manifest = Frozen

IInv ==
    /\ TypeOK /\ TreeOK /\ CasesValid /\ HistoryIsKept /\ CasesSettled
    /\ CandidatesDerived /\ DerivingReadable /\ HashHolds

LEMMA InitInv == Init => IInv
<1> SUFFICES ASSUME Init PROVE IInv
  OBVIOUS
<1>1. revisions = <<>> /\ DOMAIN revisions = {} /\ candidates = {} /\ deriving = Idle
  BY DEF Init
<1>2. TypeOK
  BY <1>1, ReviewAssumption DEF Init, TypeOK, Idle, Frozen
<1>3. TreeOK /\ CasesValid /\ HistoryIsKept /\ CasesSettled
  BY <1>1 DEF TreeOK, CasesValid, HistoryIsKept, CasesSettled
<1>4. CandidatesDerived /\ DerivingReadable /\ HashHolds
  BY <1>1 DEF CandidatesDerived, DerivingReadable, HashHolds, Idle
<1> QED
  BY <1>2, <1>3, <1>4 DEF IInv

-----------------------------------------------------------------------------
(* The ways of a revision *)

\* Parents lead to 0 without leaving 0..k.
LEMMA ParentBelow ==
    ASSUME TypeOK, TreeOK, NEW k \in 0..Len(revisions)
    PROVE  ParentAt(k) \in Nat /\ ParentAt(k) <= k
<1>1. DOMAIN revisions = 1..Len(revisions) /\ Len(revisions) \in Nat
  BY DEF TypeOK
<1>2. CASE k = 0 \/ revisions[k] = Torn
  BY <1>1, <1>2 DEF ParentAt
<1>3. CASE k # 0 /\ revisions[k] # Torn
  <2>1. revisions[k].parent \in 0..(k - 1)
    BY <1>1, <1>3 DEF TreeOK
  <2> QED
    BY <1>3, <2>1 DEF ParentAt
<1> QED
  BY <1>2, <1>3

\* Nobody wrote on a revision that was torn.
LEMMA AncestorsReadable ==
    ASSUME TypeOK, TreeOK, NEW k, k = 0 \/ Readable(k)
    PROVE  \A i \in Ancestry(k) : Readable(i)
<1> DEFINE path == {j \in 0..k : j = 0 \/ Readable(j)}
<1>1. DOMAIN revisions = 1..Len(revisions) /\ Len(revisions) \in Nat
  BY DEF TypeOK
<1>2. k \in 0..Len(revisions) /\ k \in path
  BY <1>1 DEF Readable
<1>3. ASSUME NEW j \in path
      PROVE  ParentAt(j) \in path
  <2>1. j \in 0..Len(revisions) /\ j <= k
    BY <1>1, <1>2
  <2>2. ParentAt(j) \in Nat /\ ParentAt(j) <= j
    BY <2>1, ParentBelow
  <2>3. ParentAt(j) = 0 \/ Readable(ParentAt(j))
    BY DEF ParentAt, Readable, TreeOK
  <2> QED
    BY <1>2, <2>1, <2>2, <2>3
<1>4. \A i \in Ancestry(k) : i \in path /\ i \in 1..k
  BY <1>2, <1>3 DEF Ancestry
<1> QED
  BY <1>2, <1>4

\* The way from k, for whatever maps a revision to its parent.
Way(parents, k) ==
    {i \in 1..k : \A path \in SUBSET (0..k) :
        k \in path /\ (\A j \in path : parents[j] \in path) => i \in path}

\* The way to k is k and the way to its parent.
LEMMA WayStep ==
    ASSUME NEW n \in Nat, NEW parents \in [0..n -> Nat],
           \A j \in 0..n : parents[j] <= j,
           NEW k \in 1..n
    PROVE  Way(parents, k) = {k} \cup Way(parents, parents[k])
<1> DEFINE p == parents[k]
           ClosedPath(path) == \A j \in path : parents[j] \in path
<1>1. p \in Nat /\ p <= k /\ k \in Nat /\ k > 0
  OBVIOUS
<1>2. \A m \in 0..n : \A j \in 0..m : parents[j] \in 0..m
  OBVIOUS
<1>3. ASSUME NEW i \in Way(parents, k), i # k
      PROVE  i \in Way(parents, p)
  <2>1. i \in 1..p
    <3>1. {k} \cup (0..p) \in SUBSET (0..k)
      BY <1>1
    <3>2. ClosedPath({k} \cup (0..p))
      BY <1>1, <1>2
    <3>3. i \in {k} \cup (0..p) /\ i \in 1..k
      BY <3>1, <3>2 DEF Way
    <3> QED
      BY <1>1, <1>3, <3>3
  <2>2. ASSUME NEW path \in SUBSET (0..p), p \in path, ClosedPath(path)
        PROVE  i \in path
    <3>1. {k} \cup path \in SUBSET (0..k)
      BY <1>1
    <3>2. k \in {k} \cup path /\ ClosedPath({k} \cup path)
      BY <2>2
    <3>3. i \in {k} \cup path
      BY <3>1, <3>2 DEF Way
    <3> QED
      BY <1>3, <3>3
  <2> QED
    BY <2>1, <2>2 DEF Way
<1>4. ASSUME NEW i \in Way(parents, p)
      PROVE  i \in Way(parents, k)
  <2>1. i \in 1..k /\ i \in 1..p
    BY <1>1 DEF Way
  <2>2. ASSUME NEW path \in SUBSET (0..k), k \in path, ClosedPath(path)
        PROVE  i \in path
    <3>1. path \cap (0..p) \in SUBSET (0..p) /\ p \in path \cap (0..p)
      BY <1>1, <2>2
    <3>2. ClosedPath(path \cap (0..p))
      BY <1>1, <1>2, <2>2
    <3>3. i \in path \cap (0..p)
      BY <3>1, <3>2 DEF Way
    <3> QED
      BY <3>3
  <2> QED
    BY <2>1, <2>2 DEF Way
<1>5. k \in Way(parents, k)
  BY <1>1 DEF Way
<1> QED
  BY <1>3, <1>4, <1>5

-----------------------------------------------------------------------------
(* Revisions are only added *)

LEMMA OldRevisions ==
    ASSUME TypeOK, TreeOK, NEW r, revisions' = Append(revisions, r)
    PROVE  /\ Len(revisions') = Len(revisions) + 1
           /\ DOMAIN revisions = 1..Len(revisions)
           /\ DOMAIN revisions' = 1..(Len(revisions) + 1)
           /\ \A k \in 1..Len(revisions) : revisions'[k] = revisions[k]
           /\ revisions'[Len(revisions) + 1] = r
           /\ \A k \in 0..Len(revisions) :
                 /\ CasesAt(k)' = CasesAt(k) /\ VersionAt(k)' = VersionAt(k)
                 /\ ParentAt(k)' = ParentAt(k)
                 /\ Readable(k)' = Readable(k)
                 /\ Ancestry(k)' = Ancestry(k)
                 /\ \A s : CaseIn(k, s)' = CaseIn(k, s)
<1> DEFINE n == Len(revisions)
<1>1. /\ n \in Nat /\ Len(revisions') = n + 1
      /\ DOMAIN revisions = 1..n /\ DOMAIN revisions' = 1..(n + 1)
      /\ \A k \in 1..n : revisions'[k] = revisions[k]
      /\ revisions'[n + 1] = r
  BY DEF TypeOK
<1> HIDE DEF n
<1>2. ASSUME NEW k \in 0..n
      PROVE  /\ CasesAt(k)' = CasesAt(k) /\ VersionAt(k)' = VersionAt(k)
             /\ ParentAt(k)' = ParentAt(k)
             /\ Readable(k)' = Readable(k)
  <2>1. k = 0 \/ k \in 1..n
    BY <1>1
  <2> QED
    BY <1>1, <2>1 DEF CasesAt, VersionAt, ParentAt, Readable
<1>3. ASSUME NEW k \in 0..n
      PROVE  Ancestry(k)' = Ancestry(k)
  <2>1. \A path \in SUBSET (0..k) : \A j \in path : ParentAt(j)' = ParentAt(j)
    BY <1>1, <1>2
  <2> QED
    BY <2>1 DEF Ancestry
<1>4. ASSUME NEW k \in 0..n, NEW s
      PROVE  CaseIn(k, s)' = CaseIn(k, s)
  BY <1>2 DEF CaseIn
<1> QED
  BY <1>1, <1>2, <1>3, <1>4 DEF n

-----------------------------------------------------------------------------
(* From a revision's cases to the next one's *)

WellFormed(cases) == DOMAIN cases \subseteq Subjects /\ cases \in [DOMAIN cases -> Case]

CaseOf(cases, s) == IF s \in DOMAIN cases THEN cases[s] ELSE NewCase

\* One import or one adjudication, seen by a case: nothing, one observation
\* that is new, or one decision that counts all observations.
Follows(old, new) ==
    \/ new = old
    \/ /\ new.decisions = old.decisions
       /\ \E o \in Observations : /\ o \notin ToSet(old.observations)
                                 /\ new.observations = Append(old.observations, o)
    \/ /\ new.observations = old.observations
       /\ \E d \in Decisions : /\ d.count = Len(old.observations)
                              /\ new.decisions = Append(old.decisions, d)

LEMMA CaseTyped ==
    ASSUME NEW cases, WellFormed(cases), NEW s
    PROVE  CaseOf(cases, s) \in Case
<1>1. NewCase \in Case
  BY DEF NewCase, Case
<1> QED
  BY <1>1 DEF CaseOf, WellFormed

LEMMA ObservedFollows ==
    ASSUME NEW cases, WellFormed(cases), NEW e \in Exports
    PROVE  /\ WellFormed(Observed(cases, e))
           /\ \A s \in Subjects : Follows(CaseOf(cases, s), CaseOf(Observed(cases, e), s))
<1> DEFINE new == Observed(cases, e)
           Note(s) == [reviewer |-> e.reviewer, note |-> e.notes[s]]
<1>1. DOMAIN new = DOMAIN cases \cup DOMAIN e.notes /\ DOMAIN new \subseteq Subjects
  BY ExportAssumption DEF Observed, WellFormed
<1>2. \A s \in DOMAIN e.notes : Note(s) \in Observations
  BY DEF Observations
<1>3. ASSUME NEW s \in DOMAIN new
      PROVE  new[s] \in Case /\ Follows(CaseOf(cases, s), new[s])
  <2> DEFINE old == CaseOf(cases, s)
  <2>1. old \in Case
    BY CaseTyped
  <2>2. CASE s \in DOMAIN e.notes /\ ~ Known(old, e.reviewer, e.notes[s])
    <3>1. new[s] = [old EXCEPT !.observations = Append(@, Note(s))]
      BY <1>1, <2>2 DEF Observed, CaseOf
    <3>2. new[s] \in Case
      <4>1. Append(old.observations, Note(s)) \in Seq(Observations)
        BY <1>2, <2>1, <2>2 DEF Case
      <4> QED
        BY <2>1, <3>1, <4>1 DEF Case
    <3>3. /\ new[s].decisions = old.decisions
          /\ new[s].observations = Append(old.observations, Note(s))
      BY <2>1, <3>1 DEF Case
    <3> QED
      BY <1>2, <2>2, <3>2, <3>3 DEF Follows, Known
  <2>3. CASE ~ (s \in DOMAIN e.notes /\ ~ Known(old, e.reviewer, e.notes[s]))
    <3>1. new[s] = old
      BY <1>1, <2>3 DEF Observed, CaseOf
    <3> QED
      BY <2>1, <3>1 DEF Follows
  <2> QED
    BY <2>2, <2>3
<1>4. WellFormed(new)
  <2>1. new = [s \in DOMAIN new |-> new[s]]
    BY <1>1 DEF Observed
  <2> QED
    BY <1>1, <1>3, <2>1 DEF WellFormed
<1>5. ASSUME NEW s \in Subjects
      PROVE  Follows(CaseOf(cases, s), CaseOf(new, s))
  <2>1. CASE s \in DOMAIN new
    BY <1>3, <2>1 DEF CaseOf
  <2>2. CASE s \notin DOMAIN new
    BY <1>1, <2>2 DEF CaseOf, Follows
  <2> QED
    BY <2>1, <2>2
<1> QED
  BY <1>4, <1>5

LEMMA DecidedFollows ==
    ASSUME NEW cases, WellFormed(cases), NEW b \in Batches
    PROVE  /\ WellFormed(Decided(cases, b))
           /\ \A s \in Subjects : Follows(CaseOf(cases, s), CaseOf(Decided(cases, b), s))
<1> DEFINE new == Decided(cases, b)
           Decision(s) == [resolution |-> b[s], count |-> Len(cases[s].observations)]
<1>1. DOMAIN new = DOMAIN cases /\ DOMAIN cases \subseteq Subjects
  BY DEF Decided, WellFormed
<1>2. ASSUME NEW s \in DOMAIN new
      PROVE  new[s] \in Case /\ Follows(CaseOf(cases, s), new[s])
  <2>1. CaseOf(cases, s) = cases[s] /\ cases[s] \in Case
    BY <1>1, CaseTyped DEF CaseOf
  <2>2. CASE s \in DOMAIN b
    <3>1. Decision(s) \in Decisions /\ Decision(s).count = Len(cases[s].observations)
      BY <2>1, <2>2 DEF Decisions, Case, Range
    <3>2. new[s] = [cases[s] EXCEPT !.decisions = Append(@, Decision(s))]
      BY <1>1, <2>2 DEF Decided
    <3>3. new[s] \in Case
      <4>1. Append(cases[s].decisions, Decision(s)) \in Seq(Decisions)
        BY <2>1, <3>1 DEF Case
      <4> QED
        BY <2>1, <3>2, <4>1 DEF Case
    <3>4. /\ new[s].observations = cases[s].observations
          /\ new[s].decisions = Append(cases[s].decisions, Decision(s))
      BY <2>1, <3>2 DEF Case
    <3> QED
      BY <2>1, <3>1, <3>3, <3>4 DEF Follows
  <2>3. CASE s \notin DOMAIN b
    <3>1. new[s] = cases[s]
      BY <1>1, <2>3 DEF Decided
    <3> QED
      BY <2>1, <3>1 DEF Follows
  <2> QED
    BY <2>2, <2>3
<1>3. WellFormed(new)
  <2>1. new = [s \in DOMAIN new |-> new[s]]
    BY <1>1 DEF Decided
  <2> QED
    BY <1>1, <1>2, <2>1 DEF WellFormed
<1>4. ASSUME NEW s \in Subjects
      PROVE  Follows(CaseOf(cases, s), CaseOf(new, s))
  BY <1>1, <1>2 DEF CaseOf, Follows
<1> QED
  BY <1>3, <1>4

\* Such a step erases nothing and repeats no observation; only a decision
\* brings a case up to date.
LEMMA FollowsKeeps ==
    ASSUME NEW old \in Case, NEW new \in Case, Follows(old, new)
    PROVE  /\ IsPrefix(old.observations, new.observations)
           /\ IsPrefix(old.decisions, new.decisions)
           /\ IsInjective(old.observations) => IsInjective(new.observations)
           /\ \/ new = old
              \/ Len(new.observations) = Len(old.observations) + 1
              \/ /\ new.observations = old.observations
                 /\ new.decisions # old.decisions
<1>1. /\ old.observations \in Seq(Observations) /\ new.observations \in Seq(Observations)
      /\ old.decisions \in Seq(Decisions) /\ new.decisions \in Seq(Decisions)
  BY DEF Case
<1>2. CASE new = old
  BY <1>1, <1>2 DEF IsPrefix
<1>3. CASE /\ new.decisions = old.decisions
           /\ \E o \in Observations : /\ o \notin ToSet(old.observations)
                                     /\ new.observations = Append(old.observations, o)
  <2>1. PICK o \in Observations : /\ o \notin ToSet(old.observations)
                                 /\ new.observations = Append(old.observations, o)
    BY <1>3
  <2>2. /\ Len(new.observations) = Len(old.observations) + 1
        /\ \A j \in DOMAIN old.observations : new.observations[j] = old.observations[j]
        /\ new.observations[Len(old.observations) + 1] = o
        /\ DOMAIN new.observations = DOMAIN old.observations \cup {Len(old.observations) + 1}
    BY <1>1, <2>1
  <2>3. IsPrefix(old.observations, new.observations)
    BY <1>1, <2>1 DEF IsPrefix
  <2>4. IsInjective(old.observations) => IsInjective(new.observations)
    BY <2>1, <2>2 DEF IsInjective, ToSet
  <2> QED
    BY <1>1, <1>3, <2>2, <2>3, <2>4 DEF IsPrefix
<1>4. CASE /\ new.observations = old.observations
           /\ \E d \in Decisions : /\ d.count = Len(old.observations)
                                  /\ new.decisions = Append(old.decisions, d)
  <2>1. PICK d \in Decisions : new.decisions = Append(old.decisions, d)
    BY <1>4
  <2>2. Len(new.decisions) = Len(old.decisions) + 1
    BY <1>1, <2>1
  <2> QED
    BY <1>1, <1>4, <2>1, <2>2 DEF IsPrefix
<1> QED
  BY <1>2, <1>3, <1>4 DEF Follows

-----------------------------------------------------------------------------
(* The new revision *)

LedgersOK ==
    /\ revisions \in Seq(Range(revisions))
    /\ \A k \in DOMAIN revisions : revisions[k] = Torn \/ IsLedger(revisions[k])
    /\ TreeOK /\ CasesValid /\ HistoryIsKept /\ CasesSettled

LEMMA CasesTyped ==
    ASSUME TypeOK, NEW k, k = 0 \/ Readable(k)
    PROVE  k \in 0..Len(revisions) /\ WellFormed(CasesAt(k))
<1>1. DOMAIN revisions = 1..Len(revisions) /\ Len(revisions) \in Nat
  BY DEF TypeOK
<1>2. CASE k = 0
  BY <1>1, <1>2 DEF CasesAt, WellFormed
<1>3. CASE k # 0 /\ Readable(k)
  BY <1>1, <1>3 DEF TypeOK, Readable, IsLedger, CasesAt, WellFormed
<1> QED
  BY <1>2, <1>3

LEMMA CaseInTyped ==
    ASSUME TypeOK, NEW k, k = 0 \/ Readable(k), NEW s
    PROVE  CaseIn(k, s) \in Case
BY CasesTyped, CaseTyped DEF CaseIn, CaseOf

\* A write changes nothing on the ways there were.
LEMMA OldAncestors ==
    ASSUME TypeOK, TreeOK, NEW r, revisions' = Append(revisions, r),
           NEW k, k = 0 \/ Readable(k), NEW i \in Ancestry(k), NEW s
    PROVE  /\ i \in 1..Len(revisions)
           /\ ObservedAt(i, s)' = ObservedAt(i, s) /\ DecidedAt(i, s)' = DecidedAt(i, s)
<1>1. DOMAIN revisions = 1..Len(revisions) /\ Len(revisions) \in Nat
  BY DEF TypeOK
<1>2. i \in 1..Len(revisions) /\ revisions[i] # Torn
  BY <1>1, AncestorsReadable DEF Readable
<1>3. revisions'[i] = revisions[i] /\ CaseIn(i, s)' = CaseIn(i, s)
  BY <1>1, <1>2, OldRevisions
<1>4. revisions[i].parent \in 0..Len(revisions)
  BY <1>1, <1>2 DEF TreeOK
<1>5. CaseIn(revisions[i].parent, s)' = CaseIn(revisions[i].parent, s)
  BY <1>3, <1>4, OldRevisions
<1> QED
  BY <1>2, <1>3, <1>5 DEF ObservedAt, DecidedAt

\* A case that is up to date after a step was settled before, or is decided in
\* the step; what the step observes leaves the case behind.
LEMMA NewSettled ==
    ASSUME IInv, NEW parent, parent = 0 \/ Readable(parent),
           NEW r, revisions' = Append(revisions, r), r # Torn, r.parent = parent,
           NEW s \in Subjects,
           NEW n, n = Len(revisions'),
           CaseIn(n, s)' \in Case,
           Follows(CaseIn(parent, s), CaseIn(n, s)'),
           ValidCase(s, CaseIn(parent, s)),
           UpToDate(CaseIn(n, s)') \/ CaseIn(n, s)'.observations = <<>>
    PROVE  Settled(n, s)'
<1> USE DEF IInv
<1> DEFINE old == CaseIn(parent, s)
           new == CaseIn(n, s)'
<1>1. /\ parent \in 0..Len(revisions) /\ n = Len(revisions) + 1 /\ Len(revisions) \in Nat
      /\ DOMAIN revisions = 1..Len(revisions)
  BY CasesTyped, OldRevisions DEF TypeOK
<1>2. /\ revisions'[n] = r /\ ParentAt(n)' = parent
      /\ \A k \in 1..Len(revisions) : revisions'[k] = revisions[k]
  BY <1>1, OldRevisions DEF ParentAt
<1>3. Ancestry(n)' = {n} \cup Ancestry(parent)
  <2> DEFINE parents == [j \in 0..n |-> ParentAt(j)']
  <2>1. \A j \in 0..n : parents[j] \in Nat /\ parents[j] <= j
    <3>1. \A j \in 0..Len(revisions) : ParentAt(j)' = ParentAt(j)
      BY OldRevisions
    <3>2. \A j \in 0..Len(revisions) : ParentAt(j) \in Nat /\ ParentAt(j) <= j
      BY ParentBelow
    <3> QED
      BY <1>1, <1>2, <3>1, <3>2
  <2>2. parents \in [0..n -> Nat] /\ n \in Nat /\ n \in 1..n /\ parents[n] = parent
    BY <1>1, <1>2, <2>1
  <2>3. \A k \in 0..n : Ancestry(k)' = Way(parents, k)
    <3>1. \A k \in 0..n : \A path \in SUBSET (0..k) : \A j \in path : parents[j] = ParentAt(j)'
      BY <1>1
    <3> QED
      BY <3>1 DEF Ancestry, Way
  <2> HIDE DEF parents
  <2>4. Way(parents, n) = {n} \cup Way(parents, parent)
    BY <2>1, <2>2, WayStep
  <2>5. Ancestry(parent)' = Ancestry(parent)
    BY <1>1, OldRevisions
  <2> QED
    BY <1>1, <2>2, <2>3, <2>4, <2>5
<1>4. old \in Case /\ CaseIn(parent, s)' = old
  BY <1>1, CaseInTyped, OldRevisions
<1>5. ObservedAt(n, s)' <=> new.observations # old.observations
  BY <1>2, <1>4 DEF ObservedAt
<1>6. DecidedAt(n, s)' <=> new.decisions # old.decisions
  BY <1>2, <1>4 DEF DecidedAt
<1>7. new = old \/ (new.observations = old.observations /\ new.decisions # old.decisions)
  <2>1. ASSUME Len(new.observations) = Len(old.observations) + 1
        PROVE  FALSE
    <3>1. /\ old.observations \in Seq(Observations) /\ new.observations \in Seq(Observations)
          /\ old.decisions \in Seq(Decisions)
      BY <1>4 DEF Case
    <3>2. new.observations # <<>>
      BY <2>1, <3>1
    <3>3. UpToDate(new) /\ new.decisions = old.decisions
      <4>1. Len(old.observations) \in Nat /\ new # old /\ new.observations # old.observations
        BY <2>1, <3>1
      <4>2. new.decisions = old.decisions
        BY <4>1 DEF Follows
      <4> QED
        BY <3>2, <4>2
    <3>4. Len(old.decisions) \in DOMAIN old.decisions
      BY <3>1, <3>3 DEF UpToDate
    <3>5. Last(old.decisions).count <= Len(old.observations)
          /\ Last(old.decisions).count \in Nat
      <4>1. old.decisions[Len(old.decisions)].count <= Len(old.observations)
        BY <3>4 DEF ValidCase
      <4>2. old.decisions[Len(old.decisions)] \in Decisions
        BY <3>1, <3>4
      <4> QED
        BY <4>1, <4>2 DEF Last, Decisions
    <3> QED
      BY <2>1, <3>1, <3>3, <3>5 DEF UpToDate
  <2> QED
    BY <1>4, <2>1, FollowsKeeps
<1>8. ~ ObservedAt(n, s)'
  BY <1>5, <1>7
<1>9. \A i \in Ancestry(parent) :
          /\ i < n
          /\ ObservedAt(i, s)' = ObservedAt(i, s) /\ DecidedAt(i, s)' = DecidedAt(i, s)
  BY <1>1, OldAncestors
<1>10. CASE new = old
  <2>1. Settled(parent, s)
    <3>1. CASE parent = 0
      BY <3>1 DEF Settled, Ancestry
    <3>2. CASE Readable(parent)
      BY <1>10, <3>2 DEF CasesSettled, Readable
    <3> QED
      BY <3>1, <3>2
  <2> QED
    BY <1>3, <1>8, <1>9, <2>1 DEF Settled
<1>11. CASE new.observations = old.observations /\ new.decisions # old.decisions
  BY <1>3, <1>6, <1>8, <1>9, <1>11 DEF Settled
<1> QED
  BY <1>7, <1>10, <1>11

\* Steps to valid cases of a readable parent.
Steps(cases, next) ==
    /\ WellFormed(next)
    /\ \A s \in Subjects : Follows(CaseOf(cases, s), CaseOf(next, s))
    /\ \A s \in DOMAIN next : ValidCase(s, next[s])

\* What is said of the revisions survives a write, whole or torn.
LEMMA WriteKeeps ==
    ASSUME IInv, NEW parent, parent = 0 \/ Readable(parent),
           NEW next, Steps(CasesAt(parent), next), Write(parent, next)
    PROVE  LedgersOK'
<1> USE DEF IInv
<1> PICK n \in Nat : n = Len(revisions) + 1
  BY DEF TypeOK
<1> DEFINE ledger == [version |-> VersionAt(parent) + 1, parent |-> parent, cases |-> next]
<1>1. PICK r \in {ledger, Torn} : revisions' = Append(revisions, r)
  BY DEF Write
<1>2. /\ Len(revisions) \in Nat /\ Len(revisions') = n
      /\ DOMAIN revisions = 1..Len(revisions) /\ DOMAIN revisions' = 1..n
      /\ \A k \in 1..Len(revisions) : revisions'[k] = revisions[k]
      /\ revisions'[n] = r
  BY <1>1, OldRevisions DEF TypeOK
<1>3. parent \in 0..Len(revisions) /\ WellFormed(CasesAt(parent))
  BY CasesTyped
<1>4. r # Torn => /\ r = ledger /\ r.parent = parent
                 /\ CasesAt(n)' = next
                 /\ \A s \in Subjects : CaseIn(n, s)' = CaseOf(next, s)
  BY <1>1, <1>2 DEF CasesAt, CaseIn, CaseOf
<1>5. IsLedger(ledger)
  <2>1. VersionAt(parent) \in Nat
    BY DEF VersionAt, Readable, TypeOK, IsLedger
  <2> QED
    BY <1>2, <1>3, <2>1 DEF IsLedger, Steps, WellFormed
<1>6. \A s \in Subjects :
          /\ CaseIn(parent, s) = CaseOf(CasesAt(parent), s)
          /\ CaseIn(parent, s) \in Case /\ CaseOf(next, s) \in Case
          /\ Follows(CaseIn(parent, s), CaseOf(next, s))
          /\ CaseIn(parent, s)' = CaseIn(parent, s)
  BY <1>1, <1>3, CaseTyped, OldRevisions DEF CaseIn, CaseOf, Steps
<1>7. \A k \in 1..n : k # n => /\ k \in 1..Len(revisions) /\ CasesAt(k)' = CasesAt(k)
                               /\ \A s : CaseIn(k, s)' = CaseIn(k, s)
  <2>1. \A k \in 1..n : k # n => k \in 0..Len(revisions) /\ k \in 1..Len(revisions)
    BY <1>2
  <2> QED
    BY <1>1, <2>1, OldRevisions
<1>8. (revisions \in Seq(Range(revisions)))'
  BY <1>1, <1>2 DEF TypeOK, Range
<1>9. (\A k \in DOMAIN revisions : revisions[k] = Torn \/ IsLedger(revisions[k]))'
  BY <1>1, <1>2, <1>5, <1>7 DEF TypeOK, IsLedger
<1>10. TreeOK'
  <2> SUFFICES ASSUME NEW k \in 1..n, revisions'[k] # Torn
               PROVE  /\ revisions'[k].parent \in 0..(k - 1)
                      /\ revisions'[k].parent # 0 => Readable(revisions[k].parent)'
    BY <1>2 DEF TreeOK
  <2>1. \A p \in Nat : Readable(p) => Readable(p)'
    BY <1>2 DEF Readable
  <2>2. CASE k = n
    BY <1>2, <1>3, <1>4, <2>1, <2>2
  <2>3. CASE k # n
    BY <1>2, <1>7, <2>1, <2>3 DEF TreeOK
  <2> QED
    BY <2>2, <2>3
<1>11. CasesValid'
  <2> SUFFICES ASSUME NEW k \in 1..n, revisions'[k] # Torn, NEW s \in DOMAIN CasesAt(k)'
               PROVE  ValidCase(s, CasesAt(k)'[s])
    BY <1>2 DEF CasesValid
  <2>1. CASE k = n
    BY <1>2, <1>4, <2>1 DEF Steps
  <2>2. CASE k # n
    BY <1>2, <1>7, <2>2 DEF CasesValid
  <2> QED
    BY <2>1, <2>2
<1>12. HistoryIsKept'
  <2> SUFFICES ASSUME NEW k \in 1..n, revisions'[k] # Torn, NEW s \in Subjects
               PROVE  LET old == CaseIn(revisions[k].parent, s)'
                          new == CaseIn(k, s)'
                      IN  /\ IsPrefix(old.observations, new.observations)
                          /\ IsPrefix(old.decisions, new.decisions)
                          /\ IsInjective(new.observations)
    BY <1>2 DEF HistoryIsKept
  <2>1. CASE k = n
    <3>1. IsInjective(CaseIn(parent, s).observations)
      <4>1. CASE parent = 0
        BY <4>1 DEF CaseIn, CasesAt, NewCase, IsInjective
      <4>2. CASE Readable(parent)
        BY <4>2 DEF HistoryIsKept, Readable
      <4> QED
        BY <4>1, <4>2
    <3> QED
      BY <1>2, <1>4, <1>6, <2>1, <3>1, FollowsKeeps
  <2>2. CASE k # n
    <3>1. k \in 1..Len(revisions) /\ revisions'[k] = revisions[k]
      BY <1>2, <1>7, <2>2
    <3>2. revisions[k].parent \in 0..Len(revisions)
      BY <1>2, <3>1 DEF TreeOK
    <3>3. CaseIn(revisions[k].parent, s)' = CaseIn(revisions[k].parent, s)
      BY <1>1, <3>1, <3>2, OldRevisions
    <3> QED
      BY <1>2, <1>7, <2>2, <3>1, <3>3 DEF HistoryIsKept
  <2> QED
    BY <2>1, <2>2
<1>13. CasesSettled'
  <2> SUFFICES ASSUME NEW k \in 1..n, revisions'[k] # Torn, NEW s \in Subjects,
                      UpToDate(CaseIn(k, s)') \/ CaseIn(k, s)'.observations = <<>>
               PROVE  Settled(k, s)'
    BY <1>2 DEF CasesSettled
  <2>1. CASE k = n
    <3>1. ValidCase(s, CaseIn(parent, s))
      <4>1. CASE s \in DOMAIN CasesAt(parent)
        <5>1. Readable(parent)
          BY <4>1 DEF CasesAt
        <5> QED
          BY <4>1, <5>1 DEF CasesValid, Readable, CaseIn
      <4>2. CASE s \notin DOMAIN CasesAt(parent)
        BY <4>2 DEF CaseIn, NewCase, ValidCase
      <4> QED
        BY <4>1, <4>2
    <3> QED
      BY <1>1, <1>2, <1>4, <1>6, <2>1, <3>1, NewSettled
  <2>2. CASE k # n
    <3>1. k \in 1..Len(revisions) /\ revisions[k] # Torn /\ CaseIn(k, s)' = CaseIn(k, s)
      BY <1>2, <1>7, <2>2
    <3>2. Settled(k, s)
      BY <1>2, <3>1 DEF CasesSettled
    <3>3. k = 0 \/ Readable(k)
      BY <1>2, <3>1 DEF Readable
    <3>4. Ancestry(k)' = Ancestry(k)
      BY <1>1, <3>1, OldRevisions
    <3>5. \A i \in Ancestry(k) :
             ObservedAt(i, s)' = ObservedAt(i, s) /\ DecidedAt(i, s)' = DecidedAt(i, s)
      BY <1>1, <3>3, OldAncestors
    <3> QED
      BY <3>2, <3>4, <3>5 DEF Settled
  <2> QED
    BY <2>1, <2>2
<1> QED
  BY <1>8, <1>9, <1>10, <1>11, <1>12, <1>13 DEF LedgersOK

-----------------------------------------------------------------------------
(* import and adjudicate *)

LEMMA ObservedValid ==
    ASSUME NEW cases, WellFormed(cases), \A s \in DOMAIN cases : ValidCase(s, cases[s]),
           NEW e \in Exports
    PROVE  \A s \in DOMAIN Observed(cases, e) : ValidCase(s, Observed(cases, e)[s])
<1> TAKE s \in DOMAIN Observed(cases, e)
<1> DEFINE old == CaseOf(cases, s)
           new == Observed(cases, e)[s]
           n == [reviewer |-> e.reviewer, note |-> e.notes[s]]
<1>1. old \in Case /\ ValidCase(s, old)
  BY CaseTyped DEF CaseOf, NewCase, ValidCase
<1>2. new = old \/ new = [old EXCEPT !.observations = Append(@, n)]
  BY DEF Observed, CaseOf
<1>3. /\ new.decisions = old.decisions
      /\ new.observations = old.observations \/ new.observations = Append(old.observations, n)
  BY <1>1, <1>2 DEF Case
<1>4. Len(old.observations) \in Nat /\ Len(old.observations) <= Len(new.observations)
      /\ Len(new.observations) \in Nat
  BY <1>1, <1>3 DEF Case
<1>5. \A j \in DOMAIN old.decisions : old.decisions[j].count \in Nat
  <2>1. old.decisions \in Seq(Decisions)
    BY <1>1 DEF Case
  <2>2. \A j \in DOMAIN old.decisions : old.decisions[j] \in Decisions
    BY <2>1
  <2> QED
    BY <2>2 DEF Decisions
<1> HIDE DEF old, new
<1> QED
  BY <1>1, <1>3, <1>4, <1>5 DEF ValidCase, new

LEMMA DecidedValid ==
    ASSUME NEW cases, WellFormed(cases), \A s \in DOMAIN cases : ValidCase(s, cases[s]),
           NEW b \in Batches, \A s \in DOMAIN b : ValidResolution(s, b[s])
    PROVE  \A s \in DOMAIN Decided(cases, b) : ValidCase(s, Decided(cases, b)[s])
<1> TAKE s \in DOMAIN Decided(cases, b)
<1> DEFINE old == cases[s]
           new == Decided(cases, b)[s]
           d == [resolution |-> b[s], count |-> Len(old.observations)]
<1>1. s \in DOMAIN cases /\ old \in Case /\ ValidCase(s, old)
  BY DEF Decided, WellFormed
<1>2. CASE s \in DOMAIN b
  <2>1. new = [old EXCEPT !.decisions = Append(@, d)]
    BY <1>1, <1>2 DEF Decided
  <2>2. /\ new.observations = old.observations
        /\ new.decisions = Append(old.decisions, d)
        /\ old.decisions \in Seq(Decisions) /\ Len(old.observations) \in Nat
    BY <1>1, <2>1 DEF Case
  <2>3. ASSUME NEW j \in DOMAIN new.decisions
        PROVE  new.decisions[j] = d \/ (j \in DOMAIN old.decisions
                                         /\ new.decisions[j] = old.decisions[j])
    BY <2>2
  <2>4. ValidResolution(s, d.resolution) /\ d.count <= Len(old.observations)
    BY <1>2, <2>2
  <2> HIDE DEF old, new, d
  <2> QED
    BY <1>1, <2>2, <2>3, <2>4 DEF ValidCase, new
<1>3. CASE s \notin DOMAIN b
  BY <1>1, <1>3 DEF Decided
<1> QED
  BY <1>2, <1>3

\* The revisions that candidates and the invocation at work rest on stay.
LEMMA ReadersKept ==
    ASSUME IInv, NEW r, revisions' = Append(revisions, r), UNCHANGED <<candidates, deriving>>
    PROVE  CandidatesDerived' /\ DerivingReadable'
<1> USE DEF IInv
<1>1. \A k : Readable(k) => /\ k \in 0..Len(revisions) /\ Readable(k)'
                          /\ CasesAt(k)' = CasesAt(k)
  <2>1. \A k : Readable(k) => k \in 0..Len(revisions)
    BY CasesTyped
  <2> QED
    BY <2>1, OldRevisions
<1>2. CandidatesDerived'
  BY <1>1 DEF CandidatesDerived
<1>3. DerivingReadable'
  BY <1>1 DEF DerivingReadable
<1> QED
  BY <1>2, <1>3

LEMMA WriteInv ==
    ASSUME IInv, NEW parent, parent = 0 \/ Readable(parent),
           NEW next, Steps(CasesAt(parent), next), Write(parent, next)
    PROVE  IInv'
<1>1. LedgersOK'
  BY WriteKeeps
<1>2. PICK r : revisions' = Append(revisions, r)
  BY DEF Write
<1>3. UNCHANGED <<candidates, manifest, deriving, edits>> /\ torn' \in 0..MaxTorn
  BY ReviewAssumption DEF Write, IInv, TypeOK
<1>4. TypeOK'
  BY <1>1, <1>3 DEF IInv, TypeOK, LedgersOK
<1>5. CandidatesDerived' /\ DerivingReadable' /\ HashHolds'
  BY <1>2, <1>3, ReadersKept DEF IInv, HashHolds
<1> QED
  BY <1>1, <1>4, <1>5 DEF IInv, LedgersOK

\* The cases an invocation starts from are valid.
LEMMA ParentValid ==
    ASSUME IInv, NEW parent, parent = 0 \/ Readable(parent)
    PROVE  WellFormed(CasesAt(parent))
           /\ \A s \in DOMAIN CasesAt(parent) : ValidCase(s, CasesAt(parent)[s])
<1>1. WellFormed(CasesAt(parent))
  BY CasesTyped DEF IInv
<1>2. CASE parent = 0
  BY <1>1, <1>2 DEF CasesAt
<1>3. CASE Readable(parent)
  BY <1>1, <1>3 DEF IInv, CasesValid, Readable
<1> QED
  BY <1>2, <1>3

LEMMA ImportInv ==
    ASSUME IInv, NEW e \in Exports, NEW parent, Import(e, parent)
    PROVE  IInv'
<1>1. parent = 0 \/ Readable(parent)
  BY DEF Import
<1>2. Steps(CasesAt(parent), Observed(CasesAt(parent), e))
  BY <1>1, ParentValid, ObservedFollows, ObservedValid DEF Steps
<1> QED
  BY <1>1, <1>2, WriteInv DEF Import

LEMMA AdjudicateInv ==
    ASSUME IInv, NEW b \in Batches, NEW parent, Adjudicate(b, parent)
    PROVE  IInv'
<1>1. Readable(parent) /\ \A s \in DOMAIN b : ValidResolution(s, b[s])
  BY DEF Adjudicate
<1>2. Steps(CasesAt(parent), Decided(CasesAt(parent), b))
  BY <1>1, ParentValid, DecidedFollows, DecidedValid DEF Steps
<1> QED
  BY <1>1, <1>2, WriteInv DEF Adjudicate

-----------------------------------------------------------------------------
(* candidate, and edits of the manifest *)

\* Steps that leave the revisions alone.
LEMMA RevisionsAlone ==
    ASSUME IInv, UNCHANGED revisions
    PROVE  LedgersOK'
<1> USE DEF IInv
<1>1. \A k : Readable(k)' = Readable(k) /\ CasesAt(k)' = CasesAt(k) /\ ParentAt(k)' = ParentAt(k)
  BY DEF Readable, CasesAt, ParentAt
<1>2. \A k : Ancestry(k)' = Ancestry(k)
  BY <1>1 DEF Ancestry
<1>3. \A k, s : CaseIn(k, s)' = CaseIn(k, s)
  BY <1>1 DEF CaseIn
<1>4. \A k, s : ObservedAt(k, s)' = ObservedAt(k, s) /\ DecidedAt(k, s)' = DecidedAt(k, s)
  BY <1>3 DEF ObservedAt, DecidedAt
<1>5. \A k, s : Settled(k, s)' = Settled(k, s)
  BY <1>2, <1>4 DEF Settled
<1>6. TreeOK' /\ CasesValid'
  BY <1>1 DEF TreeOK, CasesValid
<1>7. HistoryIsKept' /\ CasesSettled'
  BY <1>3, <1>5 DEF HistoryIsKept, CasesSettled
<1> QED
  BY <1>6, <1>7 DEF LedgersOK, TypeOK

LEMMA CandidateStepInv ==
    ASSUME IInv,
           \/ \E parent \in 0..Len(revisions) : StartCandidate(parent)
           \/ HashManifest \/ CrashCandidate \/ EditManifest \/ UNCHANGED vars
    PROVE  IInv'
<1> USE DEF IInv
<1>1. UNCHANGED <<revisions, candidates>>
  BY DEF StartCandidate, HashManifest, CrashCandidate, EditManifest, vars
<1>2. LedgersOK'
  BY <1>1, RevisionsAlone
<1>3. \A k : Readable(k)' = Readable(k) /\ CasesAt(k)' = CasesAt(k)
  BY <1>1 DEF Readable, CasesAt
<1>4. /\ deriving' \in [step : {"idle", "verified", "hashed"}, parent : Nat, raced : BOOLEAN]
      /\ DerivingReadable' /\ HashHolds'
  <2>1. CASE \E parent \in 0..Len(revisions) : StartCandidate(parent)
    <3>1. PICK parent \in 0..Len(revisions) :
             Readable(parent) /\ deriving' = [Idle EXCEPT !.step = "verified", !.parent = parent]
      BY <2>1 DEF StartCandidate
    <3>2. deriving' = [step |-> "verified", parent |-> parent, raced |-> FALSE]
      BY <3>1 DEF Idle
    <3>3. parent \in Nat
      <4>1. Len(revisions) \in Nat
        BY DEF TypeOK
      <4> QED
        BY <3>1, <4>1
    <3>4. /\ deriving'.step = "verified" /\ deriving'.parent = parent
          /\ deriving' \in [step : {"idle", "verified", "hashed"}, parent : Nat,
                            raced : BOOLEAN]
      BY <3>2, <3>3
    <3> QED
      BY <1>3, <3>1, <3>4 DEF DerivingReadable, HashHolds
  <2>2. CASE HashManifest
    <3>1. deriving # Idle
      BY <2>2 DEF HashManifest, Idle
    <3>2. deriving' = Idle \/ (deriving' = [deriving EXCEPT !.step = "hashed"]
                                /\ manifest' = Frozen)
      BY <2>2 DEF HashManifest
    <3>3. CASE deriving' = Idle
      BY <3>3 DEF DerivingReadable, HashHolds, Idle
    <3>4. CASE deriving' = [deriving EXCEPT !.step = "hashed"] /\ manifest' = Frozen
      BY <1>3, <3>1, <3>4 DEF DerivingReadable, HashHolds, TypeOK
    <3> QED
      BY <3>2, <3>3, <3>4
  <2>3. CASE CrashCandidate
    BY <2>3 DEF CrashCandidate, DerivingReadable, HashHolds, Idle
  <2>4. CASE EditManifest
    <3>1. deriving' = IF deriving.step = "hashed" THEN [deriving EXCEPT !.raced = TRUE]
                                                  ELSE deriving
      BY <2>4 DEF EditManifest
    <3>2. CASE deriving.step = "hashed"
      <4>1. deriving' = [deriving EXCEPT !.raced = TRUE]
        BY <3>1, <3>2
      <4>2. /\ deriving'.step = "hashed" /\ deriving'.parent = deriving.parent
            /\ deriving'.raced = TRUE
            /\ deriving' \in [step : {"idle", "verified", "hashed"}, parent : Nat,
                              raced : BOOLEAN]
        BY <3>2, <4>1 DEF TypeOK
      <4>3. deriving # Idle
        BY <3>2 DEF Idle
      <4> QED
        BY <1>3, <4>2, <4>3 DEF DerivingReadable, HashHolds
    <3>3. CASE deriving.step # "hashed"
      BY <1>3, <3>1, <3>3 DEF DerivingReadable, HashHolds, TypeOK
    <3> QED
      BY <3>2, <3>3
  <2>5. CASE UNCHANGED vars
    BY <1>3, <2>5 DEF vars, DerivingReadable, HashHolds, TypeOK
  <2> QED
    BY <2>1, <2>2, <2>3, <2>4, <2>5
<1>5. /\ manifest' \in [reviewed : {Original, Edited}, rest : {0, 1}]
      /\ edits' \in 0..MaxEdits /\ torn' \in 0..MaxTorn
  <2>1. CASE EditManifest
    BY <2>1, ReviewAssumption DEF TypeOK, EditManifest
  <2>2. CASE \E parent \in 0..Len(revisions) : StartCandidate(parent)
    BY <2>2 DEF TypeOK, StartCandidate
  <2>3. CASE HashManifest
    BY <2>3 DEF TypeOK, HashManifest
  <2>4. CASE CrashCandidate
    BY <2>4, ReviewAssumption DEF TypeOK, CrashCandidate
  <2>5. CASE UNCHANGED vars
    BY <2>5 DEF TypeOK, vars
  <2> QED
    BY <2>1, <2>2, <2>3, <2>4, <2>5
<1>6. CandidatesDerived'
  BY <1>1, <1>3 DEF CandidatesDerived
<1> QED
  BY <1>2, <1>4, <1>5, <1>6 DEF TypeOK, LedgersOK

LEMMA FinishInv ==
    ASSUME IInv, FinishCandidate
    PROVE  IInv'
<1> USE DEF IInv
<1>1. UNCHANGED <<revisions, manifest, edits, torn>> /\ deriving' = Idle
  BY DEF FinishCandidate
<1>2. LedgersOK'
  BY <1>1, RevisionsAlone
<1>3. TypeOK' /\ DerivingReadable' /\ HashHolds'
  BY <1>1, <1>2 DEF TypeOK, LedgersOK, DerivingReadable, HashHolds, Idle
<1>4. Readable(deriving.parent)
  BY DEF FinishCandidate, DerivingReadable, Idle
<1>5. ASSUME NEW c \in candidates', c \notin candidates
      PROVE  /\ c.ledger = deriving.parent
             /\ AllResolved(CasesAt(deriving.parent))
             /\ c.labels = Range(Entries(Original, CasesAt(deriving.parent)))
             /\ c.rest # Frozen.rest => c.raced
  BY <1>5 DEF FinishCandidate, Acceptable, HashHolds, TypeOK
<1>6. CandidatesDerived'
  BY <1>1, <1>4, <1>5 DEF CandidatesDerived, Readable, CasesAt
<1> QED
  BY <1>2, <1>3, <1>6 DEF LedgersOK

-----------------------------------------------------------------------------
(* The theorems *)

LEMMA StepInv == IInv /\ [Next]_vars => IInv'
<1> SUFFICES ASSUME IInv, [Next]_vars PROVE IInv'
  OBVIOUS
<1>1. CASE \E parent \in 0..Len(revisions) : \E e \in Exports : Import(e, parent)
  BY <1>1, ImportInv
<1>2. CASE \E parent \in 0..Len(revisions) : \E b \in Batches : Adjudicate(b, parent)
  BY <1>2, AdjudicateInv
<1>3. CASE \/ \E parent \in 0..Len(revisions) : StartCandidate(parent)
           \/ HashManifest \/ CrashCandidate \/ EditManifest \/ UNCHANGED vars
  BY <1>3, CandidateStepInv
<1>4. CASE FinishCandidate
  BY <1>4, FinishInv
<1> QED
  BY <1>1, <1>2, <1>3, <1>4 DEF Next

\* Every reachable state satisfies the inductive invariant.
THEOREM Invariance == Spec => []IInv
BY InitInv, StepInv, PTL DEF Spec

\* The variables have their types; ledgers have cases of subjects only.
THEOREM TypeCorrect == Spec => []TypeOK
<1>1. IInv => TypeOK
  BY DEF IInv
<1> QED
  BY <1>1, Invariance, PTL

\* Along every branch nothing is erased and no observation recorded twice.
THEOREM HistoryKept == Spec => []HistoryIsKept
<1>1. IInv => HistoryIsKept
  BY DEF IInv
<1> QED
  BY <1>1, Invariance, PTL

\* No candidate rests on a decision older than an observation of its case,
\* wherever on the branch the two were written.
THEOREM Current == Spec => []CandidateIsCurrent
<1>1. ASSUME IInv, NEW c \in candidates, NEW s \in Subjects
      PROVE  Settled(c.ledger, s)
  <2> DEFINE cases == CasesAt(c.ledger)
  <2>1. Readable(c.ledger) /\ AllResolved(cases)
    BY <1>1 DEF IInv, CandidatesDerived
  <2>2. CASE s \in DOMAIN cases
    <3>1. UpToDate(CaseIn(c.ledger, s))
      BY <2>1, <2>2 DEF AllResolved, Status, UpToDate, CaseIn
    <3> QED
      BY <1>1, <2>1, <3>1 DEF IInv, CasesSettled, Readable
  <2>3. CASE s \notin DOMAIN cases
    <3>1. CaseIn(c.ledger, s).observations = <<>>
      BY <2>3 DEF CaseIn, NewCase
    <3> QED
      BY <1>1, <2>1, <3>1 DEF IInv, CasesSettled, Readable
  <2> QED
    BY <2>2, <2>3
<1>2. IInv => CandidateIsCurrent
  BY <1>1 DEF CandidateIsCurrent, Settled
<1> QED
  BY <1>2, Invariance, PTL

\* What a complete ledger with valid decisions says of a subject.
LEMMA ResolutionValid ==
    ASSUME NEW cases, WellFormed(cases), AllResolved(cases),
           \A s \in DOMAIN cases : ValidCase(s, cases[s]),
           NEW s \in Subjects
    PROVE  /\ s \in DOMAIN cases => ValidResolution(s, Resolution(cases, s))
           /\ s \notin DOMAIN cases => Resolution(cases, s)
                                         = [action |-> "keep_label", label |-> NoLabel]
<1>1. ASSUME s \in DOMAIN cases
      PROVE  ValidResolution(s, Resolution(cases, s))
  <2>1. cases[s].decisions # <<>> /\ cases[s].decisions \in Seq(Decisions)
    BY <1>1 DEF AllResolved, Status, WellFormed, Case
  <2>2. Len(cases[s].decisions) \in DOMAIN cases[s].decisions
    BY <2>1
  <2> QED
    BY <1>1, <2>2 DEF ValidCase, Resolution, Last
<1> QED
  BY <1>1 DEF Resolution

\* The entries of the labels that were reviewed, by what was decided on them.
LEMMA EntriesFollow ==
    ASSUME NEW cases, WellFormed(cases), AllResolved(cases),
           \A s \in DOMAIN cases : ValidCase(s, cases[s])
    PROVE  LET labels == Range(Entries(Original, cases)) IN
           /\ \A l \in labels \ Range(Original) :
                 \E s \in DOMAIN cases : Resolution(cases, s).label = l
           /\ \A i \in DOMAIN Original :
                 Original[i] \notin labels
                    <=> /\ Resolution(cases, <<"annotation", i>>).action
                              \in {"remove_label", "correct_label"}
                        /\ \A s \in DOMAIN cases :
                              Resolution(cases, s).label # Original[i]
<1> DEFINE R(s) == Resolution(cases, s)
           annotated == {"annotation"} \X DOMAIN Original
           kept  == {s \in annotated : R(s).action # "remove_label"}
           added == {s \in DOMAIN cases : R(s).action = "add_label"}
           Entry(s) == IF R(s).label # NoLabel THEN R(s).label ELSE Original[s[2]]
           labels == Range(Entries(Original, cases))
<1>1. labels = {Entry(s) : s \in kept \cup added}
  BY DEF Entries, Range
<1>2. DOMAIN cases \subseteq Subjects /\ annotated \subseteq Subjects
      /\ \A s \in Subjects \ annotated : s[1] = "prediction"
  BY DEF WellFormed, Subjects
<1>3. ASSUME NEW s \in annotated
      PROVE  /\ R(s).action # "add_label"
             /\ R(s).label # NoLabel
                   => s \in DOMAIN cases /\ R(s).action = "correct_label"
             /\ R(s).action = "correct_label" => R(s).label # NoLabel
             /\ s \notin DOMAIN cases => R(s).action = "keep_label"
             /\ s \in DOMAIN cases => R(s).action \in {"keep_label", "correct_label",
                                                      "remove_label", "needs_reference"}
  <2>1. s \in Subjects /\ s[1] = "annotation"
    BY <1>2
  <2> QED
    BY <2>1, ResolutionValid DEF ValidResolution, Actions
<1>4. ASSUME NEW s \in DOMAIN cases, s \notin annotated
      PROVE  R(s).label # NoLabel <=> R(s).action = "add_label"
  <2>1. s \in Subjects /\ s[1] # "annotation"
    BY <1>2, <1>4
  <2> QED
    BY <2>1, ResolutionValid DEF ValidResolution, Actions
<1>5. /\ \A i \in DOMAIN Original : <<"annotation", i>> \in annotated
      /\ \A s \in annotated : s[2] \in DOMAIN Original /\ s = <<"annotation", s[2]>>
  OBVIOUS
<1> HIDE DEF R, labels, annotated
<1>6. ASSUME NEW l \in labels
      PROVE  \/ \E s \in DOMAIN cases : R(s).label = l
             \/ \E s \in kept : R(s).label = NoLabel /\ l = Original[s[2]]
  <2>1. PICK s \in kept \cup added : l = Entry(s)
    BY <1>1
  <2>2. CASE R(s).label # NoLabel
    BY <1>3, <2>1, <2>2
  <2>3. CASE R(s).label = NoLabel
    BY <1>3, <1>4, <2>1, <2>3
  <2> QED
    BY <2>2, <2>3
<1>7. ASSUME NEW i \in DOMAIN Original, Original[i] \notin labels
      PROVE  /\ R(<<"annotation", i>>).action \in {"remove_label", "correct_label"}
             /\ \A s \in DOMAIN cases : R(s).label # Original[i]
  <2> DEFINE s == <<"annotation", i>>
  <2>1. R(s).action \in {"remove_label", "correct_label"}
    <3>1. s \in annotated /\ s[2] = i
      BY <1>5
    <3>2. s \in kept => Original[i] # Entry(s)
      BY <1>1, <1>7
    <3> QED
      BY <1>3, <3>1, <3>2
  <2>2. ASSUME NEW t \in DOMAIN cases, R(t).label = Original[i]
        PROVE  FALSE
    <3>1. R(t).label # NoLabel
      BY <2>2, ReviewAssumption DEF Range
    <3>2. t \in kept \cup added
      BY <1>3, <1>4, <3>1
    <3> QED
      BY <1>1, <1>7, <2>2, <3>1, <3>2
  <2> QED
    BY <2>1, <2>2
<1>8. ASSUME NEW i \in DOMAIN Original,
             R(<<"annotation", i>>).action \in {"remove_label", "correct_label"},
             \A s \in DOMAIN cases : R(s).label # Original[i],
             Original[i] \in labels
      PROVE  FALSE
  <2>1. PICK s \in kept : R(s).label = NoLabel /\ Original[i] = Original[s[2]]
    BY <1>6, <1>8
  <2>2. s \in annotated /\ s = <<"annotation", i>>
    BY <1>5, <2>1, ReviewAssumption DEF IsInjective
  <2> QED
    BY <1>3, <1>8, <2>1, <2>2
<1>9. ASSUME NEW l \in labels, l \notin Range(Original)
      PROVE  \E s \in DOMAIN cases : R(s).label = l
  BY <1>5, <1>6, <1>9 DEF Range
<1> QED
  BY <1>7, <1>8, <1>9 DEF R, labels

\* On the reviewed board a candidate is the reviewed labels and the decisions,
\* whatever became of the manifest; elsewhere it is the release, unless the
\* manifest was edited between the last comparison of its hash and its reading.
THEOREM FollowsReview == Spec => []CandidateFollowsReview
<1>1. ASSUME IInv, NEW c \in candidates
      PROVE  LET cases == CasesAt(c.ledger) IN
             /\ WellFormed(cases) /\ AllResolved(cases)
             /\ \A s \in DOMAIN cases : ValidCase(s, cases[s])
             /\ c.labels = Range(Entries(Original, cases))
             /\ c.rest # Frozen.rest => c.raced
  <2>1. Readable(c.ledger)
    BY <1>1 DEF IInv, CandidatesDerived
  <2> QED
    BY <1>1, <2>1, ParentValid DEF IInv, CandidatesDerived
<1>2. IInv => CandidateFollowsReview
  BY <1>1, EntriesFollow DEF CandidateFollowsReview
<1> QED
  BY <1>2, Invariance, PTL
=============================================================================
