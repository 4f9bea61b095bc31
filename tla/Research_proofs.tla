--------------------------- MODULE Research_proofs ---------------------------
(***************************************************************************)
(* Theorems about releases, training, evaluation, audit and candidate      *)
(* review, for every archive, every set of configurations, every schedule  *)
(* of passes and every result of inference.                                *)
(*                                                                         *)
(* The argument, for a candidate (CandidateInv): the times of a reviewer's *)
(* batches rise, so the batch found by the code is the last he imported on *)
(* a case; a forest joins its links one by one (JoinsOneByOne), so its     *)
(* classes are the components of those links in whatever order they come.  *)
(*                                                                         *)
(* For a run (RunInv): what it trains on comes from a manifest that was    *)
(* built from reviews and verified (ReleaseInv, TrainingData); the plan is *)
(* followed view by view (TurnInv); one row is written for each pass       *)
(* (HistoryInv, RowsInv), and state, best and checkpoint belong to those   *)
(* rows (MarkInv); so a summary is beside files that an evaluator accepts, *)
(* and what it evaluates is what was selected (SelectInv).                 *)
(*                                                                         *)
(* For the audit (BestInv, AuditInv): matching in descending score never   *)
(* revises what it said, so the matching at a threshold is the beginning   *)
(* of the matching without one (MatchingCut); between two scores nothing   *)
(* changes (NextThreshold), so the points at the scores stand for all      *)
(* thresholds.                                                             *)
(*                                                                         *)
(* What the models compute by recursion has its defining equation by       *)
(* LeastOf and RecursionExists: a least counterexample takes the place of  *)
(* induction.                                                              *)
(***************************************************************************)
EXTENDS Evidence, CandidateReview, WellFoundedInduction, FiniteSetTheorems, TLAPS

-----------------------------------------------------------------------------
(* Finite recursion, and find and join *)

\* A set of naturals has a least member: the one use of well-foundedness, from
\* which every recursion below follows.
LEMMA LeastOf ==
    ASSUME NEW T, T \subseteq Nat, T # {}
    PROVE  \E n \in T : \A m \in T : n <= m
<1>1. IsWellFoundedOn(OpToRel(<, Nat), Nat)
  BY NatLessThanWellFounded
<1>2. PICK n \in T : \A m \in T : ~ (<<m, n>> \in OpToRel(<, Nat))
  BY <1>1, WFMin
<1>3. \A m \in T : ~(m < n)
  BY <1>2 DEF OpToRel
<1>4. n \in Nat /\ \A m \in T : m \in Nat
  OBVIOUS
<1> QED
  BY <1>3, <1>4

\* The parent tables of a union-find whose links never point upwards.
Trees(ids) == {p \in [ids -> ids] : \A v \in ids : p[v] <= v}

\* The function that find computes exists on these members.
FindOn(parent, S) ==
    \E f : f = [v \in S |-> IF parent[v] = v THEN v ELSE f[parent[v]]]

LEMMA FindExists ==
    ASSUME NEW N \in Nat, NEW ids, \A v \in ids : v \in Nat /\ v <= N, NEW parent \in Trees(ids)
    PROVE  FindOn(parent, ids)
<1> DEFINE Below(m) == {w \in ids : w <= m}
           T == {m \in Nat : ~ FindOn(parent, Below(m))}
<1>1. SUFFICES T = {}
  <2>1. Below(N) = ids
    OBVIOUS
  <2> QED
    BY <2>1
<1>2. SUFFICES ASSUME NEW m \in T, \A k \in T : m <= k
               PROVE  FALSE
  <2>1. T \subseteq Nat
    OBVIOUS
  <2> HIDE DEF T
  <2> QED
    BY <2>1, LeastOf
<1> DEFINE S == Below(m - 1)
           R == Below(m)
<1>3. PICK f : f = [v \in S |-> IF parent[v] = v THEN v ELSE f[parent[v]]]
  <2>1. CASE m = 0
    <3>1. S = {}
      BY <2>1
    <3> HIDE DEF S
    <3> QED
      BY <3>1
  <2>2. CASE m # 0
    <3>1. m - 1 \in Nat /\ ~ (m <= m - 1)
      BY <2>2
    <3>2. FindOn(parent, S)
      BY <3>1, <1>2
    <3> HIDE DEF S
    <3> QED
      BY <3>2 DEF FindOn
  <2> QED
    BY <2>1, <2>2
<1>4. S \subseteq R /\ \A v \in R : parent[v] = v \/ parent[v] \in S
  BY DEF Trees
<1> DEFINE g == [v \in R |-> IF parent[v] = v THEN v ELSE f[parent[v]]]
<1>5. g = [v \in R |-> IF parent[v] = v THEN v ELSE g[parent[v]]]
  <2> HIDE DEF S, R
  <2>1. \A v \in S : f[v] = g[v]
    BY <1>3, <1>4
  <2> QED
    BY <2>1, <1>4
<1> HIDE DEF g
<1>6. FindOn(parent, R)
  BY <1>5 DEF FindOn
<1> QED
  BY <1>6

\* The root obeys the equation of find (candidate_manifest.py).
LEMMA RootIs ==
    ASSUME NEW N \in Nat, NEW ids, \A v \in ids : v \in Nat /\ v <= N, NEW parent \in Trees(ids),
           NEW i \in ids
    PROVE  Root(parent, i) = IF parent[i] = i THEN i ELSE Root(parent, parent[i])
<1>0. DOMAIN parent = ids /\ parent[i] \in ids
  BY DEF Trees
<1> DEFINE find == CHOOSE f : f = [v \in ids |-> IF parent[v] = v THEN v ELSE f[parent[v]]]
<1>1. find = [v \in ids |-> IF parent[v] = v THEN v ELSE find[parent[v]]]
  <2>1. FindOn(parent, ids)
    BY FindExists
  <2> QED
    BY <2>1 DEF FindOn
<1>2. \A v \in ids: Root(parent, v) = find[v]
  BY <1>0 DEF Root
<1> HIDE DEF find
<1> QED
  BY <1>0, <1>1, <1>2

\* A root is a member, not above what it is the root of, and its own parent.
LEMMA RootOf ==
    ASSUME NEW N \in Nat, NEW ids, \A v \in ids : v \in Nat /\ v <= N, NEW parent \in Trees(ids)
    PROVE  \A i \in ids : /\ Root(parent, i) \in ids
                          /\ Root(parent, i) <= i
                          /\ parent[Root(parent, i)] = Root(parent, i)
                          /\ parent[i] = i => Root(parent, i) = i
<1> DEFINE Good(i) == /\ Root(parent, i) \in ids
                      /\ Root(parent, i) <= i
                      /\ parent[Root(parent, i)] = Root(parent, i)
                      /\ parent[i] = i => Root(parent, i) = i
           T == {i \in ids : ~ Good(i)}
<1>1. SUFFICES T = {}
  OBVIOUS
<1>2. SUFFICES ASSUME NEW m \in T, \A k \in T : m <= k
               PROVE  FALSE
  <2>1. T \subseteq Nat
    OBVIOUS
  <2> HIDE DEF T
  <2> QED
    BY <2>1, LeastOf
<1>3. m \in ids /\ ~ Good(m) /\ \A k \in ids : k < m => Good(k)
  BY <1>2
<1>4. parent[m] \in ids /\ parent[m] <= m
  BY <1>3 DEF Trees
<1>5. Root(parent, m) = IF parent[m] = m THEN m ELSE Root(parent, parent[m])
  BY <1>3, RootIs
<1>6. parent[m] # m => Good(parent[m])
  BY <1>3, <1>4
<1> QED
  BY <1>3, <1>4, <1>5, <1>6

\* A join gives the two classes one root and leaves every other class alone.
LEMMA JoinRoots ==
    ASSUME NEW N \in Nat, NEW ids, \A v \in ids : v \in Nat /\ v <= N, NEW parent \in Trees(ids),
           NEW link \in ids \X ids
    PROVE  /\ Join(parent, link) \in Trees(ids)
           /\ \E kept \in {Root(parent, link[1]), Root(parent, link[2])} :
                \A i \in ids :
                  Root(Join(parent, link), i) =
                     IF Root(parent, i) \in {Root(parent, link[1]), Root(parent, link[2])}
                     THEN kept ELSE Root(parent, i)
<1> DEFINE a == Root(parent, link[1])
           b == Root(parent, link[2])
           J == Join(parent, link)
<1>1. PICK lo \in {a, b}, hi \in {a, b} :
         /\ {lo, hi} = {a, b} /\ lo <= hi /\ lo \in ids /\ hi \in ids
         /\ J = [parent EXCEPT ![hi] = lo]
         /\ parent[lo] = lo /\ parent[hi] = hi
  <2>1. a \in ids /\ b \in ids /\ parent[a] = a /\ parent[b] = b
    BY RootOf
  <2>2. J = IF a < b THEN [parent EXCEPT ![b] = a] ELSE [parent EXCEPT ![a] = b]
    BY DEF Join
  <2> HIDE DEF a, b, J
  <2>3. CASE a < b
    BY <2>1, <2>2, <2>3
  <2>4. CASE ~ (a < b)
    <3>1. b <= a
      BY <2>1, <2>4
    <3> QED
      BY <2>1, <2>2, <2>4, <3>1
  <2> QED
    BY <2>3, <2>4
<1>2. J \in Trees(ids)
  BY <1>1 DEF Trees
<1> HIDE DEF J
<1> DEFINE Good(i) == Root(J, i) = IF Root(parent, i) \in {lo, hi} THEN lo ELSE Root(parent, i)
           T == {i \in ids : ~ Good(i)}
<1>3. T = {}
  <2>1. SUFFICES ASSUME NEW m \in T, \A k \in T : m <= k
                 PROVE  FALSE
    <3>1. T \subseteq Nat
      OBVIOUS
    <3> HIDE DEF T
    <3> QED
      BY <3>1, LeastOf
  <2>2. m \in ids /\ \A k \in ids : k < m => Good(k)
    BY <2>1
  <2>3. /\ Root(J, m) = IF J[m] = m THEN m ELSE Root(J, J[m])
        /\ Root(parent, m) = IF parent[m] = m THEN m ELSE Root(parent, parent[m])
    BY <2>2, <1>2, RootIs
  <2>4. parent[m] \in ids /\ parent[m] <= m /\ J[m] = IF m = hi THEN lo ELSE parent[m]
    BY <1>1, <2>2 DEF Trees
  <2>5. Root(J, lo) = lo
    <3>1. J[lo] = lo
      BY <1>1 DEF Trees
    <3>2. \A i \in ids : J[i] = i => Root(J, i) = i
      BY <1>2, RootOf
    <3> QED
      BY <3>1, <3>2, <1>1
  <2>6. parent[m] # m => Good(parent[m])
    BY <2>2, <2>4
  <2>7. Good(m)
    <3>1. CASE m = hi
      BY <3>1, <1>1, <2>3, <2>4, <2>5
    <3>2. CASE m # hi /\ parent[m] = m
      BY <3>2, <1>1, <2>3, <2>4
    <3>3. CASE m # hi /\ parent[m] # m
      BY <3>3, <1>1, <2>3, <2>4, <2>6
    <3> QED
      BY <3>1, <3>2, <3>3
  <2> QED
    BY <2>1, <2>7
<1>4. \A i \in ids : Good(i)
  BY <1>3
<1> QED
  BY <1>1, <1>2, <1>4 DEF J

\* A recursion over 0..n has a solution.
Iterates(n, X, base, G) ==
    \E f \in [0..n -> X] : f[0] = base /\ \A k \in 1..n : f[k] = G[k][f[k - 1]]

LEMMA RecursionExists ==
    ASSUME NEW n \in Nat, NEW X, NEW base \in X, NEW G \in [1..n -> [X -> X]]
    PROVE  Iterates(n, X, base, G)
<1> DEFINE Has(m) == \E f \in [0..m -> X] :
                        f[0] = base /\ \A k \in 1..m : f[k] = G[k][f[k - 1]]
           T == {m \in 0..n : ~ Has(m)}
<1>1. SUFFICES T = {}
  BY SMTT(30) DEF Iterates
<1>2. SUFFICES ASSUME NEW m \in T, \A k \in T : m <= k
               PROVE  FALSE
  <2>1. T \subseteq Nat
    OBVIOUS
  <2> HIDE DEF T
  <2> QED
    BY <2>1, LeastOf
<1>3. CASE m = 0
  <2>1. [k \in 0..0 |-> base] \in [0..0 -> X]
    OBVIOUS
  <2>2. [k \in 0..0 |-> base][0] = base /\ \A k \in 1..0 : FALSE
    OBVIOUS
  <2>3. Has(0)
    BY <2>1, <2>2
  <2> QED
    BY <2>3, <1>3
<1>4. CASE m # 0
  <2>1. m - 1 \in 0..n /\ m \in 1..n /\ ~ (m <= m - 1)
    BY <1>4
  <2>2. Has(m - 1)
    BY <2>1, <1>2
  <2>3. PICK f \in [0..(m - 1) -> X] :
           f[0] = base /\ \A k \in 1..(m - 1) : f[k] = G[k][f[k - 1]]
    BY <2>2
  <2> DEFINE g == [k \in 0..m |-> IF k = m THEN G[m][f[m - 1]] ELSE f[k]]
  <2>4. g \in [0..m -> X]
    BY <2>1, <2>3
  <2>5. g[0] = base
    BY <2>1, <2>3, <1>4
  <2>6. ASSUME NEW k \in 1..m
        PROVE  g[k] = G[k][g[k - 1]]
    <3>1. k - 1 \in 0..m /\ k - 1 # m /\ k \in 0..m
      BY <2>1
    <3>2. g[k - 1] = f[k - 1]
      BY <3>1
    <3>3. k # m => k \in 1..(m - 1)
      BY <2>1
    <3> QED
      BY <3>1, <3>2, <3>3, <2>3
  <2> HIDE DEF g
  <2> QED
    BY <2>4, <2>5, <2>6
<1> QED
  BY <1>3, <1>4

\* JoinAll makes its joins one after the other.
OneByOne(parent, links) ==
    \E F : /\ F[0] = parent /\ F[Len(links)] = JoinAll(parent, links)
           /\ \A k \in 1..Len(links) : F[k] = Join(F[k - 1], links[k])

LEMMA JoinAllRuns ==
    ASSUME NEW N \in Nat, NEW ids, \A v \in ids : v \in Nat /\ v <= N,
           NEW parent \in Trees(ids), NEW links \in Seq(ids \X ids)
    PROVE  OneByOne(parent, links)
<1> DEFINE n == Len(links)
           Runs(f) == f = [k \in 0..n |-> IF k = 0 THEN parent ELSE Join(f[k - 1], links[k])]
           joined == CHOOSE f : Runs(f)
           G == [k \in 1..n |-> [p \in Trees(ids) |-> Join(p, links[k])]]
<1>0. n \in Nat /\ \A k \in 1..n : links[k] \in ids \X ids
  OBVIOUS
<1>1. G \in [1..n -> [Trees(ids) -> Trees(ids)]]
  <2>1. \A k \in 1..n : \A p \in Trees(ids) : Join(p, links[k]) \in Trees(ids)
    BY <1>0, JoinRoots
  <2> QED
    BY <2>1
<1>2. Iterates(n, Trees(ids), parent, G)
  <2> HIDE DEF n, G
  <2> QED
    BY <1>0, <1>1, RecursionExists
<1>3. PICK f \in [0..n -> Trees(ids)] : f[0] = parent /\ \A k \in 1..n : f[k] = G[k][f[k - 1]]
  BY <1>2 DEF Iterates
<1>4. \A k \in 1..n : f[k] = Join(f[k - 1], links[k])
  <2>1. \A k \in 1..n : k - 1 \in 0..n
    BY <1>0
  <2> QED
    BY <2>1, <1>3
<1>5. Runs(f)
  <2>1. \A k \in 0..n : k = 0 \/ k \in 1..n
    BY <1>0
  <2> QED
    BY <2>1, <1>3, <1>4
<1>6. Runs(joined)
  BY <1>5
<1>7. JoinAll(parent, links) = joined[n]
  BY DEF JoinAll
<1> HIDE DEF joined
<1>8. joined[0] = parent /\ \A k \in 1..n : joined[k] = Join(joined[k - 1], links[k])
  <2>1. 0 \in 0..n /\ \A k \in 1..n : k \in 0..n /\ k # 0
    BY <1>0
  <2> QED
    BY <2>1, <1>6
<1> QED
  BY <1>7, <1>8 DEF OneByOne

\* `part` is a union of groups.
Keeps(parent, ids, part) == \A i \in ids : i \in part <=> Root(parent, i) \in part

\* Two linked members are in one class.
Same(parent, link) == Root(parent, link[1]) = Root(parent, link[2])

\* Joining a sequence of links keeps what was together, puts the two ends of each
\* link together, and puts nothing else together.
LEMMA JoinsOneByOne ==
    ASSUME NEW N \in Nat, NEW ids, \A v \in ids : v \in Nat /\ v <= N,
           NEW n \in Nat, NEW F, NEW L, NEW K, F[0] \in Trees(ids),
           \A k \in 1..n : IF k \in K THEN L[k] \in ids \X ids /\ F[k] = Join(F[k - 1], L[k])
                           ELSE F[k] = F[k - 1]
    PROVE  /\ F[n] \in Trees(ids)
           /\ \A link \in ids \X ids : Same(F[0], link) => Same(F[n], link)
           /\ \A k \in K : k \in 1..n => Same(F[n], L[k])
           /\ \A part : /\ Keeps(F[0], ids, part)
                        /\ \A k \in K : k \in 1..n => (L[k][1] \in part <=> L[k][2] \in part)
                        => Keeps(F[n], ids, part)
<1> DEFINE Good(m) ==
             /\ F[m] \in Trees(ids)
             /\ \A link \in ids \X ids : Same(F[0], link) => Same(F[m], link)
             /\ \A k \in K : k \in 1..m => Same(F[m], L[k])
             /\ \A part : /\ Keeps(F[0], ids, part)
                          /\ \A k \in K : k \in 1..n => (L[k][1] \in part <=> L[k][2] \in part)
                          => Keeps(F[m], ids, part)
           T == {m \in 0..n : ~ Good(m)}
<1>1. SUFFICES T = {}
  OBVIOUS
<1>2. SUFFICES ASSUME NEW m \in T, \A k \in T : m <= k
               PROVE  FALSE
  <2>1. T \subseteq Nat
    OBVIOUS
  <2> HIDE DEF T
  <2> QED
    BY <2>1, LeastOf
<1>3. CASE m = 0
  <2>1. Good(0)
    OBVIOUS
  <2> QED
    BY <2>1, <1>3
<1>4. CASE m # 0
  <2>1. m - 1 \in 0..n /\ m \in 1..n /\ ~ (m <= m - 1)
    BY <1>4
  <2>2. Good(m - 1)
    BY <2>1, <1>2
  <2>3. CASE m \notin K
    <3>1. F[m] = F[m - 1]
      BY <2>1, <2>3
    <3>2. \A k \in K : k \in 1..m => k \in 1..(m - 1)
      BY <2>1, <2>3
    <3>3. Good(m)
      BY <3>1, <3>2, <2>2
    <3> QED
      BY <3>3
  <2>4. CASE m \in K
    <3>1. L[m] \in ids \X ids /\ F[m] = Join(F[m - 1], L[m])
      BY <2>1, <2>4
    <3>2. F[m - 1] \in Trees(ids)
      BY <2>2
    <3> DEFINE ends == {Root(F[m - 1], L[m][1]), Root(F[m - 1], L[m][2])}
    <3>3. F[m] \in Trees(ids)
      BY <3>1, <3>2, JoinRoots
    <3>4. PICK kept \in ends : \A i \in ids :
             Root(F[m], i) = IF Root(F[m - 1], i) \in ends THEN kept ELSE Root(F[m - 1], i)
      BY <3>1, <3>2, JoinRoots
    <3>5. \A link \in ids \X ids : Same(F[m - 1], link) => Same(F[m], link)
      BY <3>4 DEF Same
    <3>6. Same(F[m], L[m])
      BY <3>1, <3>4 DEF Same
    <3>7. \A k \in K : k \in 1..m => Same(F[m], L[k])
      <4>1. \A k \in K : k \in 1..m /\ k # m => k \in 1..(m - 1) /\ L[k] \in ids \X ids
        BY <2>1
      <4> QED
        BY <4>1, <2>2, <3>5, <3>6
    <3>8. ASSUME NEW part, Keeps(F[0], ids, part),
                 \A k \in K : k \in 1..n => (L[k][1] \in part <=> L[k][2] \in part)
          PROVE  Keeps(F[m], ids, part)
      <4>1. Keeps(F[m - 1], ids, part)
        BY <2>2, <3>8
      <4>2. L[m][1] \in part <=> L[m][2] \in part
        BY <3>8, <2>1, <2>4
      <4>3. L[m][1] \in ids /\ L[m][2] \in ids
        BY <3>1
      <4>4. kept \in part <=> L[m][1] \in part
        BY <4>1, <4>2, <4>3 DEF Keeps
      <4>5. ASSUME NEW i \in ids
            PROVE  i \in part <=> Root(F[m], i) \in part
        <5>1. i \in part <=> Root(F[m - 1], i) \in part
          BY <4>1 DEF Keeps
        <5>2. CASE Root(F[m - 1], i) \in ends
          BY <5>1, <5>2, <4>1, <4>2, <4>3, <4>4, <3>4 DEF Keeps
        <5>3. CASE Root(F[m - 1], i) \notin ends
          BY <5>1, <5>3, <3>4
        <5> QED
          BY <5>2, <5>3
      <4> QED
        BY <4>5 DEF Keeps
    <3>9. Good(m)
      BY <2>2, <3>3, <3>5, <3>7, <3>8
    <3> QED
      BY <3>9
  <2> QED
    BY <2>3, <2>4
<1> QED
  BY <1>3, <1>4

-----------------------------------------------------------------------------
(* Finite sets and their orders *)

\* A bounded set of naturals has a greatest member.
LEMMA GreatestOf ==
    ASSUME NEW n \in Nat, NEW T, \A k \in T : k \in Nat /\ k <= n, T # {}
    PROVE  \E k \in T : \A m \in T : m <= k
<1> DEFINE D == {n - k : k \in T}
<1>1. D \subseteq Nat /\ D # {}
  OBVIOUS
<1>2. PICK d \in D : \A m \in D : d <= m
  <2> HIDE DEF D
  <2> QED
    BY <1>1, LeastOf
<1>3. PICK k \in T : d = n - k
  BY <1>2
<1>4. \A m \in T : n - m \in D
  OBVIOUS
<1>5. \A m \in T : n - k <= n - m
  BY <1>2, <1>3, <1>4
<1> QED
  BY <1>3, <1>5

\* What a finite sequence takes on is finite.
LEMMA FiniteImage ==
    ASSUME NEW n \in Nat, NEW S, NEW f \in [1..n -> S]
    PROVE  IsFiniteSet({f[k] : k \in 1..n})
<1> DEFINE T == {f[k] : k \in 1..n}
<1>1. f \in Surjection(1..n, T)
  BY DEF Surjection
<1>2. IsFiniteSet(1..n)
  BY FS_Interval
<1> HIDE DEF T
<1>3. IsFiniteSet(T)
  BY <1>1, <1>2, FS_Surjection
<1> QED
  BY <1>3 DEF T

\* A list without repetition, as long as the set it is taken from, has all of it.
LEMMA OrderedSet ==
    ASSUME NEW S, IsFiniteSet(S), NEW order \in [1..Cardinality(S) -> S],
           \A i, j \in 1..Cardinality(S) : i # j => order[i] # order[j]
    PROVE  {order[k] : k \in 1..Cardinality(S)} = S
<1>1. Cardinality(S) \in Nat
  BY FS_CardinalityType
<1>2. IsFiniteSet(1..Cardinality(S)) /\ Cardinality(1..Cardinality(S)) = Cardinality(S)
  BY <1>1, FS_Interval
<1>3. order \in Injection(1..Cardinality(S), S)
  BY DEF Injection, IsInjective
<1>4. order \in Surjection(1..Cardinality(S), S)
  BY <1>2, <1>3, FS_Injection
<1> QED
  BY <1>4 DEF Surjection

\* A finite set can be listed.
LEMMA OrderExists ==
    ASSUME NEW S, IsFiniteSet(S)
    PROVE  /\ Cardinality(S) \in Nat
           /\ SetToSeq(S) \in [1..Cardinality(S) -> S]
           /\ {SetToSeq(S)[k] : k \in 1..Cardinality(S)} = S
<1>1. Cardinality(S) \in Nat /\ ExistsBijection(1..Cardinality(S), S)
  BY FS_CardinalityType
<1>2. \E f \in [1..Cardinality(S) -> S] : IsInjective(f)
  BY <1>1 DEF ExistsBijection, Bijection, Injection
<1>3. SetToSeq(S) \in [1..Cardinality(S) -> S] /\ IsInjective(SetToSeq(S))
  BY <1>2 DEF SetToSeq
<1>4. \A i, j \in 1..Cardinality(S) : i # j => SetToSeq(S)[i] # SetToSeq(S)[j]
  BY <1>3 DEF IsInjective
<1>5. {SetToSeq(S)[k] : k \in 1..Cardinality(S)} = S
  BY <1>3, <1>4, OrderedSet
<1> QED
  BY <1>1, <1>3, <1>5

\* A forest joins its links, and only them.
THEOREM ForestConnects ==
    ASSUME NEW N \in Nat, NEW ids, \A v \in ids : v \in Nat /\ v <= N,
           NEW links \in SUBSET (ids \X ids), IsFiniteSet(links)
    PROVE  /\ Forest(ids, links) \in Trees(ids)
           /\ \A link \in links : Same(Forest(ids, links), link)
           /\ \A part : (\A link \in links : link[1] \in part <=> link[2] \in part)
                           => Keeps(Forest(ids, links), ids, part)
<1> DEFINE n == Cardinality(links)
           order == SetToSeq(links)
           alone == [i \in ids |-> i]
<1>1. /\ n \in Nat /\ order \in [1..n -> links] /\ order \in Seq(ids \X ids)
      /\ Len(order) = n /\ {order[k] : k \in 1..n} = links
  <2>1. n \in Nat /\ order \in [1..n -> links] /\ {order[k] : k \in 1..n} = links
    BY OrderExists
  <2> HIDE DEF n, order
  <2>2. order \in Seq(links) /\ Len(order) = n
    BY <2>1
  <2>3. order \in Seq(ids \X ids)
    BY <2>2
  <2> QED
    BY <2>1, <2>2, <2>3
<1>2. alone \in Trees(ids)
  BY DEF Trees
<1>3. Forest(ids, links) = JoinAll(alone, order)
  BY DEF Forest
<1> HIDE DEF n, order, alone
<1>a. OneByOne(alone, order)
  BY <1>1, <1>2, JoinAllRuns
<1>4. PICK F : /\ F[0] = alone /\ F[Len(order)] = JoinAll(alone, order)
               /\ \A k \in 1..Len(order) : F[k] = Join(F[k - 1], order[k])
  BY <1>a DEF OneByOne
<1>5. \A k \in 1..n : IF k \in 1..n THEN order[k] \in ids \X ids /\ F[k] = Join(F[k - 1], order[k])
                      ELSE F[k] = F[k - 1]
  BY <1>1, <1>4
<1>6. F[0] \in Trees(ids)
  BY <1>2, <1>4
<1>7. /\ F[n] \in Trees(ids)
      /\ \A k \in 1..n : k \in 1..n => Same(F[n], order[k])
      /\ \A part : /\ Keeps(F[0], ids, part)
                   /\ \A k \in 1..n : k \in 1..n => (order[k][1] \in part <=> order[k][2] \in part)
                   => Keeps(F[n], ids, part)
  BY <1>1, <1>5, <1>6, JoinsOneByOne
<1>8. \A part : Keeps(F[0], ids, part)
  <2>1. \A i \in ids : alone[i] = i
    BY DEF alone
  <2>2. \A i \in ids : Root(alone, i) = i
    BY <2>1, <1>2, RootOf
  <2> QED
    BY <2>2, <1>4 DEF Keeps
<1>9. F[n] = Forest(ids, links)
  BY <1>1, <1>3, <1>4
<1> QED
  BY <1>1, <1>7, <1>8, <1>9

-----------------------------------------------------------------------------
(* The links of a candidate *)

\* The images of a candidate are numbered 1..n.
LEMMA ImagesFinite ==
    ASSUME inventory \in Inventories
    PROVE  /\ Cardinality(Images) \in Nat /\ IsFiniteSet(Images)
           /\ \A v \in Images : v \in Nat /\ v <= Cardinality(Images)
           /\ inventory.pairs \in SUBSET (Images \X Images) /\ inventory.boxes \in SUBSET Images
           /\ IsFiniteSet(Images \X Images)
<1>1. /\ IsFiniteSet(Images) /\ Images = 1..Cardinality(Images)
      /\ inventory.pairs \in SUBSET (Images \X Images) /\ inventory.boxes \in SUBSET Images
  BY CandidateAssumption DEF Images, Rows
<1>2. Cardinality(Images) \in Nat
  BY <1>1, FS_CardinalityType
<1>3. IsFiniteSet(Images \X Images)
  BY <1>1, FS_Product
<1>4. \A v \in Images : v \in Nat /\ v <= Cardinality(Images)
  BY <1>1, <1>2
<1> QED
  BY <1>1, <1>2, <1>3, <1>4

LEMMA LinksFinite ==
    ASSUME inventory \in Inventories, NEW links, links \subseteq Images \X Images
    PROVE  IsFiniteSet(links)
BY ImagesFinite, FS_Subset

\* The least member that names a group.
LEMMA MinOf ==
    ASSUME NEW g, g \subseteq Nat, g # {}
    PROVE  Min(g) \in g /\ \A i \in g : Min(g) <= i
<1>1. \E n \in g : \A m \in g : n <= m
  BY LeastOf
<1> QED
  BY <1>1 DEF Min

\* The groups the packet was built with.
LEMMA PacketForestLinks ==
    ASSUME inventory \in Inventories,
           packet.groups = Groups(Forest(Images, inventory.pairs \cup PixelLinks))
    PROVE  /\ PacketForest \in Trees(Images)
           /\ \A link \in inventory.pairs \cup PixelLinks : Same(PacketForest, link)
           /\ \A part : (\A link \in inventory.pairs \cup PixelLinks :
                            link[1] \in part <=> link[2] \in part)
                           => Keeps(PacketForest, Images, part)
<1> DEFINE ids == Images
           N == Cardinality(Images)
           links == inventory.pairs \cup PixelLinks
           first == Forest(ids, links)
           again == {link \in ids \X ids : \E g \in packet.groups :
                        link[1] = Min(g) /\ link[2] \in g \ {Min(g)}}
           second == Forest(ids, again)
<1>1. N \in Nat /\ \A v \in ids : v \in Nat /\ v <= N
  BY ImagesFinite
<1>2. links \in SUBSET (ids \X ids) /\ IsFiniteSet(links)
  BY ImagesFinite, LinksFinite DEF PixelLinks
<1>3. again \in SUBSET (ids \X ids) /\ IsFiniteSet(again)
  BY LinksFinite
<1>4. packet.groups = {{i \in DOMAIN first : Root(first, i) = Root(first, j)} : j \in DOMAIN first}
  BY DEF Groups
<1>5. PacketForest = second
  BY DEF PacketForest
<1> HIDE DEF ids, N, links, first, second
<1>6. /\ first \in Trees(ids)
      /\ \A link \in links : Same(first, link)
      /\ \A part : (\A link \in links : link[1] \in part <=> link[2] \in part)
                      => Keeps(first, ids, part)
  BY <1>1, <1>2, ForestConnects DEF first
<1>7. /\ second \in Trees(ids)
      /\ \A link \in again : Same(second, link)
      /\ \A part : (\A link \in again : link[1] \in part <=> link[2] \in part)
                      => Keeps(second, ids, part)
  <2> HIDE DEF again
  <2> QED
    BY <1>1, <1>3, ForestConnects DEF second
<1>8. DOMAIN first = ids
  BY <1>6 DEF Trees
<1>9. \A g \in packet.groups : /\ g \subseteq ids /\ Min(g) \in g
                               /\ \A i, j \in g : Root(first, i) = Root(first, j)
  <2>1. ASSUME NEW g \in packet.groups
        PROVE  /\ g \subseteq ids /\ g \subseteq Nat /\ g # {}
               /\ \A i, j \in g : Root(first, i) = Root(first, j)
    <3>1. PICK j \in ids : g = {i \in ids : Root(first, i) = Root(first, j)}
      BY <1>4, <1>8
    <3>2. j \in g
      BY <3>1
    <3> QED
      BY <3>1, <3>2, <1>1
  <2> QED
    BY <2>1, MinOf
<1>10. \A i, j \in ids : Root(first, i) = Root(first, j) => Root(second, i) = Root(second, j)
  <2>1. ASSUME NEW i \in ids, NEW j \in ids, Root(first, i) = Root(first, j)
        PROVE  Root(second, i) = Root(second, j)
    <3>1. PICK g \in packet.groups : i \in g /\ j \in g
      <4>1. {k \in ids : Root(first, k) = Root(first, j)} \in packet.groups
        BY <1>4, <1>8
      <4> QED
        BY <4>1, <2>1
    <3>2. Min(g) \in ids
      BY <1>9
    <3>3. \A k \in {i, j} : k = Min(g) \/ <<Min(g), k>> \in again
      BY <3>1, <3>2
    <3>4. \A k \in {i, j} : Root(second, k) = Root(second, Min(g))
      BY <3>3, <1>7 DEF Same
    <3> QED
      BY <3>4
  <2> QED
    BY <2>1
<1>11. \A link \in links : Same(second, link)
  BY <1>2, <1>6, <1>10 DEF Same
<1>12. ASSUME NEW part, \A link \in links : link[1] \in part <=> link[2] \in part
       PROVE  Keeps(second, ids, part)
  <2>1. \A i \in ids : i \in part <=> Root(first, i) \in part
    BY <1>6, <1>12 DEF Keeps
  <2>2. ASSUME NEW link \in again
        PROVE  link[1] \in part <=> link[2] \in part
    <3>1. PICK g \in packet.groups : link[1] = Min(g) /\ link[2] \in g \ {Min(g)}
      OBVIOUS
    <3>2. link[1] \in g /\ link[2] \in g /\ link[1] \in ids /\ link[2] \in ids
      BY <3>1, <1>9
    <3>3. \A i, j \in g : Root(first, i) = Root(first, j)
      BY <1>9
    <3>4. Root(first, link[1]) = Root(first, link[2])
      BY <3>2, <3>3
    <3> QED
      BY <2>1, <3>2, <3>4
  <2> QED
    BY <2>2, <1>7
<1> QED
  BY <1>5, <1>7, <1>11, <1>12 DEF ids, links

\* The links the reviewers add.
Related == {c \in ToSet(packet.cases) : c[1] = "near" /\ Answer(c) = <<"related">>}

\* What ties two images once the answers are in: a prepared pair, equal pixels, or
\* a near pair that reviewers called related.
TiesNow == inventory.pairs \cup PixelLinks \cup {<<c[2], c[3]>> : c \in Related}

\* A packet holds every case of the catalogue and the groups of its first links.
PacketBuilt ==
    /\ packet.cases \in Seq(Catalog) /\ ToSet(packet.cases) = Catalog
    /\ packet.groups = Groups(Forest(Images, inventory.pairs \cup PixelLinks))

\* Settling takes the cases of the packet one after the other.
SettledOneByOne ==
    \E F : /\ F[0] = PacketForest /\ F[Len(packet.cases)] = Settled
           /\ \A k \in 1..Len(packet.cases) : F[k] = Settle(F[k - 1], packet.cases[k])

LEMMA NearCases ==
    ASSUME NEW c \in Catalog, c[1] = "near"
    PROVE  <<c[2], c[3]>> \in NearPairs /\ c = <<"near", c[2], c[3]>>
<1>1. PICK p \in NearPairs : c = <<"near", p[1], p[2]>>
  BY DEF Catalog
<1>2. p = <<p[1], p[2]>>
  BY DEF NearPairs
<1> QED
  BY <1>1, <1>2

LEMMA SettledRuns ==
    ASSUME inventory \in Inventories, PacketBuilt
    PROVE  SettledOneByOne
<1> DEFINE n == Len(packet.cases)
           Runs(f) == f = [k \in 0..n |-> IF k = 0 THEN PacketForest
                                          ELSE Settle(f[k - 1], packet.cases[k])]
           joined == CHOOSE f : Runs(f)
           X == Trees(Images)
           G == [k \in 1..n |-> [p \in X |-> Settle(p, packet.cases[k])]]
<1>0. n \in Nat /\ \A k \in 1..n : packet.cases[k] \in Catalog
  BY DEF PacketBuilt
<1>1. PacketForest \in X
  BY PacketForestLinks DEF PacketBuilt
<1>2. \A k \in 1..n : \A p \in X : Settle(p, packet.cases[k]) \in X
  <2> SUFFICES ASSUME NEW k \in 1..n, NEW p \in X
               PROVE  Settle(p, packet.cases[k]) \in X
    OBVIOUS
  <2> DEFINE c == packet.cases[k]
  <2>1. CASE c[1] = "near"
    <3>1. <<c[2], c[3]>> \in Images \X Images
      BY <2>1, <1>0, NearCases DEF NearPairs
    <3>2. Join(p, <<c[2], c[3]>>) \in X
      BY <3>1, ImagesFinite, JoinRoots
    <3> QED
      BY <3>2 DEF Settle
  <2>2. CASE c[1] # "near"
    BY <2>2 DEF Settle
  <2> QED
    BY <2>1, <2>2
<1>3. Settled = joined[n]
  BY DEF Settled
<1> HIDE DEF X
<1>4. G \in [1..n -> [X -> X]]
  BY <1>2
<1>5. Iterates(n, X, PacketForest, G)
  <2> HIDE DEF n, G
  <2> QED
    BY <1>0, <1>1, <1>4, RecursionExists
<1>6. PICK f \in [0..n -> X] : f[0] = PacketForest /\ \A k \in 1..n : f[k] = G[k][f[k - 1]]
  BY <1>5 DEF Iterates
<1>7. \A k \in 1..n : f[k] = Settle(f[k - 1], packet.cases[k])
  <2>1. \A k \in 1..n : k - 1 \in 0..n
    BY <1>0
  <2> QED
    BY <2>1, <1>6
<1>8. Runs(f)
  <2>1. \A k \in 0..n : k = 0 \/ k \in 1..n
    BY <1>0
  <2> QED
    BY <2>1, <1>6, <1>7
<1>9. Runs(joined)
  BY <1>8
<1> HIDE DEF joined
<1>10. joined[0] = PacketForest /\ \A k \in 1..n : joined[k] = Settle(joined[k - 1], packet.cases[k])
  <2>1. 0 \in 0..n /\ \A k \in 1..n : k \in 0..n /\ k # 0
    BY <1>0
  <2> QED
    BY <2>1, <1>9
<1> QED
  BY <1>3, <1>10 DEF SettledOneByOne

\* The settled forest joins the ties of the candidate and nothing else.
LEMMA SettledLinks ==
    ASSUME inventory \in Inventories, PacketBuilt
    PROVE  /\ Settled \in Trees(Images)
           /\ \A link \in TiesNow : Same(Settled, link)
           /\ \A part : (\A link \in TiesNow : link[1] \in part <=> link[2] \in part)
                           => Keeps(Settled, Images, part)
<1> DEFINE ids == Images
           n == Len(packet.cases)
           L == [k \in 1..n |-> <<packet.cases[k][2], packet.cases[k][3]>>]
           K == {k \in 1..n : packet.cases[k] \in Related}
           links == inventory.pairs \cup PixelLinks
<1>1. n \in Nat /\ \A k \in 1..n : packet.cases[k] \in Catalog
  BY DEF PacketBuilt
<1>2. PICK F : /\ F[0] = PacketForest /\ F[n] = Settled
               /\ \A k \in 1..n : F[k] = Settle(F[k - 1], packet.cases[k])
  BY SettledRuns DEF SettledOneByOne
<1>3. DOMAIN packet.cases = 1..n
  BY DEF PacketBuilt
<1>4. \A k \in 1..n : IF k \in K THEN L[k] \in ids \X ids /\ F[k] = Join(F[k - 1], L[k])
                      ELSE F[k] = F[k - 1]
  <2> SUFFICES ASSUME NEW k \in 1..n
               PROVE  IF k \in K THEN L[k] \in ids \X ids /\ F[k] = Join(F[k - 1], L[k])
                      ELSE F[k] = F[k - 1]
    OBVIOUS
  <2>1. packet.cases[k] \in ToSet(packet.cases)
    BY <1>3 DEF ToSet
  <2>2. CASE k \in K
    <3>1. packet.cases[k][1] = "near" /\ Answer(packet.cases[k]) = <<"related">>
      BY <2>2 DEF Related
    <3>2. L[k] \in ids \X ids
      BY <3>1, <1>1, NearCases DEF NearPairs
    <3> QED
      BY <2>2, <3>1, <3>2, <1>2 DEF Settle
  <2>3. CASE k \notin K
    <3>1. ~ (packet.cases[k][1] = "near" /\ Answer(packet.cases[k]) = <<"related">>)
      BY <2>1, <2>3 DEF Related
    <3> QED
      BY <2>3, <3>1, <1>2 DEF Settle
  <2> QED
    BY <2>2, <2>3
<1>5. /\ F[0] \in Trees(ids)
      /\ \A link \in links : Same(F[0], link)
      /\ \A part : (\A link \in links : link[1] \in part <=> link[2] \in part)
                      => Keeps(F[0], ids, part)
  BY <1>2, PacketForestLinks DEF PacketBuilt
<1>6. Cardinality(ids) \in Nat /\ \A v \in ids : v \in Nat /\ v <= Cardinality(ids)
  BY ImagesFinite
<1>7. links \subseteq ids \X ids
  BY ImagesFinite DEF PixelLinks
<1>8. \A link : link \in TiesNow <=> link \in links \/ \E k \in K : link = L[k]
  <2>1. \A c : c \in Related => \E k \in 1..n : c = packet.cases[k]
    BY <1>3 DEF Related, ToSet
  <2>3. \A link : (\E k \in K : link = L[k]) <=> \E c \in Related : link = <<c[2], c[3]>>
    <3> SUFFICES ASSUME NEW link
                 PROVE  (\E k \in K : link = L[k]) <=> \E c \in Related : link = <<c[2], c[3]>>
      OBVIOUS
    <3>1. ASSUME NEW k \in K, link = L[k]
          PROVE  \E c \in Related : link = <<c[2], c[3]>>
      BY <3>1
    <3>2. ASSUME NEW c \in Related, link = <<c[2], c[3]>>
          PROVE  \E k \in K : link = L[k]
      <4>1. PICK k \in 1..n : c = packet.cases[k]
        BY <2>1
      <4>2. k \in K /\ link = L[k]
        BY <3>2, <4>1
      <4> QED
        BY <4>2
    <3> QED
      BY <3>1, <3>2
  <2> QED
    BY <2>3 DEF TiesNow
<1> HIDE DEF ids, n, L, K, links
<1>9. /\ F[n] \in Trees(ids)
      /\ \A link \in ids \X ids : Same(F[0], link) => Same(F[n], link)
      /\ \A k \in K : k \in 1..n => Same(F[n], L[k])
      /\ \A part : /\ Keeps(F[0], ids, part)
                   /\ \A k \in K : k \in 1..n => (L[k][1] \in part <=> L[k][2] \in part)
                   => Keeps(F[n], ids, part)
  BY <1>1, <1>4, <1>5, <1>6, JoinsOneByOne
<1>10. \A k \in K : k \in 1..n
  BY DEF K
<1>11. \A link \in TiesNow : Same(F[n], link)
  BY <1>5, <1>7, <1>8, <1>9, <1>10
<1>12. ASSUME NEW part, \A link \in TiesNow : link[1] \in part <=> link[2] \in part
       PROVE  Keeps(F[n], ids, part)
  <2>1. Keeps(F[0], ids, part)
    BY <1>5, <1>8, <1>12
  <2>2. \A k \in K : L[k][1] \in part <=> L[k][2] \in part
    BY <1>8, <1>12
  <2> QED
    BY <2>1, <2>2, <1>9
<1> QED
  BY <1>2, <1>9, <1>11, <1>12 DEF ids

-----------------------------------------------------------------------------
(* What reviewers said *)

\* The latest answer of reviewer r to case c.
SaidOf(history, c, r) ==
    LET mine == {b \in {history[k] : k \in 1..Len(history)} :
                   b.reviewer = r /\ c \in DOMAIN b.answers}
    IN  {b.answers[c] : b \in {x \in mine : \A y \in mine : y.time <= x.time}}

\* The latest answers of all reviewers to case c.
SaidIn(history, c) == UNION {SaidOf(history, c, b.reviewer) : b \in Batches}

\* A batch that answers a case, and the last of its reviewer to do so.
Final(history, c, k) ==
    /\ k \in 1..Len(history) /\ c \in DOMAIN history[k].answers
    /\ \A m \in 1..Len(history) :
         history[m].reviewer = history[k].reviewer /\ c \in DOMAIN history[m].answers => m <= k

\* A reviewer's later batch on the same case carries a later time.
TimesRise(history) ==
    \A i, j \in 1..Len(history) : \A c \in DOMAIN history[i].answers :
        /\ i < j /\ history[i].reviewer = history[j].reviewer
        /\ c \in DOMAIN history[j].answers
        => history[i].time < history[j].time

\* The latest answers are those no later batch of the same reviewer replaced.
LEMMA SaidIsFinal ==
    ASSUME NEW history \in Seq(Batches), TimesRise(history), NEW c
    PROVE  \A a : a \in SaidIn(history, c) <=>
                    \E k \in 1..Len(history) : Final(history, c, k) /\ a = history[k].answers[c]
<1>1. /\ Len(history) \in Nat
      /\ \A k \in 1..Len(history) : history[k] \in Batches /\ history[k].time \in Int
  BY CandidateAssumption
<1>2. ASSUME NEW a, a \in SaidIn(history, c)
      PROVE  \E k \in 1..Len(history) : Final(history, c, k) /\ a = history[k].answers[c]
  <2>1. PICK r : a \in SaidOf(history, c, r)
    BY <1>2 DEF SaidIn
  <2>2. PICK k \in 1..Len(history) :
           /\ a = history[k].answers[c]
           /\ history[k].reviewer = r /\ c \in DOMAIN history[k].answers
           /\ \A m \in 1..Len(history) :
                history[m].reviewer = r /\ c \in DOMAIN history[m].answers
                  => history[m].time <= history[k].time
    BY <2>1 DEF SaidOf
  <2>3. ASSUME NEW m \in 1..Len(history), history[m].reviewer = r, c \in DOMAIN history[m].answers
        PROVE  m <= k
    <3>1. SUFFICES ASSUME k < m PROVE FALSE
      BY <1>1
    <3>2. history[k].time < history[m].time
      BY <2>2, <2>3, <3>1 DEF TimesRise
    <3> QED
      BY <1>1, <2>2, <2>3, <3>2
  <2> QED
    BY <2>2, <2>3 DEF Final
<1>3. ASSUME NEW k \in 1..Len(history), Final(history, c, k)
      PROVE  history[k].answers[c] \in SaidIn(history, c)
  <2> DEFINE r == history[k].reviewer
  <2>1. ASSUME NEW m \in 1..Len(history), history[m].reviewer = r, c \in DOMAIN history[m].answers
        PROVE  history[m].time <= history[k].time
    <3>1. m = k \/ m < k
      BY <1>1, <1>3, <2>1 DEF Final
    <3>2. CASE m < k
      <4>1. history[m].time < history[k].time
        BY <1>3, <2>1, <3>2 DEF Final, TimesRise
      <4> QED
        BY <1>1, <4>1
    <3> QED
      BY <1>1, <3>1, <3>2
  <2>2. history[k].answers[c] \in SaidOf(history, c, r)
    BY <1>3, <2>1 DEF SaidOf, Final
  <2> QED
    BY <1>1, <2>2 DEF SaidIn
<1> QED
  BY <1>2, <1>3

\* The batch that the code takes for a reviewer's answer is the final one.
LEMMA CurrentIsFinal ==
    ASSUME batches \in Seq(Batches), NEW c, NEW r, Answering(c, r) # {}
    PROVE  /\ CurrentBatch(c, r) \in Answering(c, r)
           /\ \A i \in Answering(c, r) : i <= CurrentBatch(c, r)
           /\ \A k : Final(batches, c, k) /\ batches[k].reviewer = r => k = CurrentBatch(c, r)
<1>1. DOMAIN batches = 1..Len(batches) /\ Len(batches) \in Nat
  OBVIOUS
<1>2. \A k \in Answering(c, r) : k \in Nat /\ k <= Len(batches)
  BY <1>1 DEF Answering
<1>3. \E k \in Answering(c, r) : \A i \in Answering(c, r) : i <= k
  BY <1>1, <1>2, GreatestOf
<1>4. /\ CurrentBatch(c, r) \in Answering(c, r)
      /\ \A i \in Answering(c, r) : i <= CurrentBatch(c, r)
  BY <1>3 DEF CurrentBatch
<1>5. ASSUME NEW k, Final(batches, c, k), batches[k].reviewer = r
      PROVE  k = CurrentBatch(c, r)
  <2>1. k \in Answering(c, r)
    BY <1>1, <1>5 DEF Answering, Final
  <2>2. \A m \in Answering(c, r) : m <= k
    BY <1>1, <1>5 DEF Answering, Final
  <2> QED
    BY <1>2, <1>4, <2>1, <2>2
<1> QED
  BY <1>4, <1>5

\* The opinions the code collects are the latest answers of the reviewers.
LEMMA OpinionsAreSaid ==
    ASSUME batches \in Seq(Batches), TimesRise(batches), NEW c
    PROVE  Opinions(c) = SaidIn(batches, c)
<1>1. DOMAIN batches = 1..Len(batches) /\ Len(batches) \in Nat
  OBVIOUS
<1>2. ASSUME NEW a \in Opinions(c)
      PROVE  a \in SaidIn(batches, c)
  <2>1. PICK r \in Reviewers(c) : a = batches[CurrentBatch(c, r)].answers[c]
    BY DEF Opinions
  <2>2. Answering(c, r) # {}
    BY DEF Reviewers, Answering, ToSet
  <2>3. /\ CurrentBatch(c, r) \in Answering(c, r)
        /\ \A i \in Answering(c, r) : i <= CurrentBatch(c, r)
    BY <2>2, CurrentIsFinal
  <2>4. Final(batches, c, CurrentBatch(c, r)) /\ CurrentBatch(c, r) \in 1..Len(batches)
    BY <1>1, <2>3 DEF Final, Answering
  <2> QED
    BY <2>1, <2>4, SaidIsFinal
<1>3. ASSUME NEW a \in SaidIn(batches, c)
      PROVE  a \in Opinions(c)
  <2>1. PICK k \in 1..Len(batches) : Final(batches, c, k) /\ a = batches[k].answers[c]
    BY SaidIsFinal
  <2> DEFINE r == batches[k].reviewer
  <2>2. k \in Answering(c, r)
    BY <1>1, <2>1 DEF Final, Answering
  <2>3. k = CurrentBatch(c, r)
    BY <2>1, <2>2, CurrentIsFinal
  <2>4. r \in Reviewers(c)
    BY <1>1, <2>1 DEF Reviewers, Final, ToSet
  <2> QED
    BY <2>1, <2>3, <2>4 DEF Opinions
<1> QED
  BY <1>2, <1>3

\* An answer counts as recorded exactly when all reviewers agree on one that needs
\* no reference.
LEMMA Recorded ==
    ASSUME batches \in Seq(Batches), TimesRise(batches), NEW c
    PROVE  /\ Status(c) = "recorded" => /\ SaidIn(batches, c) = {Answer(c)}
                                        /\ "needs_reference" \notin Range(Answer(c))
           /\ Answer(c) # <<>> => Status(c) = "recorded"
           /\ \A a : SaidIn(batches, c) = {a} /\ "needs_reference" \notin Range(a)
                        => Status(c) = "recorded" /\ Answer(c) = a
<1> DEFINE n == Len(batches)
           f == [k \in 1..n |-> batches[k].answers[c]]
           S == {f[k] : k \in 1..n}
<1>1. n \in Nat /\ f \in [1..n -> {batches[k].answers[c] : k \in 1..n}]
  OBVIOUS
<1>2. IsFiniteSet(S)
  <2> HIDE DEF n, f
  <2> QED
    BY <1>1, FiniteImage
<1>3. Opinions(c) = SaidIn(batches, c)
  BY OpinionsAreSaid
<1>4. Opinions(c) \subseteq S
  <2> SUFFICES ASSUME NEW a \in Opinions(c)
               PROVE  a \in S
    OBVIOUS
  <2>1. PICK k \in 1..n : a = batches[k].answers[c]
    BY <1>3, SaidIsFinal
  <2> QED
    BY <2>1
<1>5. IsFiniteSet(Opinions(c))
  <2> HIDE DEF S
  <2> QED
    BY <1>2, <1>4, FS_Subset
<1>6. Cardinality(Opinions(c)) \in Nat
  BY <1>5, FS_CardinalityType
<1>7. Cardinality(Opinions(c)) = 0 <=> Opinions(c) = {}
  BY <1>5, FS_EmptySet
<1>8. Cardinality(Opinions(c)) = 1 <=> \E a : Opinions(c) = {a}
  BY <1>5, FS_Singleton
<1>9. Answer(c) = IF Status(c) = "recorded" THEN CHOOSE a \in Opinions(c) : TRUE ELSE <<>>
  BY DEF Answer
<1>10. Status(c) = IF Opinions(c) = {} THEN "unreviewed"
                   ELSE IF Cardinality(Opinions(c)) > 1 THEN "conflicting"
                   ELSE IF \E a \in Opinions(c) : "needs_reference" \in Range(a)
                   THEN "needs_reference" ELSE "recorded"
  BY DEF Status
<1>11. ASSUME Status(c) = "recorded"
       PROVE  /\ SaidIn(batches, c) = {Answer(c)}
              /\ "needs_reference" \notin Range(Answer(c))
  <2>1. PICK a : Opinions(c) = {a}
    BY <1>6, <1>7, <1>8, <1>10, <1>11
  <2>2. "needs_reference" \notin Range(a)
    BY <2>1, <1>10, <1>11
  <2>3. Answer(c) = a
    BY <2>1, <1>9, <1>11
  <2> QED
    BY <2>1, <2>2, <2>3, <1>3
<1>12. ASSUME NEW a, SaidIn(batches, c) = {a}, "needs_reference" \notin Range(a)
       PROVE  Status(c) = "recorded" /\ Answer(c) = a
  <2>1. Opinions(c) = {a} /\ Cardinality(Opinions(c)) = 1
    BY <1>3, <1>8, <1>12
  <2>2. Status(c) = "recorded"
    BY <2>1, <1>10, <1>12
  <2> QED
    BY <2>1, <2>2, <1>9
<1> QED
  BY <1>9, <1>11, <1>12

-----------------------------------------------------------------------------
(* Groups *)

\* Groups are the connected components of links.
Components(groups, ids, links) ==
    /\ UNION groups = ids
    /\ \A g, h \in groups : g = h \/ g \cap h = {}
    /\ \A link \in links : \E g \in groups : {link[1], link[2]} \subseteq g
    /\ \A g \in groups : \A part \in (SUBSET g) \ {{}, g} :
          \E link \in links :
             /\ {link[1], link[2]} \cap part # {}
             /\ {link[1], link[2]} \cap (g \ part) # {}

\* The classes of a forest are the connected components of its links.
LEMMA GroupsOfForest ==
    ASSUME NEW ids, NEW forest \in Trees(ids), NEW links \in SUBSET (ids \X ids),
           \A link \in links : Same(forest, link),
           \A part : (\A link \in links : link[1] \in part <=> link[2] \in part)
                        => Keeps(forest, ids, part)
    PROVE  /\ Components(Groups(forest), ids, links)
           /\ \A i, j \in ids : (\E g \in Groups(forest) : {i, j} \subseteq g)
                                   <=> Root(forest, i) = Root(forest, j)
<1> DEFINE Class(j) == {i \in ids : Root(forest, i) = Root(forest, j)}
<1>1. \A g : g \in Groups(forest) <=> \E j \in ids : g = Class(j)
  BY DEF Groups, Trees
<1>2. \A j \in ids : j \in Class(j)
  OBVIOUS
<1>3. UNION Groups(forest) = ids
  <2>1. \A g \in Groups(forest) : g \subseteq ids
    BY <1>1
  <2>2. \A i \in ids : Class(i) \in Groups(forest)
    BY <1>1
  <2> QED
    BY <2>1, <2>2, <1>2
<1>4. ASSUME NEW g \in Groups(forest), NEW h \in Groups(forest), g \cap h # {}
      PROVE  g = h
  <2>1. PICK i \in ids, j \in ids : g = Class(i) /\ h = Class(j)
    BY <1>1
  <2>2. Root(forest, i) = Root(forest, j)
    BY <2>1, <1>4
  <2> QED
    BY <2>1, <2>2
<1>5. \A i, j \in ids : (\E g \in Groups(forest) : {i, j} \subseteq g)
                           <=> Root(forest, i) = Root(forest, j)
  <2> SUFFICES ASSUME NEW i \in ids, NEW j \in ids
               PROVE  (\E g \in Groups(forest) : {i, j} \subseteq g)
                         <=> Root(forest, i) = Root(forest, j)
    OBVIOUS
  <2>1. ASSUME NEW g \in Groups(forest), {i, j} \subseteq g
        PROVE  Root(forest, i) = Root(forest, j)
    BY <1>1, <2>1
  <2>2. ASSUME Root(forest, i) = Root(forest, j)
        PROVE  \E g \in Groups(forest) : {i, j} \subseteq g
    <3>1. Class(j) \in Groups(forest) /\ {i, j} \subseteq Class(j)
      BY <1>1, <2>2
    <3> QED
      BY <3>1
  <2> QED
    BY <2>1, <2>2
<1>6. ASSUME NEW link \in links
      PROVE  \E g \in Groups(forest) : {link[1], link[2]} \subseteq g
  <2>1. link[1] \in ids /\ link[2] \in ids /\ Root(forest, link[1]) = Root(forest, link[2])
    BY DEF Same
  <2> QED
    BY <2>1, <1>5
<1>7. ASSUME NEW g \in Groups(forest), NEW part \in (SUBSET g) \ {{}, g}
      PROVE  \E link \in links :
                /\ {link[1], link[2]} \cap part # {}
                /\ {link[1], link[2]} \cap (g \ part) # {}
  <2>1. SUFFICES ASSUME \A link \in links : \/ {link[1], link[2]} \cap part = {}
                                            \/ {link[1], link[2]} \cap (g \ part) = {}
                 PROVE  FALSE
    OBVIOUS
  <2>2. PICK j \in ids : g = Class(j)
    BY <1>1
  <2>3. ASSUME NEW link \in links
        PROVE  link[1] \in part <=> link[2] \in part
    <3>1. link[1] \in ids /\ link[2] \in ids /\ Root(forest, link[1]) = Root(forest, link[2])
      BY DEF Same
    <3>2. link[1] \in g <=> link[2] \in g
      BY <2>2, <3>1
    <3> QED
      BY <2>1, <3>2
  <2>4. \A i \in ids : i \in part <=> Root(forest, i) \in part
    BY <2>3 DEF Keeps
  <2>5. \A i \in g : i \in part <=> Root(forest, j) \in part
    BY <2>2, <2>4
  <2>6. part # {} /\ part # g /\ part \subseteq g
    OBVIOUS
  <2>7. Root(forest, j) \in part
    BY <2>5, <2>6
  <2>8. g \subseteq part
    BY <2>5, <2>7
  <2> QED
    BY <2>6, <2>8
<1> QED
  BY <1>3, <1>4, <1>5, <1>6, <1>7 DEF Components

-----------------------------------------------------------------------------
(* The invariant of the candidate *)

\* The inductive invariant: packets hold the whole catalogue, answers fit their
\* cases, and the times of a reviewer's batches rise.
CandidateInv ==
    /\ inventory \in Inventories
    /\ batches \in Seq(Batches)
    /\ packet = NoPacket => batches = <<>> /\ derived = NotDerived
    /\ packet # NoPacket => PacketBuilt
    /\ \A k \in 1..Len(batches) : \A c \in DOMAIN batches[k].answers :
          c \in Catalog /\ batches[k].answers[c] \in Fields(c[1])
    /\ TimesRise(batches)
    /\ derived # NotDerived => derived.at \in 0..Len(batches)

\* The three invariants that the run checks.
CandidateSafety == OnlyUncontested /\ GroupsAreComponents /\ NoSilentLeak

LEMMA CatalogFinite ==
    ASSUME inventory \in Inventories
    PROVE  IsFiniteSet(Catalog)
<1> DEFINE S == ({"pair", "near", "box", "source"} \X (Images \cup {0})) \X (Images \cup {0, 1})
           f == [s \in S |-> <<s[1][1], s[1][2], s[2]>>]
           T == {f[s] : s \in S}
<1>1. IsFiniteSet(Images)
  BY ImagesFinite
<1>2. IsFiniteSet(Images \cup {0}) /\ IsFiniteSet((Images \cup {0}) \cup {1})
  BY <1>1, FS_AddElement
<1>3. IsFiniteSet({"pair"}) 
  BY FS_Singleton
<1>4. IsFiniteSet({"pair"} \cup {"near"})
  BY <1>3, FS_AddElement
<1>5. IsFiniteSet({"pair"} \cup {"near"} \cup {"box"})
  BY <1>4, FS_AddElement
<1>6. IsFiniteSet({"pair"} \cup {"near"} \cup {"box"} \cup {"source"})
  BY <1>5, FS_AddElement
<1>7. IsFiniteSet(S)
  <2>1. /\ {"pair", "near", "box", "source"} = {"pair"} \cup {"near"} \cup {"box"} \cup {"source"}
        /\ Images \cup {0, 1} = (Images \cup {0}) \cup {1}
    OBVIOUS
  <2>2. IsFiniteSet({"pair", "near", "box", "source"} \X (Images \cup {0}))
    BY <1>2, <1>6, <2>1, FS_Product
  <2>3. IsFiniteSet(Images \cup {0, 1})
    BY <1>2, <2>1
  <2> QED
    BY <2>2, <2>3, FS_Product
<1>8. IsFiniteSet(T)
  <2>1. f \in Surjection(S, T)
    BY DEF Surjection
  <2> HIDE DEF S, f, T
  <2> QED
    BY <1>7, <2>1, FS_Surjection
<1>9. \A kind \in {"pair", "near", "box", "source"} :
        \A i \in Images \cup {0} : \A j \in Images \cup {0, 1} : <<kind, i, j>> \in T
  <2> SUFFICES ASSUME NEW kind \in {"pair", "near", "box", "source"},
                      NEW i \in Images \cup {0}, NEW j \in Images \cup {0, 1}
               PROVE  <<kind, i, j>> \in T
    OBVIOUS
  <2>1. <<<<kind, i>>, j>> \in S
    OBVIOUS
  <2>2. f[<<<<kind, i>>, j>>] = <<kind, i, j>>
    BY <2>1
  <2> QED
    BY <2>1, <2>2
<1>10. Catalog \subseteq T
  <2> HIDE DEF T
  <2>1. \A p \in inventory.pairs \cup NearPairs : p[1] \in Images /\ p[2] \in Images
    BY ImagesFinite DEF NearPairs
  <2>2. \A i \in inventory.boxes : i \in Images
    BY ImagesFinite
  <2>3. ASSUME NEW c \in Catalog
        PROVE  \E kind \in {"pair", "near", "box", "source"} :
                 \E i \in Images \cup {0} : \E j \in Images \cup {0, 1} : c = <<kind, i, j>>
    BY <2>1, <2>2 DEF Catalog
  <2> QED
    BY <2>3, <1>9
<1> QED
  <2> HIDE DEF T
  <2> QED
    BY <1>8, <1>10, FS_Subset

LEMMA CandidateInitInv ==
    CandidateInit => CandidateInv /\ CandidateSafety
<1> SUFFICES ASSUME CandidateInit PROVE CandidateInv /\ CandidateSafety
  OBVIOUS
<1>1. Len(batches) = 0 /\ batches \in Seq(Batches) /\ 1..0 = {}
  BY DEF CandidateInit
<1>2. TimesRise(batches)
  BY <1>1 DEF TimesRise
<1> QED
  BY <1>1, <1>2 DEF CandidateInit, CandidateInv, CandidateSafety, OnlyUncontested,
     GroupsAreComponents, NoSilentLeak

LEMMA BuildPacketInv ==
    CandidateInv /\ CandidateSafety /\ BuildPacket => (CandidateInv /\ CandidateSafety)'
<1> SUFFICES ASSUME CandidateInv, BuildPacket
             PROVE  (CandidateInv /\ CandidateSafety)'
  OBVIOUS
<1> USE DEF CandidateInv, BuildPacket
<1>1. batches' = <<>> /\ derived' = NotDerived /\ inventory' = inventory
  OBVIOUS
<1>2. Len(batches') = 0 /\ batches' \in Seq(Batches) /\ 1..0 = {}
  BY <1>1
<1>3. PICK order \in SetToSeqs(Catalog) :
        packet' = [cases |-> order, groups |-> Groups(Forest(Images, inventory.pairs \cup PixelLinks))]
  OBVIOUS
<1>4. IsFiniteSet(Catalog) /\ Cardinality(Catalog) \in Nat
  BY CatalogFinite, FS_CardinalityType
<1>5. /\ order \in [1..Cardinality(Catalog) -> Catalog]
      /\ \A i, j \in 1..Cardinality(Catalog) : i # j => order[i] # order[j]
  BY DEF SetToSeqs
<1>6. {order[k] : k \in 1..Cardinality(Catalog)} = Catalog
  BY <1>4, <1>5, OrderedSet
<1>7. order \in Seq(Catalog) /\ ToSet(order) = Catalog
  BY <1>4, <1>5, <1>6 DEF ToSet
<1>8. Catalog' = Catalog /\ Images' = Images /\ PixelLinks' = PixelLinks
  BY <1>1 DEF Catalog, Images, PixelLinks, Rows, NearPairs
<1>9. PacketBuilt'
  BY <1>1, <1>3, <1>7, <1>8 DEF PacketBuilt
<1>10. TimesRise(batches')
  BY <1>2 DEF TimesRise
<1>11. CandidateInv'
  BY <1>1, <1>2, <1>9, <1>10
<1>12. CandidateSafety'
  BY <1>1 DEF CandidateSafety, OnlyUncontested, GroupsAreComponents, NoSilentLeak
<1> QED
  BY <1>11, <1>12

\* What was said when a candidate was derived does not change any more.
LEMMA ImportBatchInv ==
    ASSUME NEW b \in Batches, CandidateInv, CandidateSafety, ImportBatch(b)
    PROVE  (CandidateInv /\ CandidateSafety)'
<1> DEFINE n == Len(batches)
<1>0. n \in Nat /\ batches \in Seq(Batches) /\ DOMAIN batches = 1..n
  BY DEF CandidateInv
<1>1. /\ batches' \in Seq(Batches) /\ Len(batches') = n + 1
      /\ batches'[n + 1] = b /\ \A k \in 1..n : batches'[k] = batches[k]
  BY <1>0 DEF ImportBatch
<1>2. /\ packet # NoPacket /\ packet' = packet /\ inventory' = inventory /\ derived' = derived
      /\ ValidBatch(b) /\ Timely(b)
  BY DEF ImportBatch
<1>3. Catalog' = Catalog /\ Images' = Images /\ PixelLinks' = PixelLinks /\ Rows' = Rows
  BY <1>2 DEF Catalog, Images, PixelLinks, Rows, NearPairs
<1>4. PacketBuilt'
  BY <1>2, <1>3 DEF CandidateInv, PacketBuilt
<1>5. \A k \in 1..(n + 1) : k \in 1..n \/ k = n + 1
  BY <1>0
<1>6. ASSUME NEW k \in 1..(n + 1), NEW c \in DOMAIN batches'[k].answers
      PROVE  c \in Catalog /\ batches'[k].answers[c] \in Fields(c[1])
  <2>1. CASE k \in 1..n
    BY <1>1, <1>6, <2>1 DEF CandidateInv
  <2>2. CASE k = n + 1
    <3>1. ToSet(packet.cases) = Catalog
      BY <1>2 DEF CandidateInv, PacketBuilt
    <3>2. c \in DOMAIN b.answers
      BY <1>1, <1>6, <2>2
    <3> QED
      BY <1>1, <1>2, <2>2, <3>1, <3>2 DEF ValidBatch
  <2> QED
    BY <1>5, <2>1, <2>2
<1>7. TimesRise(batches')
  <2> SUFFICES ASSUME NEW i \in 1..(n + 1), NEW j \in 1..(n + 1), NEW c \in DOMAIN batches'[i].answers,
                      i < j, batches'[i].reviewer = batches'[j].reviewer,
                      c \in DOMAIN batches'[j].answers
               PROVE  batches'[i].time < batches'[j].time
    BY <1>1 DEF TimesRise
  <2>1. i \in 1..n
    BY <1>0
  <2>2. CASE j \in 1..n
    BY <1>1, <2>1, <2>2 DEF CandidateInv, TimesRise
  <2>3. CASE j = n + 1
    <3> DEFINE r == b.reviewer
               k == CurrentBatch(c, r)
    <3>1. i \in Answering(c, r) /\ c \in DOMAIN b.answers
      BY <1>0, <1>1, <2>1, <2>3 DEF Answering
    <3>2. k \in Answering(c, r) /\ i <= k
      BY <1>0, <3>1, CurrentIsFinal
    <3>3. batches[k].time < b.time
      BY <1>2, <3>1 DEF Timely
    <3>4. k \in 1..n /\ c \in DOMAIN batches[k].answers /\ batches[k].reviewer = r
      BY <1>0, <3>2 DEF Answering
    <3>5. batches[i].time \in Int /\ batches[k].time \in Int /\ b.time \in Int
      BY <1>0, <2>1, <3>4, CandidateAssumption
    <3>6. i = k \/ batches[i].time < batches[k].time
      <4>1. i = k \/ i < k
        BY <1>0, <2>1, <3>2, <3>4
      <4>2. c \in DOMAIN batches[i].answers /\ batches[i].reviewer = r
        BY <3>1 DEF Answering
      <4> QED
        BY <2>1, <3>4, <4>1, <4>2 DEF CandidateInv, TimesRise
    <3>7. batches[i].time < b.time
      BY <3>3, <3>5, <3>6
    <3> QED
      BY <1>1, <2>1, <2>3, <3>7
  <2> QED
    BY <1>5, <2>2, <2>3
<1>8. derived' # NotDerived => derived'.at \in 0..Len(batches')
  BY <1>0, <1>1, <1>2 DEF CandidateInv
<1>9. CandidateInv'
  BY <1>1, <1>2, <1>3, <1>4, <1>6, <1>7, <1>8 DEF CandidateInv
<1>10. ASSUME derived # NotDerived
       PROVE  \A c : SaidByAll(c)' = SaidByAll(c)
  <2>1. derived.at \in 0..n
    BY <1>10 DEF CandidateInv
  <2>2. {batches'[k] : k \in 1..derived.at} = {batches[k] : k \in 1..derived.at}
    <3>1. \A k \in 1..derived.at : k \in 1..n
      BY <1>0, <2>1
    <3> QED
      BY <1>1, <3>1
  <2>3. \A c, r : Said(c, r)' = Said(c, r)
    BY <1>2, <2>2 DEF Said
  <2> QED
    BY <2>3 DEF SaidByAll
<1>11. CASE derived = NotDerived
  BY <1>2, <1>9, <1>11 DEF CandidateSafety, OnlyUncontested, GroupsAreComponents, NoSilentLeak
<1>12. CASE derived # NotDerived
  <2>1. OnlyUncontested'
    BY <1>2, <1>3, <1>10, <1>12 DEF CandidateSafety, OnlyUncontested
  <2>2. GroupsAreComponents'
    BY <1>2, <1>3, <1>12 DEF CandidateSafety, GroupsAreComponents, Ties
  <2>3. NoSilentLeak'
    BY <1>2, <1>3, <1>10, <1>12 DEF CandidateSafety, NoSilentLeak
  <2> QED
    BY <1>9, <2>1, <2>2, <2>3 DEF CandidateSafety
<1> QED
  BY <1>11, <1>12

\* A recorded answer is to a case of the catalogue and fits its fields.
LEMMA AnswersFit ==
    ASSUME CandidateInv, NEW c, Status(c) = "recorded"
    PROVE  c \in Catalog /\ Answer(c) \in Fields(c[1])
<1>1. batches \in Seq(Batches) /\ TimesRise(batches)
  BY DEF CandidateInv
<1>2. Answer(c) \in SaidIn(batches, c)
  BY <1>1, Recorded
<1>3. PICK k \in 1..Len(batches) : Final(batches, c, k) /\ Answer(c) = batches[k].answers[c]
  BY <1>1, <1>2, SaidIsFinal
<1> QED
  BY <1>3 DEF CandidateInv, Final

LEMMA Kinds ==
    ASSUME NEW c \in Catalog
    PROVE  c[1] \in {"pair", "near", "box", "source"}
BY DEF Catalog

LEMMA OneAnswer ==
    ASSUME NEW S, NEW a \in [1..1 -> S]
    PROVE  a = <<a[1]>> /\ Range(a) = {a[1]} /\ a[1] \in S
BY DEF Range

\* What is approved has a recorded answer that rejects nothing.
LEMMA ApprovedIsClear ==
    ASSUME CandidateInv, NEW c \in Catalog, Approves(c)
    PROVE  /\ Status(c) = "recorded"
           /\ Range(Answer(c)) \cap {"needs_reference", "reject", "rejected"} = {}
<1>1. batches \in Seq(Batches) /\ TimesRise(batches)
  BY DEF CandidateInv
<1>2. Answer(c) # <<>>
  BY Kinds DEF Approves
<1>3. /\ Status(c) = "recorded" /\ "needs_reference" \notin Range(Answer(c))
      /\ Answer(c) \in Fields(c[1])
  BY <1>1, <1>2, Recorded, AnswersFit
<1>4. CASE c[1] = "pair"
  <2>1. Answer(c) = <<"confirmed", "confirmed", "confirmed">>
    BY <1>4 DEF Approves
  <2>2. Range(Answer(c)) = {"confirmed"}
    BY <2>1 DEF Range
  <2> QED
    BY <1>3, <2>2
<1>5. CASE c[1] = "box"
  <2>1. Answer(c) = <<"accept">>
    BY <1>5 DEF Approves
  <2>2. Range(Answer(c)) = {"accept"}
    BY <2>1 DEF Range
  <2> QED
    BY <1>3, <2>2
<1>6. CASE c[1] = "near"
  <2>1. Answer(c) \in [1..1 -> {"related", "unrelated", "needs_reference"}]
    BY <1>3, <1>6 DEF Fields
  <2>2. Range(Answer(c)) = {Answer(c)[1]} /\ Answer(c)[1] \in {"related", "unrelated", "needs_reference"}
    BY <2>1, OneAnswer
  <2> QED
    BY <1>3, <2>2
<1>7. CASE c[1] = "source"
  <2>1. Answer(c) \in [1..1 -> {"reviewed", "needs_reference"}]
    BY <1>3, <1>7 DEF Fields
  <2>2. Range(Answer(c)) = {Answer(c)[1]} /\ Answer(c)[1] \in {"reviewed", "needs_reference"}
    BY <2>1, OneAnswer
  <2> QED
    BY <1>3, <2>2
<1> QED
  BY <1>4, <1>5, <1>6, <1>7, Kinds

\* What derive() writes.
LEMMA Derived ==
    ASSUME CandidateInv, Derive
    PROVE  /\ PacketBuilt /\ packet # NoPacket
           /\ UNCHANGED <<inventory, packet, batches>>
           /\ derived'.groups = Groups(Settled)
           /\ derived'.links = Related
           /\ derived'.applied = {c \in Catalog : c[1] = "box" /\ Answer(c) = <<"accept">>}
           /\ derived'.blocked = {c \in Catalog : ~ Approves(c)} \cup Contradicted(Settled)
           /\ derived'.at = Len(batches)
           /\ \A c : SaidByAll(c)' = SaidIn(batches, c)
<1>1. PacketBuilt /\ packet # NoPacket /\ UNCHANGED <<inventory, packet, batches>>
  BY DEF Derive, CandidateInv
<1>2. ToSet(packet.cases) = Catalog
  BY <1>1 DEF PacketBuilt
<1>3. /\ derived'.groups = Groups(Settled)
      /\ derived'.links = Related
      /\ derived'.applied = {c \in Catalog : c[1] = "box" /\ Answer(c) = <<"accept">>}
      /\ derived'.blocked = {c \in Catalog : ~ Approves(c)} \cup Contradicted(Settled)
      /\ derived'.at = Len(batches)
  BY <1>2 DEF Derive, Related
<1>4. \A c, r : Said(c, r)' = SaidOf(batches, c, r)
  BY <1>1, <1>3 DEF Said, SaidOf
<1>5. \A c : SaidByAll(c)' = SaidIn(batches, c)
  BY <1>4 DEF SaidByAll, SaidIn
<1> QED
  BY <1>1, <1>3, <1>5

\* The settled groups are the components of the ties.
LEMMA SettledGroups ==
    ASSUME CandidateInv, PacketBuilt
    PROVE  /\ Components(Groups(Settled), Images, TiesNow)
           /\ \A i, j \in Images : (\E g \in Groups(Settled) : {i, j} \subseteq g)
                                      <=> Root(Settled, i) = Root(Settled, j)
           /\ \A link \in TiesNow : Same(Settled, link)
<1>1. inventory \in Inventories
  BY DEF CandidateInv
<1>2. TiesNow \in SUBSET (Images \X Images)
  <2>1. \A c \in Related : c \in Catalog /\ c[1] = "near"
    BY DEF Related, PacketBuilt
  <2>2. \A c \in Related : <<c[2], c[3]>> \in Images \X Images
    BY <2>1, NearCases DEF NearPairs
  <2> QED
    BY <1>1, <2>2, ImagesFinite DEF TiesNow, PixelLinks
<1>3. /\ Settled \in Trees(Images)
      /\ \A link \in TiesNow : Same(Settled, link)
      /\ \A part : (\A link \in TiesNow : link[1] \in part <=> link[2] \in part)
                      => Keeps(Settled, Images, part)
  BY <1>1, SettledLinks
<1> QED
  BY <1>2, <1>3, GroupsOfForest

\* What a derivation applies is what every reviewer of the case said last.
LEMMA DeriveUncontested ==
    ASSUME CandidateInv, Derive
    PROVE  OnlyUncontested'
<1>1. batches \in Seq(Batches) /\ TimesRise(batches) /\ ToSet(packet.cases) = Catalog
  BY Derived DEF CandidateInv, PacketBuilt
<1>2. Catalog' = Catalog
  BY Derived DEF Catalog, NearPairs, Images, Rows
<1>3. ASSUME NEW c \in derived'.links
      PROVE  SaidByAll(c)' = {<<"related">>}
  <2>1. c \in Related
    BY Derived
  <2>2. Answer(c) = <<"related">>
    BY <2>1 DEF Related
  <2>3. Answer(c) # <<>>
    BY <2>2
  <2> QED
    BY <1>1, <2>2, <2>3, Recorded, Derived
<1>4. ASSUME NEW c \in derived'.applied
      PROVE  SaidByAll(c)' = {<<"accept">>}
  <2>1. Answer(c) = <<"accept">>
    BY Derived
  <2>2. Answer(c) # <<>>
    BY <2>1
  <2> QED
    BY <1>1, <2>1, <2>2, Recorded, Derived
<1>5. ASSUME NEW c \in Catalog \ derived'.blocked
      PROVE  /\ Cardinality(SaidByAll(c)') = 1
             /\ \A a \in SaidByAll(c)' : Range(a) \cap {"needs_reference", "reject", "rejected"} = {}
  <2>1. Approves(c)
    BY Derived
  <2>2. SaidByAll(c)' = {Answer(c)}
    BY <1>1, <2>1, ApprovedIsClear, Recorded, Derived
  <2> QED
    BY <2>1, <2>2, ApprovedIsClear, FS_Singleton
<1> QED
  BY <1>2, <1>3, <1>4, <1>5 DEF OnlyUncontested

\* The groups derived are the components of the ties.
LEMMA DeriveComponents ==
    ASSUME CandidateInv, Derive
    PROVE  GroupsAreComponents'
<1>1. Components(Groups(Settled), Images, TiesNow)
  BY Derived, SettledGroups
<1>2. Images' = Images /\ Ties' = TiesNow
  BY Derived DEF Images, Rows, Ties, TiesNow, PixelLinks
<1>3. derived'.groups = Groups(Settled)
  BY Derived
<1> QED
  BY <1>1, <1>2, <1>3 DEF GroupsAreComponents, Components

\* Captures of different splits that look alike end in one group, or were called
\* unrelated, or the candidate is blocked.
LEMMA DeriveNoSilentLeak ==
    ASSUME CandidateInv, Derive
    PROVE  NoSilentLeak'
<1> DEFINE together(i, j) == Root(Settled, i) = Root(Settled, j)
<1>1. /\ batches \in Seq(Batches) /\ TimesRise(batches) /\ ToSet(packet.cases) = Catalog
      /\ inventory \in Inventories /\ PacketBuilt
  BY Derived DEF CandidateInv, PacketBuilt
<1>2. Images' = Images /\ Rows' = Rows
  BY Derived DEF Images, Rows
<1>3. \A i, j \in Images : (\E g \in derived'.groups : {i, j} \subseteq g) <=> together(i, j)
  BY <1>1, SettledGroups, Derived
<1>4. \A i, j \in Images : <<i, j>> \in TiesNow => together(i, j)
  BY <1>1, SettledGroups DEF Same
<1>5. SUFFICES
        ASSUME derived'.blocked = {}, NEW i \in Images, NEW j \in Images
        PROVE  /\ Rows[i].pixels = Rows[j].pixels => together(i, j)
               /\ i < j /\ Alike(Rows[i], Rows[j])
                    => together(i, j) \/ SaidIn(batches, <<"near", i, j>>) = {<<"unrelated">>}
               /\ SaidIn(batches, <<"near", i, j>>) = {<<"unrelated">>} => ~ together(i, j)
  <2>1. \A i, j : SaidByAll(<<"near", i, j>>)' = SaidIn(batches, <<"near", i, j>>)
    BY Derived
  <2>2. \A i, j : Alike(Rows[i], Rows[j])' <=> Alike(Rows[i], Rows[j])
    BY <1>2 DEF Alike
  <2>3. SUFFICES
          ASSUME derived'.blocked = {}, NEW i \in Images, NEW j \in Images
          PROVE  LET inOne == \E g \in derived'.groups : {i, j} \subseteq g IN
                 /\ Rows'[i].pixels = Rows'[j].pixels => inOne
                 /\ i < j /\ Alike(Rows[i], Rows[j])'
                      => inOne \/ SaidByAll(<<"near", i, j>>)' = {<<"unrelated">>}
                 /\ SaidByAll(<<"near", i, j>>)' = {<<"unrelated">>} => ~ inOne
    BY <1>2 DEF NoSilentLeak
  <2> QED
    BY <1>2, <1>3, <1>5, <2>1, <2>2, <2>3
<1>6. \A c \in Catalog : Approves(c) /\ c \notin Contradicted(Settled)
  BY <1>5, Derived
<1>7. i \in Nat /\ j \in Nat
  BY <1>1, ImagesFinite
<1>8. ASSUME Rows[i].pixels = Rows[j].pixels
      PROVE  together(i, j)
  <2>1. CASE i < j
    BY <1>4, <1>8, <2>1 DEF TiesNow, PixelLinks
  <2>2. CASE j < i
    BY <1>4, <1>8, <2>2 DEF TiesNow, PixelLinks
  <2> QED
    BY <1>7, <2>1, <2>2
<1>9. ASSUME i < j, Alike(Rows[i], Rows[j])
      PROVE  together(i, j) \/ SaidIn(batches, <<"near", i, j>>) = {<<"unrelated">>}
  <2> DEFINE c == <<"near", i, j>>
  <2>1. SUFFICES ASSUME Rows[i].pixels # Rows[j].pixels
                 PROVE  together(i, j) \/ SaidIn(batches, c) = {<<"unrelated">>}
    BY <1>8
  <2>2. <<i, j>> \in NearPairs
    <3>1. (Rows[i].dhash \cup Rows[j].dhash) \ (Rows[i].dhash \cap Rows[j].dhash)
            = (Rows[i].dhash \ Rows[j].dhash) \cup (Rows[j].dhash \ Rows[i].dhash)
      OBVIOUS
    <3> QED
      BY <1>9, <2>1, <3>1 DEF NearPairs, NearMatch, Alike
  <2>3. c \in Catalog
    BY <2>2 DEF Catalog
  <2>4. /\ Status(c) = "recorded" /\ SaidIn(batches, c) = {Answer(c)}
        /\ "needs_reference" \notin Range(Answer(c)) /\ Answer(c) \in Fields("near")
    BY <1>1, <1>6, <2>3, ApprovedIsClear, Recorded, AnswersFit
  <2>5. Answer(c) \in [1..1 -> {"related", "unrelated", "needs_reference"}]
    BY <2>4 DEF Fields
  <2>6. Answer(c) = <<"related">> \/ Answer(c) = <<"unrelated">>
    <3>1. /\ Answer(c) = <<Answer(c)[1]>> /\ Range(Answer(c)) = {Answer(c)[1]}
          /\ Answer(c)[1] \in {"related", "unrelated", "needs_reference"}
      BY <2>5, OneAnswer
    <3>2. Answer(c)[1] = "related" \/ Answer(c)[1] = "unrelated"
      BY <2>4, <3>1
    <3> QED
      BY <3>1, <3>2
  <2>7. CASE Answer(c) = <<"related">>
    <3>1. c \in Related
      BY <1>1, <2>3, <2>7 DEF Related
    <3>2. <<i, j>> \in TiesNow
      BY <3>1 DEF TiesNow
    <3> QED
      BY <3>2, <1>4
  <2> QED
    BY <2>4, <2>6, <2>7
<1>10. ASSUME SaidIn(batches, <<"near", i, j>>) = {<<"unrelated">>}
       PROVE  ~ together(i, j)
  <2> DEFINE c == <<"near", i, j>>
  <2>1. "needs_reference" \notin Range(<<"unrelated">>)
    BY DEF Range
  <2>2. Status(c) = "recorded" /\ Answer(c) = <<"unrelated">>
    BY <1>1, <1>10, <2>1, Recorded
  <2>3. c \in Catalog
    BY <2>2, AnswersFit
  <2> QED
    BY <1>1, <1>6, <2>2, <2>3 DEF Contradicted
<1> QED
  BY <1>8, <1>9, <1>10

LEMMA DeriveInv ==
    ASSUME CandidateInv, Derive
    PROVE  (CandidateInv /\ CandidateSafety)'
<1>1. /\ packet # NoPacket /\ packet' = packet /\ batches' = batches /\ inventory' = inventory
      /\ derived'.at = Len(batches) /\ Len(batches) \in Nat
  BY Derived DEF CandidateInv
<1>2. Catalog' = Catalog /\ PacketBuilt'
  BY <1>1, Derived DEF PacketBuilt, Catalog, NearPairs, PixelLinks, Images, Rows
<1>3. CandidateInv'
  BY <1>1, <1>2 DEF CandidateInv
<1> QED
  BY <1>3, DeriveUncontested, DeriveComponents, DeriveNoSilentLeak DEF CandidateSafety

LEMMA CandidateHolds ==
    CandidateSpec => [](CandidateInv /\ CandidateSafety)
<1>1. CandidateInit => CandidateInv /\ CandidateSafety
  BY CandidateInitInv
<1>2. CandidateInv /\ CandidateSafety /\ [CandidateNext]_candidateVars => (CandidateInv /\ CandidateSafety)'
  <2> SUFFICES ASSUME CandidateInv, CandidateSafety, [CandidateNext]_candidateVars
               PROVE  (CandidateInv /\ CandidateSafety)'
    OBVIOUS
  <2>1. CASE BuildPacket
    BY <2>1, BuildPacketInv
  <2>2. ASSUME NEW b \in Batches, ImportBatch(b)
        PROVE  (CandidateInv /\ CandidateSafety)'
    BY <2>2, ImportBatchInv
  <2>3. CASE Derive
    BY <2>3, DeriveInv
  <2>4. CASE UNCHANGED candidateVars
    <3>1. /\ inventory' = inventory /\ packet' = packet /\ batches' = batches
          /\ derived' = derived
      BY <2>4 DEF candidateVars
    <3>2. /\ Catalog' = Catalog /\ Images' = Images /\ Rows' = Rows /\ PixelLinks' = PixelLinks
          /\ Ties' = Ties
      BY <3>1 DEF Catalog, NearPairs, PixelLinks, Images, Rows, Ties
    <3>3. \A c : SaidByAll(c)' = SaidByAll(c)
      BY <3>1 DEF SaidByAll, Said
    <3>4. CandidateInv'
      BY <3>1, <3>2 DEF CandidateInv, PacketBuilt
    <3>5. OnlyUncontested'
      BY <3>1, <3>2, <3>3 DEF CandidateSafety, OnlyUncontested
    <3>6. GroupsAreComponents'
      BY <3>1, <3>2 DEF CandidateSafety, GroupsAreComponents
    <3>7. NoSilentLeak'
      BY <3>1, <3>2, <3>3 DEF CandidateSafety, NoSilentLeak
    <3> QED
      BY <3>4, <3>5, <3>6, <3>7 DEF CandidateSafety
  <2> QED
    BY <2>1, <2>2, <2>3, <2>4 DEF CandidateNext
<1> QED
  BY <1>1, <1>2, PTL DEF CandidateSpec

\* Candidate review keeps its packet, batches and derivation in step.
THEOREM CandidateInvariance == CandidateSpec => []CandidateInv
BY CandidateHolds, PTL

\* A derivation links, corrects or clears only what every reviewer of the case
\* agrees with in the latest thing he said (candidate_derive.py).
THEOREM Uncontested == CandidateSpec => []OnlyUncontested
<1>1. CandidateSafety => OnlyUncontested
  BY DEF CandidateSafety
<1> QED
  BY <1>1, CandidateHolds, PTL

\* The groups derived are the connected components of all that ties two images,
\* in whatever order the union-find takes the cases (derive).
THEOREM GroupsConnected == CandidateSpec => []GroupsAreComponents
<1>1. CandidateSafety => GroupsAreComponents
  BY DEF CandidateSafety
<1> QED
  BY <1>1, CandidateHolds, PTL

\* No two captures that look alike leave review in two splits unless a reviewer
\* said that they are unrelated or the candidate is blocked (derive).
THEOREM LeaksNamed == CandidateSpec => []NoSilentLeak
<1>1. CandidateSafety => NoSilentLeak
  BY DEF CandidateSafety
<1> QED
  BY <1>1, CandidateHolds, PTL

LEMMA BoundExists ==
    ASSUME NEW n \in Nat, NEW f, \A k \in 1..n : f[k] \in Nat
    PROVE  \E N \in Nat : \A k \in 1..n : f[k] <= N
<1> DEFINE Has(m) == \E N \in Nat : \A k \in 1..m : f[k] <= N
           T == {m \in 0..n : ~ Has(m)}
<1>1. SUFFICES T = {}
  <2>1. n \in 0..n /\ (n \notin T => Has(n))
    OBVIOUS
  <2> QED
    BY <2>1
<1>2. SUFFICES ASSUME NEW m \in T, \A k \in T : m <= k
               PROVE  FALSE
  <2>1. T \subseteq Nat
    OBVIOUS
  <2> HIDE DEF T
  <2> QED
    BY <2>1, LeastOf
<1>3. CASE m = 0
  <2>1. 1..0 = {}
    OBVIOUS
  <2>2. Has(0)
    BY <2>1
  <2> QED
    BY <2>2, <1>3
<1>4. CASE m # 0
  <2>1. m - 1 \in 0..n /\ m \in 1..n /\ ~ (m <= m - 1)
    BY <1>4
  <2>2. PICK N \in Nat : \A k \in 1..(m - 1) : f[k] <= N
    BY <2>1, <1>2
  <2>3. N + f[m] \in Nat /\ \A k \in 1..m : f[k] <= N + f[m]
    <3>1. f[m] \in Nat /\ \A k \in 1..m : k = m \/ k \in 1..(m - 1)
      BY <2>1
    <3>2. \A k \in 1..m : f[k] \in Nat
      BY <2>1
    <3>3. \A a, b, c \in Nat : (a <= b => a <= b + c) /\ c <= b + c /\ b + c \in Nat
      OBVIOUS
    <3>4. \A k \in 1..(m - 1) : f[k] <= N /\ k \in 1..m
      BY <2>1, <2>2
    <3> QED
      BY <2>2, <3>1, <3>2, <3>3, <3>4
  <2>4. Has(m)
    BY <2>3
  <2> QED
    BY <2>4
<1> QED
  BY <1>3, <1>4

\* The families that the archive's file names give.
Families == {Archive[j].family : j \in DOMAIN Archive}

LEMMA FamiliesFinite ==
    /\ IsFiniteSet(Families) /\ IsFiniteSet(DOMAIN Archive)
    /\ \E N \in Nat : \A v \in Families : v \in Nat /\ v <= N
<1> DEFINE n == Len(Archive)
           f == [k \in 1..n |-> Archive[k].family]
<1>1. n \in Nat /\ DOMAIN Archive = 1..n /\ f \in [1..n -> Nat]
  BY ReleaseAssumption
<1>2. Families = {f[k] : k \in 1..n}
  BY <1>1 DEF Families
<1>3. IsFiniteSet(Families)
  <2> HIDE DEF f, n
  <2> QED
    BY <1>1, <1>2, FiniteImage
<1>4. \E N \in Nat : \A k \in 1..n : f[k] <= N
  <2> HIDE DEF f, n
  <2>1. \A k \in 1..n : f[k] \in Nat
    BY <1>1
  <2> QED
    BY <1>1, <2>1, BoundExists
<1>5. \E N \in Nat : \A v \in Families : v \in Nat /\ v <= N
  <2> HIDE DEF f, n
  <2> QED
    BY <1>1, <1>2, <1>4
<1>6. IsFiniteSet(1..n)
  BY <1>1, FS_Interval
<1> QED
  BY <1>1, <1>3, <1>5, <1>6

\* A merge that was decided puts both families into one group.
LEMMA MergedTogether ==
    ASSUME NEW decisions, DOMAIN decisions = Candidates,
           NEW p \in Candidates, decisions[p] = "merge_conservatively"
    PROVE  GroupOf(decisions, p[1]) = GroupOf(decisions, p[2])
<1> DEFINE merged == {q \in DOMAIN decisions : decisions[q] = "merge_conservatively"}
           links == {<<Archive[q[1]].family, Archive[q[2]].family>> : q \in merged}
           forest == Forest(Families, links)
<1>1. \A q \in merged : q[1] \in DOMAIN Archive /\ q[2] \in DOMAIN Archive
  BY DEF Candidates
<1>2. links \in SUBSET (Families \X Families)
  BY <1>1 DEF Families
<1>3. IsFiniteSet(Families \X Families)
  BY FamiliesFinite, FS_Product
<1>4. IsFiniteSet(links)
  <2> HIDE DEF links
  <2> QED
    BY <1>2, <1>3, FS_Subset
<1>5. \A i : GroupOf(decisions, i) = Root(forest, Archive[i].family)
  BY DEF GroupOf, Families
<1>6. <<Archive[p[1]].family, Archive[p[2]].family>> \in links
  OBVIOUS
<1> HIDE DEF links, forest
<1>7. PICK N \in Nat : \A v \in Families : v \in Nat /\ v <= N
  BY FamiliesFinite
<1>8. \A link \in links : Same(forest, link)
  BY <1>2, <1>4, <1>7, ForestConnects DEF forest
<1> QED
  BY <1>5, <1>6, <1>8 DEF Same

-----------------------------------------------------------------------------
(* The release *)

\* A manifest that is the one built from the reviews it claims.
IsRelease(r) == r.used \in DOMAIN Built /\ r.manifest = Built[r.used]

\* What is on disk or in the builder's hands was built from some version of the
\* reviews, and a report that says ready is about a manifest with no violation.
ReleaseInv ==
    /\ DOMAIN disk = {"images", "evidence", "manifest", "release", "validation"}
    /\ OnDisk("release") => IsRelease(disk.release)
    /\ OnDisk("validation") /\ disk.validation.ready => Clean(disk.validation.manifest)
    /\ builder.pc # "idle" => builder.used \in DOMAIN Built
    /\ builder.pc \notin {"idle", "frozen"} => IsRelease(builder.release)

\* The samples of a manifest are apart, going by the decisions it was built with.
ApartUnder(used, manifest) ==
    \A i, j \in DOMAIN manifest : manifest[i].split # manifest[j].split =>
        /\ Archive[i].family # Archive[j].family
        /\ Distance(Archive[i].look[1], Archive[j].look[1]) > LeakDistance
        /\ {<<i, j>>, <<j, i>>} \cap Candidates \subseteq
             {p \in DOMAIN used : used[p] = "different_layout"}

\* A clean build keeps every family and every reviewed group in one split.
LEMMA BuiltApart ==
    ASSUME NEW used \in DOMAIN Built, Clean(Built[used])
    PROVE  ApartUnder(used, Built[used]) /\ DOMAIN Built[used] = DOMAIN Archive
<1>1. used \in Reviews /\ Buildable(used) /\ Built[used] = ManifestOf(used)
  BY DEF Built
<1>2. DOMAIN used = Candidates /\ Range(used) \subseteq {"merge_conservatively", "different_layout"}
  BY <1>1 DEF Buildable
<1>3. DOMAIN Built[used] = DOMAIN Archive
  BY <1>1 DEF ManifestOf
<1>4. \A i \in DOMAIN Archive : Built[used][i].group = GroupOf(used, i)
  BY <1>1 DEF ManifestOf, GroupsUnder
<1>5. ASSUME NEW i \in DOMAIN Archive, NEW j \in DOMAIN Archive,
             Built[used][i].split # Built[used][j].split
      PROVE  /\ Archive[i].family # Archive[j].family
             /\ Distance(Archive[i].look[1], Archive[j].look[1]) > LeakDistance
             /\ {<<i, j>>, <<j, i>>} \cap Candidates \subseteq
                  {p \in DOMAIN used : used[p] = "different_layout"}
  <2>1. /\ Built[used][i].group # Built[used][j].group
        /\ Distance(Archive[i].look[1], Archive[j].look[1]) > LeakDistance
    BY <1>3, <1>5 DEF Clean
  <2>2. GroupOf(used, i) # GroupOf(used, j)
    BY <1>4, <2>1
  <2>3. Archive[i].family # Archive[j].family
    BY <2>2 DEF GroupOf
  <2>4. ASSUME NEW p \in {<<i, j>>, <<j, i>>} \cap Candidates
        PROVE  p \in DOMAIN used /\ used[p] = "different_layout"
    <3>1. GroupOf(used, p[1]) # GroupOf(used, p[2])
      BY <2>2
    <3>2. used[p] # "merge_conservatively"
      BY <1>2, <3>1, MergedTogether
    <3>3. used[p] \in Range(used)
      BY <1>2 DEF Range
    <3> QED
      BY <1>2, <3>2, <3>3
  <2> QED
    BY <2>1, <2>3, <2>4
<1> QED
  BY <1>3, <1>5 DEF ApartUnder

\* So does the manifest on disk when it verifies.
LEMMA VerifiedApart ==
    ASSUME ReleaseInv, Verified
    PROVE  /\ ApartUnder(disk.release.used, disk.manifest) /\ Clean(disk.manifest)
           /\ DOMAIN disk.manifest = DOMAIN Archive
<1>1. /\ IsRelease(disk.release) /\ disk.release.manifest = disk.manifest
      /\ Clean(disk.manifest)
  BY DEF ReleaseInv, Verified
<1> QED
  BY <1>1, BuiltApart DEF IsRelease

LEMMA ReleaseImplies ==
    ReleaseInv => VerifiedIsApart
<1> SUFFICES ASSUME ReleaseInv, Verified
             PROVE  /\ \A i, j \in DOMAIN disk.manifest :
                         disk.manifest[i].split # disk.manifest[j].split => Unrelated(i, j)
                    /\ \A split \in {"train", "validation", "test"} :
                         HasEveryClass({i \in DOMAIN disk.manifest : disk.manifest[i].split = split})
  BY DEF VerifiedIsApart
<1>1. ApartUnder(disk.release.used, disk.manifest) /\ Clean(disk.manifest)
  BY VerifiedApart
<1> QED
  BY <1>1 DEF ApartUnder, Clean, Unrelated

LEMMA ReleaseInitInv ==
    ReleaseInit => ReleaseInv
BY DEF ReleaseInit, ReleaseInv, OnDisk, NoBuild

LEMMA PrepareInv ==
    ReleaseInv /\ (Prepare \/ EditManifest) => ReleaseInv'
<1> SUFFICES ASSUME ReleaseInv, Prepare \/ EditManifest
             PROVE  ReleaseInv'
  OBVIOUS
<1>1. CASE StartBuild
  BY <1>1 DEF StartBuild, ReleaseInv, OnDisk
<1>2. CASE CheckFrozen
  BY <1>2 DEF CheckFrozen, ReleaseInv, OnDisk, NoBuild, IsRelease
<1>3. CASE FrozenWrite
  <2> DEFINE file == builder.pc
  <2>1. /\ file \in {"images", "evidence", "manifest", "release"}
        /\ IsRelease(builder.release) /\ builder.used \in DOMAIN Built
    BY <1>3 DEF FrozenWrite, ReleaseInv
  <2>2. CASE ~ Freezable(file)
    BY <1>3, <2>2 DEF FrozenWrite, ReleaseInv, OnDisk, NoBuild
  <2>3. CASE Freezable(file)
    <3>1. /\ disk' = [disk EXCEPT ![file] = Content(file)]
          /\ builder' = IF file = "release" THEN NoBuild ELSE [builder EXCEPT !.pc = NextFile[file]]
      BY <1>3, <2>3 DEF FrozenWrite
    <3>2. DOMAIN disk' = DOMAIN disk /\ disk'.validation = disk.validation
      BY <3>1, <2>1
    <3>3. OnDisk("release")' => IsRelease(disk'.release)
      BY <3>1, <2>1 DEF ReleaseInv, OnDisk, Content
    <3>4. \/ builder' = NoBuild
          \/ builder'.used = builder.used /\ builder'.release = builder.release
      BY <3>1, <2>1 DEF ReleaseInv
    <3> QED
      BY <2>1, <3>2, <3>3, <3>4 DEF ReleaseInv, OnDisk, NoBuild
  <2> QED
    BY <2>2, <2>3
<1>4. CASE KillBuild
  <2>1. /\ builder' = NoBuild /\ DOMAIN disk' = DOMAIN disk
        /\ disk'.release \in {disk.release, Torn} /\ disk'.validation \in {disk.validation, Torn}
    BY <1>4 DEF KillBuild, ReleaseInv
  <2> QED
    BY <2>1 DEF ReleaseInv, OnDisk, NoBuild
<1>5. CASE ReadManifest
  BY <1>5 DEF ReadManifest, ReleaseInv, OnDisk
<1>6. CASE Report
  <2>1. /\ builder' = builder /\ DOMAIN disk' = DOMAIN disk /\ disk'.release = disk.release
        /\ \/ disk'.validation \in {disk.validation, Torn}
           \/ disk'.validation.ready => Clean(disk'.validation.manifest)
    BY <1>6 DEF Report, ReleaseInv
  <2> QED
    BY <2>1 DEF ReleaseInv, OnDisk
<1>7. CASE EditReview
  BY <1>7 DEF EditReview, ReleaseInv, OnDisk
<1>8. CASE DamageImage
  BY <1>8 DEF DamageImage, ReleaseInv, OnDisk
<1>9. CASE EditManifest
  BY <1>9 DEF EditManifest, ReleaseInv, OnDisk
<1> QED
  BY <1>1, <1>2, <1>3, <1>4, <1>5, <1>6, <1>7, <1>8, <1>9 DEF Prepare

LEMMA ReleaseStep ==
    ReleaseInv /\ [Next]_vars => ReleaseInv'
<1> SUFFICES ASSUME ReleaseInv, [Next]_vars
             PROVE  ReleaseInv'
  OBVIOUS
<1>1. CASE Prepare \/ EditManifest
  BY <1>1, PrepareInv
<1>2. CASE UNCHANGED releaseVars
  BY <1>2 DEF releaseVars, ReleaseInv, OnDisk
<1>3. Prepare \/ EditManifest \/ UNCHANGED releaseVars
  BY DEF Next, Released, Analyze, Audit, vars
<1> QED
  BY <1>1, <1>2, <1>3

-----------------------------------------------------------------------------
(* Sequences by recursion *)

\* Induction up to n.
LEMMA UpTo ==
    ASSUME NEW n \in Nat, NEW Good, 0 \in Good,
           \A k \in 1..n : k - 1 \in Good => k \in Good
    PROVE  \A k \in 0..n : k \in Good
<1> DEFINE T == {m \in 0..n : m \notin Good}
<1>1. SUFFICES T = {}
  OBVIOUS
<1>2. SUFFICES ASSUME NEW m \in T, \A k \in T : m <= k
               PROVE  FALSE
  <2>1. T \subseteq Nat
    OBVIOUS
  <2> HIDE DEF T
  <2> QED
    BY <2>1, LeastOf
<1>3. m # 0 /\ m \in 1..n /\ m - 1 \in 0..n /\ ~ (m <= m - 1)
  OBVIOUS
<1>4. m - 1 \in Good
  BY <1>2, <1>3
<1> QED
  BY <1>3, <1>4

\* A sequence that grows by one element or not at all.
AscendingRuns(S, n, u) ==
    /\ u \in [0..n -> Seq(S \cap (1..n))] /\ Ascending(S, n) = u[n] /\ u[0] = <<>>
    /\ \A k \in 1..n : u[k] = IF k \in S THEN Append(u[k - 1], k) ELSE u[k - 1]

LEMMA AscendingExists ==
    ASSUME NEW n \in Nat, NEW S
    PROVE  \E u : AscendingRuns(S, n, u)
<1> DEFINE X == Seq(S \cap (1..n))
           Runs(f) == f = [k \in 0..n |-> IF k = 0 THEN <<>>
                                          ELSE IF k \in S THEN Append(f[k - 1], k) ELSE f[k - 1]]
           upTo == CHOOSE f : Runs(f)
           G == [k \in 1..n |-> [s \in X |-> IF k \in S THEN Append(s, k) ELSE s]]
<1>1. G \in [1..n -> [X -> X]]
  OBVIOUS
<1>2. Iterates(n, X, <<>>, G)
  <2>1. <<>> \in X
    OBVIOUS
  <2> HIDE DEF G, X
  <2> QED
    BY <1>1, <2>1, RecursionExists
<1>3. PICK f \in [0..n -> X] : f[0] = <<>> /\ \A k \in 1..n : f[k] = G[k][f[k - 1]]
  BY <1>2 DEF Iterates
<1>4. \A k \in 1..n : f[k - 1] \in X /\ f[k] = IF k \in S THEN Append(f[k - 1], k) ELSE f[k - 1]
  <2>1. \A k \in 1..n : k - 1 \in 0..n
    OBVIOUS
  <2>2. \A k \in 1..n : f[k - 1] \in X
    BY <2>1
  <2> HIDE DEF X
  <2> QED
    BY <2>2, <1>3
<1> HIDE DEF X, G
<1>5. Runs(f)
  <2>1. \A k \in 0..n : k = 0 \/ k \in 1..n
    OBVIOUS
  <2> QED
    BY <2>1, <1>3, <1>4
<1>6. Runs(upTo)
  BY <1>5
<1>7. Ascending(S, n) = upTo[n]
  BY DEF Ascending
<1> HIDE DEF upTo
<1>8. /\ upTo[0] = <<>>
      /\ \A k \in 1..n : upTo[k] = IF k \in S THEN Append(upTo[k - 1], k) ELSE upTo[k - 1]
  <2>1. 0 \in 0..n /\ \A k \in 1..n : k \in 0..n /\ k # 0
    OBVIOUS
  <2> QED
    BY <2>1, <1>6
<1>9. upTo \in [0..n -> X]
  <2> DEFINE Good == {k \in 0..n : upTo[k] \in X}
  <2>1. 0 \in Good
    <3>1. <<>> \in X /\ 0 \in 0..n
      BY DEF X
    <3> QED
      BY <1>8, <3>1
  <2>2. ASSUME NEW k \in 1..n, k - 1 \in Good
        PROVE  k \in Good
    <3>1. k \in 0..n /\ upTo[k - 1] \in X
      BY <2>2
    <3>2. PICK r \in X : r = upTo[k - 1]
      BY <3>1
    <3>3. k \in S => Append(r, k) \in X
      BY DEF X
    <3> QED
      BY <1>8, <3>1, <3>2, <3>3
  <2>3. \A k \in 0..n : k \in Good
    <3> HIDE DEF Good
    <3> QED
      BY <2>1, <2>2, UpTo
  <2>4. DOMAIN upTo = 0..n /\ upTo = [k \in 0..n |-> upTo[k]]
    BY <1>6
  <2> QED
    BY <2>3, <2>4
<1> QED
  BY <1>7, <1>8, <1>9 DEF AscendingRuns, X

\* The ascending list of a set has its members, all of them.
LEMMA AscendingIs ==
    ASSUME NEW n \in Nat, NEW S
    PROVE  /\ Ascending(S, n) \in Seq(S \cap (1..n))
           /\ \A i \in S \cap (1..n) : \E k \in DOMAIN Ascending(S, n) : Ascending(S, n)[k] = i
<1> DEFINE X == Seq(S \cap (1..n))
<1>7. PICK upTo : AscendingRuns(S, n, upTo)
  BY AscendingExists
<1>8. /\ upTo[0] = <<>> /\ Ascending(S, n) = upTo[n]
      /\ \A k \in 1..n : upTo[k] = IF k \in S THEN Append(upTo[k - 1], k) ELSE upTo[k - 1]
  BY <1>7 DEF AscendingRuns
<1> HIDE DEF X
<1> DEFINE Has(s, i) == \E j \in DOMAIN s : s[j] = i
           Good == {k \in 0..n : upTo[k] \in X /\ \A i \in S \cap (1..k) : Has(upTo[k], i)}
<1>9. 0 \in Good
  <2>1. 0 \in 0..n /\ 1..0 = {} /\ <<>> \in X
    BY DEF X
  <2> QED
    BY <1>8, <2>1
<1>10. ASSUME NEW k \in 1..n, k - 1 \in Good
       PROVE  k \in Good
  <2>1. k \in 0..n /\ \A i \in 1..k : i = k \/ i \in 1..(k - 1)
    OBVIOUS
  <2>2. upTo[k - 1] \in X /\ \A i \in S \cap (1..(k - 1)) : Has(upTo[k - 1], i)
    BY <1>10
  <2>3. CASE k \notin S
    <3>1. upTo[k] = upTo[k - 1]
      BY <1>8, <2>3
    <3> QED
      BY <2>1, <2>2, <2>3, <3>1
  <2>4. CASE k \in S
    <3>1. PICK s \in X : s = upTo[k - 1]
      BY <2>2
    <3>2. upTo[k] = Append(s, k)
      BY <1>8, <2>4, <3>1
    <3>3. /\ Append(s, k) \in X /\ Len(Append(s, k)) = Len(s) + 1 /\ Append(s, k)[Len(s) + 1] = k
          /\ \A j \in DOMAIN s : j \in DOMAIN Append(s, k) /\ Append(s, k)[j] = s[j]
          /\ Len(s) + 1 \in DOMAIN Append(s, k)
      BY <2>4 DEF X
    <3>4. \A i \in S \cap (1..(k - 1)) : Has(s, i)
      BY <2>2, <3>1
    <3>5. \A i \in S \cap (1..k) : Has(Append(s, k), i)
      BY <2>1, <3>3, <3>4
    <3> QED
      BY <2>1, <3>2, <3>3, <3>5
  <2> QED
    BY <2>3, <2>4
<1>11. \A k \in 0..n : k \in Good
  <2> HIDE DEF Good
  <2> QED
    BY <1>9, <1>10, UpTo
<1>12. n \in Good
  BY <1>11
<1> QED
  BY <1>8, <1>12 DEF X

\* Every entry of s is an entry of t.
Within(s, t) == \A j \in DOMAIN s : \E k \in DOMAIN t : t[k] = s[j]

LEMMA WithinWithin ==
    \A r, s, t : Within(r, s) /\ Within(s, t) => Within(r, t)
<1> SUFFICES ASSUME NEW r, NEW s, NEW t, Within(r, s), Within(s, t), NEW j \in DOMAIN r
             PROVE  \E k \in DOMAIN t : t[k] = r[j]
  BY DEF Within
<1> QED
  BY DEF Within

\* Flattening loses no entry.
LEMMA FlattenIs ==
    ASSUME NEW X, NEW seqs \in Seq(Seq(X))
    PROVE  /\ FlattenSeq(seqs) \in Seq(X)
           /\ \A i \in DOMAIN seqs : Within(seqs[i], FlattenSeq(seqs))
<1> DEFINE n == Len(seqs)
           Y == Seq(X)
           Runs(f) == f = [i \in 1..n |-> IF i = 1 THEN seqs[i] ELSE f[i - 1] \o seqs[i]]
           flatten == CHOOSE f : Runs(f)
           G == [k \in 1..n |-> [s \in Y |-> s \o seqs[k]]]
<1>0. n \in Nat /\ \A k \in 1..n : seqs[k] \in Y
  OBVIOUS
<1>1. CASE n = 0
  <2>1. FlattenSeq(seqs) = seqs
    BY <1>1 DEF FlattenSeq
  <2>2. seqs = <<>> /\ <<>> \in Seq(X) /\ DOMAIN seqs = {}
    BY <1>1
  <2> QED
    BY <2>1, <2>2
<1>2. CASE n # 0
  <2>1. G \in [1..n -> [Y -> Y]]
    OBVIOUS
  <2>2. Iterates(n, Y, <<>>, G)
    <3>1. <<>> \in Y
      OBVIOUS
    <3> HIDE DEF G, Y, n
    <3> QED
      BY <1>0, <2>1, <3>1, RecursionExists
  <2>3. PICK f \in [0..n -> Y] : f[0] = <<>> /\ \A k \in 1..n : f[k] = G[k][f[k - 1]]
    BY <2>2 DEF Iterates
  <2>4. \A k \in 1..n : f[k - 1] \in Y /\ f[k] = f[k - 1] \o seqs[k]
    <3>1. \A k \in 1..n : k - 1 \in 0..n
      BY <1>0
    <3>2. \A k \in 1..n : f[k - 1] \in Y
      BY <3>1
    <3> HIDE DEF Y
    <3> QED
      BY <3>2, <2>3
  <2> DEFINE g == [i \in 1..n |-> f[i]]
  <2>5. Runs(g)
    <3>1. \A k \in 1..n : k # 1 => k - 1 \in 1..n
      BY <1>0
    <3>a. \A s \in Seq(X) : <<>> \o s = s
      OBVIOUS
    <3>b. 1 \in 1..n
      BY <1>0, <1>2
    <3>c. f[1] = f[1 - 1] \o seqs[1] /\ f[1 - 1] = <<>>
      <4>1. f[1 - 1] = f[0]
        OBVIOUS
      <4>2. f[1] = f[1 - 1] \o seqs[1]
        <5> HIDE DEF n, Y, G
        <5> QED
          BY <2>4, <3>b
      <4> QED
        BY <4>1, <4>2, <2>3
    <3>2. 1 \in 1..n /\ f[1] = seqs[1]
      BY <1>0, <3>a, <3>b, <3>c
    <3> QED
      BY <2>4, <3>1, <3>2
  <2>6. Runs(flatten)
    <3> HIDE DEF g
    <3> QED
      BY <2>5
  <2>7. FlattenSeq(seqs) = flatten[n]
    BY <1>2 DEF FlattenSeq
  <2> HIDE DEF flatten, G, Y
  <2>8. flatten[1] = seqs[1] /\ \A k \in 1..n : k # 1 => flatten[k] = flatten[k - 1] \o seqs[k]
    <3>1. 1 \in 1..n
      BY <1>0, <1>2
    <3> QED
      BY <3>1, <2>6
  <2> DEFINE Good == {k \in 0..n : k # 0 => /\ flatten[k] \in Y
                                            /\ \A i \in 1..k : Within(seqs[i], flatten[k])}
  <2>9. 0 \in Good
    BY <1>0
  <2>10. ASSUME NEW k \in 1..n, k - 1 \in Good
         PROVE  k \in Good
    <3>1. k \in 0..n /\ \A i \in 1..k : i = k \/ i \in 1..(k - 1)
      BY <1>0
    <3>2. CASE k = 1
      <4>1. \A i \in 1..k : i = 1
        BY <3>2
      <4> QED
        BY <1>0, <2>8, <3>1, <3>2, <4>1 DEF Within
    <3>3. CASE k # 1
      <4>1. PICK s \in Y : s = flatten[k - 1] /\ \A i \in 1..(k - 1) : Within(seqs[i], s)
        BY <2>10, <3>3
      <4>2. PICK t \in Y : t = seqs[k]
        BY <1>0
      <4>3. flatten[k] = s \o t
        BY <2>8, <3>3, <4>1, <4>2
      <4>4. /\ s \o t \in Y
            /\ \A j \in DOMAIN s : j \in DOMAIN (s \o t) /\ (s \o t)[j] = s[j]
            /\ \A j \in DOMAIN t : Len(s) + j \in DOMAIN (s \o t) /\ (s \o t)[Len(s) + j] = t[j]
        BY DEF Y
      <4>5. Within(s, s \o t) /\ Within(t, s \o t)
        <5> HIDE DEF Y
        <5> QED
          BY <4>4 DEF Within
      <4>6. \A i \in 1..(k - 1) : Within(seqs[i], s \o t)
        BY <4>1, <4>5, WithinWithin
      <4>7. \A i \in 1..k : Within(seqs[i], flatten[k])
        BY <3>1, <4>2, <4>3, <4>5, <4>6
      <4> QED
        BY <3>1, <4>3, <4>4, <4>7
    <3> QED
      BY <3>2, <3>3
  <2>11. \A k \in 0..n : k \in Good
    <3> HIDE DEF Good, n
    <3> QED
      BY <1>0, <2>9, <2>10, UpTo
  <2>12. n \in Good /\ n # 0
    BY <1>0, <1>2, <2>11
  <2>13. DOMAIN seqs = 1..n
    OBVIOUS
  <2> QED
    BY <2>7, <2>12, <2>13 DEF Y
<1> QED
  BY <1>1, <1>2

-----------------------------------------------------------------------------
(* Windows and views *)

\* Left, top, right and bottom.
Corners == Int \X Int \X Int \X Int

Divides(a, d) == \E q \in Nat : q = a \div d /\ q * d <= a /\ a < q * d + d

LEMMA DivNat ==
    ASSUME NEW a \in Nat, NEW d \in Nat, d > 0
    PROVE  Divides(a, d)
BY DEF Divides

\* Windows side by side: they start in the image, and whatever is as small as the overlap
\* lies in one of them.
LEMMA StartsIs ==
    ASSUME NEW length \in Nat, NEW size \in Nat, NEW overlap \in Nat, overlap < size
    PROVE  /\ Starts(length, size, overlap) \in Seq(Nat) /\ Starts(length, size, overlap) # <<>>
           /\ \A low, high \in Nat :
                low <= high /\ high <= length /\ high - low <= overlap =>
                  \E k \in DOMAIN Starts(length, size, overlap) :
                    /\ Starts(length, size, overlap)[k] <= low
                    /\ high <= Starts(length, size, overlap)[k] + size
<1>1. CASE length <= size
  <2>1. Starts(length, size, overlap) = <<0>>
    BY <1>1 DEF Starts
  <2>2. <<0>> \in Seq(Nat) /\ <<0>> # <<>> /\ 1 \in DOMAIN <<0>> /\ <<0>>[1] = 0
    OBVIOUS
  <2>3. \A low, high \in Nat : low <= high /\ high <= length => 0 <= low /\ high <= 0 + size
    BY <1>1
  <2> QED
    BY <2>1, <2>2, <2>3
<1>2. CASE length > size
  <2> DEFINE step == size - overlap
             last == length - size
             R == Regular(length, size, overlap)
             s == Starts(length, size, overlap)
  <2>1. step \in Nat /\ step > 0 /\ last \in Nat /\ last > 0
    BY <1>2
  <2>2. PICK q \in Nat : q = last \div step /\ q * step <= last /\ last < q * step + step
    <3> HIDE DEF step, last
    <3>1. Divides(last, step)
      BY <2>1, DivNat
    <3> QED
      BY <3>1 DEF Divides
  <2>3. R = [i \in 1..(q + 1) |-> (i - 1) * step]
    BY <2>2 DEF Regular
  <2>4. \A i \in 1..(q + 1) : (i - 1) * step \in Nat
    <3>1. \A a, b \in Nat : a * b \in Nat
      OBVIOUS
    <3>2. \A i \in 1..(q + 1) : i - 1 \in Nat
      BY <2>2
    <3> HIDE DEF step
    <3> QED
      BY <2>1, <3>1, <3>2
  <2>5. R \in Seq(Nat) /\ Len(R) = q + 1
    <3> HIDE DEF step, R
    <3> QED
      BY <2>2, <2>3, <2>4
  <2>6. s = IF Last(R) = last THEN R ELSE Append(R, last)
    BY <1>2 DEF Starts
  <2>7. /\ s \in Seq(Nat) /\ s # <<>>
        /\ \A i \in 1..(q + 1) : i \in DOMAIN s /\ s[i] = (i - 1) * step
        /\ \E k \in DOMAIN s : s[k] = last
    <3> HIDE DEF s, R, step, last
    <3>1. CASE Last(R) = last
      <4>1. s = R /\ R[q + 1] = last /\ q + 1 \in DOMAIN R /\ DOMAIN R = 1..(q + 1)
        BY <3>1, <2>2, <2>5, <2>6 DEF Last
      <4>2. \A i \in 1..(q + 1) : R[i] = (i - 1) * step
        BY <2>3
      <4>3. R # <<>> /\ R \in Seq(Nat)
        BY <2>2, <2>5
      <4> QED
        BY <4>1, <4>2, <4>3
    <3>2. CASE Last(R) # last
      <4>1. s = Append(R, last)
        BY <3>2, <2>6
      <4>2. /\ s \in Seq(Nat) /\ s # <<>> /\ Len(s) = q + 2 /\ s[q + 2] = last
            /\ \A i \in 1..(q + 1) : s[i] = R[i]
            /\ DOMAIN s = 1..(q + 2)
        BY <4>1, <2>1, <2>2, <2>5
      <4>3. q + 2 \in 1..(q + 2) /\ \A i \in 1..(q + 1) : i \in 1..(q + 2)
        BY <2>2
      <4> QED
        BY <4>2, <4>3, <2>3
    <3> QED
      BY <3>1, <3>2
  <2>8. ASSUME NEW low \in Nat, NEW high \in Nat, low <= high, high <= length,
               high - low <= overlap
        PROVE  \E k \in DOMAIN s : s[k] <= low /\ high <= s[k] + size
    <3>1. CASE low >= last
      <4>1. PICK k \in DOMAIN s : s[k] = last
        BY <2>7
      <4>2. last <= low /\ high <= last + size
        BY <3>1, <2>8
      <4> HIDE DEF s, last
      <4> QED
        BY <4>1, <4>2
    <3>2. CASE low < last
      <4>1. PICK p \in Nat : p = low \div step /\ p * step <= low /\ low < p * step + step
        <5> HIDE DEF step
        <5>1. Divides(low, step)
          BY <2>1, DivNat
        <5> QED
          BY <5>1 DEF Divides
      <4>2. p <= q
        <5>1. SUFFICES ASSUME p > q PROVE FALSE
          BY <2>2, <4>1
        <5>2. p * step >= (q + 1) * step
          <6>1. \A a, b, c \in Nat : a >= b => a * c >= b * c
            OBVIOUS
          <6>2. p >= q + 1 /\ q + 1 \in Nat
            BY <5>1, <2>2, <4>1
          <6> HIDE DEF step
          <6> QED
            BY <6>1, <6>2, <2>1
        <5>3. (q + 1) * step = q * step + step
          BY <2>2
        <5> QED
          BY <5>2, <5>3, <3>2, <4>1, <2>1, <2>2
      <4>3. p + 1 \in 1..(q + 1) /\ (p + 1) - 1 = p
        BY <4>1, <4>2, <2>2
      <4>4. p + 1 \in DOMAIN s /\ s[p + 1] = p * step
        BY <4>3, <2>7
      <4>5. p * step <= low /\ high <= p * step + size
        BY <4>1, <2>8
      <4> QED
        BY <4>4, <4>5
    <3> QED
      BY <3>1, <3>2, <2>1
  <2> QED
    BY <2>7, <2>8
<1> QED
  BY <1>1, <1>2

\* A box lies in a window.
Inside(box, window) ==
    window[1] <= box[1] /\ window[2] <= box[2] /\ box[3] <= window[3] /\ box[4] <= window[4]

\* The tiling is off, or the box is no larger than the overlap of two tiles.
Small(box, tile, overlap) ==
    \/ tile = 0
    \/ box[3] - box[1] <= overlap /\ box[4] - box[2] <= overlap

HasSize(image) == image.width \in Nat /\ image.height \in Nat

\* Every box no larger than the overlap lies inside one window of its image, and an
\* image has at least one window (data.py).
THEOREM WindowsCover ==
    ASSUME NEW image, HasSize(image),
           NEW tile \in Nat, NEW overlap \in Nat, tile # 0 => overlap < tile
    PROVE  /\ Windows(image, tile, overlap) \in Seq(Corners)
           /\ Windows(image, tile, overlap) # <<>>
           /\ \A box \in Nat \X Nat \X Nat \X Nat :
                /\ box[1] <= box[3] /\ box[3] <= image.width
                /\ box[2] <= box[4] /\ box[4] <= image.height
                /\ Small(box, tile, overlap)
                => \E k \in DOMAIN Windows(image, tile, overlap) :
                     Inside(box, Windows(image, tile, overlap)[k])
<1> DEFINE width == image.width
           height == image.height
<1>0. width \in Nat /\ height \in Nat
  BY DEF HasSize
<1> HIDE DEF width, height
<1>1. CASE tile = 0
  <2> DEFINE whole == <<0, 0, width, height>>
  <2>1. Windows(image, tile, overlap) = <<whole>>
    BY <1>1 DEF Windows, width, height
  <2>2. <<whole>> \in Seq(Corners) /\ <<whole>> # <<>> /\ 1 \in DOMAIN <<whole>> /\ <<whole>>[1] = whole
    BY <1>0 DEF Corners
  <2>3. \A box \in Nat \X Nat \X Nat \X Nat :
           box[3] <= width /\ box[4] <= height => Inside(box, whole)
    BY <1>0 DEF Inside
  <2> QED
    BY <2>1, <2>2, <2>3 DEF width, height
<1>2. CASE tile # 0
  <2> DEFINE xs == Starts(width, tile, overlap)
             ys == Starts(height, tile, overlap)
             At(x, y) == <<x, y, Least(width, x + tile), Least(height, y + tile)>>
             Line(y) == [i \in DOMAIN xs |-> At(xs[i], y)]
             rows == [j \in DOMAIN ys |-> Line(ys[j])]
             W == Windows(image, tile, overlap)
  <2>1. /\ xs \in Seq(Nat) /\ xs # <<>>
        /\ \A low, high \in Nat : low <= high /\ high <= width /\ high - low <= overlap =>
              \E k \in DOMAIN xs : xs[k] <= low /\ high <= xs[k] + tile
    BY <1>0, <1>2, StartsIs
  <2>2. /\ ys \in Seq(Nat) /\ ys # <<>>
        /\ \A low, high \in Nat : low <= high /\ high <= height /\ high - low <= overlap =>
              \E k \in DOMAIN ys : ys[k] <= low /\ high <= ys[k] + tile
    BY <1>0, <1>2, StartsIs
  <2>3. W = FlattenSeq(rows)
    BY <1>2 DEF Windows, width, height
  <2> HIDE DEF xs, ys, W
  <2>4. \A x, y \in Nat : At(x, y) \in Corners
    BY <1>0 DEF Corners, Least
  <2>5. \A y \in Nat : Line(y) \in Seq(Corners)
    <3>1. \A i \in DOMAIN xs : xs[i] \in Nat
      BY <2>1
    <3> HIDE DEF At
    <3>2. \A y \in Nat : \A i \in DOMAIN xs : At(xs[i], y) \in Corners
      BY <2>4, <3>1
    <3> QED
      BY <2>1, <3>2
  <2>6. rows \in Seq(Seq(Corners)) /\ DOMAIN rows = DOMAIN ys
    <3>1. \A j \in DOMAIN ys : ys[j] \in Nat
      BY <2>2
    <3> HIDE DEF Line
    <3>2. \A j \in DOMAIN ys : Line(ys[j]) \in Seq(Corners)
      BY <2>5, <3>1
    <3>3. DOMAIN ys = 1..Len(ys) /\ Len(ys) \in Nat
      BY <2>2
    <3> QED
      BY <3>2, <3>3
  <2> HIDE DEF rows
  <2>7. W \in Seq(Corners) /\ \A j \in DOMAIN rows : Within(rows[j], W)
    BY <2>3, <2>6, FlattenIs
  <2>8. \A j \in DOMAIN ys : \A i \in DOMAIN xs : \E k \in DOMAIN W : W[k] = At(xs[i], ys[j])
    <3> SUFFICES ASSUME NEW j \in DOMAIN ys, NEW i \in DOMAIN xs
                 PROVE  \E k \in DOMAIN W : W[k] = At(xs[i], ys[j])
      OBVIOUS
    <3>1. rows[j] = Line(ys[j])
      BY DEF rows
    <3> HIDE DEF At
    <3>2. i \in DOMAIN rows[j] /\ rows[j][i] = At(xs[i], ys[j])
      BY <3>1
    <3>3. Within(rows[j], W)
      BY <2>6, <2>7
    <3> QED
      BY <3>2, <3>3 DEF Within
  <2>9. W # <<>>
    <3>1. 1 \in DOMAIN ys /\ 1 \in DOMAIN xs
      BY <2>1, <2>2
    <3> HIDE DEF At
    <3>2. \E k \in DOMAIN W : TRUE
      BY <3>1, <2>8
    <3> QED
      BY <3>2
  <2>10. ASSUME NEW box \in Nat \X Nat \X Nat \X Nat,
                box[1] <= box[3] /\ box[3] <= width, box[2] <= box[4] /\ box[4] <= height,
                Small(box, tile, overlap)
         PROVE  \E k \in DOMAIN W : Inside(box, W[k])
    <3>1. PICK i \in DOMAIN xs : xs[i] <= box[1] /\ box[3] <= xs[i] + tile
      BY <1>2, <2>1, <2>10 DEF Small
    <3>2. PICK j \in DOMAIN ys : ys[j] <= box[2] /\ box[4] <= ys[j] + tile
      BY <1>2, <2>2, <2>10 DEF Small
    <3>3. PICK k \in DOMAIN W : W[k] = At(xs[i], ys[j])
      <4> HIDE DEF At
      <4> QED
        BY <2>8
    <3>4. xs[i] \in Nat /\ ys[j] \in Nat
      BY <2>1, <2>2, SMTT(30)
    <3>5. Inside(box, At(xs[i], ys[j]))
      BY <3>1, <3>2, <3>4, <2>10, <1>0 DEF Inside, Least
    <3> QED
      BY <3>3, <3>5
  <2> QED
    BY <2>7, <2>9, <2>10 DEF W, width, height
<1> QED
  BY <1>1, <1>2

\* Every window of every image is a view.
ShowsEvery(images, tile, overlap) ==
    \A i \in DOMAIN images :
        \A w \in DOMAIN Windows(images[i], tile, overlap) :
          \E v \in DOMAIN Views(images, tile, overlap) :
            Views(images, tile, overlap)[v] =
                [image |-> i, window |-> Windows(images[i], tile, overlap)[w]]

\* A training set has all its windows as views.
LEMMA ViewsIs ==
    ASSUME NEW S, NEW images \in Seq(S), \A image \in S : HasSize(image),
           NEW tile \in Nat, NEW overlap \in Nat, tile # 0 => overlap < tile
    PROVE  /\ Views(images, tile, overlap) \in Seq([image : DOMAIN images, window : Corners])
           /\ images # <<>> => Views(images, tile, overlap) # <<>>
           /\ ShowsEvery(images, tile, overlap)
<1> DEFINE V == Views(images, tile, overlap)
           X == [image : DOMAIN images, window : Corners]
           Win(i) == Windows(images[i], tile, overlap)
           Of(i) == [w \in DOMAIN Win(i) |-> [image |-> i, window |-> Win(i)[w]]]
           parts == [i \in DOMAIN images |-> Of(i)]
<1>1. V = FlattenSeq(parts)
  BY DEF Views
<1>2. \A i \in DOMAIN images : Win(i) \in Seq(Corners) /\ Win(i) # <<>>
  <2>1. \A i \in DOMAIN images : HasSize(images[i])
    OBVIOUS
  <2> QED
    BY <2>1, WindowsCover
<1> HIDE DEF Win, V, X
<1>3. \A i \in DOMAIN images : Of(i) \in Seq(X)
  <2> SUFFICES ASSUME NEW i \in DOMAIN images
               PROVE  Of(i) \in Seq(X)
    OBVIOUS
  <2>1. PICK ws \in Seq(Corners) : ws = Win(i)
    BY <1>2
  <2>2. Of(i) = [w \in DOMAIN ws |-> [image |-> i, window |-> ws[w]]]
    BY <2>1
  <2>3. \A w \in DOMAIN ws : [image |-> i, window |-> ws[w]] \in X
    BY DEF X
  <2> HIDE DEF Of
  <2> QED
    BY <2>2, <2>3
<1>4. \A i \in DOMAIN images : DOMAIN Of(i) = DOMAIN Win(i)
                               /\ \A w \in DOMAIN Win(i) : Of(i)[w] = [image |-> i, window |-> Win(i)[w]]
  OBVIOUS
<1> HIDE DEF Of
<1>5. parts \in Seq(Seq(X)) /\ DOMAIN parts = DOMAIN images /\ \A i \in DOMAIN images : parts[i] = Of(i)
  BY <1>3
<1> HIDE DEF parts
<1>6. V \in Seq(X) /\ \A i \in DOMAIN parts : Within(parts[i], V)
  BY <1>1, <1>5, FlattenIs
<1>7. \A i \in DOMAIN images : \A w \in DOMAIN Win(i) :
         \E v \in DOMAIN V : V[v] = [image |-> i, window |-> Win(i)[w]]
  <2> SUFFICES ASSUME NEW i \in DOMAIN images, NEW w \in DOMAIN Win(i)
               PROVE  \E v \in DOMAIN V : V[v] = [image |-> i, window |-> Win(i)[w]]
    OBVIOUS
  <2>1. Within(Of(i), V)
    BY <1>5, <1>6
  <2> QED
    BY <1>4, <2>1 DEF Within
<1>8. images # <<>> => V # <<>>
  <2> SUFFICES ASSUME images # <<>>
               PROVE  V # <<>>
    OBVIOUS
  <2>1. 1 \in DOMAIN images
    OBVIOUS
  <2>2. 1 \in DOMAIN Win(1)
    BY <1>2, <2>1
  <2>3. \E v \in DOMAIN V : TRUE
    BY <1>7, <2>1, <2>2
  <2> QED
    BY <2>3
<1> QED
  BY <1>6, <1>7, <1>8 DEF V, X, Win, ShowsEvery

-----------------------------------------------------------------------------
(* What a run takes from the release *)

\* The images that a manifest puts in a split.
OfSplit(manifest, split) == {i \in DOMAIN manifest : manifest[i].split = split}

SamplesOf(manifest, split) == {Sample(i) : i \in OfSplit(manifest, split)}

\* The samples of a split are the archive's images in it.
LEMMA SplitIs ==
    ASSUME NEW manifest, DOMAIN manifest = DOMAIN Archive, Len(manifest) = Len(Archive), NEW split
    PROVE  /\ SplitOf(manifest, split) \in Seq(SamplesOf(manifest, split))
           /\ OfSplit(manifest, split) # {} => SplitOf(manifest, split) # <<>>
<1> DEFINE n == Len(Archive)
           S == OfSplit(manifest, split)
           ids == Ascending(S, n)
<1>1. n \in Nat /\ DOMAIN manifest = 1..n
  BY ReleaseAssumption
<1>2. S \cap (1..n) = S
  BY <1>1 DEF OfSplit
<1>3. SplitOf(manifest, split) = [k \in DOMAIN ids |-> Sample(ids[k])]
  BY DEF SplitOf, OfSplit
<1> HIDE DEF ids, S, n
<1>4. ids \in Seq(S) /\ \A i \in S : \E k \in DOMAIN ids : ids[k] = i
  BY <1>1, <1>2, AscendingIs DEF ids
<1>5. \A k \in DOMAIN ids : Sample(ids[k]) \in SamplesOf(manifest, split)
  BY <1>4 DEF SamplesOf, S
<1>6. DOMAIN ids = 1..Len(ids) /\ Len(ids) \in Nat
  BY <1>4
<1>7. SplitOf(manifest, split) \in Seq(SamplesOf(manifest, split))
  BY <1>3, <1>5, <1>6
<1>8. S # {} => ids # <<>>
  BY <1>4
<1>9. ids # <<>> => [k \in DOMAIN ids |-> Sample(ids[k])] # <<>>
  BY <1>4
<1> QED
  BY <1>3, <1>7, <1>8, <1>9 DEF S

\* Taking a limited number of images leaves at least one of a set that has some.
LEMMA UsedIs ==
    ASSUME NEW S, NEW images \in Seq(S), NEW limit \in Nat, limit > 0
    PROVE  Used(images, limit) \in Seq(S) /\ (images # <<>> => Used(images, limit) # <<>>)
<1> DEFINE m == IF limit < Len(images) THEN limit ELSE Len(images)
<1>1. Used(images, limit) = SubSeq(images, 1, m)
  BY DEF Used, Least
<1>2. m \in Nat /\ m <= Len(images) /\ (images # <<>> => m > 0)
  OBVIOUS
<1> HIDE DEF m
<1>3. SubSeq(images, 1, m) \in Seq(S) /\ Len(SubSeq(images, 1, m)) = m
  BY <1>2
<1> QED
  BY <1>1, <1>2, <1>3

LEMMA NoneCounted ==
    \A class \in 1..Classes : Tally({})[class] = 0
<1> SUFFICES ASSUME NEW class \in 1..Classes
             PROVE  Tally({})[class] = 0
  OBVIOUS
<1>1. class \in 0..Classes /\ class # 0
  BY ReleaseAssumption
<1> DEFINE op(i) == Cardinality({a \in DOMAIN Archive[i].annotations :
                                    Archive[i].annotations[a].category = class})
           sum == MapThenSumSet(op, {})
<1>2. Tally({})[class] = sum
  BY <1>1 DEF Tally
<1> DEFINE pick(s) == CHOOSE x \in s : TRUE
           Runs(f) == f = [s \in SUBSET {} |-> IF s = {} THEN 0
                                               ELSE op(pick(s)) + f[s \ {pick(s)}]]
           iter == CHOOSE f : Runs(f)
<1>3. sum = iter[{}]
  BY DEF MapThenSumSet, MapThenFoldSet
<1>4. Runs([s \in SUBSET {} |-> 0])
  OBVIOUS
<1>5. Runs(iter)
  BY <1>4
<1> HIDE DEF iter
<1>6. iter[{}] = 0
  BY <1>5
<1> QED
  BY <1>2, <1>3, <1>6

\* A split that shows every class has an image.
LEMMA EveryClassSomewhere ==
    ASSUME NEW images, HasEveryClass(images)
    PROVE  images # {}
<1>1. 1 \in 1..Classes /\ ~ (0 > 0)
  BY ReleaseAssumption
<1> QED
  BY <1>1, NoneCounted DEF HasEveryClass

LEMMA SampleHasSize ==
    ASSUME NEW i \in DOMAIN Archive
    PROVE  HasSize(Sample(i))
BY ReleaseAssumption DEF HasSize, Sample

\* A run's samples, views and plan are those of the manifest it read, which keeps
\* families and groups in one split.
TrainingData ==
    pc # "waiting" =>
      /\ config \in Configs
      /\ DOMAIN digest = DOMAIN Archive /\ ApartUnder(disk.release.used, digest)
      /\ samples.train \in Seq(SamplesOf(digest, "train")) /\ samples.train # <<>>
      /\ samples.validation \in Seq(SamplesOf(digest, "validation"))
      /\ views = Views(samples.train, config.tile, config.overlap)
      /\ plan = TrainingSchedule(config, Len(views))
      /\ DOMAIN trained = DOMAIN views

LEMMA VerifiedLength ==
    ASSUME ReleaseInv, Verified
    PROVE  Len(disk.manifest) = Len(Archive)
<1>1. disk.release.used \in DOMAIN Built /\ disk.manifest = Built[disk.release.used]
  BY DEF ReleaseInv, Verified, IsRelease
<1>2. disk.manifest = ManifestOf(disk.release.used)
  BY <1>1 DEF Built
<1> DEFINE groupOf == GroupsUnder(disk.release.used)
           test == Holdout(groupOf, {})
           validation == Holdout(groupOf, test)
           entry(i) == [group |-> groupOf[i],
                        split |-> IF groupOf[i] \in test THEN "test"
                                  ELSE IF groupOf[i] \in validation THEN "validation" ELSE "train"]
           X == {entry(i) : i \in DOMAIN Archive}
<1>3. disk.manifest = [i \in DOMAIN Archive |-> entry(i)]
  BY <1>2 DEF ManifestOf
<1> HIDE DEF entry
<1>4. DOMAIN Archive = 1..Len(Archive) /\ Len(Archive) \in Nat
  BY ReleaseAssumption
<1>5. [i \in DOMAIN Archive |-> entry(i)] \in [1..Len(Archive) -> X]
  BY <1>4
<1> HIDE DEF X
<1> QED
  BY <1>3, <1>4, <1>5

\* start verifies the release before it takes its data.
LEMMA DataStart ==
    ASSUME ReleaseInv, NEW c \in Configs, Start(c), UNCHANGED releaseVars
    PROVE  TrainingData'
<1> DEFINE m == disk.manifest
<1>1. /\ ApartUnder(disk.release.used, m) /\ Clean(m) /\ DOMAIN m = DOMAIN Archive
      /\ Len(m) = Len(Archive)
  BY VerifiedApart, VerifiedLength DEF Start
<1>2. disk' = disk
  BY DEF releaseVars
<1>3. PICK train : train = SplitOf(m, "train")
  OBVIOUS
<1>4. PICK validation : validation = SplitOf(m, "validation")
  OBVIOUS
<1>5. /\ train \in Seq(SamplesOf(m, "train")) /\ train # <<>>
      /\ validation \in Seq(SamplesOf(m, "validation")) /\ validation # <<>>
  <2> HIDE DEF m
  <2>1. OfSplit(m, "train") # {} /\ OfSplit(m, "validation") # {}
    BY <1>1, EveryClassSomewhere DEF Clean, OfSplit
  <2> QED
    BY <1>1, <1>3, <1>4, <2>1, SplitIs
<1>6. /\ config' = c /\ digest' = m
      /\ samples' = [train      |-> Used(train, IF c.smoke THEN 4 ELSE Len(train)),
                     validation |-> Used(validation, IF c.smoke THEN 2 ELSE Len(validation))]
      /\ views' = Views(samples'.train, c.tile, c.overlap)
      /\ plan' = TrainingSchedule(c, Len(views'))
      /\ DOMAIN trained' = DOMAIN views'
  BY <1>3, <1>4 DEF Start
<1>7. /\ samples'.train \in Seq(SamplesOf(m, "train")) /\ samples'.train # <<>>
      /\ samples'.validation \in Seq(SamplesOf(m, "validation"))
  <2>1. (IF c.smoke THEN 4 ELSE Len(train)) \in Nat \ {0}
    BY <1>5
  <2>2. (IF c.smoke THEN 2 ELSE Len(validation)) \in Nat \ {0}
    BY <1>5
  <2> HIDE DEF m
  <2>3. Used(train, IF c.smoke THEN 4 ELSE Len(train)) \in Seq(SamplesOf(m, "train"))
        /\ Used(train, IF c.smoke THEN 4 ELSE Len(train)) # <<>>
    <3>1. PICK limit \in Nat : limit = (IF c.smoke THEN 4 ELSE Len(train)) /\ limit > 0
      BY <2>1
    <3> QED
      BY <1>5, <3>1, UsedIs
  <2>4. Used(validation, IF c.smoke THEN 2 ELSE Len(validation)) \in Seq(SamplesOf(m, "validation"))
    <3>1. PICK limit \in Nat : limit = (IF c.smoke THEN 2 ELSE Len(validation)) /\ limit > 0
      BY <2>2
    <3> QED
      BY <1>5, <3>1, UsedIs
  <2> QED
    BY <1>6, <2>3, <2>4
<1> HIDE DEF m
<1> QED
  BY <1>1, <1>2, <1>6, <1>7 DEF TrainingData, m

LEMMA DataKept ==
    ASSUME TrainingData, pc # "waiting", UNCHANGED dataVars, DOMAIN trained' = DOMAIN trained,
           disk'.release = disk.release
    PROVE  TrainingData'
BY DEF TrainingData, dataVars


\* A step of a run that has begun.
Working ==
    \/ BeginPass \/ Step \/ SaveState \/ SaveBest \/ SaveCheckpoint
    \/ \E found \in Detections : Seen(found) /\ Record(found)
    \/ WriteSummary \/ LogArtifacts \/ Fail \/ Kill

LEMMA WorkingKeeps ==
    ASSUME Working
    PROVE  /\ pc # "waiting" /\ pc' # "waiting" /\ UNCHANGED dataVars
           /\ DOMAIN trained' = DOMAIN trained
<1>1. CASE BeginPass
  BY <1>1 DEF BeginPass
<1>2. CASE Step
  BY <1>2 DEF Step
<1>3. CASE SaveState
  BY <1>3 DEF SaveState
<1>4. CASE SaveBest
  BY <1>4 DEF SaveBest
<1>5. CASE SaveCheckpoint
  BY <1>5 DEF SaveCheckpoint
<1>6. ASSUME NEW found \in Detections, Record(found)
      PROVE  /\ pc # "waiting" /\ pc' # "waiting" /\ UNCHANGED dataVars
             /\ DOMAIN trained' = DOMAIN trained
  BY <1>6 DEF Record
<1>7. CASE WriteSummary
  BY <1>7 DEF WriteSummary
<1>8. CASE LogArtifacts
  BY <1>8 DEF LogArtifacts
<1>9. CASE Fail
  BY <1>9 DEF Fail, Running
<1>10. CASE Kill
  BY <1>10 DEF Kill, Running
<1> QED
  BY <1>1, <1>2, <1>3, <1>4, <1>5, <1>6, <1>7, <1>8, <1>9, <1>10 DEF Working

LEMMA DataStep ==
    ASSUME ReleaseInv, TrainingData, [Next]_vars
    PROVE  TrainingData'
<1>1. CASE Released /\ UNCHANGED runVars
  <2>1. CASE pc = "waiting"
    BY <2>1, <1>1 DEF TrainingData, runVars, trainVars
  <2>2. CASE pc # "waiting"
    <3>1. disk'.release = disk.release
      BY <1>1, <2>2 DEF Released, EditManifest, ReleaseInv
    <3> QED
      BY <1>1, <2>2, <3>1, DataKept DEF runVars, trainVars, dataVars
  <2> QED
    BY <2>1, <2>2
<1>2. ASSUME NEW c \in Configs, Start(c), UNCHANGED releaseVars
      PROVE  TrainingData'
  BY <1>2, DataStart
<1>3. CASE Working /\ UNCHANGED releaseVars
  BY <1>3, WorkingKeeps, DataKept DEF releaseVars
<1>4. CASE UNCHANGED <<releaseVars, trainVars>>
  BY <1>4 DEF TrainingData, trainVars, releaseVars
<1>5. \/ Released /\ UNCHANGED runVars
      \/ \E c \in Configs : Start(c) /\ UNCHANGED releaseVars
      \/ Working /\ UNCHANGED releaseVars
      \/ UNCHANGED <<releaseVars, trainVars>>
  <2>1. Train => Working \/ \E c \in Configs : Start(c)
    BY DEF Train, Working
  <2>2. Evaluate => UNCHANGED trainVars
    BY DEF Evaluate, OpenRun, VerifyRun, RecordEvaluation, AbandonEvaluation
  <2>3. Analyze \/ Audit \/ UNCHANGED vars => UNCHANGED <<releaseVars, trainVars>>
    BY DEF Analyze, Audit, vars, runVars
  <2> QED
    BY <2>1, <2>2, <2>3 DEF Next
<1> QED
  BY <1>1, <1>2, <1>3, <1>4, <1>5

-----------------------------------------------------------------------------
(* EvaluatedOnUnseen *)

\* The files of a run's directory.
RunFiles == {"history", "state", "best", "checkpoint", "summary", "failure", "validation", "test"}

\* What an evaluator holds after it opened the run, and after it verified it.
EvaluatorFields(where) ==
    {"pc", "split", "checkpoint"} \cup (IF where = "verified" THEN {"manifest"} ELSE {})

\* An evaluation is over the manifest that the run was trained on.
UnseenInv ==
    /\ DOMAIN files = RunFiles
    /\ pc = "waiting" => \A file \in RunFiles : files[file] = Absent
    /\ pc = "waiting" => evaluator = Idle
    /\ evaluator = Idle \/ /\ evaluator.pc \in {"opened", "verified"}
                           /\ DOMAIN evaluator = EvaluatorFields(evaluator.pc)
                           /\ evaluator.split \in {"validation", "test"}
    /\ evaluator.pc = "verified" => evaluator.manifest = digest
    /\ \A split \in {"validation", "test"} :
         Readable(split) => files[split].manifest = digest

LEMMA UnseenWorking ==
    ASSUME UnseenInv, Working, UNCHANGED evaluator
    PROVE  UnseenInv'
<1>1. pc # "waiting" /\ pc' # "waiting" /\ digest' = digest
  BY WorkingKeeps DEF dataVars
<1>2. DOMAIN files' = DOMAIN files /\ files'.validation = files.validation /\ files'.test = files.test
  <2>1. CASE BeginPass \/ Step \/ LogArtifacts
    BY <2>1 DEF BeginPass, Step, LogArtifacts
  <2>2. CASE SaveState \/ SaveBest \/ SaveCheckpoint \/ WriteSummary \/ Fail
    BY <2>2 DEF SaveState, SaveBest, SaveCheckpoint, WriteSummary, Fail, Write, UnseenInv, RunFiles
  <2>3. ASSUME NEW found \in Detections, Record(found)
        PROVE  DOMAIN files' = DOMAIN files /\ files'.validation = files.validation /\ files'.test = files.test
    <3>1. PICK content : Write("history", content)
      BY <2>3 DEF Record
    <3> QED
      BY <3>1 DEF Write, UnseenInv, RunFiles
  <2>4. CASE Kill
    BY <2>4 DEF Kill, Write, UnseenInv, RunFiles
  <2> QED
    BY <2>1, <2>2, <2>3, <2>4 DEF Working
<1> QED
  BY <1>1, <1>2 DEF UnseenInv, Readable

LEMMA UnseenEvaluate ==
    ASSUME UnseenInv, Evaluate
    PROVE  UnseenInv'
<1>0. pc' = pc /\ digest' = digest
  BY DEF Evaluate, OpenRun, VerifyRun, RecordEvaluation, AbandonEvaluation, trainVars
<1>1. ASSUME NEW split \in {"validation", "test"}, OpenRun(split)
      PROVE  UnseenInv'
  <2>1. pc # "waiting"
    BY <1>1 DEF OpenRun, UnseenInv, Readable, RunFiles
  <2> QED
    BY <1>0, <1>1, <2>1 DEF OpenRun, UnseenInv, EvaluatorFields, Readable
<1>2. CASE VerifyRun
  <2>1. pc # "waiting"
    BY <1>2 DEF VerifyRun, UnseenInv, Idle
  <2>2. CASE evaluator' = Idle
    BY <1>0, <1>2, <2>1, <2>2 DEF VerifyRun, UnseenInv, Idle, Readable
  <2>3. CASE /\ evaluator' = [pc |-> "verified", split |-> evaluator.split,
                              checkpoint |-> evaluator.checkpoint, manifest |-> disk.manifest]
             /\ disk.manifest = digest
    <3>1. DOMAIN evaluator = {"pc", "split", "checkpoint"} /\ evaluator.split \in {"validation", "test"}
      BY <1>2 DEF VerifyRun, UnseenInv, EvaluatorFields, Idle
    <3>2. /\ DOMAIN evaluator' = {"pc", "split", "checkpoint", "manifest"}
          /\ evaluator'.pc = "verified" /\ evaluator'.split = evaluator.split
          /\ evaluator'.manifest = digest
      BY <2>3, <3>1
    <3> QED
      BY <1>0, <1>2, <2>1, <3>1, <3>2 DEF VerifyRun, UnseenInv, EvaluatorFields, Readable
  <2> QED
    BY <1>2, <2>2, <2>3 DEF VerifyRun, SameRelease
<1>3. CASE RecordEvaluation
  <2>1. /\ pc # "waiting" /\ evaluator.split \in {"validation", "test"}
        /\ evaluator.manifest = digest
    BY <1>3 DEF RecordEvaluation, UnseenInv, Idle
  <2>2. PICK predictions :
           Write(evaluator.split,
                 [checkpoint |-> evaluator.checkpoint, state |-> files.state,
                  manifest |-> evaluator.manifest,
                  predictions |-> IF evaluator.split = "test" THEN Nothing ELSE predictions])
    BY <1>3 DEF RecordEvaluation
  <2>3. /\ DOMAIN files' = RunFiles
        /\ \A split \in {"validation", "test"} :
             Readable(split)' => files'[split].manifest = digest
    BY <2>1, <2>2 DEF Write, UnseenInv, RunFiles, Readable
  <2> QED
    BY <1>0, <1>3, <2>1, <2>3 DEF RecordEvaluation, UnseenInv, Idle
<1>4. CASE AbandonEvaluation
  <2>1. evaluator' = Idle /\ evaluator # Idle /\ pc # "waiting"
    BY <1>4 DEF AbandonEvaluation, UnseenInv
  <2>2. CASE UNCHANGED files
    BY <1>0, <2>1, <2>2 DEF UnseenInv, Idle, Readable
  <2>3. CASE evaluator.pc = "verified" /\ files' = [files EXCEPT ![evaluator.split] = Torn]
    <3>1. evaluator.split \in {"validation", "test"}
      BY <2>1 DEF UnseenInv
    <3>2. DOMAIN files' = RunFiles
          /\ \A split \in {"validation", "test"} :
               Readable(split)' => files'[split].manifest = digest
      BY <2>3, <3>1 DEF UnseenInv, RunFiles, Readable
    <3> QED
      BY <1>0, <2>1, <3>2 DEF UnseenInv, Idle
  <2> QED
    BY <1>4, <2>2, <2>3 DEF AbandonEvaluation, Write
<1> QED
  BY <1>1, <1>2, <1>3, <1>4 DEF Evaluate

LEMMA UnseenStart ==
    ASSUME UnseenInv, NEW c \in Configs, Start(c)
    PROVE  UnseenInv'
BY DEF Start, UnseenInv, RunFiles, Idle, Readable

LEMMA UnseenStep ==
    ASSUME UnseenInv, [Next]_vars
    PROVE  UnseenInv'
<1>1. CASE UNCHANGED runVars
  BY <1>1 DEF UnseenInv, runVars, trainVars, Idle, Readable
<1>2. CASE \E c \in Configs : Start(c)
  BY <1>2, UnseenStart
<1>3. CASE Working /\ UNCHANGED evaluator
  BY <1>3, UnseenWorking
<1>4. CASE Evaluate
  BY <1>4, UnseenEvaluate
<1>5. UNCHANGED runVars \/ (\E c \in Configs : Start(c)) \/ (Working /\ UNCHANGED evaluator) \/ Evaluate
  <2>1. Train => Working \/ \E c \in Configs : Start(c)
    BY DEF Train, Working
  <2>2. Working => UNCHANGED evaluator
    BY DEF Working, BeginPass, Step, SaveState, SaveBest, SaveCheckpoint, Record, WriteSummary,
           LogArtifacts, Fail, Kill
  <2> QED
    BY <2>1, <2>2 DEF Next, Analyze, Audit, vars, Released
<1> QED
  BY <1>1, <1>2, <1>3, <1>4, <1>5

LEMMA UnseenImplies ==
    ASSUME ReleaseInv, TrainingData, UnseenInv
    PROVE  EvaluatedOnUnseen
<1> SUFFICES ASSUME NEW split \in {"validation", "test"}, Readable(split),
                    NEW v \in DOMAIN trained,
                    NEW k \in DOMAIN SplitOf(files[split].manifest, split)
             PROVE  Unrelated(TrainImages[views[v].image].id,
                              SplitOf(files[split].manifest, split)[k].id)
  BY DEF EvaluatedOnUnseen
<1>1. pc # "waiting" /\ files[split].manifest = digest
  BY DEF UnseenInv, RunFiles, Readable
<1>2. /\ config \in Configs /\ DOMAIN digest = DOMAIN Archive
      /\ ApartUnder(disk.release.used, digest)
      /\ samples.train \in Seq(SamplesOf(digest, "train"))
      /\ views = Views(samples.train, config.tile, config.overlap) /\ DOMAIN trained = DOMAIN views
  BY <1>1 DEF TrainingData
<1>3. \A image \in SamplesOf(digest, "train") : HasSize(image)
  BY <1>2, SampleHasSize DEF SamplesOf, OfSplit
<1>4. config.tile \in Nat /\ config.overlap \in Nat /\ (config.tile # 0 => config.overlap < config.tile)
  BY <1>2, ConfigAssumption
<1>5. views \in Seq([image : DOMAIN samples.train, window : Corners])
  BY <1>2, <1>3, <1>4, ViewsIs
<1>6. views[v].image \in DOMAIN samples.train
  <2>1. views[v] \in [image : DOMAIN samples.train, window : Corners]
    <3>1. \A X, s : s \in Seq(X) => \A x \in DOMAIN s : s[x] \in X
      OBVIOUS
    <3>2. v \in DOMAIN views
      BY <1>2
    <3> QED
      BY <1>5, <3>1, <3>2
  <2> QED
    BY <2>1
<1>7. PICK i \in OfSplit(digest, "train") : TrainImages[views[v].image] = Sample(i)
  BY <1>2, <1>6 DEF SamplesOf, TrainImages
<1>8. DOMAIN digest = DOMAIN Archive /\ Len(digest) = Len(Archive)
  BY <1>2
<1>9. SplitOf(digest, split) \in Seq(SamplesOf(digest, split))
  BY <1>8, SplitIs
<1>10. PICK j \in OfSplit(digest, split) : SplitOf(digest, split)[k] = Sample(j)
  BY <1>1, <1>9 DEF SamplesOf
<1>11. i \in DOMAIN digest /\ j \in DOMAIN digest /\ digest[i].split # digest[j].split
  BY <1>7, <1>10 DEF OfSplit
<1>12. Unrelated(i, j)
  BY <1>2, <1>11 DEF ApartUnder, Unrelated
<1>13. Sample(i).id = i /\ Sample(j).id = j
  BY DEF Sample
<1> QED
  BY <1>1, <1>7, <1>10, <1>12, <1>13

-----------------------------------------------------------------------------
(* Division, and a shuffled pass *)

\* m = n * q, kept apart so that the solver sees one product at a time.
IsProduct(m, n, q) == m = n * q

\* Division with remainder.
Quotient(a, n) ==
    \E q \in Int, m \in Int, r \in Nat : IsProduct(m, n, q) /\ q = a \div n /\ r = a % n /\ a = m + r /\ r < n

LEMMA QuotientExists ==
    ASSUME NEW a \in Int, NEW n \in Nat, n > 0
    PROVE  Quotient(a, n)
<1>1. PICK q \in Int : q = a \div n
  OBVIOUS
<1>2. PICK m \in Int : m = n * q
  OBVIOUS
<1>3. a % n = a - n * (a \div n) /\ a % n >= 0 /\ a % n < n /\ a % n \in Int
  <2>1. a % n = a - n * (a \div n)
    OBVIOUS
  <2>2. a % n >= 0 /\ a % n < n /\ a % n \in Int
    OBVIOUS
  <2> QED
    BY <2>1, <2>2
<1>4. PICK r \in Int : r = a % n
  BY <1>3
<1>5. r = a - m /\ r >= 0 /\ r < n
  BY <1>1, <1>2, <1>3, <1>4
<1>6. a = m + r /\ r \in Nat
  BY <1>5
<1> QED
  BY <1>1, <1>2, <1>4, <1>5, <1>6 DEF Quotient, IsProduct

LEMMA Multiples ==
    ASSUME NEW p \in Int, NEW q \in Int, NEW n \in Nat
    PROVE  /\ n * p \in Int /\ n * (p + 1) = n * p + n /\ n * (p - 1) = n * p - n
           /\ p <= q => n * p <= n * q
OBVIOUS

\* A pass of the schedule is a permutation of the views.
LEMMA ShuffledIs ==
    ASSUME NEW n \in Nat, n > 0, NEW seed \in Int
    PROVE  /\ Shuffled(n, seed) \in [1..n -> 1..n]
           /\ \A v \in 1..n : \E i \in 1..n : Shuffled(n, seed)[i] = v
           /\ \A i, j \in 1..n : Shuffled(n, seed)[i] = Shuffled(n, seed)[j] => i = j
<1> DEFINE s == Shuffled(n, seed)
<1>1. IsOrder([i \in 1..n |-> i], n)
  BY DEF IsOrder
<1>2. IsOrder(s, n)
  BY <1>1 DEF Shuffled
<1> HIDE DEF s
<1>3. s \in [1..n -> 1..n]
  BY <1>2 DEF IsOrder
<1>4. \A v \in 1..n : \E i \in 1..n : s[i] = v
  BY <1>2 DEF IsOrder
<1>5. IsFiniteSet(1..n) /\ Cardinality(1..n) = n
  BY FS_Interval
<1>6. s \in Surjection(1..n, 1..n)
  BY <1>3, <1>4 DEF Surjection
<1>7. s \in Injection(1..n, 1..n)
  BY <1>5, <1>6, FS_Surjection
<1>8. \A i, j \in 1..n : s[i] = s[j] => i = j
  BY <1>7 DEF Injection, IsInjective
<1> USE DEF s
<1> QED
  BY <1>3, <1>4, <1>8

-----------------------------------------------------------------------------
(* The passes of a plan *)

\* The number of views in a pass, and of the steps taken by its end.
LengthOf(c, n, p) ==
    IF ByBudget(c) THEN IF p < PassCount(c, n) THEN n ELSE c.budget - n * (PassCount(c, n) - 1)
    ELSE IF c.smoke THEN Least(n, 2) ELSE n

\* The steps a run has taken when pass p is over.
StepsBy(c, n, p) ==
    IF p = 0 THEN 0
    ELSE IF ByBudget(c) THEN IF p < PassCount(c, n) THEN n * p ELSE c.budget
    ELSE LengthOf(c, n, 1) * p

\* A budget ends in the last pass and not before it.
LEMMA PassCountIs ==
    ASSUME NEW c \in Configs, NEW n \in Nat, n > 0
    PROVE  /\ PassCount(c, n) \in Nat /\ PassCount(c, n) > 0
           /\ ByBudget(c) => /\ c.budget <= n * PassCount(c, n)
                             /\ n * (PassCount(c, n) - 1) < c.budget
<1>1. c.epochs \in Nat /\ c.budget \in Nat /\ (c.epochs = 0) # (c.budget = 0)
  BY ConfigAssumption
<1>2. CASE ~ ByBudget(c)
  BY <1>1, <1>2 DEF PassCount, ByBudget
<1>3. CASE ByBudget(c)
  <2>1. PICK b \in Nat : b = c.budget /\ b > 0
    BY <1>1, <1>3 DEF ByBudget
  <2>2. PICK a \in Int : a = b + n - 1
    OBVIOUS
  <2>3. PICK q \in Int, m \in Int, r \in Nat :
           IsProduct(m, n, q) /\ q = a \div n /\ r = a % n /\ a = m + r /\ r < n
    BY QuotientExists DEF Quotient
  <2>4. PassCount(c, n) = q
    BY <1>3, <2>1, <2>2, <2>3 DEF PassCount
  <2>5. m = n * q /\ m - n = n * (q - 1)
    BY <2>3, Multiples DEF IsProduct
  <2>6. a = m + r /\ r < n /\ a = b + n - 1
    BY <2>2, <2>3
  <2>7. m >= b /\ m - n < b
    BY <2>1, <2>6
  <2>8. q > 0
    <3>1. q <= 0 => n * q <= n * 0
      BY Multiples
    <3>2. n * 0 = 0
      OBVIOUS
    <3> QED
      BY <3>1, <3>2, <2>1, <2>5, <2>7
  <2> QED
    BY <2>1, <2>4, <2>5, <2>7, <2>8
<1> QED
  BY <1>2, <1>3

\* A pass is as long as the steps it adds, and never goes over the budget.
LEMMA StepsAre ==
    ASSUME NEW c \in Configs, NEW n \in Nat, n > 0, NEW p \in 1..PassCount(c, n)
    PROVE  /\ StepsBy(c, n, p - 1) \in Nat /\ StepsBy(c, n, p) \in Nat
           /\ LengthOf(c, n, p) \in 1..n
           /\ StepsBy(c, n, p) = StepsBy(c, n, p - 1) + LengthOf(c, n, p)
           /\ PassLength(c, n, StepsBy(c, n, p - 1)) = LengthOf(c, n, p)
           /\ ByBudget(c) => StepsBy(c, n, p) <= c.budget
<1>1. /\ c.epochs \in Nat /\ c.budget \in Nat /\ (c.epochs = 0) # (c.budget = 0)
      /\ c.smoke \in BOOLEAN
  BY ConfigAssumption
<1>2. PICK K \in Nat : K = PassCount(c, n) /\ K > 0
  BY PassCountIs
<1>3. p \in 1..K /\ p - 1 \in Nat
  BY <1>2
<1>4. CASE ~ ByBudget(c)
  <2> DEFINE L == IF c.smoke THEN Least(n, 2) ELSE n
  <2>1. L \in 1..n
    BY <1>1 DEF Least
  <2>2. LengthOf(c, n, p) = L /\ LengthOf(c, n, 1) = L
    BY <1>4 DEF LengthOf
  <2>3. \A x : PassLength(c, n, x) = L
    BY <1>4 DEF PassLength
  <2> HIDE DEF L
  <2>4. PICK l \in Nat : l = L
    BY <2>1
  <2>5. l * p \in Nat /\ l * (p - 1) = l * p - l /\ l * (p - 1) \in Nat
    <3>1. l * (p - 1) = l * p - l /\ l * p \in Int
      BY <2>4, Multiples
    <3>2. l * p \in Nat /\ l * (p - 1) \in Nat
      <4>1. \A a, b \in Nat : a * b \in Nat
        OBVIOUS
      <4>2. l * p \in Nat
        BY <4>1, <2>4
      <4>3. l * (p - 1) \in Nat
        BY <4>1, <2>4, <1>3
      <4> QED
        BY <4>2, <4>3
    <3> QED
      BY <3>1, <3>2
  <2>6. StepsBy(c, n, p) = l * p
    BY <1>3, <1>4, <2>2, <2>4 DEF StepsBy
  <2>7. StepsBy(c, n, p - 1) = l * (p - 1)
    <3>1. CASE p = 1
      <4>1. l * (p - 1) = 0
        BY <3>1, <2>4
      <4> QED
        BY <3>1, <4>1 DEF StepsBy
    <3>2. CASE p # 1
      BY <3>2, <1>3, <1>4, <2>2, <2>4 DEF StepsBy
    <3> QED
      BY <3>1, <3>2
  <2>8. PICK u \in Nat, w \in Nat : u = l * p /\ w = l * (p - 1) /\ w = u - l
    BY <2>5
  <2>9. StepsBy(c, n, p) = u /\ StepsBy(c, n, p - 1) = w
    BY <2>6, <2>7, <2>8
  <2> QED
    BY <1>4, <2>1, <2>2, <2>3, <2>4, <2>8, <2>9
<1>5. CASE ByBudget(c)
  <2>1. PICK b \in Nat : b = c.budget /\ b > 0
    BY <1>1, <1>5 DEF ByBudget
  <2>2. PICK u \in Int, w \in Int : u = n * p /\ w = n * (p - 1) /\ w = u - n
    BY <1>3, Multiples
  <2>3. w \in Nat
    <3>1. \A a, d \in Nat : a * d \in Nat
      OBVIOUS
    <3> QED
      BY <3>1, <2>2, <1>3
  <2>4. PICK x \in Int, y \in Int : x = n * K /\ y = n * (K - 1) /\ y = x - n
    BY Multiples
  <2>5. b <= x /\ y < b
    BY <1>2, <1>5, <2>1, <2>4, PassCountIs
  <2>6. p < K => u <= y
    <3>1. p <= K - 1 => n * p <= n * (K - 1)
      BY <1>3, Multiples
    <3> QED
      BY <3>1, <2>2, <2>4, <1>3
  <2>7. p = K => u = x /\ w = y
    BY <2>2, <2>4
  <2>8. LengthOf(c, n, p) = IF p < K THEN n ELSE b - y
    BY <1>2, <1>5, <2>1, <2>4 DEF LengthOf
  <2>9. StepsBy(c, n, p) = IF p < K THEN u ELSE b
    BY <1>2, <1>3, <1>5, <2>1, <2>2 DEF StepsBy
  <2>10. StepsBy(c, n, p - 1) = w
    <3>1. CASE p = 1
      <4>1. p - 1 = 0 /\ n * 0 = 0
        BY <3>1
      <4>2. w = 0
        BY <4>1, <2>2
      <4> QED
        BY <4>1, <4>2 DEF StepsBy
    <3>2. CASE p # 1
      <4>1. p - 1 # 0 /\ p - 1 < K
        BY <3>2, <1>3
      <4> QED
        BY <4>1, <1>2, <1>5, <2>2 DEF StepsBy
    <3> QED
      BY <3>1, <3>2
  <2>11. PassLength(c, n, w) = IF n < b - w THEN n ELSE b - w
    BY <1>5, <2>1 DEF PassLength, Least
  <2>12. /\ w = u - n /\ y = x - n /\ b <= x /\ y < b /\ (p < K => u <= y) /\ (p = K => u = x /\ w = y)
         /\ (p < K \/ p = K)
    BY <1>3, <2>2, <2>4, <2>5, <2>6, <2>7
  <2>13. \/ p < K /\ u < b /\ n < b - w
         \/ p = K /\ w = y /\ b - w <= n /\ 0 < b - w
    BY <2>12
  <2> HIDE <2>2, <2>4
  <2>14. /\ u \in Nat
         /\ (IF p < K THEN n ELSE b - y) \in 1..n
         /\ (IF p < K THEN u ELSE b) = w + (IF p < K THEN n ELSE b - y)
         /\ (IF n < b - w THEN n ELSE b - w) = (IF p < K THEN n ELSE b - y)
         /\ (IF p < K THEN u ELSE b) \in Nat /\ (IF p < K THEN u ELSE b) <= b
    BY <2>3, <2>12, <2>13
  <2> QED
    BY <2>1, <2>3, <2>8, <2>9, <2>10, <2>11, <2>14
<1> QED
  BY <1>4, <1>5

\* One pass: each view once at the most, and every view if it is long enough.
PassIs(s, n, length) ==
    /\ s \in Seq(1..n) /\ Len(s) = length
    /\ \A i, j \in DOMAIN s : s[i] = s[j] => i = j
    /\ length = n => \A v \in 1..n : \E i \in DOMAIN s : s[i] = v

\* A pass visits distinct views.
LEMMA PassIndicesIs ==
    ASSUME NEW c \in Configs, NEW n \in Nat, n > 0, NEW p \in 1..PassCount(c, n)
    PROVE  PassIs(PassIndices(c, n, p, StepsBy(c, n, p - 1)), n, LengthOf(c, n, p))
<1> DEFINE length == LengthOf(c, n, p)
           s == Shuffled(n, c.seed + p - 1)
           cut == SubSeq(s, 1, length)
<1>1. length \in 1..n /\ PassLength(c, n, StepsBy(c, n, p - 1)) = length
  BY StepsAre
<1>2. PassIndices(c, n, p, StepsBy(c, n, p - 1)) = cut
  BY <1>1 DEF PassIndices
<1>3. c.seed + p - 1 \in Int
  <2>1. PassCount(c, n) \in Nat /\ c.seed \in Int
    BY PassCountIs, ConfigAssumption
  <2> QED
    BY <2>1
<1>4. /\ s \in [1..n -> 1..n]
      /\ \A v \in 1..n : \E i \in 1..n : s[i] = v
      /\ \A i, j \in 1..n : s[i] = s[j] => i = j
  BY <1>3, ShuffledIs
<1> HIDE DEF s, length
<1>5. s \in Seq(1..n) /\ Len(s) = n
  <2>1. \A X, f : f \in [1..n -> X] => f \in Seq(X) /\ Len(f) = n
    OBVIOUS
  <2> QED
    BY <1>4, <2>1
<1>6. /\ cut \in Seq(1..n) /\ Len(cut) = length /\ DOMAIN cut = 1..length
      /\ \A i \in 1..length : cut[i] = s[i] /\ i \in 1..n
  BY <1>1, <1>5
<1> HIDE DEF cut
<1>7. \A i, j \in DOMAIN cut : cut[i] = cut[j] => i = j
  BY <1>4, <1>6
<1>8. length = n => \A v \in 1..n : \E i \in DOMAIN cut : cut[i] = v
  BY <1>4, <1>6
<1> QED
  BY <1>2, <1>6, <1>7, <1>8 DEF PassIs, length

\* What the schedule counts as consumed is what the passes before took.
LEMMA ConsumedIs ==
    ASSUME NEW c \in Configs, NEW n \in Nat, n > 0
    PROVE  \A p \in 0..PassCount(c, n) : Consumed(c, n)[p] = StepsBy(c, n, p)
<1> DEFINE K == PassCount(c, n)
           Runs(f) == f = [p \in 0..K |-> IF p = 0 THEN 0
                                          ELSE f[p - 1] + Len(PassIndices(c, n, p, f[p - 1]))]
           upTo == CHOOSE f : Runs(f)
           W == [p \in 0..K |-> StepsBy(c, n, p)]
<1>1. K \in Nat /\ K > 0
  BY PassCountIs
<1>2. \A p \in 1..K : Len(PassIndices(c, n, p, StepsBy(c, n, p - 1))) = LengthOf(c, n, p)
  BY PassIndicesIs DEF PassIs
<1>3. \A p \in 1..K : StepsBy(c, n, p) = StepsBy(c, n, p - 1) + LengthOf(c, n, p)
  BY StepsAre
<1>4. StepsBy(c, n, 0) = 0
  BY DEF StepsBy
<1> HIDE DEF K
<1>5. Runs(W)
  <2>1. \A p \in 0..K : p # 0 => p \in 1..K /\ p - 1 \in 0..K
    BY <1>1
  <2>2. \A p \in 0..K : W[p] = IF p = 0 THEN 0
                               ELSE W[p - 1] + Len(PassIndices(c, n, p, W[p - 1]))
    BY <1>2, <1>3, <1>4, <2>1
  <2> QED
    BY <2>2
<1>6. Runs(upTo)
  <2> HIDE DEF W
  <2> QED
    BY <1>5
<1>7. Consumed(c, n) = upTo
  BY DEF Consumed, K
<1> HIDE DEF upTo
<1>8. upTo[0] = 0 /\ \A p \in 1..K : upTo[p] = upTo[p - 1] + Len(PassIndices(c, n, p, upTo[p - 1]))
  <2>1. 0 \in 0..K /\ \A p \in 1..K : p \in 0..K /\ p # 0
    BY <1>1
  <2> QED
    BY <2>1, <1>6
<1> DEFINE Good == {p \in 0..K : upTo[p] = StepsBy(c, n, p)}
<1>9. 0 \in Good
  BY <1>1, <1>4, <1>8
<1>10. \A p \in 1..K : p - 1 \in Good => p \in Good
  BY <1>1, <1>2, <1>3, <1>8
<1>11. \A p \in 0..K : p \in Good
  <2> HIDE DEF Good
  <2> QED
    BY <1>1, <1>9, <1>10, UpTo
<1> QED
  BY <1>7, <1>11 DEF K

\* The plan of a run: every pass has its length and takes each view once at the most,
\* and all of them when it is whole (training_schedule).
THEOREM PlanInTurn ==
    ASSUME NEW c \in Configs, NEW n \in Nat, n > 0
    PROVE  /\ Len(TrainingSchedule(c, n)) = PassCount(c, n)
           /\ \A p \in 1..PassCount(c, n) : PassIs(TrainingSchedule(c, n)[p], n, LengthOf(c, n, p))
<1> DEFINE K == PassCount(c, n)
           S == TrainingSchedule(c, n)
<1>1. K \in Nat
  BY PassCountIs
<1>2. S = [p \in 1..K |-> PassIndices(c, n, p, Consumed(c, n)[p - 1])]
  BY DEF TrainingSchedule
<1> HIDE DEF S, K
<1>3. \A p \in 1..K : p - 1 \in 0..K
  BY <1>1
<1>4. \A p \in 1..K : S[p] = PassIndices(c, n, p, StepsBy(c, n, p - 1))
  BY <1>2, <1>3, ConsumedIs DEF K
<1>5. \A p \in 1..K : PassIs(S[p], n, LengthOf(c, n, p))
  BY <1>4, PassIndicesIs DEF K
<1>6. Len(S) = K
  <2>1. \A X, f : f \in [1..K -> X] => Len(f) = K
    BY <1>1
  <2>2. S \in [1..K -> {S[p] : p \in 1..K}]
    BY <1>2
  <2> QED
    BY <2>1, <2>2
<1> QED
  BY <1>5, <1>6 DEF S, K

-----------------------------------------------------------------------------
(* EachViewInTurn *)

LEMMA DataIs ==
    ASSUME NEW c \in Configs, NEW m, DOMAIN m = DOMAIN Archive,
           NEW train \in Seq(SamplesOf(m, "train")), train # <<>>,
           NEW V, V = Views(train, c.tile, c.overlap)
    PROVE  /\ V \in Seq([image : DOMAIN train, window : Corners])
           /\ Len(V) \in Nat /\ Len(V) > 0 /\ DOMAIN V = 1..Len(V)
<1>1. \A image \in SamplesOf(m, "train") : HasSize(image)
  BY SampleHasSize DEF SamplesOf, OfSplit
<1>2. c.tile \in Nat /\ c.overlap \in Nat /\ (c.tile # 0 => c.overlap < c.tile)
  BY ConfigAssumption
<1>3. V \in Seq([image : DOMAIN train, window : Corners]) /\ V # <<>>
  BY <1>1, <1>2, ViewsIs
<1> DEFINE X == [image : DOMAIN train, window : Corners]
<1> HIDE DEF X
<1>4. V \in Seq(X) /\ V # <<>>
  BY <1>3 DEF X
<1> QED
  BY <1>3, <1>4

\* v is an entry of s.
In(v, s) == \E i \in DOMAIN s : s[i] = v

\* A smoke run by epochs may stop short of a pass (training_schedule); no other run does.
Evenly(c) == ~ c.smoke \/ ByBudget(c)

\* Where a pass has come to: the views still to visit have one visit less than the others.
Visits(c, n, p, rest, counts) ==
    \A v \in 1..n :
        /\ counts[v] \in {p - 1, p}
        /\ In(v, rest) => counts[v] = p - 1
        /\ LengthOf(c, n, p) = n /\ ~ In(v, rest) => counts[v] = p

\* Where a run stands in its plan: the pass, what is left of it, the visits so far.
Progress(c, n, p, rest, counts, taken) ==
    /\ p \in 0..PassCount(c, n) /\ rest \in Seq(1..n) /\ counts \in [1..n -> Nat]
    /\ \A i, j \in DOMAIN rest : rest[i] = rest[j] => i = j
    /\ p = 0 => rest = <<>> /\ taken = 0 /\ \A v \in 1..n : counts[v] = 0
    /\ p > 0 => Len(rest) <= LengthOf(c, n, p) /\ taken = StepsBy(c, n, p) - Len(rest)
    /\ p > 0 /\ Evenly(c) => Visits(c, n, p, rest, counts)

\* The run keeps to its schedule, and has a summary only when all of it is done.
TurnInv ==
    /\ DOMAIN files = RunFiles
    /\ pc = "waiting" => /\ \A file \in RunFiles : files[file] = Absent
                         /\ pass = 0 /\ left = <<>> /\ steps = 0
    /\ pc # "waiting" =>
         /\ Progress(config, Len(views), pass, left, trained, steps)
         /\ pc \in {"step", "record"} => pass > 0
         /\ pc = "step" => left # <<>>
         /\ pc \notin {"step", "failed", "killed"} => left = <<>>
         /\ Readable("summary") => /\ pc \in {"artifacts", "done", "failed", "killed"}
                                   /\ pass = Len(plan) /\ left = <<>>

LEMMA FirstPass ==
    ASSUME NEW c \in Configs, NEW n \in Nat, n > 0
    PROVE  Progress(c, n, 0, <<>>, [v \in 1..n |-> 0], 0)
<1>1. PassCount(c, n) \in Nat
  BY PassCountIs
<1> QED
  BY <1>1 DEF Progress

\* A new pass may begin when nothing is left of the one before.
LEMMA NextPass ==
    ASSUME NEW c \in Configs, NEW n \in Nat, n > 0, NEW p, NEW counts, NEW taken,
           Progress(c, n, p, <<>>, counts, taken), p < PassCount(c, n)
    PROVE  LET s == TrainingSchedule(c, n)[p + 1]
           IN  Progress(c, n, p + 1, s, counts, taken) /\ s # <<>>
<1>1. PICK K \in Nat : K = PassCount(c, n)
  BY PassCountIs
<1>2. p \in Nat /\ p + 1 \in 1..K /\ p + 1 > 0 /\ p + 1 # 0
  BY <1>1 DEF Progress
<1>3. PICK s : s = TrainingSchedule(c, n)[p + 1]
  OBVIOUS
<1>4. PassIs(s, n, LengthOf(c, n, p + 1))
  BY <1>1, <1>2, <1>3, PlanInTurn
<1>5. PICK q \in Nat : q = p + 1
  BY <1>2
<1>6. /\ StepsBy(c, n, p) \in Nat /\ LengthOf(c, n, q) \in 1..n
      /\ StepsBy(c, n, q) = StepsBy(c, n, p) + LengthOf(c, n, q)
  <2>1. q \in 1..PassCount(c, n) /\ q - 1 = p
    BY <1>1, <1>2, <1>5
  <2> QED
    BY <2>1, StepsAre
<1>7. taken = StepsBy(c, n, p)
  <2>1. CASE p = 0
    BY <2>1 DEF Progress, StepsBy
  <2>2. CASE p # 0
    <3>1. taken = StepsBy(c, n, p) - Len(<<>>) /\ Len(<<>>) = 0
      BY <1>2, <2>2 DEF Progress
    <3> QED
      BY <1>6, <3>1
  <2> QED
    BY <2>1, <2>2
<1>8. Evenly(c) => \A v \in 1..n : counts[v] = p
  <2>1. CASE p = 0
    BY <2>1 DEF Progress
  <2>2. CASE p # 0
    <3>1. Evenly(c) => LengthOf(c, n, p) = n
      BY <1>1, <1>2 DEF Evenly, LengthOf
    <3>2. \A v : ~ In(v, <<>>)
      BY DEF In
    <3> QED
      BY <1>2, <2>2, <3>1, <3>2 DEF Progress, Visits
  <2> QED
    BY <2>1, <2>2
<1>9. Evenly(c) => Visits(c, n, q, s, counts)
  <2>1. LengthOf(c, n, q) = n => \A v \in 1..n : In(v, s)
    BY <1>4, <1>5 DEF PassIs, In
  <2> QED
    BY <1>2, <1>5, <1>8, <2>1 DEF Visits
<1>10. /\ s \in Seq(1..n) /\ Len(s) = LengthOf(c, n, q) /\ s # <<>>
       /\ \A i, j \in DOMAIN s : s[i] = s[j] => i = j
  <2>1. s \in Seq(1..n) /\ Len(s) = LengthOf(c, n, q) /\ Len(s) # 0
        /\ \A i, j \in DOMAIN s : s[i] = s[j] => i = j
    BY <1>4, <1>5, <1>6 DEF PassIs
  <2>2. Len(<<>>) = 0
    OBVIOUS
  <2> QED
    BY <2>1, <2>2
<1>11. Progress(c, n, q, s, counts, taken)
  <2>1. taken = StepsBy(c, n, q) - Len(s) /\ Len(s) <= LengthOf(c, n, q)
    BY <1>6, <1>7, <1>10
  <2>2. q \in 0..PassCount(c, n) /\ q > 0 /\ counts \in [1..n -> Nat]
    BY <1>1, <1>2, <1>5 DEF Progress
  <2> QED
    BY <1>9, <1>10, <2>1, <2>2 DEF Progress
<1> QED
  BY <1>3, <1>5, <1>10, <1>11

LEMMA TailIs ==
    ASSUME NEW X, NEW s \in Seq(X), s # <<>>
    PROVE  /\ Tail(s) \in Seq(X) /\ Len(Tail(s)) = Len(s) - 1 /\ Len(s) \in Nat
           /\ 1 \in DOMAIN s /\ s[1] = Head(s) /\ Head(s) \in X
           /\ \A i \in DOMAIN Tail(s) :
                i + 1 \in DOMAIN s /\ Tail(s)[i] = s[i + 1] /\ i + 1 # 1 /\ i \in Nat
           /\ \A i \in DOMAIN s : i # 1 => i - 1 \in DOMAIN Tail(s) /\ Tail(s)[i - 1] = s[i]
<1>1. Tail(s) \in Seq(X) /\ Len(Tail(s)) = Len(s) - 1 /\ Len(s) \in Nat
  OBVIOUS
<1>2. 1 \in DOMAIN s /\ s[1] = Head(s) /\ Head(s) \in X
  OBVIOUS
<1>3. \A i \in 1..Len(Tail(s)) : Tail(s)[i] = s[i + 1]
  OBVIOUS
<1>4. DOMAIN s = 1..Len(s) /\ DOMAIN Tail(s) = 1..Len(Tail(s))
  BY <1>1
<1>5. \A i \in DOMAIN Tail(s) :
         i + 1 \in DOMAIN s /\ Tail(s)[i] = s[i + 1] /\ i + 1 # 1 /\ i \in Nat
  BY <1>1, <1>3, <1>4
<1>6. ASSUME NEW i \in DOMAIN s, i # 1
      PROVE  i - 1 \in DOMAIN Tail(s) /\ Tail(s)[i - 1] = s[i]
  <2>1. PICK j \in Nat : j = i - 1 /\ j + 1 = i /\ j \in DOMAIN Tail(s)
    BY <1>1, <1>4, <1>6
  <2> QED
    BY <1>5, <2>1
<1> QED
  BY <1>1, <1>2, <1>5, <1>6

\* One step takes the next view of the pass.
LEMMA NextStep ==
    ASSUME NEW c \in Configs, NEW n \in Nat, n > 0, NEW p, NEW rest, rest # <<>>, p > 0,
           NEW counts, NEW taken, Progress(c, n, p, rest, counts, taken)
    PROVE  /\ Progress(c, n, p, Tail(rest), [counts EXCEPT ![Head(rest)] = @ + 1], taken + 1)
           /\ Len(rest) = 1 => Tail(rest) = <<>>
           /\ Len(rest) # 1 => Tail(rest) # <<>>
<1> DEFINE v0 == Head(rest)
           after == [counts EXCEPT ![v0] = @ + 1]
<1>1. PICK K \in Nat : K = PassCount(c, n)
  BY PassCountIs
<1>2. /\ p \in 1..K /\ rest \in Seq(1..n) /\ counts \in [1..n -> Nat]
      /\ \A i, j \in DOMAIN rest : rest[i] = rest[j] => i = j
      /\ Len(rest) <= LengthOf(c, n, p) /\ taken = StepsBy(c, n, p) - Len(rest)
      /\ Evenly(c) => Visits(c, n, p, rest, counts)
  BY <1>1 DEF Progress
<1>3. StepsBy(c, n, p) \in Nat /\ LengthOf(c, n, p) \in 1..n
  BY <1>1, <1>2, StepsAre
<1>4. PICK t \in Seq(1..n) : t = Tail(rest)
  BY <1>2, TailIs
<1>5. /\ Len(t) = Len(rest) - 1 /\ 1 \in DOMAIN rest /\ rest[1] = v0 /\ v0 \in 1..n
      /\ \A i \in DOMAIN t : i + 1 \in DOMAIN rest /\ t[i] = rest[i + 1] /\ i + 1 # 1 /\ i \in Nat
      /\ \A i \in DOMAIN rest : i # 1 => i - 1 \in DOMAIN t /\ t[i - 1] = rest[i]
      /\ Len(rest) \in Nat
  BY <1>2, <1>4, TailIs
<1> HIDE DEF v0
<1>6. \A i, j \in DOMAIN t : t[i] = t[j] => i = j
  <2> SUFFICES ASSUME NEW i \in DOMAIN t, NEW j \in DOMAIN t, t[i] = t[j]
               PROVE  i = j
    OBVIOUS
  <2>1. i + 1 = j + 1
    BY <1>2, <1>5
  <2> QED
    BY <1>5, <2>1
<1>7. ~ In(v0, t) /\ In(v0, rest)
  BY <1>2, <1>5 DEF In
<1>8. \A v \in 1..n : v # v0 => (In(v, t) <=> In(v, rest))
  BY <1>5 DEF In
<1>9. after \in [1..n -> Nat] /\ after[v0] = counts[v0] + 1 /\ \A v \in 1..n : v # v0 => after[v] = counts[v]
  BY <1>2, <1>5
<1> HIDE DEF after
<1>10. Evenly(c) => Visits(c, n, p, t, after)
  <2> SUFFICES ASSUME Evenly(c), NEW v \in 1..n
               PROVE  /\ after[v] \in {p - 1, p}
                      /\ In(v, t) => after[v] = p - 1
                      /\ LengthOf(c, n, p) = n /\ ~ In(v, t) => after[v] = p
    BY DEF Visits
  <2>1. /\ counts[v] \in {p - 1, p}
        /\ In(v, rest) => counts[v] = p - 1
        /\ LengthOf(c, n, p) = n /\ ~ In(v, rest) => counts[v] = p
    BY <1>2 DEF Visits
  <2>2. CASE v = v0
    <3>1. after[v] = p
      BY <1>2, <1>7, <1>9, <2>1, <2>2
    <3> QED
      BY <1>7, <2>2, <3>1
  <2>3. CASE v # v0
    <3>1. after[v] = counts[v] /\ (In(v, t) <=> In(v, rest))
      BY <1>8, <1>9, <2>3
    <3> QED
      BY <2>1, <3>1
  <2> QED
    BY <2>2, <2>3
<1>11. Len(t) <= LengthOf(c, n, p) /\ taken + 1 = StepsBy(c, n, p) - Len(t)
  BY <1>2, <1>3, <1>5, SMTT(30)
<1>12. p \in 0..PassCount(c, n) /\ p # 0
  BY <1>1, <1>2
<1>13. Progress(c, n, p, t, after, taken + 1)
  BY <1>6, <1>9, <1>10, <1>11, <1>12, <1>4 DEF Progress
<1>14. (Len(rest) = 1 => t = <<>>) /\ (Len(rest) # 1 => t # <<>>)
  <2>1. Len(<<>>) = 0
    OBVIOUS
  <2>2. Len(t) = 0 => t = <<>>
    OBVIOUS
  <2> QED
    BY <1>5, <2>1, <2>2
<1> QED
  BY <1>4, <1>13, <1>14 DEF after, v0

\* What a run that has begun works with.
LEMMA DataHere ==
    ASSUME TrainingData, pc # "waiting"
    PROVE  /\ config \in Configs /\ Len(views) \in Nat /\ Len(views) > 0
           /\ DOMAIN views = 1..Len(views)
           /\ plan = TrainingSchedule(config, Len(views))
           /\ Len(plan) = PassCount(config, Len(views))
<1>1. /\ config \in Configs /\ DOMAIN digest = DOMAIN Archive
      /\ samples.train \in Seq(SamplesOf(digest, "train")) /\ samples.train # <<>>
      /\ views = Views(samples.train, config.tile, config.overlap)
      /\ plan = TrainingSchedule(config, Len(views))
  BY DEF TrainingData
<1>2. Len(views) \in Nat /\ Len(views) > 0 /\ DOMAIN views = 1..Len(views)
  BY <1>1, DataIs
<1>3. Len(plan) = PassCount(config, Len(views))
  BY <1>1, <1>2, PlanInTurn
<1> QED
  BY <1>1, <1>2, <1>3

LEMMA TurnStart ==
    ASSUME TurnInv, TrainingData', NEW c \in Configs, Start(c)
    PROVE  TurnInv'
<1>1. /\ pc = "waiting" /\ pc' = "pass" /\ config' = c
      /\ pass' = 0 /\ left' = <<>> /\ steps' = 0
      /\ trained' = [v \in DOMAIN views' |-> 0]
      /\ files' = files /\ \A file \in RunFiles : files[file] = Absent
  BY DEF Start, TurnInv
<1>2. PICK V : V = views'
  OBVIOUS
<1>3. PICK m : m = digest'
  OBVIOUS
<1>4. PICK train : train = samples'.train
  OBVIOUS
<1>5. /\ DOMAIN m = DOMAIN Archive
      /\ train \in Seq(SamplesOf(m, "train")) /\ train # <<>>
      /\ V = Views(train, c.tile, c.overlap)
  BY <1>1, <1>2, <1>3, <1>4 DEF TrainingData
<1>6. Len(V) \in Nat /\ Len(V) > 0 /\ DOMAIN V = 1..Len(V)
  BY <1>5, DataIs
<1>7. Progress(c, Len(V), 0, <<>>, [v \in 1..Len(V) |-> 0], 0)
  BY <1>6, FirstPass
<1>8. Progress(config', Len(views'), pass', left', trained', steps')
  BY <1>1, <1>2, <1>6, <1>7
<1>9. ~ Readable("summary")'
  BY <1>1 DEF Readable, RunFiles
<1> QED
  BY <1>1, <1>8, <1>9 DEF TurnInv

LEMMA TurnBegin ==
    ASSUME TurnInv, TrainingData, BeginPass
    PROVE  TurnInv'
<1>1. /\ pc = "pass" /\ pc' = "step" /\ pass < Len(plan) /\ pass' = pass + 1
      /\ left' = plan[pass + 1] /\ left = <<>>
      /\ UNCHANGED <<dataVars, steps, trained, files>>
  BY DEF BeginPass, TurnInv
<1>2. /\ config \in Configs /\ Len(views) \in Nat /\ Len(views) > 0
      /\ plan = TrainingSchedule(config, Len(views)) /\ Len(plan) = PassCount(config, Len(views))
  BY <1>1, DataHere
<1>3. Progress(config, Len(views), pass, <<>>, trained, steps)
  BY <1>1 DEF TurnInv
<1>4. Progress(config, Len(views), pass + 1, left', trained, steps) /\ left' # <<>>
  BY <1>1, <1>2, <1>3, NextPass
<1>5. pass \in Nat /\ ~ Readable("summary")
  BY <1>1 DEF TurnInv, Progress
<1> QED
  BY <1>1, <1>4, <1>5 DEF TurnInv, dataVars, Readable

LEMMA TurnTake ==
    ASSUME TurnInv, TrainingData, Step
    PROVE  TurnInv'
<1>1. /\ pc = "step" /\ left # <<>> /\ pass > 0
      /\ pc' = IF Len(left) = 1 THEN "record" ELSE "step"
      /\ trained' = [trained EXCEPT ![Head(left)] = @ + 1]
      /\ steps' = steps + 1 /\ left' = Tail(left)
      /\ UNCHANGED <<dataVars, pass, files>>
  BY DEF Step, TurnInv
<1>2. config \in Configs /\ Len(views) \in Nat /\ Len(views) > 0
  BY <1>1, DataHere
<1>3. Progress(config, Len(views), pass, left, trained, steps)
  BY <1>1 DEF TurnInv
<1>4. /\ Progress(config, Len(views), pass, left', trained', steps')
      /\ Len(left) = 1 => left' = <<>>
      /\ Len(left) # 1 => left' # <<>>
  BY <1>1, <1>2, <1>3, NextStep
<1>5. ~ Readable("summary")
  BY <1>1 DEF TurnInv
<1> QED
  BY <1>1, <1>4, <1>5 DEF TurnInv, dataVars, Readable

LEMMA TurnOther ==
    ASSUME TurnInv, TrainingData, Working, ~ BeginPass, ~ Step
    PROVE  TurnInv'
<1>0. DOMAIN files = RunFiles
  BY DEF TurnInv
<1>1. /\ pc # "waiting" /\ UNCHANGED <<dataVars, pass, left, trained, steps>>
  BY DEF Working, SaveState, SaveBest, SaveCheckpoint, Record, WriteSummary, LogArtifacts,
         Fail, Kill, Running
<1>2. /\ DOMAIN files' = RunFiles
      /\ pc' \in {"pass", "state", "best", "checkpoint", "artifacts", "done", "failed", "killed"}
      /\ pc' \notin {"failed", "killed"} => pc \notin {"step", "failed", "killed"}
      /\ Readable("summary")' =>
           \/ Readable("summary") /\ (pc = pc' \/ pc' \in {"done", "failed", "killed"})
           \/ pc' = "artifacts" /\ pc = "pass" /\ pass = Len(plan)
  <2>1. CASE SaveState \/ SaveBest \/ SaveCheckpoint \/ LogArtifacts \/ Fail
    <3>1. SaveState \/ SaveBest \/ SaveCheckpoint => ~ Readable("summary")
      BY <1>1 DEF SaveState, SaveBest, SaveCheckpoint, TurnInv
    <3> QED
      BY <1>0, <1>1, <2>1, <3>1 DEF SaveState, SaveBest, SaveCheckpoint, LogArtifacts, Fail, Write, Readable,
             RunFiles, Running
  <2>2. CASE \E found \in Detections : Record(found)
    <3>1. PICK content : files' = [files EXCEPT !["history"] = content]
      BY <2>2 DEF Record, Write
    <3>2. pc = "record" /\ pc' \in {"pass", "state"}
      BY <2>2 DEF Record
    <3>3. ~ Readable("summary")
      BY <1>1, <3>2 DEF TurnInv
    <3> QED
      BY <1>0, <3>1, <3>2, <3>3 DEF Readable, RunFiles
  <2>3. CASE WriteSummary
    BY <1>0, <2>3 DEF WriteSummary, Write, Readable, RunFiles
  <2>4. CASE Kill
    BY <1>0, <2>4 DEF Kill, Write, Readable, RunFiles, Running
  <2> QED
    BY <2>1, <2>2, <2>3, <2>4 DEF Working
<1>3. pc \notin {"step", "failed", "killed"} => left = <<>>
  BY <1>1 DEF TurnInv
<1>4. Readable("summary") => /\ pc \in {"artifacts", "done", "failed", "killed"}
                             /\ pass = Len(plan) /\ left = <<>>
  BY <1>1 DEF TurnInv
<1>5. Progress(config, Len(views), pass, left, trained, steps)
  BY <1>1 DEF TurnInv
<1>6. Progress(config', Len(views'), pass', left', trained', steps')
  BY <1>1, <1>5 DEF dataVars
<1>7. plan' = plan /\ pass' = pass /\ left' = left
  BY <1>1 DEF dataVars
<1> QED
  BY <1>2, <1>3, <1>4, <1>6, <1>7 DEF TurnInv

LEMMA TurnKept ==
    ASSUME TurnInv, UNCHANGED trainVars, DOMAIN files' = DOMAIN files,
           files'.summary = files.summary, pc = "waiting" => files' = files
    PROVE  TurnInv'
BY DEF TurnInv, trainVars, Readable

\* An evaluation writes its own file only, and that once there is a run.
LEMMA EvaluationWrites ==
    ASSUME UnseenInv, Evaluate
    PROVE  /\ UNCHANGED trainVars /\ DOMAIN files' = DOMAIN files /\ pc # "waiting"
           /\ \A file \in RunFiles \ {"validation", "test"} : files'[file] = files[file]
<1>1. UNCHANGED trainVars
  BY DEF Evaluate, OpenRun, VerifyRun, RecordEvaluation, AbandonEvaluation
<1>2. pc # "waiting"
  <2>1. ASSUME NEW split \in {"validation", "test"}, OpenRun(split)
        PROVE  pc # "waiting"
    BY <2>1 DEF OpenRun, UnseenInv, Readable, RunFiles
  <2> QED
    BY <2>1 DEF Evaluate, VerifyRun, RecordEvaluation, AbandonEvaluation, UnseenInv, Idle
<1>3. \/ UNCHANGED files
      \/ /\ evaluator.pc = "verified"
         /\ \E content : files' = [files EXCEPT ![evaluator.split] = content]
  BY DEF Evaluate, OpenRun, VerifyRun, RecordEvaluation, AbandonEvaluation, Write
<1>4. CASE UNCHANGED files
  BY <1>1, <1>2, <1>4
<1>5. CASE /\ evaluator.pc = "verified"
           /\ \E content : files' = [files EXCEPT ![evaluator.split] = content]
  <2>1. evaluator.split \in {"validation", "test"}
    BY <1>5 DEF UnseenInv, Idle
  <2>2. PICK content : files' = [files EXCEPT ![evaluator.split] = content]
    BY <1>5
  <2> QED
    BY <1>1, <1>2, <2>1, <2>2 DEF UnseenInv, RunFiles
<1> QED
  BY <1>3, <1>4, <1>5

LEMMA TurnStep ==
    ASSUME TurnInv, UnseenInv, TrainingData, TrainingData', [Next]_vars
    PROVE  TurnInv'
<1>1. CASE UNCHANGED runVars
  BY <1>1, TurnKept DEF runVars
<1>2. CASE \E c \in Configs : Start(c)
  BY <1>2, TurnStart
<1>3. CASE Working
  BY <1>3, TurnBegin, TurnTake, TurnOther
<1>4. CASE Evaluate
  <2>1. UNCHANGED trainVars
    BY <1>4 DEF Evaluate, OpenRun, VerifyRun, RecordEvaluation, AbandonEvaluation
  <2>2. DOMAIN files' = DOMAIN files /\ files'.summary = files.summary /\ pc # "waiting"
    BY <1>4, EvaluationWrites DEF RunFiles
  <2> QED
    BY <2>1, <2>2, TurnKept
<1>5. UNCHANGED runVars \/ (\E c \in Configs : Start(c)) \/ Working \/ Evaluate
  <2>1. Train => Working \/ \E c \in Configs : Start(c)
    BY DEF Train, Working
  <2> QED
    BY <2>1 DEF Next, Analyze, Audit, vars, Released
<1> QED
  BY <1>1, <1>2, <1>3, <1>4, <1>5

LEMMA TurnImplies ==
    ASSUME TurnInv, TrainingData
    PROVE  EachViewInTurn
<1> SUFFICES ASSUME pc # "waiting"
             PROVE  /\ ~config.smoke \/ ByBudget(config) =>
                         \A v, w \in DOMAIN trained : trained[v] <= trained[w] + 1
                    /\ ByBudget(config) => steps <= config.budget
                    /\ Readable("summary") =>
                         steps = IF ByBudget(config) THEN config.budget
                                 ELSE config.epochs * PassLength(config, Len(views), 0)
  BY DEF EachViewInTurn
<1> DEFINE n == Len(views)
<1>1. /\ config \in Configs /\ n \in Nat /\ n > 0 /\ Len(plan) = PassCount(config, n)
  BY DataHere
<1>2. Progress(config, n, pass, left, trained, steps)
  BY DEF TurnInv
<1>3. PICK K \in Nat : K = PassCount(config, n) /\ K > 0
  BY <1>1, PassCountIs
<1>4. pass \in 0..K /\ trained \in [1..n -> Nat] /\ left \in Seq(1..n)
  BY <1>2, <1>3 DEF Progress
<1>5. /\ config.budget \in Nat /\ config.epochs \in Nat
      /\ (ByBudget(config) <=> config.budget > 0)
  BY <1>1, ConfigAssumption DEF ByBudget
<1> HIDE DEF n
<1>6. ASSUME ~config.smoke \/ ByBudget(config), NEW v \in DOMAIN trained, NEW w \in DOMAIN trained
      PROVE  trained[v] <= trained[w] + 1
  <2>1. v \in 1..n /\ w \in 1..n
    BY <1>4
  <2>2. CASE pass = 0
    BY <1>2, <2>1, <2>2 DEF Progress
  <2>3. CASE pass > 0
    <3>1. trained[v] \in {pass - 1, pass} /\ trained[w] \in {pass - 1, pass}
      BY <1>2, <1>6, <2>1, <2>3 DEF Progress, Visits, Evenly
    <3> QED
      BY <1>4, <3>1
  <2> QED
    BY <1>4, <2>2, <2>3
<1>7. pass > 0 => /\ StepsBy(config, n, pass) \in Nat
                  /\ steps = StepsBy(config, n, pass) - Len(left)
                  /\ ByBudget(config) => StepsBy(config, n, pass) <= config.budget
  <2>1. pass > 0 => pass \in 1..K
    BY <1>4
  <2> QED
    BY <1>1, <1>2, <1>3, <2>1, StepsAre DEF Progress
<1>8. ByBudget(config) => steps <= config.budget
  <2>1. CASE pass = 0
    BY <1>2, <1>5, <2>1 DEF Progress
  <2>2. CASE pass > 0
    <3>1. Len(left) \in Nat
      BY <1>4
    <3> QED
      BY <1>5, <1>7, <2>2, <3>1
  <2> QED
    BY <1>4, <2>1, <2>2
<1>9. ASSUME Readable("summary")
      PROVE  steps = IF ByBudget(config) THEN config.budget
                     ELSE config.epochs * PassLength(config, Len(views), 0)
  <2>1. pass = K /\ left = <<>>
    BY <1>1, <1>3, <1>9 DEF TurnInv, n
  <2>2. Len(<<>>) = 0 /\ pass > 0
    BY <1>3, <2>1
  <2>3. steps = StepsBy(config, n, K)
    BY <1>7, <2>1, <2>2
  <2>4. CASE ByBudget(config)
    BY <1>3, <2>3, <2>4 DEF StepsBy
  <2>5. CASE ~ ByBudget(config)
    <3>1. K = config.epochs
      BY <1>3, <2>5 DEF PassCount
    <3>2. PICK l \in Nat : l = LengthOf(config, n, 1) /\ l = PassLength(config, n, 0)
      <4>1. LengthOf(config, n, 1) = PassLength(config, n, 0)
        BY <2>5 DEF LengthOf, PassLength
      <4>2. 1 \in 1..PassCount(config, n)
        BY <1>3
      <4>3. LengthOf(config, n, 1) \in 1..n
        BY <1>1, <4>2, StepsAre
      <4> QED
        BY <4>1, <4>3, <1>1
    <3>3. StepsBy(config, n, K) = l * K
      BY <1>3, <2>5, <3>2 DEF StepsBy
    <3>4. l * K = K * l
      BY <1>3, <3>2
    <3> QED
      BY <2>3, <2>5, <3>1, <3>2, <3>3, <3>4 DEF n
  <2> QED
    BY <2>4, <2>5
<1> QED
  BY <1>6, <1>8, <1>9

LEMMA FiniteUnion ==
    ASSUME NEW n \in Nat, NEW S, NEW f \in [1..n -> S], \A k \in 1..n : IsFiniteSet(f[k])
    PROVE  IsFiniteSet(UNION {f[k] : k \in 1..n})
<1>1. IsFiniteSet({f[k] : k \in 1..n})
  BY FiniteImage
<1> QED
  BY <1>1, FS_UNION

\* The score of an epoch is a number.
LEMMA ScoreIs ==
    ASSUME TrainingData, pc # "waiting", NEW predictions
    PROVE  Score(predictions) \in Nat
<1> DEFINE boards == Boards(predictions)
           m == Len(ValidationImages)
           Took(i) == Taken(boards[i].matches) \cap DOMAIN boards[i].truth
           f == [i \in 1..m |-> {i} \X Took(i)]
<1>1. /\ DOMAIN digest = DOMAIN Archive
      /\ ValidationImages \in Seq(SamplesOf(digest, "validation"))
  BY DEF TrainingData, ValidationImages
<1>2. m \in Nat /\ DOMAIN ValidationImages = 1..m
  BY <1>1
<1>3. DOMAIN boards = 1..m
  BY <1>2 DEF Boards
<1>4. \A i \in 1..m : boards[i].truth =
          [a \in DOMAIN ValidationImages[i].annotations |->
              [box |-> ValidationImages[i].annotations[a].box,
               category |-> ValidationImages[i].annotations[a].class + 1]]
  BY <1>2 DEF Boards, Board
<1>5. ASSUME NEW i \in 1..m
      PROVE  IsFiniteSet(DOMAIN boards[i].truth)
  <2>1. PICK j \in DOMAIN Archive : ValidationImages[i] = Sample(j)
    BY <1>1, <1>2 DEF SamplesOf, OfSplit
  <2>2. DOMAIN boards[i].truth = DOMAIN Archive[j].annotations
    <3>1. DOMAIN Sample(j).annotations = DOMAIN Archive[j].annotations
      BY DEF Sample
    <3>2. DOMAIN boards[i].truth = DOMAIN ValidationImages[i].annotations
      BY <1>4
    <3> QED
      BY <2>1, <3>1, <3>2
  <2>3. PICK annotations : annotations = Archive[j].annotations /\ annotations \in Seq(Range(annotations))
    BY ReleaseAssumption
  <2>4. DOMAIN annotations = 1..Len(annotations) /\ Len(annotations) \in Nat
    BY <2>3
  <2>5. IsFiniteSet(1..Len(annotations))
    BY <2>4, FS_Interval
  <2> QED
    BY <2>2, <2>3, <2>4, <2>5
<1> HIDE DEF boards, m
<1>6. \A i \in 1..m : IsFiniteSet({i} \X Took(i))
  <2> TAKE i \in 1..m
  <2>1. IsFiniteSet(Took(i))
    BY <1>5, FS_Subset
  <2>2. IsFiniteSet({i})
    BY FS_Singleton
  <2> HIDE DEF Took
  <2> QED
    BY <2>1, <2>2, FS_Product
<1> HIDE DEF Took
<1>7. f \in [1..m -> {f[i] : i \in 1..m}] /\ \A i \in 1..m : f[i] = {i} \X Took(i)
  OBVIOUS
<1>8. IsFiniteSet(UNION {f[i] : i \in 1..m})
  <2>1. \A i \in 1..m : IsFiniteSet(f[i])
    BY <1>6, <1>7
  <2> HIDE DEF f
  <2>2. PICK S : f \in [1..m -> S]
    BY <1>7
  <2> QED
    BY <1>2, <2>1, <2>2, FiniteUnion
<1>9. Score(predictions) = Cardinality(UNION {{i} \X Took(i) : i \in DOMAIN boards})
  BY DEF Score, boards, Took
<1>10. UNION {{i} \X Took(i) : i \in DOMAIN boards} = UNION {f[i] : i \in 1..m}
  BY <1>3, <1>7
<1> QED
  BY <1>8, <1>9, <1>10, FS_CardinalityType

LEMMA AppendIs ==
    ASSUME NEW X, NEW s \in Seq(X), NEW x \in X
    PROVE  /\ Append(s, x) \in Seq(X) /\ Len(Append(s, x)) = Len(s) + 1 /\ Len(s) \in Nat
           /\ DOMAIN Append(s, x) = 1..(Len(s) + 1) /\ DOMAIN s = 1..Len(s)
           /\ \A i \in 1..Len(s) : Append(s, x)[i] = s[i]
           /\ Append(s, x)[Len(s) + 1] = x
OBVIOUS

-----------------------------------------------------------------------------
(* EvaluatedIsSelected *)

\* Row b is the first of the highest score.
FirstBest(h, b) ==
    /\ b \in DOMAIN h
    /\ \A j \in DOMAIN h : h[j].score <= h[b].score
    /\ \A j \in 1..(b - 1) : h[j].score < h[b].score

\* The history after so many passes.
HistoryIs(c, n, h, count) ==
    /\ h \in Seq(HistoryRows) /\ Len(h) = count
    /\ \A i \in 1..count : /\ h[i].last = StepsBy(c, n, i)
                           /\ IF ByBudget(c) /\ i < PassCount(c, n) THEN h[i].score = Nothing
                              ELSE h[i].score \in Nat

\* The rows a run has written.
RowCount == IF pc \in {"step", "record"} THEN pass - 1 ELSE pass

\* The weights on disk are the selected ones, unless they are about to be.
KeepsBest(h, best) ==
    IF ByBudget(config)
    THEN (pc \in {"best", "checkpoint"} \/ (pc = "pass" /\ pass = Len(plan)))
            => files.state = h[RowCount].last
    ELSE \E b \in DOMAIN h : /\ FirstBest(h, b) /\ best = h[b].score
                             /\ IF pc = "state" THEN b = RowCount ELSE files.state = h[b].last

\* The weights on disk are those of the selected row, which no row beats.
IsSelected(c, h, state) ==
    /\ state = h[Selected(c, h)].last
    /\ \A i \in DOMAIN h : h[i].score # Nothing => h[i].score <= h[Selected(c, h)].score

\* The history has one row a pass, and best AP is the first of its highest scores.
HistoryInv ==
    /\ epochs \in Nat
    /\ pc = "waiting" => bestAp = -1
    /\ pc \in {"pass", "step", "record", "state", "best", "checkpoint"} =>
         /\ RowCount = 0 => files.history = Absent /\ bestAp = -1
         /\ RowCount > 0 => /\ HistoryIs(config, Len(views), files.history, RowCount)
                            /\ KeepsBest(files.history, bestAp)
    /\ pc \in {"state", "best", "checkpoint"} => RowCount > 0

\* What an evaluation reads is the finished run.
Settles(split, checkpoint, state) ==
    /\ Readable("summary") /\ state = files.state /\ checkpoint.state = files.state
    /\ split = "test" => ~config.smoke

\* A finished run's weights are the selected ones, and so are those evaluated.
SelectInv ==
    /\ Readable("summary") => IsSelected(config, files.history, files.state)
    /\ pc = "waiting" => evaluator = Idle
    /\ evaluator = Idle \/ /\ evaluator.pc \in {"opened", "verified"}
                           /\ evaluator.split \in {"validation", "test"}
    /\ evaluator.pc = "verified" =>
         Settles(evaluator.split, evaluator.checkpoint, files.state)
    /\ \A split \in {"validation", "test"} : Readable(split) =>
         Settles(split, files[split].checkpoint, files[split].state)

\* Best finds the first row of the highest score.
LEMMA FirstBestIs ==
    ASSUME NEW h \in Seq(HistoryRows), NEW b, FirstBest(h, b), \A i \in DOMAIN h : h[i].score \in Nat
    PROVE  Best(h) = b
<1>1. Best(h) = CHOOSE i \in DOMAIN h : FirstBest(h, i)
  BY DEF Best, FirstBest
<1>2. ASSUME NEW i \in DOMAIN h, FirstBest(h, i)
      PROVE  i = b
  <2>1. DOMAIN h = 1..Len(h) /\ Len(h) \in Nat
    OBVIOUS
  <2>2. i \in Nat /\ b \in Nat /\ i > 0 /\ b > 0 /\ b \in DOMAIN h
    BY <2>1 DEF FirstBest
  <2>3. h[i].score \in Nat /\ h[b].score \in Nat
    BY <2>2
  <2>4. h[i].score <= h[b].score /\ h[b].score <= h[i].score
    BY <1>2, <2>2 DEF FirstBest
  <2>5. ~ (i < b)
    <3>1. i < b => i \in 1..(b - 1)
      BY <2>2
    <3>2. i < b => h[i].score < h[b].score
      BY <3>1 DEF FirstBest
    <3> QED
      BY <2>3, <2>4, <3>2
  <2>6. ~ (b < i)
    <3>1. b < i => b \in 1..(i - 1)
      BY <2>2
    <3>2. b < i => h[b].score < h[i].score
      BY <1>2, <3>1 DEF FirstBest
    <3> QED
      BY <2>3, <2>4, <3>2
  <2> QED
    BY <2>2, <2>5, <2>6
<1>3. b \in DOMAIN h
  BY DEF FirstBest
<1> QED
  BY <1>1, <1>2, <1>3

\* One row is written to the history of so many passes.
Extends(c, n, count, h, row, g) ==
    /\ count > 0 => HistoryIs(c, n, h, count)
    /\ row \in HistoryRows /\ row.last = StepsBy(c, n, count + 1)
    /\ IF ByBudget(c) /\ count + 1 < PassCount(c, n) THEN row.score = Nothing
       ELSE row.score \in Nat
    /\ g = IF count = 0 THEN <<row>> ELSE Append(h, row)

\* g is h with one more row.
SameBefore(h, count, g) ==
    /\ DOMAIN g = 1..(count + 1)
    /\ count > 0 => DOMAIN h = 1..count /\ \A i \in 1..count : g[i] = h[i]

\* A history with one more row of the next step is a history.
LEMMA HistoryGrows ==
    ASSUME NEW c, NEW n, NEW count \in Nat, NEW h, NEW row, NEW g, Extends(c, n, count, h, row, g)
    PROVE  HistoryIs(c, n, g, count + 1) /\ SameBefore(h, count, g) /\ g[count + 1] = row
<1>0. /\ count > 0 => HistoryIs(c, n, h, count)
      /\ row \in HistoryRows /\ row.last = StepsBy(c, n, count + 1)
      /\ IF ByBudget(c) /\ count + 1 < PassCount(c, n) THEN row.score = Nothing
         ELSE row.score \in Nat
      /\ g = IF count = 0 THEN <<row>> ELSE Append(h, row)
  BY DEF Extends
<1>1. /\ g \in Seq(HistoryRows) /\ Len(g) = count + 1
      /\ DOMAIN g = 1..(count + 1) /\ g[count + 1] = row
      /\ count > 0 => DOMAIN h = 1..count /\ \A i \in 1..count : g[i] = h[i]
  <2>1. CASE count = 0
    <3>1. <<row>> \in Seq(HistoryRows) /\ Len(<<row>>) = 1 /\ DOMAIN <<row>> = 1..1 /\ <<row>>[1] = row
      BY <1>0
    <3> QED
      BY <1>0, <2>1, <3>1
  <2>2. CASE count # 0
    <3>1. /\ g = Append(h, row) /\ h \in Seq(HistoryRows) /\ Len(h) = count /\ count > 0
          /\ row \in HistoryRows
      BY <1>0, <2>2 DEF HistoryIs
    <3> QED
      BY <3>1, AppendIs
  <2> QED
    BY <2>1, <2>2
<1>2. ASSUME NEW i \in 1..(count + 1)
      PROVE  /\ g[i].last = StepsBy(c, n, i)
             /\ IF ByBudget(c) /\ i < PassCount(c, n) THEN g[i].score = Nothing
                ELSE g[i].score \in Nat
  <2>1. CASE i = count + 1
    BY <1>0, <1>1, <2>1
  <2>2. CASE i # count + 1
    <3>1. count > 0 /\ i \in 1..count
      BY <2>2
    <3>2. g[i] = h[i]
      BY <1>1, <3>1
    <3> QED
      BY <1>0, <3>1, <3>2 DEF HistoryIs
  <2> QED
    BY <2>1, <2>2
<1>3. HistoryIs(c, n, g, count + 1)
  BY <1>1, <1>2 DEF HistoryIs
<1> QED
  BY <1>1, <1>3 DEF SameBefore

\* A better pass becomes the first best one, any other leaves it.
Improves(count, h, g, best, score, b) ==
    /\ count = 0 => best = -1
    /\ g[count + 1].score = score
    /\ \A i \in 1..(count + 1) : g[i].score \in Nat
    /\ SameBefore(h, count, g)
    /\ count > 0 => FirstBest(h, b) /\ best = h[b].score

\* One more row moves the best row only when it beats it.
LEMMA BestGrows ==
    ASSUME NEW count \in Nat, NEW h, NEW g, NEW best, NEW score \in Nat, NEW b,
           Improves(count, h, g, best, score, b)
    PROVE  /\ score > best => FirstBest(g, count + 1)
           /\ ~ (score > best) => count > 0 /\ FirstBest(g, b)
<1>0. /\ count = 0 => best = -1
      /\ DOMAIN g = 1..(count + 1) /\ g[count + 1].score = score
      /\ \A i \in 1..(count + 1) : g[i].score \in Nat
      /\ count > 0 => DOMAIN h = 1..count /\ \A i \in 1..count : g[i] = h[i]
      /\ count > 0 => FirstBest(h, b) /\ best = h[b].score
  BY DEF Improves, SameBefore
<1>1. \A i \in 1..(count + 1) : i = count + 1 \/ i \in 1..count
  OBVIOUS
<1>2. CASE count = 0
  <2>1. score > best
    BY <1>0, <1>2
  <2>2. \A i \in 1..(count + 1) : i = count + 1
    BY <1>2
  <2>3. 1..((count + 1) - 1) = {}
    BY <1>2
  <2>4. FirstBest(g, count + 1)
    <3>1. \A j \in 1..(count + 1) : g[j].score <= g[count + 1].score
      <4> SUFFICES ASSUME NEW j \in 1..(count + 1)
                   PROVE  g[j].score <= g[count + 1].score
        OBVIOUS
      <4>1. j = count + 1
        BY <2>2
      <4> QED
        BY <1>0, <4>1
    <3>2. count + 1 \in 1..(count + 1)
      OBVIOUS
    <3> QED
      BY <1>0, <2>3, <3>1, <3>2 DEF FirstBest
  <2> QED
    BY <2>1, <2>4
<1>3. CASE count > 0
  <2>1. /\ b \in 1..count /\ best = h[b].score
        /\ \A j \in 1..count : h[j].score <= h[b].score
        /\ \A j \in 1..(b - 1) : h[j].score < h[b].score
    BY <1>0, <1>3 DEF FirstBest
  <2>2. \A j \in 1..count : g[j].score = h[j].score /\ j \in 1..(count + 1)
    BY <1>0, <1>3
  <2>3. best \in Nat /\ \A j \in 1..count : g[j].score \in Nat /\ g[j].score <= best
    BY <1>0, <2>1, <2>2
  <2>4. ASSUME score > best
        PROVE  FirstBest(g, count + 1)
    <3>1. \A j \in 1..count : g[j].score < score
      BY <2>3, <2>4
    <3>2. (count + 1) - 1 = count
      OBVIOUS
    <3>3. \A j \in 1..((count + 1) - 1) : g[j].score < g[count + 1].score
      BY <1>0, <3>1, <3>2
    <3>4. \A j \in 1..(count + 1) : g[j].score <= g[count + 1].score
      BY <1>0, <1>1, <2>3, <3>1
    <3> QED
      BY <1>0, <3>3, <3>4 DEF FirstBest
  <2>5. ASSUME ~ (score > best)
        PROVE  FirstBest(g, b)
    <3>1. g[b].score = best /\ b \in 1..(count + 1)
      BY <2>1, <2>2
    <3>2. \A j \in 1..(count + 1) : g[j].score <= g[b].score
      BY <1>0, <1>1, <2>3, <2>5, <3>1
    <3>3. \A j \in 1..(b - 1) : j \in 1..count
      BY <2>1
    <3>4. \A j \in 1..(b - 1) : g[j].score < g[b].score
      BY <2>1, <2>2, <3>1, <3>3
    <3> QED
      BY <1>0, <3>1, <3>2, <3>4 DEF FirstBest
  <2> QED
    BY <1>3, <2>4, <2>5
<1> QED
  BY <1>2, <1>3

\* A run counts its steps; its last pass is the one that ends the budget.
LEMMA StepsHere ==
    ASSUME TrainingData, TurnInv, pc # "waiting", left = <<>>, pass > 0
    PROVE  /\ steps = StepsBy(config, Len(views), pass) /\ steps \in Nat
           /\ pass \in 1..Len(plan)
           /\ ByBudget(config) => (steps = config.budget <=> pass = Len(plan))
<1> DEFINE n == Len(views)
           K == PassCount(config, n)
<1>1. config \in Configs /\ n \in Nat /\ n > 0 /\ Len(plan) = K
  BY DataHere
<1>2. Progress(config, n, pass, left, trained, steps)
  BY DEF TurnInv
<1>3. K \in Nat /\ K > 0
  BY <1>1, PassCountIs
<1>4. pass \in 1..K
  BY <1>2, <1>3 DEF Progress
<1> HIDE DEF n, K
<1>5. StepsBy(config, n, pass) \in Nat
  BY <1>1, <1>4, StepsAre DEF K
<1>6. steps = StepsBy(config, n, pass)
  <2>1. steps = StepsBy(config, n, pass) - Len(<<>>) /\ Len(<<>>) = 0
    BY <1>2 DEF Progress
  <2> QED
    BY <1>5, <2>1
<1>7. ASSUME ByBudget(config)
      PROVE  steps = config.budget <=> pass = K
  <2>1. CASE pass = K
    BY <1>3, <1>6, <1>7, <2>1 DEF StepsBy, K
  <2>2. CASE pass # K
    <3>1. PICK p \in 1..K : p = pass + 1
      BY <1>3, <1>4, <2>2
    <3>2. /\ StepsBy(config, n, p) = StepsBy(config, n, p - 1) + LengthOf(config, n, p)
          /\ LengthOf(config, n, p) \in 1..n /\ StepsBy(config, n, p) <= config.budget
      BY <1>1, <1>7, <3>1, StepsAre DEF K
    <3>3. p - 1 = pass
      BY <1>4, <3>1
    <3>4. config.budget \in Nat
      BY <1>1, ConfigAssumption
    <3>5. StepsBy(config, n, pass) < config.budget
      BY <1>1, <1>5, <3>2, <3>3, <3>4
    <3> QED
      BY <1>5, <1>6, <2>2, <3>4, <3>5
  <2> QED
    BY <2>1, <2>2
<1> QED
  BY <1>1, <1>4, <1>5, <1>6, <1>7 DEF n

LEMMA HistoryStart ==
    ASSUME TurnInv, HistoryInv, NEW c \in Configs, Start(c)
    PROVE  HistoryInv'
<1>1. /\ pc' = "pass" /\ pass' = 0 /\ bestAp' = -1 /\ epochs' = epochs
      /\ files'.history = Absent
  BY DEF Start, TurnInv, HistoryInv, RunFiles
<1> QED
  BY <1>1 DEF HistoryInv, RowCount

\* What history.json holds does not depend on the step a pass is at.
LEMMA HistoryKept ==
    ASSUME HistoryInv, UNCHANGED dataVars, epochs' = epochs, bestAp' = bestAp,
           pc' # "waiting", pc \in {"pass", "step", "record", "best", "checkpoint"},
           RowCount' = RowCount, files'.history = files.history, files'.state = files.state,
           pc' \in {"pass", "step", "record", "checkpoint"},
           pc' = "checkpoint" => pc = "best",
           pc' = "pass" => pc = "checkpoint"
    PROVE  HistoryInv'
<1>1. config' = config /\ plan' = plan /\ Len(views') = Len(views)
  BY DEF dataVars
<1>2. RowCount > 0 => KeepsBest(files.history, bestAp)
  BY DEF HistoryInv
<1>3. KeepsBest(files.history, bestAp) => KeepsBest(files.history, bestAp)'
  BY <1>1 DEF KeepsBest
<1>4. pc' = "checkpoint" => RowCount > 0
  BY DEF HistoryInv
<1> QED
  BY <1>1, <1>2, <1>3, <1>4 DEF HistoryInv

LEMMA HistoryRecord ==
    ASSUME TrainingData, TurnInv, HistoryInv, NEW found \in Detections, Record(found)
    PROVE  HistoryInv'
<1> DEFINE n == Len(views)
           predictions == Infer(found)
           score == IF Validates THEN Score(predictions) ELSE Nothing
           row == Row(score)
           h == files.history
           g == files'.history
<1>1. /\ pc = "record" /\ UNCHANGED <<dataVars, pass, left, steps>>
      /\ epochs' = EpochsAfter
      /\ files' = [files EXCEPT !["history"] = IF h = Absent THEN <<row>> ELSE Append(h, row)]
      /\ IF Validates /\ Selects(score) THEN pc' = "state" /\ bestAp' = score
         ELSE pc' = "pass" /\ bestAp' = bestAp
  BY DEF Record, Write
<1>2. /\ config \in Configs /\ n \in Nat /\ n > 0 /\ Len(plan) = PassCount(config, n)
      /\ plan = TrainingSchedule(config, n)
  BY <1>1, DataHere
<1>3. left = <<>> /\ pass > 0 /\ DOMAIN files = RunFiles
  BY <1>1 DEF TurnInv
<1>4. /\ steps = StepsBy(config, n, pass) /\ steps \in Nat /\ pass \in 1..Len(plan)
      /\ ByBudget(config) => (steps = config.budget <=> pass = Len(plan))
  BY <1>1, <1>3, StepsHere
<1>5. PICK count \in Nat : count = pass - 1 /\ count + 1 = pass
  <2>1. PassCount(config, n) \in Nat
    BY <1>2, PassCountIs
  <2> QED
    BY <1>2, <1>4, <2>1
<1>6. RowCount = count /\ RowCount' = count + 1
  BY <1>1, <1>3, <1>5 DEF RowCount
<1>7. Validates <=> (~ ByBudget(config) \/ pass = Len(plan))
  BY <1>4 DEF Validates
<1>8. Score(predictions) \in Nat
  BY <1>1, ScoreIs
<1>9. /\ score \in Nat \cup {Nothing}
      /\ Validates => score \in Nat
      /\ ~ Validates => score = Nothing
  BY <1>8
<1> HIDE DEF n, score
<1>10. PassIs(plan[pass], n, LengthOf(config, n, pass))
  BY <1>2, <1>4, PlanInTurn
<1>11. plan[pass] \in Seq(Nat) /\ Len(plan[pass]) \in Nat
  <2>1. \A s : s \in Seq(1..n) => s \in Seq(Nat) /\ Len(s) \in Nat
    BY <1>2
  <2> QED
    BY <1>10, <2>1 DEF PassIs
<1>12. EpochsAfter \in Nat
  BY DEF EpochsAfter, HistoryInv
<1>13. row \in HistoryRows
  <2>1. (IF ByBudget(config) THEN pass ELSE EpochsAfter) \in Nat
    BY <1>5, <1>12
  <2>2. steps - Len(plan[pass]) + 1 \in Int
    BY <1>4, <1>11
  <2>3. (Len(plan[pass]) = Len(views)) \in BOOLEAN
    OBVIOUS
  <2> QED
    BY <1>4, <1>9, <1>11, <2>1, <2>2, <2>3 DEF Row, HistoryRows
<1>14. row.last = StepsBy(config, n, count + 1) /\ row.score = score
  BY <1>4, <1>5 DEF Row
<1> HIDE DEF row
<1>15. IF ByBudget(config) /\ count + 1 < PassCount(config, n) THEN row.score = Nothing
       ELSE row.score \in Nat
  <2>1. PassCount(config, n) \in Nat
    BY <1>2, PassCountIs
  <2>2. pass = Len(plan) \/ count + 1 < PassCount(config, n)
    BY <1>2, <1>4, <1>5, <2>1
  <2>3. count + 1 < PassCount(config, n) => pass # Len(plan)
    BY <1>2, <1>5, <2>1
  <2> QED
    BY <1>7, <1>9, <1>14, <2>2, <2>3
<1>16. count > 0 => HistoryIs(config, n, h, count)
  BY <1>1, <1>6 DEF HistoryInv, n
<1>17. g = IF count = 0 THEN <<row>> ELSE Append(h, row)
  <2>1. count = 0 <=> h = Absent
    <3>1. count = 0 => h = Absent
      BY <1>1, <1>6 DEF HistoryInv
    <3>2. count > 0 => h \in Seq(HistoryRows)
      BY <1>16 DEF HistoryIs
    <3>3. Absent \notin Seq(HistoryRows)
      BY HistoryAssumption
    <3> QED
      BY <3>1, <3>2, <3>3, <1>5
  <2>2. g = IF h = Absent THEN <<row>> ELSE Append(h, row)
    BY <1>1, <1>3 DEF RunFiles
  <2> QED
    BY <2>1, <2>2
<1> HIDE DEF g
<1>18. /\ HistoryIs(config, n, g, count + 1) /\ SameBefore(h, count, g)
       /\ DOMAIN g = 1..(count + 1) /\ g[count + 1] = row
       /\ count > 0 => DOMAIN h = 1..count /\ \A i \in 1..count : g[i] = h[i]
  <2>1. Extends(config, n, count, h, row, g)
    BY <1>13, <1>14, <1>15, <1>16, <1>17 DEF Extends
  <2>2. HistoryIs(config, n, g, count + 1) /\ SameBefore(h, count, g) /\ g[count + 1] = row
    BY <2>1, HistoryGrows
  <2> QED
    BY <2>2 DEF SameBefore
<1>19. files'.state = files.state /\ config' = config /\ plan' = plan /\ Len(views') = n
       /\ pc' \in {"pass", "state"} /\ files'.history = g
  BY <1>1, <1>3 DEF RunFiles, dataVars, n, g
<1>20. KeepsBest(files.history, bestAp)'
  <2>1. CASE ByBudget(config)
    <3>1. pc' = "pass" => pass # Len(plan)
      BY <1>1, <1>7, <2>1 DEF Selects
    <3>2. ~ (pc' \in {"best", "checkpoint"} \/ (pc' = "pass" /\ pass' = Len(plan')))
      BY <1>1, <1>19, <3>1
    <3> QED
      BY <1>19, <2>1, <3>2 DEF KeepsBest
  <2>2. CASE ~ ByBudget(config)
    <3>1. \E b : count > 0 => /\ b \in DOMAIN h /\ FirstBest(h, b) /\ bestAp = h[b].score
                              /\ files.state = h[b].last
      BY <1>1, <1>5, <1>6, <2>2 DEF HistoryInv, KeepsBest
    <3>2. PICK b : count > 0 => /\ b \in DOMAIN h /\ FirstBest(h, b) /\ bestAp = h[b].score
                                /\ files.state = h[b].last
      BY <3>1
    <3>3. count = 0 => bestAp = -1
      BY <1>1, <1>6 DEF HistoryInv
    <3>4. score \in Nat /\ Validates
      BY <1>7, <1>9, <2>2
    <3>5. g[count + 1].score = score /\ \A i \in 1..(count + 1) : g[i].score \in Nat
      BY <1>14, <1>18, <2>2 DEF HistoryIs
    <3>6. /\ score > bestAp => FirstBest(g, count + 1)
          /\ ~ (score > bestAp) => count > 0 /\ FirstBest(g, b)
      <4>1. Improves(count, h, g, bestAp, score, b)
        BY <1>18, <3>2, <3>3, <3>5 DEF Improves
      <4> QED
        BY <3>4, <4>1, BestGrows
    <3>7. CASE score > bestAp
      <4>1. pc' = "state" /\ bestAp' = score
        BY <1>1, <2>2, <3>4, <3>7 DEF Selects
      <4>2. count + 1 \in DOMAIN g /\ FirstBest(g, count + 1) /\ bestAp' = g[count + 1].score
        BY <1>18, <3>5, <3>6, <3>7, <4>1
      <4> QED
        BY <1>6, <1>19, <2>2, <4>1, <4>2 DEF KeepsBest
    <3>8. CASE ~ (score > bestAp)
      <4>1. pc' = "pass" /\ bestAp' = bestAp
        BY <1>1, <2>2, <3>4, <3>8 DEF Selects
      <4>2. count > 0 /\ FirstBest(g, b) /\ b \in 1..count
        BY <1>18, <3>2, <3>6, <3>8
      <4>3. b \in DOMAIN g /\ g[b] = h[b]
        BY <1>18, <4>2 DEF FirstBest
      <4>4. bestAp' = g[b].score /\ files'.state = g[b].last
        BY <1>19, <3>2, <4>1, <4>2, <4>3
      <4> QED
        BY <1>19, <2>2, <4>1, <4>2, <4>3, <4>4 DEF KeepsBest
    <3> QED
      BY <3>7, <3>8
  <2> QED
    BY <2>1, <2>2
<1>21. count + 1 # 0 /\ count + 1 > 0
  BY <1>5
<1> QED
  BY <1>1, <1>6, <1>12, <1>18, <1>19, <1>20, <1>21 DEF HistoryInv

LEMMA HistorySave ==
    ASSUME TrainingData, TurnInv, HistoryInv, SaveState
    PROVE  HistoryInv'
<1> DEFINE n == Len(views)
<1>1. /\ pc = "state" /\ pc' = "best" /\ UNCHANGED <<dataVars, pass, left, steps, epochs, bestAp>>
      /\ files' = [files EXCEPT !["state"] = steps]
  BY DEF SaveState, Write
<1>2. left = <<>> /\ RowCount = pass /\ RowCount > 0 /\ DOMAIN files = RunFiles
  BY <1>1 DEF TurnInv, HistoryInv, RowCount
<1>3. /\ steps = StepsBy(config, n, pass) /\ pass \in 1..Len(plan)
      /\ Len(plan) = PassCount(config, n) /\ PassCount(config, n) \in Nat
  BY <1>1, <1>2, StepsHere, DataHere, PassCountIs
<1>4. /\ HistoryIs(config, n, files.history, pass) /\ KeepsBest(files.history, bestAp)
  BY <1>1, <1>2 DEF HistoryInv
<1>5. pass \in 1..pass
  BY <1>3
<1>6. files.history[pass].last = steps
  BY <1>3, <1>4, <1>5 DEF HistoryIs
<1>7. /\ files'.history = files.history /\ files'.state = steps
      /\ config' = config /\ Len(views') = n /\ RowCount' = pass
  BY <1>1, <1>2 DEF RunFiles, dataVars, RowCount
<1>8. KeepsBest(files.history, bestAp)'
  <2>1. CASE ByBudget(config)
    BY <1>6, <1>7, <2>1 DEF KeepsBest
  <2>2. CASE ~ ByBudget(config)
    <3>1. PICK b \in DOMAIN files.history :
             FirstBest(files.history, b) /\ bestAp = files.history[b].score /\ b = pass
      BY <1>1, <1>2, <1>4, <2>2 DEF KeepsBest
    <3> QED
      BY <1>1, <1>6, <1>7, <2>2, <3>1 DEF KeepsBest
  <2> QED
    BY <2>1, <2>2
<1> QED
  BY <1>1, <1>2, <1>4, <1>7, <1>8 DEF HistoryInv

\* After the last write of a pass only the bookkeeping of the run is left.
LEMMA HistoryOver ==
    ASSUME HistoryInv, epochs' = epochs, pc' \in {"artifacts", "done", "failed", "killed"}
    PROVE  HistoryInv'
BY DEF HistoryInv

LEMMA HistoryQuiet ==
    ASSUME HistoryInv, UNCHANGED trainVars, files'.history = files.history, files'.state = files.state
    PROVE  HistoryInv'
<1>1. KeepsBest(files.history, bestAp) => KeepsBest(files.history, bestAp)'
  BY DEF KeepsBest, RowCount, trainVars
<1>2. RowCount' = RowCount
  BY DEF RowCount, trainVars
<1> QED
  BY <1>1, <1>2 DEF HistoryInv, trainVars

LEMMA HistoryBegin ==
    ASSUME TurnInv, HistoryInv, BeginPass
    PROVE  HistoryInv'
<1>1. /\ pc = "pass" /\ pc' = "step" /\ pass' = pass + 1
      /\ UNCHANGED <<dataVars, epochs, bestAp, files>>
  BY DEF BeginPass
<1>2. pass \in Int
  BY <1>1 DEF TurnInv, Progress
<1>3. RowCount' = RowCount
  BY <1>1, <1>2 DEF RowCount
<1> QED
  BY <1>1, <1>3, HistoryKept

LEMMA HistoryWorking ==
    ASSUME TrainingData, TurnInv, HistoryInv, Working
    PROVE  HistoryInv'
<1>0. DOMAIN files = RunFiles
  BY DEF TurnInv
<1>1. CASE BeginPass
  BY <1>1, HistoryBegin
<1>2. CASE Step
  <2>1. /\ pc = "step" /\ pc' \in {"step", "record"}
        /\ UNCHANGED <<dataVars, pass, epochs, bestAp, files>>
    BY <1>2 DEF Step
  <2>2. RowCount' = RowCount
    BY <2>1 DEF RowCount
  <2> QED
    BY <2>1, <2>2, HistoryKept
<1>3. CASE SaveState
  BY <1>3, HistorySave
<1>4. CASE SaveBest \/ SaveCheckpoint
  <2>1. /\ UNCHANGED <<dataVars, pass, epochs, bestAp>>
        /\ \/ pc = "best" /\ pc' = "checkpoint"
           \/ pc = "checkpoint" /\ pc' = "pass"
        /\ files'.history = files.history /\ files'.state = files.state
    <3>1. PICK file, content : /\ file \in {"best", "checkpoint"}
                              /\ files' = [files EXCEPT ![file] = content]
      BY <1>4 DEF SaveBest, SaveCheckpoint, Write
    <3>2. files'.history = files.history /\ files'.state = files.state
      BY <1>0, <3>1 DEF RunFiles
    <3>3. SaveBest => UNCHANGED <<dataVars, pass, epochs, bestAp>> /\ pc = "best" /\ pc' = "checkpoint"
      BY DEF SaveBest
    <3>4. SaveCheckpoint => UNCHANGED <<dataVars, pass, epochs, bestAp>> /\ pc = "checkpoint" /\ pc' = "pass"
      BY DEF SaveCheckpoint
    <3> QED
      BY <1>4, <3>2, <3>3, <3>4
  <2>2. RowCount' = RowCount
    BY <2>1 DEF RowCount
  <2> QED
    BY <2>1, <2>2, HistoryKept
<1>5. CASE \E found \in Detections : Record(found)
  BY <1>5, HistoryRecord
<1>6. CASE WriteSummary \/ LogArtifacts \/ Fail \/ Kill
  BY <1>6, HistoryOver DEF WriteSummary, LogArtifacts, Fail, Kill
<1> QED
  BY <1>1, <1>2, <1>3, <1>4, <1>5, <1>6 DEF Working

LEMMA RunStep ==
    ASSUME [Next]_vars
    PROVE  UNCHANGED runVars \/ (\E c \in Configs : Start(c)) \/ Working \/ Evaluate
<1>1. Train => Working \/ \E c \in Configs : Start(c)
  BY DEF Train, Working
<1> QED
  BY <1>1 DEF Next, Analyze, Audit, vars, Released

LEMMA HistoryStep ==
    ASSUME TrainingData, TurnInv, UnseenInv, HistoryInv, [Next]_vars
    PROVE  HistoryInv'
<1>1. CASE UNCHANGED runVars
  BY <1>1, HistoryQuiet DEF runVars
<1>2. CASE \E c \in Configs : Start(c)
  BY <1>2, HistoryStart
<1>3. CASE Working
  BY <1>3, HistoryWorking
<1>4. CASE Evaluate
  BY <1>4, EvaluationWrites, HistoryQuiet DEF RunFiles
<1> QED
  BY <1>1, <1>2, <1>3, <1>4, RunStep

\* A run that took all its passes holds the weights the policy selects.
LEMMA LastIsSelected ==
    ASSUME TrainingData, TurnInv, HistoryInv, pc = "pass", pass = Len(plan)
    PROVE  IsSelected(config, files.history, files.state)
<1>1. PICK h : h = files.history
  OBVIOUS
<1>2. PICK K \in Nat : K = PassCount(config, Len(views)) /\ K > 0 /\ pass = K
  BY DataHere, PassCountIs
<1>3. RowCount = K
  BY <1>2 DEF RowCount
<1>4. HistoryIs(config, Len(views), h, K) /\ KeepsBest(h, bestAp)
  BY <1>1, <1>2, <1>3 DEF HistoryInv
<1>5. h \in Seq(HistoryRows) /\ Len(h) = K /\ DOMAIN h = 1..K /\ K \in 1..K
  BY <1>2, <1>4 DEF HistoryIs
<1>6. CASE ByBudget(config)
  <2>1. Selected(config, h) = K /\ files.state = h[K].last
    BY <1>3, <1>4, <1>5, <1>6 DEF Selected, KeepsBest
  <2>2. ASSUME NEW i \in DOMAIN h, h[i].score # Nothing
        PROVE  h[i].score <= h[K].score
    <3>1. i \in 1..K /\ ~ (i < K)
      BY <1>2, <1>4, <1>5, <1>6, <2>2 DEF HistoryIs
    <3>2. i = K
      BY <3>1
    <3>3. h[K].score \in Nat
      BY <1>2, <1>4, <1>5 DEF HistoryIs
    <3> QED
      BY <3>2, <3>3
  <2> QED
    BY <1>1, <2>1, <2>2 DEF IsSelected
<1>7. CASE ~ ByBudget(config)
  <2>1. PICK b \in DOMAIN h : FirstBest(h, b) /\ files.state = h[b].last
    BY <1>4, <1>7 DEF KeepsBest
  <2>2. \A i \in DOMAIN h : h[i].score \in Nat
    BY <1>4, <1>5, <1>7 DEF HistoryIs
  <2>3. Best(h) = b
    BY <1>5, <2>1, <2>2, FirstBestIs
  <2>4. Selected(config, h) = b
    BY <1>7, <2>3 DEF Selected
  <2> QED
    BY <1>1, <2>1, <2>4 DEF IsSelected, FirstBest
<1> QED
  BY <1>6, <1>7

\* Once a summary can be read the run writes no more of what an evaluation is made of.
LEMMA SettledRun ==
    ASSUME TurnInv, Working, ~ WriteSummary
    PROVE  /\ Readable("summary")' = Readable("summary")
           /\ Readable("summary") => /\ files'.history = files.history
                                     /\ files'.state = files.state
           /\ files'.validation = files.validation /\ files'.test = files.test
           /\ UNCHANGED evaluator
<1>0. /\ DOMAIN files = RunFiles /\ pc # "waiting"
      /\ Readable("summary") => pc \in {"artifacts", "done", "failed", "killed"}
  BY WorkingKeeps DEF TurnInv
<1>1. CASE BeginPass \/ Step \/ LogArtifacts
  BY <1>1 DEF BeginPass, Step, LogArtifacts, Readable
<1>2. CASE SaveState \/ SaveBest \/ SaveCheckpoint
  BY <1>0, <1>2 DEF SaveState, SaveBest, SaveCheckpoint, Write, RunFiles, Readable
<1>3. ASSUME NEW found \in Detections, Record(found)
      PROVE  /\ Readable("summary")' = Readable("summary") /\ ~ Readable("summary")
             /\ files'.validation = files.validation /\ files'.test = files.test
             /\ UNCHANGED evaluator
  <2>1. PICK content : files' = [files EXCEPT !["history"] = content]
    BY <1>3 DEF Record, Write
  <2>2. pc = "record" /\ UNCHANGED evaluator
    BY <1>3 DEF Record
  <2> QED
    BY <1>0, <2>1, <2>2 DEF RunFiles, Readable
<1>4. CASE Fail
  BY <1>0, <1>4 DEF Fail, Write, RunFiles, Readable
<1>5. CASE Kill
  BY <1>0, <1>5 DEF Kill, Write, RunFiles, Readable
<1> QED
  BY <1>1, <1>2, <1>3, <1>4, <1>5 DEF Working

LEMMA SelectStart ==
    ASSUME TurnInv, SelectInv, NEW c \in Configs, Start(c)
    PROVE  SelectInv'
<1>1. /\ evaluator' = Idle /\ pc' = "pass" /\ files' = files /\ DOMAIN files = RunFiles
      /\ \A file \in RunFiles : files[file] = Absent
  BY DEF Start, SelectInv, TurnInv, Idle
<1>2. ~ Readable("summary")'
  BY <1>1 DEF Readable, RunFiles
<1> QED
  BY <1>1, <1>2 DEF SelectInv, Idle, RunFiles, Readable

LEMMA SelectWorking ==
    ASSUME TrainingData, TurnInv, HistoryInv, SelectInv, Working
    PROVE  SelectInv'
<1>1. pc # "waiting" /\ pc' # "waiting" /\ config' = config
  BY WorkingKeeps DEF dataVars
<1>2. CASE WriteSummary
  <2>1. /\ pc = "pass" /\ pass = Len(plan) /\ UNCHANGED evaluator
        /\ files'.history = files.history /\ files'.state = files.state
        /\ files'.validation = files.validation /\ files'.test = files.test
    BY <1>2 DEF WriteSummary, Write, TurnInv, RunFiles
  <2>2. ~ Readable("summary")
    BY <2>1 DEF TurnInv
  <2>3. evaluator.pc # "verified" /\ ~ Readable("validation") /\ ~ Readable("test")
    BY <2>2 DEF SelectInv, Settles
  <2>4. IsSelected(config, files.history, files.state)
    BY <2>1, LastIsSelected
  <2> QED
    BY <1>1, <2>1, <2>3, <2>4 DEF SelectInv, Readable
<1>3. CASE ~ WriteSummary
  <2>1. /\ Readable("summary")' = Readable("summary")
        /\ Readable("summary") => /\ files'.history = files.history
                                  /\ files'.state = files.state
        /\ files'.validation = files.validation /\ files'.test = files.test
        /\ UNCHANGED evaluator
    BY <1>3, SettledRun
  <2>2. Readable("summary")' => IsSelected(config, files.history, files.state)'
    BY <1>1, <2>1 DEF SelectInv
  <2>3. ASSUME NEW split, NEW checkpoint, NEW state, Settles(split, checkpoint, state)
        PROVE  Settles(split, checkpoint, state)'
    BY <1>1, <2>1, <2>3 DEF Settles
  <2>4. (evaluator.pc = "verified" => Settles(evaluator.split, evaluator.checkpoint, files.state))'
    <3>1. ASSUME evaluator.pc = "verified"
          PROVE  Settles(evaluator.split, evaluator.checkpoint, files.state)
      BY <3>1 DEF SelectInv
    <3> QED
      BY <1>1, <2>1, <3>1 DEF Settles
  <2>5. (\A split \in {"validation", "test"} : Readable(split) =>
           Settles(split, files[split].checkpoint, files[split].state))'
    BY <1>1, <2>1 DEF SelectInv, Settles, Readable
  <2> QED
    BY <1>1, <2>1, <2>2, <2>4, <2>5 DEF SelectInv
<1> QED
  BY <1>2, <1>3

LEMMA SelectEvaluate ==
    ASSUME TurnInv, UnseenInv, SelectInv, Evaluate
    PROVE  SelectInv'
<1>0. /\ UNCHANGED trainVars /\ DOMAIN files = RunFiles /\ DOMAIN files' = RunFiles
      /\ \A file \in RunFiles \ {"validation", "test"} : files'[file] = files[file]
  BY EvaluationWrites DEF TurnInv
<1>1. /\ pc' = pc /\ config' = config /\ files'.history = files.history
      /\ files'.state = files.state /\ Readable("summary")' = Readable("summary")
  BY <1>0 DEF trainVars, RunFiles, Readable
<1>2. Readable("summary")' => IsSelected(config, files.history, files.state)'
  BY <1>1 DEF SelectInv
<1>3. pc # "waiting"
  <2>1. ASSUME NEW split \in {"validation", "test"}, OpenRun(split)
        PROVE  pc # "waiting"
    BY <2>1 DEF OpenRun, Readable, TurnInv, RunFiles
  <2> QED
    BY <2>1 DEF Evaluate, VerifyRun, RecordEvaluation, AbandonEvaluation, SelectInv, Idle
<1>4. CASE /\ UNCHANGED files
           /\ \/ evaluator' = Idle
              \/ evaluator'.pc = "opened" /\ evaluator'.split \in {"validation", "test"}
  <2>1. (\A split \in {"validation", "test"} : Readable(split) =>
           Settles(split, files[split].checkpoint, files[split].state))'
    BY <1>1, <1>4 DEF SelectInv, Settles, Readable
  <2>2. evaluator'.pc # "verified"
    BY <1>4 DEF Idle
  <2> QED
    BY <1>1, <1>2, <1>3, <1>4, <2>1, <2>2 DEF SelectInv
<1>5. CASE VerifyRun /\ evaluator' # Idle
  <2>1. /\ evaluator.split = "test" => ~config.smoke
        /\ Accepted(evaluator.checkpoint)
        /\ evaluator'.pc = "verified" /\ evaluator'.split = evaluator.split
        /\ evaluator'.checkpoint = evaluator.checkpoint
        /\ evaluator.split \in {"validation", "test"} /\ UNCHANGED files
    BY <1>5 DEF VerifyRun, SelectInv, Idle
  <2>2. Readable("summary") /\ evaluator.checkpoint.state = files.state
    BY <2>1 DEF Accepted
  <2>3. Settles(evaluator.split, evaluator.checkpoint, files.state)'
    BY <1>1, <2>1, <2>2 DEF Settles
  <2>4. (\A split \in {"validation", "test"} : Readable(split) =>
           Settles(split, files[split].checkpoint, files[split].state))'
    BY <1>1, <2>1 DEF SelectInv, Settles, Readable
  <2> QED
    BY <1>1, <1>2, <1>3, <2>1, <2>3, <2>4 DEF SelectInv
<1>6. CASE RecordEvaluation
  <2>1. /\ evaluator.pc = "verified" /\ evaluator.split \in {"validation", "test"}
        /\ Settles(evaluator.split, evaluator.checkpoint, files.state) /\ evaluator' = Idle
    BY <1>6 DEF RecordEvaluation, SelectInv, Idle
  <2>2. PICK predictions :
           files' = [files EXCEPT ![evaluator.split] =
                        [checkpoint |-> evaluator.checkpoint, state |-> files.state,
                         manifest |-> evaluator.manifest,
                         predictions |-> IF evaluator.split = "test" THEN Nothing ELSE predictions]]
    BY <1>6 DEF RecordEvaluation, Write
  <2>3. ASSUME NEW split \in {"validation", "test"}, Readable(split)'
        PROVE  Settles(split, files[split].checkpoint, files[split].state)'
    <3>1. CASE split = evaluator.split
      <4>1. /\ files'[split].checkpoint = evaluator.checkpoint
            /\ files'[split].state = files.state
        BY <1>0, <2>2, <3>1 DEF RunFiles
      <4> QED
        BY <1>1, <2>1, <3>1, <4>1 DEF Settles
    <3>2. CASE split # evaluator.split
      <4>1. files'[split] = files[split]
        BY <1>0, <2>2, <3>2 DEF RunFiles
      <4> QED
        BY <1>1, <2>3, <4>1 DEF SelectInv, Settles, Readable
    <3> QED
      BY <3>1, <3>2
  <2> QED
    BY <1>1, <1>2, <1>3, <2>1, <2>3 DEF SelectInv, Idle
<1>7. CASE /\ evaluator.pc = "verified" /\ evaluator' = Idle
           /\ files' = [files EXCEPT ![evaluator.split] = Torn]
  <2>1. ASSUME NEW split \in {"validation", "test"}, Readable(split)'
        PROVE  Settles(split, files[split].checkpoint, files[split].state)'
    <3>1. evaluator.split # split
      BY <1>0, <1>7, <2>1 DEF Readable, RunFiles
    <3>2. files'[split] = files[split]
      BY <1>0, <1>7, <3>1 DEF RunFiles
    <3> QED
      BY <1>1, <2>1, <3>2 DEF SelectInv, Settles, Readable
  <2> QED
    BY <1>1, <1>2, <1>3, <1>7, <2>1 DEF SelectInv, Idle
<1>8. \/ /\ UNCHANGED files
         /\ \/ evaluator' = Idle
            \/ evaluator'.pc = "opened" /\ evaluator'.split \in {"validation", "test"}
      \/ VerifyRun /\ evaluator' # Idle
      \/ RecordEvaluation
      \/ /\ evaluator.pc = "verified" /\ evaluator' = Idle
         /\ files' = [files EXCEPT ![evaluator.split] = Torn]
  <2>1. (\E split \in {"validation", "test"} : OpenRun(split)) =>
               /\ UNCHANGED files /\ evaluator'.pc = "opened"
               /\ evaluator'.split \in {"validation", "test"}
    BY DEF OpenRun
  <2>2. VerifyRun => UNCHANGED files
    BY DEF VerifyRun
  <2>3. AbandonEvaluation =>
           /\ evaluator' = Idle
           /\ \/ UNCHANGED files
              \/ /\ evaluator.pc = "verified"
                 /\ files' = [files EXCEPT ![evaluator.split] = Torn]
    BY DEF AbandonEvaluation, Write
  <2> QED
    BY <2>1, <2>2, <2>3 DEF Evaluate
<1> QED
  BY <1>4, <1>5, <1>6, <1>7, <1>8

LEMMA SelectStep ==
    ASSUME TrainingData, TurnInv, UnseenInv, HistoryInv, SelectInv, [Next]_vars
    PROVE  SelectInv'
<1>1. CASE UNCHANGED runVars
  BY <1>1 DEF SelectInv, runVars, trainVars, Settles, Readable, Idle
<1>2. CASE \E c \in Configs : Start(c)
  BY <1>2, SelectStart
<1>3. CASE Working
  BY <1>3, SelectWorking
<1>4. CASE Evaluate
  BY <1>4, SelectEvaluate
<1> QED
  BY <1>1, <1>2, <1>3, <1>4, RunStep

LEMMA SelectImplies ==
    ASSUME TurnInv, SelectInv
    PROVE  EvaluatedIsSelected
<1> SUFFICES ASSUME NEW split \in {"validation", "test"}, Readable(split)
             PROVE  LET row == files.history[Selected(config, files.history)]
                    IN  /\ pass = Len(plan) /\ left = <<>>
                        /\ files[split].state = row.last
                        /\ files[split].checkpoint.state = row.last
                        /\ \A i \in DOMAIN files.history :
                             files.history[i].score # Nothing => files.history[i].score <= row.score
                        /\ split = "test" => ~config.smoke
  BY DEF EvaluatedIsSelected
<1>1. pc # "waiting"
  BY DEF TurnInv, RunFiles, Readable
<1>2. Settles(split, files[split].checkpoint, files[split].state)
  BY DEF SelectInv
<1>3. Readable("summary") /\ files[split].state = files.state
      /\ files[split].checkpoint.state = files.state /\ (split = "test" => ~config.smoke)
  BY <1>2 DEF Settles
<1>4. IsSelected(config, files.history, files.state) /\ pass = Len(plan) /\ left = <<>>
  BY <1>1, <1>3 DEF SelectInv, TurnInv
<1> QED
  BY <1>3, <1>4 DEF IsSelected

-----------------------------------------------------------------------------
(* DefectsShownWhole *)

\* Before a run has started it has no data.
IdleInv == pc = "waiting" => samples.train = <<>>

LEMMA IdleStep ==
    ASSUME IdleInv, [Next]_vars
    PROVE  IdleInv'
<1>1. CASE UNCHANGED trainVars
  BY <1>1 DEF IdleInv, trainVars
<1>2. CASE (\E c \in Configs : Start(c)) \/ Working
  BY <1>2, WorkingKeeps DEF Start, IdleInv
<1>3. Evaluate \/ UNCHANGED runVars => UNCHANGED trainVars
  BY DEF Evaluate, OpenRun, VerifyRun, RecordEvaluation, AbandonEvaluation, runVars
<1> QED
  BY <1>1, <1>2, <1>3, RunStep

\* A box of an image: it has an area and lies inside.
BoxIn(box, image) ==
    /\ box \in Nat \X Nat \X Nat \X Nat
    /\ box[1] < box[3] /\ box[3] <= image.width
    /\ box[2] < box[4] /\ box[4] <= image.height

\* The boxes of the archive lie inside their images (assumed of the data set).
LEMMA SampleBoxes ==
    ASSUME NEW i \in DOMAIN Archive
    PROVE  /\ \E S : Sample(i).annotations \in Seq(S)
           /\ \A a \in DOMAIN Sample(i).annotations : BoxIn(Sample(i).annotations[a].box, Sample(i))
<1> DEFINE entry(a) == LET found == Archive[i].annotations[a]
                       IN  [class |-> found.category - 1,
                            box   |-> <<found.bbox[1], found.bbox[2],
                                        found.bbox[1] + found.bbox[3], found.bbox[2] + found.bbox[4]>>]
           labels == Archive[i].annotations
<1>1. /\ Sample(i).annotations = [a \in DOMAIN labels |-> entry(a)]
      /\ Sample(i).width = Archive[i].width /\ Sample(i).height = Archive[i].height
  BY DEF Sample
<1>2. PICK s : s = labels /\ s \in Seq(Range(s))
  BY ReleaseAssumption
<1>3. PICK n \in Nat : DOMAIN labels = 1..n
  BY <1>2
<1>4. \E S : Sample(i).annotations \in Seq(S)
  <2>1. PICK f : f = Sample(i).annotations
    OBVIOUS
  <2> HIDE DEF entry
  <2>2. f \in [1..n -> {f[a] : a \in 1..n}]
    BY <1>1, <1>3, <2>1
  <2>3. \A X : f \in [1..n -> X] => f \in Seq(X)
    OBVIOUS
  <2> QED
    BY <2>1, <2>2, <2>3
<1>5. ASSUME NEW a \in DOMAIN labels
      PROVE  BoxIn(Sample(i).annotations[a].box, Sample(i))
  <2>1. PICK bbox : bbox = labels[a].bbox
    OBVIOUS
  <2>2. /\ bbox \in Nat \X Nat \X (Nat \ {0}) \X (Nat \ {0})
        /\ bbox[1] + bbox[3] <= Archive[i].width /\ bbox[2] + bbox[4] <= Archive[i].height
    BY <2>1, ReleaseAssumption
  <2>3. entry(a).box = <<bbox[1], bbox[2], bbox[1] + bbox[3], bbox[2] + bbox[4]>>
    BY <2>1
  <2>4. Sample(i).annotations[a] = entry(a)
    <3> HIDE DEF entry
    <3> QED
      BY <1>1, <1>5
  <2>5. PICK box : box = Sample(i).annotations[a].box
    OBVIOUS
  <2>6. box = <<bbox[1], bbox[2], bbox[1] + bbox[3], bbox[2] + bbox[4]>>
    BY <2>3, <2>4, <2>5
  <2>7. BoxIn(box, Sample(i))
    <3>1. /\ bbox[1] \in Nat /\ bbox[2] \in Nat /\ bbox[3] \in Nat \ {0} /\ bbox[4] \in Nat \ {0}
      BY <2>2
    <3>2. box \in Nat \X Nat \X Nat \X Nat
      BY <2>6, <3>1
    <3>3. box[1] = bbox[1] /\ box[2] = bbox[2] /\ box[3] = bbox[1] + bbox[3] /\ box[4] = bbox[2] + bbox[4]
      BY <2>6
    <3> QED
      BY <1>1, <2>2, <3>1, <3>2, <3>3 DEF BoxIn
  <2> QED
    BY <2>5, <2>7
<1>6. DOMAIN Sample(i).annotations = DOMAIN labels
  BY <1>1
<1> QED
  BY <1>4, <1>5, <1>6

LEMMA ShiftBack ==
    ASSUME NEW b \in Int \X Int \X Int \X Int, NEW x \in Int, NEW y \in Int
    PROVE  Shift(Shift(b, -x, -y), x, y) = b
<1>1. PICK b1 \in Int, b2 \in Int, b3 \in Int, b4 \in Int : b = <<b1, b2, b3, b4>>
  OBVIOUS
<1>2. Shift(b, -x, -y) = <<b1 + (-x), b2 + (-y), b3 + (-x), b4 + (-y)>>
  BY <1>1 DEF Shift
<1>3. Shift(<<b1 + (-x), b2 + (-y), b3 + (-x), b4 + (-y)>>, x, y)
        = <<(b1 + (-x)) + x, (b2 + (-y)) + y, (b3 + (-x)) + x, (b4 + (-y)) + y>>
  BY DEF Shift
<1>4. /\ (b1 + (-x)) + x = b1 /\ (b2 + (-y)) + y = b2
      /\ (b3 + (-x)) + x = b3 /\ (b4 + (-y)) + y = b4
  OBVIOUS
<1> QED
  BY <1>1, <1>2, <1>3, <1>4

\* A crop shows whole what lies in its window, and it is found again where it was.
LEMMA CropShows ==
    ASSUME NEW S, NEW annotations \in Seq(S), NEW window \in Corners, NEW image,
           NEW a \in DOMAIN annotations, BoxIn(annotations[a].box, image),
           Inside(annotations[a].box, window)
    PROVE  \E k \in DOMAIN Crop(annotations, window) :
              RestoreBox(Crop(annotations, window)[k].box, window) = annotations[a].box
<1> DEFINE n == Len(annotations)
           clipped == [i \in DOMAIN annotations |-> Clip(annotations[i].box, window)]
           left_ == {i \in DOMAIN annotations : HasArea(clipped[i])}
           kept == Ascending(left_, n)
           box == annotations[a].box
<1>1. n \in Nat /\ DOMAIN annotations = 1..n
  OBVIOUS
<1>2. /\ box \in Nat \X Nat \X Nat \X Nat /\ box[1] < box[3] /\ box[2] < box[4]
  BY DEF BoxIn
<1>3. clipped[a] = Clip(box, window)
  OBVIOUS
<1> HIDE DEF box
<1>4. Clip(box, window) = box
  <2>1. /\ window[1] <= box[1] /\ window[2] <= box[2] /\ box[3] <= window[3] /\ box[4] <= window[4]
    BY DEF Inside, box
  <2>2. box = <<box[1], box[2], box[3], box[4]>>
    BY <1>2
  <2>3. window[1] \in Int /\ window[2] \in Int /\ window[3] \in Int /\ window[4] \in Int
    BY DEF Corners
  <2>4. /\ Greatest(window[1], box[1]) = box[1] /\ Greatest(window[2], box[2]) = box[2]
        /\ Least(window[3], box[3]) = box[3] /\ Least(window[4], box[4]) = box[4]
    BY <1>2, <2>1, <2>3, SMTT(30) DEF Greatest, Least
  <2> QED
    BY <2>2, <2>4 DEF Clip
<1>5. a \in left_ \cap (1..n)
  BY <1>1, <1>2, <1>3, <1>4 DEF HasArea
<1> HIDE DEF left_, n
<1>6. PICK k \in DOMAIN kept : kept[k] = a
  BY <1>1, <1>5, AscendingIs
<1>7. Crop(annotations, window) =
         [j \in DOMAIN kept |->
            [box   |-> Shift(clipped[kept[j]], -window[1], -window[2]),
             label |-> annotations[kept[j]].class + 1]]
  BY DEF Crop, left_, n
<1> HIDE DEF kept, clipped
<1>8. /\ k \in DOMAIN Crop(annotations, window)
      /\ Crop(annotations, window)[k].box = Shift(box, -window[1], -window[2])
  BY <1>3, <1>4, <1>6, <1>7
<1>9. RestoreBox(Shift(box, -window[1], -window[2]), window) = box
  <2>1. box \in Int \X Int \X Int \X Int
    BY <1>2
  <2>2. window[1] \in Int /\ window[2] \in Int
    BY DEF Corners
  <2> QED
    BY <2>1, <2>2, ShiftBack DEF RestoreBox
<1> QED
  BY <1>8, <1>9 DEF box

\* A small box of a training image lies whole inside one of its views.
LEMMA ViewShows ==
    ASSUME NEW S, NEW train \in Seq(S), \A image \in S : HasSize(image),
           NEW tile \in Nat, NEW overlap \in Nat, tile # 0 => overlap < tile,
           NEW i \in DOMAIN train, NEW box, BoxIn(box, train[i]), Small(box, tile, overlap)
    PROVE  \E v \in DOMAIN Views(train, tile, overlap) :
              /\ Views(train, tile, overlap)[v].image = i
              /\ Views(train, tile, overlap)[v].window \in Corners
              /\ Inside(box, Views(train, tile, overlap)[v].window)
<1>1. PICK image : image = train[i] /\ HasSize(image)
  OBVIOUS
<1>2. /\ box \in Nat \X Nat \X Nat \X Nat
      /\ box[1] <= box[3] /\ box[3] <= image.width
      /\ box[2] <= box[4] /\ box[4] <= image.height
  BY <1>1 DEF BoxIn, HasSize
<1>3. PICK w \in DOMAIN Windows(image, tile, overlap) :
         Inside(box, Windows(image, tile, overlap)[w])
  BY <1>1, <1>2, WindowsCover
<1>4. Windows(image, tile, overlap) \in Seq(Corners)
  BY <1>1, WindowsCover
<1>5. PICK window \in Corners : window = Windows(image, tile, overlap)[w]
  BY <1>4
<1>6. PICK v \in DOMAIN Views(train, tile, overlap) :
         Views(train, tile, overlap)[v] = [image |-> i, window |-> window]
  <2>1. w \in DOMAIN Windows(train[i], tile, overlap)
        /\ window = Windows(train[i], tile, overlap)[w]
    BY <1>1, <1>5
  <2>2. \A k \in DOMAIN train : \A l \in DOMAIN Windows(train[k], tile, overlap) :
           \E v \in DOMAIN Views(train, tile, overlap) :
              Views(train, tile, overlap)[v] =
                 [image |-> k, window |-> Windows(train[k], tile, overlap)[l]]
    <3>1. ShowsEvery(train, tile, overlap)
      BY ViewsIs
    <3> QED
      BY <3>1 DEF ShowsEvery
  <2> QED
    BY <2>1, <2>2
<1> QED
  BY <1>3, <1>5, <1>6

LEMMA ShownImplies ==
    ASSUME TrainingData, IdleInv
    PROVE  DefectsShownWhole
<1> SUFFICES ASSUME NEW i \in DOMAIN TrainImages, NEW a \in DOMAIN TrainImages[i].annotations,
                    Small(TrainImages[i].annotations[a].box, config.tile, config.overlap),
                    \A v \in DOMAIN trained : trained[v] > 0
             PROVE  \E v \in DOMAIN trained :
                      /\ trained[v] > 0 /\ views[v].image = i
                      /\ \E k \in DOMAIN Crop(TrainImages[i].annotations, views[v].window) :
                           RestoreBox(Crop(TrainImages[i].annotations, views[v].window)[k].box,
                                      views[v].window) = TrainImages[i].annotations[a].box
  BY Zenon DEF DefectsShownWhole, Small
<1>1. pc # "waiting"
  BY DEF IdleInv, TrainImages
<1>2. /\ config \in Configs /\ DOMAIN digest = DOMAIN Archive
      /\ samples.train \in Seq(SamplesOf(digest, "train"))
      /\ views = Views(samples.train, config.tile, config.overlap) /\ DOMAIN trained = DOMAIN views
  BY <1>1 DEF TrainingData
<1>3. \A image \in SamplesOf(digest, "train") : HasSize(image)
  BY <1>2, SampleHasSize DEF SamplesOf, OfSplit
<1>4. PICK tile \in Nat, overlap \in Nat :
         tile = config.tile /\ overlap = config.overlap /\ (tile # 0 => overlap < tile)
  BY <1>2, ConfigAssumption
<1>5. PICK j \in DOMAIN Archive : TrainImages[i] = Sample(j)
  BY <1>2 DEF TrainImages, SamplesOf, OfSplit
<1>6. PICK train : train = samples.train /\ i \in DOMAIN train /\ train[i] = TrainImages[i]
  BY DEF TrainImages
<1>7. PICK box : box = TrainImages[i].annotations[a].box /\ Small(box, tile, overlap)
  BY <1>4
<1>8. BoxIn(box, train[i])
  BY <1>5, <1>6, <1>7, SampleBoxes
<1>9. PICK v \in DOMAIN views : /\ views[v].image = i /\ views[v].window \in Corners
                                /\ Inside(box, views[v].window)
  BY <1>2, <1>3, <1>4, <1>6, <1>7, <1>8, ViewShows
<1>10. \E k \in DOMAIN Crop(TrainImages[i].annotations, views[v].window) :
          RestoreBox(Crop(TrainImages[i].annotations, views[v].window)[k].box, views[v].window) = box
  <2>1. PICK S : TrainImages[i].annotations \in Seq(S)
    BY <1>5, SampleBoxes
  <2>2. PICK window \in Corners : window = views[v].window
    BY <1>9
  <2>3. PICK annotations \in Seq(S) : annotations = TrainImages[i].annotations
    BY <2>1
  <2>4. BoxIn(annotations[a].box, train[i]) /\ Inside(annotations[a].box, window) /\ a \in DOMAIN annotations
    BY <1>7, <1>8, <1>9, <2>2, <2>3
  <2>5. \E k \in DOMAIN Crop(annotations, window) :
          RestoreBox(Crop(annotations, window)[k].box, window) = annotations[a].box
    BY <2>4, CropShows
  <2> QED
    BY <1>7, <2>2, <2>3, <2>5
<1> QED
  BY <1>2, <1>7, <1>9, <1>10

-----------------------------------------------------------------------------
(* Filters and the order of scores *)

\* Picked returns entries of the sequence at places of the set.
LEMMA PickedIs ==
    ASSUME NEW X, NEW s \in Seq(X), NEW S
    PROVE  /\ Picked(s, S) \in Seq(X)
           /\ \A k \in DOMAIN Picked(s, S) :
                \E i \in S \cap DOMAIN s : Picked(s, S)[k] = s[i]
<1>1. PICK n \in Nat : n = Len(s) /\ DOMAIN s = 1..n
  OBVIOUS
<1>2. PICK kept : kept = Ascending(S, n)
  OBVIOUS
<1>3. kept \in Seq(S \cap (1..n))
  BY <1>2, AscendingIs
<1>4. Picked(s, S) = [k \in DOMAIN kept |-> s[kept[k]]]
  BY <1>1, <1>2 DEF Picked
<1>5. \A k \in DOMAIN kept : kept[k] \in S \cap (1..n) /\ s[kept[k]] \in X
  BY <1>1, <1>3
<1>6. PICK m \in Nat : DOMAIN kept = 1..m
  BY <1>3
<1>7. [k \in 1..m |-> s[kept[k]]] \in [1..m -> X]
  BY <1>5, <1>6
<1>8. \A f : f \in [1..m -> X] => f \in Seq(X)
  OBVIOUS
<1> QED
  BY <1>1, <1>4, <1>5, <1>6, <1>7, <1>8

\* A filter that keeps the first m elements keeps them in place.
LEMMA PickedFirst ==
    ASSUME NEW X, NEW s \in Seq(X), NEW m \in Nat, m <= Len(s)
    PROVE  Picked(s, 1..m) = [k \in 1..m |-> s[k]]
<1>1. PICK n \in Nat : n = Len(s) /\ DOMAIN s = 1..n
  OBVIOUS
<1>2. PICK u : AscendingRuns(1..m, n, u)
  BY AscendingExists
<1> DEFINE Upto(k) == IF k <= m THEN k ELSE m
           Good == {k \in 0..n : u[k] = [j \in 1..Upto(k) |-> j]}
<1>3. 0 \in Good
  <2>1. u[0] = <<>> /\ <<>> = [j \in 1..0 |-> j]
    BY <1>2 DEF AscendingRuns
  <2> QED
    BY <2>1
<1>4. ASSUME NEW k \in 1..n, k - 1 \in Good
      PROVE  k \in Good
  <2>1. u[k - 1] = [j \in 1..Upto(k - 1) |-> j] /\ k \in 0..n
    BY <1>4
  <2>2. u[k] = IF k \in 1..m THEN Append(u[k - 1], k) ELSE u[k - 1]
    BY <1>2 DEF AscendingRuns
  <2>3. CASE k <= m
    <3>1. PICK p \in Nat : p = k - 1
      OBVIOUS
    <3>2. u[k - 1] = [j \in 1..p |-> j]
      BY <2>1, <2>3, <3>1
    <3>3. Append([j \in 1..p |-> j], p + 1) = [j \in 1..(p + 1) |-> j]
      <4>1. [j \in 1..p |-> j] \in Seq(Nat) /\ Len([j \in 1..p |-> j]) = p
        <5>1. [j \in 1..p |-> j] \in [1..p -> Nat]
          OBVIOUS
        <5>2. \A f : f \in [1..p -> Nat] => f \in Seq(Nat) /\ Len(f) = p
          OBVIOUS
        <5> QED
          BY <5>1, <5>2
      <4>2. PICK f \in Seq(Nat) : f = [j \in 1..p |-> j] /\ Len(f) = p
        BY <4>1
      <4>3. /\ Append(f, p + 1) = [j \in 1..(p + 1) |-> Append(f, p + 1)[j]]
            /\ \A j \in 1..p : Append(f, p + 1)[j] = f[j]
            /\ Append(f, p + 1)[p + 1] = p + 1
        BY <4>2
      <4>4. \A j \in 1..p : f[j] = j
        BY <4>2
      <4>5. \A j \in 1..(p + 1) : Append(f, p + 1)[j] = j
        <5>1. \A j \in 1..(p + 1) : j \in 1..p \/ j = p + 1
          OBVIOUS
        <5> QED
          BY <4>3, <4>4, <5>1
      <4> QED
        BY <4>2, <4>3, <4>5
    <3>4. k \in 1..m /\ Upto(k) = p + 1 /\ k = p + 1
      BY <2>3, <3>1
    <3> QED
      BY <2>1, <2>2, <3>2, <3>3, <3>4
  <2>4. CASE ~ (k <= m)
    <3>1. Upto(k - 1) = m /\ Upto(k) = m /\ k \notin 1..m
      BY <2>4
    <3> QED
      BY <2>1, <2>2, <3>1
  <2> QED
    BY <2>3, <2>4
<1>5. \A k \in 0..n : k \in Good
  <2> HIDE DEF Good
  <2> QED
    BY <1>3, <1>4, UpTo
<1>6. Ascending(1..m, n) = [j \in 1..m |-> j]
  <2>1. Ascending(1..m, n) = u[n]
    BY <1>2 DEF AscendingRuns
  <2>2. n \in Good /\ Upto(n) = m
    BY <1>1, <1>5
  <2> QED
    BY <2>1, <2>2
<1> QED
  BY <1>1, <1>6 DEF Picked

\* R orders the members of S one after the other.
TotalOrder(S, R) ==
    /\ \A i \in S : <<i, i>> \notin R
    /\ \A i, j, k \in S : <<i, j>> \in R /\ <<j, k>> \in R => <<i, k>> \in R
    /\ \A i, j \in S : i = j \/ <<i, j>> \in R \/ <<j, i>> \in R

\* The members of S below i.
Less(S, R, i) == {j \in S : <<j, i>> \in R}

\* Each member of S at the place that the number below it gives.
Enumeration(S, R) ==
    [k \in 1..Cardinality(S) |-> CHOOSE i \in S : Cardinality(Less(S, R, i)) = k - 1]

\* The order lists the members of S, each once, those below others first.
Enumerates(S, R, order) ==
    /\ IsFiniteSet(S) /\ Cardinality(S) \in Nat
    /\ order \in [1..Cardinality(S) -> S] /\ Len(order) = Cardinality(S)
    /\ \A k \in 1..Cardinality(S) : Cardinality(Less(S, R, order[k])) = k - 1
    /\ \A i \in S : /\ IsFiniteSet(Less(S, R, i))
                    /\ Cardinality(Less(S, R, i)) + 1 \in 1..Cardinality(S)
                    /\ order[Cardinality(Less(S, R, i)) + 1] = i
    /\ \A i, j \in S : <<i, j>> \in R => Cardinality(Less(S, R, i)) < Cardinality(Less(S, R, j))

LEMMA OneLess ==
    ASSUME NEW I, IsFiniteSet(I), NEW x \in I
    PROVE  IsFiniteSet(I \ {x}) /\ Cardinality(I \ {x}) = Cardinality(I) - 1
<1>1. Cardinality(I \ {x}) = Cardinality(I) - 1
  BY FS_RemoveElement
<1>2. I \ {x} \in SUBSET I
  OBVIOUS
<1> QED
  BY <1>1, <1>2, FS_Subset

\* The number below is less for members that come first.
LEMMA LessIs ==
    ASSUME NEW S, NEW R, IsFiniteSet(S), TotalOrder(S, R)
    PROVE  /\ Cardinality(S) \in Nat
           /\ \A i \in S : /\ IsFiniteSet(Less(S, R, i))
                           /\ Cardinality(Less(S, R, i)) \in 0..(Cardinality(S) - 1)
           /\ \A i, j \in S :
                 <<i, j>> \in R => Cardinality(Less(S, R, i)) < Cardinality(Less(S, R, j))
<1>1. Cardinality(S) \in Nat
  BY FS_CardinalityType
<1>2. ASSUME NEW i \in S
      PROVE  /\ IsFiniteSet(Less(S, R, i)) /\ i \notin Less(S, R, i)
             /\ Cardinality(Less(S, R, i)) \in 0..(Cardinality(S) - 1)
  <2>1. Less(S, R, i) \in SUBSET S /\ i \notin Less(S, R, i)
    BY DEF Less, TotalOrder
  <2>2. IsFiniteSet(Less(S, R, i))
    BY <2>1, FS_Subset
  <2>3. Less(S, R, i) \in SUBSET (S \ {i})
    BY <2>1
  <2>4. IsFiniteSet(S \ {i}) /\ Cardinality(S \ {i}) = Cardinality(S) - 1
    BY OneLess
  <2>5. Cardinality(Less(S, R, i)) \in Nat
        /\ Cardinality(Less(S, R, i)) <= Cardinality(S) - 1
    BY <2>2, <2>3, <2>4, FS_Subset, FS_CardinalityType
  <2> QED
    BY <1>1, <2>1, <2>2, <2>5
<1>3. ASSUME NEW i \in S, NEW j \in S, <<i, j>> \in R
      PROVE  Cardinality(Less(S, R, i)) < Cardinality(Less(S, R, j))
  <2>1. Less(S, R, i) \cup {i} \in SUBSET Less(S, R, j)
    BY <1>3 DEF Less, TotalOrder
  <2>2. Cardinality(Less(S, R, i) \cup {i}) = Cardinality(Less(S, R, i)) + 1
    BY <1>2, FS_AddElement
  <2>3. Cardinality(Less(S, R, i) \cup {i}) <= Cardinality(Less(S, R, j))
    BY <1>2, <2>1, FS_Subset
  <2> QED
    BY <1>1, <1>2, <2>2, <2>3
<1> QED
  BY <1>1, <1>2, <1>3

LEMMA EnumerationIs ==
    ASSUME NEW S, NEW R, IsFiniteSet(S), TotalOrder(S, R)
    PROVE  Enumerates(S, R, Enumeration(S, R))
<1> DEFINE rank(i) == Cardinality(Less(S, R, i))
<1>1. /\ Cardinality(S) \in Nat
      /\ \A i \in S : IsFiniteSet(Less(S, R, i)) /\ rank(i) \in 0..(Cardinality(S) - 1)
      /\ \A i, j \in S : <<i, j>> \in R => rank(i) < rank(j)
  BY LessIs
<1>2. PICK N \in Nat : N = Cardinality(S)
  BY <1>1
<1>3. Enumeration(S, R) = [k \in 1..N |-> CHOOSE i \in S : rank(i) = k - 1]
  BY <1>2 DEF Enumeration
<1> HIDE DEF rank
<1>4. \A i, j \in S : rank(i) = rank(j) => i = j
  <2> SUFFICES ASSUME NEW i \in S, NEW j \in S, rank(i) = rank(j)
               PROVE  i = j
    OBVIOUS
  <2>1. rank(i) \in Nat /\ rank(j) \in Nat
    BY <1>1
  <2>2. i = j \/ <<i, j>> \in R \/ <<j, i>> \in R
    BY DEF TotalOrder
  <2> QED
    BY <1>1, <2>1, <2>2
<1>5. ASSUME NEW k \in 1..N
      PROVE  \E i \in S : rank(i) = k - 1
  <2> SUFFICES ASSUME \A i \in S : rank(i) # k - 1
               PROVE  FALSE
    OBVIOUS
  <2> DEFINE T == (0..(N - 1)) \ {k - 1}
             f == [i \in S |-> rank(i)]
  <2>1. k - 1 \in 0..(N - 1) /\ IsFiniteSet(0..(N - 1)) /\ Cardinality(0..(N - 1)) = N
    <3>1. 0 \in Int /\ N - 1 \in Int /\ ~ (0 > N - 1) /\ (N - 1) - 0 + 1 = N
      OBVIOUS
    <3> QED
      BY <3>1, FS_Interval
  <2>2. IsFiniteSet(T) /\ Cardinality(T) = N - 1
    <3>1. IsFiniteSet((0..(N - 1)) \ {k - 1})
          /\ Cardinality((0..(N - 1)) \ {k - 1}) = Cardinality(0..(N - 1)) - 1
      BY <2>1, OneLess
    <3> QED
      BY <2>1, <3>1
  <2>3. f \in [S -> T]
    BY <1>1, <1>2
  <2>4. Cardinality(T) < Cardinality(S)
    BY <1>2, <2>2
  <2> HIDE DEF T
  <2>5. \E i, j \in S : i # j /\ f[i] = f[j]
    <3> HIDE DEF f
    <3> QED
      BY <1>1, <2>2, <2>3, <2>4, FS_PigeonHole
  <2> QED
    BY <1>4, <2>5
<1>6. PICK order : order = Enumeration(S, R)
  OBVIOUS
<1>7. \A k \in 1..N : order[k] \in S /\ rank(order[k]) = k - 1
  BY <1>3, <1>5, <1>6
<1>8. order \in [1..N -> S] /\ Len(order) = N
  <2>1. order = [k \in 1..N |-> order[k]]
    BY <1>3, <1>6
  <2>2. order \in [1..N -> S]
    BY <1>7, <2>1
  <2>3. \A f : f \in [1..N -> S] => Len(f) = N
    OBVIOUS
  <2> QED
    BY <2>2, <2>3
<1>9. ASSUME NEW i \in S
      PROVE  rank(i) + 1 \in 1..N /\ order[rank(i) + 1] = i
  <2>1. rank(i) \in Nat /\ rank(i) + 1 \in 1..N
    BY <1>1, <1>2
  <2>2. rank(order[rank(i) + 1]) = rank(i) /\ order[rank(i) + 1] \in S
    BY <1>7, <2>1
  <2> QED
    BY <1>4, <2>1, <2>2
<1> QED
  BY <1>1, <1>2, <1>6, <1>7, <1>8, <1>9 DEF Enumerates, rank

\* Row i comes before row j in descending score; equal scores keep their order.
Before(rows, i, j) ==
    \/ rows[i].score > rows[j].score
    \/ rows[i].score = rows[j].score /\ i < j

\* The rows of S that come before row i.
Earlier(rows, S, i) == {j \in S : Before(rows, j, i)}

\* The members of S, each once, those before others first.
Sorted(rows, S, order) ==
    /\ Len(order) = Cardinality(S) /\ order \in [1..Cardinality(S) -> S]
    /\ \A k \in 1..Cardinality(S) : Cardinality(Earlier(rows, S, order[k])) = k - 1
    /\ \A i \in S : /\ Cardinality(Earlier(rows, S, i)) + 1 \in 1..Cardinality(S)
                    /\ order[Cardinality(Earlier(rows, S, i)) + 1] = i

LEMMA PartFinite ==
    ASSUME NEW n \in Nat, NEW S \in SUBSET (1..n)
    PROVE  IsFiniteSet(S) /\ Cardinality(S) \in Nat
<1>1. IsFiniteSet(1..n)
  BY FS_Interval
<1> QED
  BY <1>1, FS_Subset, FS_CardinalityType

\* Descending scores order any set of rows.
LEMMA BeforeOrders ==
    ASSUME NEW n \in Nat, NEW rows, \A i \in 1..n : rows[i].score \in Nat,
           NEW S \in SUBSET (1..n), NEW R,
           \A i, j \in S : <<i, j>> \in R <=> Before(rows, i, j)
    PROVE  IsFiniteSet(S) /\ TotalOrder(S, R)
<1>1. IsFiniteSet(S)
  BY PartFinite
<1>2. \A i \in S : i \in Nat /\ rows[i].score \in Nat
  <2> TAKE i \in S
  <2>1. i \in 1..n
    OBVIOUS
  <2>2. i \in Nat
    BY <2>1
  <2>3. rows[i].score \in Nat
    BY <2>1, Zenon
  <2> QED
    BY <2>2, <2>3
<1>3. \A i \in S : ~ Before(rows, i, i)
  BY <1>2 DEF Before
<1>4. \A i, j, k \in S : Before(rows, i, j) /\ Before(rows, j, k) => Before(rows, i, k)
  <2> SUFFICES ASSUME NEW i \in S, NEW j \in S, NEW k \in S,
                      Before(rows, i, j), Before(rows, j, k)
               PROVE  Before(rows, i, k)
    OBVIOUS
  <2>1. /\ i \in Nat /\ j \in Nat /\ k \in Nat
        /\ rows[i].score \in Nat /\ rows[j].score \in Nat /\ rows[k].score \in Nat
    BY <1>2
  <2> QED
    BY <2>1 DEF Before
<1>5. \A i, j \in S : i = j \/ Before(rows, i, j) \/ Before(rows, j, i)
  <2> SUFFICES ASSUME NEW i \in S, NEW j \in S
               PROVE  i = j \/ Before(rows, i, j) \/ Before(rows, j, i)
    OBVIOUS
  <2>1. i \in Nat /\ j \in Nat /\ rows[i].score \in Nat /\ rows[j].score \in Nat
    BY <1>2
  <2> QED
    BY <2>1 DEF Before
<1> QED
  BY <1>1, <1>3, <1>4, <1>5 DEF TotalOrder

\* ByScore lists the rows in descending score.
LEMMA ByScoreIs ==
    ASSUME NEW n \in Nat, NEW rows, \A i \in 1..n : rows[i].score \in Nat, NEW S \in SUBSET (1..n)
    PROVE  Sorted(rows, S, ByScore(rows, S))
<1>1. PICK R : R = {p \in S \X S : Before(rows, p[1], p[2])}
  OBVIOUS
<1>2. \A i, j \in S : <<i, j>> \in R <=> Before(rows, i, j)
  BY <1>1
<1>3. IsFiniteSet(S) /\ TotalOrder(S, R)
  BY <1>2, BeforeOrders
<1>4. \A i \in S : Earlier(rows, S, i) = Less(S, R, i)
  BY <1>2 DEF Earlier, Less
<1>5. ByScore(rows, S) = [k \in 1..Cardinality(S) |->
                            CHOOSE i \in S : Cardinality(Earlier(rows, S, i)) = k - 1]
  BY DEF ByScore, Earlier, Before
<1>6. ByScore(rows, S) = Enumeration(S, R)
  BY <1>4, <1>5 DEF Enumeration
<1>7. Enumerates(S, R, ByScore(rows, S))
  BY <1>3, <1>6, EnumerationIs
<1> QED
  BY <1>4, <1>7 DEF Enumerates, Sorted

-----------------------------------------------------------------------------
(* One matching, cut at every threshold *)

\* The rows of S that reach threshold t.
AtLeastScore(rows, S, t) == {i \in S : rows[i].score >= t}

\* Ordering the rows that reach t gives the beginning of the order of all.
OrderCut(rows, S, t, T) ==
    /\ IsFiniteSet(T) /\ Cardinality(T) \in Nat /\ Cardinality(S) \in Nat
    /\ Cardinality(T) <= Cardinality(S)
    /\ \A k \in 1..Cardinality(T) : ByScore(rows, T)[k] = ByScore(rows, S)[k]
    /\ \A k \in 1..Cardinality(S) :
          rows[ByScore(rows, S)[k]].score >= t <=> k \in 1..Cardinality(T)

\* A threshold cuts the order of the scores off, and changes nothing before.
LEMMA OrderIsCut ==
    ASSUME NEW n \in Nat, NEW rows, \A i \in 1..n : rows[i].score \in Nat,
           NEW S \in SUBSET (1..n), NEW t \in Nat,
           NEW T, T = AtLeastScore(rows, S, t)
    PROVE  OrderCut(rows, S, t, T)
<1>1. T \in SUBSET S /\ T \in SUBSET (1..n)
  BY DEF AtLeastScore
<1>2. PICK whole : whole = ByScore(rows, S)
  OBVIOUS
<1>3. PICK cut : cut = ByScore(rows, T)
  OBVIOUS
<1>4. Sorted(rows, S, whole)
  BY <1>2, ByScoreIs
<1>5. Sorted(rows, T, cut)
  BY <1>1, <1>3, ByScoreIs
<1>6. IsFiniteSet(S) /\ IsFiniteSet(T) /\ Cardinality(S) \in Nat /\ Cardinality(T) \in Nat
  BY <1>1, PartFinite
<1>7. Cardinality(T) <= Cardinality(S)
  BY <1>1, <1>6, FS_Subset
<1>8. ASSUME NEW i \in T
      PROVE  Earlier(rows, S, i) = Earlier(rows, T, i)
  <2>1. \A j \in S : rows[j].score \in Nat
    <3> TAKE j \in S
    <3>1. j \in 1..n
      OBVIOUS
    <3> QED
      BY <3>1, Zenon
  <2>2. rows[i].score >= t /\ i \in S
    BY DEF AtLeastScore
  <2>3. \A j \in S : Before(rows, j, i) => j \in T
    <3> SUFFICES ASSUME NEW j \in S, Before(rows, j, i)
                 PROVE  rows[j].score >= t
      BY DEF AtLeastScore
    <3>1. PICK a \in Nat : a = rows[j].score
      BY <2>1
    <3>2. PICK b \in Nat : b = rows[i].score
      BY <2>1, <2>2
    <3>3. a > b \/ a = b
      BY <3>1, <3>2 DEF Before
    <3>4. b >= t
      BY <2>2, <3>2
    <3> QED
      BY <3>1, <3>3, <3>4
  <2> QED
    BY <1>1, <2>3 DEF Earlier
<1>9. ASSUME NEW k \in 1..Cardinality(T)
      PROVE  cut[k] = whole[k] /\ whole[k] \in T
  <2>1. PICK i \in T : i = cut[k]
    BY <1>5 DEF Sorted
  <2>2. Cardinality(Earlier(rows, T, i)) = k - 1
    BY <1>5, <2>1 DEF Sorted
  <2>3. Cardinality(Earlier(rows, S, i)) = k - 1 /\ i \in S
    BY <1>1, <1>8, <2>2
  <2>4. whole[Cardinality(Earlier(rows, S, i)) + 1] = i
    BY <1>4, <2>3 DEF Sorted
  <2>5. (k - 1) + 1 = k
    OBVIOUS
  <2> QED
    BY <2>1, <2>3, <2>4, <2>5
<1>10. ASSUME NEW k \in 1..Cardinality(S), rows[whole[k]].score >= t
       PROVE  k \in 1..Cardinality(T)
  <2>1. PICK i \in S : i = whole[k]
    BY <1>4 DEF Sorted
  <2>2. i \in T
    BY <1>10, <2>1 DEF AtLeastScore
  <2>3. Cardinality(Earlier(rows, S, i)) = k - 1
    BY <1>4, <2>1 DEF Sorted
  <2>4. Cardinality(Earlier(rows, T, i)) + 1 \in 1..Cardinality(T)
    BY <1>5, <2>2 DEF Sorted
  <2>5. (k - 1) + 1 = k
    OBVIOUS
  <2> QED
    BY <1>8, <2>2, <2>3, <2>4, <2>5
<1>11. ASSUME NEW k \in 1..Cardinality(T)
       PROVE  rows[whole[k]].score >= t
  BY <1>9, <1>11 DEF AtLeastScore
<1> QED
  BY <1>2, <1>3, <1>6, <1>7, <1>9, <1>10, <1>11 DEF OrderCut

LEMMA BestOverlapIs ==
    ASSUME NEW n \in Nat, NEW I \in SUBSET (1..n), NEW overlaps
    PROVE  BestOverlap(I, overlaps) \in I \cup {NoLabel}
<1> DEFINE touching == {i \in I : overlaps[i].inter > 0}
           best == {i \in touching : \A j \in touching : AtLeast(overlaps[i], overlaps[j])}
<1>1. best \in SUBSET I /\ best \in SUBSET Nat
  <2>1. touching \in SUBSET I
    OBVIOUS
  <2> HIDE DEF touching
  <2>2. best \in SUBSET touching
    OBVIOUS
  <2> HIDE DEF best
  <2> QED
    BY <2>1, <2>2
<1>2. BestOverlap(I, overlaps) = IF best = {} THEN NoLabel
                                 ELSE CHOOSE i \in best : \A j \in best : i <= j
  BY DEF BestOverlap
<1> HIDE DEF best, touching
<1>3. best # {} => \E i \in best : \A j \in best : i <= j
  BY <1>1, LeastOf
<1> QED
  BY <1>1, <1>2, <1>3

\* What matching may say of a prediction (error_analysis.py).
Outcomes == {"matched", "duplicate", "class_confusion", "partial_overlap", "no_overlap"}

\* The rows of matching against n labels.
MatchRows(n) == [prediction : Nat, outcome : Outcomes, label : 0..n]

\* What match_image appends for prediction p: a hit takes a label nobody had.
Offered(n, matches, p, row) ==
    /\ row \in MatchRows(n) /\ row.prediction = p
    /\ row.outcome = "matched" <=> row.label # NoLabel
    /\ row.label # NoLabel => row.label \notin Taken(matches)

\* Offering one more prediction appends one row.
LEMMA MatchNextIs ==
    ASSUME NEW n \in Nat, NEW truth, DOMAIN truth = 1..n, NEW predictions, NEW matches,
           NEW p \in Nat
    PROVE  \E row : /\ MatchNext(truth, predictions, matches, p) = Append(matches, row)
                    /\ Offered(n, matches, p, row)
<1> DEFINE overlaps  == [i \in DOMAIN truth |-> Overlap(predictions[p].box, truth[i].box)]
           same      == {i \in DOMAIN truth : truth[i].category = predictions[p].category}
           available == BestOverlap(same \ Taken(matches), overlaps)
           outcome   == Outcome(available, BestOverlap(same, overlaps),
                                BestOverlap(DOMAIN truth, overlaps), overlaps)
           row == [prediction |-> p, outcome |-> outcome,
                   label |-> IF outcome = "matched" THEN available ELSE NoLabel]
<1>1. MatchNext(truth, predictions, matches, p) = Append(matches, row)
  BY DEF MatchNext
<1>2. same \ Taken(matches) \in SUBSET (1..n)
  <2>1. same \in SUBSET (DOMAIN truth)
    OBVIOUS
  <2> HIDE DEF same
  <2> QED
    BY <2>1
<1>3. available \in (same \ Taken(matches)) \cup {NoLabel}
  <2> HIDE DEF overlaps, same
  <2> QED
    BY <1>2, BestOverlapIs
<1>4. outcome \in Outcomes
  BY DEF Outcome, Outcomes
<1>5. outcome = "matched" => available # NoLabel
  <2>1. outcome = "matched" => Close(available, overlaps)
    BY DEF Outcome
  <2> QED
    BY <2>1 DEF Close
<1>6. available \in 0..n /\ (available # NoLabel => available \notin Taken(matches))
  BY <1>2, <1>3 DEF NoLabel
<1> HIDE DEF available, outcome
<1>7. Offered(n, matches, p, row)
  BY <1>4, <1>5, <1>6 DEF Offered, MatchRows, NoLabel
<1> QED
  BY <1>1, <1>7

\* The matchings of the first k of N predictions, for every k.
Chain(n, truth, predictions, order, N, u) ==
    /\ u \in [0..N -> Seq(MatchRows(n))] /\ u[0] = <<>>
    /\ \A k \in 1..N : u[k] = MatchNext(truth, predictions, u[k - 1], order[k])

LEMMA ChainExists ==
    ASSUME NEW n \in Nat, NEW truth, DOMAIN truth = 1..n, NEW predictions, NEW t,
           NEW N \in Nat, NEW order \in [1..N -> Nat], Len(order) = N,
           Retained(predictions, t) = order
    PROVE  \E u : /\ Chain(n, truth, predictions, order, N, u)
                  /\ MatchImage(truth, predictions, t) = u[N]
<1> DEFINE X == Seq(MatchRows(n))
           Runs(f) == f = [k \in 0..N |-> IF k = 0 THEN <<>>
                              ELSE MatchNext(truth, predictions, f[k - 1], order[k])]
           upTo == CHOOSE f : Runs(f)
           G == [k \in 1..N |-> [s \in X |-> MatchNext(truth, predictions, s, order[k])]]
<1>1. ASSUME NEW k \in 1..N, NEW s \in X
      PROVE  MatchNext(truth, predictions, s, order[k]) \in X
  <2>1. PICK p \in Nat : p = order[k]
    OBVIOUS
  <2>2. PICK row : /\ MatchNext(truth, predictions, s, p) = Append(s, row)
                   /\ Offered(n, s, p, row)
    BY MatchNextIs
  <2>3. row \in MatchRows(n)
    BY <2>2 DEF Offered
  <2> QED
    BY <2>1, <2>2, <2>3
<1>2. G \in [1..N -> [X -> X]]
  <2> HIDE DEF X
  <2> QED
    BY <1>1
<1>3. Iterates(N, X, <<>>, G)
  <2>1. <<>> \in X
    OBVIOUS
  <2> HIDE DEF G, X
  <2> QED
    BY <1>2, <2>1, RecursionExists
<1>4. PICK f \in [0..N -> X] : f[0] = <<>> /\ \A k \in 1..N : f[k] = G[k][f[k - 1]]
  BY <1>3 DEF Iterates
<1>5. \A k \in 1..N : f[k - 1] \in X /\ f[k] = MatchNext(truth, predictions, f[k - 1], order[k])
  <2>1. \A k \in 1..N : k - 1 \in 0..N
    OBVIOUS
  <2>2. \A k \in 1..N : f[k - 1] \in X
    BY <2>1
  <2> HIDE DEF X
  <2> QED
    BY <2>2, <1>4
<1> HIDE DEF X, G
<1>6. Runs(f)
  <2>1. \A k \in 0..N : k = 0 \/ k \in 1..N
    OBVIOUS
  <2> QED
    BY <2>1, <1>4, <1>5
<1>7. Runs(upTo)
  BY <1>6
<1>8. MatchImage(truth, predictions, t) = upTo[N]
  BY DEF MatchImage
<1> HIDE DEF upTo
<1>9. /\ upTo[0] = <<>>
      /\ \A k \in 1..N : upTo[k] = MatchNext(truth, predictions, upTo[k - 1], order[k])
  <2>1. 0 \in 0..N /\ \A k \in 1..N : k \in 0..N /\ k # 0
    OBVIOUS
  <2> QED
    BY <2>1, <1>7
<1> HIDE DEF Runs
<1> DEFINE Good == {k \in 0..N : upTo[k] \in X}
<1>10. 0 \in Good
  <2>1. <<>> \in X /\ 0 \in 0..N
    BY DEF X
  <2> QED
    BY <1>9, <2>1
<1>11. ASSUME NEW k \in 1..N, k - 1 \in Good
       PROVE  k \in Good
  BY <1>1, <1>9, <1>11
<1>12. \A k \in 0..N : k \in Good
  <2> HIDE DEF Good
  <2> QED
    BY <1>10, <1>11, UpTo
<1>13. upTo \in [0..N -> X]
  <2>1. upTo = [k \in 0..N |-> upTo[k]]
    BY <1>7 DEF Runs
  <2> QED
    BY <1>12, <2>1
<1> QED
  BY <1>8, <1>9, <1>13 DEF Chain, X

\* Every prediction retained has its match, in order, and no label is taken twice.
Matched(n, order, N, matches) ==
    /\ matches \in Seq(MatchRows(n)) /\ Len(matches) = N
    /\ \A k \in 1..N : /\ matches[k].prediction = order[k]
                       /\ matches[k].outcome = "matched" <=> matches[k].label # NoLabel
    /\ \A j, k \in 1..N : j < k /\ matches[k].label # NoLabel
                            => matches[j].label # matches[k].label

\* Matching one more prediction changes nothing said before.
GoesOn(n, order, N, before, after) ==
    /\ Matched(n, order, N + 1, after)
    /\ \A k \in 1..N : after[k] = before[k]

\* A prediction offered takes no label that another has.
LEMMA OfferedKeeps ==
    ASSUME NEW n \in Nat, NEW order, NEW N \in Nat, NEW matches, NEW row, NEW p, p = order[N + 1],
           Matched(n, order, N, matches), Offered(n, matches, p, row)
    PROVE  GoesOn(n, order, N, matches, Append(matches, row))
<1> DEFINE m == Append(matches, row)
<1>1. matches \in Seq(MatchRows(n)) /\ Len(matches) = N /\ row \in MatchRows(n)
  BY DEF Matched, Offered
<1>2. m \in Seq(MatchRows(n)) /\ Len(m) = N + 1 /\ m[N + 1] = row
      /\ \A k \in 1..N : m[k] = matches[k]
  BY <1>1
<1> HIDE DEF m
<1>3. \A k \in 1..(N + 1) : k \in 1..N \/ k = N + 1
  OBVIOUS
<1>4. ASSUME NEW k \in 1..(N + 1)
      PROVE  m[k].prediction = order[k] /\ (m[k].outcome = "matched" <=> m[k].label # NoLabel)
  <2>1. CASE k \in 1..N
    BY <1>2, <2>1 DEF Matched
  <2>2. CASE k = N + 1
    BY <1>2, <2>2 DEF Offered
  <2> QED
    BY <1>3, <2>1, <2>2
<1>5. ASSUME NEW j \in 1..(N + 1), NEW k \in 1..(N + 1), j < k, m[k].label # NoLabel
      PROVE  m[j].label # m[k].label
  <2>1. j \in 1..N
    BY <1>5
  <2>2. CASE k \in 1..N
    BY <1>2, <1>5, <2>1, <2>2 DEF Matched
  <2>3. CASE k = N + 1
    <3>1. row.label # NoLabel /\ row.label \notin Taken(matches)
      BY <1>2, <1>5, <2>3 DEF Offered
    <3>2. j \in DOMAIN matches
      BY <1>1, <2>1
    <3>3. matches[j].label = row.label => row.label \in Taken(matches)
      BY <3>1, <3>2 DEF Taken
    <3> QED
      BY <1>2, <2>1, <2>3, <3>1, <3>3
  <2> QED
    BY <1>3, <2>2, <2>3
<1> QED
  BY <1>2, <1>4, <1>5 DEF Matched, GoesOn, m

\* Every stage of the matching is the beginning of the last.
Growing(n, order, N, u) ==
    \A k \in 0..N : Matched(n, order, k, u[k]) /\ \A j \in 1..k : u[N][j] = u[k][j]

\* The matching of k predictions is the beginning of the matching of more.
LEMMA ChainMatches ==
    ASSUME NEW n \in Nat, NEW truth, DOMAIN truth = 1..n, NEW predictions,
           NEW N \in Nat, NEW order \in [1..N -> Nat], NEW u, Chain(n, truth, predictions, order, N, u)
    PROVE  Growing(n, order, N, u)
<1>1. ASSUME NEW k \in 1..N, Matched(n, order, k - 1, u[k - 1])
      PROVE  /\ Matched(n, order, k, u[k])
             /\ \A j \in 1..(k - 1) : u[k][j] = u[k - 1][j]
  <2>1. PICK p \in Nat : p = order[k]
    OBVIOUS
  <2>2. u[k] = MatchNext(truth, predictions, u[k - 1], p)
    BY <2>1 DEF Chain
  <2>3. PICK row : /\ MatchNext(truth, predictions, u[k - 1], p) = Append(u[k - 1], row)
                   /\ Offered(n, u[k - 1], p, row)
    BY MatchNextIs
  <2>4. PICK q \in Nat : q = k - 1 /\ q + 1 = k
    OBVIOUS
  <2>5. PICK before : before = u[q]
    OBVIOUS
  <2>6. Matched(n, order, q, before) /\ Offered(n, before, p, row) /\ p = order[q + 1]
    BY <1>1, <2>1, <2>3, <2>4, <2>5
  <2>7. GoesOn(n, order, q, before, Append(before, row))
    BY <2>6, OfferedKeeps
  <2>8. u[k] = Append(before, row)
    BY <2>2, <2>3, <2>4, <2>5
  <2> QED
    BY <2>4, <2>5, <2>7, <2>8 DEF GoesOn
<1> DEFINE Good == {k \in 0..N : Matched(n, order, k, u[k])}
<1>2. 0 \in Good
  <2>1. u[0] = <<>> /\ 0 \in 0..N
    BY DEF Chain
  <2>2. <<>> \in Seq(MatchRows(n)) /\ Len(<<>>) = 0 /\ 1..0 = {}
    OBVIOUS
  <2> QED
    BY <2>1, <2>2 DEF Matched
<1>3. ASSUME NEW k \in 1..N, k - 1 \in Good
      PROVE  k \in Good
  BY <1>1, <1>3
<1>4. \A k \in 0..N : k \in Good
  <2> HIDE DEF Good
  <2> QED
    BY <1>2, <1>3, UpTo
\* from the last matching down to the k-th
<1> DEFINE CutAt(d) == \A j \in 1..(N - d) : u[N][j] = u[N - d][j]
           Down == {d \in 0..N : CutAt(d)}
<1>5. 0 \in Down
  OBVIOUS
<1>6. ASSUME NEW d \in 1..N, d - 1 \in Down
      PROVE  d \in Down
  <2>1. PICK k \in 1..N : k = N - (d - 1) /\ k - 1 = N - d
    OBVIOUS
  <2>2. \A j \in 1..(k - 1) : u[k][j] = u[k - 1][j]
    BY <1>1, <1>4
  <2>3. \A j \in 1..(k - 1) : j \in 1..k
    OBVIOUS
  <2>4. \A j \in 1..k : u[N][j] = u[k][j]
    BY <1>6, <2>1
  <2>5. \A j \in 1..(k - 1) : u[N][j] = u[k - 1][j]
    BY <2>2, <2>3, <2>4
  <2> QED
    BY <2>1, <2>5
<1>7. \A d \in 0..N : d \in Down
  <2> HIDE DEF Down
  <2> QED
    BY <1>5, <1>6, UpTo
<1>8. ASSUME NEW k \in 0..N
      PROVE  \A j \in 1..k : u[N][j] = u[k][j]
  <2>1. PICK d \in 0..N : N - d = k
    OBVIOUS
  <2>2. CutAt(d)
    BY <1>7
  <2> QED
    BY <2>1, <2>2
<1> QED
  BY <1>4, <1>8 DEF Growing

\* A threshold keeps the first N matches of the matching without one.
Prefix(n, predictions, r, t, full, N, cut) ==
    /\ full \in Seq(MatchRows(n)) /\ Len(full) = r
    /\ cut \in Seq(MatchRows(n)) /\ Len(cut) = N
    /\ N <= r
    /\ \A k \in 1..N : cut[k] = full[k]
    /\ \A k \in 1..r : predictions[full[k].prediction].score >= t <=> k \in 1..N

\* Each of r predictions has a score.
Scored(predictions, r) ==
    DOMAIN predictions = 1..r /\ \A i \in 1..r : predictions[i].score \in Nat

\* What a threshold retains is an order of the members of T.
Retains(predictions, t, T) ==
    /\ Retained(predictions, t) = ByScore(predictions, T)
    /\ Cardinality(T) \in Nat
    /\ Retained(predictions, t) \in [1..Cardinality(T) -> T]
    /\ Retained(predictions, t) \in [1..Cardinality(T) -> Nat]
    /\ Len(Retained(predictions, t)) = Cardinality(T)

\* What is retained at a threshold, in descending score.
LEMMA RetainedIs ==
    ASSUME NEW r \in Nat, NEW predictions, Scored(predictions, r), NEW t \in Nat,
           NEW T, T = AtLeastScore(predictions, 1..r, t)
    PROVE  Retains(predictions, t, T)
<1>1. Retained(predictions, t) = ByScore(predictions, T)
  BY DEF Retained, AtLeastScore, Scored
<1>2. T \in SUBSET (1..r)
  BY DEF AtLeastScore
<1>3. Sorted(predictions, T, ByScore(predictions, T))
  BY <1>2, ByScoreIs DEF Scored
<1>4. Cardinality(T) \in Nat
  BY <1>2, PartFinite
<1>5. /\ Retained(predictions, t) \in [1..Cardinality(T) -> T]
      /\ Len(Retained(predictions, t)) = Cardinality(T)
  BY <1>1, <1>3 DEF Sorted
<1>6. Retained(predictions, t) \in [1..Cardinality(T) -> Nat]
  BY <1>2, <1>5
<1> QED
  BY <1>1, <1>4, <1>5, <1>6 DEF Retains

\* match_image goes through what it retains, one prediction after the other.
GoesThrough(n, truth, predictions, order, N, matches) ==
    /\ N \in Nat /\ order \in [1..N -> Nat]
    /\ Matched(n, order, N, matches)
    /\ \E u : Chain(n, truth, predictions, order, N, u) /\ matches = u[N]

\* Matching goes through the retained predictions in that order.
LEMMA MatchImageIs ==
    ASSUME NEW n \in Nat, NEW truth, DOMAIN truth = 1..n,
           NEW r \in Nat, NEW predictions, Scored(predictions, r), NEW t \in Nat
    PROVE  GoesThrough(n, truth, predictions, Retained(predictions, t),
                       Cardinality(AtLeastScore(predictions, 1..r, t)),
                       MatchImage(truth, predictions, t))
<1>1. PICK T : T = AtLeastScore(predictions, 1..r, t)
  OBVIOUS
<1>2. PICK order : order = Retained(predictions, t)
  OBVIOUS
<1>3. Retains(predictions, t, T)
  BY <1>1, RetainedIs
<1>4. PICK N : N = Cardinality(T)
  OBVIOUS
<1>5. N \in Nat /\ order \in [1..N -> Nat] /\ Len(order) = N
  BY <1>2, <1>3, <1>4 DEF Retains
<1>6. PICK u : /\ Chain(n, truth, predictions, order, N, u)
               /\ MatchImage(truth, predictions, t) = u[N]
  BY <1>2, <1>5, ChainExists
<1>7. N \in 0..N
  BY <1>5
<1>8. Matched(n, order, N, u[N])
  <2>1. Growing(n, order, N, u)
    BY <1>5, <1>6, ChainMatches
  <2> QED
    BY <1>7, <2>1 DEF Growing
<1> QED
  BY <1>1, <1>2, <1>4, <1>5, <1>6, <1>8 DEF GoesThrough

\* The matching at a threshold is the beginning of the matching at zero: why one
\* sweep over the scores can count every threshold (qualification.py:71-88).
THEOREM MatchingCut ==
    ASSUME NEW n \in Nat, NEW truth, DOMAIN truth = 1..n,
           NEW r \in Nat, NEW predictions, Scored(predictions, r), NEW t \in Nat,
           NEW N, N = Cardinality(AtLeastScore(predictions, 1..r, t))
    PROVE  Prefix(n, predictions, r, t, MatchImage(truth, predictions, 0), N,
                  MatchImage(truth, predictions, t))
<1>1. PICK o : o = Retained(predictions, 0)
  OBVIOUS
<1>2. PICK p : p = Retained(predictions, t)
  OBVIOUS
<1>3. PICK full : full = MatchImage(truth, predictions, 0)
  OBVIOUS
<1>4. PICK cut : cut = MatchImage(truth, predictions, t)
  OBVIOUS
<1>5. PICK S : S = 1..r
  OBVIOUS
<1>6. AtLeastScore(predictions, 1..r, 0) = S
  <2>1. \A i \in 1..r : predictions[i].score >= 0
    <3> TAKE i \in 1..r
    <3>1. PICK a \in Nat : a = predictions[i].score
      BY DEF Scored
    <3> QED
      BY <3>1
  <2> QED
    BY <1>5, <2>1 DEF AtLeastScore
<1>7. Cardinality(S) = r
  <2>1. 1 \in Int /\ r \in Int /\ (1 > r => r = 0) /\ r - 1 + 1 = r
    OBVIOUS
  <2> QED
    BY <1>5, <2>1, FS_Interval
<1>8. PICK T : T = AtLeastScore(predictions, 1..r, t) /\ N = Cardinality(T)
  OBVIOUS
<1>9. GoesThrough(n, truth, predictions, o, r, full)
  <2>1. 0 \in Nat
    OBVIOUS
  <2>2. GoesThrough(n, truth, predictions, Retained(predictions, 0),
                    Cardinality(AtLeastScore(predictions, 1..r, 0)), MatchImage(truth, predictions, 0))
    BY <2>1, MatchImageIs
  <2> QED
    BY <1>1, <1>3, <1>6, <1>7, <2>2
<1>10. GoesThrough(n, truth, predictions, p, N, cut)
  <2>1. GoesThrough(n, truth, predictions, Retained(predictions, t),
                    Cardinality(AtLeastScore(predictions, 1..r, t)), MatchImage(truth, predictions, t))
    BY MatchImageIs
  <2> QED
    BY <1>2, <1>4, <2>1
<1>11. /\ N <= r /\ N \in Nat
       /\ \A k \in 1..N : p[k] = o[k]
       /\ \A k \in 1..r : predictions[o[k]].score >= t <=> k \in 1..N
  <2>1. Retains(predictions, t, T)
    BY <1>8, RetainedIs
  <2>2. p = ByScore(predictions, T) /\ N \in Nat
    BY <1>2, <1>8, <2>1 DEF Retains
  <2>3. Retains(predictions, 0, S)
    BY <1>6, RetainedIs
  <2>4. o = ByScore(predictions, S)
    BY <1>1, <2>3 DEF Retains
  <2>5. S \in SUBSET (1..r) /\ T = AtLeastScore(predictions, S, t)
    BY <1>5, <1>8
  <2>6. OrderCut(predictions, S, t, T)
    BY <2>5, OrderIsCut DEF Scored
  <2> QED
    BY <1>7, <1>8, <2>2, <2>4, <2>6 DEF OrderCut
<1>12. PICK u : Chain(n, truth, predictions, o, r, u) /\ full = u[r]
  BY <1>9 DEF GoesThrough
<1>13. PICK v : Chain(n, truth, predictions, p, N, v) /\ cut = v[N]
  BY <1>10 DEF GoesThrough
<1> DEFINE Good == {k \in 0..N : u[k] = v[k]}
<1>14. 0 \in Good
  BY <1>11, <1>12, <1>13 DEF Chain
<1>15. ASSUME NEW k \in 1..N, k - 1 \in Good
       PROVE  k \in Good
  <2>1. u[k] = MatchNext(truth, predictions, u[k - 1], o[k])
    BY <1>11, <1>12 DEF Chain
  <2>2. v[k] = MatchNext(truth, predictions, v[k - 1], p[k])
    BY <1>13 DEF Chain
  <2>3. u[k - 1] = v[k - 1] /\ k \in 0..N
    BY <1>11, <1>15
  <2> QED
    BY <1>11, <2>1, <2>2, <2>3
<1>16. \A k \in 0..N : k \in Good
  <2> HIDE DEF Good
  <2> QED
    BY <1>11, <1>14, <1>15, UpTo
<1>17. N \in 0..N /\ N \in 0..r
  BY <1>11
<1>18. u[N] = cut
  BY <1>13, <1>16, <1>17
<1>19. \A k \in 1..N : cut[k] = full[k]
  <2>1. o \in [1..r -> Nat]
    BY <1>9 DEF GoesThrough
  <2>2. Growing(n, o, r, u)
    BY <1>12, <2>1, ChainMatches
  <2> QED
    BY <1>12, <1>17, <1>18, <2>2 DEF Growing
<1>20. /\ full \in Seq(MatchRows(n)) /\ Len(full) = r /\ \A k \in 1..r : full[k].prediction = o[k]
       /\ cut \in Seq(MatchRows(n)) /\ Len(cut) = N
  BY <1>9, <1>10 DEF Matched, GoesThrough
<1> QED
  BY <1>3, <1>4, <1>11, <1>19, <1>20 DEF Prefix

\* So picking the rows that reach a threshold gives the matching at it.
LEMMA MatchesAtIs ==
    ASSUME NEW n \in Nat, NEW truth, DOMAIN truth = 1..n,
           NEW r \in Nat, NEW predictions, Scored(predictions, r), NEW t \in Nat
    PROVE  MatchesAt(Board(truth, predictions), t) = MatchImage(truth, predictions, t)
<1>1. PICK N : N = Cardinality(AtLeastScore(predictions, 1..r, t))
  OBVIOUS
<1>2. PICK full : full = MatchImage(truth, predictions, 0)
  OBVIOUS
<1>3. PICK cut : cut = MatchImage(truth, predictions, t)
  OBVIOUS
<1>4. Prefix(n, predictions, r, t, full, N, cut) /\ N \in Nat
  <2>1. Prefix(n, predictions, r, t, full, N, cut)
    BY <1>1, <1>2, <1>3, MatchingCut
  <2> QED
    BY <2>1 DEF Prefix
<1>5. MatchesAt(Board(truth, predictions), t) =
         Picked(full, {k \in DOMAIN full : predictions[full[k].prediction].score >= t})
  BY <1>2 DEF MatchesAt, Board
<1>6. {k \in DOMAIN full : predictions[full[k].prediction].score >= t} = 1..N
  <2>1. DOMAIN full = 1..r
    BY <1>4 DEF Prefix
  <2>2. 1..N \in SUBSET (1..r)
    BY <1>4 DEF Prefix
  <2> QED
    BY <1>4, <2>1, <2>2 DEF Prefix
<1>7. Picked(full, 1..N) = [k \in 1..N |-> full[k]]
  BY <1>4, PickedFirst DEF Prefix
<1>8. cut = [k \in 1..N |-> full[k]]
  <2>1. cut = [k \in 1..N |-> cut[k]]
    BY <1>4 DEF Prefix
  <2> QED
    BY <1>4, <2>1 DEF Prefix
<1> QED
  BY <1>3, <1>5, <1>6, <1>7, <1>8

-----------------------------------------------------------------------------
(* Hits and misses counted *)

\* The pairs <<b, y>> with y in F[b].
Pairs(m, F) == UNION {{b} \X F[b] : b \in 1..m}

LEMMA InPairs ==
    ASSUME NEW m, NEW F, NEW b \in 1..m, NEW y
    PROVE  <<b, y>> \in Pairs(m, F) <=> y \in F[b]
BY DEF Pairs

LEMMA PairsIn ==
    ASSUME NEW m, NEW F, NEW x \in Pairs(m, F)
    PROVE  \E b \in 1..m : \E y \in F[b] : x = <<b, y>>
BY DEF Pairs

LEMMA PairsFinite ==
    ASSUME NEW m \in Nat, NEW F, \A b \in 1..m : IsFiniteSet(F[b])
    PROVE  IsFiniteSet(Pairs(m, F))
<1> DEFINE f == [b \in 1..m |-> {b} \X F[b]]
<1>1. ASSUME NEW b \in 1..m
      PROVE  IsFiniteSet(f[b])
  <2>1. IsFiniteSet({b}) /\ IsFiniteSet(F[b])
    BY FS_Singleton
  <2> QED
    BY <2>1, FS_Product
<1>2. f \in [1..m -> {f[b] : b \in 1..m}]
  OBVIOUS
<1>3. Pairs(m, F) = UNION {f[b] : b \in 1..m}
  BY DEF Pairs
<1> HIDE DEF f
<1>4. PICK S : f \in [1..m -> S]
  BY <1>2
<1>5. \A b \in 1..m : IsFiniteSet(f[b])
  BY <1>1
<1>6. IsFiniteSet(UNION {f[b] : b \in 1..m})
  BY <1>4, <1>5, FiniteUnion
<1> QED
  BY <1>3, <1>6

\* The matching of every board, which has n[b] labels.
Matchings(m, n, M) ==
    \A b \in 1..m : /\ n[b] \in Nat
                    /\ \E order : \E N \in Nat : Matched(n[b], order, N, M[b])

HitsOf(m, M)      == [b \in 1..m |-> Hits(M[b])]
TakenOf(m, M)     == [b \in 1..m |-> Taken(M[b])]
\* The labels nobody took, image by image.
MissedOf(m, n, M) == [b \in 1..m |-> (1..n[b]) \ Taken(M[b])]
LabelsOf(m, n)    == [b \in 1..m |-> 1..n[b]]

\* The hits of a board and the labels it has taken go in pairs.
PairedOff(n, matches) ==
    /\ Taken(matches) \in SUBSET (1..n)
    /\ \A k \in Hits(matches) : matches[k].label \in Taken(matches)
    /\ \A label \in Taken(matches) : \E k \in Hits(matches) : matches[k].label = label
    /\ \A j, k \in Hits(matches) : matches[j].label = matches[k].label => j = k

\* Each match takes a label of its own.
LEMMA HitsTake ==
    ASSUME NEW n \in Nat, NEW order, NEW N \in Nat, NEW matches, Matched(n, order, N, matches)
    PROVE  PairedOff(n, matches)
<1>1. matches \in Seq(MatchRows(n)) /\ DOMAIN matches = 1..N
  BY DEF Matched
<1>2. \A k \in 1..N : /\ matches[k] \in MatchRows(n) /\ matches[k].label \in 0..n
                      /\ matches[k].outcome = "matched" <=> matches[k].label # NoLabel
  <2> TAKE k \in 1..N
  <2>1. matches[k] \in MatchRows(n)
    BY <1>1
  <2> QED
    BY <2>1 DEF Matched, MatchRows
<1>3. \A k \in 1..N : k \in Hits(matches) <=> matches[k].label # NoLabel
  BY <1>1, <1>2 DEF Hits
<1>4. Hits(matches) \in SUBSET (1..N)
  BY <1>1 DEF Hits
<1>5. Taken(matches) = {matches[k].label : k \in 1..N} \ {NoLabel}
  <2>1. {x.label : x \in {matches[k] : k \in DOMAIN matches}} = {matches[k].label : k \in DOMAIN matches}
    OBVIOUS
  <2> QED
    BY <1>1, <2>1 DEF Taken
<1>6. ASSUME NEW j \in Hits(matches), NEW k \in Hits(matches), matches[j].label = matches[k].label
      PROVE  j = k
  <2>1. j \in 1..N /\ k \in 1..N /\ matches[j].label # NoLabel /\ matches[k].label # NoLabel
    BY <1>3, <1>4
  <2>2. j < k \/ j = k \/ k < j
    BY <2>1
  <2> QED
    BY <1>6, <2>1, <2>2 DEF Matched
<1>7. Taken(matches) \in SUBSET (1..n)
  <2>1. \A x \in 0..n : x # NoLabel => x \in 1..n
    BY DEF NoLabel
  <2> QED
    BY <1>2, <1>5, <2>1
<1>8. \A k \in Hits(matches) : matches[k].label \in Taken(matches)
  BY <1>3, <1>4, <1>5
<1>9. \A label \in Taken(matches) : \E k \in Hits(matches) : matches[k].label = label
  BY <1>3, <1>5
<1> QED
  BY <1>6, <1>7, <1>8, <1>9 DEF PairedOff

\* Labels missed are labels less labels hit.
LEMMA HitsCounted ==
    ASSUME NEW m \in Nat, NEW n, NEW M, Matchings(m, n, M)
    PROVE  /\ Cardinality(Pairs(m, LabelsOf(m, n))) \in Nat
           /\ Cardinality(Pairs(m, HitsOf(m, M))) \in Nat
           /\ Cardinality(Pairs(m, MissedOf(m, n, M))) \in Nat
           /\ Cardinality(Pairs(m, MissedOf(m, n, M)))
                = Cardinality(Pairs(m, LabelsOf(m, n))) - Cardinality(Pairs(m, HitsOf(m, M)))
<1> DEFINE labels == Pairs(m, LabelsOf(m, n))
           hits   == Pairs(m, HitsOf(m, M))
           taken  == Pairs(m, TakenOf(m, M))
           missed == Pairs(m, MissedOf(m, n, M))
           f      == [h \in hits |-> <<h[1], M[h[1]][h[2]].label>>]
<1>1. \A b \in 1..m : /\ n[b] \in Nat /\ Taken(M[b]) \in SUBSET (1..n[b])
                      /\ \A k \in Hits(M[b]) : M[b][k].label \in Taken(M[b])
                      /\ \A label \in Taken(M[b]) : \E k \in Hits(M[b]) : M[b][k].label = label
                      /\ \A j, k \in Hits(M[b]) : M[b][j].label = M[b][k].label => j = k
  <2> TAKE b \in 1..m
  <2>1. PICK order : \E N \in Nat : Matched(n[b], order, N, M[b])
    BY DEF Matchings
  <2>2. PICK N \in Nat : Matched(n[b], order, N, M[b])
    BY <2>1
  <2>3. PICK count \in Nat : count = n[b]
    BY DEF Matchings
  <2>4. PICK matches : matches = M[b]
    OBVIOUS
  <2>5. Matched(count, order, N, matches)
    BY <2>2, <2>3, <2>4
  <2>6. PairedOff(count, matches)
    BY <2>5, HitsTake
  <2> QED
    BY <2>3, <2>4, <2>6 DEF PairedOff
<1>2. IsFiniteSet(labels)
  <2>1. ASSUME NEW b \in 1..m
        PROVE  IsFiniteSet(LabelsOf(m, n)[b])
    BY <1>1, FS_Interval DEF LabelsOf
  <2> QED
    BY <2>1, PairsFinite
<1>3. taken \in SUBSET labels
  BY <1>1, PairsIn, InPairs DEF TakenOf, LabelsOf, Pairs
<1>4. missed = labels \ taken
  <2>1. \A b \in 1..m : {b} \X MissedOf(m, n, M)[b] = ({b} \X LabelsOf(m, n)[b]) \ ({b} \X TakenOf(m, M)[b])
    BY DEF MissedOf, LabelsOf, TakenOf
  <2>2. ASSUME NEW x
        PROVE  x \in missed <=> x \in labels \ taken
    BY DEF Pairs, MissedOf, LabelsOf, TakenOf
  <2> QED
    BY <2>2
<1>5. \A h \in hits : /\ h[1] \in 1..m /\ h[2] \in Hits(M[h[1]]) /\ h = <<h[1], h[2]>>
  BY DEF Pairs, HitsOf
<1>6. f \in Bijection(hits, taken)
  <2> HIDE DEF hits, taken
  <2>1. \A h \in hits : <<h[1], M[h[1]][h[2]].label>> \in taken
    BY <1>1, <1>5, InPairs DEF TakenOf, taken
  <2>2. f \in [hits -> taken]
    BY <2>1
  <2>3. \A g, h \in hits : f[g] = f[h] => g = h
    <3> SUFFICES ASSUME NEW g \in hits, NEW h \in hits, f[g] = f[h]
                 PROVE  g = h
      OBVIOUS
    <3>1. g[1] = h[1] /\ M[g[1]][g[2]].label = M[h[1]][h[2]].label
      OBVIOUS
    <3> QED
      BY <1>1, <1>5, <3>1
  <2>4. \A x \in taken : \E h \in hits : f[h] = x
    <3> TAKE x \in taken
    <3>1. PICK b \in 1..m : \E y \in Taken(M[b]) : x = <<b, y>>
      BY PairsIn DEF taken, TakenOf
    <3>2. PICK y \in Taken(M[b]) : x = <<b, y>>
      BY <3>1
    <3>3. PICK k \in Hits(M[b]) : M[b][k].label = y
      BY <1>1
    <3>4. <<b, k>> \in hits
      BY InPairs DEF hits, HitsOf
    <3> QED
      BY <3>2, <3>3, <3>4
  <2> HIDE DEF f
  <2> QED
    BY <2>2, <2>3, <2>4 DEF Bijection, Injection, IsInjective, Surjection
<1> HIDE DEF labels, hits, taken, missed, f
<1>7. IsFiniteSet(taken)
  BY <1>2, <1>3, FS_Subset
<1>8. IsFiniteSet(hits) /\ Cardinality(hits) = Cardinality(taken)
  <2>1. f \in Injection(hits, taken) /\ f \in Surjection(hits, taken)
    BY <1>6 DEF Bijection
  <2> QED
    BY <1>7, <2>1, FS_Injection
<1>9. IsFiniteSet(missed) /\ Cardinality(missed) = Cardinality(labels) - Cardinality(labels \cap taken)
  BY <1>2, <1>4, FS_Difference
<1>10. labels \cap taken = taken
  BY <1>3
<1> QED
  BY <1>2, <1>8, <1>9, <1>10, FS_CardinalityType DEF labels, hits, missed

-----------------------------------------------------------------------------
(* The points of the audit and of the frontier *)

\* Boards as the code prepares them: n[b] labels, r[b] predictions, matched without a threshold.
WellMade(boards, m, n, r) ==
    /\ m \in Nat /\ DOMAIN boards = 1..m
    /\ \A b \in 1..m : /\ n[b] \in Nat /\ DOMAIN boards[b].truth = 1..n[b]
                       /\ r[b] \in Nat /\ Scored(boards[b].predictions, r[b])
                       /\ \A i \in 1..r[b] : boards[b].predictions[i].score <= 100
                       /\ boards[b] = Board(boards[b].truth, boards[b].predictions)

\* The matchings of all boards at a threshold.
Cut(boards, t) == [b \in DOMAIN boards |->
                      MatchImage(boards[b].truth, boards[b].predictions, t)]

\* At every board, the cut is a prefix of the matches and takes labels one by one.
CutsWell(boards, m, n, r, t) ==
    \A b \in 1..m :
        \E N \in Nat : /\ Prefix(n[b], boards[b].predictions, r[b], t, boards[b].matches, N,
                                 Cut(boards, t)[b])
                       /\ \E order : Matched(n[b], order, N, Cut(boards, t)[b])

\* Every board's matching at a threshold is the beginning of its matching at zero.
LEMMA BoardsAreCut ==
    ASSUME NEW boards, NEW m, NEW n, NEW r, WellMade(boards, m, n, r), NEW t \in Nat
    PROVE  CutsWell(boards, m, n, r, t)
<1> SUFFICES ASSUME NEW b \in 1..m
             PROVE  \E N \in Nat : /\ Prefix(n[b], boards[b].predictions, r[b], t, boards[b].matches,
                                             N, Cut(boards, t)[b])
                                   /\ \E order : Matched(n[b], order, N, Cut(boards, t)[b])
  BY DEF CutsWell
<1>1. PICK count \in Nat : count = n[b]
  BY DEF WellMade
<1>2. PICK rows \in Nat : rows = r[b]
  BY DEF WellMade
<1>3. PICK truth : truth = boards[b].truth
  OBVIOUS
<1>4. PICK predictions : predictions = boards[b].predictions
  OBVIOUS
<1>5. DOMAIN truth = 1..count /\ Scored(predictions, rows)
  BY <1>1, <1>2, <1>3, <1>4 DEF WellMade
<1>6. boards[b].matches = MatchImage(truth, predictions, 0)
  BY <1>3, <1>4 DEF WellMade, Board
<1>7. Cut(boards, t)[b] = MatchImage(truth, predictions, t)
  BY <1>3, <1>4 DEF WellMade, Cut
<1>8. PICK N : N = Cardinality(AtLeastScore(predictions, 1..rows, t))
  OBVIOUS
<1>9. Prefix(count, predictions, rows, t, MatchImage(truth, predictions, 0), N,
             MatchImage(truth, predictions, t))
  BY <1>5, <1>8, MatchingCut
<1>10. GoesThrough(count, truth, predictions, Retained(predictions, t), N,
                   MatchImage(truth, predictions, t))
  BY <1>5, <1>8, MatchImageIs
<1>11. N \in Nat /\ Matched(count, Retained(predictions, t), N, MatchImage(truth, predictions, t))
  BY <1>10 DEF GoesThrough
<1> QED
  BY <1>1, <1>2, <1>4, <1>6, <1>7, <1>9, <1>11

\* The audit's counts at a threshold are those of matching at it.
LEMMA PointIsProfile ==
    ASSUME NEW boards, NEW m, NEW n, NEW r, WellMade(boards, m, n, r), NEW t \in Nat
    PROVE  Point(boards, t).counts = Profile(boards, t)
<1>1. ASSUME NEW b \in DOMAIN boards
      PROVE  MatchesAt(boards[b], t) = MatchImage(boards[b].truth, boards[b].predictions, t)
  <2>1. PICK truth : truth = boards[b].truth
    OBVIOUS
  <2>2. PICK predictions : predictions = boards[b].predictions
    OBVIOUS
  <2>3. PICK count \in Nat : DOMAIN truth = 1..count
    BY <2>1 DEF WellMade
  <2>4. PICK rows \in Nat : Scored(predictions, rows)
    BY <2>2 DEF WellMade
  <2>5. MatchesAt(Board(truth, predictions), t) = MatchImage(truth, predictions, t)
    BY <2>3, <2>4, MatchesAtIs
  <2>6. boards[b] = Board(truth, predictions)
    BY <2>1, <2>2 DEF WellMade
  <2> QED
    BY <2>1, <2>2, <2>5, <2>6
<1>2. [b \in DOMAIN boards |-> MatchesAt(boards[b], t)]
        = [b \in DOMAIN boards |-> MatchImage(boards[b].truth, boards[b].predictions, t)]
  BY <1>1
<1>3. Point(boards, t).counts = Counts(boards, [b \in DOMAIN boards |-> MatchesAt(boards[b], t)])
  BY DEF Point
<1> QED
  BY <1>2, <1>3 DEF Profile

\* The rows of all boards, and when one of them comes before another.
AllRows(boards) == UNION {{<<b, k>> : k \in DOMAIN boards[b].matches} : b \in DOMAIN boards}

RowBefore(boards, x, y) ==
    \/ RowScore(boards, x) > RowScore(boards, y)
    \/ /\ RowScore(boards, x) = RowScore(boards, y)
       /\ \/ x[1] < y[1]
          \/ x[1] = y[1] /\ x[2] < y[2]

\* The rows that come before row x.
EarlierRows(boards, x) == {y \in AllRows(boards) : RowBefore(boards, y, x)}

\* SweepRows lists every row, each after as many as come before it.
LEMMA SweepRowsAre ==
    ASSUME NEW boards, IsFiniteSet(AllRows(boards)),
           \A x \in AllRows(boards) : x[1] \in Nat /\ x[2] \in Nat /\ x = <<x[1], x[2]>>
                                      /\ RowScore(boards, x) \in Nat
    PROVE  /\ DOMAIN SweepRows(boards) = 1..Cardinality(AllRows(boards))
           /\ Cardinality(AllRows(boards)) \in Nat
           /\ \A k \in DOMAIN SweepRows(boards) :
                 /\ SweepRows(boards)[k] \in AllRows(boards)
                 /\ Cardinality(EarlierRows(boards, SweepRows(boards)[k])) = k - 1
           /\ \A x \in AllRows(boards) :
                 /\ Cardinality(EarlierRows(boards, x)) + 1 \in DOMAIN SweepRows(boards)
                 /\ SweepRows(boards)[Cardinality(EarlierRows(boards, x)) + 1] = x
           /\ \A x, y \in AllRows(boards) : RowBefore(boards, x, y) =>
                 Cardinality(EarlierRows(boards, x)) < Cardinality(EarlierRows(boards, y))
<1>1. PICK S : S = AllRows(boards)
  OBVIOUS
<1>2. PICK R : R = {p \in S \X S : RowBefore(boards, p[1], p[2])}
  OBVIOUS
<1>3. \A x, y \in S : <<x, y>> \in R <=> RowBefore(boards, x, y)
  BY <1>2
<1>4. IsFiniteSet(S) /\ \A x \in S : /\ x[1] \in Nat /\ x[2] \in Nat /\ x = <<x[1], x[2]>>
                                     /\ RowScore(boards, x) \in Nat
  BY <1>1
<1>5. TotalOrder(S, R)
  <2>1. \A x \in S : <<x, x>> \notin R
    BY <1>3, <1>4 DEF RowBefore
  <2>2. ASSUME NEW x \in S, NEW y \in S, NEW z \in S, <<x, y>> \in R, <<y, z>> \in R
        PROVE  <<x, z>> \in R
    <3>1. RowBefore(boards, x, y) /\ RowBefore(boards, y, z)
      BY <1>3, <2>2
    <3>2. RowBefore(boards, x, z)
      BY <1>4, <3>1 DEF RowBefore
    <3> QED
      BY <1>3, <3>2
  <2>3. ASSUME NEW x \in S, NEW y \in S
        PROVE  x = y \/ <<x, y>> \in R \/ <<y, x>> \in R
    <3>1. x = <<x[1], x[2]>> /\ y = <<y[1], y[2]>>
      BY <1>4
    <3>2. x[1] = y[1] /\ x[2] = y[2] => x = y
      BY <3>1
    <3>3. x = y \/ RowBefore(boards, x, y) \/ RowBefore(boards, y, x)
      BY <1>4, <3>2 DEF RowBefore
    <3> QED
      BY <1>3, <3>3
  <2> QED
    BY <2>1, <2>2, <2>3 DEF TotalOrder
<1>6. \A x \in S : EarlierRows(boards, x) = Less(S, R, x)
  BY <1>1, <1>3 DEF EarlierRows, Less
<1>7. SweepRows(boards) = [k \in 1..Cardinality(S) |->
                        CHOOSE x \in S : Cardinality(EarlierRows(boards, x)) = k - 1]
  BY <1>1 DEF SweepRows, AllRows, EarlierRows, RowBefore
<1>8. SweepRows(boards) = Enumeration(S, R)
  BY <1>6, <1>7 DEF Enumeration
<1>9. Enumerates(S, R, SweepRows(boards))
  BY <1>4, <1>5, <1>8, EnumerationIs
<1> QED
  BY <1>1, <1>3, <1>6, <1>9 DEF Enumerates

\* The sweep stops at the first row below t, and as the rows are in order it has passed
\* all that reach t.
LEMMA RowsAtAre ==
    ASSUME NEW boards, NEW t \in Nat, IsFiniteSet(AllRows(boards)),
           \A x \in AllRows(boards) : x[1] \in Nat /\ x[2] \in Nat /\ x = <<x[1], x[2]>>
                                      /\ RowScore(boards, x) \in Nat
    PROVE  RowsAt(boards, t) = {x \in AllRows(boards) : RowScore(boards, x) >= t}
<1> DEFINE rank(x) == Cardinality(EarlierRows(boards, x))
           passed == {k \in DOMAIN SweepRows(boards) :
                        \A j \in 1..k : RowScore(boards, SweepRows(boards)[j]) >= t}
<1>1. PICK N \in Nat : N = Cardinality(AllRows(boards)) /\ DOMAIN SweepRows(boards) = 1..N
  BY SweepRowsAre
<1>2. \A k \in 1..N : SweepRows(boards)[k] \in AllRows(boards) /\ rank(SweepRows(boards)[k]) = k - 1
  BY <1>1, SweepRowsAre
<1>3. \A x \in AllRows(boards) : rank(x) + 1 \in 1..N /\ SweepRows(boards)[rank(x) + 1] = x
  BY <1>1, SweepRowsAre
<1>4. \A x, y \in AllRows(boards) : RowBefore(boards, x, y) => rank(x) < rank(y)
  BY SweepRowsAre
<1>5. RowsAt(boards, t) = {SweepRows(boards)[k] : k \in passed}
  BY DEF RowsAt
<1>6. \A x \in AllRows(boards) : rank(x) \in Nat
  <2> TAKE x \in AllRows(boards)
  <2>1. IsFiniteSet(EarlierRows(boards, x))
    <3>1. EarlierRows(boards, x) \in SUBSET AllRows(boards)
      BY DEF EarlierRows
    <3> QED
      BY <3>1, FS_Subset
  <2> QED
    BY <2>1, FS_CardinalityType
<1> HIDE DEF rank
<1>7. ASSUME NEW x \in AllRows(boards), RowScore(boards, x) >= t
      PROVE  rank(x) + 1 \in passed
  <2> SUFFICES ASSUME NEW j \in 1..(rank(x) + 1)
               PROVE  RowScore(boards, SweepRows(boards)[j]) >= t
    BY <1>1, <1>3
  <2>1. j \in 1..N /\ j - 1 <= rank(x)
    BY <1>3, <1>6
  <2>2. PICK y \in AllRows(boards) : y = SweepRows(boards)[j] /\ rank(y) <= rank(x)
    BY <1>2, <2>1
  <2>3. ~ RowBefore(boards, x, y)
    BY <1>4, <1>6, <2>2
  <2>4. RowScore(boards, x) \in Nat /\ RowScore(boards, y) \in Nat
    OBVIOUS
  <2>5. ~ (RowScore(boards, x) > RowScore(boards, y))
    BY <2>3 DEF RowBefore
  <2> QED
    BY <1>7, <2>2, <2>4, <2>5
<1>8. ASSUME NEW k \in passed
      PROVE  SweepRows(boards)[k] \in AllRows(boards) /\ RowScore(boards, SweepRows(boards)[k]) >= t
  <2>1. k \in 1..N /\ k \in 1..k
    BY <1>1
  <2> QED
    BY <1>2, <2>1
<1> HIDE DEF passed
<1> QED
  BY <1>3, <1>5, <1>7, <1>8

\* Every match of a board is of a prediction of its own, which has a score.
LEMMA MatchesScored ==
    ASSUME NEW boards, NEW m, NEW n, NEW r, WellMade(boards, m, n, r), NEW b \in 1..m
    PROVE  /\ DOMAIN boards[b].matches = 1..r[b]
           /\ \A k \in DOMAIN boards[b].matches :
                 boards[b].predictions[boards[b].matches[k].prediction].score \in Nat
<1>1. PICK count \in Nat : count = n[b]
  BY DEF WellMade
<1>2. PICK rows \in Nat : rows = r[b]
  BY DEF WellMade
<1>3. PICK truth : truth = boards[b].truth
  OBVIOUS
<1>4. PICK predictions : predictions = boards[b].predictions
  OBVIOUS
<1>5. DOMAIN truth = 1..count /\ Scored(predictions, rows)
  BY <1>1, <1>2, <1>3, <1>4 DEF WellMade
<1>6. PICK matches : matches = MatchImage(truth, predictions, 0)
  OBVIOUS
<1>7. boards[b].matches = matches
  BY <1>3, <1>4, <1>6 DEF WellMade, Board
<1>8. PICK T : T = AtLeastScore(predictions, 1..rows, 0)
  OBVIOUS
<1>9. T = 1..rows /\ Cardinality(T) = rows
  <2>1. T = 1..rows
    BY <1>5, <1>8 DEF AtLeastScore, Scored
  <2> QED
    BY <2>1, FS_Interval
<1>10. GoesThrough(count, truth, predictions, Retained(predictions, 0), rows, matches)
  BY <1>5, <1>6, <1>8, <1>9, MatchImageIs
<1>11. Retains(predictions, 0, T)
  BY <1>5, <1>8, RetainedIs
<1>12. PICK order : order = Retained(predictions, 0)
  OBVIOUS
<1>13. order \in [1..rows -> 1..rows]
  BY <1>9, <1>11, <1>12 DEF Retains
<1>14. Matched(count, order, rows, matches)
  BY <1>10, <1>12 DEF GoesThrough
<1>15. DOMAIN matches = 1..rows /\ \A k \in 1..rows : matches[k].prediction = order[k]
  BY <1>14 DEF Matched
<1>16. ASSUME NEW k \in 1..rows
       PROVE  predictions[matches[k].prediction].score \in Nat
  <2>1. matches[k].prediction \in 1..rows
    BY <1>13, <1>15
  <2> QED
    BY <1>5, <2>1 DEF Scored
<1> QED
  BY <1>2, <1>4, <1>7, <1>15, <1>16

\* So the rows of all boards can be put in order.
LEMMA RowsScored ==
    ASSUME NEW boards, NEW m, NEW n, NEW r, WellMade(boards, m, n, r)
    PROVE  /\ IsFiniteSet(AllRows(boards))
           /\ \A x \in AllRows(boards) : /\ x[1] \in Nat /\ x[2] \in Nat /\ x = <<x[1], x[2]>>
                                          /\ RowScore(boards, x) \in Nat
<1> DEFINE F == [b \in 1..m |-> 1..r[b]]
<1>1. /\ m \in Nat /\ DOMAIN boards = 1..m
      /\ \A b \in 1..m : r[b] \in Nat /\ DOMAIN boards[b].matches = 1..r[b]
  <2>1. m \in Nat /\ DOMAIN boards = 1..m /\ \A b \in 1..m : r[b] \in Nat
    BY DEF WellMade
  <2>2. \A b \in 1..m : DOMAIN boards[b].matches = 1..r[b]
    BY MatchesScored
  <2> QED
    BY <2>1, <2>2
<1>2. AllRows(boards) = Pairs(m, F)
  <2>1. \A b \in 1..m : {<<b, k>> : k \in DOMAIN boards[b].matches} = {b} \X F[b]
    BY <1>1
  <2> QED
    BY <1>1, <2>1 DEF AllRows, Pairs
<1>3. IsFiniteSet(Pairs(m, F))
  <2>1. \A b \in 1..m : IsFiniteSet(F[b])
    BY <1>1, FS_Interval
  <2> HIDE DEF F
  <2> QED
    BY <1>1, <2>1, PairsFinite
<1>4. ASSUME NEW x \in AllRows(boards)
      PROVE  /\ x[1] \in Nat /\ x[2] \in Nat /\ x = <<x[1], x[2]>>
             /\ RowScore(boards, x) \in Nat
  <2>1. PICK b \in 1..m : \E k \in DOMAIN boards[b].matches : x = <<b, k>>
    BY <1>1 DEF AllRows
  <2>2. PICK k \in DOMAIN boards[b].matches : x = <<b, k>>
    BY <2>1
  <2>3. b \in Nat /\ k \in Nat
    BY <1>1
  <2>4. boards[b].predictions[boards[b].matches[k].prediction].score \in Nat
    BY MatchesScored
  <2> QED
    BY <2>2, <2>3, <2>4 DEF RowScore
<1> QED
  BY <1>2, <1>3, <1>4

\* The rows the sweep has passed at t are those of the matching cut at t.
LEMMA SweepIsCut ==
    ASSUME NEW boards, NEW m, NEW n, NEW r, WellMade(boards, m, n, r), NEW t \in Nat
    PROVE  /\ RowsAt(boards, t) = UNION {{b} \X DOMAIN Cut(boards, t)[b] : b \in DOMAIN boards}
           /\ {x \in RowsAt(boards, t) : boards[x[1]].matches[x[2]].outcome = "matched"}
                = UNION {{b} \X Hits(Cut(boards, t)[b]) : b \in DOMAIN boards}
<1>1. PICK M : M = Cut(boards, t)
  OBVIOUS
<1>2. ASSUME NEW b \in DOMAIN boards
      PROVE  /\ \A k : k \in DOMAIN M[b] <=>
                         /\ k \in DOMAIN boards[b].matches
                         /\ boards[b].predictions[boards[b].matches[k].prediction].score >= t
             /\ \A k \in DOMAIN M[b] : M[b][k] = boards[b].matches[k]
  <2>1. CutsWell(boards, m, n, r, t) /\ b \in 1..m
    BY BoardsAreCut DEF WellMade
  <2>2. PICK N \in Nat : Prefix(n[b], boards[b].predictions, r[b], t, boards[b].matches, N, M[b])
    BY <1>1, <2>1 DEF CutsWell
  <2>3. PICK rows \in Nat : rows = r[b]
    BY <2>1 DEF WellMade
  <2>4. DOMAIN M[b] = 1..N /\ DOMAIN boards[b].matches = 1..rows /\ N <= rows
    BY <2>2, <2>3 DEF Prefix
  <2>5. \A k \in 1..N : k \in 1..rows /\ M[b][k] = boards[b].matches[k]
    BY <2>2, <2>4 DEF Prefix
  <2>6. \A k \in 1..rows : boards[b].predictions[boards[b].matches[k].prediction].score >= t
                             <=> k \in 1..N
    BY <2>2, <2>3 DEF Prefix
  <2> QED
    BY <2>4, <2>5, <2>6
<1>3. ASSUME NEW x
      PROVE  x \in RowsAt(boards, t) <=> \E b \in DOMAIN boards : \E k \in DOMAIN M[b] : x = <<b, k>>
  <2>1. x \in RowsAt(boards, t) <=>
           \E b \in DOMAIN boards : \E k \in DOMAIN boards[b].matches :
              /\ x = <<b, k>>
              /\ boards[b].predictions[boards[b].matches[k].prediction].score >= t
    <3>1. RowsAt(boards, t) = {y \in AllRows(boards) : RowScore(boards, y) >= t}
      <4>1. /\ IsFiniteSet(AllRows(boards))
            /\ \A y \in AllRows(boards) : /\ y[1] \in Nat /\ y[2] \in Nat /\ y = <<y[1], y[2]>>
                                           /\ RowScore(boards, y) \in Nat
        BY RowsScored
      <4> QED
        BY <4>1, RowsAtAre
    <3>2. x \in AllRows(boards) <=>
             \E b \in DOMAIN boards : \E k \in DOMAIN boards[b].matches : x = <<b, k>>
      BY DEF AllRows
    <3> QED
      BY <3>1, <3>2 DEF RowScore
  <2> QED
    BY <1>2, <2>1
<1>4. RowsAt(boards, t) = UNION {{b} \X DOMAIN M[b] : b \in DOMAIN boards}
  BY <1>3
<1>5. ASSUME NEW x
      PROVE  x \in {y \in RowsAt(boards, t) : boards[y[1]].matches[y[2]].outcome = "matched"}
               <=> \E b \in DOMAIN boards : \E k \in Hits(M[b]) : x = <<b, k>>
  <2>1. \A b \in DOMAIN boards : \A k :
           k \in Hits(M[b]) <=> k \in DOMAIN M[b] /\ boards[b].matches[k].outcome = "matched"
    BY <1>2 DEF Hits
  <2> QED
    BY <1>3, <2>1
<1>6. {y \in RowsAt(boards, t) : boards[y[1]].matches[y[2]].outcome = "matched"}
         = UNION {{b} \X Hits(M[b]) : b \in DOMAIN boards}
  BY <1>5
<1> QED
  BY <1>1, <1>4, <1>6

\* So are those of the operating frontier.
LEMMA FrontierIsProfile ==
    ASSUME NEW boards, NEW m, NEW n, NEW r, WellMade(boards, m, n, r), NEW t \in Nat
    PROVE  LET p == FrontierPoint(boards, t)
           IN  [tp |-> p.tp, fp |-> p.fp, fn |-> p.fn] = Profile(boards, t)
<1> DEFINE M == Cut(boards, t)
           rows == RowsAt(boards, t)
           matched == {x \in rows : boards[x[1]].matches[x[2]].outcome = "matched"}
           labels == UNION {{b} \X DOMAIN boards[b].truth : b \in DOMAIN boards}
           hits == UNION {{b} \X Hits(M[b]) : b \in DOMAIN boards}
           alarms == UNION {{b} \X (DOMAIN M[b] \ Hits(M[b])) : b \in DOMAIN boards}
           missed == UNION {{b} \X (DOMAIN boards[b].truth \ Taken(M[b])) : b \in DOMAIN boards}
<1>1. Profile(boards, t) = [tp |-> Cardinality(hits), fp |-> Cardinality(alarms), fn |-> Cardinality(missed)]
  BY DEF Profile, Counts, Cut
<1>2. /\ FrontierPoint(boards, t).tp = Cardinality(matched)
      /\ FrontierPoint(boards, t).fp = Cardinality(rows \ matched)
      /\ FrontierPoint(boards, t).fn = Cardinality(labels) - Cardinality(matched)
  BY DEF FrontierPoint
<1>3. rows = UNION {{b} \X DOMAIN M[b] : b \in DOMAIN boards} /\ matched = hits
  BY SweepIsCut
<1>4. rows \ matched = alarms
  <2>1. ASSUME NEW x
        PROVE  x \in rows \ matched <=> x \in alarms
    BY <1>3
  <2> QED
    BY <2>1
<1>5. DOMAIN boards = 1..m /\ m \in Nat
  BY DEF WellMade
<1>6. hits = Pairs(m, HitsOf(m, M))
  BY <1>5 DEF Pairs, HitsOf
<1>7. labels = Pairs(m, LabelsOf(m, n)) /\ missed = Pairs(m, MissedOf(m, n, M))
  <2>1. \A b \in 1..m : DOMAIN boards[b].truth = 1..n[b]
    BY DEF WellMade
  <2> QED
    BY <1>5, <2>1 DEF Pairs, LabelsOf, MissedOf
<1>8. Matchings(m, n, M)
  <2>1. CutsWell(boards, m, n, r, t)
    BY BoardsAreCut
  <2> QED
    BY <2>1 DEF CutsWell, Matchings, WellMade
<1> HIDE DEF M, rows, matched, labels, hits, alarms, missed
<1>9. Cardinality(missed) = Cardinality(labels) - Cardinality(hits)
  BY <1>5, <1>6, <1>7, <1>8, HitsCounted
<1> QED
  BY <1>1, <1>2, <1>3, <1>4, <1>9

-----------------------------------------------------------------------------
(* What inference predicts *)

\* What is left of rows after suppression are some of the rows.
LEMMA NonMaximumIs ==
    ASSUME NEW Y, \A y \in Y : y.score \in Nat, NEW rows \in Seq(Y)
    PROVE  NonMaximum(rows) \in Seq(Y)
<1>1. PICK r \in Nat : r = Len(rows) /\ DOMAIN rows = 1..r
  OBVIOUS
<1>2. \A i \in 1..r : rows[i].score \in Nat
  <2> TAKE i \in 1..r
  <2>1. rows[i] \in Y
    BY <1>1
  <2> QED
    BY <2>1
<1>3. PICK S : S = 1..r
  OBVIOUS
<1>4. PICK order : order = ByScore(rows, S)
  OBVIOUS
<1>5. S \in SUBSET (1..r)
  BY <1>3
<1>6. Sorted(rows, S, order)
  BY <1>2, <1>4, <1>5, ByScoreIs
<1>7. PICK N : N = Cardinality(S)
  OBVIOUS
<1>8. N \in Nat
  BY <1>5, <1>7, PartFinite
<1>9. Len(order) = N /\ order \in [1..N -> S]
  BY <1>6, <1>7 DEF Sorted
<1> DEFINE X == Seq(Y)
           Covers(a, b) == LET o == Overlap(a.box, b.box)
                           IN  a.category = b.category /\ 2 * o.inter > o.union
           Next_(kept, next) == IF \E i \in DOMAIN kept : Covers(kept[i], next) THEN kept
                                ELSE Append(kept, next)
           Runs(f) == f = [k \in 0..N |-> IF k = 0 THEN <<>> ELSE Next_(f[k - 1], rows[order[k]])]
           upTo == CHOOSE f : Runs(f)
           G == [k \in 1..N |-> [s \in X |-> Next_(s, rows[order[k]])]]
<1>10. NonMaximum(rows) = upTo[N]
  <2>1. DOMAIN rows = S /\ Len(order) = N
    BY <1>1, <1>3, <1>9
  <2> QED
    BY <1>4, <2>1 DEF NonMaximum
<1> HIDE DEF Covers
<1>11. ASSUME NEW k \in 1..N, NEW s \in X
       PROVE  Next_(s, rows[order[k]]) \in X
  <2>1. rows[order[k]] \in Y
    BY <1>1, <1>3, <1>9
  <2> QED
    BY <2>1
<1>12. <<>> \in X
  OBVIOUS
<1> HIDE DEF X, Next_
<1>13. G \in [1..N -> [X -> X]]
  BY <1>11
<1>14. Iterates(N, X, <<>>, G)
  <2> HIDE DEF G
  <2> QED
    BY <1>8, <1>12, <1>13, RecursionExists
<1>15. PICK f \in [0..N -> X] : f[0] = <<>> /\ \A k \in 1..N : f[k] = G[k][f[k - 1]]
  BY <1>14 DEF Iterates
<1>16. \A k \in 1..N : f[k - 1] \in X /\ f[k] = Next_(f[k - 1], rows[order[k]])
  <2>1. \A k \in 1..N : k - 1 \in 0..N
    BY <1>8
  <2>2. \A k \in 1..N : f[k - 1] \in X
    BY <2>1
  <2> QED
    BY <2>2, <1>15
<1>17. Runs(f)
  <2>1. \A k \in 0..N : k = 0 \/ k \in 1..N
    BY <1>8
  <2> HIDE DEF G
  <2> QED
    BY <2>1, <1>15, <1>16
<1>18. Runs(upTo)
  BY <1>17
<1> HIDE DEF upTo
<1>19. /\ upTo[0] = <<>>
       /\ \A k \in 1..N : upTo[k] = Next_(upTo[k - 1], rows[order[k]])
  <2>1. 0 \in 0..N /\ \A k \in 1..N : k \in 0..N /\ k # 0
    BY <1>8
  <2> QED
    BY <2>1, <1>18
<1> DEFINE Good == {k \in 0..N : upTo[k] \in X}
<1>20. 0 \in Good
  BY <1>8, <1>12, <1>19
<1>21. ASSUME NEW k \in 1..N, k - 1 \in Good
       PROVE  k \in Good
  <2>1. k \in 0..N
    BY <1>8
  <2> QED
    BY <2>1, <1>11, <1>19, <1>21
<1>22. N \in Good
  <2>1. \A k \in 0..N : k \in Good
    <3> HIDE DEF Good
    <3> QED
      BY <1>8, <1>20, <1>21, UpTo
  <2> QED
    BY <1>8, <2>1
<1> QED
  BY <1>10, <1>22 DEF X

\* A prediction that match_image and prepare accept: of a known image and class, its box
\* not empty and in the image.
InBounds(box, image) ==
    /\ HasArea(box) /\ box[1] >= 0 /\ box[2] >= 0
    /\ box[3] <= image.width /\ box[4] <= image.height

\* Predictions inside their images.
Predicted(images) ==
    {p \in [image : DOMAIN images, category : 1..Classes, score : 0..100, box : Corners] :
        InBounds(p.box, images[p.image])}

LEMMA ClipIs ==
    ASSUME NEW box \in Corners, NEW window \in Corners, NEW image, HasSize(image)
    PROVE  LET b == Clip(RestoreBox(box, window), <<0, 0, image.width, image.height>>)
           IN  /\ b \in Corners /\ b[1] >= 0 /\ b[2] >= 0
               /\ b[3] <= image.width /\ b[4] <= image.height
<1>1. PICK w \in Nat, h \in Nat : w = image.width /\ h = image.height
  BY DEF HasSize
<1>2. PICK x1 \in Int, x2 \in Int, x3 \in Int, x4 \in Int : RestoreBox(box, window) = <<x1, x2, x3, x4>>
  <2>1. /\ box[1] + window[1] \in Int /\ box[2] + window[2] \in Int
        /\ box[3] + window[1] \in Int /\ box[4] + window[2] \in Int
    BY DEF Corners
  <2> QED
    BY <2>1 DEF RestoreBox, Shift
<1>3. Clip(<<x1, x2, x3, x4>>, <<0, 0, w, h>>) =
        <<Greatest(0, x1), Greatest(0, x2), Least(w, x3), Least(h, x4)>>
  BY DEF Clip
<1>4. /\ Greatest(0, x1) \in Int /\ Greatest(0, x1) >= 0
      /\ Greatest(0, x2) \in Int /\ Greatest(0, x2) >= 0
      /\ Least(w, x3) \in Int /\ Least(w, x3) <= w
      /\ Least(h, x4) \in Int /\ Least(h, x4) <= h
  BY DEF Greatest, Least
<1> QED
  BY <1>1, <1>2, <1>3, <1>4 DEF Corners

\* The images of the run, as its configuration cuts them.
LEMMA ImagesHere ==
    ASSUME TrainingData, pc # "waiting"
    PROVE  /\ Len(ValidationImages) \in Nat
           /\ DOMAIN ValidationImages = 1..Len(ValidationImages)
           /\ \A i \in DOMAIN ValidationImages :
                /\ \E j \in DOMAIN Archive : ValidationImages[i] = Sample(j)
                /\ HasSize(ValidationImages[i])
           /\ config.tile \in Nat /\ config.overlap \in Nat
           /\ config.tile # 0 => config.overlap < config.tile
<1>1. /\ DOMAIN digest = DOMAIN Archive /\ config \in Configs
      /\ ValidationImages \in Seq(SamplesOf(digest, "validation"))
  BY DEF TrainingData, ValidationImages
<1>2. \A x \in SamplesOf(digest, "validation") : \E j \in DOMAIN Archive : x = Sample(j)
  BY <1>1 DEF SamplesOf, OfSplit
<1>3. \A i \in DOMAIN ValidationImages : \E j \in DOMAIN Archive : ValidationImages[i] = Sample(j)
  BY <1>1, <1>2
<1>4. \A i \in DOMAIN ValidationImages : HasSize(ValidationImages[i])
  BY <1>3, SampleHasSize
<1>5. /\ config.tile \in Nat /\ config.overlap \in Nat
      /\ config.tile # 0 => config.overlap < config.tile
  BY <1>1, ConfigAssumption
<1> QED
  BY <1>1, <1>3, <1>4, <1>5

\* Each detection of a view is in the corners of a window of its image.
LEMMA WindowHere ==
    ASSUME TrainingData, pc # "waiting", NEW found \in Detections, Seen(found),
           NEW i \in DOMAIN ValidationImages, NEW d \in DOMAIN found, found[d].image = i
    PROVE  Windows(ValidationImages[i], config.tile, config.overlap)[found[d].view] \in Corners
<1>1. PICK image : image = ValidationImages[i]
  OBVIOUS
<1>2. HasSize(image)
  BY <1>1, ImagesHere
<1>3. PICK tile \in Nat : tile = config.tile
  BY ImagesHere
<1>4. PICK overlap \in Nat : overlap = config.overlap
  BY ImagesHere
<1>5. tile # 0 => overlap < tile
  BY <1>3, <1>4, ImagesHere
<1>6. Windows(image, tile, overlap) \in Seq(Corners)
  BY <1>2, <1>5, WindowsCover
<1>7. found[d].view \in DOMAIN Windows(image, tile, overlap)
  BY <1>1, <1>3, <1>4 DEF Seen
<1> QED
  BY <1>1, <1>3, <1>4, <1>6, <1>7

\* What is inferred of an image is inside it, with a score.
LEMMA InferImageIs ==
    ASSUME TrainingData, pc # "waiting", NEW found \in Detections, Seen(found),
           NEW i \in DOMAIN ValidationImages
    PROVE  InferImage(i, found) \in Seq(Predicted(ValidationImages))
<1> DEFINE image == ValidationImages[i]
           windows == Windows(image, config.tile, config.overlap)
           of == {d \in DOMAIN found : found[d].image = i}
           mine == Picked(found, of)
           row(k) == [image |-> i, category |-> mine[k].category, score |-> mine[k].score,
                      box |-> InImage(image, mine[k], windows[mine[k].view])]
           rows == [k \in DOMAIN mine |-> row(k)]
           usable == {k \in DOMAIN rows : HasArea(rows[k].box) /\ rows[k].category \in 1..Classes}
           Y == {rows[k] : k \in DOMAIN rows}
           P == Predicted(ValidationImages)
<1>1. InferImage(i, found) = Used(NonMaximum(Picked(rows, usable)), BoxesKept)
  BY DEF InferImage
<1>2. PICK X : found \in Seq(X)
  BY DetectionAssumption
<1>3. /\ mine \in Seq(X)
      /\ \A k \in DOMAIN mine : \E d \in of \cap DOMAIN found : mine[k] = found[d]
  <2> HIDE DEF of
  <2> QED
    BY <1>2, PickedIs
<1>4. ASSUME NEW k \in DOMAIN mine
      PROVE  /\ row(k).score \in 0..100 /\ row(k).category \in Nat /\ row(k).image = i
             /\ row(k).box \in Corners
             /\ row(k).box[1] >= 0 /\ row(k).box[2] >= 0
             /\ row(k).box[3] <= image.width /\ row(k).box[4] <= image.height
  <2>1. PICK d \in DOMAIN found : mine[k] = found[d] /\ found[d].image = i
    BY <1>3
  <2>2. found[d].score \in 0..100 /\ found[d].category \in Nat /\ found[d].box \in Corners
    BY DetectionAssumption DEF Corners
  <2>3. PICK window : window = windows[found[d].view]
    OBVIOUS
  <2>4. window \in Corners
    BY <2>1, <2>3, WindowHere
  <2>5. HasSize(image)
    BY ImagesHere
  <2>6. PICK b : b = InImage(image, found[d], window)
    OBVIOUS
  <2>7. /\ b \in Corners /\ b[1] >= 0 /\ b[2] >= 0
        /\ b[3] <= image.width /\ b[4] <= image.height
    <3> HIDE DEF image
    <3>1. PICK box \in Corners : box = found[d].box
      BY <2>2
    <3> QED
      BY <2>4, <2>5, <2>6, <3>1, ClipIs DEF InImage
  <2>8. row(k) = [image |-> i, category |-> found[d].category, score |-> found[d].score, box |-> b]
    BY <2>1, <2>3, <2>6
  <2> HIDE DEF row, image
  <2> QED
    BY <2>2, <2>7, <2>8
<1>5. PICK n \in Nat : DOMAIN mine = 1..n
  <2> HIDE DEF mine
  <2> QED
    BY <1>3
<1> HIDE DEF mine
<1>6. rows \in Seq(Y)
  <2>1. rows \in [1..n -> Y]
    BY <1>5
  <2>2. \A f : f \in [1..n -> Y] => f \in Seq(Y)
    OBVIOUS
  <2> HIDE DEF rows, Y
  <2> QED
    BY <2>1, <2>2
<1>7. DOMAIN rows = DOMAIN mine /\ \A k \in DOMAIN mine : rows[k] = row(k)
  OBVIOUS
<1>8. ASSUME NEW k \in usable
      PROVE  rows[k] \in P
  <2>1. k \in DOMAIN mine /\ rows[k] = row(k) /\ HasArea(row(k).box) /\ row(k).category \in 1..Classes
    OBVIOUS
  <2>2. row(k) \in [image : DOMAIN ValidationImages, category : 1..Classes, score : 0..100, box : Corners]
    <3>1. /\ row(k).image \in DOMAIN ValidationImages /\ row(k).category \in 1..Classes
          /\ row(k).score \in 0..100 /\ row(k).box \in Corners
      BY <1>4, <2>1
    <3> QED
      BY <3>1
  <2>3. InBounds(row(k).box, ValidationImages[row(k).image])
    <3> HIDE DEF row
    <3> QED
      BY <1>4, <2>1 DEF InBounds
  <2> HIDE DEF row, rows
  <2> QED
    BY <2>1, <2>2, <2>3 DEF Predicted
<1> HIDE DEF rows, usable, Y
<1>9. PICK kept : kept = Picked(rows, usable)
  OBVIOUS
<1>10. kept \in Seq(P)
  <2>1. /\ kept \in Seq(Y)
        /\ \A k \in DOMAIN kept : \E j \in usable \cap DOMAIN rows : kept[k] = rows[j]
    BY <1>6, <1>9, PickedIs
  <2>2. \A k \in DOMAIN kept : kept[k] \in P
    BY <1>8, <2>1
  <2>3. PICK m \in Nat : DOMAIN kept = 1..m /\ kept = [k \in 1..m |-> kept[k]]
    BY <2>1
  <2>4. kept \in [1..m -> P]
    BY <2>2, <2>3
  <2>5. \A f : f \in [1..m -> P] => f \in Seq(P)
    OBVIOUS
  <2> QED
    BY <2>4, <2>5
<1>11. \A p \in P : p.score \in Nat
  BY DEF Predicted
<1> HIDE DEF P
<1>12. PICK best \in Seq(P) : best = NonMaximum(kept)
  BY <1>10, <1>11, NonMaximumIs
<1>13. Used(best, 100) \in Seq(P)
  BY UsedIs
<1> QED
  BY <1>1, <1>9, <1>12, <1>13 DEF P, BoxesKept

LEMMA InferIs ==
    ASSUME TrainingData, pc # "waiting", NEW found \in Detections, Seen(found)
    PROVE  Infer(found) \in Seq(Predicted(ValidationImages))
<1> DEFINE parts == [i \in DOMAIN ValidationImages |-> InferImage(i, found)]
           P == Predicted(ValidationImages)
<1>1. PICK n \in Nat : DOMAIN ValidationImages = 1..n
  BY ImagesHere
<1>2. \A i \in 1..n : InferImage(i, found) \in Seq(P)
  BY <1>1, InferImageIs
<1> HIDE DEF P
<1>3. parts \in [1..n -> Seq(P)]
  BY <1>1, <1>2
<1>4. \A f, Y : f \in [1..n -> Y] => f \in Seq(Y)
  OBVIOUS
<1> HIDE DEF parts
<1>5. parts \in Seq(Seq(P))
  BY <1>3, <1>4
<1>6. FlattenSeq(parts) \in Seq(P)
  BY <1>5, FlattenIs
<1> QED
  BY <1>6 DEF Infer, parts, P

\* The predictions about to be saved, and the saved ones, are of the run's images.
BestInv ==
    /\ pc \in {"state", "best"} => latest.predictions \in Seq(Predicted(ValidationImages))
    /\ Readable("best") => files.best.predictions \in Seq(Predicted(ValidationImages))

\* Nothing else touches the predictions of the best epoch.
LEMMA BestKept ==
    ASSUME BestInv, UNCHANGED <<pc, latest>>, samples' = samples, files'.best = files.best
    PROVE  BestInv'
BY DEF BestInv, Readable, ValidationImages

LEMMA BestWorking ==
    ASSUME TrainingData, TurnInv, BestInv, Working
    PROVE  BestInv'
<1>0. /\ pc # "waiting" /\ samples' = samples /\ DOMAIN files = RunFiles
      /\ Predicted(ValidationImages)' = Predicted(ValidationImages)
  <2>1. pc # "waiting" /\ samples' = samples
    BY WorkingKeeps DEF dataVars
  <2> QED
    BY <2>1 DEF TurnInv, Predicted, InBounds, ValidationImages
<1>1. CASE BeginPass \/ Step \/ LogArtifacts
  BY <1>0, <1>1 DEF BeginPass, Step, LogArtifacts, BestInv, Readable
<1>2. CASE SaveState
  BY <1>0, <1>2 DEF SaveState, Write, RunFiles, BestInv, Readable
<1>3. CASE SaveBest
  BY <1>0, <1>3 DEF SaveBest, Write, RunFiles, BestInv, Readable
<1>4. CASE SaveCheckpoint \/ WriteSummary \/ Fail
  BY <1>0, <1>4 DEF SaveCheckpoint, WriteSummary, Fail, Write, RunFiles, BestInv, Readable
<1>5. CASE Kill
  <2>1. pc' = "killed" /\ (files'.best = files.best \/ files'.best = Torn)
    BY <1>0, <1>5 DEF Kill, Write, RunFiles
  <2> QED
    BY <1>0, <2>1 DEF BestInv, Readable
<1>6. ASSUME NEW found \in Detections, Seen(found), Record(found)
      PROVE  BestInv'
  <2>1. PICK content : files' = [files EXCEPT !["history"] = content]
    BY <1>6 DEF Record, Write
  <2>2. files'.best = files.best
    BY <1>0, <2>1 DEF RunFiles
  <2>3. \/ pc' = "pass"
        \/ latest'.predictions = Infer(found)
    BY <1>6 DEF Record
  <2>4. Infer(found) \in Seq(Predicted(ValidationImages))
    BY <1>0, <1>6, InferIs
  <2> QED
    BY <1>0, <2>2, <2>3, <2>4 DEF BestInv, Readable
<1> QED
  BY <1>1, <1>2, <1>3, <1>4, <1>5, <1>6 DEF Working

LEMMA BestStep ==
    ASSUME TrainingData, TurnInv, UnseenInv, BestInv, [Next]_vars
    PROVE  BestInv'
<1>1. CASE UNCHANGED runVars
  BY <1>1, BestKept DEF runVars, trainVars
<1>2. CASE \E c \in Configs : Start(c)
  <2>1. pc' = "pass" /\ files' = files /\ files["best"] = Absent
    BY <1>2 DEF Start, TurnInv, RunFiles
  <2> QED
    BY <2>1 DEF BestInv, Readable
<1>3. CASE Working
  BY <1>3, BestWorking
<1>4. CASE Evaluate
  <2>1. UNCHANGED trainVars /\ files'.best = files.best
    BY <1>4, EvaluationWrites DEF RunFiles
  <2> QED
    BY <2>1, BestKept DEF trainVars
<1> QED
  BY <1>1, <1>2, <1>3, <1>4, RunStep

-----------------------------------------------------------------------------
(* ThresholdsAgree *)

\* The evidence is what it was computed to be, and its predictions stand as they were.
AuditInv ==
    /\ analysis # Absent => /\ Readable("summary")
                            /\ analysis = [t \in Diagnostics |-> Profile(Saved, t)]
    /\ audit # Absent =>
         /\ Readable("summary") /\ Readable("best")
         /\ audit = [points     |-> [t \in AuditPoints |-> Point(Saved, t)],
                     frontier   |-> Frontier(Saved),
                     floors     |-> [f \in Floors |-> AtFloor(Frontier(Saved), f)],
                     zeroEscape |-> ZeroEscape(Saved, Frontier(Saved))]

LEMMA SavedKept ==
    ASSUME AuditInv, UNCHANGED <<analysis, audit>>,
           Readable("summary") => /\ Readable("summary")' /\ files'.best = files.best
                                  /\ samples' = samples
    PROVE  AuditInv'
<1>1. CASE analysis = Absent /\ audit = Absent
  BY <1>1 DEF AuditInv
<1>2. CASE Readable("summary")
  <2>1. Saved' = Saved
    BY <1>2 DEF Saved, Boards, ValidationImages
  <2>2. Readable("best")' = Readable("best")
    BY <1>2 DEF Readable
  <2>3. ASSUME NEW before, NEW after, before = after
        PROVE  /\ Frontier(before) = Frontier(after)
               /\ [t \in AuditPoints |-> Point(before, t)] = [t \in AuditPoints |-> Point(after, t)]
               /\ [t \in Diagnostics |-> Profile(before, t)] = [t \in Diagnostics |-> Profile(after, t)]
               /\ ZeroEscape(before, Frontier(before)) = ZeroEscape(after, Frontier(after))
    BY <2>3
  <2> QED
    BY <1>2, <2>1, <2>2 DEF AuditInv
<1> QED
  BY <1>1, <1>2 DEF AuditInv

\* A run still working has no summary, so no audit is about it.
LEMMA AuditWorking ==
    ASSUME TurnInv, AuditInv, Working, UNCHANGED <<analysis, audit>>
    PROVE  AuditInv'
<1>1. ASSUME Readable("summary")
      PROVE  Readable("summary")' /\ files'.best = files.best /\ samples' = samples
  <2>1. pc \in {"artifacts", "done", "failed", "killed"} /\ DOMAIN files = RunFiles
    BY <1>1, WorkingKeeps DEF TurnInv
  <2>2. ~ WriteSummary
    BY <2>1 DEF WriteSummary
  <2>3. Readable("summary")'
    BY <1>1, <2>2, SettledRun
  <2>4. samples' = samples
    BY WorkingKeeps DEF dataVars
  <2>5. LogArtifacts \/ Fail \/ Kill
    BY <2>1 DEF Working, BeginPass, Step, SaveState, SaveBest, SaveCheckpoint, Record, WriteSummary
  <2>6. files'.best = files.best
    BY <2>1, <2>5 DEF LogArtifacts, Fail, Kill, Write, RunFiles
  <2> QED
    BY <2>3, <2>4, <2>6
<1> QED
  BY <1>1, SavedKept

LEMMA AuditStep ==
    ASSUME TurnInv, UnseenInv, AuditInv, [Next]_vars
    PROVE  AuditInv'
<1>1. CASE UNCHANGED <<runVars, analysis, audit>>
  BY <1>1, SavedKept DEF runVars, trainVars, Readable
<1>2. CASE (\E c \in Configs : Start(c)) /\ UNCHANGED <<analysis, audit>>
  <2>1. files["summary"] = Absent
    BY <1>2 DEF Start, TurnInv, RunFiles
  <2>2. ~ Readable("summary")
    BY <2>1 DEF Readable
  <2> QED
    BY <1>2, <2>2, SavedKept
<1>3. CASE Working /\ UNCHANGED <<analysis, audit>>
  BY <1>3, AuditWorking
<1>4. CASE Evaluate /\ UNCHANGED <<analysis, audit>>
  <2>1. /\ UNCHANGED trainVars
        /\ files'["best"] = files["best"] /\ files'["summary"] = files["summary"]
    BY <1>4, EvaluationWrites DEF RunFiles
  <2>2. Readable("summary")' = Readable("summary")
    BY <2>1 DEF Readable
  <2> QED
    BY <1>4, <2>1, <2>2, SavedKept DEF trainVars
<1>5. CASE Analyze
  <2>1. Readable("summary") /\ UNCHANGED <<runVars, audit>>
        /\ analysis' = [t \in Diagnostics |-> Profile(Saved, t)]
    BY <1>5 DEF Analyze, Summarized
  <2>2. Saved' = Saved /\ files' = files
    BY <2>1 DEF Saved, Boards, ValidationImages, runVars, trainVars
  <2> QED
    BY <2>1, <2>2 DEF AuditInv, Readable
<1>6. CASE Audit
  <2>1. Readable("summary") /\ Readable("best") /\ UNCHANGED <<runVars, analysis>>
    BY <1>6 DEF Audit, Summarized
  <2>2. Saved' = Saved /\ files' = files
    BY <2>1 DEF Saved, Boards, ValidationImages, runVars, trainVars
  <2> QED
    BY <1>6, <2>1, <2>2 DEF AuditInv, Readable, Audit
<1>7. \/ UNCHANGED <<runVars, analysis, audit>>
      \/ (\E c \in Configs : Start(c)) /\ UNCHANGED <<analysis, audit>>
      \/ Working /\ UNCHANGED <<analysis, audit>>
      \/ Evaluate /\ UNCHANGED <<analysis, audit>>
      \/ Analyze \/ Audit
  <2>1. Train => Working \/ \E c \in Configs : Start(c)
    BY DEF Train, Working
  <2> QED
    BY <2>1 DEF Next, vars
<1> QED
  BY <1>1, <1>2, <1>3, <1>4, <1>5, <1>6, <1>7

\* The saved predictions, sorted into boards, are boards as the code prepares them.
LEMMA SavedIsWellMade ==
    ASSUME TrainingData, pc # "waiting", BestInv, Readable("best")
    PROVE  \E m, n, r : WellMade(Saved, m, n, r)
<1> DEFINE P == Predicted(ValidationImages)
           boards == Saved
           predictions == files.best.predictions
           Mine(i) == {p \in DOMAIN predictions : predictions[p].image = i}
           truth(i) == [a \in DOMAIN ValidationImages[i].annotations |->
                          [box |-> ValidationImages[i].annotations[a].box,
                           category |-> ValidationImages[i].annotations[a].class + 1]]
           IsSize(S, k) == k \in Nat /\ S = 1..k
<1>1. PICK m \in Nat : DOMAIN ValidationImages = 1..m
  BY ImagesHere
<1>2. DOMAIN boards = 1..m /\ \A i \in 1..m : boards[i] = Board(truth(i), Picked(predictions, Mine(i)))
  BY <1>1 DEF Saved, Boards
<1>3. ASSUME NEW i \in 1..m
      PROVE  /\ boards[i] = Board(boards[i].truth, boards[i].predictions)
             /\ boards[i].truth = truth(i) /\ boards[i].predictions = Picked(predictions, Mine(i))
  <2>1. boards[i].truth = truth(i) /\ boards[i].predictions = Picked(predictions, Mine(i))
    <3> HIDE DEF truth, Mine
    <3> QED
      BY <1>2 DEF Board
  <2> QED
    BY <1>2, <2>1
<1>4. ASSUME NEW i \in 1..m
      PROVE  \E k : IsSize(DOMAIN boards[i].truth, k)
  <2>1. PICK j \in DOMAIN Archive : ValidationImages[i] = Sample(j)
    BY <1>1, ImagesHere
  <2>2. DOMAIN boards[i].truth = DOMAIN ValidationImages[i].annotations
    BY <1>3
  <2>3. DOMAIN Sample(j).annotations = DOMAIN Archive[j].annotations
    BY DEF Sample
  <2>4. PICK annotations : annotations = Archive[j].annotations /\ annotations \in Seq(Range(annotations))
    BY ReleaseAssumption
  <2>5. DOMAIN annotations = 1..Len(annotations) /\ Len(annotations) \in Nat
    BY <2>4
  <2> QED
    BY <2>1, <2>2, <2>3, <2>4, <2>5
<1>5. predictions \in Seq(P)
  BY DEF BestInv
<1> HIDE DEF predictions, Mine, boards
<1>6. ASSUME NEW i \in 1..m
      PROVE  \E k : /\ IsSize(DOMAIN boards[i].predictions, k) /\ Scored(boards[i].predictions, k)
                    /\ \A j \in 1..k : boards[i].predictions[j].score <= 100
  <2>1. PICK mine : mine = Picked(predictions, Mine(i))
    OBVIOUS
  <2>2. mine \in Seq(P)
    BY <1>5, <2>1, PickedIs
  <2>3. \A p \in P : p.score \in Nat /\ p.score <= 100
    BY DEF Predicted
  <2> HIDE DEF P
  <2>4. PICK k \in Nat : DOMAIN mine = 1..k
    BY <2>2
  <2>5. \A j \in 1..k : mine[j].score \in Nat /\ mine[j].score <= 100
    <3> TAKE j \in 1..k
    <3>1. mine[j] \in P
      BY <2>2, <2>4
    <3> QED
      BY <2>3, <3>1
  <2>6. boards[i].predictions = mine
    BY <1>3, <2>1
  <2> QED
    BY <2>4, <2>5, <2>6 DEF Scored
<1> DEFINE n == [i \in 1..m |-> CHOOSE k : IsSize(DOMAIN boards[i].truth, k)]
           r == [i \in 1..m |-> CHOOSE k : /\ IsSize(DOMAIN boards[i].predictions, k)
                                           /\ Scored(boards[i].predictions, k)
                                           /\ \A j \in 1..k : boards[i].predictions[j].score <= 100]
<1>7. \A i \in 1..m : IsSize(DOMAIN boards[i].truth, n[i])
  BY <1>4
<1>8. \A i \in 1..m : /\ IsSize(DOMAIN boards[i].predictions, r[i])
                      /\ Scored(boards[i].predictions, r[i])
                      /\ \A j \in 1..r[i] : boards[i].predictions[j].score <= 100
  BY <1>6
<1> HIDE DEF n, r
<1>9. WellMade(boards, m, n, r)
  BY <1>1, <1>2, <1>3, <1>7, <1>8 DEF WellMade
<1> QED
  BY <1>9 DEF boards

\* The audit of a finished run counts what its analysis counts.
LEMMA ThresholdsImplies ==
    ASSUME TrainingData, TurnInv, BestInv, AuditInv
    PROVE  ThresholdsAgree
<1> SUFFICES ASSUME audit # Absent
             PROVE  LET boards == Saved
                    IN  /\ \A t \in AuditPoints : audit.points[t].counts = Profile(boards, t)
                        /\ \A t \in DOMAIN audit.frontier :
                             LET p == audit.frontier[t]
                             IN  [tp |-> p.tp, fp |-> p.fp, fn |-> p.fn] = Profile(boards, t)
                        /\ analysis # Absent =>
                             \A t \in Diagnostics : analysis[t] = audit.points[t].counts
  BY DEF ThresholdsAgree
<1>1. PICK boards : boards = Saved
  OBVIOUS
<1>2. Readable("summary") /\ Readable("best")
  BY DEF AuditInv
<1>3. pc # "waiting"
  BY <1>2 DEF TurnInv, Readable, RunFiles
<1>4. PICK m, n, r : WellMade(boards, m, n, r)
  BY <1>1, <1>2, <1>3, SavedIsWellMade
<1>5. /\ audit.points = [t \in AuditPoints |-> Point(boards, t)]
      /\ audit.frontier = Frontier(boards)
      /\ analysis # Absent => analysis = [t \in Diagnostics |-> Profile(boards, t)]
  BY <1>1 DEF AuditInv
<1>6. \A t \in Nat : Point(boards, t).counts = Profile(boards, t)
  BY <1>4, PointIsProfile
<1>7. \A t \in AuditPoints : audit.points[t].counts = Profile(boards, t)
  BY <1>5, <1>6 DEF AuditPoints
<1>8. Thresholds(boards) \in SUBSET Nat
  <2>1. \A b \in DOMAIN boards : \A i \in DOMAIN boards[b].predictions :
           boards[b].predictions[i].score \in Nat
    BY <1>4 DEF WellMade, Scored
  <2> QED
    BY <2>1 DEF Thresholds
<1>9. ASSUME NEW t \in DOMAIN audit.frontier
      PROVE  LET p == audit.frontier[t]
             IN  [tp |-> p.tp, fp |-> p.fp, fn |-> p.fn] = Profile(boards, t)
  <2>1. t \in Nat /\ audit.frontier[t] = FrontierPoint(boards, t)
    BY <1>5, <1>8 DEF Frontier
  <2>2. PICK p : p = FrontierPoint(boards, t)
    OBVIOUS
  <2>3. [tp |-> p.tp, fp |-> p.fp, fn |-> p.fn] = Profile(boards, t)
    BY <1>4, <2>1, <2>2, FrontierIsProfile
  <2> QED
    BY <2>1, <2>2, <2>3
<1>10. analysis # Absent => \A t \in Diagnostics : analysis[t] = audit.points[t].counts
  <2>1. Diagnostics \in SUBSET AuditPoints
    BY DEF Diagnostics, AuditPoints
  <2> QED
    BY <1>5, <1>7, <2>1
<1> QED
  BY <1>1, <1>7, <1>9, <1>10

-----------------------------------------------------------------------------
(* NamedPointsAreBest *)

\* Prediction i of the rows is retained at t.
SomeAt(predictions, t) == \E i \in DOMAIN predictions : predictions[i].score >= t

\* A board keeps a prediction exactly when one reaches the threshold.
LEMMA SomeRetained ==
    ASSUME NEW r \in Nat, NEW predictions, Scored(predictions, r), NEW t \in Nat
    PROVE  /\ Retained(predictions, t) # <<>> <=> SomeAt(predictions, t)
           /\ Cardinality(AtLeastScore(predictions, 1..r, t)) \in Nat
           /\ Cardinality(AtLeastScore(predictions, 1..r, t)) > 0 <=> SomeAt(predictions, t)
<1>1. PICK T : T = AtLeastScore(predictions, 1..r, t)
  OBVIOUS
<1>2. Retains(predictions, t, T)
  BY <1>1, RetainedIs
<1>3. PICK order : order = Retained(predictions, t)
  OBVIOUS
<1>4. PICK N \in Nat : N = Cardinality(T)
  BY <1>2 DEF Retains
<1>5. Len(order) = N /\ order \in [1..N -> T]
  BY <1>2, <1>3, <1>4 DEF Retains
<1>6. T = {} <=> N = 0
  <2>1. T \in SUBSET (1..r) /\ IsFiniteSet(1..r)
    BY <1>1, FS_Interval DEF AtLeastScore
  <2>2. IsFiniteSet(T)
    BY <2>1, FS_Subset
  <2> QED
    BY <1>4, <2>2, FS_EmptySet
<1>7. T # {} <=> SomeAt(predictions, t)
  BY <1>1 DEF AtLeastScore, SomeAt, Scored
<1>8. order = <<>> <=> N = 0
  <2>1. N = 0 => order \in [{} -> T]
    BY <1>5
  <2>2. \A f : f \in [{} -> T] => f = <<>>
    OBVIOUS
  <2>3. N # 0 => order # <<>>
    <3>1. Len(<<>>) = 0
      OBVIOUS
    <3> QED
      BY <1>5, <3>1
  <2> QED
    BY <2>1, <2>2, <2>3
<1> QED
  BY <1>1, <1>3, <1>4, <1>6, <1>7, <1>8

\* A board is flagged by the sweep when some prediction of it is retained.
LEMMA FlaggedIs ==
    ASSUME NEW boards, NEW m, NEW n, NEW r, WellMade(boards, m, n, r), NEW t \in Nat,
           NEW b \in DOMAIN boards
    PROVE  b \in FrontierPoint(boards, t).flagged <=> SomeAt(boards[b].predictions, t)
<1>1. PICK predictions : predictions = boards[b].predictions
  OBVIOUS
<1>2. PICK rows \in Nat : rows = r[b]
  BY DEF WellMade
<1>3. PICK count \in Nat : count = n[b]
  BY DEF WellMade
<1>4. PICK truth : truth = boards[b].truth
  OBVIOUS
<1>5. Scored(predictions, rows) /\ DOMAIN truth = 1..count
  BY <1>1, <1>2, <1>3, <1>4 DEF WellMade
<1>6. PICK N : N = Cardinality(AtLeastScore(predictions, 1..rows, t))
  OBVIOUS
<1>7. GoesThrough(count, truth, predictions, Retained(predictions, t), N,
                  MatchImage(truth, predictions, t))
  BY <1>5, <1>6, MatchImageIs
<1>8. Cut(boards, t)[b] = MatchImage(truth, predictions, t)
  BY <1>1, <1>4 DEF Cut
<1>9. DOMAIN Cut(boards, t)[b] = 1..N
  BY <1>7, <1>8 DEF GoesThrough, Matched
<1>10. N \in Nat /\ (N > 0 <=> SomeAt(predictions, t))
  BY <1>5, <1>6, SomeRetained
<1>11. FrontierPoint(boards, t).flagged = {x[1] : x \in RowsAt(boards, t)}
  BY DEF FrontierPoint
<1>12. RowsAt(boards, t) = UNION {{c} \X DOMAIN Cut(boards, t)[c] : c \in DOMAIN boards}
  BY SweepIsCut
<1>13. b \in FrontierPoint(boards, t).flagged <=> DOMAIN Cut(boards, t)[b] # {}
  <2>1. ASSUME NEW k \in DOMAIN Cut(boards, t)[b]
        PROVE  <<b, k>> \in RowsAt(boards, t) /\ <<b, k>>[1] = b
    BY <1>12
  <2>2. \A x \in RowsAt(boards, t) : x[1] = b => \E k \in DOMAIN Cut(boards, t)[b] : TRUE
    BY <1>12
  <2> QED
    BY <1>11, <2>1, <2>2
<1> QED
  BY <1>1, <1>9, <1>10, <1>13

\* No score lies between a threshold and the next one the sweep stops at.
SameAt(boards, t, u) ==
    \A b \in DOMAIN boards : \A i \in DOMAIN boards[b].predictions :
        boards[b].predictions[i].score >= t <=> boards[b].predictions[i].score >= u

\* Between two scores nothing changes: each threshold counts as the next score does.
THEOREM NextThreshold ==
    ASSUME NEW boards, NEW m, NEW n, NEW r, WellMade(boards, m, n, r), NEW t \in 0..100
    PROVE  \E u \in Thresholds(boards) : t <= u /\ SameAt(boards, t, u)
<1> DEFINE above == {u \in Thresholds(boards) : t <= u}
<1>1. \A b \in DOMAIN boards : \A i \in DOMAIN boards[b].predictions :
         boards[b].predictions[i].score \in Nat
  BY DEF WellMade, Scored
<1>2. Thresholds(boards) \in SUBSET Nat
  BY <1>1 DEF Thresholds
<1>3. 100 \in above
  BY DEF Thresholds
<1>4. above \in SUBSET Nat
  BY <1>2
<1>5. PICK u \in above : \A v \in above : u <= v
  <2> HIDE DEF above
  <2> QED
    BY <1>3, <1>4, LeastOf
<1>6. ASSUME NEW b \in DOMAIN boards, NEW i \in DOMAIN boards[b].predictions
      PROVE  boards[b].predictions[i].score >= t <=> boards[b].predictions[i].score >= u
  <2>1. PICK s \in Nat : s = boards[b].predictions[i].score
    BY <1>1
  <2>2. s \in Thresholds(boards)
    BY <2>1 DEF Thresholds
  <2>3. s >= t => u <= s
    BY <1>5, <2>2
  <2>4. u \in Nat /\ t <= u
    BY <1>2
  <2> QED
    BY <2>1, <2>3, <2>4
<1> QED
  BY <1>5, <1>6 DEF SameAt

\* What reaches the same predictions has the same counts.
LEMMA SameProfile ==
    ASSUME NEW boards, NEW t, NEW u, SameAt(boards, t, u)
    PROVE  /\ Profile(boards, t) = Profile(boards, u)
           /\ \A b \in DOMAIN boards :
                 SomeAt(boards[b].predictions, t) <=> SomeAt(boards[b].predictions, u)
<1>1. ASSUME NEW b \in DOMAIN boards
      PROVE  MatchImage(boards[b].truth, boards[b].predictions, t)
                = MatchImage(boards[b].truth, boards[b].predictions, u)
  <2>1. {i \in DOMAIN boards[b].predictions : boards[b].predictions[i].score >= t}
          = {i \in DOMAIN boards[b].predictions : boards[b].predictions[i].score >= u}
    BY DEF SameAt
  <2>2. Retained(boards[b].predictions, t) = Retained(boards[b].predictions, u)
    BY <2>1 DEF Retained
  <2>3. ASSUME NEW truth, NEW predictions, Retained(predictions, t) = Retained(predictions, u)
        PROVE  MatchImage(truth, predictions, t) = MatchImage(truth, predictions, u)
    BY <2>3 DEF MatchImage
  <2> QED
    BY <2>2, <2>3
<1>2. [b \in DOMAIN boards |-> MatchImage(boards[b].truth, boards[b].predictions, t)]
        = [b \in DOMAIN boards |-> MatchImage(boards[b].truth, boards[b].predictions, u)]
  BY <1>1
<1> QED
  BY <1>2 DEF Profile, SameAt, SomeAt

-----------------------------------------------------------------------------
(* The operating points *)

\* What the sweep counts at every threshold, with at most K labels to find.
Counted(boards, K) ==
    /\ K \in Nat
    /\ \A t \in Nat : FrontierPoint(boards, t).tp \in 0..K /\ FrontierPoint(boards, t).fp \in Nat

\* The counts of the frontier are numbers.
LEMMA FrontierCounts ==
    ASSUME NEW boards, NEW m, NEW n, NEW r, WellMade(boards, m, n, r)
    PROVE  \E K : Counted(boards, K)
<1> DEFINE K == Cardinality(Pairs(m, LabelsOf(m, n)))
<1>1. ASSUME NEW t \in Nat
      PROVE  /\ K \in Nat /\ FrontierPoint(boards, t).tp \in 0..K
             /\ FrontierPoint(boards, t).fp \in Nat
  <2> DEFINE M == Cut(boards, t)
             rows == RowsAt(boards, t)
             matched == {x \in rows : boards[x[1]].matches[x[2]].outcome = "matched"}
             all == [b \in 1..m |-> DOMAIN M[b]]
  <2>1. CutsWell(boards, m, n, r, t)
    BY BoardsAreCut
  <2>2. Matchings(m, n, M)
    BY <2>1 DEF CutsWell, Matchings, WellMade
  <2>3. m \in Nat /\ DOMAIN boards = 1..m
    BY DEF WellMade
  <2>4. matched = Pairs(m, HitsOf(m, M)) /\ rows = Pairs(m, all)
    <3>1. /\ rows = UNION {{b} \X DOMAIN M[b] : b \in DOMAIN boards}
          /\ matched = UNION {{b} \X Hits(M[b]) : b \in DOMAIN boards}
      BY SweepIsCut
    <3> QED
      BY <2>3, <3>1 DEF Pairs, HitsOf
  <2>5. /\ FrontierPoint(boards, t).tp = Cardinality(matched)
        /\ FrontierPoint(boards, t).fp = Cardinality(rows \ matched)
    BY DEF FrontierPoint
  <2>6. ASSUME NEW b \in 1..m
        PROVE  IsFiniteSet(all[b])
    <3>1. PICK N \in Nat : DOMAIN M[b] = 1..N
      BY <2>2 DEF Matchings, Matched
    <3>2. IsFiniteSet(1..N)
      BY FS_Interval
    <3> HIDE DEF M
    <3> QED
      BY <3>1, <3>2
  <2> HIDE DEF M, rows, matched, all
  <2>7. \A b \in 1..m : IsFiniteSet(all[b])
    BY <2>6
  <2>8. IsFiniteSet(rows)
    BY <2>3, <2>4, <2>7, PairsFinite
  <2>9. Cardinality(rows \ matched) \in Nat
    BY <2>8, FS_Subset, FS_CardinalityType
  <2>10. /\ K \in Nat /\ Cardinality(Pairs(m, HitsOf(m, M))) \in Nat
         /\ Cardinality(Pairs(m, MissedOf(m, n, M))) \in Nat
         /\ Cardinality(Pairs(m, MissedOf(m, n, M))) = K - Cardinality(Pairs(m, HitsOf(m, M)))
    BY <2>2, <2>3, HitsCounted
  <2> QED
    BY <2>4, <2>5, <2>9, <2>10
<1> HIDE DEF K
<1>2. K \in Nat
  <2>1. 0 \in Nat
    OBVIOUS
  <2> QED
    BY <1>1, <2>1
<1> QED
  BY <1>1, <1>2 DEF Counted

\* Among finitely many points one is preferred to all.
LEMMA PreferredExists ==
    ASSUME NEW K \in Nat, NEW f, NEW C, C \in SUBSET (0..100), C # {},
           \A t \in C : f[t].tp \in 0..K /\ f[t].fp \in Nat
    PROVE  \E t \in C : \A u \in C : Preferred(f, t, u)
<1> DEFINE tps == {f[t].tp : t \in C}
<1>1. \A k \in tps : k \in Nat /\ k <= K
  OBVIOUS
<1>2. PICK tp \in tps : \A k \in tps : k <= tp
  <2>1. tps # {}
    OBVIOUS
  <2> HIDE DEF tps
  <2> QED
    BY <1>1, <2>1, GreatestOf
<1> DEFINE C1 == {t \in C : f[t].tp = tp}
           fps == {f[t].fp : t \in C1}
<1>3. C1 # {} /\ C1 \in SUBSET C
  OBVIOUS
<1>4. PICK fp \in fps : \A k \in fps : fp <= k
  <2>1. fps \in SUBSET Nat /\ fps # {}
    BY <1>3
  <2> HIDE DEF fps
  <2> QED
    BY <2>1, LeastOf
<1> DEFINE C2 == {t \in C1 : f[t].fp = fp}
<1>5. PICK best \in C2 : \A t \in C2 : t <= best
  <2>1. C2 # {} /\ \A t \in C2 : t \in Nat /\ t <= 100
    BY <1>3, <1>4
  <2>2. 100 \in Nat
    OBVIOUS
  <2> HIDE DEF C2
  <2> QED
    BY <2>1, <2>2, GreatestOf
<1>6. best \in C /\ f[best].tp = tp /\ f[best].fp = fp
  BY <1>3
<1>7. ASSUME NEW u \in C
      PROVE  Preferred(f, best, u)
  <2>1. f[u].tp \in Nat /\ f[u].fp \in Nat /\ tp \in Nat /\ fp \in Nat
    <3>1. \A t \in C : f[t].tp \in Nat /\ f[t].fp \in Nat
      <4> HIDE DEF C1, C2, tps, fps
      <4> TAKE t \in C
      <4>1. f[t].tp \in 0..K /\ f[t].fp \in Nat
        BY Zenon
      <4> QED
        BY <4>1
    <3>2. f[best].tp \in Nat /\ f[best].fp \in Nat
      BY <1>6, <3>1
    <3> QED
      BY <1>6, <3>1, <3>2
  <2>2. f[u].tp <= tp
    BY <1>2
  <2>3. f[u].tp = tp => fp <= f[u].fp
    BY <1>4
  <2>4. f[u].tp = tp /\ f[u].fp = fp => u <= best
    BY <1>5
  <2>5. u \in Nat /\ best \in Nat
    <3> HIDE DEF C1, C2, tps, fps
    <3>1. u \in 0..100 /\ best \in 0..100
      BY <1>6
    <3> QED
      BY <3>1
  <2> QED
    BY <1>6, <2>1, <2>2, <2>3, <2>4, <2>5 DEF Preferred
<1> QED
  BY <1>6, <1>7

\* The frontier has a point at every threshold that is tried.
ThresholdsAre(boards) ==
    /\ Thresholds(boards) \in SUBSET (0..100)
    /\ DOMAIN Frontier(boards) = Thresholds(boards)
    /\ \A t \in Thresholds(boards) : Frontier(boards)[t] = FrontierPoint(boards, t)

LEMMA ThresholdsIn ==
    ASSUME NEW boards, NEW m, NEW n, NEW r, WellMade(boards, m, n, r)
    PROVE  ThresholdsAre(boards)
<1>1. \A b \in DOMAIN boards : \A i \in DOMAIN boards[b].predictions :
         boards[b].predictions[i].score \in Nat /\ boards[b].predictions[i].score <= 100
  BY DEF WellMade, Scored
<1>2. Thresholds(boards) \in SUBSET (0..100)
  BY <1>1 DEF Thresholds
<1> QED
  BY <1>2 DEF ThresholdsAre, Frontier

\* Same hits and alarms, same precision.
LEMMA PreciseHere ==
    ASSUME NEW boards, NEW m, NEW n, NEW r, WellMade(boards, m, n, r), NEW t \in Nat, NEW floor
    PROVE  /\ FrontierPoint(boards, t).tp = Profile(boards, t).tp
           /\ Precise(Profile(boards, t), floor) <=> Precise(FrontierPoint(boards, t), floor)
<1>1. PICK p : p = FrontierPoint(boards, t)
  OBVIOUS
<1>2. PICK q : q = Profile(boards, t)
  OBVIOUS
<1>3. [tp |-> p.tp, fp |-> p.fp, fn |-> p.fn] = q
  BY <1>1, <1>2, FrontierIsProfile
<1>4. q.tp = p.tp /\ q.fp = p.fp
  BY <1>3
<1> QED
  BY <1>1, <1>2, <1>4 DEF Precise

\* At a precision floor no threshold at all finds more than the point reported.
LEMMA FloorIsBest ==
    ASSUME NEW boards, NEW m, NEW n, NEW r, WellMade(boards, m, n, r), NEW t \in 0..100,
           NEW floor, Precise(Profile(boards, t), floor)
    PROVE  \E best \in AtFloor(Frontier(boards), floor) :
              /\ Frontier(boards)[best].tp >= Profile(boards, t).tp
              /\ Precise(Profile(boards, best), floor)
<1>1. ThresholdsAre(boards)
  BY ThresholdsIn
<1>2. PICK u \in Thresholds(boards) : t <= u /\ SameAt(boards, t, u)
  BY NextThreshold
<1>3. Profile(boards, t) = Profile(boards, u)
  BY <1>2, SameProfile
<1>4. PICK F : F = Frontier(boards)
  OBVIOUS
<1>5. PICK C : C = {v \in Thresholds(boards) : Precise(F[v], floor)}
  OBVIOUS
<1>6. \A v \in Thresholds(boards) : /\ v \in Nat /\ F[v] = FrontierPoint(boards, v)
                                    /\ F[v].tp = Profile(boards, v).tp
                                    /\ Precise(Profile(boards, v), floor) <=> Precise(F[v], floor)
  <2> TAKE v \in Thresholds(boards)
  <2>1. v \in Nat /\ F[v] = FrontierPoint(boards, v)
    BY <1>1, <1>4 DEF ThresholdsAre
  <2> QED
    BY <2>1, PreciseHere
<1>7. u \in C
  BY <1>3, <1>5, <1>6
<1>8. PICK K : Counted(boards, K)
  BY FrontierCounts
<1>9. PICK best \in C : \A v \in C : Preferred(F, best, v)
  <2>1. C \in SUBSET (0..100) /\ C # {}
    BY <1>1, <1>5, <1>7 DEF ThresholdsAre
  <2>2. K \in Nat /\ \A v \in C : F[v].tp \in 0..K /\ F[v].fp \in Nat
    BY <1>5, <1>6, <1>8 DEF Counted
  <2> QED
    BY <2>1, <2>2, PreferredExists
<1>10. best \in AtFloor(F, floor)
  BY <1>1, <1>4, <1>5, <1>9 DEF AtFloor, ThresholdsAre
<1>11. F[best].tp >= F[u].tp
  <2>1. F[best].tp \in Nat /\ F[u].tp \in Nat
    BY <1>2, <1>5, <1>6, <1>8 DEF Counted
  <2> QED
    BY <1>7, <1>9, <2>1 DEF Preferred
<1>12. Precise(Profile(boards, best), floor)
  BY <1>5, <1>6
<1> QED
  BY <1>2, <1>3, <1>4, <1>6, <1>10, <1>11, <1>12

\* Every labelled board is flagged at t.
AllFlagged(boards, t) ==
    \A b \in Labelled(boards) : Retained(boards[b].predictions, t) # <<>>

\* Every labelled image is flagged when each has a prediction that is kept.
LEMMA AllFlaggedIs ==
    ASSUME NEW boards, NEW m, NEW n, NEW r, WellMade(boards, m, n, r), NEW t \in Nat
    PROVE  /\ AllFlagged(boards, t) <=> \A b \in Labelled(boards) : SomeAt(boards[b].predictions, t)
           /\ AllFlagged(boards, t) <=> Labelled(boards) \subseteq FrontierPoint(boards, t).flagged
<1>1. \A b \in Labelled(boards) : b \in DOMAIN boards
  BY DEF Labelled
<1>2. ASSUME NEW b \in DOMAIN boards
      PROVE  Retained(boards[b].predictions, t) # <<>> <=> SomeAt(boards[b].predictions, t)
  <2>1. PICK predictions : predictions = boards[b].predictions
    OBVIOUS
  <2>2. PICK rows \in Nat : rows = r[b]
    BY DEF WellMade
  <2>3. Scored(predictions, rows)
    BY <2>1, <2>2 DEF WellMade
  <2> QED
    BY <2>1, <2>3, SomeRetained
<1>3. \A b \in DOMAIN boards :
         b \in FrontierPoint(boards, t).flagged <=> SomeAt(boards[b].predictions, t)
  BY FlaggedIs
<1> QED
  BY <1>1, <1>2, <1>3 DEF AllFlagged

\* The zero-escape point is the highest threshold at which no labelled image escapes.
LEMMA ZeroEscapeIsHighest ==
    ASSUME NEW boards, NEW m, NEW n, NEW r, WellMade(boards, m, n, r), NEW t \in 0..100,
           Labelled(boards) # {}
    PROVE  AllFlagged(boards, t) <=> \E z \in ZeroEscape(boards, Frontier(boards)) : t <= z
<1>1. ThresholdsAre(boards)
  BY ThresholdsIn
<1> DEFINE E == {u \in Thresholds(boards) : AllFlagged(boards, u)}
           top == {u \in E : \A v \in E : v <= u}
<1>2. ZeroEscape(boards, Frontier(boards)) = top
  <2>1. \A u \in Thresholds(boards) :
           AllFlagged(boards, u) <=> Labelled(boards) \subseteq Frontier(boards)[u].flagged
    <3> TAKE u \in Thresholds(boards)
    <3>1. u \in Nat /\ Frontier(boards)[u] = FrontierPoint(boards, u)
      BY <1>1 DEF ThresholdsAre
    <3> QED
      BY <3>1, AllFlaggedIs
  <2>2. {u \in DOMAIN Frontier(boards) : /\ Labelled(boards) # {}
                                         /\ Labelled(boards) \subseteq Frontier(boards)[u].flagged} = E
    BY <1>1, <2>1 DEF ThresholdsAre
  <2> QED
    BY <2>2 DEF ZeroEscape
<1>3. E \in SUBSET (0..100)
  BY <1>1 DEF ThresholdsAre
<1>4. ASSUME AllFlagged(boards, t)
      PROVE  \E z \in top : t <= z
  <2>1. PICK u \in Thresholds(boards) : t <= u /\ SameAt(boards, t, u)
    BY NextThreshold
  <2>2. u \in Nat /\ u <= 100
    BY <1>1, <2>1 DEF ThresholdsAre
  <2>3. AllFlagged(boards, u)
    <3>1. \A b \in Labelled(boards) : b \in DOMAIN boards /\ SomeAt(boards[b].predictions, t)
      BY <1>4, AllFlaggedIs DEF Labelled
    <3>2. \A b \in Labelled(boards) : SomeAt(boards[b].predictions, u)
      BY <2>1, <3>1, SameProfile
    <3> QED
      BY <2>2, <3>2, AllFlaggedIs
  <2>4. u \in E
    BY <2>1, <2>3
  <2>5. PICK z \in E : \A v \in E : v <= z
    <3>1. \A v \in E : v \in Nat /\ v <= 100
      BY <1>3
    <3>2. 100 \in Nat /\ E # {}
      BY <2>4
    <3> HIDE DEF E
    <3> QED
      BY <3>1, <3>2, GreatestOf
  <2>6. z \in top /\ u <= z /\ z \in Nat
    BY <1>3, <2>4, <2>5
  <2> QED
    BY <2>1, <2>2, <2>6
<1>5. ASSUME NEW z \in top, t <= z
      PROVE  AllFlagged(boards, t)
  <2>1. z \in Nat /\ AllFlagged(boards, z)
    BY <1>3
  <2>2. ASSUME NEW b \in Labelled(boards)
        PROVE  SomeAt(boards[b].predictions, t)
    <3>1. b \in DOMAIN boards /\ SomeAt(boards[b].predictions, z)
      BY <2>1, AllFlaggedIs DEF Labelled
    <3>2. PICK i \in DOMAIN boards[b].predictions : boards[b].predictions[i].score >= z
      BY <3>1 DEF SomeAt
    <3>3. boards[b].predictions[i].score \in Nat
      BY <3>1, <3>2 DEF WellMade, Scored
    <3>4. boards[b].predictions[i].score >= t
      BY <1>5, <2>1, <3>2, <3>3
    <3> QED
      BY <3>2, <3>4 DEF SomeAt
  <2> QED
    BY <2>2, AllFlaggedIs
<1> QED
  BY <1>2, <1>4, <1>5

\* The named points of a finished audit are the best over all thresholds.
LEMMA NamedImplies ==
    ASSUME TrainingData, TurnInv, BestInv, AuditInv
    PROVE  NamedAreBest(0..100) /\ NamedPointsAreBest
<1> SUFFICES ASSUME audit # Absent
             PROVE  NamedAreBest(0..100) /\ NamedPointsAreBest
  BY DEF NamedPointsAreBest, NamedAreBest
<1>1. PICK boards : boards = Saved
  OBVIOUS
<1>2. Readable("summary") /\ Readable("best")
  BY DEF AuditInv
<1>3. pc # "waiting"
  BY <1>2 DEF TurnInv, Readable, RunFiles
<1>4. PICK m, n, r : WellMade(boards, m, n, r)
  BY <1>1, <1>2, <1>3, SavedIsWellMade
<1>5. /\ audit.frontier = Frontier(boards)
      /\ audit.floors = [f \in Floors |-> AtFloor(Frontier(boards), f)]
      /\ audit.zeroEscape = ZeroEscape(boards, Frontier(boards))
  BY <1>1 DEF AuditInv
<1>6. ASSUME NEW t \in 0..100, NEW f \in Floors, Precise(Profile(boards, t), f)
      PROVE  \E best \in audit.floors[f] : /\ audit.frontier[best].tp >= Profile(boards, t).tp
                                           /\ Precise(Profile(boards, best), f)
  BY <1>4, <1>5, <1>6, FloorIsBest
<1>7. ASSUME NEW t \in 0..100, Labelled(boards) # {}
      PROVE  AllFlagged(boards, t) <=> \E z \in audit.zeroEscape : t <= z
  BY <1>4, <1>5, <1>7, ZeroEscapeIsHighest
<1>8. {0, 40, 45, 50, 60, 75, 90, 100} \in SUBSET (0..100)
  OBVIOUS
<1>9. NamedAreBest(0..100)
  BY <1>1, <1>6, <1>7 DEF NamedAreBest, AllFlagged
<1> QED
  BY <1>8, <1>9 DEF NamedPointsAreBest, NamedAreBest

-----------------------------------------------------------------------------
(* CompleteIsAccepted *)

\* A budget is so many whole passes and, if it is no multiple of them, one that is cut.
LEMMA WholePasses ==
    ASSUME NEW c \in Configs, NEW n \in Nat, n > 0, ByBudget(c)
    PROVE  /\ c.budget \div n \in Nat /\ c.budget \div n <= PassCount(c, n)
           /\ PassCount(c, n) = (c.budget \div n) + (IF c.budget % n > 0 THEN 1 ELSE 0)
           /\ \A p \in 1..PassCount(c, n) : LengthOf(c, n, p) = n <=> p <= c.budget \div n
<1>1. PICK b \in Nat : b = c.budget
  BY ConfigAssumption
<1>2. PICK q \in Int, m \in Int, r \in Nat :
         IsProduct(m, n, q) /\ q = b \div n /\ r = b % n /\ b = m + r /\ r < n
  BY QuotientExists DEF Quotient
<1>3. PICK K \in Nat : K = PassCount(c, n) /\ K > 0
  BY PassCountIs
<1>4. PICK x \in Int, y \in Int : x = n * K /\ y = n * (K - 1) /\ y = x - n
  BY Multiples
<1>5. b <= x /\ y < b
  BY <1>1, <1>3, <1>4, PassCountIs
<1>6. b = m + r /\ r < n /\ q \in Int /\ m \in Int
  BY <1>2
<1>7. ~ (K + 1 <= q)
  <2>1. n * (K + 1) = n * K + n /\ (K + 1 <= q => n * (K + 1) <= n * q)
    BY <1>6, Multiples
  <2>2. K + 1 <= q => x + n <= m
    BY <2>1, <1>2, <1>4 DEF IsProduct
  <2> QED
    BY <1>5, <1>6, <2>2
<1>8. ~ (q + 1 <= K - 1)
  <2>1. n * (q + 1) = n * q + n /\ (q + 1 <= K - 1 => n * (q + 1) <= n * (K - 1))
    BY <1>6, Multiples
  <2>2. q + 1 <= K - 1 => m + n <= y
    BY <2>1, <1>2, <1>4 DEF IsProduct
  <2> QED
    BY <1>5, <1>6, <2>2
<1>9. /\ K = q => x = m
      /\ K = q + 1 => y = m
  BY <1>2, <1>4 DEF IsProduct
<1>10. q \in Nat /\ (K = q \/ K = q + 1)
  BY <1>3, <1>6, <1>7, <1>8
<1>11. K = q => r = 0 /\ b = x
  BY <1>5, <1>6, <1>9
<1>12. K = q + 1 => r > 0 /\ b # x
  BY <1>4, <1>5, <1>6, <1>9
<1>13. ASSUME NEW p \in 1..K
       PROVE  LengthOf(c, n, p) = n <=> p <= q
  <2>1. LengthOf(c, n, p) = IF p < K THEN n ELSE b - y
    BY <1>1, <1>3, <1>4 DEF LengthOf
  <2> QED
    BY <1>4, <1>10, <1>11, <1>12, <2>1
<1> QED
  BY <1>1, <1>2, <1>3, <1>10, <1>11, <1>12, <1>13

\* The epochs a run counts.
EpochsBy(c, n, count) ==
    IF ByBudget(c) /\ count > 0 THEN Least(count, c.budget \div n) ELSE count

\* An epoch is counted when a pass was whole.
LEMMA EpochsGrow ==
    ASSUME NEW c \in Configs, NEW n \in Nat, n > 0, NEW p \in 1..PassCount(c, n)
    PROVE  EpochsBy(c, n, p) =
             IF ~ByBudget(c) \/ Len(TrainingSchedule(c, n)[p]) = n
             THEN EpochsBy(c, n, p - 1) + 1 ELSE EpochsBy(c, n, p - 1)
<1>1. PICK K \in Nat : K = PassCount(c, n)
  BY PassCountIs
<1>2. CASE ~ ByBudget(c)
  BY <1>1, <1>2 DEF EpochsBy
<1>3. CASE ByBudget(c)
  <2>1. PICK q \in Nat : q = c.budget \div n
    BY <1>3, WholePasses
  <2>2. LengthOf(c, n, p) = n <=> p <= q
    BY <1>3, <2>1, WholePasses
  <2>3. Len(TrainingSchedule(c, n)[p]) = LengthOf(c, n, p)
    BY PlanInTurn DEF PassIs
  <2>4. EpochsBy(c, n, p) = Least(p, q) /\ EpochsBy(c, n, p - 1) = Least(p - 1, q)
    BY <1>3, <2>1 DEF EpochsBy, Least
  <2>5. p \in Nat /\ p - 1 \in Nat
    BY <1>1
  <2> QED
    BY <1>3, <2>2, <2>3, <2>4, <2>5 DEF Least
<1> QED
  BY <1>2, <1>3

\* The run is writing its history.
Recording == pc \in {"pass", "step", "record", "state", "best", "checkpoint"}

\* A row of history as validate_training recomputes it.
RowIs(c, n, i, row) ==
    /\ row.number = i
    /\ ByBudget(c) => /\ row.indices = TrainingSchedule(c, n)[i]
                      /\ row.first = StepsBy(c, n, i - 1) + 1
                      /\ row.whole = (Len(TrainingSchedule(c, n)[i]) = n)

\* What each row says of its pass and of its steps.
RowsAre(c, n, h, count) == \A i \in 1..count : RowIs(c, n, i, h[i])

\* The rows written so far account for the passes made so far.
RowsInv ==
    /\ pc = "waiting" => epochs = 0
    /\ Recording =>
         /\ epochs = EpochsBy(config, Len(views), RowCount)
         /\ RowsAre(config, Len(views), files.history, RowCount)
         /\ ByBudget(config) /\ 0 < RowCount /\ RowCount = Len(plan) => bestAp = files.history[RowCount].score

\* Record adds one row to those there are.
LEMMA HistoryWritten ==
    ASSUME TrainingData, TurnInv, HistoryInv, NEW found, Record(found)
    PROVE  /\ SameBefore(files.history, pass - 1, files'.history)
           /\ \E score : /\ files'.history[pass] = Row(score)
                         /\ ByBudget(config) /\ pass = Len(plan) => bestAp' = score
<1> DEFINE score == IF Validates THEN Score(Infer(found)) ELSE Nothing
           h == files.history
           g == files'.history
<1>1. /\ pc = "record"
      /\ files' = [files EXCEPT !["history"] = IF h = Absent THEN <<Row(score)>> ELSE Append(h, Row(score))]
      /\ IF Validates /\ Selects(score) THEN pc' = "state" /\ bestAp' = score
         ELSE pc' = "pass" /\ bestAp' = bestAp
  BY DEF Record, Write
<1>2. left = <<>> /\ pass > 0 /\ DOMAIN files = RunFiles
  BY <1>1 DEF TurnInv
<1>3. /\ steps \in Nat /\ pass \in 1..Len(plan)
      /\ ByBudget(config) => (steps = config.budget <=> pass = Len(plan))
  BY <1>1, <1>2, StepsHere
<1>4. PICK count \in Nat : count = pass - 1 /\ pass = count + 1
  BY <1>2, <1>3
<1>5. RowCount = count
  BY <1>1, <1>4 DEF RowCount
<1>6. /\ count = 0 => h = Absent
      /\ count > 0 => HistoryIs(config, Len(views), h, count)
  BY <1>1, <1>5 DEF HistoryInv
<1>7. ByBudget(config) /\ pass = Len(plan) => bestAp' = score
  BY <1>1, <1>3 DEF Validates, Selects
<1> HIDE DEF score
<1>8. PICK row : row = Row(score)
  OBVIOUS
<1>9. g = IF h = Absent THEN <<row>> ELSE Append(h, row)
  BY <1>1, <1>2, <1>8 DEF RunFiles
<1> HIDE DEF h, g
<1>10. /\ DOMAIN g = 1..(count + 1) /\ g[count + 1] = row
       /\ count > 0 => DOMAIN h = 1..count /\ \A i \in 1..count : g[i] = h[i]
  <2>1. CASE count = 0
    <3>1. DOMAIN <<row>> = 1..1 /\ <<row>>[1] = row
      OBVIOUS
    <3> QED
      BY <1>6, <1>9, <2>1, <3>1
  <2>2. CASE count # 0
    <3>1. h \in Seq(HistoryRows) /\ Len(h) = count
      BY <1>6, <2>2 DEF HistoryIs
    <3>2. h # Absent
      BY <3>1, HistoryAssumption
    <3>3. h \in Seq(HistoryRows \cup {row})
      BY <3>1
    <3>4. PICK X : X = HistoryRows \cup {row}
      OBVIOUS
    <3>5. h \in Seq(X) /\ row \in X
      BY <3>3, <3>4
    <3>6. /\ DOMAIN Append(h, row) = 1..(count + 1) /\ DOMAIN h = 1..count
          /\ \A i \in 1..count : Append(h, row)[i] = h[i]
          /\ Append(h, row)[count + 1] = row
      BY <3>1, <3>5, AppendIs
    <3> QED
      BY <1>9, <3>2, <3>6
  <2> QED
    BY <2>1, <2>2
<1>11. SameBefore(h, pass - 1, g)
  BY <1>4, <1>10 DEF SameBefore
<1> QED
  BY <1>4, <1>7, <1>8, <1>10, <1>11 DEF h, g

LEMMA RowsStart ==
    ASSUME RowsInv, NEW c \in Configs, Start(c), TurnInv
    PROVE  RowsInv'
<1>1. pc = "waiting" /\ pc' = "pass" /\ pass' = 0 /\ epochs' = epochs
  BY DEF Start, TurnInv
<1>2. epochs' = 0 /\ RowCount' = 0
  BY <1>1 DEF RowsInv, RowCount
<1> QED
  BY <1>1, <1>2 DEF RowsInv, RowsAre, EpochsBy

LEMMA RowsKept ==
    ASSUME RowsInv, UNCHANGED <<dataVars, epochs, bestAp>>, RowCount' = RowCount,
           pc # "waiting", pc' # "waiting", Recording, files'.history = files.history
    PROVE  RowsInv'
<1>1. config' = config /\ plan' = plan /\ Len(views') = Len(views)
  BY DEF dataVars
<1> QED
  BY <1>1 DEF RowsInv

\* A row recorded is that of the pass just made.
LEMMA RowsRecord ==
    ASSUME TrainingData, TurnInv, HistoryInv, RowsInv, NEW found, Record(found)
    PROVE  RowsInv'
<1>1. /\ pc = "record" /\ UNCHANGED <<dataVars, pass, left, steps>>
      /\ epochs' = EpochsAfter /\ pc' \in {"pass", "state"}
  BY DEF Record
<1>2. PICK n \in Nat : n = Len(views) /\ n > 0
  BY <1>1, DataHere
<1>3. /\ config \in Configs /\ Len(plan) = PassCount(config, n)
      /\ plan = TrainingSchedule(config, n)
  BY <1>1, <1>2, DataHere
<1>4. left = <<>> /\ pass > 0
  BY <1>1 DEF TurnInv
<1>5. steps = StepsBy(config, n, pass) /\ pass \in 1..PassCount(config, n)
  BY <1>1, <1>2, <1>3, <1>4, StepsHere
<1>6. PICK count \in Nat : count = pass - 1 /\ pass = count + 1
  BY <1>4, <1>5
<1>7. RowCount = count /\ RowCount' = pass
  BY <1>1, <1>6 DEF RowCount
<1>8. /\ config' = config /\ plan' = plan /\ Len(views') = n /\ pass' = pass
  BY <1>1, <1>2 DEF dataVars
<1>9. epochs = EpochsBy(config, n, count) /\ RowsAre(config, n, files.history, count)
  BY <1>1, <1>2, <1>7 DEF RowsInv, Recording
<1>10. EpochsAfter = EpochsBy(config, n, pass)
  <2>1. EpochsBy(config, n, pass) =
           IF ~ByBudget(config) \/ Len(plan[pass]) = n
           THEN EpochsBy(config, n, pass - 1) + 1 ELSE EpochsBy(config, n, pass - 1)
    BY <1>2, <1>3, <1>5, EpochsGrow
  <2> QED
    BY <1>2, <1>6, <1>9, <2>1 DEF EpochsAfter
<1>11. PICK score : /\ files'.history[pass] = Row(score)
                    /\ ByBudget(config) /\ pass = Len(plan) => bestAp' = score
  BY HistoryWritten
<1>12. /\ count > 0 => \A i \in 1..count : files'.history[i] = files.history[i]
  BY <1>6, HistoryWritten DEF SameBefore
<1>13. Row(score).score = score
  BY DEF Row
<1>14. RowIs(config, n, pass, Row(score))
  <2>1. ASSUME ByBudget(config)
        PROVE  /\ Row(score).number = pass
               /\ Row(score).indices = TrainingSchedule(config, n)[pass]
               /\ Row(score).whole = (Len(TrainingSchedule(config, n)[pass]) = n)
               /\ Row(score).first = steps - Len(plan[pass]) + 1
    BY <1>2, <1>3, <2>1 DEF Row
  <2>2. ~ ByBudget(config) => Row(score).number = EpochsAfter /\ EpochsAfter = pass
    BY <1>10 DEF Row, EpochsBy
  <2>3. steps - Len(plan[pass]) + 1 = StepsBy(config, n, pass - 1) + 1
    <3>1. /\ StepsBy(config, n, pass - 1) \in Nat /\ LengthOf(config, n, pass) \in Nat
          /\ StepsBy(config, n, pass) = StepsBy(config, n, pass - 1) + LengthOf(config, n, pass)
      BY <1>2, <1>3, <1>5, StepsAre
    <3>2. Len(plan[pass]) = LengthOf(config, n, pass)
      BY <1>2, <1>3, <1>5, PlanInTurn DEF PassIs
    <3> QED
      BY <1>5, <3>1, <3>2
  <2> QED
    BY <2>1, <2>2, <2>3 DEF RowIs
<1>15. RowsAre(config, n, files'.history, pass)
  <2> SUFFICES ASSUME NEW i \in 1..pass
               PROVE  RowIs(config, n, i, files'.history[i])
    BY DEF RowsAre
  <2>1. CASE i = pass
    BY <1>11, <1>14, <2>1
  <2>2. CASE i # pass
    <3>1. i \in 1..count /\ count > 0
      BY <1>6, <2>2
    <3> QED
      BY <1>9, <1>12, <3>1 DEF RowsAre
  <2> QED
    BY <2>1, <2>2
<1>16. ByBudget(config) /\ pass = Len(plan) => bestAp' = files'.history[pass].score
  BY <1>11, <1>13
<1> QED
  BY <1>1, <1>7, <1>8, <1>10, <1>15, <1>16 DEF RowsInv

LEMMA RowsWorking ==
    ASSUME TrainingData, TurnInv, HistoryInv, RowsInv, Working
    PROVE  RowsInv'
<1>0. DOMAIN files = RunFiles
  BY DEF TurnInv
<1>1. CASE BeginPass
  <2>1. /\ pc = "pass" /\ pc' = "step" /\ pass' = pass + 1
        /\ UNCHANGED <<dataVars, epochs, bestAp, files>>
    BY <1>1 DEF BeginPass
  <2>2. pass \in Int
    BY <2>1 DEF TurnInv, Progress
  <2>3. RowCount' = RowCount
    BY <2>1, <2>2 DEF RowCount
  <2> QED
    BY <2>1, <2>3, RowsKept DEF Recording
<1>2. CASE Step
  <2>1. /\ pc = "step" /\ pc' \in {"step", "record"}
        /\ UNCHANGED <<dataVars, pass, epochs, bestAp, files>>
    BY <1>2 DEF Step
  <2>2. RowCount' = RowCount
    BY <2>1 DEF RowCount
  <2> QED
    BY <2>1, <2>2, RowsKept DEF Recording
<1>3. CASE SaveState \/ SaveBest \/ SaveCheckpoint
  <2>1. /\ pc \in {"state", "best", "checkpoint"} /\ pc' \in {"best", "checkpoint", "pass"}
        /\ UNCHANGED <<dataVars, pass, epochs, bestAp>>
    BY <1>3 DEF SaveState, SaveBest, SaveCheckpoint
  <2>2. PICK file, content : /\ file \in {"state", "best", "checkpoint"}
                             /\ files' = [files EXCEPT ![file] = content]
    BY <1>3 DEF SaveState, SaveBest, SaveCheckpoint, Write
  <2>3. files'.history = files.history
    BY <1>0, <2>2 DEF RunFiles
  <2>4. RowCount' = RowCount
    BY <2>1 DEF RowCount
  <2> QED
    BY <2>1, <2>3, <2>4, RowsKept DEF Recording
<1>4. CASE \E found \in Detections : Record(found)
  BY <1>4, RowsRecord
<1>5. CASE WriteSummary \/ LogArtifacts \/ Fail \/ Kill
  <2>1. pc' \in {"artifacts", "done", "failed", "killed"}
    BY <1>5 DEF WriteSummary, LogArtifacts, Fail, Kill
  <2> QED
    BY <2>1 DEF RowsInv, Recording
<1> QED
  BY <1>1, <1>2, <1>3, <1>4, <1>5 DEF Working

LEMMA RowsStep ==
    ASSUME TrainingData, TurnInv, UnseenInv, HistoryInv, RowsInv, [Next]_vars
    PROVE  RowsInv'
<1>1. CASE UNCHANGED trainVars /\ files'.history = files.history
  <2>1. UNCHANGED <<dataVars, epochs, bestAp, pc, pass>> /\ RowCount' = RowCount
    BY <1>1 DEF trainVars, dataVars, RowCount
  <2> QED
    BY <1>1, <2>1 DEF RowsInv, dataVars, Recording
<1>2. CASE \E c \in Configs : Start(c)
  BY <1>2, RowsStart
<1>3. CASE Working
  BY <1>3, RowsWorking
<1>4. CASE Evaluate
  BY <1>1, <1>4, EvaluationWrites DEF RunFiles
<1> QED
  BY <1>1, <1>2, <1>3, <1>4, RunStep DEF runVars

\* The checkpoint belongs to the weights on disk, and says so.
MarkIs(c, checkpoint, state, h, count) ==
    /\ checkpoint.state = state
    /\ IF ByBudget(c) THEN checkpoint.epoch = Nothing /\ checkpoint.step = c.budget
       ELSE checkpoint.epoch \in 1..count /\ h[checkpoint.epoch].last = state

\* The files of the run pass the checks of an evaluator (validate_training).
IsComplete ==
    /\ ValidTraining(config, Len(views), files.summary, files.checkpoint, files.history)
    /\ files.checkpoint.state = files.state
    /\ files.best.predictions \in Seq(Predicted(ValidationImages))

\* State, best and checkpoint belong to the rows written, and a summary is only ever
\* beside files an evaluator accepts.
MarkInv ==
    /\ pc \in {"state", "best", "checkpoint"} /\ ByBudget(config) => pass = Len(plan)
    /\ pc \in {"best", "checkpoint"} => files.state = steps
    /\ pc = "checkpoint" => files.best.predictions \in Seq(Predicted(ValidationImages))
    /\ pc \in {"pass", "step", "record"} /\ files.state # Absent =>
         /\ MarkIs(config, files.checkpoint, files.state, files.history, RowCount)
         /\ files.best.predictions \in Seq(Predicted(ValidationImages))
    /\ Readable("summary") => IsComplete

\* What validate_training finds of a run that ended its budget.
Accounted(c, n, h, summary, checkpoint) ==
    LET K == PassCount(c, n)
    IN  /\ HistoryIs(c, n, h, K) /\ RowsAre(c, n, h, K)
        /\ summary.epochs = EpochsBy(c, n, K)
        /\ ByBudget(c) => /\ summary.steps = c.budget /\ summary.partial = c.budget % n
                          /\ summary.best = h[K].score
        /\ MarkIs(c, checkpoint, checkpoint.state, h, K)
        /\ ~ByBudget(c) => \E b \in DOMAIN h : FirstBest(h, b) /\ h[b].last = checkpoint.state

\* A run that spent its budget passes the checks for one.
LEMMA BudgetAccepted ==
    ASSUME NEW c \in Configs, NEW n \in Nat, n > 0, NEW h, NEW summary, NEW checkpoint,
           ByBudget(c), Accounted(c, n, h, summary, checkpoint)
    PROVE  ValidBudget(c, n, summary, checkpoint, h)
<1>1. PICK K \in Nat : K = PassCount(c, n) /\ K > 0
  BY PassCountIs
<1>2. PICK q \in Nat : q = c.budget \div n /\ q <= K
  BY <1>1, WholePasses
<1>3. PICK r : r = c.budget % n
  OBVIOUS
<1>4. K = q + (IF r > 0 THEN 1 ELSE 0)
  BY <1>1, <1>2, <1>3, WholePasses
<1>5. /\ HistoryIs(c, n, h, K) /\ RowsAre(c, n, h, K)
      /\ summary.steps = c.budget /\ summary.partial = r /\ summary.best = h[K].score
      /\ checkpoint.epoch = Nothing /\ checkpoint.step = c.budget
  BY <1>1, <1>3 DEF Accounted, MarkIs
<1>6. summary.epochs = q
  BY <1>1, <1>2 DEF Accounted, EpochsBy, Least
<1>7. ASSUME NEW p \in 1..K
      PROVE  ValidPass(c, n, h, p)
  <2>1. RowIs(c, n, p, h[p])
    BY <1>5 DEF RowsAre
  <2>2. PICK consumed : consumed = Consumed(c, n)
    OBVIOUS
  <2>3. PICK indices : indices = TrainingSchedule(c, n)[p]
    OBVIOUS
  <2>4. p - 1 \in 0..K
    OBVIOUS
  <2>5. consumed[p - 1] = StepsBy(c, n, p - 1)
    BY <1>1, <2>2, <2>4, ConsumedIs
  <2>6. Len(indices) = LengthOf(c, n, p)
    BY <1>1, <2>3, PlanInTurn DEF PassIs
  <2>7. h[p].last = consumed[p - 1] + Len(indices)
    BY <1>1, <1>5, <2>5, <2>6, StepsAre, SMTT(30) DEF HistoryIs
  <2>8. (h[p].score # Nothing) = (p = K)
    <3>1. p < K => h[p].score = Nothing
      BY <1>1, <1>5 DEF HistoryIs
    <3>2. ~(p < K) => h[p].score \in Nat
      BY <1>1, <1>5 DEF HistoryIs
    <3> QED
      BY <3>1, <3>2, NothingAssumption
  <2> QED
    BY <1>1, <2>1, <2>2, <2>3, <2>5, <2>7, <2>8 DEF ValidPass, RowIs
<1>8. Len(h) = K
  BY <1>5 DEF HistoryIs
<1> QED
  BY <1>2, <1>3, <1>4, <1>5, <1>6, <1>7, <1>8 DEF ValidBudget

\* A run by epochs passes the checks for one.
LEMMA EpochsAccepted ==
    ASSUME NEW c \in Configs, NEW n \in Nat, n > 0, NEW h, NEW summary, NEW checkpoint,
           ~ ByBudget(c), Accounted(c, n, h, summary, checkpoint)
    PROVE  ValidEpochs(c, summary, checkpoint, h)
<1>1. PICK K \in Nat : K = PassCount(c, n) /\ K > 0
  BY PassCountIs
<1>2. K = c.epochs
  BY <1>1 DEF PassCount
<1>3. /\ HistoryIs(c, n, h, K) /\ RowsAre(c, n, h, K)
      /\ summary.epochs = K
      /\ checkpoint.epoch \in 1..K /\ h[checkpoint.epoch].last = checkpoint.state
  BY <1>1 DEF Accounted, MarkIs, EpochsBy
<1>4. PICK b \in DOMAIN h : FirstBest(h, b) /\ h[b].last = checkpoint.state
  BY <1>1 DEF Accounted
<1>5. h \in Seq(HistoryRows) /\ Len(h) = K /\ DOMAIN h = 1..K
  BY <1>3 DEF HistoryIs
<1>6. \A i \in 1..K : h[i].score \in Nat /\ h[i].last = StepsBy(c, n, i)
  BY <1>3 DEF HistoryIs
<1>7. Best(h) = b
  BY <1>4, <1>5, <1>6, FirstBestIs
<1>8. \A i \in 1..K : h[i].number = i
  BY <1>3 DEF RowsAre, RowIs
<1>9. PICK l \in Nat : l = LengthOf(c, n, 1) /\ l > 0
  BY <1>1, StepsAre
<1>10. \A i \in 1..K : StepsBy(c, n, i) = l * i
  BY <1>9 DEF StepsBy
<1>11. PICK e \in 1..K : e = checkpoint.epoch
  BY <1>3
<1>12. b \in 1..K /\ l * e = l * b
  BY <1>3, <1>4, <1>5, <1>6, <1>10, <1>11
<1>13. \A i, j \in 1..K : i < j => l * i < l * j
  <2> TAKE i, j \in 1..K
  <2>1. PICK k \in Int : k = j - 1
    OBVIOUS
  <2>2. l * k = l * j - l /\ (i <= k => l * i <= l * k) /\ l * j \in Int /\ l * i \in Int
    BY <2>1, Multiples
  <2> QED
    BY <1>9, <2>1, <2>2
<1>14. \A i, j \in 1..K : i < j => l * i # l * j
  <2> TAKE i, j \in 1..K
  <2>1. l * i \in Int /\ l * j \in Int
    BY Multiples
  <2>2. i < j => l * i < l * j
    BY <1>13
  <2> QED
    BY <2>1, <2>2
<1>15. e = b
  <2>1. ~ (e < b)
    BY <1>12, <1>14, Zenon
  <2>2. ~ (b < e)
    BY <1>12, <1>14, Zenon
  <2> QED
    BY <1>12, <2>1, <2>2
<1> QED
  BY <1>2, <1>3, <1>5, <1>7, <1>8, <1>11, <1>15 DEF ValidEpochs

\* A summary is written over files that pass.
LEMMA SummaryAccepted ==
    ASSUME TrainingData, TurnInv, HistoryInv, RowsInv, MarkInv, WriteSummary
    PROVE  IsComplete'
<1>1. /\ pc = "pass" /\ pass = Len(plan) /\ files.state # Absent
      /\ UNCHANGED <<dataVars, steps>>
      /\ files' = [files EXCEPT !["summary"] =
            [epochs |-> epochs, steps |-> steps, best |-> bestAp, state |-> files.state,
             partial |-> IF ByBudget(config) THEN steps % Len(views) ELSE 0]]
  BY DEF WriteSummary, Write
<1>2. PICK n \in Nat : n = Len(views) /\ n > 0
  BY <1>1, DataHere
<1>3. PICK K \in Nat : K = PassCount(config, n) /\ K > 0 /\ config \in Configs /\ pass = K
  BY <1>1, <1>2, DataHere, PassCountIs
<1>4. PICK summary : summary = [epochs |-> epochs, steps |-> steps, best |-> bestAp,
         state |-> files.state, partial |-> IF ByBudget(config) THEN steps % n ELSE 0]
  OBVIOUS
<1>5. PICK h : h = files.history
  OBVIOUS
<1>6. PICK checkpoint : checkpoint = files.checkpoint
  OBVIOUS
<1>7. DOMAIN files = RunFiles /\ left = <<>>
  BY <1>1 DEF TurnInv
<1>8. /\ files'.summary = summary /\ files'.history = h /\ files'.checkpoint = checkpoint
      /\ files'.best = files.best /\ files'.state = files.state
      /\ config' = config /\ Len(views') = n /\ samples' = samples
  BY <1>1, <1>2, <1>4, <1>5, <1>6, <1>7 DEF RunFiles, dataVars
<1>9. RowCount = K
  BY <1>1, <1>3 DEF RowCount
<1>10. HistoryIs(config, n, h, K) /\ KeepsBest(h, bestAp)
  BY <1>1, <1>2, <1>3, <1>5, <1>9 DEF HistoryInv
<1>11. /\ epochs = EpochsBy(config, n, K) /\ RowsAre(config, n, h, K)
       /\ ByBudget(config) => bestAp = h[K].score
  BY <1>1, <1>2, <1>3, <1>5, <1>9 DEF RowsInv, Recording
<1>12. MarkIs(config, checkpoint, files.state, h, K) /\ checkpoint.state = files.state
  BY <1>1, <1>5, <1>6, <1>9 DEF MarkInv, MarkIs
<1>13. files.best.predictions \in Seq(Predicted(ValidationImages))
  BY <1>1 DEF MarkInv
<1>14. ByBudget(config) => steps = config.budget
  BY <1>1, <1>3, <1>7, StepsHere
<1>15. Accounted(config, n, h, summary, checkpoint)
  <2>1. ASSUME ~ ByBudget(config)
        PROVE  \E b \in DOMAIN h : FirstBest(h, b) /\ h[b].last = checkpoint.state
    <3>1. \E b \in DOMAIN h : FirstBest(h, b) /\ files.state = h[b].last
      BY <1>1, <1>10, <2>1 DEF KeepsBest
    <3> QED
      BY <1>12, <3>1
  <2>2. /\ summary.epochs = epochs /\ summary.steps = steps /\ summary.best = bestAp
        /\ ByBudget(config) => summary.partial = steps % n
    BY <1>4
  <2> QED
    BY <1>3, <1>10, <1>11, <1>12, <1>14, <2>1, <2>2 DEF Accounted
<1>16. ValidTraining(config, n, summary, checkpoint, h)
  BY <1>2, <1>3, <1>15, BudgetAccepted, EpochsAccepted DEF ValidTraining
<1>17. (files.best.predictions \in Seq(Predicted(ValidationImages)))'
  BY <1>8, <1>13 DEF Predicted, ValidationImages
<1> QED
  BY <1>8, <1>12, <1>16, <1>17 DEF IsComplete

LEMMA MarkRecord ==
    ASSUME TrainingData, TurnInv, HistoryInv, MarkInv, NEW found, Record(found)
    PROVE  MarkInv'
<1>1. /\ pc = "record" /\ UNCHANGED <<dataVars, pass, left, steps>>
      /\ pc' \in {"pass", "state"} /\ (pc' = "state" => Validates)
  BY DEF Record
<1>2. PICK content : files' = [files EXCEPT !["history"] = content]
  BY DEF Record, Write
<1>3. DOMAIN files = RunFiles /\ left = <<>> /\ pass > 0 /\ ~ Readable("summary")
  BY <1>1 DEF TurnInv
<1>4. /\ files'.state = files.state /\ files'.checkpoint = files.checkpoint
      /\ files'.best = files.best /\ files'.summary = files.summary
  BY <1>2, <1>3 DEF RunFiles
<1>5. config' = config /\ samples' = samples /\ plan' = plan
  BY <1>1 DEF dataVars
<1>6. pass \in 1..Len(plan) /\ (ByBudget(config) => (steps = config.budget <=> pass = Len(plan)))
  BY <1>1, <1>3, StepsHere
<1>7. PICK count \in Nat : count = pass - 1 /\ pass = count + 1
  BY <1>3, <1>6
<1>8. RowCount = count /\ RowCount' = pass
  BY <1>1, <1>7 DEF RowCount
<1>9. ASSUME NEW checkpoint, NEW state, MarkIs(config, checkpoint, state, files.history, count)
      PROVE  MarkIs(config, checkpoint, state, files'.history, pass)
  <2>1. SameBefore(files.history, count, files'.history)
    BY <1>7, HistoryWritten
  <2>2. ASSUME ~ ByBudget(config)
        PROVE  checkpoint.epoch \in 1..pass /\ files'.history[checkpoint.epoch].last = state
    <3>1. PICK e \in 1..count : e = checkpoint.epoch /\ files.history[e].last = state
      BY <1>9, <2>2 DEF MarkIs
    <3>2. files'.history[e] = files.history[e] /\ e \in 1..pass
      BY <1>7, <2>1, <3>1 DEF SameBefore
    <3> QED
      BY <3>1, <3>2
  <2> QED
    BY <1>9, <2>2 DEF MarkIs
<1>10. ASSUME files.state # Absent
       PROVE  /\ MarkIs(config, files.checkpoint, files.state, files'.history, pass)
              /\ files.best.predictions \in Seq(Predicted(ValidationImages))
  BY <1>1, <1>8, <1>9, <1>10 DEF MarkInv
<1>11. Predicted(ValidationImages)' = Predicted(ValidationImages)
  BY <1>5 DEF Predicted, InBounds, ValidationImages
<1>12. ~ Readable("summary")'
  BY <1>3, <1>4 DEF Readable
<1>13. pc' = "state" /\ ByBudget(config) => pass = Len(plan)
  BY <1>1, <1>6 DEF Validates
<1> QED
  BY <1>1, <1>4, <1>5, <1>8, <1>10, <1>11, <1>12, <1>13 DEF MarkInv

\* The checkpoint closes over the state and the row it was taken from.
LEMMA MarkCheckpoint ==
    ASSUME TrainingData, TurnInv, HistoryInv, RowsInv, MarkInv, SaveCheckpoint
    PROVE  MarkInv'
<1>1. /\ pc = "checkpoint" /\ pc' = "pass" /\ UNCHANGED <<dataVars, pass, left, steps>>
      /\ files' = [files EXCEPT !["checkpoint"] =
             [state   |-> files.state,
              epoch   |-> IF ByBudget(config) THEN Nothing ELSE epochs,
              step    |-> steps,
              history |-> IF ByBudget(config) THEN files.history ELSE Nothing]]
  BY DEF SaveCheckpoint, Write
<1>2. DOMAIN files = RunFiles /\ left = <<>> /\ ~ Readable("summary")
  BY <1>1 DEF TurnInv
<1>3. RowCount = pass /\ RowCount' = pass /\ RowCount > 0
  BY <1>1 DEF RowCount, HistoryInv
<1>4. PICK n \in Nat : n = Len(views) /\ n > 0
  BY <1>1, DataHere
<1>5. /\ steps = StepsBy(config, n, pass) /\ pass \in 1..Len(plan)
      /\ ByBudget(config) => (steps = config.budget <=> pass = Len(plan))
  BY <1>1, <1>2, <1>3, <1>4, StepsHere
<1>6. HistoryIs(config, n, files.history, pass) /\ epochs = EpochsBy(config, n, pass)
  BY <1>1, <1>3, <1>4 DEF HistoryInv, RowsInv, Recording
<1>7. /\ files.state = steps
      /\ ByBudget(config) => pass = Len(plan)
      /\ files.best.predictions \in Seq(Predicted(ValidationImages))
  BY <1>1 DEF MarkInv
<1>8. /\ files'.checkpoint.state = files.state
      /\ files'.checkpoint.epoch = (IF ByBudget(config) THEN Nothing ELSE epochs)
      /\ files'.checkpoint.step = steps
      /\ files'.state = files.state /\ files'.history = files.history
      /\ files'.best = files.best /\ files'.summary = files.summary
  BY <1>1, <1>2 DEF RunFiles
<1>9. pass \in 1..pass
  BY <1>5
<1>10. ~ ByBudget(config) => epochs = pass /\ files.history[pass].last = files.state
  BY <1>5, <1>6, <1>7, <1>9 DEF EpochsBy, HistoryIs
<1>11. MarkIs(config, files'.checkpoint, files.state, files.history, pass)
  BY <1>5, <1>7, <1>8, <1>9, <1>10 DEF MarkIs
<1>12. config' = config /\ samples' = samples
  BY <1>1 DEF dataVars
<1>13. Predicted(ValidationImages)' = Predicted(ValidationImages)
  BY <1>12 DEF Predicted, InBounds, ValidationImages
<1>14. ~ Readable("summary")'
  BY <1>2, <1>8 DEF Readable
<1> QED
  BY <1>1, <1>3, <1>7, <1>8, <1>11, <1>12, <1>13, <1>14 DEF MarkInv

LEMMA MarkWorking ==
    ASSUME TrainingData, TurnInv, HistoryInv, RowsInv, BestInv, MarkInv, Working
    PROVE  MarkInv'
<1>0. /\ pc # "waiting" /\ config' = config /\ samples' = samples /\ plan' = plan
      /\ views' = views /\ DOMAIN files = RunFiles
      /\ Predicted(ValidationImages)' = Predicted(ValidationImages)
  <2>1. pc # "waiting" /\ UNCHANGED dataVars
    BY WorkingKeeps
  <2>2. config' = config /\ samples' = samples /\ plan' = plan /\ views' = views
    BY <2>1 DEF dataVars
  <2>3. DOMAIN files = RunFiles
    BY DEF TurnInv
  <2> QED
    BY <2>1, <2>2, <2>3 DEF Predicted, InBounds, ValidationImages
<1>1. CASE BeginPass \/ Step
  <2>1. /\ pc \in {"pass", "step"} /\ pc' \in {"step", "record"} /\ files' = files
        /\ ~ Readable("summary")
    BY <1>0, <1>1 DEF BeginPass, Step, TurnInv
  <2>2. pass \in Int
    BY <1>0 DEF TurnInv, Progress
  <2>3. RowCount' = RowCount
    BY <1>1, <2>2 DEF BeginPass, Step, RowCount
  <2>4. ~ Readable("summary")'
    BY <2>1 DEF Readable
  <2> QED
    BY <1>0, <2>1, <2>3, <2>4 DEF MarkInv
<1>2. CASE SaveState
  <2>1. /\ pc = "state" /\ pc' = "best" /\ UNCHANGED <<pass, steps>>
        /\ files' = [files EXCEPT !["state"] = steps] /\ ~ Readable("summary")
    BY <1>0, <1>2 DEF SaveState, Write, TurnInv
  <2>2. files'.state = steps /\ files'.summary = files.summary
    BY <1>0, <2>1 DEF RunFiles
  <2> QED
    BY <1>0, <2>1, <2>2 DEF MarkInv, Readable
<1>3. CASE SaveBest
  <2>1. /\ pc = "best" /\ pc' = "checkpoint" /\ UNCHANGED <<pass, steps>>
        /\ files' = [files EXCEPT !["best"] = latest] /\ ~ Readable("summary")
    BY <1>0, <1>3 DEF SaveBest, Write, TurnInv
  <2>2. files'.best = latest /\ files'.summary = files.summary /\ files'.state = files.state
    BY <1>0, <2>1 DEF RunFiles
  <2>3. latest.predictions \in Seq(Predicted(ValidationImages))
    BY <2>1 DEF BestInv
  <2> QED
    BY <1>0, <2>1, <2>2, <2>3 DEF MarkInv, Readable
<1>4. CASE SaveCheckpoint
  BY <1>4, MarkCheckpoint
<1>5. CASE \E found \in Detections : Record(found)
  BY <1>5, MarkRecord
<1>6. CASE WriteSummary
  <2>1. pc' = "artifacts"
    BY <1>6 DEF WriteSummary
  <2>2. IsComplete'
    BY <1>6, SummaryAccepted
  <2> QED
    BY <2>1, <2>2 DEF MarkInv
<1>7. CASE LogArtifacts \/ Fail \/ Kill
  <2>1. pc' \in {"done", "failed", "killed"} /\ ~ WriteSummary
    BY <1>7 DEF LogArtifacts, Fail, Kill, WriteSummary
  <2>2. Readable("summary")' = Readable("summary")
    BY <2>1, SettledRun
  <2>3. ASSUME Readable("summary")
        PROVE  IsComplete'
    <3>1. pc \in {"artifacts", "done", "failed", "killed"}
      BY <1>0, <2>3 DEF TurnInv
    <3>2. /\ files'.summary = files.summary /\ files'.checkpoint = files.checkpoint
          /\ files'.history = files.history /\ files'.best = files.best
          /\ files'.state = files.state
      BY <1>0, <1>7, <3>1 DEF LogArtifacts, Fail, Kill, Write, RunFiles
    <3>3. IsComplete
      BY <2>3 DEF MarkInv
    <3> QED
      BY <1>0, <3>2, <3>3 DEF IsComplete
  <2> QED
    BY <2>1, <2>2, <2>3 DEF MarkInv
<1> QED
  BY <1>1, <1>2, <1>3, <1>4, <1>5, <1>6, <1>7 DEF Working

LEMMA MarkKept ==
    ASSUME MarkInv, UNCHANGED trainVars, UnseenInv,
           \A file \in RunFiles \ {"validation", "test"} : files'[file] = files[file]
    PROVE  MarkInv'
<1>1. /\ files'.summary = files.summary /\ files'.checkpoint = files.checkpoint
      /\ files'.history = files.history /\ files'.best = files.best
      /\ files'.state = files.state
  BY DEF RunFiles
<1>2. /\ pc' = pc /\ config' = config /\ samples' = samples /\ plan' = plan /\ views' = views
      /\ pass' = pass /\ steps' = steps /\ RowCount' = RowCount
  BY DEF trainVars, RowCount
<1>3. Predicted(ValidationImages)' = Predicted(ValidationImages)
  BY <1>2 DEF Predicted, InBounds, ValidationImages
<1>4. IsComplete => IsComplete'
  BY <1>1, <1>2, <1>3 DEF IsComplete
<1>5. Readable("summary")' = Readable("summary")
  BY <1>1 DEF Readable
<1> QED
  BY <1>1, <1>2, <1>3, <1>4, <1>5 DEF MarkInv

LEMMA MarkStep ==
    ASSUME TrainingData, TurnInv, UnseenInv, HistoryInv, RowsInv, BestInv, MarkInv, [Next]_vars
    PROVE  MarkInv'
<1>1. CASE UNCHANGED runVars
  BY <1>1, MarkKept DEF runVars
<1>2. CASE \E c \in Configs : Start(c)
  <2>1. /\ pc' = "pass" /\ files' = files /\ files["state"] = Absent /\ files["summary"] = Absent
    BY <1>2 DEF Start, TurnInv, RunFiles
  <2> QED
    BY <2>1 DEF MarkInv, Readable
<1>3. CASE Working
  BY <1>3, MarkWorking
<1>4. CASE Evaluate
  BY <1>4, EvaluationWrites, MarkKept
<1> QED
  BY <1>1, <1>2, <1>3, <1>4, RunStep

LEMMA MarkImplies ==
    ASSUME MarkInv
    PROVE  CompleteIsAccepted
<1> SUFFICES ASSUME Readable("summary")
             PROVE  /\ ValidTraining(config, Len(views), files.summary, files.checkpoint, files.history)
                    /\ files.checkpoint.state = files.state
                    /\ \A i \in DOMAIN files.best.predictions :
                         LET p == files.best.predictions[i]
                             image == ValidationImages[p.image]
                         IN  /\ HasArea(p.box) /\ p.category \in 1..Classes
                             /\ p.box[1] >= 0 /\ p.box[2] >= 0
                             /\ p.box[3] <= image.width /\ p.box[4] <= image.height
  BY DEF CompleteIsAccepted
<1>1. IsComplete
  BY DEF MarkInv
<1>2. PICK rows : rows = files.best.predictions /\ rows \in Seq(Predicted(ValidationImages))
  BY <1>1 DEF IsComplete
<1>3. \A i \in DOMAIN rows :
         LET p == rows[i]
             image == ValidationImages[p.image]
         IN  /\ HasArea(p.box) /\ p.category \in 1..Classes
             /\ p.box[1] >= 0 /\ p.box[2] >= 0
             /\ p.box[3] <= image.width /\ p.box[4] <= image.height
  <2> TAKE i \in DOMAIN rows
  <2>1. rows[i] \in Predicted(ValidationImages)
    BY <1>2
  <2> QED
    BY <2>1 DEF Predicted, InBounds
<1> QED
  BY <1>1, <1>2, <1>3 DEF IsComplete

-----------------------------------------------------------------------------
(* The invariants of a run together *)

\* All of them together: the inductive invariant of releases, training, evaluation
\* and audit.
RunInv ==
    /\ ReleaseInv /\ TrainingData /\ UnseenInv /\ TurnInv /\ IdleInv
    /\ HistoryInv /\ RowsInv /\ MarkInv /\ SelectInv /\ BestInv /\ AuditInv

LEMMA RunInitInv ==
    EvidenceInit => RunInv
<1> SUFFICES ASSUME EvidenceInit PROVE RunInv
  OBVIOUS
<1>1. /\ pc = "waiting" /\ samples.train = <<>> /\ evaluator = Idle
      /\ pass = 0 /\ left = <<>> /\ steps = 0 /\ epochs = 0 /\ bestAp = -1
      /\ analysis = Absent /\ audit = Absent
      /\ DOMAIN files = RunFiles /\ \A file \in RunFiles : files[file] = Absent
  BY DEF EvidenceInit, Init, Idle, RunFiles
<1>2. \A file \in RunFiles : ~ Readable(file)
  BY <1>1 DEF Readable
<1>3. /\ files["validation"] = Absent /\ files["test"] = Absent
      /\ ~ Readable("summary") /\ ~ Readable("best")
  BY <1>1, <1>2 DEF RunFiles
<1>4. evaluator.pc = "idle"
  BY <1>1 DEF Idle
<1>5. ReleaseInv
  BY ReleaseInitInv DEF EvidenceInit
<1>6. TrainingData /\ IdleInv
  BY <1>1 DEF TrainingData, IdleInv
<1>7. UnseenInv
  BY <1>1, <1>3, <1>4 DEF UnseenInv, Readable
<1>8. TurnInv
  BY <1>1, <1>3 DEF TurnInv
<1>9. HistoryInv /\ RowsInv
  BY <1>1 DEF HistoryInv, RowsInv, Recording
<1>10. MarkInv /\ BestInv /\ AuditInv
  BY <1>1, <1>3 DEF MarkInv, BestInv, AuditInv
<1>11. SelectInv
  BY <1>1, <1>3, <1>4 DEF SelectInv, Readable
<1> QED
  BY <1>5, <1>6, <1>7, <1>8, <1>9, <1>10, <1>11 DEF RunInv

LEMMA RunStepInv ==
    RunInv /\ [Next]_vars => RunInv'
<1> SUFFICES ASSUME RunInv, [Next]_vars PROVE RunInv'
  OBVIOUS
<1>1. /\ ReleaseInv /\ TrainingData /\ UnseenInv /\ TurnInv /\ IdleInv
      /\ HistoryInv /\ RowsInv /\ MarkInv /\ SelectInv /\ BestInv /\ AuditInv
  BY DEF RunInv
<1>2. ReleaseInv' /\ TrainingData' /\ UnseenInv'
  BY <1>1, ReleaseStep, DataStep, UnseenStep
<1>3. TurnInv' /\ IdleInv'
  BY <1>1, <1>2, TurnStep, IdleStep
<1>4. HistoryInv' /\ RowsInv' /\ MarkInv'
  BY <1>1, HistoryStep, RowsStep, MarkStep
<1>5. SelectInv' /\ BestInv' /\ AuditInv'
  BY <1>1, SelectStep, BestStep, AuditStep
<1> QED
  BY <1>2, <1>3, <1>4, <1>5 DEF RunInv

\* Releases, training, evaluation and audit keep what their files say in step.
THEOREM Invariance == Spec => []RunInv
<1>1. EvidenceInit => RunInv
  BY RunInitInv
<1>2. RunInv /\ [Next]_vars => RunInv'
  BY RunStepInv
<1> QED
  BY <1>1, <1>2, PTL DEF Spec

\* A release that verifies keeps every family, and every group the reviews of its
\* build name, in one split, whatever was edited or built since (verify_release).
THEOREM SplitsApart == Spec => []VerifiedIsApart
<1>1. RunInv => VerifiedIsApart
  BY ReleaseImplies DEF RunInv
<1> QED
  BY <1>1, Invariance, PTL

\* No result was measured on an image the run was trained on, nor on a relative of
\* one (train, evaluate).
THEOREM UnseenImages == Spec => []EvaluatedOnUnseen
<1>1. RunInv => EvaluatedOnUnseen
  BY UnseenImplies DEF RunInv
<1> QED
  BY <1>1, Invariance, PTL

\* Training takes each view in turn, and a finished run took its whole plan
\* (training_schedule, train).
THEOREM EvenTraining == Spec => []EachViewInTurn
<1>1. RunInv => EachViewInTurn
  BY TurnImplies DEF RunInv
<1> QED
  BY <1>1, Invariance, PTL

\* Every defect no larger than the overlap is whole in some view of the training
\* set (data.py).
THEOREM DefectsShown == Spec => []DefectsShownWhole
<1>1. RunInv => DefectsShownWhole
  BY ShownImplies DEF RunInv
<1> QED
  BY <1>1, Invariance, PTL

\* An evaluator accepts every run that finished (validate_training).
THEOREM CompleteRuns == Spec => []CompleteIsAccepted
<1>1. RunInv => CompleteIsAccepted
  BY MarkImplies DEF RunInv
<1> QED
  BY <1>1, Invariance, PTL

\* What was evaluated is the weights of the selected row, and a test is of no
\* smoke run (evaluate).
THEOREM SelectedWeights == Spec => []EvaluatedIsSelected
<1>1. RunInv => EvaluatedIsSelected
  BY SelectImplies DEF RunInv
<1> QED
  BY <1>1, Invariance, PTL

\* Audit, analysis and frontier count the same hits, false alarms and misses at
\* every threshold they share (match_image, point, frontier).
THEOREM OneMatching == Spec => []ThresholdsAgree
<1>1. RunInv => ThresholdsAgree
  BY ThresholdsImplies DEF RunInv
<1> QED
  BY <1>1, Invariance, PTL

\* No threshold, tried or not, is better than a point the audit names: none has
\* the precision asked for and more hits, and none above the zero-escape point
\* leaves every labelled image flagged (qualification.py).
THEOREM BestPoints == Spec => [](NamedPointsAreBest /\ NamedAreBest(0..100))
<1>1. RunInv => NamedPointsAreBest /\ NamedAreBest(0..100)
  BY NamedImplies DEF RunInv
<1> QED
  BY <1>1, Invariance, PTL
=============================================================================
