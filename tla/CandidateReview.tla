-------------------------- MODULE CandidateReview --------------------------
(***************************************************************************)
(* From an audited third-party dataset to a derived candidate: the packet  *)
(* of cases (ml/candidate_manifest.py over the fingerprints of             *)
(* ml/candidate_audit.py), the reviewers' batches of answers               *)
(* (ml/candidate_decisions.py) and the derivation (ml/candidate_derive.py).*)
(*                                                                         *)
(* What must not happen is that related captures end up in different       *)
(* groups, and later in different splits, without anybody having said so.  *)
(*                                                                         *)
(* Ledger revisions are immutable files; `batches` is the history one of   *)
(* them holds, and revisions that branch off it are other behaviours.      *)
(***************************************************************************)
EXTENDS Sequences, FiniteSets, UnionFind

CONSTANTS
    Inventories,   \* [rows: image -> [condition, split, pixels, dhash], pairs, boxes]
    Batches,       \* decision files: [reviewer, time, answers: case -> answer]
    NearDistance,  \* dHash distance that makes a case
    MaxBatches     \* BOUND on the length of a history

\* Images are numbered; every pair and box is one of theirs; times can be compared.
ASSUME CandidateAssumption ==
    /\ \A i \in Inventories :
         LET images == DOMAIN i.rows
         IN  /\ IsFiniteSet(images) /\ images = 1..Cardinality(images)
             /\ i.pairs \subseteq images \X images /\ i.boxes \subseteq images
    /\ \A b \in Batches : b.time \in Int

NoPacket == [cases |-> <<>>, groups |-> {}]
NotDerived == [groups |-> {}, blocked |-> {}, links |-> {}, applied |-> {}, at |-> 0]

VARIABLES
    inventory,   \* the audited rows
    packet,      \* [cases: the catalog in the order of its ids, groups]
    batches,     \* the history of the ledger at hand
    derived      \* [groups, blocked, links, applied, at: batches it saw]

candidateVars == <<inventory, packet, batches, derived>>

CandidateInit ==
    /\ inventory \in Inventories
    /\ packet = NoPacket /\ batches = <<>> /\ derived = NotDerived

Rows   == inventory.rows
Images == DOMAIN Rows

-----------------------------------------------------------------------------
(* build_packet *)

PixelLinks ==
    {link \in Images \X Images :
        /\ link[1] < link[2]
        /\ Rows[link[1]].pixels = Rows[link[2]].pixels}

\* leakage(): within a condition, across splits, up to the distance.
NearMatch(first, second) ==
    /\ first.condition = second.condition
    /\ first.split # second.split
    /\ first.pixels # second.pixels
    /\ Cardinality((first.dhash \ second.dhash) \cup (second.dhash \ first.dhash))
          <= NearDistance

\* Slip: the audit's display list, here cut after its first image, is reviewed.
NearPairsShown ==
    {link \in Images \X Images :
        /\ link[1] < link[2] /\ NearMatch(Rows[link[1]], Rows[link[2]])
        /\ \A i, j \in Images :
              i < j /\ NearMatch(Rows[i], Rows[j]) => link[1] <= i}

\* Audits cut their list of candidates; the packet's scan is exhaustive.
NearPairs ==
    {link \in Images \X Images :
        link[1] < link[2] /\ NearMatch(Rows[link[1]], Rows[link[2]])}

\* Classes and sources are reviewed too; one case stands for them.
Catalog ==
    {<<"pair", p[1], p[2]>> : p \in inventory.pairs}
    \cup {<<"near", p[1], p[2]>> : p \in NearPairs}
    \cup {<<"box", i, 1>> : i \in inventory.boxes}
    \cup {<<"source", 0, 0>>}

\* Every image of a paired source is in exactly one pair.
PairingComplete ==
    inventory.pairs # {} =>
        \A i \in Images : Cardinality({p \in inventory.pairs : i \in {p[1], p[2]}}) = 1

\* Case ids are hashes, so the catalog comes in any order.
BuildPacket ==
    /\ packet = NoPacket
    /\ PairingComplete
    /\ \E order \in SetToSeqs(Catalog) :
          packet' = [cases |-> order,
                     groups |-> Groups(Forest(Images, inventory.pairs \cup PixelLinks))]
    /\ UNCHANGED <<inventory, batches, derived>>

-----------------------------------------------------------------------------
(* Review batches *)

\* FIELDS: the choices of every question a case of this kind asks.
Fields(kind) ==
    CASE kind = "pair"   -> [1..3 -> {"confirmed", "rejected", "needs_reference"}]
      [] kind = "near"   -> [1..1 -> {"related", "unrelated", "needs_reference"}]
      [] kind = "box"    -> [1..1 -> {"accept", "reject", "needs_reference"}]
      [] kind = "source" -> [1..1 -> {"reviewed", "needs_reference"}]

ValidBatch(b) ==
    /\ DOMAIN b.answers # {}
    /\ DOMAIN b.answers \subseteq ToSet(packet.cases)
    /\ \A c \in DOMAIN b.answers : b.answers[c] \in Fields(c[1])

Answering(c, r) ==
    {k \in DOMAIN batches : batches[k].reviewer = r /\ c \in DOMAIN batches[k].answers}

\* current[(case, reviewer)] of review_state: the batch imported last.
CurrentBatch(c, r) == CHOOSE k \in Answering(c, r) : \A i \in Answering(c, r) : i <= k

\* "Updated reviewer decisions require a later timestamp"
Timely(b) ==
    \A c \in DOMAIN b.answers :
        Answering(c, b.reviewer) # {}
           => batches[CurrentBatch(c, b.reviewer)].time < b.time

\* An identical batch is reported and makes no revision.
ImportBatch(b) ==
    /\ packet # NoPacket
    /\ Len(batches) < MaxBatches
    /\ ValidBatch(b)
    /\ b \notin ToSet(batches)
    /\ Timely(b)
    /\ batches' = Append(batches, b)
    /\ UNCHANGED <<inventory, packet, derived>>

Reviewers(c) == {b.reviewer : b \in {x \in ToSet(batches) : c \in DOMAIN x.answers}}

Opinions(c) == {batches[CurrentBatch(c, r)].answers[c] : r \in Reviewers(c)}

\* Slip: reviewers who differ are not told apart from those who agree.
StatusUncontested(c) ==
    IF Opinions(c) = {} THEN "unreviewed"
    ELSE IF \A a \in Opinions(c) : "needs_reference" \in Range(a)
    THEN "needs_reference" ELSE "recorded"

Status(c) ==
    IF Opinions(c) = {} THEN "unreviewed"
    ELSE IF Cardinality(Opinions(c)) > 1 THEN "conflicting"
    ELSE IF \E a \in Opinions(c) : "needs_reference" \in Range(a)
    THEN "needs_reference" ELSE "recorded"

-----------------------------------------------------------------------------
(* derive *)

\* The answer of an uncontested case, <<>> if there is none.
Answer(c) == IF Status(c) = "recorded" THEN CHOOSE a \in Opinions(c) : TRUE ELSE <<>>

\* Any other uncontested answer blocks the candidate.
Approves(c) ==
    CASE c[1] = "pair" -> Answer(c) = <<"confirmed", "confirmed", "confirmed">>
      [] c[1] = "box"  -> Answer(c) = <<"accept">>
      [] OTHER         -> Answer(c) # <<>>

\* One case of the loop over the catalog.
Settle(parent, c) ==
    IF c[1] = "near" /\ Answer(c) = <<"related">>
    THEN Join(parent, <<c[2], c[3]>>) ELSE parent

\* The first loop joins the packet's groups again, member by member.
PacketForest ==
    Forest(Images, {link \in Images \X Images :
               \E g \in packet.groups : link[1] = Min(g) /\ link[2] \in g \ {Min(g)}})

\* The second goes through the catalog.
Settled ==
    LET joined[k \in 0..Len(packet.cases)] ==
            IF k = 0 THEN PacketForest ELSE Settle(joined[k - 1], packet.cases[k])
    IN  joined[Len(packet.cases)]

\* After the loop: cases called unrelated whose images other links joined.
Contradicted(forest) ==
    {c \in ToSet(packet.cases) :
        /\ c[1] = "near" /\ Answer(c) = <<"unrelated">>
        /\ Root(forest, c[2]) = Root(forest, c[3])}

Derive ==
    /\ packet # NoPacket
    /\ LET cases  == ToSet(packet.cases)
           forest == Settled
       IN  derived' =
             [groups  |-> Groups(forest),
              blocked |-> {c \in cases : ~ Approves(c)} \cup Contradicted(forest),
              links   |-> {c \in cases : c[1] = "near" /\ Answer(c) = <<"related">>},
              applied |-> {c \in cases : c[1] = "box" /\ Answer(c) = <<"accept">>},
              at      |-> Len(batches)]
    /\ UNCHANGED <<inventory, packet, batches>>

-----------------------------------------------------------------------------
CandidateNext ==
    \/ BuildPacket
    \/ \E b \in Batches : ImportBatch(b)
    \/ Derive

CandidateSpec == CandidateInit /\ [][CandidateNext]_candidateVars

-----------------------------------------------------------------------------
(* Properties *)

\* What reviewer r said last about case c, going by the time on the batch.
Said(c, r) ==
    LET mine == {b \in {batches[k] : k \in 1..derived.at} :
                   b.reviewer = r /\ c \in DOMAIN b.answers}
    IN  {b.answers[c] : b \in {x \in mine : \A y \in mine : y.time <= x.time}}

SaidByAll(c) == UNION {Said(c, b.reviewer) : b \in Batches}

\* What a derivation changes or lets pass, every reviewer of the case agrees
\* with in the latest thing he said; nobody left it open or disputed it.
OnlyUncontested ==
    derived # NotDerived =>
        /\ \A c \in derived.links   : SaidByAll(c) = {<<"related">>}
        /\ \A c \in derived.applied : SaidByAll(c) = {<<"accept">>}
        /\ \A c \in Catalog \ derived.blocked :
              /\ Cardinality(SaidByAll(c)) = 1
              /\ \A a \in SaidByAll(c) :
                    Range(a) \cap {"needs_reference", "reject", "rejected"} = {}

Ties == inventory.pairs \cup PixelLinks
           \cup {<<c[2], c[3]>> : c \in derived.links}

\* The groups are the connected components of the evidence, whatever the order
\* of the cases: they are apart, no link leaves a group and none can be split.
GroupsAreComponents ==
    derived # NotDerived =>
        /\ UNION derived.groups = Images
        /\ \A g, h \in derived.groups : g = h \/ g \cap h = {}
        /\ \A link \in Ties : \E g \in derived.groups : {link[1], link[2]} \subseteq g
        /\ \A g \in derived.groups : \A part \in (SUBSET g) \ {{}, g} :
              \E link \in Ties :
                 /\ {link[1], link[2]} \cap part # {}
                 /\ {link[1], link[2]} \cap (g \ part) # {}

Alike(a, b) ==
    /\ a.condition = b.condition /\ a.split # b.split
    /\ Cardinality((a.dhash \cup b.dhash) \ (a.dhash \cap b.dhash)) <= NearDistance

\* Two captures of different splits that look alike are in different groups
\* only if a reviewer said so or the candidate is blocked, and captures called
\* unrelated are in one group only if it is blocked.
NoSilentLeak ==
    derived # NotDerived /\ derived.blocked = {} =>
        \A i, j \in Images :
            LET together == \E g \in derived.groups : {i, j} \subseteq g IN
            /\ Rows[i].pixels = Rows[j].pixels => together
            /\ i < j /\ Alike(Rows[i], Rows[j])
               => together \/ SaidByAll(<<"near", i, j>>) = {<<"unrelated">>}
            /\ SaidByAll(<<"near", i, j>>) = {<<"unrelated">>} => ~ together
=============================================================================
