----------------------------- MODULE UnionFind ------------------------------
(***************************************************************************)
(* Groups of related captures: a forest over ids whose roots are the       *)
(* smallest ids.  Both group builders of the repository keep it that way   *)
(* (ml/candidate_manifest.py, scripts/prepare_pcb_defect.py).  The path    *)
(* compression of find() changes no root and is left out.                  *)
(***************************************************************************)
EXTENDS Integers, SequencesExt

Root(parent, i) ==
    LET find[v \in DOMAIN parent] == IF parent[v] = v THEN v ELSE find[parent[v]]
    IN  find[i]

\* Slip: the members are linked, not their groups.
JoinMembers(parent, link) == [parent EXCEPT ![link[2]] = link[1]]

Join(parent, link) ==
    LET a == Root(parent, link[1])
        b == Root(parent, link[2])
    IN  IF a < b THEN [parent EXCEPT ![b] = a] ELSE [parent EXCEPT ![a] = b]

Groups(parent) ==
    {{i \in DOMAIN parent : Root(parent, i) = Root(parent, j)} : j \in DOMAIN parent}

\* Links are joined one by one, in their order.
JoinAll(parent, links) ==
    LET joined[k \in 0..Len(links)] ==
            IF k = 0 THEN parent ELSE Join(joined[k - 1], links[k])
    IN  joined[Len(links)]

\* Everything is a group of its own, then links are joined.
Forest(ids, links) == JoinAll([i \in ids |-> i], SetToSeq(links))
=============================================================================
