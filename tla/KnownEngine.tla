---------------------------- MODULE KnownEngine ----------------------------
(***************************************************************************)
(* What the query engine computes between two statements: the edges of a   *)
(* neighbourhood, the fusion of two rankings, the scores of an expansion,  *)
(* the demotion of superseded entries, and the order and the length of     *)
(* what is shown.                                                          *)
(*                                                                         *)
(* A score s in [0, 1] is the integer 10000 * s, rounded down; a weight w  *)
(* is 1000 * w.                                                            *)
(***************************************************************************)
EXTENDS KnownDB, FiniteSets

-----------------------------------------------------------------------------
(***************************************************************************)
(* Edges as the repositories return them: copies, which stay what they are *)
(* when the row is gone.                                                   *)
(***************************************************************************)
EdgeCopy == [id : EdgeIds, from : Ids, to : Ids, type : EdgeTypes,
             weight : Weights]

CopyWithDefault(d, e) ==
    [id |-> e, from |-> d.edges[e].from, to |-> d.edges[e].to,
     type |-> d.edges[e].type,
     weight |-> IF d.edges[e].weight = Null THEN 500 ELSE d.edges[e].weight]
Copy(d, e) == [id |-> e, from |-> d.edges[e].from, to |-> d.edges[e].to,
               type |-> d.edges[e].type, weight |-> d.edges[e].weight]

EdgesFrom(d, i) ==
    {Copy(d, e) : e \in {x \in EdgeIds : Present(d, x) /\ d.edges[x].from = i}}

EdgesTo(d, i) ==
    {Copy(d, e) : e \in {x \in EdgeIds : Present(d, x) /\ d.edges[x].to = i}}

Other(edge, i) == IF edge.to = i THEN edge.from ELSE edge.to

OfTypes(edges, types) == {x \in edges : types = {} \/ x.type \in types}

\* FindConflicts: the entries that a contradicts edge joins to i.
FindConflicts(d, i) ==
    {Other(x, i) : x \in OfTypes(EdgesFrom(d, i) \cup EdgesTo(d, i),
                                 {"contradicts"})}

IsSuperseded(d, i) == OfTypes(EdgesTo(d, i), {"supersedes"}) # {}

-----------------------------------------------------------------------------
(***************************************************************************)
(* Results and their order.                                                *)
(***************************************************************************)
Result == [id : Ids, score : Nat, depth : Nat, conflict : BOOLEAN,
           superseded : BOOLEAN]

Found(i, score, depth) ==
    [id |-> i, score |-> score, depth |-> depth, conflict |-> FALSE,
     superseded |-> FALSE]

\* The places of a list in another order; before[n] is what precedes n.
InOrder(places, before) ==
    [k \in 1..Cardinality(places) |->
        CHOOSE n \in places : Cardinality(before[n]) + 1 = k]

\* A loop that keeps some of a list: what is at these places.
Sublist(q, places) ==
    LET order == InOrder(places, [n \in places |-> {m \in places : m < n}])
    IN  [k \in DOMAIN order |-> q[order[k]]]

Among(q, ids) == Sublist(q, {n \in DOMAIN q : q[n] \in ids})

Having(rs, ids) == Sublist(rs, {n \in DOMAIN rs : rs[n].id \in ids})

\* sortResultsByScore: insertion sort, highest first, equal scores as before.
SortByScore(rs) ==
    LET order == InOrder(DOMAIN rs, [n \in DOMAIN rs |->
                   {m \in DOMAIN rs :
                      \/ rs[m].score > rs[n].score
                      \/ rs[m].score = rs[n].score /\ m < n}])
    IN  [k \in DOMAIN order |-> rs[order[k]]]

Cut(rs, limit) ==
    IF limit > 0 /\ Len(rs) > limit THEN SubSeq(rs, 1, limit) ELSE rs

\* The orders in which scored entries may come when equal scores come in any.
Rankings(ids, score) ==
    {q \in [1..Cardinality(ids) -> ids] :
       /\ \A m, n \in DOMAIN q : m # n => q[m] # q[n]
       /\ \A m, n \in DOMAIN q : m < n => score[q[m]] >= score[q[n]]}

\* bm25ToScore, for the absolute value of the (negative) rank.
BM25ToScore(rank) == IF rank = 0 THEN 0 ELSE 10000 \div (1 + rank)

\* blendScore: w thousandths of freshness.
BlendScore(similarity, freshness, w) ==
    ((1000 - w) * similarity + w * freshness) \div 1000

\* fuseByRRF: the sum of 1/(k + rank) over the lists that have the entry; the
\* fused entries come out of a map, so equal scores come in any order.  The
\* result itself is the first list's where both have it.
RRFk == 60

Listed(list) == {list[n].id : n \in DOMAIN list}

Position(list, i) == CHOOSE n \in DOMAIN list : list[n].id = i

RRF(list, i) == IF i \in Listed(list)
                THEN 10000 \div (RRFk + Position(list, i)) ELSE 0

FuseByRRF(vector, text) ==
    LET ids == Listed(vector) \cup Listed(text)
        score == [i \in ids |-> RRF(vector, i) + RRF(text, i)]
        result(i) == IF i \in Listed(vector) THEN vector[Position(vector, i)]
                                             ELSE text[Position(text, i)]
    IN  {[n \in DOMAIN q |-> [result(q[n]) EXCEPT !.score = score[q[n]]]] :
           q \in Rankings(ids, score)}

\* expandFromEntry: parentScore * edgeWeight * expansionDepthDecay.
EffectiveWeight(edge) == IF edge.weight = Null THEN 500 ELSE edge.weight

ExpansionByWeight(score, edge) == 10 * EffectiveWeight(edge)
ExpansionScore(score, edge) == (score * EffectiveWeight(edge) * 8) \div 10000

Demoted(rs) ==
    [n \in DOMAIN rs |-> IF rs[n].superseded
                         THEN [rs[n] EXCEPT !.score = @ \div 10] ELSE rs[n]]

-----------------------------------------------------------------------------
(***************************************************************************)
(* What a traversal should reach, without a queue: everything within n     *)
(* steps of one of the entries.                                            *)
(***************************************************************************)
Adjacent(d, i, dir, types) ==
    {x.to : x \in OfTypes(IF dir = "in" THEN {} ELSE EdgesFrom(d, i), types)}
    \cup
    {x.from : x \in OfTypes(IF dir = "out" THEN {} ELSE EdgesTo(d, i), types)}

Within(d, starts, n, dir, types) ==
    LET reach[k \in 0..n] ==
          IF k = 0 THEN starts
          ELSE reach[k - 1]
                 \cup UNION {Adjacent(d, i, dir, types) : i \in reach[k - 1]}
    IN  reach[n]
=============================================================================
