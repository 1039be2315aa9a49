------------------------------ MODULE MCReads ------------------------------
(* Small graphs to query: a cycle of links and contradictions; hits that   *)
(* are corrected and contradicted; two hits whose neighbourhoods meet.     *)
EXTENDS KnownReads, TLC

CONSTANTS n1, n2, n3, n4, n5, e1, e2, e3, e4

Four == {n1, n2, n3, n4}
Five == Four \cup {n5}

\* What is searched, and what is not.
Here == <<"a">>
TwoPaths == {Here, <<"b">>}
NothingUnder == [p \in TwoPaths |-> {}]

Entry(i) == [content |-> i, scope |-> Here, title |-> "t", created |-> 0,
             expires |-> Null, version |-> 1]

Arc(from, type, to) ==
    [from |-> from, to |-> to, type |-> type, weight |-> Null]

Graph(arcs) ==
    [scopes |-> TwoPaths, labels |-> {},
     entries |-> [i \in Ids |-> Entry(i)],
     edges |-> [e \in EdgeIds |-> IF e \in DOMAIN arcs THEN arcs[e] ELSE Null]]

Cycle == (e1 :> Arc(n1, "related-to", n2)) @@ (e2 :> Arc(n3, "contradicts", n2))
           @@ (e3 :> Arc(n3, "related-to", n4))
           @@ (e4 :> Arc(n1, "contradicts", n4))

Corrected == (e1 :> Arc(n1, "supersedes", n2))
               @@ (e2 :> Arc(n2, "contradicts", n3))
               @@ (e3 :> Arc(n3, "related-to", n4))

Bridge == (e1 :> Arc(n1, "related-to", n3)) @@ (e2 :> Arc(n3, "related-to", n4))
            @@ (e3 :> Arc(n2, "related-to", n4))
            @@ (e4 :> Arc(n4, "related-to", n5))

\* One entry has expired, another lies in a scope that is not searched.
PartlyInScope(d) == [d EXCEPT !.entries[n3].expires = Now,
                              !.entries[n4].scope = <<"b">>]

CycleAndCorrected == {Graph(Cycle), PartlyInScope(Graph(Corrected))}
OnlyBridge == {Graph(Bridge)}
OnlyCorrected == {Graph(Corrected)}

AllKinds == {"graph", "conflicts", "entry", "neighbors", "related", "path",
             "vector", "text", "hybrid", "recall", "show", "stats", "resolve",
             "scope", "search"}
Scores == [i \in Ids |-> CASE i = n1 -> 8500 [] i = n2 -> 9000
                           [] i = n4 -> 5000 [] OTHER -> 0]
TwoHits == [i \in Ids |-> IF i \in {n1, n2} THEN 9000 ELSE 0]
Ranks == [i \in Ids |-> CASE i = n2 -> 5 [] i = n3 -> 2 [] OTHER -> 0]
OneAge == [i \in Ids |-> 5000]
Texts == {[exact |-> {n1, n2}, containing |-> {n1, n2}],
          [exact |-> {n4}, containing |-> {n1, n2, n4}],
          [exact |-> {}, containing |-> {n3}],
          [exact |-> {}, containing |-> {n2, n3, n4}],
          [exact |-> {n3}, containing |-> {n3}]}
AllAndOne == {Ids, {n4}}
===========================================================================
