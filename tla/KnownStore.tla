----------------------------- MODULE KnownStore -----------------------------
(***************************************************************************)
(* The contract of storage.Backend, whatever the database behind it: what  *)
(* a commit may do to the knowledge base.  One commit writes one entry     *)
(* (with its labels, its scope chain and the edges it was given), replaces *)
(* the labels of one entry, changes edges, removes entries together with   *)
(* all that hangs on them, or changes scope rows; and after every commit   *)
(* the schema holds.  KnownCommands (SQLite) and KnownPostgres are both    *)
(* shown to implement it.                                                  *)
(***************************************************************************)
EXTENDS KnownDB

VARIABLE store   \* the committed content of the database

Init == store = EmptyDatabase

Untouched(i) == /\ store'.entries[i] = store.entries[i]
                /\ LabelsOf(store', i) = LabelsOf(store, i)

\* EntryRepo.Create, CreateOrUpdate, Update: a new row, or the next version
\* of the row that is there; no edge is lost, and a new edge starts here.
Put(i) ==
    /\ Live(store', i)
    /\ Live(store, i) =>
         \/ store'.entries[i] = store.entries[i]
         \/ /\ store'.entries[i].version = store.entries[i].version + 1
            /\ store'.entries[i].created = store.entries[i].created
    /\ \A j \in Ids \ {i} : Untouched(j)
    /\ \A e \in EdgeIds :
         \/ store'.edges[e] = store.edges[e]
         \/ ~Present(store, e) /\ store'.edges[e].from = i
    /\ store.scopes \subseteq store'.scopes
    /\ store'.scopes \subseteq
         store.scopes \cup Prefixes(store'.entries[i].scope)

\* EntryRepo.Delete, DeleteExpired and a recursive scope delete: the labels
\* and the edges of what is gone go with it, and nothing else does.
Remove(gone) ==
    /\ \A i \in gone : ~Live(store', i)
    /\ \A i \in Ids \ gone : Untouched(i)
    /\ \A e \in EdgeIds :
         store'.edges[e] =
            IF /\ Present(store, e)
               /\ store.edges[e].from \in gone \/ store.edges[e].to \in gone
            THEN Null ELSE store.edges[e]
    /\ store'.scopes \subseteq store.scopes

\* EdgeRepo: an edge appears, goes, or changes its weight; it is never
\* turned into another edge.
ChangeEdges ==
    /\ \A i \in Ids : Untouched(i)
    /\ \A e \in EdgeIds :
         Present(store, e) /\ Present(store', e) =>
            store'.edges[e] =
              [store.edges[e] EXCEPT !.weight = store'.edges[e].weight]
    /\ store'.scopes = store.scopes

\* ScopeRepo: scope rows come and go.
ChangeScopes ==
    /\ \A i \in Ids : Untouched(i)
    /\ store'.edges = store.edges

Next == /\ \/ \E i \in Ids : Put(i)
           \/ \E gone \in SUBSET Ids : Remove(gone)
           \/ ChangeEdges
           \/ ChangeScopes
        /\ Consistent(store')

Spec == Init /\ [][Next]_store
=============================================================================
