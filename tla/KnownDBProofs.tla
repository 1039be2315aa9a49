--------------------------- MODULE KnownDBProofs ---------------------------
(***************************************************************************)
(* What the statements of KnownDB do to the type of a database and to its  *)
(* consistency, for every value of the constants.  A statement changes one *)
(* table, or one table and those that cascade from it, so there is one     *)
(* lemma per kind of change and the statements are instances of it.        *)
(***************************************************************************)
EXTENDS KnownDB, TLAPS

Sound(d) == d \in Database /\ Consistent(d)

-----------------------------------------------------------------------------
\* Every prefix of a path is a path (model/scope.go ParseScopePath).
LEMMA PrefixesArePaths ==
    ASSUME NEW s \in Paths
    PROVE  /\ Prefixes(s) \subseteq Paths
           /\ s \in Prefixes(s)
<1>1. Prefixes(s) \subseteq Paths
  BY PathsAssumption DEF Prefixes
<1>2. /\ s \in Seq(Segments)
      /\ Len(s) \in Nat
      /\ Len(s) > 0
  BY PathsAssumption
<1>3. SubSeq(s, 1, Len(s)) = s
  BY <1>2
<1>4. Len(s) \in 1..Len(s)
  BY <1>2
<1> QED
  BY <1>1, <1>3, <1>4 DEF Prefixes

\* A change of the scopes that keeps every scope an entry refers to leaves
\* the database sound: INSERT INTO scopes, DELETE FROM scopes.
LEMMA SetScopes ==
    ASSUME NEW d \in Database, Consistent(d),
           NEW S \in SUBSET Paths,
           \A i \in Ids : Live(d, i) => d.entries[i].scope \in S
    PROVE  Sound([d EXCEPT !.scopes = S])
<1> DEFINE w == [d EXCEPT !.scopes = S]
<1>1. /\ w.scopes = S
      /\ w.entries = d.entries
      /\ w.labels = d.labels
      /\ w.edges = d.edges
      /\ w \in Database
  BY DEF Database
<1> HIDE DEF w
<1>2. Consistent(w)
  BY <1>1 DEF Consistent, ScopesExist, ContentUnique, LabelsOwned,
              EdgesAnchored, Live, Present
<1> QED
  BY <1>1, <1>2 DEF w, Sound

\* Labels may change in any way that leaves them with live entries.
LEMMA SetLabels ==
    ASSUME NEW d \in Database, Consistent(d),
           NEW L \in SUBSET (Ids \X Labels),
           \A x \in L : Live(d, x[1])
    PROVE  Sound([d EXCEPT !.labels = L])
<1> DEFINE w == [d EXCEPT !.labels = L]
<1>1. /\ w.scopes = d.scopes
      /\ w.entries = d.entries
      /\ w.labels = L
      /\ w.edges = d.edges
      /\ w \in Database
  BY DEF Database
<1> HIDE DEF w
<1>2. Consistent(w)
  BY <1>1 DEF Consistent, ScopesExist, ContentUnique, LabelsOwned,
              EdgesAnchored, Live, Present
<1> QED
  BY <1>1, <1>2 DEF w, Sound

\* A row may be written where its scope exists and no other row of the scope
\* has its content: INSERT INTO entries and UPDATE entries.
LEMMA PutRow ==
    ASSUME NEW d \in Database, Consistent(d),
           NEW i \in Ids, NEW r \in Row,
           r.scope \in d.scopes,
           Holders(d, r.content, r.scope) \subseteq {i}
    PROVE  Sound([d EXCEPT !.entries[i] = r])
<1> DEFINE w == [d EXCEPT !.entries[i] = r]
<1>1. /\ w.scopes = d.scopes
      /\ w.entries = [d.entries EXCEPT ![i] = r]
      /\ w.labels = d.labels
      /\ w.edges = d.edges
      /\ w \in Database
  BY DEF Database
<1> HIDE DEF w
<1>2. r # Null
  BY NullRowAssumption
<1>3. \A j \in Ids : /\ w.entries[j] = IF j = i THEN r ELSE d.entries[j]
                     /\ Live(d, j) => Live(w, j)
  BY <1>1, <1>2 DEF Database, Live
<1>4. ScopesExist(w)
  BY <1>1, <1>3 DEF Consistent, ScopesExist, Live
<1>5. ContentUnique(w)
  <2> SUFFICES ASSUME NEW j \in Ids, NEW k \in Ids,
                      Live(w, j), Live(w, k),
                      w.entries[j].content = w.entries[k].content,
                      w.entries[j].scope = w.entries[k].scope
               PROVE  j = k
    BY DEF ContentUnique
  <2>1. CASE j # i /\ k # i
    BY <1>3, <2>1 DEF Consistent, ContentUnique, Live
  <2>2. CASE j = i /\ k # i
    BY <1>3, <2>2 DEF Holders, Live
  <2>3. CASE j # i /\ k = i
    BY <1>3, <2>3 DEF Holders, Live
  <2> QED
    BY <2>1, <2>2, <2>3
<1>6. LabelsOwned(w)
  BY <1>1, <1>3 DEF Consistent, LabelsOwned, Database
<1>7. EdgesAnchored(w)
  <2> SUFFICES ASSUME NEW e \in EdgeIds, Present(w, e)
               PROVE  /\ Live(w, w.edges[e].from)
                      /\ Live(w, w.edges[e].to)
                      /\ w.edges[e].from # w.edges[e].to
    BY DEF EdgesAnchored
  <2>1. Present(d, e) /\ w.edges[e] = d.edges[e]
    BY <1>1 DEF Present
  <2>2. d.edges[e].from \in Ids /\ d.edges[e].to \in Ids
    BY <2>1 DEF Database, Edge, Present
  <2> QED
    BY <1>3, <2>1, <2>2 DEF Consistent, EdgesAnchored
<1> QED
  BY <1>1, <1>4, <1>5, <1>6, <1>7 DEF w, Sound, Consistent

\* DELETE FROM entries takes the labels and edges of the rows with it, so
\* nothing dangles, whichever rows go.
LEMMA DeleteEntriesSound ==
    ASSUME NEW d \in Database, Consistent(d), NEW gone \in SUBSET Ids
    PROVE  Sound(DeleteEntries(d, gone))
<1> DEFINE E == [i \in Ids |-> IF i \in gone THEN Null ELSE d.entries[i]]
           L == {x \in d.labels : x[1] \notin gone}
           F == [e \in EdgeIds |->
                   IF /\ d.edges[e] # Null
                      /\ d.edges[e].from \in gone \/ d.edges[e].to \in gone
                   THEN Null ELSE d.edges[e]]
           w == DeleteEntries(d, gone)
<1>a. w = [d EXCEPT !.entries = E, !.labels = L, !.edges = F]
  BY DEF DeleteEntries
<1>b. /\ E \in [Ids -> Row \cup {Null}]
      /\ L \in SUBSET (Ids \X Labels)
      /\ F \in [EdgeIds -> Edge \cup {Null}]
  BY DEF Database
<1>c. /\ \A i \in Ids : E[i] = IF i \in gone THEN Null ELSE d.entries[i]
      /\ \A x : x \in L <=> x \in d.labels /\ x[1] \notin gone
      /\ \A e \in EdgeIds :
            F[e] = IF /\ d.edges[e] # Null
                      /\ d.edges[e].from \in gone \/ d.edges[e].to \in gone
                   THEN Null ELSE d.edges[e]
  OBVIOUS
<1> HIDE DEF E, L, F, w
<1>1. /\ w.scopes = d.scopes
      /\ w.entries = E
      /\ w.labels = L
      /\ w.edges = F
  BY <1>a DEF Database
<1>2. w \in Database
  BY <1>a, <1>b DEF Database
<1>3. \A i \in Ids : /\ Live(w, i) <=> Live(d, i) /\ i \notin gone
                     /\ Live(w, i) => w.entries[i] = d.entries[i]
  BY <1>1, <1>c DEF Live
<1>4. ScopesExist(w) /\ ContentUnique(w)
  BY <1>1, <1>3 DEF Consistent, ScopesExist, ContentUnique
<1>5. LabelsOwned(w)
  BY <1>1, <1>3, <1>c DEF Consistent, LabelsOwned, Database
<1>6. EdgesAnchored(w)
  <2> SUFFICES ASSUME NEW e \in EdgeIds, Present(w, e)
               PROVE  /\ Live(w, w.edges[e].from)
                      /\ Live(w, w.edges[e].to)
                      /\ w.edges[e].from # w.edges[e].to
    BY DEF EdgesAnchored
  <2>1. /\ Present(d, e)
        /\ w.edges[e] = d.edges[e]
        /\ d.edges[e].from \notin gone
        /\ d.edges[e].to \notin gone
    BY <1>1, <1>c DEF Present
  <2>2. d.edges[e].from \in Ids /\ d.edges[e].to \in Ids
    BY <2>1 DEF Database, Edge, Present
  <2> QED
    BY <1>3, <2>1, <2>2 DEF Consistent, EdgesAnchored
<1> QED
  BY <1>2, <1>4, <1>5, <1>6 DEF w, Sound, Consistent

\* Edges change freely as long as every edge has two distinct live ends.
LEMMA SetEdges ==
    ASSUME NEW d \in Database, Consistent(d),
           NEW E \in [EdgeIds -> Edge \cup {Null}],
           \A e \in EdgeIds : E[e] # Null =>
               Live(d, E[e].from) /\ Live(d, E[e].to) /\ E[e].from # E[e].to
    PROVE  Sound([d EXCEPT !.edges = E])
<1> DEFINE w == [d EXCEPT !.edges = E]
<1>1. /\ w.scopes = d.scopes
      /\ w.entries = d.entries
      /\ w.labels = d.labels
      /\ w.edges = E
      /\ w \in Database
  BY DEF Database
<1> HIDE DEF w
<1>2. Consistent(w)
  BY <1>1 DEF Consistent, ScopesExist, ContentUnique, LabelsOwned,
              EdgesAnchored, Live, Present
<1> QED
  BY <1>1, <1>2 DEF w, Sound

-----------------------------------------------------------------------------
(***************************************************************************)
(* The statements.                                                         *)
(***************************************************************************)
LEMMA EnsureHierarchySound ==
    ASSUME NEW d \in Database, Consistent(d), NEW s \in Paths
    PROVE  /\ Sound(EnsureHierarchy(d, s))
           /\ s \in EnsureHierarchy(d, s).scopes
           /\ EnsureHierarchy(d, s).entries = d.entries
           /\ EnsureHierarchy(d, s).edges = d.edges
<1> DEFINE S == d.scopes \cup Prefixes(s)
<1>1. S \in SUBSET Paths /\ s \in S
  BY PrefixesArePaths DEF Database
<1>2. \A i \in Ids : Live(d, i) => d.entries[i].scope \in S
  BY DEF Consistent, ScopesExist
<1>3. EnsureHierarchy(d, s) = [d EXCEPT !.scopes = S]
  BY DEF EnsureHierarchy
<1> HIDE DEF S
<1>4. Sound([d EXCEPT !.scopes = S])
  BY <1>1, <1>2, SetScopes
<1> QED
  BY <1>1, <1>3, <1>4 DEF Database

\* INSERT OR IGNORE of a scope, and of all prefixes of a path, is sound.
LEMMA InsertScopeSound ==
    ASSUME NEW d \in Database, Consistent(d), NEW s \in Paths
    PROVE  Sound(InsertScope(d, s))
<1> DEFINE S == d.scopes \cup {s}
<1>1. S \in SUBSET Paths
  BY DEF Database
<1>2. \A i \in Ids : Live(d, i) => d.entries[i].scope \in S
  BY DEF Consistent, ScopesExist
<1>3. InsertScope(d, s) = [d EXCEPT !.scopes = S]
  BY DEF InsertScope
<1> HIDE DEF S
<1> QED
  BY <1>1, <1>2, <1>3, SetScopes

\* Scopes no entry refers to may go.
LEMMA RemoveScopes ==
    ASSUME NEW d \in Database, Consistent(d), NEW gone,
           \A s \in gone : ~Referenced(d, s)
    PROVE  Sound([d EXCEPT !.scopes = @ \ gone])
<1> DEFINE S == d.scopes \ gone
<1>1. S \in SUBSET Paths
  BY DEF Database
<1>2. \A i \in Ids : Live(d, i) => d.entries[i].scope \in S
  BY DEF Consistent, ScopesExist, Referenced
<1>3. [d EXCEPT !.scopes = @ \ gone] = [d EXCEPT !.scopes = S]
  OBVIOUS
<1> HIDE DEF S
<1> QED
  BY <1>1, <1>2, <1>3, SetScopes

\* DELETE of a scope is sound where no entry refers to it.
LEMMA DeleteScopeSound ==
    ASSUME NEW d \in Database, Consistent(d), NEW s, CanDeleteScope(d, s)
    PROVE  Sound(DeleteScope(d, s))
BY RemoveScopes DEF DeleteScope, CanDeleteScope

\* DELETE of the empty scopes keeps every scope an entry refers to.
LEMMA DeleteEmptySound ==
    ASSUME NEW d \in Database, Consistent(d)
    PROVE  Sound(DeleteEmpty(d))
<1> DEFINE S == {s \in d.scopes :
                    \/ Referenced(d, s)
                    \/ \E i \in Ids : /\ Live(d, i)
                                      /\ LikeBelow(s, d.entries[i].scope)}
<1>1. S \in SUBSET Paths
  BY DEF Database
<1>2. \A i \in Ids : Live(d, i) => d.entries[i].scope \in S
  BY DEF Consistent, ScopesExist, Referenced
<1>3. DeleteEmpty(d) = [d EXCEPT !.scopes = S]
  BY DEF DeleteEmpty
<1> HIDE DEF S
<1> QED
  BY <1>1, <1>2, <1>3, SetScopes

\* DELETE of an entry's labels leaves no label of another entry dangling.
LEMMA DeleteLabelsSound ==
    ASSUME NEW d \in Database, Consistent(d), NEW i \in Ids
    PROVE  Sound(DeleteLabels(d, i))
<1> DEFINE L == {x \in d.labels : x[1] # i}
<1>1. L \in SUBSET (Ids \X Labels)
  BY DEF Database
<1>2. \A x \in L : Live(d, x[1])
  BY DEF Consistent, LabelsOwned
<1>3. DeleteLabels(d, i) = [d EXCEPT !.labels = L]
  BY DEF DeleteLabels
<1> HIDE DEF L
<1> QED
  BY <1>1, <1>2, <1>3, SetLabels

\* INSERT of a label is sound where its entry exists.
LEMMA InsertLabelSound ==
    ASSUME NEW d \in Database, Consistent(d), NEW i \in Ids, NEW l \in Labels,
           CanInsertLabel(d, i, l)
    PROVE  Sound(InsertLabel(d, i, l))
<1> DEFINE L == d.labels \cup {<<i, l>>}
<1>1. L \in SUBSET (Ids \X Labels)
  BY DEF Database
<1>2. \A x \in L : Live(d, x[1])
  BY DEF Consistent, LabelsOwned, CanInsertLabel
<1>3. InsertLabel(d, i, l) = [d EXCEPT !.labels = L]
  BY DEF InsertLabel
<1> HIDE DEF L
<1> QED
  BY <1>1, <1>2, <1>3, SetLabels

\* Replacing the labels of an existing entry is sound.
LEMMA SaveLabelsSound ==
    ASSUME NEW d \in Database, Consistent(d), NEW i \in Ids,
           NEW ls \in SUBSET Labels, Live(d, i)
    PROVE  Sound(SaveLabels(d, i, ls))
<1> DEFINE L == {x \in d.labels : x[1] # i} \cup ({i} \X ls)
<1>1. L \in SUBSET (Ids \X Labels)
  BY DEF Database
<1>2. \A x \in L : Live(d, x[1])
  BY DEF Consistent, LabelsOwned
<1>3. SaveLabels(d, i, ls) = [d EXCEPT !.labels = L]
  BY DEF SaveLabels
<1> HIDE DEF L
<1> QED
  BY <1>1, <1>2, <1>3, SetLabels

\* The guarded UPDATE is sound where SQLite accepts it.
LEMMA UpdateRowSound ==
    ASSUME NEW d \in Database, Consistent(d), NEW i \in Ids, NEW row \in Row,
           CanUpdate(d, i, row)
    PROVE  Sound(UpdateRow(d, i, row))
<1> DEFINE r == [row EXCEPT !.version = @ + 1]
<1>1. r \in Row /\ r.scope = row.scope /\ r.content = row.content
  BY DEF Row
<1>2. UpdateRow(d, i, row) = [d EXCEPT !.entries[i] = r]
  BY DEF UpdateRow
<1> HIDE DEF r
<1> QED
  BY <1>1, <1>2, PutRow DEF CanUpdate

\* The row an upsert writes to holds the content already, or nothing does and
\* it is the fresh one.
LEMMA UpsertTargetFacts ==
    ASSUME NEW d \in Database, Consistent(d), NEW i \in Ids, NEW row \in Row,
           CanUpsert(d, i, row)
    PROVE  LET t == UpsertTarget(d, i, row)
           IN  /\ t \in Ids
               /\ Holders(d, row.content, row.scope) \subseteq {t}
               /\ Live(d, t) => t \in Holders(d, row.content, row.scope)
               /\ UpsertRow(d, i, row) \in Row
               /\ UpsertRow(d, i, row).content = row.content
               /\ UpsertRow(d, i, row).scope = row.scope
               /\ Live(d, t) => UpsertRow(d, i, row).version
                                  = d.entries[t].version + 1
<1> DEFINE t == UpsertTarget(d, i, row)
           H == Holders(d, row.content, row.scope)
<1>1. CASE H = {}
  <2>1. t = i /\ ~Live(d, t)
    BY <1>1 DEF UpsertTarget, CanUpsert
  <2>2. UpsertRow(d, i, row) = row
    BY <2>1 DEF UpsertRow
  <2> QED
    BY <1>1, <2>1, <2>2
<1>2. CASE H # {}
  <2>1. t \in H
    BY <1>2 DEF UpsertTarget
  <2>2. t \in Ids /\ Live(d, t) /\ H \subseteq {t}
    BY <2>1 DEF Consistent, ContentUnique, Holders
  <2>3. d.entries[t] \in Row
    BY <2>2 DEF Database, Live
  <2>4. UpsertRow(d, i, row) =
           [row EXCEPT !.created = d.entries[t].created,
                       !.version = d.entries[t].version + 1]
    BY <2>2 DEF UpsertRow
  <2>5. d.entries[t].created \in Nat /\ d.entries[t].version + 1 \in Nat
    <3> HIDE DEF t
    <3> QED
      BY <2>3 DEF Row
  <2>6. /\ UpsertRow(d, i, row) \in Row
        /\ UpsertRow(d, i, row).content = row.content
        /\ UpsertRow(d, i, row).scope = row.scope
        /\ UpsertRow(d, i, row).version = d.entries[t].version + 1
    <3> DEFINE c == d.entries[t].created
               v == d.entries[t].version + 1
    <3>1. c \in Nat /\ v \in Nat
      BY <2>5
    <3>2. UpsertRow(d, i, row) = [row EXCEPT !.created = c, !.version = v]
      BY <2>4
    <3> HIDE DEF c, v
    <3>3. /\ UpsertRow(d, i, row) \in Row
          /\ UpsertRow(d, i, row).content = row.content
          /\ UpsertRow(d, i, row).scope = row.scope
          /\ UpsertRow(d, i, row).version = v
      BY <3>1, <3>2 DEF Row
    <3> QED
      BY <3>3 DEF v
  <2> QED
    BY <2>1, <2>2, <2>6
<1> QED
  BY <1>1, <1>2

\* The upsert of add is sound, and touches one row: the one it targets.
LEMMA CreateOrUpdateSound ==
    ASSUME NEW d \in Database, Consistent(d), NEW i \in Ids, NEW row \in Row,
           NEW ls \in SUBSET Labels, CanUpsert(d, i, row)
    PROVE  LET w == CreateOrUpdate(d, i, row, ls)
               t == UpsertTarget(d, i, row)
           IN  /\ Sound(w)
               /\ w.entries = [d.entries EXCEPT ![t] = UpsertRow(d, i, row)]
               /\ Live(w, t)
               /\ w.edges = d.edges
<1> DEFINE t == UpsertTarget(d, i, row)
           r == UpsertRow(d, i, row)
           h == EnsureHierarchy(d, row.scope)
           w == [h EXCEPT !.entries[t] = r]
<1>1. /\ t \in Ids
      /\ r \in Row
      /\ r.content = row.content /\ r.scope = row.scope
      /\ Holders(d, row.content, row.scope) \subseteq {t}
  BY UpsertTargetFacts
<1>2. row.scope \in Paths
  BY DEF Row
<1>3. /\ h \in Database /\ Consistent(h)
      /\ row.scope \in h.scopes
      /\ h.entries = d.entries /\ h.edges = d.edges
  BY <1>2, EnsureHierarchySound DEF Sound
<1>4. CreateOrUpdate(d, i, row, ls) = IF ls = {} THEN w ELSE SaveLabels(w, t, ls)
  BY DEF CreateOrUpdate
<1> HIDE DEF t, r, h
<1>5. Holders(h, r.content, r.scope) \subseteq {t}
  BY <1>1, <1>3 DEF Holders, Live
<1>6. Sound(w)
  BY <1>1, <1>3, <1>5, PutRow
<1>7. /\ w.entries = [d.entries EXCEPT ![t] = r]
      /\ w.edges = d.edges
  BY <1>3 DEF Database
<1>8. Live(w, t)
  BY <1>1, <1>7, NullRowAssumption DEF Live, Database
<1> HIDE DEF w
<1>9. /\ Sound(SaveLabels(w, t, ls))
      /\ SaveLabels(w, t, ls).entries = w.entries
      /\ SaveLabels(w, t, ls).edges = w.edges
  <2>1. Sound(SaveLabels(w, t, ls))
    BY <1>1, <1>6, <1>8, SaveLabelsSound DEF Sound
  <2> QED
    BY <1>6, <2>1 DEF SaveLabels, Sound, Database
<1> QED
  BY <1>4, <1>6, <1>7, <1>8, <1>9 DEF t, r, Live

\* INSERT of edges is sound where both ends of each exist and differ, and
\* touches no entry.
LEMMA InsertEdgesSound ==
    ASSUME NEW d \in Database, Consistent(d), NEW from \in Ids,
           NEW links \in SUBSET (Ids \X EdgeTypes),
           NEW name \in [links -> EdgeIds], NEW weight \in Weights,
           CanInsertEdges(d, from, name)
    PROVE  /\ Sound(InsertEdges(d, from, name, weight))
           /\ InsertEdges(d, from, name, weight).entries = d.entries
<1> DEFINE linkOf(e) == CHOOSE l \in DOMAIN name : name[l] = e
           new(e) == [from |-> from, to |-> linkOf(e)[1],
                      type |-> linkOf(e)[2], weight |-> weight]
           E == [e \in EdgeIds |-> IF \E l \in DOMAIN name : name[l] = e
                                   THEN new(e) ELSE d.edges[e]]
<1>1. InsertEdges(d, from, name, weight) = [d EXCEPT !.edges = E]
  BY DEF InsertEdges
<1>2. ASSUME NEW e \in EdgeIds, \E l \in DOMAIN name : name[l] = e
      PROVE  /\ new(e) \in Edge
             /\ Live(d, new(e).from) /\ Live(d, new(e).to)
             /\ new(e).from # new(e).to
  <2>1. linkOf(e) \in links /\ CanLink(d, from, linkOf(e))
    BY <1>2 DEF CanInsertEdges
  <2> HIDE DEF linkOf
  <2>2. linkOf(e)[1] \in Ids /\ linkOf(e)[2] \in EdgeTypes
    BY <2>1
  <2> QED
    BY <2>1, <2>2 DEF Edge, CanLink
<1>3. \A e \in EdgeIds :
        E[e] = IF \E l \in DOMAIN name : name[l] = e
               THEN new(e) ELSE d.edges[e]
  OBVIOUS
<1> HIDE DEF new
<1>4. E \in [EdgeIds -> Edge \cup {Null}]
  BY <1>2 DEF Database
<1> HIDE DEF E
<1>5. \A e \in EdgeIds : E[e] # Null =>
        Live(d, E[e].from) /\ Live(d, E[e].to) /\ E[e].from # E[e].to
  BY <1>2, <1>3 DEF Consistent, EdgesAnchored, Present
<1>6. Sound([d EXCEPT !.edges = E])
  BY <1>4, <1>5, SetEdges
<1> QED
  BY <1>1, <1>6 DEF Database

\* DELETE of an edge is sound.
LEMMA DeleteEdgeSound ==
    ASSUME NEW d \in Database, Consistent(d), NEW e \in EdgeIds
    PROVE  Sound(DeleteEdge(d, e))
<1> DEFINE E == [d.edges EXCEPT ![e] = Null]
<1>1. E \in [EdgeIds -> Edge \cup {Null}]
  BY DEF Database
<1>2. \A f \in EdgeIds : E[f] # Null => E[f] = d.edges[f]
  BY DEF Database
<1>3. \A f \in EdgeIds : E[f] # Null =>
        Live(d, E[f].from) /\ Live(d, E[f].to) /\ E[f].from # E[f].to
  <2> HIDE DEF E
  <2> QED
    BY <1>2 DEF Consistent, EdgesAnchored, Present
<1>4. DeleteEdge(d, e) = [d EXCEPT !.edges = E]
  BY DEF DeleteEdge
<1> HIDE DEF E
<1> QED
  BY <1>1, <1>3, <1>4, SetEdges
-----------------------------------------------------------------------------
(***************************************************************************)
(* The commits that the storage contract (KnownStore) allows, read off the *)
(* database before and after, and the statements that are such commits.    *)
(***************************************************************************)
\* An entry of which neither the row nor the labels change.
SameEntry(d, w, i) == /\ w.entries[i] = d.entries[i]
                      /\ LabelsOf(w, i) = LabelsOf(d, i)

Puts(d, w, i) ==
    /\ Live(w, i)
    /\ Live(d, i) =>
         \/ w.entries[i] = d.entries[i]
         \/ /\ w.entries[i].version = d.entries[i].version + 1
            /\ w.entries[i].created = d.entries[i].created
    /\ \A j \in Ids \ {i} : SameEntry(d, w, j)
    /\ \A e \in EdgeIds :
         \/ w.edges[e] = d.edges[e]
         \/ ~Present(d, e) /\ w.edges[e].from = i
    /\ d.scopes \subseteq w.scopes
    /\ w.scopes \subseteq d.scopes \cup Prefixes(w.entries[i].scope)

Removes(d, w, gone) ==
    /\ \A i \in gone : ~Live(w, i)
    /\ \A i \in Ids \ gone : SameEntry(d, w, i)
    /\ \A e \in EdgeIds :
         w.edges[e] = IF /\ Present(d, e)
                         /\ d.edges[e].from \in gone \/ d.edges[e].to \in gone
                      THEN Null ELSE d.edges[e]
    /\ w.scopes \subseteq d.scopes

Relinks(d, w) ==
    /\ \A i \in Ids : SameEntry(d, w, i)
    /\ \A e \in EdgeIds :
         Present(d, e) /\ Present(w, e) => w.edges[e] = d.edges[e]
    /\ w.scopes = d.scopes

Rescopes(d, w) == (\A i \in Ids : SameEntry(d, w, i)) /\ w.edges = d.edges

Commits(d, w) == \/ \E i \in Ids : Puts(d, w, i)
                 \/ \E gone \in SUBSET Ids : Removes(d, w, gone)
                 \/ Relinks(d, w)
                 \/ Rescopes(d, w)

\* An INSERT of edges adds edges that start at one entry and end where the
\* links say, and nothing else.
LEMMA InsertEdgesShape ==
    ASSUME NEW d \in Database, NEW from, NEW name, NEW w,
           CanInsertEdges(d, from, name)
    PROVE  LET v == InsertEdges(d, from, name, w)
           IN  /\ v.entries = d.entries /\ v.labels = d.labels
               /\ v.scopes = d.scopes
               /\ \A e \in EdgeIds :
                    \/ v.edges[e] = d.edges[e]
                    \/ /\ ~Present(d, e) /\ v.edges[e].from = from
                       /\ \E l \in DOMAIN name : v.edges[e].to = l[1]
<1> DEFINE v == InsertEdges(d, from, name, w)
           linkOf(e) == CHOOSE l \in DOMAIN name : name[l] = e
<1>1. v.entries = d.entries /\ v.labels = d.labels /\ v.scopes = d.scopes
  BY DEF InsertEdges, Database
<1>2. ASSUME NEW e \in EdgeIds
      PROVE  \/ v.edges[e] = d.edges[e]
             \/ /\ ~Present(d, e) /\ v.edges[e].from = from
                /\ \E l \in DOMAIN name : v.edges[e].to = l[1]
  <2>1. CASE \E l \in DOMAIN name : name[l] = e
    <3>1. ~Present(d, e)
      BY <2>1 DEF CanInsertEdges
    <3>2. v.edges[e] = [from |-> from, to |-> linkOf(e)[1],
                        type |-> linkOf(e)[2], weight |-> w]
      BY <2>1 DEF InsertEdges, Database
    <3>3. linkOf(e) \in DOMAIN name
      BY <2>1
    <3> HIDE DEF linkOf, v
    <3> QED
      BY <3>1, <3>2, <3>3
  <2>2. CASE ~\E l \in DOMAIN name : name[l] = e
    BY <2>2 DEF InsertEdges, Database
  <2> QED
    BY <2>1, <2>2
<1> QED
  BY <1>1, <1>2

\* A DELETE of entries takes their labels and edges, and nothing else.
LEMMA DeleteEntriesShape ==
    ASSUME NEW d \in Database, NEW gone \in SUBSET Ids
    PROVE  LET v == DeleteEntries(d, gone)
           IN  /\ v.scopes = d.scopes
               /\ v.labels = {x \in d.labels : x[1] \notin gone}
               /\ \A i \in Ids :
                    v.entries[i] = IF i \in gone THEN Null ELSE d.entries[i]
               /\ \A i \in gone : ~Live(v, i)
               /\ \A i \in Ids \ gone : SameEntry(d, v, i)
               /\ \A e \in EdgeIds :
                    v.edges[e] = IF /\ Present(d, e)
                                    /\ \/ d.edges[e].from \in gone
                                       \/ d.edges[e].to \in gone
                                 THEN Null ELSE d.edges[e]
<1> DEFINE v == DeleteEntries(d, gone)
<1>1. v.scopes = d.scopes
  BY DEF DeleteEntries, Database
<1>2. \A i \in Ids : v.entries[i] = IF i \in gone THEN Null ELSE d.entries[i]
  BY DEF DeleteEntries, Database
<1>3. v.labels = {x \in d.labels : x[1] \notin gone}
  BY DEF DeleteEntries, Database
<1>4. \A e \in EdgeIds :
        v.edges[e] = IF /\ d.edges[e] # Null
                        /\ d.edges[e].from \in gone \/ d.edges[e].to \in gone
                     THEN Null ELSE d.edges[e]
  BY DEF DeleteEntries, Database
<1> HIDE DEF v
<1>5. \A i \in Ids \ gone : LabelsOf(v, i) = LabelsOf(d, i)
  BY <1>3 DEF LabelsOf
<1> QED
  BY <1>1, <1>2, <1>3, <1>4, <1>5 DEF v, Live, SameEntry, Present

\* The scope chain, the row and the labels of an upsert.
LEMMA CreateOrUpdateShape ==
    ASSUME NEW d \in Database, Consistent(d), NEW i \in Ids, NEW row \in Row,
           NEW ls \in SUBSET Labels, CanUpsert(d, i, row)
    PROVE  LET w == CreateOrUpdate(d, i, row, ls)
               t == UpsertTarget(d, i, row)
           IN  /\ w.scopes = d.scopes \cup Prefixes(row.scope)
               /\ \A j \in Ids \ {t} : LabelsOf(w, j) = LabelsOf(d, j)
               /\ LabelsOf(w, t) = IF ls = {} THEN LabelsOf(d, t) ELSE ls
<1> DEFINE t == UpsertTarget(d, i, row)
           r == UpsertRow(d, i, row)
           h == EnsureHierarchy(d, row.scope)
           w == [h EXCEPT !.entries[t] = r]
<1>1. CreateOrUpdate(d, i, row, ls) = IF ls = {} THEN w ELSE SaveLabels(w, t, ls)
  BY DEF CreateOrUpdate
<1>2. row.scope \in Paths
  BY DEF Row
<1>3. /\ h \in Database
      /\ h.scopes = d.scopes \cup Prefixes(row.scope)
      /\ h.labels = d.labels
  BY <1>2, EnsureHierarchySound DEF Sound, EnsureHierarchy, Database
<1> HIDE DEF t, r, h
<1>4. w.scopes = h.scopes /\ w.labels = d.labels
  BY <1>3 DEF Database
<1>5. DOMAIN w = DOMAIN h
  OBVIOUS
<1>6. \A x \in {"scopes", "entries", "labels", "edges"} : x \in DOMAIN w
  BY <1>3, <1>5 DEF Database
<1> HIDE DEF w
<1>7. /\ SaveLabels(w, t, ls).scopes = w.scopes
      /\ SaveLabels(w, t, ls).labels =
            {x \in w.labels : x[1] # t} \cup ({t} \X ls)
  BY <1>6 DEF SaveLabels
<1>8. \A j \in Ids \ {t} : /\ LabelsOf(w, j) = LabelsOf(d, j)
                           /\ LabelsOf(SaveLabels(w, t, ls), j) = LabelsOf(d, j)
  BY <1>4, <1>7 DEF LabelsOf
<1>9. /\ LabelsOf(w, t) = LabelsOf(d, t)
      /\ LabelsOf(SaveLabels(w, t, ls), t) = ls
  BY <1>4, <1>7 DEF LabelsOf
<1> QED
  BY <1>1, <1>3, <1>4, <1>7, <1>8, <1>9 DEF t

\* A change of scope rows is a commit.
LEMMA ScopesCommit ==
    ASSUME NEW d, NEW w, w.entries = d.entries, w.labels = d.labels,
           w.edges = d.edges
    PROVE  Commits(d, w)
BY DEF Commits, Rescopes, SameEntry, LabelsOf

LEMMA SameCommits == ASSUME NEW d PROVE Commits(d, d)
BY ScopesCommit

\* So is a change of edges that turns none into another.
LEMMA EdgesCommit ==
    ASSUME NEW d, NEW w, w.entries = d.entries, w.labels = d.labels,
           w.scopes = d.scopes,
           \A e \in EdgeIds : \/ w.edges[e] = d.edges[e]
                              \/ ~Present(d, e) \/ ~Present(w, e)
    PROVE  Commits(d, w)
BY DEF Commits, Relinks, SameEntry, LabelsOf

\* So is a deletion of entries, and perhaps of scopes with them.
LEMMA DeletesCommit ==
    ASSUME NEW d \in Database, NEW w, NEW gone \in SUBSET Ids,
           w.entries = DeleteEntries(d, gone).entries,
           w.labels = DeleteEntries(d, gone).labels,
           w.edges = DeleteEntries(d, gone).edges,
           w.scopes \subseteq d.scopes
    PROVE  Commits(d, w)
<1>1. Removes(d, w, gone)
  BY DeleteEntriesShape DEF Removes, SameEntry, LabelsOf, Live
<1> QED
  BY <1>1 DEF Commits

LEMMA DeleteEntriesCommits ==
    ASSUME NEW d \in Database, NEW gone \in SUBSET Ids
    PROVE  Commits(d, DeleteEntries(d, gone))
BY DeleteEntriesShape, DeletesCommit

\* The labels of one entry: a change of a live one, and no change otherwise.
LEMMA LabelsCommit ==
    ASSUME NEW d, NEW w, NEW i \in Ids, Live(d, i),
           w.entries = d.entries, w.edges = d.edges, w.scopes = d.scopes,
           \A j \in Ids \ {i} : LabelsOf(w, j) = LabelsOf(d, j)
    PROVE  Commits(d, w)
<1>1. Puts(d, w, i)
  BY DEF Puts, SameEntry, Live
<1> QED
  BY <1>1 DEF Commits

LEMMA DeleteLabelsCommits ==
    ASSUME NEW d \in Database, Consistent(d), NEW i \in Ids
    PROVE  Commits(d, DeleteLabels(d, i))
<1> DEFINE w == DeleteLabels(d, i)
<1>1. /\ w.entries = d.entries /\ w.edges = d.edges /\ w.scopes = d.scopes
      /\ w.labels = {x \in d.labels : x[1] # i}
  BY DEF DeleteLabels, Database
<1> HIDE DEF w
<1>2. \A j \in Ids \ {i} : LabelsOf(w, j) = LabelsOf(d, j)
  BY <1>1 DEF LabelsOf
<1>3. CASE Live(d, i)
  BY <1>1, <1>2, <1>3, LabelsCommit DEF w
<1>4. CASE ~Live(d, i)
  <2>1. w.labels = d.labels
    BY <1>1, <1>4 DEF Consistent, LabelsOwned
  <2> QED
    BY <1>1, <2>1, ScopesCommit DEF w
<1> QED
  BY <1>3, <1>4

LEMMA InsertLabelCommits ==
    ASSUME NEW d \in Database, NEW i \in Ids, NEW l, CanInsertLabel(d, i, l)
    PROVE  Commits(d, InsertLabel(d, i, l))
<1> DEFINE w == InsertLabel(d, i, l)
<1>1. /\ w.entries = d.entries /\ w.edges = d.edges /\ w.scopes = d.scopes
      /\ w.labels = d.labels \cup {<<i, l>>}
  BY DEF InsertLabel, Database
<1> HIDE DEF w
<1>2. \A j \in Ids \ {i} : LabelsOf(w, j) = LabelsOf(d, j)
  BY <1>1 DEF LabelsOf
<1> QED
  BY <1>1, <1>2, LabelsCommit DEF w, CanInsertLabel

LEMMA InsertEdgesCommits ==
    ASSUME NEW d \in Database, NEW from, NEW name, NEW weight,
           CanInsertEdges(d, from, name)
    PROVE  Commits(d, InsertEdges(d, from, name, weight))
BY InsertEdgesShape, EdgesCommit

LEMMA DeleteEdgeCommits ==
    ASSUME NEW d \in Database, NEW e \in EdgeIds
    PROVE  Commits(d, DeleteEdge(d, e))
<1> DEFINE w == DeleteEdge(d, e)
<1>1. /\ w.entries = d.entries /\ w.labels = d.labels /\ w.scopes = d.scopes
      /\ w.edges = [d.edges EXCEPT ![e] = Null]
  BY DEF DeleteEdge, Database
<1> HIDE DEF w
<1>2. \A f \in EdgeIds : w.edges[f] = d.edges[f] \/ ~Present(w, f)
  BY <1>1 DEF Present, Database
<1> QED
  BY <1>1, <1>2, EdgesCommit DEF w

LEMMA SetScopesCommits ==
    ASSUME NEW d \in Database, NEW S
    PROVE  Commits(d, [d EXCEPT !.scopes = S])
<1> DEFINE w == [d EXCEPT !.scopes = S]
<1>1. w.entries = d.entries /\ w.labels = d.labels /\ w.edges = d.edges
  BY DEF Database
<1> HIDE DEF w
<1> QED
  BY <1>1, ScopesCommit DEF w

\* The guarded UPDATE is a commit when the row it writes keeps created_at.
LEMMA UpdateRowCommits ==
    ASSUME NEW d \in Database, NEW i \in Ids, NEW row \in Row,
           CanUpdate(d, i, row), row.created = d.entries[i].created
    PROVE  Commits(d, UpdateRow(d, i, row))
<1> DEFINE new == [row EXCEPT !.version = @ + 1]
           w == UpdateRow(d, i, row)
<1>1. /\ new # Null /\ new.version = row.version + 1
      /\ new.created = row.created
  BY NullRowAssumption DEF Row
<1>2. w = [d EXCEPT !.entries[i] = new]
  BY DEF UpdateRow
<1> HIDE DEF new, w
<1>3. /\ w.entries = [d.entries EXCEPT ![i] = new]
      /\ w.labels = d.labels /\ w.edges = d.edges /\ w.scopes = d.scopes
  BY <1>2 DEF Database
<1>4. w.entries[i] = new /\ \A j \in Ids \ {i} : w.entries[j] = d.entries[j]
  BY <1>3 DEF Database
<1>5. Puts(d, w, i)
  BY <1>1, <1>3, <1>4
     DEF Puts, SameEntry, LabelsOf, Live, CanUpdate, UpdateMatches
<1> QED
  BY <1>5 DEF Commits, w
=============================================================================
