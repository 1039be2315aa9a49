------------------------ MODULE KnownPostgresProofs ------------------------
(***************************************************************************)
(* Transactions on PostgreSQL at READ COMMITTED implement the storage      *)
(* contract, and what update and add promise, proved of KnownPostgres for  *)
(* every value of its constants.                                           *)
(*                                                                         *)
(* A transaction is judged by the database that its COMMIT would leave     *)
(* behind, the overlay of its rows on what is committed.  That it stays    *)
(* consistent while others commit is what the locks are for: nobody else   *)
(* touches a row that it wrote, nobody removes a row that it refers to,    *)
(* it removes none that others refer to, and nobody takes a key that it    *)
(* took.  Interference says that these are enough.                         *)
(***************************************************************************)
EXTENDS KnownPostgres, KnownDBProofs

\* The database that the commit of transaction T would leave behind.
Outcome(d, T) == Overlay(d, T.image, T.written)

\* Scopes and entries that T has deleted.
VanishedScope(T, s) == ScopeRow(s) \in T.written /\ s \notin T.image.scopes
VanishedEntry(T, i) == EntryRow(i) \in T.written /\ ~Live(T.image, i)

WroteEntry(T, i) == EntryRow(i) \in T.written /\ Live(T.image, i)

SameKey(r, s) == r.content = s.content /\ r.scope = s.scope

\* Every row that T leaves behind has share-locked the rows it refers to.
Anchored(T) ==
    /\ \A i \in Ids : WroteEntry(T, i) =>
         ScopeRow(T.image.entries[i].scope) \in T.shared
    /\ \A x \in T.image.labels :
         LabelRow(x) \in T.written => EntryRow(x[1]) \in T.shared
    /\ \A e \in EdgeIds :
         EdgeRow(e) \in T.written /\ Present(T.image, e) =>
           /\ EntryRow(T.image.edges[e].from) \in T.shared
           /\ EntryRow(T.image.edges[e].to) \in T.shared

\* What the locks guarantee of T against another transaction U.
Apart(T, U) ==
    /\ T.written \cap U.written = {}
    /\ \A s \in Paths : VanishedScope(T, s) => ScopeRow(s) \notin U.shared
    /\ \A i \in Ids : VanishedEntry(T, i) => EntryRow(i) \notin U.shared
    /\ \A i, j \in Ids : WroteEntry(T, i) /\ WroteEntry(U, j) =>
         ~SameKey(T.image.entries[i], U.image.entries[j])

-----------------------------------------------------------------------------
(***************************************************************************)
(* What a process and its transaction have done so far, by location l and  *)
(* memory j.                                                               *)
(***************************************************************************)
\* add before its row is written, and after; a recursive scope delete.
Adding(l, j) == \/ l = "upsert"
                \/ l = "scope" /\ j.want # Null /\ j.base = Null

Added(l, j) == \/ l \in {"addClear", "addLabels", "addLinks"}
               \/ l = "commit" /\ j.want # Null

Pruning(l, j) == \/ l \in {"treeEntries", "treeScopes"}
                 \/ l = "commit" /\ j.want = Null

\* update from its first read to its UPDATE.
Rereading(l, j) == \/ l \in {"updateRead", "updateRow"}
                   \/ l = "scope" /\ j.base # Null

\* The transaction of an add has created scopes above, and nothing else ...
WroteScopes(T, path) ==
    /\ \A s \in Paths : ScopeRow(s) \in T.written =>
         s \in T.image.scopes /\ s \in Prefixes(path)

OnlyScopes(T) ==
    /\ \A i \in Ids : EntryRow(i) \notin T.written
    /\ \A x \in Ids \X Labels : LabelRow(x) \notin T.written
    /\ \A e \in EdgeIds : EdgeRow(e) \notin T.written

\* ... or its row, which follows the committed one, and what hangs on it.
WroteRow(T, j, d) ==
    /\ WroteEntry(T, j.id)
    /\ T.image.entries[j.id] =
         [j.want EXCEPT !.created = T.image.entries[j.id].created,
                        !.version = T.image.entries[j.id].version]
    /\ Live(d, j.id) =>
         /\ T.image.entries[j.id].version = d.entries[j.id].version + 1
         /\ T.image.entries[j.id].created = d.entries[j.id].created
    /\ \A i \in Ids : EntryRow(i) \in T.written => i = j.id
    /\ \A x \in Ids \X Labels : LabelRow(x) \in T.written => x[1] = j.id
    /\ \A e \in EdgeIds : EdgeRow(e) \in T.written =>
         /\ Present(T.image, e) /\ T.image.edges[e].from = j.id
         /\ ~Present(d, e)

WroteLabels(T, j) ==
    \A l \in j.labels \ j.todo :
       LabelRow(<<j.id, l>>) \in T.written /\ <<j.id, l>> \in T.image.labels

\* The transaction of a recursive delete has only removed rows.
OnlyRemoved(T, d) ==
    /\ \A s \in Paths : ScopeRow(s) \in T.written => s \notin T.image.scopes
    /\ \A i \in Ids : EntryRow(i) \in T.written => ~Live(T.image, i)
    /\ \A x \in Ids \X Labels :
         LabelRow(x) \in T.written => EntryRow(x[1]) \in T.written
    /\ \A e \in EdgeIds : EdgeRow(e) \in T.written =>
         /\ ~Present(T.image, e) /\ Present(d, e)
         /\ \/ EntryRow(d.edges[e].from) \in T.written
            \/ EntryRow(d.edges[e].to) \in T.written

Fits(l, j, T, d) ==
    /\ ~(Adding(l, j) \/ Added(l, j) \/ Pruning(l, j)) => T = NoTx
    /\ Adding(l, j) \/ Added(l, j) =>
         /\ T.open
         /\ j.id \in Ids /\ j.want \in Row
         /\ j.want.scope = j.path
         /\ WroteScopes(T, j.path)
    /\ Adding(l, j) => OnlyScopes(T) /\ j.base = Null /\ j.todo = j.labels
    /\ Added(l, j) => WroteRow(T, j, d) /\ WroteLabels(T, j)
    /\ l = "addClear" => j.todo = j.labels
    /\ l = "addLinks" \/ (l = "commit" /\ j.want # Null) => j.todo = {}
    /\ Pruning(l, j) => T.open /\ OnlyRemoved(T, d)
    /\ l \in {"treeList", "treeEntries", "treeScopes"} => j.want = Null
    /\ l \in {"treeList", "treeEntries", "treeScopes", "scopeDelete"} =>
         j.path \in Paths
    /\ l = "scope" => j.path \in Paths /\ j.done < Len(j.path)
    /\ l = "updateRead" => j.done = 0
    /\ l = "scope" /\ j.base # Null => j.want \in Row
    /\ Rereading(l, j) => j.id \in Ids /\ j.base \in Row
    /\ Rereading(l, j) /\ l # "updateRead" =>
         /\ j.want \in Row
         /\ j.want.version = j.base.version
         /\ j.want.created = j.base.created
    /\ l \in {"updateClear", "updateLabels", "delete", "link"} => j.id \in Ids
    /\ l = "link" => j.links # {}

\* What add's fresh identifier and update's first reading rest on.
Unknown(i, d) == /\ ~Live(d, i)
                 /\ \A q \in Procs : EntryRow(i) \notin tx[q].written

Knows(j, d) ==
    /\ j.id \in used
    /\ Live(d, j.id) =>
         /\ d.entries[j.id].version >= j.base.version
         /\ d.entries[j.id].version = j.base.version
              => d.entries[j.id] = j.base
    /\ ~Live(d, j.id) => \A q \in Procs : ~WroteEntry(tx[q], j.id)

-----------------------------------------------------------------------------
TransactionsOK ==
    /\ \A p \in Procs : Sound(Outcome(db, tx[p])) /\ Anchored(tx[p])
    /\ \A p, q \in Procs : p # q => Apart(tx[p], tx[q])

JobsOK == \A p \in Procs : Fits(pc[p], job[p], tx[p], db)

UsedOK == \A i \in Ids :
    \/ Live(db, i)
    \/ \E p \in Procs : EntryRow(i) \in tx[p].written
    => i \in used

FreshOK ==
    \A p \in Procs : Adding(pc[p], job[p]) =>
      /\ job[p].id \in used /\ Unknown(job[p].id, db)
      /\ \A q \in Procs \ {p} :
           Adding(pc[q], job[q]) \/ Rereading(pc[q], job[q]) =>
             job[q].id # job[p].id

KnowsOK ==
    \A p \in Procs : Rereading(pc[p], job[p]) => Knows(job[p], db)

IInv == /\ TypeOK
        /\ Sound(db)
        /\ TransactionsOK
        /\ JobsOK
        /\ UsedOK
        /\ FreshOK
        /\ KnowsOK

-----------------------------------------------------------------------------
(***************************************************************************)
(* Rows, differences and overlays, row by row.                             *)
(***************************************************************************)
LEMMA RowsDiffer ==
    /\ \A s, t : ScopeRow(s) = ScopeRow(t) => s = t
    /\ \A i, k : EntryRow(i) = EntryRow(k) => i = k
    /\ \A e, f : EdgeRow(e) = EdgeRow(f) => e = f
    /\ \A x, y \in Ids \X Labels : LabelRow(x) = LabelRow(y) => x = y
    /\ \A s, i : ScopeRow(s) # EntryRow(i)
    /\ \A s, x : ScopeRow(s) # LabelRow(x)
    /\ \A s, e : ScopeRow(s) # EdgeRow(e)
    /\ \A i, x : EntryRow(i) # LabelRow(x)
    /\ \A i, e : EntryRow(i) # EdgeRow(e)
    /\ \A x, e : LabelRow(x) # EdgeRow(e)
BY DEF ScopeRow, EntryRow, EdgeRow, LabelRow

\* Changed has the rows in which two databases differ, and no others.
LEMMA ChangedRows ==
    ASSUME NEW d \in Database, NEW w \in Database
    PROVE  /\ \A s : ScopeRow(s) \in Changed(d, w) <=>
                       ~(s \in d.scopes <=> s \in w.scopes)
           /\ \A i \in Ids : EntryRow(i) \in Changed(d, w) <=>
                               d.entries[i] # w.entries[i]
           /\ \A x \in Ids \X Labels : LabelRow(x) \in Changed(d, w) <=>
                               ~(x \in d.labels <=> x \in w.labels)
           /\ \A e \in EdgeIds : EdgeRow(e) \in Changed(d, w) <=>
                               d.edges[e] # w.edges[e]
<1>1. d.labels \subseteq Ids \X Labels /\ w.labels \subseteq Ids \X Labels
  BY DEF Database
<1> QED
  BY <1>1, RowsDiffer DEF Changed

LEMMA RemovedRows ==
    ASSUME NEW d \in Database, NEW w \in Database
    PROVE  /\ \A s : ScopeRow(s) \in Removed(d, w) <=>
                       s \in d.scopes /\ s \notin w.scopes
           /\ \A i \in Ids : EntryRow(i) \in Removed(d, w) <=>
                               Live(d, i) /\ ~Live(w, i)
BY RowsDiffer DEF Removed

LEMMA OverlayRows ==
    ASSUME NEW d \in Database, NEW w \in Database, NEW rows
    PROVE  LET o == Overlay(d, w, rows)
           IN  /\ o \in Database
               /\ \A s : s \in o.scopes <=>
                    IF ScopeRow(s) \in rows THEN s \in w.scopes
                                            ELSE s \in d.scopes
               /\ \A i \in Ids : o.entries[i] =
                    IF EntryRow(i) \in rows THEN w.entries[i] ELSE d.entries[i]
               /\ \A x : x \in o.labels <=>
                    IF LabelRow(x) \in rows THEN x \in w.labels
                                            ELSE x \in d.labels
               /\ \A e \in EdgeIds : o.edges[e] =
                    IF EdgeRow(e) \in rows THEN w.edges[e] ELSE d.edges[e]
<1> DEFINE o == Overlay(d, w, rows)
<1>1. /\ o.scopes \in SUBSET Paths
      /\ o.entries \in [Ids -> Row \cup {Null}]
      /\ o.labels \in SUBSET (Ids \X Labels)
      /\ o.edges \in [EdgeIds -> Edge \cup {Null}]
  BY DEF Overlay, Database
<1>2. o = [scopes |-> o.scopes, entries |-> o.entries, labels |-> o.labels,
           edges |-> o.edges]
  BY DEF Overlay
<1>3. o \in Database
  BY <1>1, <1>2 DEF Database
<1> QED
  BY <1>3 DEF Overlay

\* Databases with the same rows are the same.
LEMMA SameRows ==
    ASSUME NEW d \in Database, NEW w \in Database,
           \A s : s \in d.scopes <=> s \in w.scopes,
           \A i \in Ids : d.entries[i] = w.entries[i],
           \A x \in Ids \X Labels : x \in d.labels <=> x \in w.labels,
           \A e \in EdgeIds : d.edges[e] = w.edges[e]
    PROVE  d = w
<1>1. d.entries = w.entries /\ d.edges = w.edges
  BY DEF Database
<1>2. d.labels = w.labels /\ d.scopes = w.scopes
  BY DEF Database
<1> QED
  BY <1>1, <1>2 DEF Database

LEMMA EmptyIsADatabase == EmptyDatabase \in Database
BY DEF EmptyDatabase, Database

\* What a process sees is what its commit would leave behind.
LEMMA ViewIsOutcome ==
    ASSUME TypeOK, NEW p \in Procs
    PROVE  View(p) = Outcome(db, tx[p]) /\ View(p) \in Database
<1>1. db \in Database /\ tx[p].image \in Database
  BY DEF TypeOK, Pending
<1>2. Outcome(db, tx[p]) \in Database
  BY <1>1, OverlayRows DEF Outcome
<1>3. CASE tx[p].written = {}
  <2>1. Outcome(db, tx[p]) = db
    BY <1>1, <1>2, <1>3, OverlayRows, SameRows DEF Outcome
  <2> QED
    BY <1>1, <1>3, <2>1 DEF View
<1>4. CASE tx[p].written # {}
  BY <1>2, <1>4 DEF View, Outcome
<1> QED
  BY <1>3, <1>4

-----------------------------------------------------------------------------
(***************************************************************************)
(* Locks keep the outcome of an open transaction consistent.               *)
(***************************************************************************)
\* The change of the committed database from d to w respects the locks of T,
\* and T those of whoever makes it.
Avoids(T, d, w) ==
    /\ Changed(d, w) \cap T.written = {}
    /\ Removed(d, w) \cap T.shared = {}
    /\ \A i \in Ids : w.entries[i] # d.entries[i] /\ Live(w, i) =>
         /\ ~VanishedScope(T, w.entries[i].scope)
         /\ \A j \in Ids : WroteEntry(T, j) =>
              ~SameKey(T.image.entries[j], w.entries[i])
    /\ \A x \in w.labels \ d.labels : ~VanishedEntry(T, x[1])
    /\ \A e \in EdgeIds : w.edges[e] # d.edges[e] /\ Present(w, e) =>
         /\ ~VanishedEntry(T, w.edges[e].from)
         /\ ~VanishedEntry(T, w.edges[e].to)

LEMMA Interference ==
    ASSUME NEW d \in Database, NEW w, Sound(w),
           NEW T \in Pending, Anchored(T), Sound(Outcome(d, T)),
           Avoids(T, d, w)
    PROVE  Sound(Outcome(w, T))
<1> DEFINE v == Outcome(d, T)
           o == Outcome(w, T)
<1>1. /\ w \in Database /\ Consistent(w)
      /\ v \in Database /\ Consistent(v)
      /\ T.image \in Database
  BY DEF Sound, Pending
<1>2. /\ o \in Database
      /\ \A s : s \in o.scopes <=>
           IF ScopeRow(s) \in T.written THEN s \in T.image.scopes
                                        ELSE s \in w.scopes
      /\ \A i \in Ids : o.entries[i] =
           IF EntryRow(i) \in T.written THEN T.image.entries[i]
                                        ELSE w.entries[i]
      /\ \A x : x \in o.labels <=>
           IF LabelRow(x) \in T.written THEN x \in T.image.labels
                                        ELSE x \in w.labels
      /\ \A e \in EdgeIds : o.edges[e] =
           IF EdgeRow(e) \in T.written THEN T.image.edges[e] ELSE w.edges[e]
  BY <1>1, OverlayRows DEF Outcome
<1>3. /\ \A s : s \in v.scopes <=>
           IF ScopeRow(s) \in T.written THEN s \in T.image.scopes
                                        ELSE s \in d.scopes
      /\ \A i \in Ids : v.entries[i] =
           IF EntryRow(i) \in T.written THEN T.image.entries[i]
                                        ELSE d.entries[i]
      /\ \A x : x \in v.labels <=>
           IF LabelRow(x) \in T.written THEN x \in T.image.labels
                                        ELSE x \in d.labels
      /\ \A e \in EdgeIds : v.edges[e] =
           IF EdgeRow(e) \in T.written THEN T.image.edges[e] ELSE d.edges[e]
  BY <1>1, OverlayRows DEF Outcome
<1> HIDE DEF v, o
<1>4. /\ \A s : ScopeRow(s) \in T.shared /\ s \in d.scopes => s \in w.scopes
      /\ \A i \in Ids : EntryRow(i) \in T.shared /\ Live(d, i) => Live(w, i)
  BY <1>1, RemovedRows DEF Avoids
<1>5. ScopesExist(o)
  <2> SUFFICES ASSUME NEW i \in Ids, Live(o, i)
               PROVE  o.entries[i].scope \in o.scopes
    BY DEF ScopesExist
  <2>1. CASE EntryRow(i) \in T.written
    <3>1. WroteEntry(T, i) /\ Live(v, i)
      BY <1>2, <1>3, <2>1 DEF WroteEntry, Live
    <3>2. v.entries[i].scope \in v.scopes /\ o.entries[i] = v.entries[i]
      BY <1>1, <1>2, <1>3, <2>1, <3>1 DEF Consistent, ScopesExist
    <3>3. ScopeRow(o.entries[i].scope) \in T.shared
      BY <1>2, <2>1, <3>1 DEF Anchored
    <3> QED
      BY <1>2, <1>3, <1>4, <3>2, <3>3
  <2>2. CASE EntryRow(i) \notin T.written
    <3>1. Live(w, i) /\ o.entries[i] = w.entries[i]
      BY <1>2, <2>2 DEF Live
    <3>2. w.entries[i].scope \in w.scopes
      BY <1>1, <3>1 DEF Consistent, ScopesExist
    <3>3. ~VanishedScope(T, w.entries[i].scope)
      <4>1. CASE w.entries[i] = d.entries[i]
        <5>1. Live(v, i) /\ v.entries[i] = w.entries[i]
          BY <1>3, <2>2, <3>1, <4>1 DEF Live
        <5>2. v.entries[i].scope \in v.scopes
          BY <1>1, <5>1 DEF Consistent, ScopesExist
        <5> QED
          BY <1>3, <5>1, <5>2 DEF VanishedScope
      <4>2. CASE w.entries[i] # d.entries[i]
        BY <3>1, <4>2 DEF Avoids
      <4> QED
        BY <4>1, <4>2
    <3> QED
      BY <1>2, <3>1, <3>2, <3>3 DEF VanishedScope
  <2> QED
    BY <2>1, <2>2
<1>6. ContentUnique(o)
  <2>1. ASSUME NEW i \in Ids, NEW j \in Ids, Live(o, i), Live(o, j),
               SameKey(o.entries[i], o.entries[j]), i # j,
               EntryRow(i) \in T.written
        PROVE  FALSE
    <3>1. WroteEntry(T, i) /\ Live(v, i) /\ o.entries[i] = v.entries[i]
      BY <1>2, <1>3, <2>1 DEF WroteEntry, Live
    <3>2. CASE EntryRow(j) \in T.written \/ w.entries[j] = d.entries[j]
      <4>1. o.entries[j] = v.entries[j]
        BY <1>2, <1>3, <3>2
      <4> QED
        BY <1>1, <2>1, <3>1, <4>1
           DEF Consistent, ContentUnique, SameKey, Live
    <3>3. CASE EntryRow(j) \notin T.written /\ w.entries[j] # d.entries[j]
      <4>1. o.entries[j] = w.entries[j] /\ Live(w, j)
        BY <1>2, <2>1, <3>3 DEF Live
      <4>2. ~SameKey(T.image.entries[i], w.entries[j])
        BY <3>1, <3>3, <4>1 DEF Avoids
      <4> QED
        BY <1>2, <2>1, <4>1, <4>2
    <3> QED
      BY <3>2, <3>3
  <2>2. ASSUME NEW i \in Ids, NEW j \in Ids, Live(o, i), Live(o, j),
               SameKey(o.entries[i], o.entries[j]), i # j,
               EntryRow(i) \notin T.written, EntryRow(j) \notin T.written
        PROVE  FALSE
    BY <1>1, <1>2, <2>2 DEF Consistent, ContentUnique, SameKey, Live
  <2> QED
    BY <2>1, <2>2 DEF ContentUnique, SameKey
<1>8. \A i \in Ids : Live(v, i) /\ EntryRow(i) \in T.shared => Live(o, i)
  BY <1>2, <1>3, <1>4 DEF Live
<1>9. \A i \in Ids : Live(w, i) /\ ~VanishedEntry(T, i) => Live(o, i)
  BY <1>2 DEF Live, VanishedEntry
<1>10. \A i \in Ids : Live(v, i) => ~VanishedEntry(T, i)
  BY <1>3 DEF Live, VanishedEntry
<1>11. LabelsOwned(o)
  <2> SUFFICES ASSUME NEW x \in o.labels
               PROVE  Live(o, x[1])
    BY DEF LabelsOwned
  <2>1. x \in Ids \X Labels /\ x[1] \in Ids
    BY <1>2 DEF Database
  <2>2. CASE LabelRow(x) \in T.written
    <3>1. x \in T.image.labels /\ x \in v.labels
      BY <1>2, <1>3, <2>2
    <3>2. Live(v, x[1]) /\ EntryRow(x[1]) \in T.shared
      BY <1>1, <2>2, <3>1 DEF Consistent, LabelsOwned, Anchored
    <3> QED
      BY <1>8, <2>1, <3>2
  <2>3. CASE LabelRow(x) \notin T.written
    <3>1. x \in w.labels
      BY <1>2, <2>3
    <3>2. Live(w, x[1])
      BY <1>1, <3>1 DEF Consistent, LabelsOwned
    <3>3. ~VanishedEntry(T, x[1])
      <4>1. CASE x \in d.labels
        <5>1. x \in v.labels
          BY <1>3, <2>3, <4>1
        <5>2. Live(v, x[1])
          BY <1>1, <5>1 DEF Consistent, LabelsOwned
        <5> QED
          BY <1>10, <2>1, <5>2
      <4>2. CASE x \notin d.labels
        BY <3>1, <4>2 DEF Avoids
      <4> QED
        BY <4>1, <4>2
    <3> QED
      BY <1>9, <2>1, <3>2, <3>3
  <2> QED
    BY <2>2, <2>3
<1>12. EdgesAnchored(o)
  <2> SUFFICES ASSUME NEW e \in EdgeIds, Present(o, e)
               PROVE  /\ Live(o, o.edges[e].from)
                      /\ Live(o, o.edges[e].to)
                      /\ o.edges[e].from # o.edges[e].to
    BY DEF EdgesAnchored
  <2>1. o.edges[e].from \in Ids /\ o.edges[e].to \in Ids
    BY <1>2 DEF Database, Edge, Present
  <2>2. CASE EdgeRow(e) \in T.written
    <3>1. Present(T.image, e) /\ Present(v, e) /\ o.edges[e] = v.edges[e]
          /\ o.edges[e] = T.image.edges[e]
      BY <1>2, <1>3, <2>2 DEF Present
    <3>2. /\ Live(v, o.edges[e].from) /\ EntryRow(o.edges[e].from) \in T.shared
          /\ Live(v, o.edges[e].to) /\ EntryRow(o.edges[e].to) \in T.shared
          /\ o.edges[e].from # o.edges[e].to
      BY <1>1, <2>2, <3>1 DEF Consistent, EdgesAnchored, Anchored
    <3> QED
      BY <1>8, <2>1, <3>2
  <2>3. CASE EdgeRow(e) \notin T.written
    <3>1. o.edges[e] = w.edges[e] /\ Present(w, e)
      BY <1>2, <2>3 DEF Present
    <3>2. /\ Live(w, o.edges[e].from) /\ Live(w, o.edges[e].to)
          /\ o.edges[e].from # o.edges[e].to
      BY <1>1, <3>1 DEF Consistent, EdgesAnchored
    <3>3. /\ ~VanishedEntry(T, o.edges[e].from)
          /\ ~VanishedEntry(T, o.edges[e].to)
      <4>1. CASE w.edges[e] = d.edges[e]
        <5>1. v.edges[e] = o.edges[e] /\ Present(v, e)
          BY <1>3, <2>3, <3>1, <4>1 DEF Present
        <5>2. Live(v, o.edges[e].from) /\ Live(v, o.edges[e].to)
          BY <1>1, <5>1 DEF Consistent, EdgesAnchored
        <5> QED
          BY <1>10, <2>1, <5>2
      <4>2. CASE w.edges[e] # d.edges[e]
        BY <3>1, <4>2 DEF Avoids
      <4> QED
        BY <4>1, <4>2
    <3> QED
      BY <1>9, <2>1, <3>2, <3>3
  <2> QED
    BY <2>2, <2>3
<1> QED
  BY <1>2, <1>5, <1>6, <1>11, <1>12 DEF o, Sound, Consistent

-----------------------------------------------------------------------------
(***************************************************************************)
(* A statement, in a transaction and outside of one.                       *)
(***************************************************************************)
ParentRows == {"scope"} \X Paths \cup {"entry"} \X Ids

\* The rows that w adds to d, or changes, refer to rows of `parents`.
References(d, w, parents) ==
    /\ \A i \in Ids : w.entries[i] # d.entries[i] /\ Live(w, i) =>
         ScopeRow(w.entries[i].scope) \in parents
    /\ \A x \in w.labels \ d.labels : EntryRow(x[1]) \in parents
    /\ \A e \in EdgeIds : w.edges[e] # d.edges[e] /\ Present(w, e) =>
         /\ EntryRow(w.edges[e].from) \in parents
         /\ EntryRow(w.edges[e].to) \in parents

\* No other transaction holds a key that w takes.
KeysFree(p, d, w) ==
    \A i \in Ids : w.entries[i] # d.entries[i] /\ Live(w, i) =>
      ~KeyInDoubt(p, w.entries[i].content, w.entries[i].scope)

\* What a guard on the locks of the others says of one of them.
LEMMA LocksOfAnother ==
    ASSUME NEW p \in Procs, NEW q \in Procs \ {p}, NEW rows, NEW parents
    PROVE  /\ rows \cap LockedByOthers(p) = {} => rows \cap tx[q].written = {}
           /\ rows \cap SharedByOthers(p) = {} => rows \cap tx[q].shared = {}
           /\ parents \cap Vanishing(p) = {} =>
                /\ \A s : ScopeRow(s) \in parents => ~VanishedScope(tx[q], s)
                /\ \A i : EntryRow(i) \in parents => ~VanishedEntry(tx[q], i)
<1>1. q \in Others(p)
  BY DEF Others
<1>2. tx[q].written \subseteq LockedByOthers(p)
  BY <1>1 DEF LockedByOthers
<1>3. tx[q].shared \subseteq SharedByOthers(p)
  BY <1>1 DEF SharedByOthers
<1>4. ASSUME NEW s, VanishedScope(tx[q], s) PROVE ScopeRow(s) \in Vanishing(p)
  <2>1. ScopeRow(s)[1] = "scope" /\ ScopeRow(s)[2] = s
    BY DEF ScopeRow
  <2> QED
    BY <1>1, <1>4, <2>1 DEF Vanishing, VanishedScope
<1>5. ASSUME NEW i, VanishedEntry(tx[q], i) PROVE EntryRow(i) \in Vanishing(p)
  <2>1. EntryRow(i)[1] = "entry" /\ EntryRow(i)[2] = i
    BY DEF EntryRow
  <2> QED
    BY <1>1, <1>5, <2>1 DEF Vanishing, VanishedEntry, Live
<1> QED
  BY <1>2, <1>3, <1>4, <1>5

LEMMA KeysOfAnother ==
    ASSUME NEW p \in Procs, NEW q \in Procs \ {p}, NEW r,
           ~KeyInDoubt(p, r.content, r.scope)
    PROVE  \A i \in Ids : WroteEntry(tx[q], i) =>
             ~SameKey(tx[q].image.entries[i], r)
BY DEF KeyInDoubt, Others, WroteEntry, SameKey, Holders

\* A statement that commits by itself respects the locks of the others.
LEMMA ExecuteAlone ==
    ASSUME TypeOK, NEW p \in Procs, NEW w, NEW parents,
           tx[p] = NoTx, Execute(p, w, parents),
           References(db, w, parents), KeysFree(p, db, w)
    PROVE  /\ db' = w /\ tx' = tx
           /\ \A q \in Procs \ {p} : Avoids(tx[q], db, w)
<1>1. View(p) = db /\ ~tx[p].open
  BY DEF NoTx, View
<1>2. /\ Changed(db, w) \cap LockedByOthers(p) = {}
      /\ Removed(db, w) \cap SharedByOthers(p) = {}
      /\ parents \cap Vanishing(p) = {}
      /\ db' = w /\ tx' = tx
  BY <1>1 DEF Execute
<1>3. ASSUME NEW q \in Procs \ {p} PROVE Avoids(tx[q], db, w)
  <2>1. /\ Changed(db, w) \cap tx[q].written = {}
        /\ Removed(db, w) \cap tx[q].shared = {}
        /\ \A s : ScopeRow(s) \in parents => ~VanishedScope(tx[q], s)
        /\ \A i : EntryRow(i) \in parents => ~VanishedEntry(tx[q], i)
    BY <1>2, LocksOfAnother
  <2>2. ASSUME NEW i \in Ids, w.entries[i] # db.entries[i], Live(w, i)
        PROVE  \A j \in Ids : WroteEntry(tx[q], j) =>
                 ~SameKey(tx[q].image.entries[j], w.entries[i])
    BY <2>2, KeysOfAnother DEF KeysFree
  <2> QED
    BY <2>1, <2>2 DEF Avoids, References
<1> QED
  BY <1>2, <1>3

\* Row by row: d is what a transaction T sees of the committed database c ...
Sees(d, c, T) ==
    /\ d \in Database
    /\ \A s : s \in d.scopes <=>
         IF ScopeRow(s) \in T.written THEN s \in T.image.scopes
                                      ELSE s \in c.scopes
    /\ \A i \in Ids : d.entries[i] =
         IF EntryRow(i) \in T.written THEN T.image.entries[i]
                                      ELSE c.entries[i]
    /\ \A x : x \in d.labels <=>
         IF LabelRow(x) \in T.written THEN x \in T.image.labels
                                      ELSE x \in c.labels
    /\ \A e \in EdgeIds : d.edges[e] =
         IF EdgeRow(e) \in T.written THEN T.image.edges[e] ELSE c.edges[e]

\* ... and U is the transaction once a statement has turned d into w.
Wrote(U, T, d, w) ==
    /\ \A s : ScopeRow(s) \in U.written <=>
         ScopeRow(s) \in T.written \/ ~(s \in d.scopes <=> s \in w.scopes)
    /\ \A i \in Ids : EntryRow(i) \in U.written <=>
         EntryRow(i) \in T.written \/ d.entries[i] # w.entries[i]
    /\ \A x \in Ids \X Labels : LabelRow(x) \in U.written <=>
         LabelRow(x) \in T.written \/ ~(x \in d.labels <=> x \in w.labels)
    /\ \A e \in EdgeIds : EdgeRow(e) \in U.written <=>
         EdgeRow(e) \in T.written \/ d.edges[e] # w.edges[e]
    /\ \A s : s \in U.image.scopes <=> ScopeRow(s) \in U.written /\ s \in w.scopes
    /\ \A i \in Ids : EntryRow(i) \in U.written =>
         U.image.entries[i] = w.entries[i]
    /\ \A x : x \in U.image.labels <=> LabelRow(x) \in U.written /\ x \in w.labels
    /\ \A e \in EdgeIds : EdgeRow(e) \in U.written =>
         U.image.edges[e] = w.edges[e]

LEMMA OutcomeSees ==
    ASSUME NEW c \in Database, NEW T \in Pending
    PROVE  Sees(Outcome(c, T), c, T)
<1>1. T.image \in Database
  BY DEF Pending
<1> QED
  BY <1>1, OverlayRows DEF Outcome, Sees

LEMMA StatementWrote ==
    ASSUME NEW T, NEW d \in Database, NEW w \in Database, NEW U,
           U.written = T.written \cup Changed(d, w),
           U.image = Overlay(EmptyDatabase, w, U.written)
    PROVE  Wrote(U, T, d, w)
<1>1. /\ \A s : ScopeRow(s) \in U.written <=>
           ScopeRow(s) \in T.written \/ ~(s \in d.scopes <=> s \in w.scopes)
      /\ \A i \in Ids : EntryRow(i) \in U.written <=>
           EntryRow(i) \in T.written \/ d.entries[i] # w.entries[i]
      /\ \A x \in Ids \X Labels : LabelRow(x) \in U.written <=>
           LabelRow(x) \in T.written \/ ~(x \in d.labels <=> x \in w.labels)
      /\ \A e \in EdgeIds : EdgeRow(e) \in U.written <=>
           EdgeRow(e) \in T.written \/ d.edges[e] # w.edges[e]
  BY ChangedRows
<1>2. EmptyDatabase.scopes = {} /\ EmptyDatabase.labels = {}
  BY DEF EmptyDatabase
<1>3. /\ \A s : s \in U.image.scopes <=>
           ScopeRow(s) \in U.written /\ s \in w.scopes
      /\ \A i \in Ids : EntryRow(i) \in U.written =>
           U.image.entries[i] = w.entries[i]
      /\ \A x : x \in U.image.labels <=>
           LabelRow(x) \in U.written /\ x \in w.labels
      /\ \A e \in EdgeIds : EdgeRow(e) \in U.written =>
           U.image.edges[e] = w.edges[e]
  BY <1>2, EmptyIsADatabase, OverlayRows
<1> QED
  BY <1>1, <1>3 DEF Wrote

\* A statement in a transaction: its outcome is the database the statement
\* leaves behind, and the locks are kept.
LEMMA ExecuteInside ==
    ASSUME TypeOK, TransactionsOK, NEW p \in Procs, NEW w,
           NEW parents \in SUBSET ParentRows,
           tx[p].open, Execute(p, w, parents), Sound(w),
           References(View(p), w, parents), KeysFree(p, View(p), w)
    PROVE  /\ db' = db
           /\ tx' = [tx EXCEPT ![p] = tx'[p]]
           /\ tx'[p] \in Pending /\ tx'[p].open
           /\ tx'[p].written = tx[p].written \cup Changed(View(p), w)
           /\ tx'[p].image = Overlay(EmptyDatabase, w, tx'[p].written)
           /\ Outcome(db, tx'[p]) = w
           /\ Anchored(tx'[p])
           /\ \A q \in Procs \ {p} : /\ Apart(tx'[p], tx[q])
                                     /\ Apart(tx[q], tx'[p])
<1> DEFINE d == View(p)
           T == tx[p]
           U == tx'[p]
           W == T.written \cup Changed(d, w)
<1>1. /\ T \in Pending /\ T.image \in Database
      /\ db \in Database /\ w \in Database
      /\ d = Outcome(db, T) /\ d \in Database
      /\ tx \in [Procs -> Pending]
  BY ViewIsOutcome DEF TypeOK, Pending, Sound
<1>2. /\ Changed(d, w) \cap LockedByOthers(p) = {}
      /\ Removed(d, w) \cap SharedByOthers(p) = {}
      /\ parents \cap Vanishing(p) = {}
      /\ db' = db
      /\ tx' = [tx EXCEPT ![p] =
                 [open |-> TRUE, written |-> W,
                  image |-> Overlay(EmptyDatabase, w, W),
                  shared |-> T.shared \cup parents]]
  BY DEF Execute
<1>3. /\ U = [open |-> TRUE, written |-> W,
              image |-> Overlay(EmptyDatabase, w, W),
              shared |-> T.shared \cup parents]
      /\ tx' = [tx EXCEPT ![p] = U]
  <2> DEFINE R == [open |-> TRUE, written |-> W,
                   image |-> Overlay(EmptyDatabase, w, W),
                   shared |-> T.shared \cup parents]
  <2>1. tx' = [tx EXCEPT ![p] = R]
    BY <1>2
  <2> HIDE DEF R
  <2>2. tx'[p] = R
    BY <1>1, <2>1
  <2> QED
    BY <2>1, <2>2 DEF R
<1>4. Changed(d, w) \subseteq {"scope"} \X Paths \cup {"entry"} \X Ids
                        \cup {"label"} \X Ids \X Labels
                        \cup {"edge"} \X EdgeIds
  BY <1>1 DEF Changed, Database, ScopeRow, EntryRow, LabelRow, EdgeRow
<1>5. Overlay(EmptyDatabase, w, W) \in Database
  BY <1>1, EmptyIsADatabase, OverlayRows
<1> HIDE DEF d, W
<1>6. /\ U.written = W /\ U.image = Overlay(EmptyDatabase, w, W)
      /\ U.shared = T.shared \cup parents /\ U.open
      /\ U \in Pending
  <2>1. /\ U.written = W /\ U.image = Overlay(EmptyDatabase, w, W)
        /\ U.shared = T.shared \cup parents /\ U.open
    BY <1>1, <1>3 DEF Pending
  <2>2. W \in SUBSET ({"scope"} \X Paths \cup {"entry"} \X Ids
                        \cup {"label"} \X Ids \X Labels
                        \cup {"edge"} \X EdgeIds)
    BY <1>1, <1>4 DEF W, Pending
  <2>3. T.shared \cup parents \in SUBSET ({"scope"} \X Paths \cup {"entry"} \X Ids)
    BY <1>1 DEF Pending, ParentRows
  <2> QED
    BY <1>1, <1>3, <1>5, <2>1, <2>2, <2>3 DEF Pending
<1> HIDE DEF U
<1>7. /\ \A s : s \in U.image.scopes <=> ScopeRow(s) \in W /\ s \in w.scopes
      /\ \A i \in Ids : EntryRow(i) \in W => U.image.entries[i] = w.entries[i]
      /\ \A x : x \in U.image.labels <=> LabelRow(x) \in W /\ x \in w.labels
      /\ \A e \in EdgeIds : EdgeRow(e) \in W => U.image.edges[e] = w.edges[e]
      /\ \A s : s \in d.scopes <=>
           IF ScopeRow(s) \in T.written THEN s \in T.image.scopes
                                        ELSE s \in db.scopes
      /\ \A i \in Ids : d.entries[i] =
           IF EntryRow(i) \in T.written THEN T.image.entries[i]
                                        ELSE db.entries[i]
      /\ \A x : x \in d.labels <=>
           IF LabelRow(x) \in T.written THEN x \in T.image.labels
                                        ELSE x \in db.labels
      /\ \A e \in EdgeIds : d.edges[e] =
           IF EdgeRow(e) \in T.written THEN T.image.edges[e] ELSE db.edges[e]
      /\ \A s : ScopeRow(s) \in W <=>
           ScopeRow(s) \in T.written \/ ~(s \in d.scopes <=> s \in w.scopes)
      /\ \A i \in Ids : EntryRow(i) \in W <=>
           EntryRow(i) \in T.written \/ d.entries[i] # w.entries[i]
      /\ \A x \in Ids \X Labels : LabelRow(x) \in W <=>
           LabelRow(x) \in T.written \/ ~(x \in d.labels <=> x \in w.labels)
      /\ \A e \in EdgeIds : EdgeRow(e) \in W <=>
           EdgeRow(e) \in T.written \/ d.edges[e] # w.edges[e]
  <2>1. Sees(d, db, T)
    BY <1>1, OutcomeSees
  <2>2. Wrote(U, T, d, w) /\ U.written = W
    BY <1>1, <1>6, StatementWrote DEF W
  <2> HIDE DEF T, W
  <2> QED
    BY <2>1, <2>2 DEF Sees, Wrote
<1>10. Outcome(db, U) = w
  <2>1. /\ Outcome(db, U) \in Database
        /\ \A s : s \in Outcome(db, U).scopes <=>
             IF ScopeRow(s) \in W THEN s \in U.image.scopes ELSE s \in db.scopes
        /\ \A i \in Ids : Outcome(db, U).entries[i] =
             IF EntryRow(i) \in W THEN U.image.entries[i] ELSE db.entries[i]
        /\ \A x : x \in Outcome(db, U).labels <=>
             IF LabelRow(x) \in W THEN x \in U.image.labels ELSE x \in db.labels
        /\ \A e \in EdgeIds : Outcome(db, U).edges[e] =
             IF EdgeRow(e) \in W THEN U.image.edges[e] ELSE db.edges[e]
    BY <1>1, <1>5, <1>6, OverlayRows DEF Outcome
  <2>2. \A s : s \in Outcome(db, U).scopes <=> s \in w.scopes
    BY <1>7, <2>1
  <2>3. \A i \in Ids : Outcome(db, U).entries[i] = w.entries[i]
    <3>1. \A i \in Ids :
            /\ EntryRow(i) \in W => U.image.entries[i] = w.entries[i]
            /\ d.entries[i] = IF EntryRow(i) \in T.written THEN T.image.entries[i]
                                                          ELSE db.entries[i]
            /\ EntryRow(i) \in W <=>
                 EntryRow(i) \in T.written \/ d.entries[i] # w.entries[i]
            /\ Outcome(db, U).entries[i] =
                 IF EntryRow(i) \in W THEN U.image.entries[i] ELSE db.entries[i]
      BY <1>7, <2>1
    <3> HIDE DEF T
    <3> QED
      BY <3>1
  <2>4. \A x \in Ids \X Labels : x \in Outcome(db, U).labels <=> x \in w.labels
    <3>1. \A x \in Ids \X Labels :
            /\ x \in U.image.labels <=> LabelRow(x) \in W /\ x \in w.labels
            /\ x \in d.labels <=>
                 IF LabelRow(x) \in T.written THEN x \in T.image.labels
                                              ELSE x \in db.labels
            /\ LabelRow(x) \in W <=>
                 LabelRow(x) \in T.written \/ ~(x \in d.labels <=> x \in w.labels)
            /\ x \in Outcome(db, U).labels <=>
                 IF LabelRow(x) \in W THEN x \in U.image.labels ELSE x \in db.labels
      BY <1>7, <2>1
    <3> HIDE DEF T
    <3> QED
      BY <3>1
  <2>5. \A e \in EdgeIds : Outcome(db, U).edges[e] = w.edges[e]
    BY <1>7, <2>1
  <2> QED
    BY <1>1, <2>1, <2>2, <2>3, <2>4, <2>5, SameRows
<1>11. Anchored(U)
  <2>1. Anchored(T)
    BY DEF TransactionsOK
  <2>2. ASSUME NEW i \in Ids, WroteEntry(U, i)
        PROVE  ScopeRow(U.image.entries[i].scope) \in U.shared
    <3>1. EntryRow(i) \in W /\ U.image.entries[i] = w.entries[i] /\ Live(w, i)
      BY <1>6, <1>7, <2>2 DEF WroteEntry, Live
    <3>2. CASE d.entries[i] = w.entries[i]
      <4>1. WroteEntry(T, i) /\ T.image.entries[i] = w.entries[i]
        BY <1>7, <3>1, <3>2 DEF WroteEntry, Live
      <4> QED
        BY <1>6, <2>1, <3>1, <4>1 DEF Anchored
    <3>3. CASE d.entries[i] # w.entries[i]
      BY <1>6, <3>1, <3>3 DEF References, d
    <3> QED
      BY <3>2, <3>3
  <2>3. ASSUME NEW x \in U.image.labels, LabelRow(x) \in U.written
        PROVE  EntryRow(x[1]) \in U.shared
    <3>1. x \in Ids \X Labels /\ x \in w.labels /\ LabelRow(x) \in W
      BY <1>5, <1>6, <1>7, <2>3 DEF Database
    <3>2. CASE x \in d.labels
      <4>1. LabelRow(x) \in T.written /\ x \in T.image.labels
        BY <1>7, <3>1, <3>2
      <4> QED
        BY <1>6, <2>1, <4>1 DEF Anchored
    <3>3. CASE x \notin d.labels
      BY <1>6, <3>1, <3>3 DEF References, d
    <3> QED
      BY <3>2, <3>3
  <2>4. ASSUME NEW e \in EdgeIds, EdgeRow(e) \in U.written,
               Present(U.image, e)
        PROVE  /\ EntryRow(U.image.edges[e].from) \in U.shared
               /\ EntryRow(U.image.edges[e].to) \in U.shared
    <3>1. EdgeRow(e) \in W /\ U.image.edges[e] = w.edges[e] /\ Present(w, e)
      BY <1>6, <1>7, <2>4 DEF Present
    <3>2. CASE d.edges[e] = w.edges[e]
      <4>1. /\ EdgeRow(e) \in T.written /\ Present(T.image, e)
            /\ T.image.edges[e] = w.edges[e]
        BY <1>7, <3>1, <3>2 DEF Present
      <4> QED
        BY <1>6, <2>1, <3>1, <4>1 DEF Anchored
    <3>3. CASE d.edges[e] # w.edges[e]
      BY <1>6, <3>1, <3>3 DEF References, d
    <3> QED
      BY <3>2, <3>3
  <2> QED
    BY <2>2, <2>3, <2>4 DEF Anchored
<1>12. ASSUME NEW q \in Procs \ {p}
       PROVE  Apart(U, tx[q]) /\ Apart(tx[q], U)
  <2>1. /\ Changed(d, w) \cap tx[q].written = {}
        /\ Removed(d, w) \cap tx[q].shared = {}
        /\ \A s : ScopeRow(s) \in parents => ~VanishedScope(tx[q], s)
        /\ \A i : EntryRow(i) \in parents => ~VanishedEntry(tx[q], i)
    BY <1>2, LocksOfAnother DEF d
  <2>2. Apart(T, tx[q]) /\ Apart(tx[q], T)
    BY DEF TransactionsOK
  <2>3. U.written \cap tx[q].written = {}
    BY <1>6, <2>1, <2>2 DEF Apart, W
  <2>4. /\ \A s \in Paths : VanishedScope(U, s) => ScopeRow(s) \notin tx[q].shared
        /\ \A i \in Ids : VanishedEntry(U, i) => EntryRow(i) \notin tx[q].shared
    <3>1. ASSUME NEW s \in Paths, VanishedScope(U, s)
          PROVE  ScopeRow(s) \notin tx[q].shared
      <4>1. ScopeRow(s) \in W /\ s \notin w.scopes
        BY <1>6, <1>7, <3>1 DEF VanishedScope
      <4>2. CASE s \in d.scopes
        BY <1>1, <2>1, <4>1, <4>2, RemovedRows
      <4>3. CASE s \notin d.scopes
        <5>1. VanishedScope(T, s)
          BY <1>7, <4>1, <4>3 DEF VanishedScope
        <5> QED
          BY <2>2, <5>1 DEF Apart
      <4> QED
        BY <4>2, <4>3
    <3>2. ASSUME NEW i \in Ids, VanishedEntry(U, i)
          PROVE  EntryRow(i) \notin tx[q].shared
      <4>1. EntryRow(i) \in W /\ ~Live(w, i)
        BY <1>6, <1>7, <3>2 DEF VanishedEntry, Live
      <4>2. CASE Live(d, i)
        BY <1>1, <2>1, <4>1, <4>2, RemovedRows
      <4>3. CASE ~Live(d, i)
        <5>1. VanishedEntry(T, i)
          BY <1>7, <4>1, <4>3 DEF VanishedEntry, Live
        <5> QED
          BY <2>2, <5>1 DEF Apart
      <4> QED
        BY <4>2, <4>3
    <3> QED
      BY <3>1, <3>2
  <2>5. /\ \A s \in Paths : VanishedScope(tx[q], s) => ScopeRow(s) \notin U.shared
        /\ \A i \in Ids : VanishedEntry(tx[q], i) => EntryRow(i) \notin U.shared
    BY <1>6, <2>1, <2>2 DEF Apart
  <2>6. ASSUME NEW i \in Ids, NEW j \in Ids, WroteEntry(U, i),
               WroteEntry(tx[q], j)
        PROVE  ~SameKey(U.image.entries[i], tx[q].image.entries[j])
    <3>1. EntryRow(i) \in W /\ U.image.entries[i] = w.entries[i] /\ Live(w, i)
      BY <1>6, <1>7, <2>6 DEF WroteEntry, Live
    <3>2. CASE d.entries[i] = w.entries[i]
      <4>1. WroteEntry(T, i) /\ T.image.entries[i] = w.entries[i]
        BY <1>7, <3>1, <3>2 DEF WroteEntry, Live
      <4> QED
        BY <2>2, <2>6, <3>1, <4>1 DEF Apart
    <3>3. CASE d.entries[i] # w.entries[i]
      <4>1. ~KeyInDoubt(p, w.entries[i].content, w.entries[i].scope)
        BY <3>1, <3>3 DEF KeysFree, d
      <4> QED
        BY <2>6, <3>1, <4>1, KeysOfAnother DEF SameKey
    <3> QED
      BY <3>2, <3>3
  <2> QED
    BY <2>3, <2>4, <2>5, <2>6 DEF Apart, SameKey
<1> QED
  BY <1>2, <1>3, <1>6, <1>10, <1>11, <1>12 DEF U, W, d

\* A statement that fails, or one that only reads, disturbs nobody.
LEMMA AvoidsSame == ASSUME NEW T, NEW d \in Database PROVE Avoids(T, d, d)
<1>1. Changed(d, d) = {} /\ Removed(d, d) = {}
  BY DEF Changed, Removed
<1> QED
  BY <1>1 DEF Avoids

\* A transaction that has written nothing yet, and none at all.
LEMMA EmptyTransaction ==
    ASSUME NEW d \in Database, NEW T \in {NoTx, Opened}
    PROVE  /\ T \in Pending /\ T.written = {} /\ T.shared = {}
           /\ Outcome(d, T) = d
           /\ Anchored(T)
           /\ \A U : Apart(T, U) /\ Apart(U, T)
<1>1. /\ T.written = {} /\ T.shared = {} /\ T.image = EmptyDatabase
      /\ T \in Pending
  <2>1. \A R, S : NoTx \in [open : BOOLEAN, image : Database,
                           written : SUBSET R, shared : SUBSET S]
    BY EmptyIsADatabase DEF NoTx
  <2>2. NoTx \in Pending
    BY <2>1 DEF Pending
  <2>3. /\ NoTx.written = {} /\ NoTx.shared = {}
        /\ NoTx.image = EmptyDatabase
    BY DEF NoTx
  <2> HIDE DEF NoTx
  <2>4. Opened \in Pending
    BY <2>2 DEF Opened, Pending
  <2>5. /\ Opened.written = NoTx.written /\ Opened.shared = NoTx.shared
        /\ Opened.image = NoTx.image
    BY <2>2 DEF Opened, Pending
  <2> QED
    BY <2>2, <2>3, <2>4, <2>5
<1>2. Outcome(d, T) = d
  <2>1. Outcome(d, T) \in Database
    BY <1>1, EmptyIsADatabase, OverlayRows DEF Outcome
  <2> QED
    BY <1>1, <2>1, EmptyIsADatabase, OverlayRows, SameRows DEF Outcome
<1>3. Anchored(T)
  BY <1>1 DEF Anchored, WroteEntry
<1>4. \A U : Apart(T, U) /\ Apart(U, T)
  BY <1>1 DEF Apart, VanishedScope, VanishedEntry, WroteEntry
<1> QED
  BY <1>1, <1>2, <1>3, <1>4

-----------------------------------------------------------------------------
(***************************************************************************)
(* What a step of one process may do, so that the invariant survives it.   *)
(***************************************************************************)
\* Only process p moves.
OthersWait(p) ==
    \A q \in Procs \ {p} :
      pc'[q] = pc[q] /\ job'[q] = job[q] /\ tx'[q] = tx[q]

\* A committed row is kept, or gets its next version, or is one that the
\* transaction of p had written.
RowsFollow(p) ==
    \A i \in Ids : Live(db', i) =>
      \/ db'.entries[i] = db.entries[i]
      \/ Live(db, i) /\ db'.entries[i].version = db.entries[i].version + 1
      \/ ~Live(db, i) /\ WroteEntry(tx[p], i)

\* A transaction takes up rows that are committed, and the row of its add.
RowsTaken(p) ==
    \A i \in Ids : EntryRow(i) \in tx'[p].written =>
      /\ db' = db
      /\ \/ EntryRow(i) \in tx[p].written
         \/ Live(db, i)
         \/ Adding(pc[p], job[p]) /\ i = job[p].id
      /\ WroteEntry(tx'[p], i) =>
           \/ WroteEntry(tx[p], i)
           \/ Live(db, i)
           \/ Adding(pc[p], job[p]) /\ i = job[p].id

\* An add goes on with its identifier, or draws a new one.
AddKeepsId(p) ==
    Adding(pc'[p], job'[p]) =>
      /\ EntryRow(job'[p].id) \notin tx'[p].written
      /\ \/ Adding(pc[p], job[p]) /\ job'[p].id = job[p].id
         \/ /\ job'[p].id \in Ids
            /\ job'[p].id \notin used /\ job'[p].id \in used'

\* An update goes on with the row that it read, or reads one.
UpdateKeepsBase(p) ==
    Rereading(pc'[p], job'[p]) =>
      \/ /\ Rereading(pc[p], job[p])
         /\ job'[p].id = job[p].id /\ job'[p].base = job[p].base
      \/ /\ db' = db /\ Live(db, job'[p].id) /\ job'[p].id \in Ids
         /\ job'[p].base = db.entries[job'[p].id]

Keeps(p) ==
    /\ TypeOK' /\ OthersWait(p) /\ used \subseteq used'
    /\ Sound(db')
    /\ \A q \in Procs \ {p} : Avoids(tx[q], db, db')
    /\ Sound(Outcome(db', tx'[p])) /\ Anchored(tx'[p])
    /\ \A q \in Procs \ {p} : Apart(tx'[p], tx[q]) /\ Apart(tx[q], tx'[p])
    /\ Fits(pc'[p], job'[p], tx'[p], db')
    /\ RowsFollow(p) /\ RowsTaken(p) /\ AddKeepsId(p) /\ UpdateKeepsBase(p)

\* What one transaction knows of the committed rows it has locked stays true.
LEMMA LockedRowsStay ==
    ASSUME NEW d \in Database, NEW w \in Database, NEW T, Avoids(T, d, w)
    PROVE  /\ \A i \in Ids : EntryRow(i) \in T.written =>
                w.entries[i] = d.entries[i]
           /\ \A e \in EdgeIds : EdgeRow(e) \in T.written =>
                w.edges[e] = d.edges[e]
BY ChangedRows DEF Avoids

LEMMA FitsStays ==
    ASSUME NEW d \in Database, NEW w \in Database, NEW T, NEW l, NEW j,
           Avoids(T, d, w), Fits(l, j, T, d)
    PROVE  Fits(l, j, T, w)
<1>1. /\ \A i \in Ids : EntryRow(i) \in T.written =>
           w.entries[i] = d.entries[i]
      /\ \A e \in EdgeIds : EdgeRow(e) \in T.written => w.edges[e] = d.edges[e]
  BY LockedRowsStay
<1>2. ASSUME WroteRow(T, j, d), j.id \in Ids PROVE WroteRow(T, j, w)
  BY <1>1, <1>2 DEF WroteRow, WroteEntry, Live, Present
<1>3. ASSUME OnlyRemoved(T, d) PROVE OnlyRemoved(T, w)
  BY <1>1, <1>3 DEF OnlyRemoved, Present
<1>4. Adding(l, j) \/ Added(l, j) => j.id \in Ids
  BY DEF Fits
<1>5. Added(l, j) => WroteRow(T, j, w) /\ WroteLabels(T, j)
  BY <1>2, <1>4 DEF Fits
<1>6. Pruning(l, j) => T.open /\ OnlyRemoved(T, w)
  BY <1>3 DEF Fits
<1> QED
  BY <1>5, <1>6 DEF Fits

LEMMA TransactionsKept ==
    ASSUME IInv, NEW p \in Procs, Keeps(p)
    PROVE  TransactionsOK'
<1>1. /\ \A q \in Procs \ {p} : tx'[q] = tx[q]
      /\ \A q \in Procs : tx[q] \in Pending
      /\ db \in Database /\ Sound(db')
  BY DEF Keeps, OthersWait, IInv, TypeOK
<1>2. ASSUME NEW q \in Procs
      PROVE  Sound(Outcome(db', tx'[q])) /\ Anchored(tx'[q])
  <2>1. CASE q = p
    BY <2>1 DEF Keeps
  <2>2. CASE q # p
    <3>1. /\ Sound(Outcome(db, tx[q])) /\ Anchored(tx[q])
          /\ Avoids(tx[q], db, db')
      BY <2>2 DEF IInv, TransactionsOK, Keeps
    <3>2. Sound(Outcome(db', tx[q]))
      BY <1>1, <3>1, Interference
    <3> QED
      BY <1>1, <2>2, <3>1, <3>2
  <2> QED
    BY <2>1, <2>2
<1>3. ASSUME NEW q \in Procs, NEW r \in Procs, q # r
      PROVE  Apart(tx'[q], tx'[r])
  <2>1. CASE q # p /\ r # p
    <3>1. tx'[q] = tx[q] /\ tx'[r] = tx[r] /\ Apart(tx[q], tx[r])
      BY <1>1, <1>3, <2>1 DEF IInv, TransactionsOK
    <3> QED
      BY <3>1
  <2>2. CASE q = p /\ r # p
    <3>1. tx'[r] = tx[r] /\ Apart(tx'[p], tx[r])
      BY <1>1, <2>2 DEF Keeps
    <3> QED
      BY <2>2, <3>1
  <2>3. CASE q # p /\ r = p
    <3>1. tx'[q] = tx[q] /\ Apart(tx[q], tx'[p])
      BY <1>1, <2>3 DEF Keeps
    <3> QED
      BY <2>3, <3>1
  <2> QED
    BY <1>3, <2>1, <2>2, <2>3
<1> QED
  BY <1>2, <1>3 DEF TransactionsOK

LEMMA JobsKept ==
    ASSUME IInv, NEW p \in Procs, Keeps(p)
    PROVE  JobsOK'
<1>1. ASSUME NEW q \in Procs PROVE Fits(pc'[q], job'[q], tx'[q], db')
  <2>1. CASE q = p
    BY <2>1 DEF Keeps
  <2>2. CASE q # p
    <3>1. /\ pc'[q] = pc[q] /\ job'[q] = job[q] /\ tx'[q] = tx[q]
          /\ Avoids(tx[q], db, db') /\ Fits(pc[q], job[q], tx[q], db)
          /\ db \in Database /\ db' \in Database
      BY <2>2 DEF Keeps, OthersWait, IInv, JobsOK, TypeOK
    <3>2. Fits(pc[q], job[q], tx[q], db')
      BY <3>1, FitsStays
    <3> QED
      BY <3>1, <3>2
  <2> QED
    BY <2>1, <2>2
<1> QED
  BY <1>1 DEF JobsOK

LEMMA UsedKept ==
    ASSUME IInv, NEW p \in Procs, Keeps(p)
    PROVE  UsedOK'
<1>1. ASSUME NEW i \in Ids, Live(db', i) PROVE i \in used'
  <2>1. Live(db, i) \/ EntryRow(i) \in tx[p].written
    BY <1>1 DEF Keeps, RowsFollow, WroteEntry, Live
  <2> QED
    BY <2>1 DEF IInv, UsedOK, Keeps
<1>2. ASSUME NEW i \in Ids, NEW q \in Procs, EntryRow(i) \in tx'[q].written
      PROVE  i \in used'
  <2>1. CASE q # p
    BY <1>2, <2>1 DEF Keeps, OthersWait, IInv, UsedOK
  <2>2. CASE q = p
    <3>1. \/ EntryRow(i) \in tx[p].written \/ Live(db, i)
          \/ Adding(pc[p], job[p]) /\ i = job[p].id
      BY <1>2, <2>2 DEF Keeps, RowsTaken
    <3> QED
      BY <3>1 DEF Keeps, IInv, UsedOK, FreshOK
  <2> QED
    BY <2>1, <2>2
<1> QED
  BY <1>1, <1>2 DEF UsedOK

\* An identifier nobody knows stays unknown while it waits to be written.
LEMMA UnknownKept ==
    ASSUME IInv, NEW p \in Procs, Keeps(p), NEW i \in Ids,
           ~Live(db, i), \A q \in Procs : EntryRow(i) \notin tx[q].written,
           EntryRow(i) \notin tx'[p].written
    PROVE  ~Live(db', i) /\ \A q \in Procs : EntryRow(i) \notin tx'[q].written
<1>1. ~Live(db', i)
  BY DEF Keeps, RowsFollow, WroteEntry, Live
<1>2. \A q \in Procs : EntryRow(i) \notin tx'[q].written
  BY DEF Keeps, OthersWait
<1> QED
  BY <1>1, <1>2

LEMMA FreshKept ==
    ASSUME IInv, NEW p \in Procs, Keeps(p)
    PROVE  FreshOK'
<1>1. /\ \A q \in Procs \ {p} :
           pc'[q] = pc[q] /\ job'[q] = job[q] /\ tx'[q] = tx[q]
      /\ used \subseteq used'
  BY DEF Keeps, OthersWait
<1>2. \A q \in Procs : Adding(pc[q], job[q]) =>
        /\ job[q].id \in Ids
        /\ job[q].id \in used /\ ~Live(db, job[q].id)
        /\ \A r \in Procs : EntryRow(job[q].id) \notin tx[r].written
  BY DEF IInv, JobsOK, Fits, FreshOK, Unknown
<1>3. \A q \in Procs : Rereading(pc[q], job[q]) => job[q].id \in used
  BY DEF IInv, KnowsOK, Knows
<1>4. \A i \in Ids : i \notin used =>
        /\ ~Live(db, i)
        /\ \A r \in Procs : EntryRow(i) \notin tx[r].written
  BY DEF IInv, UsedOK
<1>5. ASSUME NEW a \in Procs, Adding(pc'[a], job'[a])
      PROVE  /\ job'[a].id \in used'
             /\ ~Live(db', job'[a].id)
             /\ \A q \in Procs : EntryRow(job'[a].id) \notin tx'[q].written
  <2>1. CASE a # p
    <3>1. Adding(pc[a], job[a]) /\ job'[a].id = job[a].id
      BY <1>1, <1>5, <2>1
    <3>2. EntryRow(job[a].id) \notin tx'[p].written
      <4>1. Adding(pc[p], job[p]) => job[p].id # job[a].id
        BY <2>1, <3>1 DEF IInv, FreshOK
      <4> QED
        BY <1>2, <3>1, <4>1 DEF Keeps, RowsTaken
    <3> QED
      BY <1>1, <1>2, <3>1, <3>2, UnknownKept
  <2>2. CASE a = p
    <3> DEFINE i == job'[p].id
    <3>1. EntryRow(i) \notin tx'[p].written
      BY <1>5, <2>2 DEF Keeps, AddKeepsId
    <3>2. /\ i \in Ids /\ i \in used' /\ ~Live(db, i)
          /\ \A r \in Procs : EntryRow(i) \notin tx[r].written
      <4>1. CASE Adding(pc[p], job[p]) /\ i = job[p].id
        BY <1>1, <1>2, <4>1
      <4>2. CASE i \in Ids /\ i \notin used /\ i \in used'
        BY <1>4, <4>2
      <4> QED
        BY <1>5, <2>2, <4>1, <4>2 DEF Keeps, AddKeepsId
    <3> HIDE DEF i
    <3> QED
      BY <2>2, <3>1, <3>2, UnknownKept DEF i
  <2> QED
    BY <2>1, <2>2
<1>6. ASSUME NEW a \in Procs, NEW q \in Procs \ {a}, Adding(pc'[a], job'[a]),
             Adding(pc'[q], job'[q]) \/ Rereading(pc'[q], job'[q])
      PROVE  job'[q].id # job'[a].id
  <2>1. CASE a # p /\ q # p
    <3>1. /\ job'[q].id = job[q].id /\ job'[a].id = job[a].id
          /\ Adding(pc[a], job[a])
          /\ Adding(pc[q], job[q]) \/ Rereading(pc[q], job[q])
      BY <1>1, <1>6, <2>1
    <3> QED
      BY <3>1 DEF IInv, FreshOK
  <2>2. CASE a # p /\ q = p
    <3>1. job'[a].id = job[a].id /\ Adding(pc[a], job[a])
      BY <1>1, <1>6, <2>2
    <3>2. CASE /\ Adding(pc[p], job[p]) \/ Rereading(pc[p], job[p])
               /\ job'[p].id = job[p].id
      BY <2>2, <3>1, <3>2 DEF IInv, FreshOK
    <3>3. CASE job'[p].id \notin used \/ Live(db, job'[p].id)
      BY <1>2, <2>2, <3>1, <3>3
    <3> QED
      BY <1>6, <2>2, <3>2, <3>3 DEF Keeps, AddKeepsId, UpdateKeepsBase
  <2>3. CASE a = p
    <3>1. /\ job'[q].id = job[q].id
          /\ Adding(pc[q], job[q]) \/ Rereading(pc[q], job[q])
      BY <1>1, <1>6, <2>3
    <3>2. CASE Adding(pc[p], job[p]) /\ job'[p].id = job[p].id
      BY <1>6, <2>3, <3>1, <3>2 DEF IInv, FreshOK
    <3>3. CASE job'[p].id \notin used
      BY <1>2, <1>3, <2>3, <3>1, <3>3
    <3> QED
      BY <1>6, <2>3, <3>2, <3>3 DEF Keeps, AddKeepsId
  <2> QED
    BY <2>1, <2>2, <2>3
<1> QED
  BY <1>5, <1>6 DEF FreshOK, Unknown

\* A reader's knowledge of a row outlives the steps of the others, and its own.
LEMMA ReadingKept ==
    ASSUME IInv, NEW p \in Procs, Keeps(p), NEW a \in Procs,
           Rereading(pc[a], job[a])
    PROVE  LET i == job[a].id
           IN  /\ i \in used'
               /\ Live(db', i) =>
                    /\ db'.entries[i].version >= job[a].base.version
                    /\ db'.entries[i].version = job[a].base.version
                         => db'.entries[i] = job[a].base
               /\ ~Live(db', i) => \A q \in Procs : ~WroteEntry(tx'[q], i)
<1> DEFINE i == job[a].id
           b == job[a].base
<1>1. /\ i \in used /\ i \in Ids /\ b \in Row
      /\ Live(db, i) => /\ db.entries[i].version >= b.version
                        /\ db.entries[i].version = b.version
                             => db.entries[i] = b
      /\ ~Live(db, i) => \A q \in Procs : ~WroteEntry(tx[q], i)
  BY DEF IInv, KnowsOK, Knows, JobsOK, Fits
<1>2. db \in Database /\ db' \in Database
  BY DEF IInv, TypeOK, Keeps, Sound
<1>3. i \in used'
  BY <1>1 DEF Keeps
<1>4. b.version \in Nat
  BY <1>1 DEF Row
<1> HIDE DEF i, b
<1>5. ASSUME Live(db', i)
      PROVE  /\ db'.entries[i].version >= b.version
             /\ db'.entries[i].version = b.version => db'.entries[i] = b
  <2>1. CASE db'.entries[i] = db.entries[i]
    BY <1>1, <1>5, <2>1 DEF Live
  <2>2. CASE /\ Live(db, i)
             /\ db'.entries[i].version = db.entries[i].version + 1
    <3>1. db.entries[i] \in Row /\ db.entries[i].version \in Nat
      BY <1>1, <1>2, <2>2 DEF Database, Live, Row
    <3> QED
      BY <1>1, <1>4, <2>2, <3>1
  <2>3. CASE ~Live(db, i) /\ WroteEntry(tx[p], i)
    BY <1>1, <2>3
  <2> QED
    BY <1>1, <1>5, <2>1, <2>2, <2>3 DEF Keeps, RowsFollow
<1>6. ASSUME ~Live(db', i), NEW q \in Procs PROVE ~WroteEntry(tx'[q], i)
  <2>1. CASE q # p
    <3>1. tx'[q] = tx[q] /\ Avoids(tx[q], db, db')
      BY <2>1 DEF Keeps, OthersWait
    <3>2. CASE EntryRow(i) \in tx[q].written
      <4>1. ~Live(db, i)
        BY <1>1, <1>2, <1>6, <3>1, <3>2, LockedRowsStay DEF Live
      <4> QED
        BY <1>1, <3>1, <4>1
    <3> QED
      BY <3>1, <3>2 DEF WroteEntry
  <2>2. CASE q = p
    <3> SUFFICES ASSUME WroteEntry(tx'[p], i) PROVE FALSE
      BY <2>2
    <3>1. /\ db' = db
          /\ \/ WroteEntry(tx[p], i) \/ Live(db, i)
             \/ Adding(pc[p], job[p]) /\ i = job[p].id
      BY <1>1 DEF Keeps, RowsTaken, WroteEntry
    <3>2. Adding(pc[p], job[p]) /\ i = job[p].id
      BY <1>1, <1>6, <3>1
    <3>3. CASE a = p
      BY <3>2, <3>3 DEF Adding, Rereading
    <3>4. CASE a # p
      BY <3>2, <3>4 DEF IInv, FreshOK, i
    <3> QED
      BY <3>3, <3>4
  <2> QED
    BY <2>1, <2>2
<1> QED
  BY <1>3, <1>5, <1>6 DEF i, b

LEMMA KnowsKept ==
    ASSUME IInv, NEW p \in Procs, Keeps(p)
    PROVE  KnowsOK'
<1> SUFFICES ASSUME NEW a \in Procs, Rereading(pc'[a], job'[a])
             PROVE  Knows(job[a], db)'
  BY DEF KnowsOK
<1>1. CASE /\ Rereading(pc[a], job[a])
           /\ job'[a].id = job[a].id /\ job'[a].base = job[a].base
  BY <1>1, ReadingKept DEF Knows
<1>2. CASE /\ a = p
           /\ db' = db /\ Live(db, job'[a].id) /\ job'[a].id \in Ids
           /\ job'[a].base = db.entries[job'[a].id]
  <2>1. job'[a].id \in used'
    BY <1>2 DEF IInv, UsedOK, Keeps
  <2>2. job'[a].base.version \in Nat
    BY <1>2 DEF IInv, TypeOK, Database, Live, Row
  <2>3. db'.entries[job'[a].id].version >= job'[a].base.version
    BY <1>2, <2>2
  <2> QED
    BY <1>2, <2>1, <2>3 DEF Knows
<1> QED
  BY <1>1, <1>2 DEF Keeps, OthersWait, UpdateKeepsBase

LEMMA StepKeeps ==
    ASSUME IInv, NEW p \in Procs, Keeps(p)
    PROVE  IInv'
BY TransactionsKept, JobsKept, UsedKept, FreshKept, KnowsKept DEF IInv, Keeps

-----------------------------------------------------------------------------
(***************************************************************************)
(* The kinds of step.                                                      *)
(***************************************************************************)
LEMMA GotoMoves ==
    ASSUME TypeOK, NEW p \in Procs, NEW l \in Locations, NEW j \in Job,
           Goto(p, l, j)
    PROVE  /\ pc' \in [Procs -> Locations] /\ job' \in [Procs -> Job]
           /\ pc'[p] = l /\ job'[p] = j
           /\ \A q \in Procs \ {p} : pc'[q] = pc[q] /\ job'[q] = job[q]
BY DEF TypeOK, Goto

LEMMA NoJobIsAJob == NoJob \in Job /\ NoJob.want = Null /\ NoJob.base = Null
BY DEF NoJob, Job

\* A process that is idle has no transaction, and nothing to remember.
LEMMA IdleFits ==
    ASSUME NEW j, NEW d PROVE Fits("idle", j, NoTx, d)
BY DEF Fits, Adding, Added, Pruning, Rereading

\* A step that only reads.
LEMMA ReadKeeps ==
    ASSUME IInv, NEW p \in Procs, NEW l \in Locations, NEW j \in Job,
           Goto(p, l, j), Asks, Fits(l, j, tx[p], db),
           Adding(l, j) => Adding(pc[p], job[p]) /\ j.id = job[p].id,
           Rereading(l, j) =>
             \/ /\ Rereading(pc[p], job[p])
                /\ j.id = job[p].id /\ j.base = job[p].base
             \/ j.id \in Ids /\ Live(db, j.id) /\ j.base = db.entries[j.id]
    PROVE  IInv'
<1>1. /\ pc' \in [Procs -> Locations] /\ job' \in [Procs -> Job]
      /\ pc'[p] = l /\ job'[p] = j
      /\ \A q \in Procs \ {p} : pc'[q] = pc[q] /\ job'[q] = job[q]
      /\ db' = db /\ tx' = tx /\ now' = now /\ used' = used
  BY GotoMoves DEF IInv, Asks
<1>2. TypeOK' /\ OthersWait(p) /\ Sound(db')
  BY <1>1 DEF IInv, TypeOK, OthersWait
<1>3. /\ \A q \in Procs \ {p} : Avoids(tx[q], db, db')
      /\ Sound(Outcome(db', tx'[p])) /\ Anchored(tx'[p])
      /\ \A q \in Procs \ {p} : Apart(tx'[p], tx[q]) /\ Apart(tx[q], tx'[p])
  BY <1>1, AvoidsSame DEF IInv, TypeOK, TransactionsOK
<1>4. RowsFollow(p) /\ RowsTaken(p)
  BY <1>1 DEF RowsFollow, RowsTaken
<1>5. AddKeepsId(p)
  BY <1>1 DEF IInv, FreshOK, Unknown, AddKeepsId
<1>6. UpdateKeepsBase(p)
  BY <1>1 DEF UpdateKeepsBase
<1>7. Keeps(p)
  BY <1>1, <1>2, <1>3, <1>4, <1>5, <1>6 DEF Keeps
<1> QED
  BY <1>7, StepKeeps

\* An error, or the end of the process: what was not committed is gone.
LEMMA FailKeeps ==
    ASSUME IInv, NEW p \in Procs, Fail(p) PROVE IInv'
<1>1. /\ "idle" \in Locations /\ NoJob \in Job /\ Goto(p, "idle", NoJob)
      /\ tx' = [tx EXCEPT ![p] = NoTx]
      /\ db' = db /\ now' = now /\ used' = used
  BY NoJobIsAJob DEF Fail, Exit, Locations
<1>2. /\ pc' \in [Procs -> Locations] /\ job' \in [Procs -> Job]
      /\ pc'[p] = "idle" /\ job'[p] = NoJob
      /\ \A q \in Procs \ {p} : pc'[q] = pc[q] /\ job'[q] = job[q]
  BY <1>1, GotoMoves DEF IInv
<1>3. NoTx \in Pending
  BY EmptyTransaction DEF IInv, TypeOK
<1> HIDE DEF NoTx
<1>4. /\ tx' \in [Procs -> Pending] /\ tx'[p] = NoTx
      /\ \A q \in Procs \ {p} : tx'[q] = tx[q]
  BY <1>1, <1>3 DEF IInv, TypeOK
<1>5. TypeOK' /\ OthersWait(p) /\ Sound(db')
  BY <1>1, <1>2, <1>4 DEF IInv, TypeOK, OthersWait
<1>6. /\ \A q \in Procs \ {p} : Avoids(tx[q], db, db')
      /\ Sound(Outcome(db', tx'[p])) /\ Anchored(tx'[p])
      /\ \A q \in Procs \ {p} : Apart(tx'[p], tx[q]) /\ Apart(tx[q], tx'[p])
      /\ tx'[p].written = {}
  BY <1>1, <1>4, AvoidsSame, EmptyTransaction DEF IInv, TypeOK
<1>7. RowsFollow(p) /\ RowsTaken(p)
  BY <1>1, <1>6 DEF RowsFollow, RowsTaken
<1>8. AddKeepsId(p) /\ UpdateKeepsBase(p)
  BY <1>2 DEF AddKeepsId, UpdateKeepsBase, Adding, Rereading
<1>9. Fits(pc'[p], job'[p], tx'[p], db')
  BY <1>2, <1>4, IdleFits
<1>10. Keeps(p)
  BY <1>1, <1>5, <1>6, <1>7, <1>8, <1>9 DEF Keeps
<1> QED
  BY <1>10, StepKeeps

\* A statement that commits by itself.
LEMMA AloneKeeps ==
    ASSUME IInv, NEW p \in Procs, NEW l \in Locations, NEW j \in Job,
           NEW w, NEW parents,
           Goto(p, l, j), Statement(p, w, parents), tx[p] = NoTx,
           Sound(w), References(db, w, parents), KeysFree(p, db, w),
           \A i \in Ids : Live(w, i) =>
             \/ w.entries[i] = db.entries[i]
             \/ Live(db, i) /\ w.entries[i].version = db.entries[i].version + 1,
           Fits(l, j, NoTx, w),
           ~Adding(l, j),
           Rereading(l, j) =>
             /\ Rereading(pc[p], job[p])
             /\ j.id = job[p].id /\ j.base = job[p].base
    PROVE  IInv' /\ db' = w
<1>1. /\ pc' \in [Procs -> Locations] /\ job' \in [Procs -> Job]
      /\ pc'[p] = l /\ job'[p] = j
      /\ \A q \in Procs \ {p} : pc'[q] = pc[q] /\ job'[q] = job[q]
  BY GotoMoves DEF IInv
<1>2. /\ db' = w /\ tx' = tx /\ now' = now /\ used' = used
      /\ \A q \in Procs \ {p} : Avoids(tx[q], db, db')
  BY ExecuteAlone DEF IInv, Statement
<1>3. TypeOK' /\ OthersWait(p) /\ Sound(db')
  BY <1>1, <1>2 DEF IInv, TypeOK, OthersWait, Sound
<1>4. /\ Sound(Outcome(db', tx'[p])) /\ Anchored(tx'[p])
      /\ \A q \in Procs \ {p} : Apart(tx'[p], tx[q]) /\ Apart(tx[q], tx'[p])
      /\ tx'[p] = NoTx /\ tx'[p].written = {}
  <2>1. w \in Database
    BY DEF Sound
  <2> HIDE DEF NoTx
  <2> QED
    BY <1>2, <2>1, EmptyTransaction
<1>5. RowsFollow(p) /\ RowsTaken(p)
  BY <1>2, <1>4 DEF RowsFollow, RowsTaken
<1>6. AddKeepsId(p) /\ UpdateKeepsBase(p)
  BY <1>1 DEF AddKeepsId, UpdateKeepsBase
<1>7. Fits(pc'[p], job'[p], tx'[p], db')
  BY <1>1, <1>2, <1>4
<1>8. Keeps(p)
  BY <1>2, <1>3, <1>4, <1>5, <1>6, <1>7 DEF Keeps
<1> QED
  BY <1>2, <1>8, StepKeeps

\* The rows a statement leaves in the transaction.
LEMMA InsideRows ==
    ASSUME TypeOK, NEW p \in Procs, NEW w \in Database, NEW parents,
           tx[p].open, Execute(p, w, parents)
    PROVE  /\ Sees(View(p), db, tx[p])
           /\ Wrote(tx'[p], tx[p], View(p), w)
           /\ tx'[p].open /\ db' = db
<1> DEFINE d == View(p)
           W == tx[p].written \cup Changed(d, w)
           U == [open |-> TRUE, written |-> W,
                 image |-> Overlay(EmptyDatabase, w, W),
                 shared |-> tx[p].shared \cup parents]
<1>1. tx' = [tx EXCEPT ![p] = U] /\ db' = db
  BY DEF Execute
<1>2. /\ d \in Database /\ Sees(d, db, tx[p])
      /\ tx \in [Procs -> Pending]
  BY ViewIsOutcome, OutcomeSees DEF TypeOK
<1> HIDE DEF d
<1>3. /\ U.open /\ U.written = tx[p].written \cup Changed(d, w)
      /\ U.image = Overlay(EmptyDatabase, w, U.written)
  OBVIOUS
<1> HIDE DEF U
<1>4. tx'[p] = U
  BY <1>1, <1>2
<1>5. Wrote(U, tx[p], d, w)
  BY <1>2, <1>3, StatementWrote
<1> QED
  BY <1>1, <1>2, <1>3, <1>4, <1>5 DEF d

\* A statement in a transaction.
LEMMA InsideKeeps ==
    ASSUME IInv, NEW p \in Procs, NEW l \in Locations, NEW j \in Job,
           NEW w, NEW parents \in SUBSET ParentRows,
           Goto(p, l, j), Statement(p, w, parents), tx[p].open,
           Sound(w), References(View(p), w, parents), KeysFree(p, View(p), w),
           \A i \in Ids : w.entries[i] # View(p).entries[i] =>
             Live(db, i) \/ (Adding(pc[p], job[p]) /\ i = job[p].id),
           Fits(l, j, tx'[p], db),
           Adding(l, j) =>
             /\ Adding(pc[p], job[p]) /\ j.id = job[p].id
             /\ w.entries = View(p).entries,
           ~Rereading(l, j)
    PROVE  IInv' /\ db' = db
<1>1. /\ pc' \in [Procs -> Locations] /\ job' \in [Procs -> Job]
      /\ pc'[p] = l /\ job'[p] = j
      /\ \A q \in Procs \ {p} : pc'[q] = pc[q] /\ job'[q] = job[q]
  BY GotoMoves DEF IInv
<1>2. /\ db' = db /\ now' = now /\ used' = used
      /\ tx' = [tx EXCEPT ![p] = tx'[p]] /\ tx'[p] \in Pending
      /\ Outcome(db, tx'[p]) = w /\ Anchored(tx'[p])
      /\ \A q \in Procs \ {p} : Apart(tx'[p], tx[q]) /\ Apart(tx[q], tx'[p])
  BY ExecuteInside DEF IInv, Statement
<1>3. /\ tx' \in [Procs -> Pending]
      /\ \A q \in Procs \ {p} : tx'[q] = tx[q]
  BY <1>2 DEF IInv, TypeOK
<1>4. Sees(View(p), db, tx[p]) /\ Wrote(tx'[p], tx[p], View(p), w)
  BY InsideRows DEF IInv, Statement, Sound
<1>5. TypeOK' /\ OthersWait(p) /\ Sound(db')
  BY <1>1, <1>2, <1>3 DEF IInv, TypeOK, OthersWait
<1>6. \A q \in Procs \ {p} : Avoids(tx[q], db, db')
  BY <1>2, AvoidsSame DEF IInv, TypeOK
<1>7. RowsFollow(p)
  BY <1>2 DEF RowsFollow
<1>8. RowsTaken(p)
  <2> SUFFICES ASSUME NEW i \in Ids, EntryRow(i) \in tx'[p].written
               PROVE  /\ \/ EntryRow(i) \in tx[p].written
                         \/ Live(db, i)
                         \/ Adding(pc[p], job[p]) /\ i = job[p].id
                      /\ WroteEntry(tx'[p], i) =>
                           \/ WroteEntry(tx[p], i)
                           \/ Live(db, i)
                           \/ Adding(pc[p], job[p]) /\ i = job[p].id
    BY <1>2 DEF RowsTaken
  <2>1. CASE w.entries[i] # View(p).entries[i]
    BY <2>1
  <2>2. CASE w.entries[i] = View(p).entries[i]
    <3>1. /\ EntryRow(i) \in tx[p].written
          /\ tx'[p].image.entries[i] = tx[p].image.entries[i]
      BY <1>4, <2>2 DEF Sees, Wrote
    <3> QED
      BY <3>1 DEF WroteEntry, Live
  <2> QED
    BY <2>1, <2>2
<1>9. AddKeepsId(p)
  <2> SUFFICES ASSUME Adding(l, j)
               PROVE  /\ EntryRow(j.id) \notin tx'[p].written
                      /\ Adding(pc[p], job[p]) /\ j.id = job[p].id
    BY <1>1 DEF AddKeepsId
  <2>1. j.id \in Ids /\ EntryRow(j.id) \notin tx[p].written
    BY DEF IInv, FreshOK, Unknown, Fits
  <2> QED
    BY <1>4, <2>1 DEF Wrote
<1>10. UpdateKeepsBase(p)
  BY <1>1 DEF UpdateKeepsBase
<1>11. Keeps(p)
  BY <1>1, <1>2, <1>5, <1>6, <1>7, <1>8, <1>9, <1>10 DEF Keeps
<1> QED
  BY <1>2, <1>11, StepKeeps

\* The locks of one transaction make its commit harmless to another.
LEMMA CommitAvoids ==
    ASSUME NEW c \in Database, NEW T \in Pending, NEW U, NEW v,
           v = Outcome(c, T), Anchored(T), Apart(T, U), Apart(U, T)
    PROVE  Avoids(U, c, v)
<1>1. Sees(v, c, T)
  BY OutcomeSees
<1>2. v \in Database /\ v.scopes \subseteq Paths /\ c.scopes \subseteq Paths
      /\ v.labels \subseteq Ids \X Labels
  BY <1>1 DEF Sees, Database
<1>3. Changed(c, v) \subseteq T.written
  <2>1. c.labels \subseteq Ids \X Labels
    BY DEF Database
  <2> QED
    BY <1>1, <1>2, <2>1 DEF Sees, Changed
<1>4. Removed(c, v) \cap U.shared = {}
  <2>1. ASSUME NEW s \in c.scopes \ v.scopes PROVE ScopeRow(s) \notin U.shared
    BY <1>1, <1>2, <2>1 DEF Sees, VanishedScope, Apart
  <2>2. ASSUME NEW i \in Ids, Live(c, i), ~Live(v, i)
        PROVE  EntryRow(i) \notin U.shared
    <3>1. VanishedEntry(T, i)
      BY <1>1, <2>2 DEF Sees, VanishedEntry, Live
    <3> QED
      BY <3>1 DEF Apart
  <2> QED
    BY <2>1, <2>2 DEF Removed
<1>5. ASSUME NEW i \in Ids, v.entries[i] # c.entries[i], Live(v, i)
      PROVE  /\ ~VanishedScope(U, v.entries[i].scope)
             /\ \A j \in Ids : WroteEntry(U, j) =>
                  ~SameKey(U.image.entries[j], v.entries[i])
  <2>1. WroteEntry(T, i) /\ v.entries[i] = T.image.entries[i]
    BY <1>1, <1>5 DEF Sees, WroteEntry, Live
  <2>2. v.entries[i].scope \in Paths
    BY <1>2, <1>5 DEF Database, Live, Row
  <2>3. ScopeRow(v.entries[i].scope) \in T.shared
    BY <2>1 DEF Anchored
  <2> QED
    BY <2>1, <2>2, <2>3 DEF Apart
<1>6. ASSUME NEW x \in v.labels \ c.labels PROVE ~VanishedEntry(U, x[1])
  <2>1. x \in Ids \X Labels /\ x[1] \in Ids
    BY <1>2
  <2>2. LabelRow(x) \in T.written /\ x \in T.image.labels
    BY <1>1 DEF Sees
  <2> QED
    BY <2>1, <2>2 DEF Anchored, Apart
<1>7. ASSUME NEW e \in EdgeIds, v.edges[e] # c.edges[e], Present(v, e)
      PROVE  /\ ~VanishedEntry(U, v.edges[e].from)
             /\ ~VanishedEntry(U, v.edges[e].to)
  <2>1. /\ EdgeRow(e) \in T.written /\ Present(T.image, e)
        /\ v.edges[e] = T.image.edges[e]
    BY <1>1, <1>7 DEF Sees, Present
  <2>2. v.edges[e].from \in Ids /\ v.edges[e].to \in Ids
    BY <1>2, <1>7 DEF Database, Present, Edge
  <2>3. /\ EntryRow(v.edges[e].from) \in T.shared
        /\ EntryRow(v.edges[e].to) \in T.shared
    BY <2>1 DEF Anchored
  <2> QED
    BY <2>2, <2>3 DEF Apart
<1> QED
  BY <1>3, <1>4, <1>5, <1>6, <1>7 DEF Avoids, Apart

\* A transaction that opens.
LEMMA OpenKeeps ==
    ASSUME IInv, NEW p \in Procs, NEW l \in Locations, NEW j \in Job,
           NEW ids \in SUBSET Ids,
           Goto(p, l, j), tx' = [tx EXCEPT ![p] = Opened],
           db' = db, now' = now, used' = used \cup ids,
           Fits(l, j, Opened, db),
           Adding(l, j) => j.id \in ids /\ j.id \notin used,
           ~Rereading(l, j)
    PROVE  IInv'
<1>1. /\ pc' \in [Procs -> Locations] /\ job' \in [Procs -> Job]
      /\ pc'[p] = l /\ job'[p] = j
      /\ \A q \in Procs \ {p} : pc'[q] = pc[q] /\ job'[q] = job[q]
  BY GotoMoves DEF IInv
<1>2. Opened \in Pending
  BY EmptyTransaction DEF IInv, TypeOK
<1>3. /\ tx' \in [Procs -> Pending] /\ tx'[p] = Opened
      /\ \A q \in Procs \ {p} : tx'[q] = tx[q]
  BY <1>2 DEF IInv, TypeOK
<1>4. TypeOK' /\ OthersWait(p) /\ Sound(db')
  BY <1>1, <1>3 DEF IInv, TypeOK, OthersWait
<1>5. /\ \A q \in Procs \ {p} : Avoids(tx[q], db, db')
      /\ Sound(Outcome(db', tx'[p])) /\ Anchored(tx'[p])
      /\ \A q \in Procs \ {p} : Apart(tx'[p], tx[q]) /\ Apart(tx[q], tx'[p])
      /\ tx'[p].written = {}
  BY <1>3, AvoidsSame, EmptyTransaction DEF IInv, TypeOK
<1>6. RowsFollow(p) /\ RowsTaken(p)
  BY <1>5 DEF RowsFollow, RowsTaken
<1>7. AddKeepsId(p) /\ UpdateKeepsBase(p)
  BY <1>1, <1>5 DEF AddKeepsId, UpdateKeepsBase
<1>8. Fits(pc'[p], job'[p], tx'[p], db')
  BY <1>1, <1>3
<1>9. Keeps(p)
  BY <1>4, <1>5, <1>6, <1>7, <1>8 DEF Keeps
<1> QED
  BY <1>9, StepKeeps

\* COMMIT: the outcome becomes what the others see.
LEMMA CommitKeeps ==
    ASSUME IInv, NEW p \in Procs, Commit(p) PROVE IInv'
<1> DEFINE v == View(p)
<1>1. /\ "idle" \in Locations /\ NoJob \in Job /\ Goto(p, "idle", NoJob)
      /\ tx' = [tx EXCEPT ![p] = NoTx]
      /\ db' = v /\ now' = now /\ used' = used
  BY NoJobIsAJob DEF Commit, Exit, Locations
<1>2. /\ pc' \in [Procs -> Locations] /\ job' \in [Procs -> Job]
      /\ pc'[p] = "idle" /\ job'[p] = NoJob
      /\ \A q \in Procs \ {p} : pc'[q] = pc[q] /\ job'[q] = job[q]
  BY <1>1, GotoMoves DEF IInv
<1>3. /\ v = Outcome(db, tx[p]) /\ v \in Database /\ Sound(v)
      /\ Sees(v, db, tx[p])
      /\ db \in Database /\ tx[p] \in Pending
  BY ViewIsOutcome, OutcomeSees DEF IInv, TypeOK, TransactionsOK
<1> HIDE DEF v, NoTx
<1>4. NoTx \in Pending
  BY <1>3, EmptyTransaction
<1>5. /\ tx' \in [Procs -> Pending] /\ tx'[p] = NoTx
      /\ \A q \in Procs \ {p} : tx'[q] = tx[q]
  BY <1>1, <1>4 DEF IInv, TypeOK
<1>6. TypeOK' /\ OthersWait(p) /\ Sound(db')
  BY <1>1, <1>2, <1>3, <1>5 DEF IInv, TypeOK, OthersWait
<1>7. ASSUME NEW q \in Procs \ {p} PROVE Avoids(tx[q], db, db')
  BY <1>1, <1>3, CommitAvoids DEF IInv, TransactionsOK
<1>8. /\ Sound(Outcome(db', tx'[p])) /\ Anchored(tx'[p])
      /\ \A q \in Procs \ {p} : Apart(tx'[p], tx[q]) /\ Apart(tx[q], tx'[p])
      /\ tx'[p].written = {}
  BY <1>1, <1>3, <1>5, EmptyTransaction
<1>9. RowsFollow(p)
  <2> SUFFICES ASSUME NEW i \in Ids, Live(v, i), v.entries[i] # db.entries[i]
               PROVE  \/ /\ Live(db, i)
                         /\ v.entries[i].version = db.entries[i].version + 1
                      \/ ~Live(db, i) /\ WroteEntry(tx[p], i)
    BY <1>1 DEF RowsFollow
  <2>1. WroteEntry(tx[p], i) /\ v.entries[i] = tx[p].image.entries[i]
    BY <1>3 DEF Sees, WroteEntry, Live
  <2>2. pc[p] = "commit" /\ Fits(pc[p], job[p], tx[p], db)
    BY DEF IInv, JobsOK, Commit
  <2>3. CASE job[p].want = Null
    BY <2>1, <2>2, <2>3 DEF Fits, Pruning, OnlyRemoved, WroteEntry
  <2>4. CASE job[p].want # Null
    <3>1. WroteRow(tx[p], job[p], db)
      BY <2>2, <2>4 DEF Fits, Added
    <3> QED
      BY <2>1, <3>1 DEF WroteRow, WroteEntry
  <2> QED
    BY <2>3, <2>4
<1>10. RowsTaken(p)
  BY <1>8 DEF RowsTaken
<1>11. AddKeepsId(p) /\ UpdateKeepsBase(p)
  BY <1>2 DEF AddKeepsId, UpdateKeepsBase, Adding, Rereading
<1>12. Fits(pc'[p], job'[p], tx'[p], db')
  BY <1>2, <1>5, IdleFits
<1>13. Keeps(p)
  BY <1>1, <1>6, <1>7, <1>8, <1>9, <1>10, <1>11, <1>12 DEF Keeps
<1> QED
  BY <1>13, StepKeeps

LEMMA TickKeeps == ASSUME IInv, Tick PROVE IInv'
<1>1. /\ db' = db /\ tx' = tx /\ used' = used /\ pc' = pc /\ job' = job
      /\ now' \in Nat
  BY DEF Tick, IInv, TypeOK
<1> QED
  BY <1>1 DEF IInv, TypeOK, TransactionsOK, JobsOK, UsedOK, FreshOK, KnowsOK,
              Unknown, Knows

-----------------------------------------------------------------------------
(***************************************************************************)
(* The actions.                                                            *)
(***************************************************************************)
LEMMA StateOf ==
    ASSUME IInv, NEW p \in Procs
    PROVE  /\ db \in Database /\ Consistent(db)
           /\ View(p) \in Database /\ Consistent(View(p))
           /\ View(p) = Outcome(db, tx[p]) /\ Sees(View(p), db, tx[p])
           /\ tx[p] = NoTx => View(p) = db
           /\ tx[p] \in Pending
           /\ job[p] \in Job /\ pc[p] \in Locations
           /\ Fits(pc[p], job[p], tx[p], db)
<1>1. /\ db \in Database /\ Consistent(db)
      /\ tx[p] \in Pending /\ job[p] \in Job /\ pc[p] \in Locations
      /\ Fits(pc[p], job[p], tx[p], db)
  BY DEF IInv, TypeOK, Sound, JobsOK
<1>2. View(p) = Outcome(db, tx[p]) /\ Sound(View(p))
  BY ViewIsOutcome DEF IInv, TransactionsOK
<1>3. tx[p] = NoTx => View(p) = db
  BY DEF View, NoTx
<1> QED
  BY <1>1, <1>2, <1>3, OutcomeSees DEF Sound

\* A statement that writes no entry refers to none, and takes no key.
LEMMA NoRowsWritten ==
    ASSUME NEW p, NEW d, NEW w, w.entries = d.entries,
           w.labels \subseteq d.labels,
           \A e \in EdgeIds : w.edges[e] = d.edges[e] \/ ~Present(w, e)
    PROVE  References(d, w, {}) /\ KeysFree(p, d, w)
BY DEF References, KeysFree

\* The next prefix of a path is one of its prefixes, and a path.
LEMMA NextPrefixIsAPath ==
    ASSUME NEW j \in Job, j.path \in Paths, j.done < Len(j.path)
    PROVE  /\ NextPrefix(j) \in Prefixes(j.path) /\ NextPrefix(j) \in Paths
           /\ j.done + 1 \in Nat
<1>1. j.done \in Nat /\ Len(j.path) \in Nat
  BY PathsAssumption DEF Job
<1>2. j.done + 1 \in 1..Len(j.path)
  BY <1>1
<1>3. NextPrefix(j) \in Prefixes(j.path)
  BY <1>2 DEF NextPrefix, Prefixes
<1> QED
  BY <1>1, <1>3, PrefixesArePaths

\* The prefixes an add inserts are the scopes it has created.
LEMMA InsertedScopes ==
    ASSUME NEW c, NEW T, NEW U, NEW d, NEW path, NEW s \in Prefixes(path),
           Sees(d, c, T), Wrote(U, T, d, InsertScope(d, s)),
           WroteScopes(T, path), OnlyScopes(T)
    PROVE  WroteScopes(U, path) /\ OnlyScopes(U)
<1> DEFINE w == InsertScope(d, s)
<1>1. /\ w.entries = d.entries /\ w.labels = d.labels /\ w.edges = d.edges
      /\ w.scopes = d.scopes \cup {s}
  BY DEF InsertScope, Sees, Database
<1> HIDE DEF w
<1>2. Wrote(U, T, d, w)
  BY DEF w
<1>3. WroteScopes(U, path)
  BY <1>1, <1>2 DEF WroteScopes, Wrote, Sees
<1>4. OnlyScopes(U)
  BY <1>1, <1>2 DEF OnlyScopes, Wrote
<1> QED
  BY <1>3, <1>4

LEMMA EnsureScopeKeeps ==
    ASSUME IInv, NEW p \in Procs, EnsureScope(p) PROVE IInv'
<1> DEFINE j == job[p]
           k == j.done + 1
           s == NextPrefix(j)
           w == InsertScope(View(p), s)
<1>1. /\ View(p) \in Database /\ Consistent(View(p)) /\ db \in Database
      /\ Sees(View(p), db, tx[p])
      /\ tx[p] = NoTx => View(p) = db
      /\ j \in Job /\ Fits("scope", j, tx[p], db)
      /\ pc[p] = "scope"
  BY StateOf DEF EnsureScope
<1>2. /\ Statement(p, w, {})
      /\ \/ k < Len(j.path) /\ Goto(p, "scope", [j EXCEPT !.done = k])
         \/ AfterScopes(p) = "idle" /\ Exit(p)
         \/ AfterScopes(p) # "idle" /\ Goto(p, AfterScopes(p), j)
  BY DEF EnsureScope
<1>3. /\ j.path \in Paths /\ j.done < Len(j.path)
      /\ s \in Prefixes(j.path) /\ s \in Paths /\ k \in Nat
  BY <1>1, NextPrefixIsAPath DEF Fits
<1>4. /\ Sound(w)
      /\ w.entries = View(p).entries /\ w.labels = View(p).labels
      /\ w.edges = View(p).edges
  BY <1>1, <1>3, InsertScopeSound DEF InsertScope, Database
<1>5. References(View(p), w, {}) /\ KeysFree(p, View(p), w)
  BY <1>4, NoRowsWritten
<1>6. PICK l \in Locations, m \in Job :
        /\ Goto(p, l, m)
        /\ \/ l = "scope" /\ m = [j EXCEPT !.done = k] /\ k < Len(j.path)
           \/ l = "idle" /\ m = NoJob /\ j.want = Null
           \/ l = "upsert" /\ m = j /\ j.want # Null /\ j.base = Null
           \/ l = "updateRow" /\ m = j /\ j.want # Null /\ j.base # Null
  <2>1. CASE k < Len(j.path) /\ Goto(p, "scope", [j EXCEPT !.done = k])
    <3>1. [j EXCEPT !.done = k] \in Job
      BY <1>1, <1>3 DEF Job
    <3> QED
      BY <2>1, <3>1 DEF Locations
  <2>2. CASE AfterScopes(p) = "idle" /\ Exit(p)
    <3>1. j.want = Null
      BY <2>2 DEF AfterScopes
    <3> QED
      BY <2>2, <3>1, NoJobIsAJob DEF Exit, Locations
  <2>3. CASE AfterScopes(p) # "idle" /\ Goto(p, AfterScopes(p), j)
    <3>1. \/ AfterScopes(p) = "upsert" /\ j.want # Null /\ j.base = Null
          \/ AfterScopes(p) = "updateRow" /\ j.want # Null /\ j.base # Null
      <4>1. CASE j.want = Null
        BY <2>3, <4>1 DEF AfterScopes
      <4>2. CASE j.want # Null /\ j.base = Null
        BY <4>2 DEF AfterScopes
      <4>3. CASE j.want # Null /\ j.base # Null
        BY <4>3 DEF AfterScopes
      <4> QED
        BY <4>1, <4>2, <4>3
    <3> QED
      BY <1>1, <2>3, <3>1 DEF Locations
  <2> QED
    BY <1>2, <2>1, <2>2, <2>3
<1>7. l = "scope" => /\ m.path = j.path /\ m.want = j.want /\ m.base = j.base
                     /\ m.id = j.id /\ m.labels = j.labels
                     /\ m.todo = j.todo /\ m.done = k
  BY <1>1, <1>6 DEF Job
<1> HIDE DEF w, s, k
<1>8. CASE j.want # Null /\ j.base = Null
  <2>1. /\ Adding("scope", j) /\ tx[p].open
        /\ WroteScopes(tx[p], j.path) /\ OnlyScopes(tx[p])
        /\ j.id \in Ids /\ j.want \in Row /\ j.want.scope = j.path
        /\ j.todo = j.labels
    BY <1>1, <1>8 DEF Adding, Fits
  <2>2. Wrote(tx'[p], tx[p], View(p), w) /\ tx'[p].open /\ db' = db
    BY <1>2, <1>4, <2>1, InsideRows DEF IInv, Statement, Sound
  <2>3. WroteScopes(tx'[p], j.path) /\ OnlyScopes(tx'[p])
    BY <1>1, <1>3, <2>1, <2>2, InsertedScopes DEF w
  <2>4. CASE l = "scope"
    <3>1. Fits(l, m, tx'[p], db)
      BY <1>3, <1>6, <1>7, <1>8, <2>1, <2>2, <2>3, <2>4
         DEF Fits, Adding, Added, Pruning, Rereading
    <3> QED
      BY <1>1, <1>2, <1>4, <1>5, <1>6, <1>7, <1>8, <2>1, <2>4, <3>1,
         InsideKeeps DEF Adding, Rereading
  <2>5. CASE l = "upsert"
    <3>1. Fits(l, m, tx'[p], db)
      BY <1>6, <1>8, <2>1, <2>2, <2>3, <2>5
         DEF Fits, Adding, Added, Pruning, Rereading
    <3> QED
      BY <1>1, <1>2, <1>4, <1>5, <1>6, <1>8, <2>1, <2>5, <3>1,
         InsideKeeps DEF Adding, Rereading
  <2> QED
    BY <1>6, <1>8, <2>4, <2>5
<1>9. CASE ~(j.want # Null /\ j.base = Null)
  <2>1. tx[p] = NoTx /\ View(p) = db
    BY <1>1, <1>9 DEF Fits, Adding, Added, Pruning
  <2>2. j.base # Null =>
          /\ Rereading("scope", j)
          /\ j.id \in Ids /\ j.base \in Row /\ j.want \in Row
          /\ j.want.version = j.base.version
          /\ j.want.created = j.base.created
    BY <1>1 DEF Fits, Rereading
  <2>3. Fits(l, m, NoTx, w)
    <3>1. CASE l = "scope"
      BY <1>3, <1>6, <1>7, <1>9, <2>2, <3>1
         DEF Fits, Adding, Added, Pruning, Rereading
    <3>2. CASE l = "idle"
      BY <3>2, IdleFits
    <3>3. CASE l = "updateRow"
      BY <1>6, <2>2, <3>3 DEF Fits, Adding, Added, Pruning, Rereading
    <3> QED
      BY <1>6, <1>9, <3>1, <3>2, <3>3
  <2>4. ~Adding(l, m)
    BY <1>6, <1>7, <1>9 DEF Adding
  <2>5. Rereading(l, m) =>
          /\ Rereading(pc[p], job[p])
          /\ m.id = job[p].id /\ m.base = job[p].base
    BY <1>1, <1>6, <1>7 DEF Rereading
  <2> QED
    BY <1>2, <1>4, <1>5, <1>6, <2>1, <2>3, <2>4, <2>5, AloneKeeps
<1> QED
  BY <1>8, <1>9

\* The row of an add: its identifier, or that of the row it replaces.
LEMMA UpsertKeeps ==
    ASSUME IInv, NEW p \in Procs, Upsert(p) PROVE IInv'
<1> DEFINE j == job[p]
           v == View(p)
           t == UpsertTarget(v, j.id, j.want)
           r == UpsertRow(v, j.id, j.want)
           w == [v EXCEPT !.entries[t] = r]
           m == [j EXCEPT !.id = t]
           l == IF j.labels = {} THEN "addLinks" ELSE "addClear"
           parents == {ScopeRow(j.want.scope)}
<1>1. /\ v \in Database /\ Consistent(v) /\ db \in Database
      /\ Sees(v, db, tx[p])
      /\ j \in Job /\ Fits("upsert", j, tx[p], db) /\ pc[p] = "upsert"
  BY StateOf DEF Upsert
<1>2. /\ ~KeyInDoubt(p, j.want.content, j.want.scope)
      /\ \/ /\ j.want.scope \in v.scopes
            /\ Statement(p, w, parents) /\ Goto(p, l, m)
         \/ Fail(p)
  BY DEF Upsert
<1>3. /\ tx[p].open /\ j.id \in Ids /\ j.want \in Row /\ j.want # Null
      /\ j.want.scope = j.path /\ j.todo = j.labels /\ j.base = Null
      /\ WroteScopes(tx[p], j.path) /\ OnlyScopes(tx[p])
      /\ Adding("upsert", j)
  BY <1>1, NullRowAssumption DEF Fits, Adding
<1>4. /\ \A i \in Ids : v.entries[i] = db.entries[i]
      /\ \A e \in EdgeIds : v.edges[e] = db.edges[e]
  BY <1>1, <1>3 DEF Sees, OnlyScopes
<1>5. ~Live(v, j.id) /\ CanUpsert(v, j.id, j.want)
  BY <1>1, <1>3, <1>4 DEF IInv, FreshOK, Unknown, Live, CanUpsert
<1>6. /\ t \in Ids
      /\ Holders(v, j.want.content, j.want.scope) \subseteq {t}
      /\ r \in Row /\ r.content = j.want.content /\ r.scope = j.want.scope
      /\ Live(v, t) => r.version = v.entries[t].version + 1
  BY <1>1, <1>3, <1>5, UpsertTargetFacts
<1>7. /\ r = [j.want EXCEPT !.created = r.created, !.version = r.version]
      /\ Live(v, t) => r.created = v.entries[t].created
  <2>1. CASE Live(v, t)
    <3> DEFINE a == v.entries[t].created
               b == v.entries[t].version + 1
    <3>1. r = [j.want EXCEPT !.created = a, !.version = b]
      BY <2>1 DEF UpsertRow
    <3> HIDE DEF a, b, r
    <3>2. r.created = a /\ r.version = b
      BY <1>3, <3>1 DEF Row
    <3> QED
      BY <3>1, <3>2 DEF a
  <2>2. CASE ~Live(v, t)
    <3>1. r = j.want
      BY <2>2 DEF UpsertRow
    <3> HIDE DEF r
    <3> QED
      BY <1>3, <2>2, <3>1 DEF Row
  <2> QED
    BY <2>1, <2>2
<1>8. Live(v, t) \/ t = j.id
  BY <1>1, <1>3, <1>5, UpsertTargetFacts DEF UpsertTarget, Holders
<1>9. /\ m \in Job /\ l \in Locations
      /\ m.id = t /\ m.want = j.want /\ m.base = j.base /\ m.path = j.path
      /\ m.labels = j.labels /\ m.todo = j.todo
      /\ parents \in SUBSET ParentRows
  <2>1. parents \in SUBSET ParentRows
    BY <1>3 DEF Row, ParentRows, ScopeRow
  <2> HIDE DEF t
  <2> QED
    BY <1>1, <1>6, <2>1 DEF Job, Locations
<1> HIDE DEF v, r, t, m
<1>10. CASE j.want.scope \in v.scopes /\ Statement(p, w, parents) /\ Goto(p, l, m)
  <2>1. /\ Sound(w) /\ w \in Database
        /\ w.scopes = v.scopes /\ w.labels = v.labels /\ w.edges = v.edges
        /\ \A i \in Ids : w.entries[i] = IF i = t THEN r ELSE v.entries[i]
    <3>1. Sound(w)
      BY <1>1, <1>6, <1>10, PutRow
    <3> QED
      BY <1>1, <3>1 DEF Sound, Database
  <2> HIDE DEF w
  <2>2. r # Null /\ r # v.entries[t]
    <3>1. CASE Live(v, t)
      <4>1. v.entries[t].version \in Nat
        BY <1>1, <1>6, <3>1 DEF Database, Live, Row
      <4> QED
        BY <1>6, <3>1, <4>1, NullRowAssumption
    <3> QED
      BY <1>6, <3>1, NullRowAssumption DEF Live
  <2>3. References(v, w, parents)
    BY <1>6, <2>1 DEF References
  <2>4. KeysFree(p, v, w)
    BY <1>2, <1>6, <2>1 DEF KeysFree
  <2>5. Wrote(tx'[p], tx[p], v, w) /\ tx'[p].open /\ db' = db
    BY <1>3, <1>10, <2>1, InsideRows DEF IInv, Statement, v
  <2>6. WroteScopes(tx'[p], j.path)
    BY <1>1, <1>3, <2>1, <2>5 DEF WroteScopes, Wrote, Sees
  <2>7. /\ EntryRow(t) \in tx'[p].written
        /\ tx'[p].image.entries[t] = r
        /\ \A i \in Ids : EntryRow(i) \in tx'[p].written => i = t
        /\ \A x \in Ids \X Labels : LabelRow(x) \notin tx'[p].written
        /\ \A e \in EdgeIds : EdgeRow(e) \notin tx'[p].written
    BY <1>3, <1>6, <2>1, <2>2, <2>5 DEF Wrote, OnlyScopes
  <2>8. WroteRow(tx'[p], m, db)
    <3>1. Live(tx'[p].image, t)
      BY <2>2, <2>7 DEF Live
    <3>2. Live(db, t) => r.version = db.entries[t].version + 1
                         /\ r.created = db.entries[t].created
      BY <1>4, <1>6, <1>7 DEF Live
    <3> QED
      BY <1>7, <1>9, <2>7, <3>1, <3>2 DEF WroteRow, WroteEntry
  <2>9. Fits(l, m, tx'[p], db)
    BY <1>3, <1>6, <1>9, <2>5, <2>6, <2>8
       DEF Fits, Adding, Added, Pruning, Rereading, WroteLabels
  <2>10. ~Adding(l, m) /\ ~Rereading(l, m)
    BY DEF Adding, Rereading
  <2>11. \A i \in Ids : w.entries[i] # v.entries[i] =>
           Live(db, i) \/ (Adding(pc[p], job[p]) /\ i = job[p].id)
    BY <1>1, <1>3, <1>4, <1>8, <2>1 DEF Live
  <2> HIDE DEF l, parents
  <2>12. /\ References(View(p), w, parents) /\ KeysFree(p, View(p), w)
         /\ \A i \in Ids : w.entries[i] # View(p).entries[i] =>
              Live(db, i) \/ (Adding(pc[p], job[p]) /\ i = job[p].id)
    BY <2>3, <2>4, <2>11 DEF v
  <2> QED
    BY <1>3, <1>9, <1>10, <2>1, <2>9, <2>10, <2>12, InsideKeeps
<1> QED
  BY <1>2, <1>10, FailKeeps

-----------------------------------------------------------------------------
\* Labels: of an add, in its transaction; of an update, one by one.
LEMMA AddedMovesOn ==
    ASSUME NEW c \in Database, NEW T, NEW U, NEW d, NEW w, NEW j, NEW m,
           Sees(d, c, T), Wrote(U, T, d, w), WroteRow(T, j, c),
           WroteScopes(T, j.path), j.id \in Ids,
           m.id = j.id, m.want = j.want, m.path = j.path,
           w.scopes = d.scopes, w.entries = d.entries,
           \A x \in Ids \X Labels :
             ~(x \in d.labels <=> x \in w.labels) => x[1] = j.id,
           \A e \in EdgeIds : \/ w.edges[e] = d.edges[e]
                              \/ /\ ~Present(d, e) /\ Present(w, e)
                                 /\ w.edges[e].from = j.id
    PROVE  WroteRow(U, m, c) /\ WroteScopes(U, m.path)
<1>1. WroteScopes(U, m.path)
  BY DEF WroteScopes, Wrote, Sees
<1>2. /\ EntryRow(j.id) \in T.written /\ EntryRow(j.id) \in U.written
      /\ U.image.entries[j.id] = T.image.entries[j.id]
      /\ \A i \in Ids : EntryRow(i) \in U.written => i = j.id
  BY DEF WroteRow, WroteEntry, Wrote, Sees
<1>3. \A x \in Ids \X Labels : LabelRow(x) \in U.written => x[1] = j.id
  BY DEF WroteRow, Wrote
<1>4. ASSUME NEW e \in EdgeIds, EdgeRow(e) \in U.written
      PROVE  /\ Present(U.image, e) /\ U.image.edges[e].from = j.id
             /\ ~Present(c, e)
  <2>1. U.image.edges[e] = w.edges[e]
    BY <1>4 DEF Wrote
  <2>2. CASE EdgeRow(e) \in T.written
    <3>1. /\ Present(T.image, e) /\ T.image.edges[e].from = j.id
          /\ ~Present(c, e) /\ d.edges[e] = T.image.edges[e]
      BY <2>2 DEF WroteRow, Sees
    <3> QED
      BY <2>1, <3>1 DEF Present
  <2>3. CASE EdgeRow(e) \notin T.written
    <3>1. d.edges[e] = c.edges[e] /\ d.edges[e] # w.edges[e]
      BY <1>4, <2>3 DEF Wrote, Sees
    <3> QED
      BY <2>1, <3>1 DEF Present
  <2> QED
    BY <2>2, <2>3
<1>5. WroteRow(U, m, c)
  BY <1>2, <1>3, <1>4 DEF WroteRow, WroteEntry, Live
<1> QED
  BY <1>1, <1>5

LEMMA ClearLabelsKeeps ==
    ASSUME IInv, NEW p \in Procs, ClearLabels(p) PROVE IInv'
<1> DEFINE j == job[p]
           v == View(p)
           w == DeleteLabels(v, j.id)
<1>1. /\ v \in Database /\ Consistent(v) /\ db \in Database
      /\ Sees(v, db, tx[p])
      /\ tx[p] = NoTx => v = db
      /\ j \in Job /\ Fits(pc[p], j, tx[p], db)
      /\ pc[p] \in {"addClear", "updateClear"}
      /\ j.id \in Ids
  BY StateOf DEF ClearLabels, Fits, Added
<1>2. /\ Statement(p, w, {})
      /\ Goto(p, IF pc[p] = "addClear" THEN "addLabels" ELSE "updateLabels", j)
  BY DEF ClearLabels
<1>3. /\ Sound(w) /\ w \in Database
      /\ w.entries = v.entries /\ w.edges = v.edges /\ w.scopes = v.scopes
      /\ w.labels = {x \in v.labels : x[1] # j.id}
  BY <1>1, DeleteLabelsSound DEF DeleteLabels, Sound, Database
<1>4. References(v, w, {}) /\ KeysFree(p, v, w)
  BY <1>3, NoRowsWritten
<1> HIDE DEF v, w
<1>5. CASE pc[p] = "addClear"
  <2>1. /\ tx[p].open /\ j.want \in Row /\ j.want.scope = j.path
        /\ WroteScopes(tx[p], j.path) /\ WroteRow(tx[p], j, db)
        /\ j.todo = j.labels
    BY <1>1, <1>5 DEF Fits, Added
  <2>2. Wrote(tx'[p], tx[p], v, w) /\ tx'[p].open /\ db' = db
    BY <1>2, <1>3, <2>1, InsideRows DEF IInv, Statement, v
  <2>3. WroteRow(tx'[p], j, db) /\ WroteScopes(tx'[p], j.path)
    BY <1>1, <1>3, <2>1, <2>2, AddedMovesOn
  <2>4. Fits("addLabels", j, tx'[p], db)
    BY <1>1, <2>1, <2>2, <2>3
       DEF Fits, Adding, Added, Pruning, Rereading, WroteLabels
  <2>5. /\ "addLabels" \in Locations
        /\ ~Adding("addLabels", j) /\ ~Rereading("addLabels", j)
        /\ Goto(p, "addLabels", j)
    BY <1>2, <1>5 DEF Locations, Adding, Rereading
  <2> QED
    BY <1>1, <1>2, <1>3, <1>4, <2>1, <2>4, <2>5, InsideKeeps DEF v
<1>6. CASE pc[p] = "updateClear"
  <2>1. tx[p] = NoTx
    BY <1>1, <1>6 DEF Fits, Adding, Added, Pruning
  <2>2. Fits("updateLabels", j, NoTx, w)
    BY <1>1 DEF Fits, Adding, Added, Pruning, Rereading
  <2>3. /\ "updateLabels" \in Locations
        /\ ~Adding("updateLabels", j) /\ ~Rereading("updateLabels", j)
        /\ Goto(p, "updateLabels", j)
    BY <1>2, <1>6 DEF Locations, Adding, Rereading
  <2> QED
    BY <1>1, <1>2, <1>3, <1>4, <2>1, <2>2, <2>3, AloneKeeps
<1> QED
  BY <1>1, <1>5, <1>6

LEMMA InsertLabelsKeeps ==
    ASSUME IInv, NEW p \in Procs, InsertLabels(p) PROVE IInv'
<1> DEFINE j == job[p]
           v == View(p)
<1>1. /\ v \in Database /\ Consistent(v) /\ db \in Database
      /\ Sees(v, db, tx[p])
      /\ tx[p] = NoTx => v = db
      /\ j \in Job /\ Fits(pc[p], j, tx[p], db)
      /\ pc[p] \in {"addLabels", "updateLabels"}
      /\ j.id \in Ids
  BY StateOf DEF InsertLabels, Fits, Added
<1>2. pc[p] = "addLabels" =>
        /\ tx[p].open /\ j.want \in Row /\ j.want.scope = j.path
        /\ WroteScopes(tx[p], j.path) /\ WroteRow(tx[p], j, db)
        /\ WroteLabels(tx[p], j)
  BY <1>1 DEF Fits, Added
<1>3. CASE j.todo = {} /\ AfterLabels(p) /\ Asks
  <2>1. CASE pc[p] = "addLabels"
    <3>1. Fits("addLinks", j, tx[p], db)
      BY <1>2, <1>3, <2>1, <1>1 DEF Fits, Adding, Added, Pruning, Rereading
    <3>2. /\ "addLinks" \in Locations /\ Goto(p, "addLinks", j)
          /\ ~Adding("addLinks", j) /\ ~Rereading("addLinks", j)
      BY <1>3, <2>1 DEF Locations, AfterLabels, Adding, Rereading
    <3> QED
      BY <1>1, <1>3, <3>1, <3>2, ReadKeeps
  <2>2. CASE pc[p] = "updateLabels"
    <3>1. tx[p] = NoTx
      BY <1>1, <2>2 DEF Fits, Adding, Added, Pruning
    <3>2. /\ "idle" \in Locations /\ Goto(p, "idle", NoJob)
          /\ ~Adding("idle", NoJob) /\ ~Rereading("idle", NoJob)
      BY <1>3, <2>2 DEF Locations, AfterLabels, Exit, Adding, Rereading
    <3> HIDE DEF NoTx
    <3> QED
      BY <1>3, <3>1, <3>2, NoJobIsAJob, IdleFits, ReadKeeps
  <2> QED
    BY <1>1, <2>1, <2>2
<1>4. ASSUME NEW l \in j.todo, CanInsertLabel(v, j.id, l),
             Statement(p, InsertLabel(v, j.id, l), {EntryRow(j.id)}),
             Goto(p, pc[p], [j EXCEPT !.todo = @ \ {l}])
      PROVE  IInv'
  <2> DEFINE w == InsertLabel(v, j.id, l)
             m == [j EXCEPT !.todo = @ \ {l}]
             parents == {EntryRow(j.id)}
  <2>1. /\ l \in Labels /\ m \in Job
        /\ m.id = j.id /\ m.want = j.want /\ m.base = j.base
        /\ m.path = j.path /\ m.labels = j.labels /\ m.todo = j.todo \ {l}
        /\ parents \in SUBSET ParentRows
    BY <1>1 DEF Job, ParentRows, EntryRow
  <2>2. /\ Sound(w) /\ w \in Database
        /\ w.entries = v.entries /\ w.edges = v.edges /\ w.scopes = v.scopes
        /\ w.labels = v.labels \cup {<<j.id, l>>}
        /\ <<j.id, l>> \notin v.labels
    <3>1. Sound(w)
      BY <1>1, <1>4, <2>1, InsertLabelSound
    <3> QED
      BY <1>1, <1>4, <3>1 DEF InsertLabel, CanInsertLabel, Sound, Database
  <2>3. References(v, w, parents) /\ KeysFree(p, v, w)
    BY <2>2 DEF References, KeysFree
  <2>4. /\ Statement(p, w, parents) /\ Goto(p, pc[p], m)
        /\ pc[p] \in Locations
        /\ ~Adding(pc[p], m) /\ ~Rereading(pc[p], m)
    BY <1>1, <1>4 DEF Locations, Adding, Rereading
  <2> HIDE DEF v, w, m, parents
  <2>5. CASE pc[p] = "addLabels"
    <3>1. Wrote(tx'[p], tx[p], v, w) /\ tx'[p].open /\ db' = db
      BY <1>2, <2>2, <2>4, <2>5, InsideRows DEF IInv, Statement, v
    <3>2. WroteRow(tx'[p], m, db) /\ WroteScopes(tx'[p], m.path)
      <4>1. /\ WroteRow(tx[p], j, db) /\ WroteScopes(tx[p], j.path)
            /\ \A x \in Ids \X Labels :
                 ~(x \in v.labels <=> x \in w.labels) => x[1] = j.id
        BY <1>2, <2>2, <2>5
      <4> HIDE DEF j
      <4> QED
        BY <1>1, <2>1, <2>2, <3>1, <4>1, AddedMovesOn
    <3>3. WroteLabels(tx'[p], m)
      <4> SUFFICES ASSUME NEW k \in j.labels \ (j.todo \ {l})
                   PROVE  /\ LabelRow(<<j.id, k>>) \in tx'[p].written
                          /\ <<j.id, k>> \in tx'[p].image.labels
        BY <2>1 DEF WroteLabels
      <4>1. <<j.id, k>> \in Ids \X Labels
        BY <1>1 DEF Job
      <4>2. CASE k = l
        BY <2>2, <3>1, <4>1, <4>2 DEF Wrote
      <4>3. CASE k \in j.labels \ j.todo
        <5>1. /\ LabelRow(<<j.id, k>>) \in tx[p].written
              /\ <<j.id, k>> \in tx[p].image.labels
          BY <1>2, <2>5, <4>3 DEF WroteLabels
        <5> QED
          BY <1>1, <2>2, <3>1, <4>1, <5>1 DEF Wrote, Sees
      <4> QED
        BY <4>2, <4>3
    <3>4. Fits(pc[p], m, tx'[p], db)
      BY <1>1, <1>2, <2>1, <2>5, <3>1, <3>2, <3>3
         DEF Fits, Adding, Added, Pruning, Rereading
    <3>5. /\ References(View(p), w, parents) /\ KeysFree(p, View(p), w)
          /\ w.entries = View(p).entries
      BY <2>2, <2>3 DEF v
    <3> QED
      BY <1>2, <2>1, <2>2, <2>4, <2>5, <3>4, <3>5, InsideKeeps
  <2>6. CASE pc[p] = "updateLabels"
    <3>1. tx[p] = NoTx /\ v = db
      BY <1>1, <2>6 DEF Fits, Adding, Added, Pruning
    <3>2. Fits(pc[p], m, NoTx, w)
      BY <1>1, <2>1, <2>6 DEF Fits, Adding, Added, Pruning, Rereading
    <3> QED
      BY <2>1, <2>2, <2>3, <2>4, <3>1, <3>2, AloneKeeps
  <2> QED
    BY <1>1, <2>5, <2>6
<1> QED
  BY <1>3, <1>4, FailKeeps DEF InsertLabels

-----------------------------------------------------------------------------
\* Edges: of an add, in its transaction; of link, alone.
LEMMA InsertLinksKeeps ==
    ASSUME IInv, NEW p \in Procs, InsertLinks(p) PROVE IInv'
<1> DEFINE j == job[p]
           v == View(p)
<1>1. /\ v \in Database /\ Consistent(v) /\ db \in Database
      /\ Sees(v, db, tx[p])
      /\ tx[p] = NoTx => v = db
      /\ j \in Job /\ Fits(pc[p], j, tx[p], db)
      /\ pc[p] \in {"addLinks", "link"}
      /\ j.id \in Ids
  BY StateOf DEF InsertLinks, Fits, Added
<1>2. pc[p] = "addLinks" =>
        /\ tx[p].open /\ j.want \in Row /\ j.want.scope = j.path
        /\ WroteScopes(tx[p], j.path) /\ WroteRow(tx[p], j, db)
        /\ WroteLabels(tx[p], j) /\ j.todo = {} /\ j.want # Null
  BY <1>1, NullRowAssumption DEF Fits, Added
<1>3. CASE j.links = {} /\ Goto(p, "commit", j) /\ Asks
  <2>1. pc[p] = "addLinks"
    BY <1>1, <1>3 DEF Fits
  <2>2. Fits("commit", j, tx[p], db)
    BY <1>1, <1>2, <2>1 DEF Fits, Adding, Added, Pruning, Rereading
  <2>3. /\ "commit" \in Locations
        /\ ~Adding("commit", j) /\ ~Rereading("commit", j)
    BY DEF Locations, Adding, Rereading
  <2> QED
    BY <1>1, <1>3, <2>2, <2>3, ReadKeeps
<1>4. ASSUME NEW k \in j.links, NEW name \in [{k} -> EdgeIds],
             CanInsertEdges(v, j.id, name),
             Statement(p, InsertEdges(v, j.id, name, Null),
                       {EntryRow(j.id), EntryRow(k[1])}),
             IF pc[p] = "link" THEN Exit(p)
             ELSE Goto(p, pc[p], [j EXCEPT !.links = @ \ {k}])
      PROVE  IInv'
  <2> DEFINE w == InsertEdges(v, j.id, name, Null)
             m == [j EXCEPT !.links = @ \ {k}]
             parents == {EntryRow(j.id), EntryRow(k[1])}
  <2>1. /\ k \in Ids \X EdgeTypes /\ k[1] \in Ids /\ m \in Job
        /\ m.id = j.id /\ m.want = j.want /\ m.base = j.base
        /\ m.path = j.path /\ m.labels = j.labels /\ m.todo = j.todo
        /\ parents \in SUBSET ParentRows
    BY <1>1 DEF Job, Links, ParentRows, EntryRow
  <2>2. /\ Sound(w) /\ w \in Database
        /\ w.entries = v.entries /\ w.labels = v.labels /\ w.scopes = v.scopes
    <3>1. {k} \in SUBSET (Ids \X EdgeTypes) /\ Null \in Weights
      BY <2>1, WeightsAllowNull
    <3>2. Sound(w)
      BY <1>1, <1>4, <3>1, InsertEdgesSound
    <3> QED
      BY <1>1, <1>4, <3>2, InsertEdgesShape DEF Sound
  <2>3. \A e \in EdgeIds : \/ w.edges[e] = v.edges[e]
                           \/ /\ ~Present(v, e) /\ Present(w, e)
                              /\ w.edges[e].from = j.id
                              /\ w.edges[e].to = k[1]
    <3>1. DOMAIN name = {k}
      OBVIOUS
    <3> QED
      BY <1>1, <1>4, <3>1, InsertEdgesShape DEF Present
  <2>4. References(v, w, parents) /\ KeysFree(p, v, w)
    BY <2>2, <2>3 DEF References, KeysFree
  <2>5. Statement(p, w, parents)
    BY <1>4
  <2> HIDE DEF v, w, parents
  <2>6. CASE pc[p] = "addLinks"
    <3>1. Goto(p, "addLinks", m)
      BY <1>4, <2>6
    <3> HIDE DEF m
    <3>2. Wrote(tx'[p], tx[p], v, w) /\ tx'[p].open /\ db' = db
      BY <1>2, <2>2, <2>5, <2>6, InsideRows DEF IInv, Statement, v
    <3>3. WroteRow(tx'[p], m, db) /\ WroteScopes(tx'[p], m.path)
      <4>1. \A x \in Ids \X Labels :
              ~(x \in v.labels <=> x \in w.labels) => x[1] = j.id
        BY <2>2
      <4>2. \A e \in EdgeIds : \/ w.edges[e] = v.edges[e]
                               \/ /\ ~Present(v, e) /\ Present(w, e)
                                  /\ w.edges[e].from = j.id
        BY <2>3
      <4>3. WroteRow(tx[p], j, db) /\ WroteScopes(tx[p], j.path)
        BY <1>2, <2>6
      <4> HIDE DEF j
      <4> QED
        BY <1>1, <2>1, <2>2, <3>2, <4>1, <4>2, <4>3, AddedMovesOn
    <3>4. WroteLabels(tx'[p], m)
      <4> SUFFICES ASSUME NEW l \in j.labels \ j.todo
                   PROVE  /\ LabelRow(<<j.id, l>>) \in tx'[p].written
                          /\ <<j.id, l>> \in tx'[p].image.labels
        BY <2>1 DEF WroteLabels
      <4>1. <<j.id, l>> \in Ids \X Labels
        BY <1>1 DEF Job
      <4>2. /\ LabelRow(<<j.id, l>>) \in tx[p].written
            /\ <<j.id, l>> \in tx[p].image.labels
        BY <1>2, <2>6 DEF WroteLabels
      <4> QED
        BY <1>1, <2>2, <3>2, <4>1, <4>2 DEF Wrote, Sees
    <3>5. Fits("addLinks", m, tx'[p], db)
      BY <1>1, <1>2, <2>1, <2>6, <3>2, <3>3, <3>4
         DEF Fits, Adding, Added, Pruning, Rereading
    <3>6. /\ References(View(p), w, parents) /\ KeysFree(p, View(p), w)
          /\ w.entries = View(p).entries
      BY <2>2, <2>4 DEF v
    <3>7. /\ "addLinks" \in Locations
          /\ ~Adding("addLinks", m) /\ ~Rereading("addLinks", m)
      BY DEF Locations, Adding, Rereading
    <3> QED
      BY <1>2, <2>1, <2>2, <2>5, <2>6, <3>1, <3>5, <3>6, <3>7, InsideKeeps
  <2>7. CASE pc[p] = "link"
    <3>1. tx[p] = NoTx /\ v = db
      BY <1>1, <2>7 DEF Fits, Adding, Added, Pruning
    <3>2. /\ "idle" \in Locations /\ Goto(p, "idle", NoJob)
          /\ ~Adding("idle", NoJob) /\ ~Rereading("idle", NoJob)
      BY <1>4, <2>7 DEF Locations, Exit, Adding, Rereading
    <3> QED
      BY <2>1, <2>2, <2>4, <2>5, <3>1, <3>2, NoJobIsAJob, IdleFits, AloneKeeps
  <2> QED
    BY <1>1, <2>6, <2>7
<1> QED
  BY <1>3, <1>4, FailKeeps DEF InsertLinks

LEMMA UnlinkKeeps ==
    ASSUME IInv, NEW p \in Procs, Unlink(p) PROVE IInv'
<1>1. /\ db \in Database /\ Consistent(db) /\ job[p] \in Job
      /\ pc[p] = "idle" /\ Fits("idle", job[p], tx[p], db)
  BY StateOf DEF Unlink, Starts
<1>2. PICK e \in EdgeIds : Statement(p, DeleteEdge(db, e), {})
  BY DEF Unlink
<1> DEFINE w == DeleteEdge(db, e)
<1>3. /\ Sound(w)
      /\ w.entries = db.entries /\ w.labels = db.labels
      /\ w.edges = [db.edges EXCEPT ![e] = Null]
  BY <1>1, DeleteEdgeSound DEF DeleteEdge, Database
<1>4. Statement(p, w, {})
  BY <1>2
<1> HIDE DEF w
<1>5. \A f \in EdgeIds : w.edges[f] = db.edges[f] \/ ~Present(w, f)
  BY <1>1, <1>3 DEF Database, Present
<1>6. References(db, w, {}) /\ KeysFree(p, db, w)
  BY <1>3, <1>5, NoRowsWritten
<1>7. tx[p] = NoTx
  BY <1>1 DEF Fits, Adding, Added, Pruning
<1>8. /\ "idle" \in Locations /\ Goto(p, "idle", job[p])
      /\ ~Adding("idle", job[p]) /\ ~Rereading("idle", job[p])
  BY <1>1 DEF Unlink, IInv, TypeOK, Locations, Goto, Adding, Rereading
<1> QED
  BY <1>1, <1>3, <1>4, <1>6, <1>7, <1>8, IdleFits, AloneKeeps

-----------------------------------------------------------------------------
\* A command that starts by reading, or by opening its transaction.
LEMMA IdleHasNoTransaction ==
    ASSUME IInv, NEW p \in Procs, pc[p] = "idle" PROVE tx[p] = NoTx
BY StateOf DEF Fits, Adding, Added, Pruning

LEMMA ScopeCreateKeeps ==
    ASSUME IInv, NEW p \in Procs, ScopeCreate(p) PROVE IInv'
<1>1. PICK s \in Paths : Goto(p, "scope", [NoJob EXCEPT !.path = s])
  BY DEF ScopeCreate
<1> DEFINE j == [NoJob EXCEPT !.path = s]
<1>2. /\ j \in Job /\ j.path = s /\ j.want = Null /\ j.base = Null
      /\ j.done = 0
  BY NoJobIsAJob DEF NoJob, Job
<1>3. Goto(p, "scope", j)
  BY <1>1
<1> HIDE DEF j
<1>4. Asks /\ tx[p] = NoTx
  BY IdleHasNoTransaction DEF ScopeCreate, Starts
<1>5. 0 < Len(s)
  BY PathsAssumption
<1>6. Fits("scope", j, tx[p], db) /\ ~Adding("scope", j) /\ ~Rereading("scope", j)
  BY <1>2, <1>4, <1>5 DEF Fits, Adding, Added, Pruning, Rereading
<1>7. "scope" \in Locations
  BY DEF Locations
<1> QED
  BY <1>2, <1>3, <1>4, <1>6, <1>7, ReadKeeps

LEMMA LinkGetKeeps ==
    ASSUME IInv, NEW p \in Procs, LinkGet(p) PROVE IInv'
<1>1. PICK i \in LiveIds, l \in LiveIds \X EdgeTypes :
        Goto(p, "link", [NoJob EXCEPT !.id = i, !.links = {l}])
  BY DEF LinkGet
<1> DEFINE j == [NoJob EXCEPT !.id = i, !.links = {l}]
<1>2. j \in Job /\ j.id = i /\ i \in Ids /\ j.links # {}
  BY NoJobIsAJob DEF NoJob, Job, LiveIds, Links
<1>3. Goto(p, "link", j)
  BY <1>1
<1> HIDE DEF j
<1>4. Asks /\ tx[p] = NoTx
  BY IdleHasNoTransaction DEF LinkGet, Starts
<1>5. Fits("link", j, tx[p], db) /\ ~Adding("link", j) /\ ~Rereading("link", j)
  BY <1>2, <1>4 DEF Fits, Adding, Added, Pruning, Rereading
<1>6. "link" \in Locations
  BY DEF Locations
<1> QED
  BY <1>2, <1>3, <1>4, <1>5, <1>6, ReadKeeps

LEMMA DeleteGetKeeps ==
    ASSUME IInv, NEW p \in Procs, DeleteGet(p) PROVE IInv'
<1>1. PICK i \in LiveIds : Goto(p, "delete", [NoJob EXCEPT !.id = i])
  BY DEF DeleteGet
<1> DEFINE j == [NoJob EXCEPT !.id = i]
<1>2. j \in Job /\ j.id = i /\ i \in Ids
  BY NoJobIsAJob DEF NoJob, Job, LiveIds
<1>3. Goto(p, "delete", j)
  BY <1>1
<1> HIDE DEF j
<1>4. Asks /\ tx[p] = NoTx
  BY IdleHasNoTransaction DEF DeleteGet, Starts
<1>5. /\ Fits("delete", j, tx[p], db)
      /\ ~Adding("delete", j) /\ ~Rereading("delete", j)
  BY <1>2, <1>4 DEF Fits, Adding, Added, Pruning, Rereading
<1>6. "delete" \in Locations
  BY DEF Locations
<1> QED
  BY <1>2, <1>3, <1>4, <1>5, <1>6, ReadKeeps

LEMMA ScopeDeleteCheckKeeps ==
    ASSUME IInv, NEW p \in Procs, ScopeDeleteCheck(p) PROVE IInv'
<1>1. PICK s \in db.scopes :
        Goto(p, IF HasContent(s) THEN "treeList" ELSE "scopeDelete",
             [NoJob EXCEPT !.path = s])
  BY DEF ScopeDeleteCheck
<1>2. PICK l \in {"treeList", "scopeDelete"} :
        Goto(p, l, [NoJob EXCEPT !.path = s])
  BY <1>1
<1> DEFINE j == [NoJob EXCEPT !.path = s]
<1>3. s \in Paths
  BY DEF IInv, TypeOK, Database
<1>4. j \in Job /\ j.path = s /\ j.want = Null
  BY <1>3, NoJobIsAJob DEF NoJob, Job
<1>5. Goto(p, l, j)
  BY <1>2
<1> HIDE DEF j
<1>6. Asks /\ tx[p] = NoTx
  BY IdleHasNoTransaction DEF ScopeDeleteCheck, Starts
<1>7. Fits(l, j, tx[p], db) /\ ~Adding(l, j) /\ ~Rereading(l, j)
  BY <1>3, <1>4, <1>6 DEF Fits, Adding, Added, Pruning, Rereading
<1>8. l \in Locations
  BY DEF Locations
<1> QED
  BY <1>4, <1>5, <1>6, <1>7, <1>8, ReadKeeps

LEMMA UpdateGetKeeps ==
    ASSUME IInv, NEW p \in Procs, UpdateGet(p) PROVE IInv'
<1>1. PICK i \in LiveIds :
        Goto(p, "updateRead",
             [NoJob EXCEPT !.id = i, !.base = db.entries[i]])
  BY DEF UpdateGet
<1> DEFINE j == [NoJob EXCEPT !.id = i, !.base = db.entries[i]]
<1>2. i \in Ids /\ Live(db, i) /\ db.entries[i] \in Row
  BY DEF LiveIds, Live, IInv, TypeOK, Database
<1>3. /\ j \in Job /\ j.id = i /\ j.base = db.entries[i] /\ j.want = Null
      /\ j.done = 0
  BY <1>2, NoJobIsAJob DEF NoJob, Job
<1>4. Goto(p, "updateRead", j)
  BY <1>1
<1> HIDE DEF j
<1>5. Asks /\ tx[p] = NoTx
  BY IdleHasNoTransaction DEF UpdateGet, Starts
<1>6. Fits("updateRead", j, tx[p], db) /\ ~Adding("updateRead", j)
  BY <1>2, <1>3, <1>5 DEF Fits, Adding, Added, Pruning, Rereading
<1>7. "updateRead" \in Locations
  BY DEF Locations
<1> QED
  BY <1>2, <1>3, <1>4, <1>5, <1>6, <1>7, ReadKeeps

LEMMA UpdateReadKeeps ==
    ASSUME IInv, NEW p \in Procs, UpdateRead(p) PROVE IInv'
<1> DEFINE b == job[p].base
<1>1. PICK c \in Contents, s \in Paths, t \in Titles, x \in {b.expires, Null},
           ls \in {LabelsOf(db, job[p].id)} \cup SUBSET Labels :
        Goto(p, "scope",
             [job[p] EXCEPT
                !.want = [b EXCEPT !.content = c, !.scope = s,
                                   !.title = t, !.expires = x],
                !.labels = ls, !.todo = ls, !.path = s])
  BY DEF UpdateRead
<1> DEFINE row == [b EXCEPT !.content = c, !.scope = s,
                            !.title = t, !.expires = x]
           j == [job[p] EXCEPT !.want = row, !.labels = ls, !.todo = ls,
                               !.path = s]
<1>2. /\ job[p] \in Job /\ Fits("updateRead", job[p], tx[p], db)
      /\ pc[p] = "updateRead" /\ Asks
  BY StateOf DEF UpdateRead
<1>3. /\ job[p].id \in Ids /\ b \in Row /\ tx[p] = NoTx /\ job[p].done = 0
  BY <1>2 DEF Fits, Adding, Added, Pruning, Rereading
<1>4. row \in Row /\ row.version = b.version /\ row.created = b.created
  BY <1>3 DEF Row
<1>5. ls \in SUBSET Labels
  BY DEF LabelsOf
<1>6. /\ j \in Job /\ j.id = job[p].id /\ j.base = b /\ j.want = row
      /\ j.path = s /\ j.done = 0
  <2> HIDE DEF row
  <2> QED
    BY <1>2, <1>3, <1>4, <1>5 DEF Job
<1>7. Goto(p, "scope", j)
  BY <1>1
<1> HIDE DEF j, row
<1>8. b # Null /\ 0 < Len(s)
  BY <1>3, NullRowAssumption, PathsAssumption
<1>9. Fits("scope", j, tx[p], db) /\ ~Adding("scope", j)
  BY <1>3, <1>4, <1>6, <1>8 DEF Fits, Adding, Added, Pruning, Rereading
<1>10. "scope" \in Locations /\ Rereading(pc[p], job[p])
  BY <1>2 DEF Locations, Rereading
<1> QED
  BY <1>2, <1>6, <1>7, <1>9, <1>10, ReadKeeps

LEMMA AddResolveKeeps ==
    ASSUME IInv, NEW p \in Procs, AddResolve(p) PROVE IInv'
<1>1. PICK i \in Ids \ used, c \in Contents, s \in Paths, t \in Titles,
           ls \in SUBSET Labels, ttl \in TTLs \cup {Null},
           links \in SUBSET (LiveIds \X EdgeTypes) :
        /\ used' = used \cup {i}
        /\ Goto(p, "scope",
                [NoJob EXCEPT
                   !.id = i, !.labels = ls, !.todo = ls, !.path = s,
                   !.links = links,
                   !.want = [content |-> c, scope |-> s, title |-> t,
                             created |-> now, version |-> 1,
                             expires |-> IF ttl = Null THEN Null
                                                       ELSE now + ttl]])
  BY DEF AddResolve
<1> DEFINE row == [content |-> c, scope |-> s, title |-> t,
                   created |-> now, version |-> 1,
                   expires |-> IF ttl = Null THEN Null ELSE now + ttl]
           j == [NoJob EXCEPT !.id = i, !.labels = ls, !.todo = ls,
                              !.path = s, !.links = links, !.want = row]
<1>2. row \in Row /\ row.scope = s
  <2>1. now \in Nat /\ TTLs \subseteq Nat
    BY PostgresAssumption DEF IInv, TypeOK
  <2>2. (IF ttl = Null THEN Null ELSE now + ttl) \in Nat \cup {Null}
    BY <2>1
  <2> QED
    BY <2>1, <2>2 DEF Row
<1>3. links \in SUBSET Links
  BY DEF LiveIds, Links
<1>4. /\ j \in Job /\ j.id = i /\ j.base = Null /\ j.want = row
      /\ j.labels = ls /\ j.todo = ls /\ j.path = s /\ j.done = 0
  <2> HIDE DEF row
  <2> QED
    BY <1>2, <1>3, NoJobIsAJob DEF NoJob, Job
<1>5. Goto(p, "scope", j) /\ used' = used \cup {i}
  BY <1>1
<1> HIDE DEF j, row
<1>6. tx' = [tx EXCEPT ![p] = Opened] /\ db' = db /\ now' = now
  BY DEF AddResolve
<1>7. Opened.open /\ Opened.written = {}
  BY DEF Opened, NoTx
<1>8. row # Null /\ 0 < Len(s)
  BY <1>2, NullRowAssumption, PathsAssumption
<1>9. WroteScopes(Opened, s) /\ OnlyScopes(Opened)
  BY <1>7 DEF WroteScopes, OnlyScopes
<1>10. Fits("scope", j, Opened, db) /\ ~Rereading("scope", j)
  BY <1>2, <1>4, <1>7, <1>8, <1>9
     DEF Fits, Adding, Added, Pruning, Rereading
<1>11. "scope" \in Locations
  BY DEF Locations
<1>12. PICK ids \in SUBSET Ids : ids = {i}
  OBVIOUS
<1> QED
  BY <1>4, <1>5, <1>6, <1>10, <1>11, <1>12, OpenKeeps

LEMMA TreeListKeeps ==
    ASSUME IInv, NEW p \in Procs, TreeList(p) PROVE IInv'
<1> DEFINE found == ListPrefix(db, job[p].path, now)
           j == [job[p] EXCEPT !.entries = found]
<1>1. /\ job[p] \in Job /\ Fits("treeList", job[p], tx[p], db)
  BY StateOf DEF TreeList
<1>2. job[p].want = Null /\ job[p].path \in Paths
  BY <1>1 DEF Fits
<1>3. found \in SUBSET Ids
  BY DEF ListPrefix
<1>4. Goto(p, "treeEntries", j)
  BY DEF TreeList
<1> HIDE DEF found
<1>5. j \in Job /\ j.want = Null /\ j.path = job[p].path
  BY <1>1, <1>2, <1>3 DEF Job
<1> HIDE DEF j
<1>6. /\ tx' = [tx EXCEPT ![p] = Opened] /\ db' = db /\ now' = now
      /\ used' = used \cup {}
  BY DEF TreeList
<1>7. Opened.open /\ Opened.written = {}
  BY DEF Opened, NoTx
<1>8. OnlyRemoved(Opened, db)
  BY <1>7 DEF OnlyRemoved
<1>9. /\ Fits("treeEntries", j, Opened, db)
      /\ ~Adding("treeEntries", j) /\ ~Rereading("treeEntries", j)
  BY <1>2, <1>5, <1>7, <1>8 DEF Fits, Adding, Added, Pruning, Rereading
<1>10. "treeEntries" \in Locations
  BY DEF Locations
<1>11. PICK ids \in SUBSET Ids : ids = {}
  OBVIOUS
<1> QED
  BY <1>4, <1>5, <1>6, <1>9, <1>10, <1>11, OpenKeeps

-----------------------------------------------------------------------------
\* Statements that remove rows, or write one, outside of a transaction.
LEMMA DeletedEntries ==
    ASSUME NEW d \in Database, Consistent(d), NEW gone \in SUBSET Ids, NEW p
    PROVE  /\ Sound(DeleteEntries(d, gone))
           /\ References(d, DeleteEntries(d, gone), {})
           /\ KeysFree(p, d, DeleteEntries(d, gone))
           /\ \A i \in Ids : Live(DeleteEntries(d, gone), i) =>
                DeleteEntries(d, gone).entries[i] = d.entries[i]
<1> DEFINE w == DeleteEntries(d, gone)
<1>1. /\ w.labels = {x \in d.labels : x[1] \notin gone}
      /\ \A i \in Ids :
           w.entries[i] = IF i \in gone THEN Null ELSE d.entries[i]
      /\ \A e \in EdgeIds :
           w.edges[e] = IF /\ Present(d, e)
                           /\ \/ d.edges[e].from \in gone
                              \/ d.edges[e].to \in gone
                        THEN Null ELSE d.edges[e]
  BY DeleteEntriesShape
<1>2. Sound(w)
  BY DeleteEntriesSound
<1> HIDE DEF w
<1>3. References(d, w, {})
  BY <1>1 DEF References, Live, Present
<1>4. KeysFree(p, d, w)
  BY <1>1 DEF KeysFree, Live
<1>5. \A i \in Ids : Live(w, i) => w.entries[i] = d.entries[i]
  BY <1>1 DEF Live
<1> QED
  BY <1>2, <1>3, <1>4, <1>5 DEF w

\* The last statement of a command without a transaction.
LEMMA LastStatementKeeps ==
    ASSUME IInv, NEW p \in Procs, NEW w, tx[p] = NoTx,
           Statement(p, w, {}), NEW l \in {"idle", "gcScopes"},
           Goto(p, l, NoJob), Sound(w),
           References(db, w, {}), KeysFree(p, db, w),
           \A i \in Ids : Live(w, i) => w.entries[i] = db.entries[i]
    PROVE  IInv' /\ db' = w
<1>1. Fits(l, NoJob, NoTx, w)
  BY NoJobIsAJob DEF Fits, Adding, Added, Pruning, Rereading
<1>2. l \in Locations /\ ~Adding(l, NoJob) /\ ~Rereading(l, NoJob)
  BY DEF Locations, Adding, Rereading
<1> QED
  BY <1>1, <1>2, NoJobIsAJob, AloneKeeps

LEMMA DeleteTheRowKeeps ==
    ASSUME IInv, NEW p \in Procs, DeleteTheRow(p)
    PROVE  IInv' /\ db' = DeleteEntries(db, {job[p].id} \cap LiveIds)
<1> DEFINE gone == {job[p].id} \cap LiveIds
           w == DeleteEntries(db, gone)
<1>1. /\ db \in Database /\ Consistent(db)
      /\ pc[p] = "delete" /\ Fits("delete", job[p], tx[p], db)
  BY StateOf DEF DeleteTheRow
<1>2. tx[p] = NoTx
  BY <1>1 DEF Fits, Adding, Added, Pruning
<1>3. gone \in SUBSET Ids
  BY DEF LiveIds
<1>4. Statement(p, w, {}) /\ Goto(p, "idle", NoJob)
  BY DEF DeleteTheRow, Exit
<1> HIDE DEF gone
<1>5. /\ Sound(w) /\ References(db, w, {}) /\ KeysFree(p, db, w)
      /\ \A i \in Ids : Live(w, i) => w.entries[i] = db.entries[i]
  BY <1>1, <1>3, DeletedEntries
<1> HIDE DEF w
<1>6. IInv' /\ db' = w
  BY <1>2, <1>4, <1>5, LastStatementKeeps
<1> QED
  BY <1>6 DEF w, gone

LEMMA GcExpiredKeeps ==
    ASSUME IInv, NEW p \in Procs, GcExpired(p)
    PROVE  IInv' /\ db' = DeleteEntries(db, Expired(db, now))
<1> DEFINE gone == Expired(db, now)
           w == DeleteEntries(db, gone)
<1>1. /\ db \in Database /\ Consistent(db)
      /\ tx[p] = NoTx
  BY StateOf, IdleHasNoTransaction DEF GcExpired, Starts
<1>2. gone \in SUBSET Ids
  BY DEF Expired
<1>3. Statement(p, w, {}) /\ Goto(p, "gcScopes", NoJob)
  BY DEF GcExpired, DeleteExpired
<1> HIDE DEF gone
<1>4. /\ Sound(w) /\ References(db, w, {}) /\ KeysFree(p, db, w)
      /\ \A i \in Ids : Live(w, i) => w.entries[i] = db.entries[i]
  BY <1>1, <1>2, DeletedEntries
<1> HIDE DEF w
<1>5. IInv' /\ db' = w
  BY <1>1, <1>3, <1>4, LastStatementKeeps
<1> QED
  BY <1>5 DEF w, gone

\* A statement that removes scopes writes no other row.
LEMMA RemovedScopes ==
    ASSUME NEW d \in Database, NEW w, NEW p,
           w.entries = d.entries, w.labels = d.labels, w.edges = d.edges
    PROVE  References(d, w, {}) /\ KeysFree(p, d, w)
BY NoRowsWritten

LEMMA GcScopesKeeps ==
    ASSUME IInv, NEW p \in Procs, GcScopes(p)
    PROVE  IInv' /\ (db' = db \/ db' = DeleteEmpty(db))
<1> DEFINE w == DeleteEmpty(db)
<1>1. /\ db \in Database /\ Consistent(db)
      /\ pc[p] = "gcScopes" /\ Fits("gcScopes", job[p], tx[p], db)
  BY StateOf DEF GcScopes
<1>2. tx[p] = NoTx
  BY <1>1 DEF Fits, Adding, Added, Pruning
<1>3. \/ Statement(p, w, {}) /\ Goto(p, "idle", NoJob)
      \/ Fail(p)
  BY DEF GcScopes, Exit
<1>4. w.entries = db.entries /\ w.labels = db.labels /\ w.edges = db.edges
  BY <1>1 DEF DeleteEmpty, Database
<1>5. Sound(w)
  BY <1>1, DeleteEmptySound
<1> HIDE DEF w
<1>6. References(db, w, {}) /\ KeysFree(p, db, w)
  BY <1>1, <1>4, RemovedScopes
<1>7. CASE Fail(p)
  BY <1>7, FailKeeps DEF Fail
<1>8. CASE Statement(p, w, {}) /\ Goto(p, "idle", NoJob)
  <2>1. IInv' /\ db' = w
    BY <1>2, <1>4, <1>5, <1>6, <1>8, LastStatementKeeps
  <2> QED
    BY <2>1 DEF w
<1> QED
  BY <1>3, <1>7, <1>8

LEMMA ScopeDeleteOneKeeps ==
    ASSUME IInv, NEW p \in Procs, ScopeDeleteOne(p)
    PROVE  /\ IInv'
           /\ \/ db' = db
              \/ /\ CanDeleteScope(db, job[p].path)
                 /\ db' = DeleteScope(db, job[p].path)
<1> DEFINE s == job[p].path
           w == DeleteScope(db, s)
<1>1. /\ db \in Database /\ Consistent(db)
      /\ pc[p] = "scopeDelete" /\ Fits("scopeDelete", job[p], tx[p], db)
  BY StateOf DEF ScopeDeleteOne
<1>2. tx[p] = NoTx
  BY <1>1 DEF Fits, Adding, Added, Pruning
<1>3. \/ /\ CanDeleteScope(db, s)
         /\ Statement(p, w, {}) /\ Goto(p, "idle", NoJob)
      \/ Fail(p)
  BY DEF ScopeDeleteOne, Exit
<1>4. w.entries = db.entries /\ w.labels = db.labels /\ w.edges = db.edges
  BY <1>1 DEF DeleteScope, Database
<1>5. CanDeleteScope(db, s) => Sound(w)
  BY <1>1, DeleteScopeSound
<1> HIDE DEF w
<1>6. References(db, w, {}) /\ KeysFree(p, db, w)
  BY <1>1, <1>4, RemovedScopes
<1>7. CASE Fail(p)
  BY <1>7, FailKeeps DEF Fail
<1>8. CASE /\ CanDeleteScope(db, s)
           /\ Statement(p, w, {}) /\ Goto(p, "idle", NoJob)
  <2>1. IInv' /\ db' = w
    BY <1>2, <1>4, <1>5, <1>6, <1>8, LastStatementKeeps
  <2> QED
    BY <1>8, <2>1 DEF w
<1> QED
  BY <1>3, <1>7, <1>8

\* The UPDATE of update: the row it replaces is the row that was read.
LEMMA UpdateTheRowKeeps ==
    ASSUME IInv, NEW p \in Procs, UpdateTheRow(p)
    PROVE  /\ IInv'
           /\ \/ db' = db /\ Fail(p)
              \/ /\ job[p].id \in Ids /\ job[p].want \in Row
                 /\ CanUpdate(db, job[p].id, job[p].want)
                 /\ job[p].want.created = db.entries[job[p].id].created
                 /\ db.entries[job[p].id] = job[p].base
                 /\ db' = UpdateRow(db, job[p].id, job[p].want)
<1> DEFINE j == job[p]
           row == [j.want EXCEPT !.version = @ + 1]
           w == UpdateRow(db, j.id, j.want)
           parents == {ScopeRow(j.want.scope)}
<1>1. /\ db \in Database /\ Consistent(db) /\ j \in Job
      /\ pc[p] = "updateRow" /\ Fits("updateRow", j, tx[p], db)
  BY StateOf DEF UpdateTheRow
<1>2. tx[p] = NoTx
  BY <1>1 DEF Fits, Adding, Added, Pruning
<1>3. /\ j.id \in Ids /\ j.base \in Row /\ j.want \in Row
      /\ j.want.version = j.base.version /\ j.want.created = j.base.created
      /\ Knows(j, db)
  BY <1>1 DEF Fits, Rereading, IInv, KnowsOK
<1>4. ~KeyInDoubt(p, j.want.content, j.want.scope)
  BY DEF UpdateTheRow
<1>5. \/ /\ CanUpdate(db, j.id, j.want)
         /\ Statement(p, w, parents) /\ Goto(p, "updateClear", j)
      \/ Fail(p)
  BY DEF UpdateTheRow
<1>6. CASE Fail(p)
  BY <1>6, FailKeeps DEF Fail
<1>7. CASE /\ CanUpdate(db, j.id, j.want)
           /\ Statement(p, w, parents) /\ Goto(p, "updateClear", j)
  <2>1. /\ Live(db, j.id) /\ db.entries[j.id].version = j.want.version
    BY <1>7 DEF CanUpdate, UpdateMatches
  <2>2. db.entries[j.id] = j.base
    BY <1>3, <2>1 DEF Knows
  <2>3. /\ row \in Row /\ row.content = j.want.content
        /\ row.scope = j.want.scope /\ row.version = j.want.version + 1
    BY <1>3 DEF Row
  <2>4. /\ w.entries = [db.entries EXCEPT ![j.id] = row]
        /\ w.labels = db.labels /\ w.edges = db.edges
    BY <1>1 DEF UpdateRow, Database
  <2>5. Sound(w)
    BY <1>1, <1>3, <1>7, UpdateRowSound
  <2> HIDE DEF w, row
  <2>6. /\ w.entries[j.id] = row
        /\ \A i \in Ids \ {j.id} : w.entries[i] = db.entries[i]
    BY <1>1, <1>3, <2>4 DEF Database
  <2>7. References(db, w, parents)
    BY <2>3, <2>4, <2>6 DEF References
  <2>8. KeysFree(p, db, w)
    BY <1>4, <2>3, <2>6 DEF KeysFree
  <2>9. \A i \in Ids : Live(w, i) =>
          \/ w.entries[i] = db.entries[i]
          \/ /\ Live(db, i)
             /\ w.entries[i].version = db.entries[i].version + 1
    BY <2>1, <2>3, <2>6
  <2>10. /\ "updateClear" \in Locations
         /\ ~Adding("updateClear", j) /\ ~Rereading("updateClear", j)
    BY DEF Locations, Adding, Rereading
  <2>11. Fits("updateClear", j, NoTx, w)
    BY <1>3 DEF Fits, Adding, Added, Pruning, Rereading
  <2> HIDE DEF parents
  <2>12. IInv' /\ db' = w
    BY <1>1, <1>2, <1>7, <2>5, <2>7, <2>8, <2>9, <2>10, <2>11, AloneKeeps
  <2> QED
    BY <1>3, <1>7, <2>2, <2>12 DEF w
<1> QED
  BY <1>5, <1>6, <1>7

-----------------------------------------------------------------------------
\* The statements of a recursive scope delete, in its transaction.
Prunes(d, w, gone) ==
    /\ w.scopes \subseteq d.scopes
    /\ w.labels = {x \in d.labels : x[1] \notin gone}
    /\ \A i \in gone : Live(d, i)
    /\ \A i \in Ids :
         w.entries[i] = IF i \in gone THEN Null ELSE d.entries[i]
    /\ \A e \in EdgeIds :
         w.edges[e] = IF /\ Present(d, e)
                         /\ \/ d.edges[e].from \in gone
                            \/ d.edges[e].to \in gone
                      THEN Null ELSE d.edges[e]

LEMMA PrunesOn ==
    ASSUME NEW c \in Database, NEW T, NEW U, NEW d \in Database,
           NEW gone \in SUBSET Ids, NEW w,
           Sees(d, c, T), Wrote(U, T, d, w), OnlyRemoved(T, c),
           Prunes(d, w, gone)
    PROVE  OnlyRemoved(U, c)
<1>1. ASSUME NEW s \in Paths, ScopeRow(s) \in U.written
      PROVE  s \notin U.image.scopes
  BY <1>1 DEF Prunes, Wrote, OnlyRemoved, Sees
<1>2. ASSUME NEW i \in gone
      PROVE  /\ EntryRow(i) \in U.written /\ EntryRow(i) \notin T.written
             /\ Live(c, i) /\ ~Live(U.image, i)
  <2>1. Live(d, i) /\ w.entries[i] = Null
    BY <1>2 DEF Prunes
  <2>2. EntryRow(i) \in U.written /\ U.image.entries[i] = Null
    BY <2>1 DEF Wrote, Live
  <2>3. EntryRow(i) \notin T.written
    BY <2>1 DEF OnlyRemoved, Sees, Live
  <2> QED
    BY <2>1, <2>2, <2>3 DEF Sees, Live
<1>3. ASSUME NEW i \in Ids, EntryRow(i) \in U.written
      PROVE  ~Live(U.image, i)
  <2>1. CASE i \in gone
    BY <1>2, <2>1
  <2>2. CASE i \notin gone
    <3>1. EntryRow(i) \in T.written /\ U.image.entries[i] = d.entries[i]
      BY <1>3, <2>2 DEF Prunes, Wrote
    <3> QED
      BY <3>1 DEF OnlyRemoved, Sees, Live
  <2> QED
    BY <2>1, <2>2
<1>4. ASSUME NEW x \in Ids \X Labels, LabelRow(x) \in U.written
      PROVE  EntryRow(x[1]) \in U.written
  <2>1. CASE LabelRow(x) \in T.written
    BY <2>1 DEF OnlyRemoved, Wrote
  <2>2. CASE LabelRow(x) \notin T.written
    BY <1>2, <1>4, <2>2 DEF Prunes, Wrote
  <2> QED
    BY <2>1, <2>2
<1>5. ASSUME NEW e \in EdgeIds, EdgeRow(e) \in U.written
      PROVE  /\ ~Present(U.image, e) /\ Present(c, e)
             /\ \/ EntryRow(c.edges[e].from) \in U.written
                \/ EntryRow(c.edges[e].to) \in U.written
  <2>1. U.image.edges[e] = w.edges[e]
    BY <1>5 DEF Wrote
  <2>2. CASE EdgeRow(e) \in T.written
    <3>1. /\ ~Present(T.image, e) /\ Present(c, e)
          /\ \/ EntryRow(c.edges[e].from) \in T.written
             \/ EntryRow(c.edges[e].to) \in T.written
      BY <2>2 DEF OnlyRemoved
    <3>2. c.edges[e].from \in Ids /\ c.edges[e].to \in Ids
      BY <3>1 DEF Present, Database, Edge
    <3>3. d.edges[e] = T.image.edges[e] /\ ~Present(d, e)
      BY <2>2, <3>1 DEF Sees, Present
    <3>4. w.edges[e] = d.edges[e]
      BY <3>3 DEF Prunes, Present
    <3> QED
      BY <2>1, <3>1, <3>2, <3>3, <3>4 DEF Wrote, Present
  <2>3. CASE EdgeRow(e) \notin T.written
    <3>1. d.edges[e] = c.edges[e] /\ d.edges[e] # w.edges[e]
      BY <1>5, <2>3 DEF Wrote, Sees
    <3>2. /\ Present(d, e) /\ w.edges[e] = Null
          /\ d.edges[e].from \in gone \/ d.edges[e].to \in gone
      BY <3>1 DEF Prunes
    <3> QED
      BY <1>2, <2>1, <3>1, <3>2 DEF Present
  <2> QED
    BY <2>2, <2>3
<1> QED
  BY <1>1, <1>3, <1>4, <1>5 DEF OnlyRemoved

LEMMA TreeEntriesKeeps ==
    ASSUME IInv, NEW p \in Procs, TreeEntries(p) PROVE IInv' /\ db' = db
<1> DEFINE j == job[p]
           v == View(p)
<1>1. /\ db \in Database /\ v \in Database /\ Consistent(v)
      /\ Sees(v, db, tx[p]) /\ j \in Job
      /\ pc[p] = "treeEntries" /\ Fits("treeEntries", j, tx[p], db)
  BY StateOf DEF TreeEntries
<1>2. /\ tx[p].open /\ OnlyRemoved(tx[p], db)
      /\ j.want = Null /\ j.path \in Paths
  BY <1>1 DEF Fits, Pruning
<1>3. CASE Fail(p)
  BY <1>3, FailKeeps DEF Fail
<1>4. ASSUME NEW i \in j.entries, Live(v, i),
             Statement(p, DeleteEntries(v, {i}), {}),
             Goto(p, "treeEntries", [j EXCEPT !.entries = @ \ {i}])
      PROVE  IInv' /\ db' = db
  <2> DEFINE w == DeleteEntries(v, {i})
             m == [j EXCEPT !.entries = @ \ {i}]
  <2>1. PICK gone \in SUBSET Ids : gone = {i}
    BY <1>1 DEF Job
  <2>2. /\ Sound(w) /\ References(v, w, {}) /\ KeysFree(p, v, w)
    BY <1>1, <2>1, DeletedEntries
  <2>3. /\ w.scopes = v.scopes
        /\ w.labels = {x \in v.labels : x[1] \notin gone}
        /\ \A k \in Ids :
             w.entries[k] = IF k \in gone THEN Null ELSE v.entries[k]
        /\ \A e \in EdgeIds :
             w.edges[e] = IF /\ Present(v, e)
                             /\ \/ v.edges[e].from \in gone
                                \/ v.edges[e].to \in gone
                          THEN Null ELSE v.edges[e]
    BY <1>1, <2>1, DeleteEntriesShape
  <2>4. m \in Job /\ m.want = Null /\ m.path = j.path
    BY <1>1, <1>2 DEF Job
  <2>5. Statement(p, w, {}) /\ Goto(p, "treeEntries", m)
    BY <1>4
  <2> HIDE DEF w, v, m
  <2>6. Wrote(tx'[p], tx[p], v, w) /\ tx'[p].open /\ db' = db
    BY <1>2, <2>2, <2>5, InsideRows DEF IInv, Statement, Sound, v
  <2>7. /\ OnlyRemoved(tx'[p], db)
        /\ \A k \in Ids : w.entries[k] # v.entries[k] => Live(db, k)
    <3>1. Prunes(v, w, gone)
      BY <1>4, <2>1, <2>3 DEF Prunes
    <3>2. /\ db \in Database /\ v \in Database /\ Sees(v, db, tx[p])
          /\ Wrote(tx'[p], tx[p], v, w) /\ OnlyRemoved(tx[p], db)
      BY <1>1, <1>2, <2>6
    <3>3. OnlyRemoved(tx'[p], db)
      BY <3>1, <3>2, PrunesOn
    <3>4. \A k \in gone : Live(v, k) /\ EntryRow(k) \notin tx[p].written
      BY <3>1, <3>2 DEF Prunes, OnlyRemoved, Sees, Live
    <3>5. \A k \in gone : Live(db, k)
      BY <3>2, <3>4 DEF Sees, Live
    <3> QED
      BY <3>1, <3>3, <3>5 DEF Prunes
  <2>8. /\ Fits("treeEntries", m, tx'[p], db) /\ "treeEntries" \in Locations
        /\ ~Adding("treeEntries", m) /\ ~Rereading("treeEntries", m)
    BY <1>2, <2>4, <2>6, <2>7
       DEF Fits, Adding, Added, Pruning, Rereading, Locations
  <2>9. /\ References(View(p), w, {}) /\ KeysFree(p, View(p), w)
        /\ \A k \in Ids : w.entries[k] # View(p).entries[k] => Live(db, k)
    BY <2>2, <2>7 DEF v
  <2>10. PICK parents \in SUBSET ParentRows : parents = {}
    OBVIOUS
  <2> QED
    BY <1>2, <2>2, <2>4, <2>5, <2>8, <2>9, <2>10, InsideKeeps
<1>5. CASE /\ Goto(p, "treeScopes",
                   [j EXCEPT !.scopes =
                      {j.path} \cup LtreeDescendants(v, j.path)])
           /\ Asks
  <2> DEFINE tree == {j.path} \cup LtreeDescendants(v, j.path)
             m == [j EXCEPT !.scopes = tree]
  <2>1. tree \in SUBSET Paths
    BY <1>1, <1>2 DEF LtreeDescendants, Database
  <2>2. Goto(p, "treeScopes", m) /\ Asks /\ db' = db
    BY <1>5 DEF Asks
  <2> HIDE DEF tree
  <2>3. m \in Job /\ m.want = Null /\ m.path = j.path
    BY <1>1, <1>2, <2>1 DEF Job
  <2> HIDE DEF m
  <2>4. /\ Fits("treeScopes", m, tx[p], db) /\ "treeScopes" \in Locations
        /\ ~Adding("treeScopes", m) /\ ~Rereading("treeScopes", m)
    BY <1>2, <2>3 DEF Fits, Adding, Added, Pruning, Rereading, Locations
  <2> QED
    BY <2>2, <2>3, <2>4, ReadKeeps
<1> QED
  BY <1>3, <1>4, <1>5 DEF TreeEntries

LEMMA TreeScopesKeeps ==
    ASSUME IInv, NEW p \in Procs, TreeScopes(p) PROVE IInv' /\ db' = db
<1> DEFINE j == job[p]
           v == View(p)
<1>1. /\ db \in Database /\ v \in Database /\ Consistent(v)
      /\ Sees(v, db, tx[p]) /\ j \in Job
      /\ pc[p] = "treeScopes" /\ Fits("treeScopes", j, tx[p], db)
  BY StateOf DEF TreeScopes
<1>2. /\ tx[p].open /\ OnlyRemoved(tx[p], db)
      /\ j.want = Null /\ j.path \in Paths
  BY <1>1 DEF Fits, Pruning
<1>3. CASE Fail(p)
  BY <1>3, FailKeeps DEF Fail
<1>4. ASSUME NEW s \in j.scopes, CanDeleteScope(v, s),
             Statement(p, DeleteScope(v, s), {}),
             \/ Goto(p, "commit", j)
             \/ Goto(p, "treeScopes", [j EXCEPT !.scopes = @ \ {s}])
      PROVE  IInv' /\ db' = db
  <2> DEFINE w == DeleteScope(v, s)
  <2>1. PICK l \in {"commit", "treeScopes"},
             m \in {j, [j EXCEPT !.scopes = @ \ {s}]} : Goto(p, l, m)
    BY <1>4
  <2>2. m \in Job /\ m.want = Null /\ m.path = j.path
    BY <1>1, <1>2 DEF Job
  <2>3. /\ w.entries = v.entries /\ w.labels = v.labels /\ w.edges = v.edges
        /\ w.scopes \subseteq v.scopes
    BY <1>1 DEF DeleteScope, Database
  <2>4. Sound(w)
    BY <1>1, <1>4, DeleteScopeSound
  <2>5. Statement(p, w, {})
    BY <1>4
  <2> HIDE DEF w, v
  <2>6. References(v, w, {}) /\ KeysFree(p, v, w)
    BY <1>1, <2>3, RemovedScopes
  <2>7. Wrote(tx'[p], tx[p], v, w) /\ tx'[p].open /\ db' = db
    BY <1>2, <2>4, <2>5, InsideRows DEF IInv, Statement, Sound, v
  <2>8. OnlyRemoved(tx'[p], db)
    <3>1. PICK gone \in SUBSET Ids : gone = {}
      OBVIOUS
    <3>2. Prunes(v, w, gone)
      BY <2>3, <3>1 DEF Prunes
    <3> QED
      BY <1>1, <1>2, <2>7, <3>2, PrunesOn
  <2>9. /\ Fits(l, m, tx'[p], db) /\ l \in Locations
        /\ ~Adding(l, m) /\ ~Rereading(l, m)
    BY <1>2, <2>2, <2>7, <2>8
       DEF Fits, Adding, Added, Pruning, Rereading, Locations
  <2>10. /\ References(View(p), w, {}) /\ KeysFree(p, View(p), w)
         /\ w.entries = View(p).entries
    BY <2>3, <2>6 DEF v
  <2>11. PICK parents \in SUBSET ParentRows : parents = {}
    OBVIOUS
  <2> QED
    BY <1>2, <2>1, <2>2, <2>4, <2>5, <2>9, <2>10, <2>11, InsideKeeps
<1> QED
  BY <1>3, <1>4 DEF TreeScopes

-----------------------------------------------------------------------------
LEMMA InvariantStarts == Init => IInv
<1> SUFFICES ASSUME Init PROVE IInv
  OBVIOUS
<1>1. EmptyDatabase \in Database
  BY EmptyIsADatabase
<1>2. Sound(db) /\ db \in Database
  BY <1>1 DEF Init, Sound, Consistent, ScopesExist, ContentUnique,
              LabelsOwned, EdgesAnchored, Live, Present, EmptyDatabase
<1>3. NoTx \in Pending /\ NoTx.written = {}
  BY <1>2, EmptyTransaction DEF NoTx
<1>4. "idle" \in Locations /\ NoJob \in Job
  BY NoJobIsAJob DEF Locations
<1>5. TypeOK
  <2> HIDE DEF NoTx, NoJob
  <2> QED
    BY <1>2, <1>3, <1>4 DEF Init, TypeOK
<1>6. \A p \in Procs : tx[p] = NoTx /\ pc[p] = "idle" /\ job[p] = NoJob
  BY DEF Init
<1> HIDE DEF NoTx, NoJob
<1>7. TransactionsOK
  BY <1>2, <1>6, EmptyTransaction DEF TransactionsOK
<1>8. JobsOK
  BY <1>6, IdleFits DEF JobsOK
<1>9. UsedOK
  BY <1>3, <1>6 DEF UsedOK, Init, EmptyDatabase, Live
<1>10. FreshOK /\ KnowsOK
  BY <1>6 DEF FreshOK, KnowsOK, Adding, Rereading
<1> QED
  BY <1>2, <1>5, <1>7, <1>8, <1>9, <1>10 DEF IInv

\* The invariant is kept by every step.
LEMMA InvariantKept == IInv /\ [Next]_vars => IInv'
<1> SUFFICES ASSUME IInv, [Next]_vars PROVE IInv'
  OBVIOUS
<1>1. CASE UNCHANGED vars
  BY <1>1 DEF vars, IInv, TypeOK, TransactionsOK, JobsOK, UsedOK, FreshOK,
              KnowsOK, Unknown, Knows
<1>2. CASE Tick
  BY <1>2, TickKeeps
<1>3. ASSUME NEW p \in Procs,
             \/ EnsureScope(p) \/ ScopeCreate(p)
             \/ AddResolve(p) \/ Upsert(p) \/ Commit(p)
             \/ ClearLabels(p) \/ InsertLabels(p)
             \/ InsertLinks(p) \/ LinkGet(p) \/ Unlink(p)
      PROVE  IInv'
  BY <1>3, EnsureScopeKeeps, ScopeCreateKeeps, AddResolveKeeps, UpsertKeeps,
     CommitKeeps, ClearLabelsKeeps, InsertLabelsKeeps, InsertLinksKeeps,
     LinkGetKeeps, UnlinkKeeps
<1>4. ASSUME NEW p \in Procs,
             \/ UpdateGet(p) \/ UpdateRead(p) \/ UpdateTheRow(p)
             \/ DeleteGet(p) \/ DeleteTheRow(p)
             \/ GcExpired(p) \/ GcScopes(p)
             \/ ScopeDeleteCheck(p) \/ ScopeDeleteOne(p)
             \/ TreeList(p) \/ TreeEntries(p) \/ TreeScopes(p)
             \/ Crash(p)
      PROVE  IInv'
  BY <1>4, UpdateGetKeeps, UpdateReadKeeps, UpdateTheRowKeeps, DeleteGetKeeps,
     DeleteTheRowKeeps, GcExpiredKeeps, GcScopesKeeps, ScopeDeleteCheckKeeps,
     ScopeDeleteOneKeeps, TreeListKeeps, TreeEntriesKeeps, TreeScopesKeeps,
     FailKeeps DEF Crash
<1> QED
  BY <1>1, <1>2, <1>3, <1>4 DEF Next

LEMMA InvariantHolds == Spec => []IInv
BY InvariantStarts, InvariantKept, PTL DEF Spec

-----------------------------------------------------------------------------
(***************************************************************************)
(* Refinement: what becomes visible is, commit by commit, what the storage *)
(* contract allows.                                                        *)
(***************************************************************************)
\* The instance reads a database as KnownPostgres does.
LEMMA SameReadings ==
    ASSUME NEW d
    PROVE  /\ Store!Consistent(d) <=> Consistent(d)
           /\ Store!EmptyDatabase = EmptyDatabase
<1>1. Store!Consistent(d) <=> Consistent(d)
  BY DEF Consistent, ScopesExist, ContentUnique, LabelsOwned, EdgesAnchored,
         Live, Present,
         Store!Consistent, Store!ScopesExist, Store!ContentUnique,
         Store!LabelsOwned, Store!EdgesAnchored, Store!Live, Store!Present
<1>2. Store!EmptyDatabase = EmptyDatabase
  BY DEF EmptyDatabase, Store!EmptyDatabase
<1> QED
  BY <1>1, <1>2

LEMMA UntouchedIsSame ==
    ASSUME NEW i PROVE Store!Untouched(i) <=> SameEntry(db, db', i)
<1>1. /\ Store!LabelsOf(db, i) = LabelsOf(db, i)
      /\ Store!LabelsOf(db', i) = LabelsOf(db', i)
  BY DEF LabelsOf, Store!LabelsOf
<1> QED
  BY <1>1 DEF Store!Untouched, SameEntry

LEMMA CommitsAreSteps ==
    ASSUME db \in Database, Consistent(db'), Commits(db, db')
    PROVE  Store!Next
<1>1. Store!Consistent(db')
  BY SameReadings
<1>2. ASSUME NEW i \in Ids, Puts(db, db', i) PROVE Store!Put(i)
  BY <1>2, UntouchedIsSame
     DEF Puts, Store!Put, Live, Store!Live, Present, Store!Present,
         Prefixes, Store!Prefixes
<1>3. ASSUME NEW gone \in SUBSET Ids, Removes(db, db', gone)
      PROVE  Store!Remove(gone)
  BY <1>3, UntouchedIsSame
     DEF Removes, Store!Remove, Live, Store!Live, Present, Store!Present
<1>4. ASSUME Relinks(db, db') PROVE Store!ChangeEdges
  <2>1. ASSUME NEW e \in EdgeIds, Present(db, e), Present(db', e)
        PROVE  db'.edges[e] =
                 [db.edges[e] EXCEPT !.weight = db'.edges[e].weight]
    <3>1. db'.edges[e] = db.edges[e] /\ db.edges[e] \in Edge
      BY <1>4, <2>1 DEF Relinks, Present, Database
    <3> QED
      BY <3>1 DEF Edge
  <2> QED
    BY <1>4, <2>1, UntouchedIsSame
       DEF Relinks, Store!ChangeEdges, Present, Store!Present
<1>5. ASSUME Rescopes(db, db') PROVE Store!ChangeScopes
  BY <1>5, UntouchedIsSame DEF Rescopes, Store!ChangeScopes
<1> QED
  BY <1>1, <1>2, <1>3, <1>4, <1>5 DEF Commits, Store!Next

\* Inside a transaction nothing becomes visible; outside, the statement does.
LEMMA StatementCommits ==
    ASSUME IInv, NEW p \in Procs, NEW w, NEW parents,
           Statement(p, w, parents), Commits(View(p), w)
    PROVE  Commits(db, db')
<1>1. tx[p].open \/ tx[p] = NoTx
  BY StateOf DEF Fits, Pruning, Added
<1>2. CASE tx[p].open
  BY <1>2, SameCommits DEF Statement, Execute
<1>3. CASE tx[p] = NoTx
  <2>1. View(p) = db
    BY <1>3, StateOf
  <2>2. ~tx[p].open
    BY <1>3 DEF NoTx
  <2> QED
    BY <2>1, <2>2 DEF Statement, Execute
<1> QED
  BY <1>1, <1>2, <1>3

\* The transaction of an add puts its entry.
LEMMA AddCommits ==
    ASSUME IInv, NEW p \in Procs, Commit(p), job[p].want # Null
    PROVE  Puts(db, db', job[p].id)
<1> DEFINE j == job[p]
           i == j.id
           v == View(p)
           T == tx[p]
<1>1. /\ db \in Database /\ v \in Database /\ Sees(v, db, T)
      /\ pc[p] = "commit" /\ Fits("commit", j, T, db)
  BY StateOf DEF Commit
<1>2. /\ i \in Ids /\ j.want \in Row /\ j.want.scope = j.path
      /\ WroteScopes(T, j.path) /\ WroteRow(T, j, db)
  BY <1>1 DEF Fits, Added
<1>3. db' = v
  BY DEF Commit
<1> HIDE DEF v, T
<1>4. /\ v.entries[i] = T.image.entries[i] /\ Live(v, i)
      /\ v.entries[i].scope = j.path
      /\ Live(db, i) => /\ v.entries[i].version = db.entries[i].version + 1
                        /\ v.entries[i].created = db.entries[i].created
  <2>1. /\ EntryRow(i) \in T.written /\ Live(T.image, i)
        /\ v.entries[i] = T.image.entries[i]
    BY <1>1, <1>2 DEF WroteRow, WroteEntry, Sees
  <2>2. T.image.entries[i].scope = j.path
    <3>1. PICK x, y : T.image.entries[i] =
                        [j.want EXCEPT !.created = x, !.version = y]
      BY <1>2 DEF WroteRow
    <3> QED
      BY <1>2, <3>1 DEF Row
  <2> QED
    BY <1>2, <2>1, <2>2 DEF WroteRow, Live
<1>5. ASSUME NEW k \in Ids \ {i} PROVE SameEntry(db, v, k)
  <2>1. EntryRow(k) \notin T.written
    BY <1>2, <1>5 DEF WroteRow
  <2>2. \A l \in Labels : LabelRow(<<k, l>>) \notin T.written
    BY <1>2, <1>5 DEF WroteRow
  <2> QED
    BY <1>1, <2>1, <2>2 DEF Sees, SameEntry, LabelsOf
<1>6. \A e \in EdgeIds : \/ v.edges[e] = db.edges[e]
                         \/ ~Present(db, e) /\ v.edges[e].from = i
  BY <1>1, <1>2 DEF WroteRow, Sees
<1>7. /\ db.scopes \subseteq v.scopes
      /\ v.scopes \subseteq db.scopes \cup Prefixes(j.path)
  <2>1. v.scopes \subseteq Paths /\ db.scopes \subseteq Paths
    BY <1>1 DEF Database
  <2> QED
    BY <1>1, <1>2, <2>1 DEF WroteScopes, Sees
<1> QED
  BY <1>3, <1>4, <1>5, <1>6, <1>7 DEF Puts

\* The transaction of a recursive scope delete removes entries, with what
\* hangs on them, and scopes.
LEMMA TreeCommits ==
    ASSUME IInv, NEW p \in Procs, Commit(p), job[p].want = Null
    PROVE  \E gone \in SUBSET Ids : Removes(db, db', gone)
<1> DEFINE v == View(p)
           T == tx[p]
           gone == {i \in Ids : EntryRow(i) \in T.written}
<1>1. /\ db \in Database /\ v \in Database /\ Consistent(v)
      /\ Sees(v, db, T)
      /\ pc[p] = "commit" /\ Fits("commit", job[p], T, db)
  BY StateOf DEF Commit
<1>2. OnlyRemoved(T, db)
  BY <1>1 DEF Fits, Pruning
<1>3. db' = v
  BY DEF Commit
<1> HIDE DEF v, T
<1>4. \A i \in gone : ~Live(v, i)
  BY <1>1, <1>2 DEF OnlyRemoved, Sees, Live
<1>5. ASSUME NEW i \in Ids \ gone PROVE SameEntry(db, v, i)
  <2>1. EntryRow(i) \notin T.written
    BY <1>5
  <2>2. \A l \in Labels : LabelRow(<<i, l>>) \notin T.written
    BY <1>2, <2>1 DEF OnlyRemoved
  <2> QED
    BY <1>1, <2>1, <2>2 DEF Sees, SameEntry, LabelsOf
<1>6. ASSUME NEW e \in EdgeIds
      PROVE  v.edges[e] = IF /\ Present(db, e)
                             /\ \/ db.edges[e].from \in gone
                                \/ db.edges[e].to \in gone
                          THEN Null ELSE db.edges[e]
  <2>1. CASE EdgeRow(e) \in T.written
    <3>1. v.edges[e] = T.image.edges[e]
      BY <1>1, <2>1 DEF Sees
    <3>2. /\ v.edges[e] = Null /\ Present(db, e)
          /\ \/ EntryRow(db.edges[e].from) \in T.written
             \/ EntryRow(db.edges[e].to) \in T.written
      BY <1>2, <2>1, <3>1 DEF OnlyRemoved, Present
    <3>3. db.edges[e].from \in Ids /\ db.edges[e].to \in Ids
      BY <1>1, <3>2 DEF Database, Present, Edge
    <3> QED
      BY <3>2, <3>3
  <2>2. CASE EdgeRow(e) \notin T.written
    <3>1. v.edges[e] = db.edges[e]
      BY <1>1, <2>2 DEF Sees
    <3>2. Present(v, e) => /\ Live(v, v.edges[e].from)
                           /\ Live(v, v.edges[e].to)
      BY <1>1 DEF Consistent, EdgesAnchored
    <3> HIDE DEF gone
    <3> QED
      BY <1>4, <3>1, <3>2 DEF Present
  <2> QED
    BY <2>1, <2>2
<1>7. v.scopes \subseteq db.scopes
  <2>1. v.scopes \subseteq Paths
    BY <1>1 DEF Database
  <2> QED
    BY <1>1, <1>2, <2>1 DEF OnlyRemoved, Sees
<1>8. gone \in SUBSET Ids
  OBVIOUS
<1> HIDE DEF gone
<1>9. Removes(db, v, gone)
  BY <1>4, <1>5, <1>6, <1>7 DEF Removes
<1> QED
  BY <1>3, <1>8, <1>9

-----------------------------------------------------------------------------
\* add: its statements, and its COMMIT, which scope delete shares.
LEMMA AddStepsCommit ==
    ASSUME IInv, NEW p \in Procs,
           EnsureScope(p) \/ Upsert(p) \/ ClearLabels(p) \/ Commit(p)
    PROVE  Commits(db, db')
<1>1. View(p) \in Database /\ Consistent(View(p)) /\ job[p] \in Job
      /\ Fits(pc[p], job[p], tx[p], db)
  BY StateOf
<1>2. CASE EnsureScope(p)
  <2>1. Commits(View(p), InsertScope(View(p), NextPrefix(job[p])))
    BY <1>1, SetScopesCommits DEF InsertScope
  <2> QED
    BY <1>2, <2>1, StatementCommits DEF EnsureScope
<1>3. CASE Upsert(p)
  <2>1. tx[p].open
    BY <1>1, <1>3 DEF Upsert, Fits, Adding
  <2>2. db' = db
    BY <1>3, <2>1 DEF Upsert, Statement, Execute, Fail
  <2> QED
    BY <2>2, SameCommits
<1>4. CASE ClearLabels(p)
  <2>1. job[p].id \in Ids
    BY <1>1, <1>4 DEF ClearLabels, Fits, Added
  <2>2. Commits(View(p), DeleteLabels(View(p), job[p].id))
    BY <1>1, <2>1, DeleteLabelsCommits
  <2> QED
    BY <1>4, <2>2, StatementCommits DEF ClearLabels
<1>5. CASE Commit(p)
  <2>1. job[p].want # Null => job[p].id \in Ids
    BY <1>1, <1>5 DEF Commit, Fits, Added
  <2> QED
    BY <1>5, <2>1, AddCommits, TreeCommits DEF Commits
<1> QED
  BY <1>2, <1>3, <1>4, <1>5

LEMMA LabelsAndLinksCommit ==
    ASSUME IInv, NEW p \in Procs,
           InsertLabels(p) \/ InsertLinks(p) \/ Unlink(p)
    PROVE  Commits(db, db')
<1>1. /\ View(p) \in Database /\ Consistent(View(p)) /\ job[p] \in Job
      /\ db \in Database
      /\ Fits(pc[p], job[p], tx[p], db)
  BY StateOf
<1>2. Asks \/ Fail(p) => Commits(db, db')
  BY SameCommits DEF Asks, Fail
<1>3. CASE InsertLabels(p)
  <2>1. job[p].id \in Ids
    BY <1>1, <1>3 DEF InsertLabels, Fits, Added
  <2>2. ASSUME NEW l, CanInsertLabel(View(p), job[p].id, l)
        PROVE  Commits(View(p), InsertLabel(View(p), job[p].id, l))
    BY <1>1, <2>1, <2>2, InsertLabelCommits
  <2> QED
    BY <1>2, <1>3, <2>2, StatementCommits DEF InsertLabels
<1>4. CASE InsertLinks(p)
  <2>1. ASSUME NEW name, CanInsertEdges(View(p), job[p].id, name)
        PROVE  Commits(View(p), InsertEdges(View(p), job[p].id, name, Null))
    BY <1>1, <2>1, InsertEdgesCommits
  <2> QED
    BY <1>2, <1>4, <2>1, StatementCommits DEF InsertLinks
<1>5. CASE Unlink(p)
  <2>1. \A e \in EdgeIds : Commits(db, DeleteEdge(db, e))
    BY <1>1, DeleteEdgeCommits
  <2>2. View(p) = db
    BY <1>5, StateOf, IdleHasNoTransaction DEF Unlink, Starts
  <2> QED
    BY <1>5, <2>1, <2>2, StatementCommits DEF Unlink
<1> QED
  BY <1>3, <1>4, <1>5

LEMMA RestCommits ==
    ASSUME IInv, NEW p \in Procs,
           \/ UpdateTheRow(p) \/ DeleteTheRow(p) \/ GcExpired(p)
           \/ GcScopes(p) \/ ScopeDeleteOne(p)
           \/ TreeEntries(p) \/ TreeScopes(p)
    PROVE  Commits(db, db')
<1>1. db \in Database
  BY StateOf
<1>2. CASE UpdateTheRow(p)
  BY <1>1, <1>2, UpdateTheRowKeeps, UpdateRowCommits, SameCommits
<1>3. \A gone \in SUBSET Ids : Commits(db, DeleteEntries(db, gone))
  BY <1>1, DeleteEntriesCommits
<1>4. CASE DeleteTheRow(p)
  <2>1. {job[p].id} \cap LiveIds \in SUBSET Ids
    BY DEF LiveIds
  <2> QED
    BY <1>3, <1>4, <2>1, DeleteTheRowKeeps
<1>5. CASE GcExpired(p)
  <2>1. Expired(db, now) \in SUBSET Ids
    BY DEF Expired
  <2> QED
    BY <1>3, <1>5, <2>1, GcExpiredKeeps
<1>6. \A S : Commits(db, [db EXCEPT !.scopes = S])
  BY <1>1, SetScopesCommits
<1>7. CASE GcScopes(p)
  BY <1>6, <1>7, GcScopesKeeps, SameCommits DEF DeleteEmpty
<1>8. CASE ScopeDeleteOne(p)
  BY <1>6, <1>8, ScopeDeleteOneKeeps, SameCommits DEF DeleteScope
<1>9. CASE TreeEntries(p) \/ TreeScopes(p)
  BY <1>9, TreeEntriesKeeps, TreeScopesKeeps, SameCommits
<1> QED
  BY <1>2, <1>4, <1>5, <1>7, <1>8, <1>9

\* A step of any process is a commit of the contract, or changes nothing.
LEMMA NextCommits ==
    ASSUME IInv, [Next]_vars PROVE Commits(db, db')
<1>1. CASE Tick \/ UNCHANGED vars
  BY <1>1, SameCommits DEF Tick, vars
<1>2. ASSUME NEW p \in Procs,
             \/ ScopeCreate(p) \/ AddResolve(p) \/ LinkGet(p)
             \/ UpdateGet(p) \/ UpdateRead(p) \/ DeleteGet(p)
             \/ ScopeDeleteCheck(p) \/ TreeList(p) \/ Crash(p)
      PROVE  Commits(db, db')
  BY <1>2, SameCommits
     DEF ScopeCreate, AddResolve, LinkGet, UpdateGet, UpdateRead, DeleteGet,
         ScopeDeleteCheck, TreeList, Crash, Fail, Asks
<1> QED
  BY <1>1, <1>2, AddStepsCommit, LabelsAndLinksCommit, RestCommits DEF Next

-----------------------------------------------------------------------------
(***************************************************************************)
(* The theorems.                                                           *)
(***************************************************************************)
\* Every variable keeps its type, whatever the processes do (storage.Backend
\* as storage/postgres implements it, and the commands of cmd/ upon it).
THEOREM PostgresIsTyped == Spec => []TypeOK
BY InvariantHolds, PTL DEF IInv

\* No commit leaves a dangling row or a second row for a text in a scope,
\* though READ COMMITTED checks each statement against what was committed
\* when it ran, and not against what the open transactions still hold
\* (storage/postgres: the foreign keys and the UNIQUE index of the schema).
THEOREM PostgresIsConsistent == Spec => []Consistent(db)
<1>1. IInv => Consistent(db)
  BY DEF IInv, Sound
<1> QED
  BY <1>1, InvariantHolds, PTL

\* Transactions and single statements of any number of processes,
\* interleaved and killed anywhere, make visible only what the storage
\* contract allows (storage/storage.go Backend).
THEOREM PostgresImplementsStore == Spec => ImplementsStore
<1>1. Init => Store!Init
  BY SameReadings DEF Init, Store!Init
<1>2. IInv /\ [Next]_vars => [Store!Next]_db
  <2> SUFFICES ASSUME IInv, [Next]_vars PROVE [Store!Next]_db
    OBVIOUS
  <2>1. IInv'
    BY InvariantKept
  <2>2. db \in Database /\ Consistent(db')
    BY <2>1 DEF IInv, Sound
  <2> QED
    BY <2>2, NextCommits, CommitsAreSteps
<1> QED
  BY <1>1, <1>2, InvariantHolds, PTL DEF Spec, ImplementsStore, Store!Spec

\* Only the process that takes a step changes its location.
LEMMA OthersStayWhereTheyAre ==
    ASSUME IInv, NEW p \in Procs, NEW q \in Procs \ {p}, pc'[q] # pc[q]
    PROVE  /\ ~(EnsureScope(p) \/ ScopeCreate(p) \/ AddResolve(p))
           /\ ~(Upsert(p) \/ Commit(p) \/ ClearLabels(p) \/ InsertLabels(p))
           /\ ~(InsertLinks(p) \/ LinkGet(p) \/ Unlink(p))
           /\ ~(UpdateGet(p) \/ UpdateRead(p) \/ UpdateTheRow(p))
           /\ ~(DeleteGet(p) \/ DeleteTheRow(p) \/ GcExpired(p) \/ GcScopes(p))
           /\ ~(ScopeDeleteCheck(p) \/ ScopeDeleteOne(p))
           /\ ~(TreeList(p) \/ TreeEntries(p) \/ TreeScopes(p) \/ Crash(p))
<1>1. pc' # pc
  OBVIOUS
<1>2. \A l, j : ~Goto(p, l, j)
  BY DEF Goto, IInv, TypeOK
<1>3. ~Exit(p) /\ ~Fail(p)
  BY <1>2 DEF Exit, Fail
<1>4. ~(EnsureScope(p) \/ ScopeCreate(p) \/ AddResolve(p))
  <2>1. ~EnsureScope(p)
    BY <1>2, <1>3 DEF EnsureScope
  <2>2. ~ScopeCreate(p)
    BY <1>2, <1>3 DEF ScopeCreate
  <2>3. ~AddResolve(p)
    BY <1>2, <1>3 DEF AddResolve
  <2> QED
    BY <2>1, <2>2, <2>3
<1>5. ~(Upsert(p) \/ Commit(p) \/ ClearLabels(p) \/ InsertLabels(p))
  BY <1>2, <1>3 DEF Upsert, Commit, ClearLabels, InsertLabels, AfterLabels
<1>6. ~(InsertLinks(p) \/ LinkGet(p) \/ Unlink(p))
  BY <1>1, <1>2, <1>3 DEF InsertLinks, LinkGet, Unlink
<1>7. ~(UpdateGet(p) \/ UpdateRead(p) \/ UpdateTheRow(p))
  BY <1>2, <1>3 DEF UpdateGet, UpdateRead, UpdateTheRow
<1>8. ~(DeleteGet(p) \/ DeleteTheRow(p) \/ GcExpired(p) \/ GcScopes(p))
  BY <1>2, <1>3 DEF DeleteGet, DeleteTheRow, GcExpired, GcScopes
<1>9. ~(ScopeDeleteCheck(p) \/ ScopeDeleteOne(p))
  BY <1>2, <1>3 DEF ScopeDeleteCheck, ScopeDeleteOne
<1>10. ~(TreeList(p) \/ TreeEntries(p) \/ TreeScopes(p) \/ Crash(p))
  BY <1>2, <1>3 DEF TreeList, TreeEntries, TreeScopes, Crash
<1> QED
  BY <1>4, <1>5, <1>6, <1>7, <1>8, <1>9, <1>10

\* What a process at its UPDATE, or at its COMMIT, does when it moves on.
LEMMA WhoMoves ==
    ASSUME IInv, [Next]_vars, NEW q \in Procs, pc'[q] # pc[q]
    PROVE  /\ pc[q] = "updateRow" => UpdateTheRow(q) \/ Crash(q)
           /\ pc[q] = "commit" => Commit(q) \/ Crash(q)
<1>1. ~(UNCHANGED vars) /\ ~Tick
  BY DEF vars, Tick
<1>2. \/ EnsureScope(q) \/ ScopeCreate(q)
      \/ AddResolve(q) \/ Upsert(q) \/ Commit(q)
      \/ ClearLabels(q) \/ InsertLabels(q)
      \/ InsertLinks(q) \/ LinkGet(q) \/ Unlink(q)
      \/ UpdateGet(q) \/ UpdateRead(q) \/ UpdateTheRow(q)
      \/ DeleteGet(q) \/ DeleteTheRow(q) \/ GcExpired(q) \/ GcScopes(q)
      \/ ScopeDeleteCheck(q) \/ ScopeDeleteOne(q)
      \/ TreeList(q) \/ TreeEntries(q) \/ TreeScopes(q)
      \/ Crash(q)
  BY <1>1, OthersStayWhereTheyAre DEF Next
<1>3. pc[q] \in {"updateRow", "commit"} =>
        Commit(q) \/ UpdateTheRow(q) \/ Crash(q)
  <2> SUFFICES ASSUME pc[q] \in {"updateRow", "commit"}
               PROVE  Commit(q) \/ UpdateTheRow(q) \/ Crash(q)
    OBVIOUS
  <2>1. pc[q] # "idle" /\ \A c : ~Starts(q, c)
    BY DEF Starts
  <2>2. ~(ScopeCreate(q) \/ AddResolve(q) \/ LinkGet(q) \/ Unlink(q)
            \/ UpdateGet(q) \/ DeleteGet(q) \/ GcExpired(q)
            \/ ScopeDeleteCheck(q))
    BY <2>1 DEF ScopeCreate, AddResolve, LinkGet, Unlink, UpdateGet,
                DeleteGet, GcExpired, ScopeDeleteCheck
  <2>3. ~(EnsureScope(q) \/ Upsert(q) \/ ClearLabels(q) \/ InsertLabels(q)
            \/ InsertLinks(q) \/ UpdateRead(q))
    BY DEF EnsureScope, Upsert, ClearLabels, InsertLabels, InsertLinks,
           UpdateRead
  <2>4. ~(DeleteTheRow(q) \/ GcScopes(q) \/ ScopeDeleteOne(q)
            \/ TreeList(q) \/ TreeEntries(q) \/ TreeScopes(q))
    BY DEF DeleteTheRow, GcScopes, ScopeDeleteOne, TreeList, TreeEntries,
           TreeScopes
  <2> QED
    BY <1>2, <2>2, <2>3, <2>4
<1> QED
  BY <1>3 DEF Commit, UpdateTheRow

\* No lost update on PostgreSQL: at the version it read, the row is the one
\* it read, because every writer of a row raises its version, an identifier
\* whose row was deleted is not given to another one, and a row that an open
\* transaction holds is waited for (storage/postgres/entry.go Update).
THEOREM NoLostUpdateOnPostgres == Spec => UpdateReplacesWhatItRead
<1>1. IInv /\ [Next]_vars =>
        \A p \in Procs :
          pc[p] = "updateRow" /\ pc'[p] = "updateClear"
            => db.entries[job[p].id] = job[p].base
  <2> SUFFICES ASSUME IInv, [Next]_vars, NEW p \in Procs,
                      pc[p] = "updateRow", pc'[p] = "updateClear"
               PROVE  db.entries[job[p].id] = job[p].base
    OBVIOUS
  <2>1. UpdateTheRow(p) \/ Crash(p)
    BY WhoMoves
  <2>2. ~Fail(p)
    BY DEF Fail, Exit, Goto, IInv, TypeOK
  <2> QED
    BY <2>1, <2>2, UpdateTheRowKeeps DEF Crash
<1>2. IInv /\ [Next]_vars =>
        [\A p \in Procs :
          pc[p] = "updateRow" /\ pc'[p] = "updateClear"
            => db.entries[job[p].id] = job[p].base]_vars
  BY <1>1
<1> QED
  BY <1>2, InvariantHolds, PTL DEF Spec, UpdateReplacesWhatItRead

\* A row of which only the version and created_at were changed.
LEMMA RowRestored ==
    ASSUME NEW row \in Row, NEW r \in Row,
           r = [row EXCEPT !.created = r.created, !.version = r.version]
    PROVE  [r EXCEPT !.version = row.version, !.created = row.created] = row
<1> DEFINE z == [r EXCEPT !.version = row.version, !.created = row.created]
<1>1. /\ r.content = row.content /\ r.scope = row.scope
      /\ r.title = row.title /\ r.expires = row.expires
  BY DEF Row
<1>2. /\ z \in Row
      /\ z.version = row.version /\ z.created = row.created
      /\ z.content = r.content /\ z.scope = r.scope
      /\ z.title = r.title /\ z.expires = r.expires
  BY DEF Row
<1> HIDE DEF z
<1>3. \A a \in Row : a = [content |-> a.content, scope |-> a.scope,
                         title |-> a.title, created |-> a.created,
                         expires |-> a.expires, version |-> a.version]
  BY DEF Row
<1>4. z = row
  BY <1>1, <1>2, <1>3
<1> QED
  BY <1>4 DEF z

\* An add that commits leaves its row and all its labels behind: nobody can
\* take from under its transaction what it wrote, or what it refers to
\* (storage/postgres/entry.go CreateOrUpdate, cmd/add.go).
THEOREM AddIsWholeOnPostgres == Spec => AddLandsWhole
<1>1. ASSUME IInv, [Next]_vars, NEW p \in Procs,
             pc[p] = "commit", pc'[p] = "idle",
             job[p].want # Null, db' # db
      PROVE  /\ Live(db', job[p].id)
             /\ job[p].labels \subseteq LabelsOf(db', job[p].id)
             /\ [db'.entries[job[p].id] EXCEPT
                   !.version = job[p].want.version,
                   !.created = job[p].want.created] = job[p].want
  <2> DEFINE j == job[p]
             i == j.id
             v == View(p)
             T == tx[p]
  <2>1. Commit(p)
    <3>1. Commit(p) \/ Crash(p)
      BY <1>1, WhoMoves
    <3> QED
      BY <1>1, <3>1 DEF Crash, Fail
  <2>2. db' = v
    BY <2>1 DEF Commit
  <2>3. /\ Sees(v, db, T) /\ j \in Job
        /\ Fits("commit", j, T, db)
    BY <1>1, StateOf
  <2> HIDE DEF v, T
  <2>4. /\ i \in Ids /\ j.want \in Row
        /\ WroteRow(T, j, db) /\ WroteLabels(T, j) /\ j.todo = {}
    BY <1>1, <2>3 DEF Fits, Added
  <2>5. /\ v.entries[i] = T.image.entries[i] /\ Live(v, i)
    BY <2>3, <2>4 DEF WroteRow, WroteEntry, Sees, Live
  <2>6. i \in Ids /\ j.labels \subseteq Labels
    BY <2>3, <2>4 DEF Job
  <2>7. \A l \in j.labels : <<i, l>> \in v.labels
    <3>1. \A l \in j.labels : /\ LabelRow(<<i, l>>) \in T.written
                              /\ <<i, l>> \in T.image.labels
      BY <2>4 DEF WroteLabels
    <3> QED
      BY <2>3, <3>1 DEF Sees
  <2>8. j.labels \subseteq LabelsOf(v, i)
    BY <2>6, <2>7 DEF LabelsOf
  <2>9. /\ v.entries[i] = [j.want EXCEPT !.created = v.entries[i].created,
                                       !.version = v.entries[i].version]
        /\ v.entries[i] \in Row
    BY <2>3, <2>4, <2>5 DEF WroteRow, Sees, Database, Live
  <2>10. [v.entries[i] EXCEPT !.version = j.want.version,
                              !.created = j.want.created] = j.want
    BY <2>4, <2>9, RowRestored
  <2> QED
    BY <2>2, <2>5, <2>8, <2>10
<1>2. IInv /\ [Next]_vars =>
        [\A p \in Procs :
           /\ pc[p] = "commit" /\ pc'[p] = "idle"
           /\ job[p].want # Null /\ db' # db
           => /\ Live(db', job[p].id)
              /\ job[p].labels \subseteq LabelsOf(db', job[p].id)
              /\ [db'.entries[job[p].id] EXCEPT
                    !.version = job[p].want.version,
                    !.created = job[p].want.created] = job[p].want]_vars
  BY <1>1
<1> QED
  BY <1>2, InvariantHolds, PTL DEF Spec, AddLandsWhole
=============================================================================
