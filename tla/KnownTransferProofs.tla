------------------------ MODULE KnownTransferProofs ------------------------
(***************************************************************************)
(* What export, import and batch promise, proved of KnownTransfer for      *)
(* every value of its constants.                                           *)
(*                                                                         *)
(* A transfer remembers what it read; the invariant relates this memory to *)
(* the databases.  The lines of an export are, as long as nobody writes,   *)
(* what the database holds.  The transaction of an import or a batch has   *)
(* done the first k lines and has the others before it; that the k lines   *)
(* stay done needs that no two lines of a file have an id or a text in     *)
(* common, which the database they were exported from provides.            *)
(***************************************************************************)
EXTENDS KnownTransfer, KnownDBProofs, FiniteSetTheorems

SameText(l, m) == l.row.content = m.row.content /\ l.row.scope = m.row.scope

Differ(l, m) == l.id # m.id /\ ~SameText(l, m)

HoldersOf(d, l) == Holders(d, l.row.content, l.row.scope)

\* Lines as they come out of a database: of entries that were there, each
\* with its own outgoing edges.
TidyLine(l, u) ==
    /\ l.id \in u
    /\ \A e \in DOMAIN l.edges : /\ l.edges[e].from = l.id
                                 /\ l.edges[e].to # l.id

Tidy(q, u) ==
    /\ \A n \in DOMAIN q : TidyLine(q[n], u)
    /\ \A m, n \in DOMAIN q : m # n => Differ(q[m], q[n])

LiveWithin(d, u) == \A i \in Ids : Live(d, i) => i \in u

-----------------------------------------------------------------------------
(***************************************************************************)
(* An export, at location l, with memory j.                                *)
(***************************************************************************)
Listed(d, line) == Live(d, line.id) /\ d.entries[line.id] = line.row

Labelled(d, line) == line.labels = LabelsOf(d, line.id)

Linked(d, line) == line.edges = [e \in EdgesFrom(d, line.id) |-> d.edges[e]]

Snapshot(l, j, d) ==
    /\ \A n \in DOMAIN j.lines : /\ Listed(d, j.lines[n])
                                 /\ Labelled(d, j.lines[n])
                                 /\ Linked(d, j.lines[n])
    /\ \A n \in DOMAIN j.todo :
         /\ Listed(d, j.todo[n])
         /\ l = "export" => Labelled(d, j.todo[n])
    /\ \A i \in Ids : Live(d, i) =>
         \/ \E n \in DOMAIN j.lines : j.lines[n].id = i
         \/ \E n \in DOMAIN j.todo : j.todo[n].id = i

ExportAt(l, j, d, u, w) ==
    /\ j.site \in Sites
    /\ j.since <= w
    /\ Tidy(j.lines, u)
    /\ Tidy(j.todo, u)
    /\ \A m \in DOMAIN j.lines, n \in DOMAIN j.todo :
         Differ(j.lines[m], j.todo[n])
    /\ j.since = w => Snapshot(l, j, d)

-----------------------------------------------------------------------------
(***************************************************************************)
(* A transaction that has k lines of q behind it.                          *)
(***************************************************************************)
Ahead(q, todo, k) == /\ Len(q) = k + Len(todo)
                     /\ \A n \in 1..Len(todo) : todo[n] = q[k + n]

Brought(w, line) ==
    /\ HoldersOf(w, line) # {}
    /\ \A i \in HoldersOf(w, line) :
         /\ w.entries[i].title = line.row.title
         /\ line.labels # {} => LabelsOf(w, i) = line.labels

EntriesDone(w, f, m) == \A n \in 1..m : Brought(w, f[n])

\* An edge is there, or an end of it is missing, or its target was not there
\* when its turn came: neither in d, where the import began, nor in a line.
EdgeDone(w, d, f, n, e) ==
    \/ Present(w, e)
    \/ ~Live(w, f[n].edges[e].from)
    \/ ~Live(w, f[n].edges[e].to)
    \/ /\ ~Live(d, f[n].edges[e].to)
       /\ \A m \in 1..n : f[m].id # f[n].edges[e].to

EdgesDone(w, d, f, k) ==
    \A n \in 1..k : \A e \in DOMAIN f[n].edges : EdgeDone(w, d, f, n, e)

AllEdges(w, f, k) ==
    \A n \in 1..k : \A e \in DOMAIN f[n].edges :
        w.edges[e] = f[n].edges[e]

\* An import of f with the entries of m lines and the edges of k.
ImportAt(j, f, d, u, k, m) ==
    /\ j.site \in Sites
    /\ Ahead(f, j.todo, k)
    /\ Sound(j.work)
    /\ LiveWithin(j.work, u)
    /\ \A i \in Ids : Live(d, i) => Live(j.work, i)
    /\ EntriesDone(j.work, f, m)
    /\ EdgesDone(j.work, d, f, k)
    /\ Backend[j.site] = "postgres" /\ ~j.aborted => AllEdges(j.work, f, k)

\* A line of q that is alone with its text has its labels in the database.
Written(w, q, l) ==
    \E i \in HoldersOf(w, l) :
        (\A n \in DOMAIN q : SameText(q[n], l) => q[n] = l)
          => l.labels \subseteq LabelsOf(w, i)

BatchAt(j, u, k) ==
    /\ j.site \in Sites
    /\ Ahead(j.lines, j.todo, k)
    /\ Sound(j.work)
    /\ LiveWithin(j.work, u)
    /\ \A n \in DOMAIN j.lines : j.lines[n].id \in u
    /\ \A m, n \in DOMAIN j.lines : m # n => j.lines[m].id # j.lines[n].id
    /\ \A n \in DOMAIN j.todo : ~Live(j.work, j.todo[n].id)
    /\ j.failed # {} => j.aborted
    /\ \A n \in 1..k : j.lines[n] \in j.failed
                         \/ Written(j.work, j.lines, j.lines[n])

-----------------------------------------------------------------------------
JobOK(l, j, f, b, u, w) ==
    /\ l \in {"exportLabels", "export"} => ExportAt(l, j, b[j.site], u, w)
    /\ l = "import" => \E k \in Nat : ImportAt(j, f, b[j.site], u, k, k)
    /\ l = "importEdges" =>
         /\ j.todo # <<>>
         /\ \E k \in Nat : ImportAt(j, f, b[j.site], u, k, k + 1)
    /\ l = "batch" => \E k \in Nat : BatchAt(j, u, k)

SitesOK(b, u) == \A s \in Sites : Sound(b[s]) /\ LiveWithin(b[s], u)

IInv == /\ TypeOK
        /\ SitesOK(db, used)
        /\ Tidy(file, used)
        /\ JobOK(pc, job, file, db, used, writes)

-----------------------------------------------------------------------------
(***************************************************************************)
(* Sequences, lines and the statements that a transaction is built from.   *)
(***************************************************************************)
LEMMA HeadAndTail ==
    ASSUME NEW S, NEW q \in Seq(S), q # <<>>
    PROVE  /\ Len(q) \in Nat \ {0}
           /\ Head(q) = q[1] /\ Head(q) \in S
           /\ Tail(q) \in Seq(S)
           /\ Len(Tail(q)) = Len(q) - 1
           /\ \A n \in 1..Len(Tail(q)) : Tail(q)[n] = q[n + 1]
<1>1. Len(q) \in Nat \ {0}
  OBVIOUS
<1>2. Head(q) = q[1] /\ Head(q) \in S
  BY <1>1
<1>3. /\ Tail(q) \in Seq(S)
      /\ Len(Tail(q)) = Len(q) - 1
  BY <1>1
<1>4. \A n \in 1..Len(Tail(q)) : Tail(q)[n] = q[n + 1]
  BY <1>1, <1>3
<1> QED
  BY <1>1, <1>2, <1>3, <1>4

\* The line after k others is the first that is left, and then k + 1 are done.
LEMMA AheadMoves ==
    ASSUME NEW S, NEW q \in Seq(S), NEW todo \in Seq(S), NEW k \in Nat,
           Ahead(q, todo, k), todo # <<>>
    PROVE  /\ k + 1 \in DOMAIN q
           /\ Head(todo) = q[k + 1]
           /\ Ahead(q, Tail(todo), k + 1)
<1>1. /\ Len(todo) \in Nat \ {0}
      /\ Head(todo) = todo[1]
      /\ Len(Tail(todo)) = Len(todo) - 1
      /\ \A n \in 1..Len(Tail(todo)) : Tail(todo)[n] = todo[n + 1]
  BY HeadAndTail
<1>2. /\ Len(q) = k + Len(todo)
      /\ \A n \in 1..Len(todo) : todo[n] = q[k + n]
  BY DEF Ahead
<1>3. Head(todo) = q[k + 1] /\ k + 1 \in DOMAIN q
  BY <1>1, <1>2
<1>4. Len(q) = (k + 1) + Len(Tail(todo))
  BY <1>1, <1>2
<1>5. ASSUME NEW n \in 1..Len(Tail(todo))
      PROVE  Tail(todo)[n] = q[(k + 1) + n]
  <2>1. n + 1 \in 1..Len(todo) /\ Tail(todo)[n] = todo[n + 1]
    BY <1>1
  <2>2. k + (n + 1) = (k + 1) + n
    OBVIOUS
  <2> QED
    BY <1>2, <2>1, <2>2
<1> QED
  BY <1>3, <1>4, <1>5 DEF Ahead

LEMMA AllBehind ==
    ASSUME NEW S, NEW q \in Seq(S), NEW k \in Nat, Ahead(q, <<>>, k)
    PROVE  1..k = DOMAIN q
BY DEF Ahead

LEMMA AheadStarts ==
    ASSUME NEW S, NEW q \in Seq(S)
    PROVE  Ahead(q, q, 0)
BY DEF Ahead

\* The lines of a file stay tidy when more ids are drawn.
LEMMA TidyStays ==
    ASSUME NEW q, NEW u, NEW v, u \subseteq v, Tidy(q, u)
    PROVE  Tidy(q, v)
BY DEF Tidy, TidyLine

\* What is left of tidy lines is tidy.
LEMMA TidyTail ==
    ASSUME NEW S, NEW q \in Seq(S), NEW u, q # <<>>, Tidy(q, u)
    PROVE  /\ Tidy(Tail(q), u)
           /\ \A n \in DOMAIN Tail(q) : Differ(Head(q), Tail(q)[n])
<1>1. /\ Len(q) \in Nat \ {0}
      /\ Head(q) = q[1]
      /\ Tail(q) \in Seq(S)
      /\ Len(Tail(q)) = Len(q) - 1
      /\ \A n \in 1..Len(Tail(q)) : Tail(q)[n] = q[n + 1]
  BY HeadAndTail
<1>2. DOMAIN q = 1..Len(q) /\ DOMAIN Tail(q) = 1..Len(Tail(q))
  BY <1>1
<1>3. \A n \in DOMAIN Tail(q) : n + 1 \in DOMAIN q /\ n + 1 # 1
  BY <1>1, <1>2
<1>4. 1 \in DOMAIN q
  BY <1>1, <1>2
<1>5. \A m, n \in DOMAIN Tail(q) : m # n => m + 1 # n + 1
  BY <1>2
<1> QED
  BY <1>1, <1>2, <1>3, <1>4, <1>5 DEF Tidy

\* An upsert writes one row, where its text is or under the new id, and
\* leaves every other row, its labels and the edges alone.
Upserts(d, v, i, row, ls, t) ==
    /\ Sound(v)
    /\ t \in Ids
    /\ Live(d, t) \/ t = i
    /\ Holders(v, row.content, row.scope) = {t}
    /\ v.entries[t].title = row.title
    /\ ls # {} => LabelsOf(v, t) = ls
    /\ ls \subseteq LabelsOf(v, t)
    /\ \A j \in Ids : Live(v, j) <=> Live(d, j) \/ j = t
    /\ \A j \in Ids \ {t} : /\ v.entries[j] = d.entries[j]
                            /\ LabelsOf(v, j) = LabelsOf(d, j)
    /\ \A c, s : c # row.content \/ s # row.scope =>
         Holders(v, c, s) = Holders(d, c, s) /\ t \notin Holders(v, c, s)
    /\ v.edges = d.edges

LEMMA CreateOrUpdateUpserts ==
    ASSUME NEW d, Sound(d), NEW i \in Ids, NEW row \in Row,
           NEW ls \in SUBSET Labels, CanUpsert(d, i, row)
    PROVE  \E t : Upserts(d, CreateOrUpdate(d, i, row, ls), i, row, ls, t)
<1> DEFINE t == UpsertTarget(d, i, row)
           r == UpsertRow(d, i, row)
           v == CreateOrUpdate(d, i, row, ls)
<1>1. d \in Database /\ Consistent(d)
  BY DEF Sound
<1>2. /\ t \in Ids
      /\ Holders(d, row.content, row.scope) \subseteq {t}
      /\ Live(d, t) => t \in Holders(d, row.content, row.scope)
      /\ r \in Row
      /\ r.content = row.content
      /\ r.scope = row.scope
  BY <1>1, UpsertTargetFacts
<1>3. Live(d, t) \/ t = i
  BY DEF UpsertTarget, Holders
<1>4. r.title = row.title
  BY DEF UpsertRow, Row
<1>5. /\ Sound(v)
      /\ v.entries = [d.entries EXCEPT ![t] = r]
      /\ Live(v, t)
      /\ v.edges = d.edges
  BY <1>1, CreateOrUpdateSound
<1>6. /\ \A j \in Ids \ {t} : LabelsOf(v, j) = LabelsOf(d, j)
      /\ LabelsOf(v, t) = IF ls = {} THEN LabelsOf(d, t) ELSE ls
  BY <1>1, CreateOrUpdateShape
<1> HIDE DEF t, r, v
<1>7. /\ v.entries[t] = r
      /\ \A j \in Ids \ {t} : v.entries[j] = d.entries[j]
  BY <1>1, <1>2, <1>5 DEF Database
<1>8. \A j \in Ids : Live(v, j) <=> Live(d, j) \/ j = t
  BY <1>5, <1>7 DEF Live
<1>9. Holders(v, row.content, row.scope) = {t}
  BY <1>2, <1>5, <1>7 DEF Holders, Live
<1>10. ASSUME NEW c, NEW s, c # row.content \/ s # row.scope
       PROVE  Holders(v, c, s) = Holders(d, c, s) /\ t \notin Holders(v, c, s)
  <2>1. t \notin Holders(v, c, s)
    BY <1>2, <1>7, <1>10 DEF Holders
  <2>2. t \notin Holders(d, c, s)
    BY <1>2, <1>10 DEF Holders
  <2>3. \A j \in Ids \ {t} : j \in Holders(v, c, s) <=> j \in Holders(d, c, s)
    BY <1>7 DEF Holders, Live
  <2>4. Holders(v, c, s) \subseteq Ids /\ Holders(d, c, s) \subseteq Ids
    BY DEF Holders
  <2> QED
    BY <2>1, <2>2, <2>3, <2>4
<1>11. /\ ls # {} => LabelsOf(v, t) = ls
       /\ ls \subseteq LabelsOf(v, t)
  BY <1>6
<1>12. v.entries[t].title = row.title
  BY <1>4, <1>7 DEF r
<1>13. Upserts(d, v, i, row, ls, t)
  BY <1>2, <1>3, <1>5, <1>6, <1>7, <1>8, <1>9, <1>10, <1>11, <1>12 DEF Upserts
<1> QED
  BY <1>13 DEF v

\* What a refused label leaves behind is the upsert with fewer labels.
LEMMA HalfWrittenUpserts ==
    ASSUME NEW d, Sound(d), NEW line \in Line, NEW w \in HalfWritten(d, line),
           CanUpsert(d, line.id, line.row)
    PROVE  \E t, ls : Upserts(d, w, line.id, line.row, ls, t)
<1>1. PICK ls \in (SUBSET line.labels) \ {{}} :
        w = SaveLabels(CreateOrUpdate(d, line.id, line.row, {}),
                       UpsertTarget(d, line.id, line.row), ls)
  BY DEF HalfWritten
<1>2. w = CreateOrUpdate(d, line.id, line.row, ls)
  BY <1>1 DEF CreateOrUpdate
<1>3. line.id \in Ids /\ line.row \in Row /\ ls \in SUBSET Labels
  BY <1>1 DEF Line
<1> QED
  BY <1>2, <1>3, CreateOrUpdateUpserts

\* Restoring edges adds those that can be, and touches nothing else.
LEMMA RestoreEdgesSound ==
    ASSUME NEW d, Sound(d), NEW line \in Line,
           \A e \in DOMAIN line.edges : line.edges[e].from # line.edges[e].to
    PROVE  LET v == RestoreEdges(d, line.edges)
           IN  /\ Sound(v)
               /\ v.entries = d.entries /\ v.labels = d.labels
               /\ \A e \in EdgeIds : v.edges[e] =
                    IF /\ e \in DOMAIN line.edges
                       /\ CanRestore(d, e, line.edges[e])
                    THEN line.edges[e] ELSE d.edges[e]
               /\ \A e \in EdgeIds : Present(d, e) => v.edges[e] = d.edges[e]
<1> DEFINE E == [e \in EdgeIds |->
                   IF e \in DOMAIN line.edges /\ CanRestore(d, e, line.edges[e])
                   THEN line.edges[e] ELSE d.edges[e]]
           v == RestoreEdges(d, line.edges)
<1>1. d \in Database /\ Consistent(d)
  BY DEF Sound
<1>2. /\ v = [d EXCEPT !.edges = E]
      /\ v.edges = E /\ v.entries = d.entries /\ v.labels = d.labels
  BY <1>1 DEF RestoreEdges, Database
<1>3. \A e \in DOMAIN line.edges : e \in EdgeIds /\ line.edges[e] \in Edge
  BY DEF Line, EdgeLine
<1>4. E \in [EdgeIds -> Edge \cup {Null}]
  BY <1>1, <1>3 DEF Database
<1>5. ASSUME NEW e \in EdgeIds, E[e] # Null
      PROVE  Live(d, E[e].from) /\ Live(d, E[e].to) /\ E[e].from # E[e].to
  <2>1. CASE e \in DOMAIN line.edges /\ CanRestore(d, e, line.edges[e])
    BY <2>1 DEF CanRestore
  <2>2. CASE ~(e \in DOMAIN line.edges /\ CanRestore(d, e, line.edges[e]))
    BY <1>1, <1>5, <2>2 DEF Consistent, EdgesAnchored, Present
  <2> QED
    BY <2>1, <2>2
<1>6. \A e \in EdgeIds : E[e] =
        IF e \in DOMAIN line.edges /\ CanRestore(d, e, line.edges[e])
        THEN line.edges[e] ELSE d.edges[e]
  OBVIOUS
<1> HIDE DEF E
<1>7. Sound([d EXCEPT !.edges = E])
  BY <1>1, <1>4, <1>5, SetEdges
<1> HIDE DEF v
<1>8. \A e \in EdgeIds : Present(d, e) => v.edges[e] = d.edges[e]
  BY <1>2, <1>6 DEF CanRestore
<1> QED
  BY <1>2, <1>6, <1>7, <1>8 DEF v

\* The line of an upsert is brought, and what was brought of lines with other
\* texts stays.
LEMMA UpsertBrings ==
    ASSUME NEW w, NEW v, NEW line, NEW t,
           Upserts(w, v, line.id, line.row, line.labels, t)
    PROVE  /\ Brought(v, line)
           /\ \A l : ~SameText(l, line) /\ Brought(w, l) => Brought(v, l)
<1>1. Brought(v, line)
  BY DEF Upserts, Brought, HoldersOf
<1>2. ASSUME NEW l, ~SameText(l, line), Brought(w, l)
      PROVE  Brought(v, l)
  <2>1. /\ HoldersOf(v, l) = HoldersOf(w, l)
        /\ t \notin HoldersOf(v, l)
    BY <1>2 DEF Upserts, HoldersOf, SameText
  <2>2. \A i \in HoldersOf(v, l) : i \in Ids \ {t}
    BY <2>1 DEF HoldersOf, Holders
  <2>3. \A i \in HoldersOf(v, l) : /\ v.entries[i] = w.entries[i]
                                   /\ LabelsOf(v, i) = LabelsOf(w, i)
    BY <2>2 DEF Upserts
  <2> QED
    BY <1>2, <2>1, <2>3 DEF Brought
<1> QED
  BY <1>1, <1>2

\* An edge that is done stays done when the entry of a later line is written:
\* its source is not that entry, and its target was not when its turn came.
LEMMA EdgeDoneStays ==
    ASSUME NEW w, NEW v, NEW d, NEW f \in Seq(Line), NEW u, Tidy(f, u),
           NEW k \in DOMAIN f, NEW n \in DOMAIN f, n < k,
           NEW e \in DOMAIN f[n].edges, NEW t,
           Upserts(w, v, f[k].id, f[k].row, f[k].labels, t),
           \A i \in Ids : Live(d, i) => Live(w, i),
           EdgeDone(w, d, f, n, e)
    PROVE  EdgeDone(v, d, f, n, e)
<1> DEFINE from == f[n].edges[e].from
           to == f[n].edges[e].to
<1>1. f[n] \in Line
  OBVIOUS
<1>a. f[n].edges \in EdgeLine
  BY <1>1 DEF Line
<1>2. e \in EdgeIds /\ from \in Ids /\ to \in Ids
  BY <1>a DEF EdgeLine, Edge
<1>3. from = f[n].id
  BY DEF Tidy, TidyLine
<1>4. \A m \in 1..n : m \in DOMAIN f /\ m # k
  OBVIOUS
<1>5. \A m \in 1..n : f[m].id # f[k].id
  BY <1>4 DEF Tidy, Differ
<1>6. from # f[k].id
  BY <1>3, <1>5
<1>7. /\ v.edges = w.edges
      /\ \A j \in Ids : Live(v, j) => Live(w, j) \/ j = f[k].id
  BY DEF Upserts
<1>8. EdgeDone(w, d, f, n, e) <=>
        \/ Present(w, e) \/ ~Live(w, from) \/ ~Live(w, to)
        \/ ~Live(d, to) /\ \A m \in 1..n : f[m].id # to
  BY DEF EdgeDone
<1>9. EdgeDone(v, d, f, n, e) <=>
        \/ Present(v, e) \/ ~Live(v, from) \/ ~Live(v, to)
        \/ ~Live(d, to) /\ \A m \in 1..n : f[m].id # to
  BY DEF EdgeDone
<1> HIDE DEF from, to
<1>10. Present(w, e) => Present(v, e)
  BY <1>7 DEF Present
<1>11. ~Live(w, from) => ~Live(v, from)
  BY <1>2, <1>6, <1>7
<1>12. ~Live(w, to) =>
         \/ ~Live(v, to)
         \/ ~Live(d, to) /\ \A m \in 1..n : f[m].id # to
  BY <1>2, <1>5, <1>7
<1> QED
  BY <1>8, <1>9, <1>10, <1>11, <1>12

\* The entry of the next line of an import.
LEMMA ImportAtEntry ==
    ASSUME NEW j \in Job, NEW f \in Seq(Line), NEW d, NEW u, Tidy(f, u),
           NEW k \in Nat, ImportAt(j, f, d, u, k, k), j.todo # <<>>,
           NEW line, line = Head(j.todo),
           CanUpsert(j.work, line.id, line.row),
           NEW g \in Job, g = [j EXCEPT !.work =
              CreateOrUpdate(@, line.id, line.row, line.labels)]
    PROVE  ImportAt(g, f, d, u, k, k + 1)
<1> DEFINE w == j.work
           v == g.work
<1>1. /\ g.site = j.site /\ g.todo = j.todo /\ g.aborted = j.aborted
      /\ v = CreateOrUpdate(w, line.id, line.row, line.labels)
  BY DEF Job
<1>2. j.todo \in Seq(Line) /\ w \in Database
  BY DEF Job
<1>3. /\ k + 1 \in DOMAIN f /\ line = f[k + 1]
      /\ line \in Line
  BY <1>2, AheadMoves DEF ImportAt
<1>4. /\ line.id \in Ids /\ line.row \in Row /\ line.labels \in SUBSET Labels
      /\ line.id \in u
  BY <1>3 DEF Line, Tidy, TidyLine
<1>5. /\ Sound(w) /\ LiveWithin(w, u)
      /\ \A i \in Ids : Live(d, i) => Live(w, i)
      /\ EntriesDone(w, f, k)
      /\ EdgesDone(w, d, f, k)
      /\ Backend[j.site] = "postgres" /\ ~j.aborted => AllEdges(w, f, k)
  BY DEF ImportAt
<1>a. CanUpsert(w, line.id, line.row)
  OBVIOUS
<1> HIDE DEF w, v
<1>6. PICK t : Upserts(w, v, line.id, line.row, line.labels, t)
  BY <1>1, <1>4, <1>5, <1>a, CreateOrUpdateUpserts
<1>7. \A i \in Ids : Live(v, i) <=> Live(w, i) \/ i = t
  BY <1>6 DEF Upserts
<1>8. LiveWithin(v, u) /\ \A i \in Ids : Live(d, i) => Live(v, i)
  BY <1>4, <1>5, <1>6, <1>7 DEF LiveWithin, Upserts
<1>9. \A n \in 1..k : n \in DOMAIN f /\ n # k + 1 /\ n < k + 1
  BY <1>3
<1>10. EntriesDone(v, f, k + 1)
  <2>1. Brought(v, f[k + 1])
    BY <1>3, <1>6, UpsertBrings
  <2>2. ASSUME NEW n \in 1..k PROVE Brought(v, f[n])
    <3>1. ~SameText(f[n], line)
      BY <1>3, <1>9 DEF Tidy, Differ
    <3> QED
      BY <1>5, <1>6, <3>1, UpsertBrings DEF EntriesDone
  <2>3. \A n \in 1..(k + 1) : n = k + 1 \/ n \in 1..k
    OBVIOUS
  <2> QED
    BY <2>1, <2>2, <2>3 DEF EntriesDone
<1>11. EdgesDone(v, d, f, k)
  <2> SUFFICES ASSUME NEW n \in 1..k, NEW e \in DOMAIN f[n].edges
               PROVE  EdgeDone(v, d, f, n, e)
    BY DEF EdgesDone
  <2>1. EdgeDone(w, d, f, n, e)
    BY <1>5 DEF EdgesDone
  <2> QED
    BY <1>3, <1>5, <1>6, <1>9, <2>1, EdgeDoneStays
<1>12. AllEdges(w, f, k) => AllEdges(v, f, k)
  BY <1>6 DEF AllEdges, Upserts
<1>13. Sound(v)
  BY <1>6 DEF Upserts
<1>14. j.site \in Sites /\ Ahead(f, j.todo, k)
  BY DEF ImportAt
<1> QED
  BY <1>1, <1>5, <1>8, <1>10, <1>11, <1>12, <1>13, <1>14 DEF ImportAt, v

\* The edges of that line.
LEMMA ImportAtEdges ==
    ASSUME NEW j \in Job, NEW f \in Seq(Line), NEW d, NEW u, Tidy(f, u),
           NEW k \in Nat, ImportAt(j, f, d, u, k, k + 1), j.todo # <<>>,
           NEW line, line = Head(j.todo),
           NEW g \in Job,
           g.site = j.site,
           g.todo = Tail(j.todo),
           g.work = RestoreEdges(j.work, line.edges),
           ~g.aborted => /\ ~j.aborted
                         /\ \A e \in DOMAIN line.edges :
                              CanRestore(j.work, e, line.edges[e])
    PROVE  ImportAt(g, f, d, u, k + 1, k + 1)
<1> DEFINE w == j.work
           v == g.work
<1>1. j.todo \in Seq(Line)
  BY DEF Job
<1>2. /\ k + 1 \in DOMAIN f /\ line = f[k + 1]
      /\ Ahead(f, g.todo, k + 1)
      /\ line \in Line
  BY <1>1, AheadMoves DEF ImportAt
<1>3. \A e \in DOMAIN line.edges : /\ line.edges[e].from = line.id
                                   /\ line.edges[e].from # line.edges[e].to
  BY <1>2 DEF Tidy, TidyLine
<1>4. /\ Sound(w) /\ LiveWithin(w, u)
      /\ \A i \in Ids : Live(d, i) => Live(w, i)
      /\ EntriesDone(w, f, k + 1)
      /\ EdgesDone(w, d, f, k)
      /\ Backend[j.site] = "postgres" /\ ~j.aborted => AllEdges(w, f, k)
  BY DEF ImportAt
<1>5. v = RestoreEdges(w, line.edges)
  OBVIOUS
<1> HIDE DEF w, v
<1>6. /\ Sound(v)
      /\ v.entries = w.entries /\ v.labels = w.labels
      /\ \A e \in EdgeIds : v.edges[e] =
           IF e \in DOMAIN line.edges /\ CanRestore(w, e, line.edges[e])
           THEN line.edges[e] ELSE w.edges[e]
      /\ \A e \in EdgeIds : Present(w, e) => v.edges[e] = w.edges[e]
  <2>1. /\ line \in Line /\ Sound(w)
        /\ \A e \in DOMAIN line.edges : line.edges[e].from # line.edges[e].to
    BY <1>2, <1>3, <1>4
  <2> QED
    BY <1>5, <2>1, RestoreEdgesSound, SMTT(30)
<1>7. /\ \A i : Live(v, i) <=> Live(w, i)
      /\ \A i : LabelsOf(v, i) = LabelsOf(w, i)
      /\ \A l : HoldersOf(v, l) = HoldersOf(w, l)
  BY <1>6 DEF Live, LabelsOf, HoldersOf, Holders
<1>8. LiveWithin(v, u) /\ \A i \in Ids : Live(d, i) => Live(v, i)
  BY <1>4, <1>7 DEF LiveWithin
<1>9. EntriesDone(v, f, k + 1)
  BY <1>4, <1>6, <1>7 DEF EntriesDone, Brought
<1>10. \A n \in 1..(k + 1) : n \in DOMAIN f /\ (n = k + 1 \/ n \in 1..k)
  BY <1>2
<1>11. \A n \in 1..(k + 1) : \A e \in DOMAIN f[n].edges :
         e \in EdgeIds /\ f[n].edges[e] \in Edge
  <2>1. \A n \in DOMAIN f : f[n] \in Line
    OBVIOUS
  <2>2. \A n \in DOMAIN f : f[n].edges \in EdgeLine
    BY <2>1 DEF Line
  <2> QED
    BY <1>10, <2>2 DEF EdgeLine
<1>12. line.edges = f[k + 1].edges
  BY <1>2
<1>13. EdgesDone(v, d, f, k + 1)
  <2> SUFFICES ASSUME NEW n \in 1..(k + 1), NEW e \in DOMAIN f[n].edges
               PROVE  EdgeDone(v, d, f, n, e)
    BY DEF EdgesDone
  <2>1. e \in EdgeIds
    BY <1>11
  <2>2. Present(w, e) => Present(v, e)
    BY <1>6, <2>1 DEF Present
  <2>3. CASE n \in 1..k
    <3>1. EdgeDone(w, d, f, n, e)
      BY <1>4, <2>3 DEF EdgesDone
    <3> QED
      BY <1>7, <2>2, <3>1 DEF EdgeDone
  <2>4. CASE n = k + 1
    <3> DEFINE x == line.edges[e]
    <3>1. f[n].edges[e] = x /\ e \in DOMAIN line.edges
      BY <1>12, <2>4
    <3>2. CASE CanRestore(w, e, x)
      <4>1. v.edges[e] = x /\ x # Null
        BY <1>6, <1>11, <2>1, <3>1, <3>2, NullRowAssumption
      <4> QED
        BY <4>1 DEF EdgeDone, Present
    <3>3. CASE ~CanRestore(w, e, x)
      <4>1. Present(w, e) \/ ~Live(w, x.from) \/ ~Live(w, x.to)
        BY <3>3 DEF CanRestore
      <4> QED
        BY <1>7, <2>2, <3>1, <4>1 DEF EdgeDone
    <3> QED
      BY <3>2, <3>3
  <2> QED
    BY <1>10, <2>3, <2>4
<1>14. ASSUME Backend[g.site] = "postgres", ~g.aborted
       PROVE  AllEdges(v, f, k + 1)
  <2> SUFFICES ASSUME NEW n \in 1..(k + 1), NEW e \in DOMAIN f[n].edges
               PROVE  v.edges[e] = f[n].edges[e]
    BY DEF AllEdges
  <2>1. e \in EdgeIds /\ f[n].edges[e] # Null
    BY <1>11, NullRowAssumption
  <2>2. CASE n \in 1..k
    <3>1. w.edges[e] = f[n].edges[e]
      BY <1>4, <1>14, <2>2 DEF AllEdges
    <3> QED
      BY <1>6, <2>1, <3>1 DEF Present
  <2>3. CASE n = k + 1
    <3>1. e \in DOMAIN line.edges /\ f[n].edges[e] = line.edges[e]
      BY <1>12, <2>3
    <3>2. CanRestore(w, e, line.edges[e])
      BY <1>14, <3>1 DEF w
    <3> QED
      BY <1>6, <2>1, <3>1, <3>2
  <2> QED
    BY <1>10, <2>2, <2>3
<1>15. g.site \in Sites
  BY DEF ImportAt
<1>16. /\ Sound(g.work) /\ LiveWithin(g.work, u)
       /\ \A i \in Ids : Live(d, i) => Live(g.work, i)
       /\ EntriesDone(g.work, f, k + 1)
       /\ EdgesDone(g.work, d, f, k + 1)
       /\ Backend[g.site] = "postgres" /\ ~g.aborted
            => AllEdges(g.work, f, k + 1)
  BY <1>6, <1>8, <1>9, <1>13, <1>14 DEF v
<1> QED
  BY <1>2, <1>15, <1>16 DEF ImportAt

\* The line of an upsert with its labels is written, and every other line of
\* the batch that was written still is: it has another text, or it is not
\* alone with its text.
LEMMA UpsertWrites ==
    ASSUME NEW w, NEW v, NEW q, NEW k \in DOMAIN q, NEW ls, NEW t,
           Upserts(w, v, q[k].id, q[k].row, ls, t)
    PROVE  /\ ls = q[k].labels => Written(v, q, q[k])
           /\ \A l : l # q[k] /\ Written(w, q, l) => Written(v, q, l)
<1>1. /\ t \in Ids
      /\ HoldersOf(v, q[k]) = {t}
      /\ ls \subseteq LabelsOf(v, t)
  BY DEF Upserts, HoldersOf
<1>2. ls = q[k].labels => Written(v, q, q[k])
  BY <1>1 DEF Written
<1>3. ASSUME NEW l, l # q[k], Written(w, q, l), SameText(q[k], l)
      PROVE  Written(v, q, l)
  <2>1. HoldersOf(v, l) = HoldersOf(v, q[k])
    BY <1>3 DEF SameText, HoldersOf
  <2> QED
    BY <1>1, <1>3, <2>1 DEF Written
<1>4. ASSUME NEW l, l # q[k], Written(w, q, l), ~SameText(q[k], l)
      PROVE  Written(v, q, l)
  <2>1. PICK i \in HoldersOf(w, l) :
          (\A n \in DOMAIN q : SameText(q[n], l) => q[n] = l)
            => l.labels \subseteq LabelsOf(w, i)
    BY <1>4 DEF Written
  <2>2. HoldersOf(v, l) = HoldersOf(w, l) /\ t \notin HoldersOf(v, l)
    BY <1>4 DEF Upserts, HoldersOf, SameText
  <2>3. i \in Ids \ {t}
    BY <2>1, <2>2 DEF HoldersOf, Holders
  <2>4. LabelsOf(v, i) = LabelsOf(w, i)
    BY <2>3 DEF Upserts
  <2> QED
    BY <2>1, <2>2, <2>4 DEF Written
<1> QED
  BY <1>2, <1>3, <1>4

\* A line of a batch that reaches the database, with all of its labels or as
\* a failed line with some.
LEMMA BatchAtWrite ==
    ASSUME NEW j \in Job, NEW u, NEW k \in Nat, BatchAt(j, u, k),
           j.todo # <<>>, NEW line, line = Head(j.todo),
           NEW g \in Job, g.site = j.site, g.lines = j.lines,
           g.todo = Tail(j.todo),
           j.failed \subseteq g.failed,
           g.failed # {} => g.aborted,
           NEW ls, NEW t,
           Upserts(j.work, g.work, line.id, line.row, ls, t),
           line \in g.failed \/ ls = line.labels
    PROVE  BatchAt(g, u, k + 1)
<1> DEFINE w == j.work
           v == g.work
           q == j.lines
<1>1. j.todo \in Seq(Line) /\ q \in Seq(Line)
  BY DEF Job
<1>2. /\ g.site \in Sites
      /\ Ahead(q, j.todo, k)
      /\ LiveWithin(w, u)
      /\ \A n \in DOMAIN q : q[n].id \in u
      /\ \A m, n \in DOMAIN q : m # n => q[m].id # q[n].id
      /\ \A n \in DOMAIN j.todo : ~Live(w, j.todo[n].id)
      /\ \A n \in 1..k : q[n] \in j.failed \/ Written(w, q, q[n])
  BY DEF BatchAt
<1>3. Upserts(w, v, line.id, line.row, ls, t)
  OBVIOUS
<1>4. g.lines = q
  OBVIOUS
<1> HIDE DEF w, v, q
<1>5. /\ k + 1 \in DOMAIN q /\ line = q[k + 1]
      /\ Ahead(q, Tail(j.todo), k + 1)
  BY <1>1, <1>2, AheadMoves
<1>6. \A i \in Ids : Live(v, i) => Live(w, i) \/ i = line.id
  BY <1>3 DEF Upserts
<1>7. LiveWithin(v, u)
  BY <1>2, <1>5, <1>6 DEF LiveWithin
<1>8. ASSUME NEW n \in DOMAIN Tail(j.todo)
      PROVE  ~Live(v, Tail(j.todo)[n].id)
  <2>1. /\ Tail(j.todo) \in Seq(Line)
        /\ Len(Tail(j.todo)) = Len(j.todo) - 1
        /\ Len(j.todo) \in Nat
        /\ Tail(j.todo)[n] = j.todo[n + 1]
        /\ n \in 1..Len(Tail(j.todo))
    BY <1>1, HeadAndTail
  <2>2. /\ n + 1 \in DOMAIN j.todo
        /\ Len(q) = (k + 1) + Len(Tail(j.todo))
        /\ Tail(j.todo)[n] = q[(k + 1) + n]
    <3>1. n + 1 \in DOMAIN j.todo
      BY <1>1, <2>1
    <3> QED
      BY <1>5, <2>1, <3>1 DEF Ahead
  <2>3. (k + 1) + n \in DOMAIN q /\ (k + 1) + n # k + 1
    <3>1. DOMAIN q = 1..Len(q)
      BY <1>1
    <3>2. n \in Nat /\ 1 <= n /\ n <= Len(Tail(j.todo)) /\ k \in Nat
      BY <2>1
    <3>3. Len(Tail(j.todo)) \in Nat
      BY <2>1
    <3> HIDE DEF q
    <3> QED
      BY <2>2, <3>1, <3>2, <3>3
  <2>4. Tail(j.todo)[n].id # line.id
    BY <1>2, <1>5, <2>2, <2>3
  <2>5. ~Live(w, Tail(j.todo)[n].id)
    BY <1>2, <2>1, <2>2
  <2>6. Tail(j.todo)[n] \in Line
    BY <2>1
  <2>7. Tail(j.todo)[n].id \in Ids
    BY <2>6 DEF Line
  <2> QED
    BY <1>6, <2>4, <2>5, <2>7
<1>a. /\ ls = line.labels => Written(v, q, line)
      /\ \A l : l # line /\ Written(w, q, l) => Written(v, q, l)
  <2>1. Upserts(w, v, q[k + 1].id, q[k + 1].row, ls, t)
    BY <1>3, <1>5
  <2>2. k + 1 \in DOMAIN q
    BY <1>5
  <2>3. /\ ls = q[k + 1].labels => Written(v, q, q[k + 1])
        /\ \A l : l # q[k + 1] /\ Written(w, q, l) => Written(v, q, l)
    BY <2>1, <2>2, UpsertWrites
  <2> QED
    BY <1>5, <2>3
<1>9. ASSUME NEW n \in 1..(k + 1)
      PROVE  q[n] \in g.failed \/ Written(v, q, q[n])
  <2>1. CASE n = k + 1
    BY <1>5, <1>a, <2>1
  <2>2. CASE n \in 1..k
    <3>1. n \in DOMAIN q /\ n # k + 1
      BY <1>1, <1>5, <2>2
    <3>2. q[n] # line
      BY <1>2, <1>5, <3>1
    <3> QED
      BY <1>2, <1>a, <2>2, <3>2
  <2> QED
    BY <2>1, <2>2
<1>10. Sound(v)
  BY <1>3 DEF Upserts
<1> QED
  BY <1>2, <1>4, <1>5, <1>7, <1>8, <1>9, <1>10 DEF BatchAt, v

\* A line that is refused, and leaves the database as it is.
LEMMA BatchAtSkip ==
    ASSUME NEW j \in Job, NEW u, NEW k \in Nat, BatchAt(j, u, k),
           j.todo # <<>>, NEW line, line = Head(j.todo),
           NEW g \in Job, g.site = j.site, g.lines = j.lines,
           g.todo = Tail(j.todo), g.work = j.work, g.aborted,
           j.failed \subseteq g.failed, line \in g.failed
    PROVE  BatchAt(g, u, k + 1)
<1>1. j.todo \in Seq(Line) /\ j.lines \in Seq(Line)
  BY DEF Job
<1>2. /\ k + 1 \in DOMAIN j.lines /\ line = j.lines[k + 1]
      /\ Ahead(j.lines, Tail(j.todo), k + 1)
  BY <1>1, AheadMoves DEF BatchAt
<1>3. \A n \in DOMAIN Tail(j.todo) :
        n + 1 \in DOMAIN j.todo /\ Tail(j.todo)[n] = j.todo[n + 1]
  BY <1>1, HeadAndTail
<1>4. \A n \in DOMAIN Tail(j.todo) : ~Live(j.work, Tail(j.todo)[n].id)
  BY <1>3 DEF BatchAt
<1>5. \A n \in 1..(k + 1) : n = k + 1 \/ n \in 1..k
  OBVIOUS
<1>6. \A n \in 1..(k + 1) : \/ j.lines[n] \in g.failed
                            \/ Written(j.work, j.lines, j.lines[n])
  BY <1>2, <1>5 DEF BatchAt
<1> QED
  BY <1>2, <1>4, <1>6 DEF BatchAt

-----------------------------------------------------------------------------
(***************************************************************************)
(* The initial state, and what every step keeps.                           *)
(***************************************************************************)
LEMMA EmptySound ==
    /\ Sound(EmptyDatabase)
    /\ \A i \in Ids : ~Live(EmptyDatabase, i)
<1>1. EmptyDatabase \in Database
  BY DEF EmptyDatabase, Database
<1>2. /\ \A i \in Ids : ~Live(EmptyDatabase, i)
      /\ \A e \in EdgeIds : ~Present(EmptyDatabase, e)
      /\ EmptyDatabase.labels = {}
  BY DEF EmptyDatabase, Live, Present
<1>3. Consistent(EmptyDatabase)
  BY <1>2 DEF Consistent, ScopesExist, ContentUnique, LabelsOwned,
              EdgesAnchored
<1> QED
  BY <1>1, <1>2, <1>3 DEF Sound

LEMMA NoJobType == NoJob \in Job
<1>1. EmptyDatabase \in Database
  BY EmptySound DEF Sound
<1>2. <<>> \in Seq(Line)
  OBVIOUS
<1> QED
  BY <1>1, <1>2 DEF NoJob, Job

LEMMA IdleOK ==
    ASSUME NEW j, NEW f, NEW b, NEW u, NEW w
    PROVE  JobOK("idle", j, f, b, u, w)
BY DEF JobOK

LEMMA InitIInv == Init => IInv
<1> SUFFICES ASSUME Init PROVE IInv
  OBVIOUS
<1>1. TypeOK
  <2>1. <<>> \in Seq(Line)
    OBVIOUS
  <2> QED
    BY <2>1, NoJobType, EmptySound DEF Init, TypeOK, Sound
<1>2. SitesOK(db, used)
  BY EmptySound DEF Init, SitesOK, LiveWithin
<1>3. Tidy(file, used)
  BY DEF Init, Tidy
<1> QED
  BY <1>1, <1>2, <1>3, IdleOK DEF Init, IInv

\* A step of a transfer that ends it, and commits or not.
LEMMA ExitKeeps ==
    ASSUME IInv, pc' = "idle", job' = NoJob, UNCHANGED <<writes, used>>,
           file' \in Seq(Line), Tidy(file', used),
           db' \in [Sites -> Database], SitesOK(db', used)
    PROVE  IInv'
<1>1. TypeOK'
  BY NoJobType DEF IInv, TypeOK
<1> QED
  BY <1>1, IdleOK DEF IInv

LEMMA CommitKeeps ==
    ASSUME IInv, Commit, Exit, UNCHANGED <<file, writes, used>>,
           job.site \in Sites, Sound(job.work), LiveWithin(job.work, used)
    PROVE  IInv'
<1>1. \/ db' = db
      \/ db' = [db EXCEPT ![job.site] = job.work]
  BY DEF Commit
<1>2. db \in [Sites -> Database] /\ SitesOK(db, used)
  BY DEF IInv, TypeOK
<1>3. db' \in [Sites -> Database]
  BY <1>1, <1>2 DEF Sound
<1>4. SitesOK(db', used)
  BY <1>1, <1>2 DEF SitesOK
<1>5. file' \in Seq(Line) /\ Tidy(file', used)
  BY DEF IInv, TypeOK
<1> QED
  BY <1>3, <1>4, <1>5, ExitKeeps DEF Exit, Goto

\* A step of a transfer that only remembers something.
LEMMA GotoKeeps ==
    ASSUME IInv, UNCHANGED <<db, file, writes, used>>,
           pc' \in {"idle", "exportLabels", "export", "import",
                    "importEdges", "batch"},
           job' \in Job,
           JobOK(pc', job', file, db, used, writes)
    PROVE  IInv'
<1>1. TypeOK'
  BY DEF IInv, TypeOK
<1> QED
  BY <1>1 DEF IInv

LEMMA CrashKeeps == IInv /\ Crash => IInv'
BY NoJobType, IdleOK, GotoKeeps DEF Crash, Exit, Goto

-----------------------------------------------------------------------------
(***************************************************************************)
(* The steps of an import and of a batch.                                  *)
(***************************************************************************)
LEMMA ImportCommitKeeps == IInv /\ ImportCommit => IInv'
<1> SUFFICES ASSUME IInv, ImportCommit PROVE IInv'
  OBVIOUS
<1>1. PICK k \in Nat : ImportAt(job, file, db[job.site], used, k, k)
  BY DEF ImportCommit, IInv, JobOK
<1>2. job.site \in Sites /\ Sound(job.work) /\ LiveWithin(job.work, used)
  BY <1>1 DEF ImportAt
<1> QED
  BY <1>2, CommitKeeps DEF ImportCommit

LEMMA BatchCommitKeeps == IInv /\ BatchCommit => IInv'
<1> SUFFICES ASSUME IInv, BatchCommit PROVE IInv'
  OBVIOUS
<1>1. PICK k \in Nat : BatchAt(job, used, k)
  BY DEF BatchCommit, IInv, JobOK
<1>2. job.site \in Sites /\ Sound(job.work) /\ LiveWithin(job.work, used)
  BY <1>1 DEF BatchAt
<1> QED
  BY <1>2, CommitKeeps DEF BatchCommit

LEMMA ImportEntryKeeps == IInv /\ ImportEntry => IInv'
<1> SUFFICES ASSUME IInv, ImportEntry PROVE IInv'
  OBVIOUS
<1> DEFINE line == Head(job.todo)
           g == [job EXCEPT !.work =
                   CreateOrUpdate(@, line.id, line.row, line.labels)]
<1>1. /\ pc = "import" /\ job.todo # <<>>
      /\ IF ImportRefused(line) THEN Exit ELSE Goto("importEdges", g)
      /\ UNCHANGED <<db, file, writes, used>>
  BY DEF ImportEntry
<1>2. CASE ImportRefused(line)
  BY <1>1, <1>2, NoJobType, IdleOK, GotoKeeps DEF Exit, Goto
<1>3. CASE ~ImportRefused(line)
  <2>1. pc' = "importEdges" /\ job' = g
    BY <1>1, <1>3 DEF Goto
  <2>2. CanUpsert(job.work, line.id, line.row)
    BY <1>3 DEF ImportRefused
  <2>3. job \in Job /\ job.todo \in Seq(Line) /\ file \in Seq(Line)
        /\ Tidy(file, used)
    BY DEF IInv, TypeOK, Job
  <2>4. PICK k \in Nat : ImportAt(job, file, db[job.site], used, k, k)
    BY <1>1 DEF IInv, JobOK
  <2>5. line \in Line
    BY <1>1, <2>3, HeadAndTail
  <2>6. CreateOrUpdate(job.work, line.id, line.row, line.labels) \in Database
    <3>1. line.id \in Ids /\ line.row \in Row /\ line.labels \in SUBSET Labels
      BY <2>5 DEF Line
    <3>2. job.work \in Database /\ Consistent(job.work)
      BY <2>4 DEF ImportAt, Sound
    <3> QED
      BY <2>2, <3>1, <3>2, CreateOrUpdateSound DEF Sound
  <2>7. g \in Job /\ g.todo = job.todo /\ g.site = job.site
    BY <2>3, <2>6 DEF Job
  <2>8. ImportAt(g, file, db[job.site], used, k, k + 1)
    <3> HIDE DEF line
    <3>1. line = Head(job.todo)
      BY DEF line
    <3> HIDE DEF g
    <3>2. g = [job EXCEPT !.work =
                 CreateOrUpdate(@, line.id, line.row, line.labels)]
      BY DEF g
    <3> QED
      BY <1>1, <2>2, <2>3, <2>4, <2>7, <3>1, <3>2, ImportAtEntry
  <2> HIDE DEF g, line
  <2>9. JobOK("importEdges", g, file, db, used, writes)
    BY <1>1, <2>7, <2>8 DEF JobOK
  <2> QED
    BY <1>1, <2>1, <2>7, <2>9, GotoKeeps
<1> QED
  BY <1>2, <1>3

LEMMA ImportEdgesKeeps == IInv /\ ImportEdges => IInv'
<1> SUFFICES ASSUME IInv, ImportEdges PROVE IInv'
  OBVIOUS
<1> DEFINE line == Head(job.todo)
           fails == \E e \in DOMAIN line.edges :
                       ~CanRestore(job.work, e, line.edges[e])
           g == [job EXCEPT !.work = RestoreEdges(@, line.edges),
                            !.aborted = @ \/ fails,
                            !.todo = Tail(@)]
<1>1. /\ pc = "importEdges"
      /\ pc' = "import" /\ job' = g
      /\ UNCHANGED <<db, file, writes, used>>
  BY DEF ImportEdges, Goto
<1>2. job \in Job /\ job.todo \in Seq(Line) /\ file \in Seq(Line)
      /\ Tidy(file, used)
  BY DEF IInv, TypeOK, Job
<1>3. /\ job.todo # <<>>
      /\ \E k \in Nat : ImportAt(job, file, db[job.site], used, k, k + 1)
  BY <1>1 DEF IInv, JobOK
<1>4. PICK k \in Nat : ImportAt(job, file, db[job.site], used, k, k + 1)
  BY <1>3
<1>5. line \in Line /\ Tail(job.todo) \in Seq(Line)
  BY <1>2, <1>3, HeadAndTail
<1>6. \A e \in DOMAIN line.edges : line.edges[e].from # line.edges[e].to
  <2>1. k + 1 \in DOMAIN file /\ line = file[k + 1]
    BY <1>2, <1>3, <1>4, AheadMoves DEF ImportAt
  <2> HIDE DEF line
  <2> QED
    BY <1>2, <2>1 DEF Tidy, TidyLine
<1>7. RestoreEdges(job.work, line.edges) \in Database
  <2>1. Sound(job.work)
    BY <1>4 DEF ImportAt
  <2> HIDE DEF line
  <2> QED
    BY <1>5, <1>6, <2>1, RestoreEdgesSound DEF Sound
<1>8. fails \in BOOLEAN
  OBVIOUS
<1>9. /\ g \in Job
      /\ g.site = job.site
      /\ g.todo = Tail(job.todo)
      /\ g.work = RestoreEdges(job.work, line.edges)
      /\ g.aborted = (job.aborted \/ fails)
  <2> HIDE DEF fails, line
  <2> QED
    BY <1>2, <1>5, <1>7, <1>8 DEF Job
<1>10. ~g.aborted => /\ ~job.aborted
                     /\ \A e \in DOMAIN line.edges :
                          CanRestore(job.work, e, line.edges[e])
  <2> HIDE DEF g
  <2> QED
    BY <1>9
<1>11. line = Head(job.todo)
  OBVIOUS
<1> HIDE DEF g, fails, line
<1>12. ImportAt(g, file, db[job.site], used, k + 1, k + 1)
  BY <1>2, <1>3, <1>4, <1>9, <1>10, <1>11, ImportAtEdges
<1>13. JobOK("import", g, file, db, used, writes)
  BY <1>9, <1>12 DEF JobOK
<1> QED
  BY <1>1, <1>9, <1>13, GotoKeeps

LEMMA NoEdges == <<>> \in EdgeLine
<1>1. <<>> = [e \in {} |-> Null]
  OBVIOUS
<1>2. <<>> \in [{} -> Edge]
  BY <1>1
<1> QED
  BY <1>2 DEF EdgeLine

\* The lines that batch and add read from their arguments.
LEMMA NewLinesAreLines ==
    ASSUME NEW free \in SUBSET Ids, NEW line \in NewLines(free), writes \in Nat
    PROVE  line \in Line /\ line.id \in free
<1>1. PICK i \in free, ls \in SUBSET Labels, c \in Contents, s \in Paths,
           t \in Titles, r \in BOOLEAN :
        line = [id |-> i, labels |-> ls, edges |-> <<>>, repeats |-> r,
                row |-> [content |-> c, scope |-> s, title |-> t,
                         created |-> writes, expires |-> Null, version |-> 1]]
  BY DEF NewLines
<1>2. [content |-> c, scope |-> s, title |-> t, created |-> writes,
       expires |-> Null, version |-> 1] \in Row
  BY DEF Row
<1> QED
  BY <1>1, <1>2, NoEdges DEF Line

LEMMA ImportBeginKeeps == ASSUME IInv, NEW s \in Sites, ImportBegin(s)
                          PROVE  IInv'
<1> DEFINE g == [NoJob EXCEPT !.site = s, !.todo = file, !.work = db[s]]
<1>1. /\ pc' = "import" /\ job' = g
      /\ writes' = writes + 1
      /\ UNCHANGED <<db, file, used>>
  BY DEF ImportBegin, Goto
<1>2. /\ file \in Seq(Line) /\ Sound(db[s]) /\ LiveWithin(db[s], used)
      /\ db[s] \in Database
  BY DEF IInv, TypeOK, SitesOK
<1>3. /\ g \in Job
      /\ g.site = s /\ g.todo = file /\ g.work = db[s]
  BY <1>2, NoJobType DEF Job
<1> HIDE DEF g
<1>4. ImportAt(g, file, db[s], used, 0, 0)
  <2>1. Ahead(file, g.todo, 0)
    BY <1>2, <1>3, AheadStarts
  <2>2. /\ EntriesDone(g.work, file, 0)
        /\ EdgesDone(g.work, db[s], file, 0)
        /\ AllEdges(g.work, file, 0)
    BY DEF EntriesDone, EdgesDone, AllEdges
  <2> QED
    BY <1>2, <1>3, <2>1, <2>2 DEF ImportAt
<1>5. JobOK("import", g, file, db, used, writes')
  BY <1>3, <1>4 DEF JobOK
<1>6. TypeOK'
  BY <1>1, <1>3 DEF IInv, TypeOK
<1> QED
  BY <1>1, <1>5, <1>6 DEF IInv

LEMMA BatchBeginKeeps == ASSUME IInv, NEW s \in Sites, BatchBegin(s)
                         PROVE  IInv'
<1>1. PICK n \in 1..MaxBatch : \E lines \in [1..n -> NewLines(Ids \ used)] :
        /\ \A a, b \in 1..n : a # b => lines[a].id # lines[b].id
        /\ used' = used \cup {lines[a].id : a \in 1..n}
        /\ Goto("batch", [NoJob EXCEPT !.site = s, !.todo = lines,
                                       !.lines = lines, !.work = db[s]])
  BY DEF BatchBegin
<1>2. PICK q \in [1..n -> NewLines(Ids \ used)] :
        /\ \A a, b \in 1..n : a # b => q[a].id # q[b].id
        /\ used' = used \cup {q[a].id : a \in 1..n}
        /\ Goto("batch", [NoJob EXCEPT !.site = s, !.todo = q,
                                       !.lines = q, !.work = db[s]])
  BY <1>1
<1> DEFINE g == [NoJob EXCEPT !.site = s, !.todo = q, !.lines = q,
                              !.work = db[s]]
<1>3. /\ pc' = "batch" /\ job' = g
      /\ writes' = writes + 1
      /\ UNCHANGED <<db, file>>
  BY <1>2 DEF BatchBegin, Goto
<1>4. n \in Nat
  BY TransferAssumption
<1>5. \A a \in 1..n : q[a] \in Line /\ q[a].id \in Ids \ used
  BY <1>2, NewLinesAreLines DEF IInv, TypeOK
<1>6. q \in Seq(Line) /\ DOMAIN q = 1..n
  BY <1>4, <1>5
<1>7. /\ db[s] \in Database /\ Sound(db[s]) /\ LiveWithin(db[s], used)
      /\ used \in SUBSET Ids
  BY DEF IInv, TypeOK, SitesOK
<1>8. /\ g \in Job /\ g.site = s /\ g.todo = q /\ g.lines = q
      /\ g.work = db[s] /\ g.failed = {}
  <2>1. NoJob.failed = {}
    BY DEF NoJob
  <2> QED
    BY <1>6, <1>7, <2>1, NoJobType DEF Job
<1> HIDE DEF g
<1>9. used \subseteq used' /\ used' \subseteq Ids
      /\ \A a \in 1..n : q[a].id \in used'
  BY <1>2, <1>5, <1>7
<1>10. BatchAt(g, used', 0)
  <2>1. Ahead(q, q, 0)
    BY <1>6, AheadStarts
  <2>2. \A a \in 1..n : ~Live(db[s], q[a].id)
    BY <1>5, <1>7 DEF LiveWithin
  <2>3. LiveWithin(db[s], used')
    BY <1>7, <1>9 DEF LiveWithin
  <2> QED
    BY <1>2, <1>6, <1>7, <1>8, <1>9, <2>1, <2>2, <2>3 DEF BatchAt
<1>11. JobOK("batch", g, file, db, used', writes')
  BY <1>10 DEF JobOK
<1>12. TypeOK'
  BY <1>3, <1>8, <1>9 DEF IInv, TypeOK
<1>13. SitesOK(db, used')
  BY <1>9 DEF IInv, SitesOK, LiveWithin
<1>14. Tidy(file, used')
  BY <1>9, TidyStays DEF IInv
<1> QED
  BY <1>3, <1>11, <1>12, <1>13, <1>14 DEF IInv

LEMMA BatchEntryKeeps == IInv /\ BatchEntry => IInv'
<1> SUFFICES ASSUME IInv, BatchEntry PROVE IInv'
  OBVIOUS
<1> DEFINE line == Head(job.todo)
           skipped == [job EXCEPT !.todo = Tail(@),
                                  !.failed = @ \cup {line}]
           half(w) == [skipped EXCEPT !.work = w, !.aborted = TRUE]
           whole == [job EXCEPT !.todo = Tail(@), !.work =
                       CreateOrUpdate(@, line.id, line.row, line.labels)]
<1>1. /\ pc = "batch" /\ job.todo # <<>>
      /\ IF Postgres /\ job.aborted THEN Goto("batch", skipped)
         ELSE IF line.repeats
         THEN \E w \in HalfWritten(job.work, line) : Goto("batch", half(w))
         ELSE Goto("batch", whole)
      /\ UNCHANGED <<db, file, writes, used>>
  BY DEF BatchEntry
<1>2. PICK k \in Nat : BatchAt(job, used, k)
  BY <1>1 DEF IInv, JobOK
<1>3. job \in Job /\ job.todo \in Seq(Line) /\ job.failed \in SUBSET Line
  BY DEF IInv, TypeOK, Job
<1>4. line \in Line /\ Tail(job.todo) \in Seq(Line)
      /\ line = job.todo[1] /\ 1 \in DOMAIN job.todo
  <2> HIDE DEF skipped, half, whole
  <2>1. job.todo # <<>>
    BY <1>1
  <2>2. Len(job.todo) \in Nat \ {0}
    BY <1>3, <2>1, HeadAndTail
  <2>3. 1 \in DOMAIN job.todo
    BY <1>3, <2>2
  <2> QED
    BY <1>3, <2>1, <2>3, HeadAndTail
<1>5. /\ line.id \in Ids /\ line.row \in Row /\ line.labels \in SUBSET Labels
  BY <1>4 DEF Line
<1>6. Sound(job.work) /\ CanUpsert(job.work, line.id, line.row)
  BY <1>2, <1>4 DEF BatchAt, CanUpsert
<1> SUFFICES ASSUME NEW g \in Job, pc' = "batch", job' = g,
                    BatchAt(g, used, k + 1)
             PROVE  IInv'
  <2> DEFINE Proper(g) == g \in Job /\ BatchAt(g, used, k + 1)
  <2>1. ASSUME Postgres /\ job.aborted
        PROVE  Proper(skipped)
    <3>1. /\ skipped \in Job
          /\ skipped.site = job.site /\ skipped.lines = job.lines
          /\ skipped.todo = Tail(job.todo) /\ skipped.work = job.work
          /\ skipped.aborted = job.aborted
          /\ skipped.failed = job.failed \cup {line}
      BY <1>3, <1>4 DEF Job
    <3>2. PICK x \in Job : x = skipped
      BY <3>1
    <3>3. line = Head(job.todo)
      OBVIOUS
    <3> HIDE DEF skipped, line
    <3>4. BatchAt(x, used, k + 1)
      BY <1>1, <1>2, <1>3, <2>1, <3>1, <3>2, <3>3, BatchAtSkip
    <3> QED
      BY <3>2, <3>4
  <2>2. ASSUME NEW w \in HalfWritten(job.work, line)
        PROVE  Proper(half(w))
    <3>1. PICK t, ls : Upserts(job.work, w, line.id, line.row, ls, t)
      BY <1>4, <1>6, HalfWrittenUpserts
    <3>2. w \in Database
      BY <3>1 DEF Upserts, Sound
    <3>3. /\ half(w) \in Job
          /\ half(w).site = job.site /\ half(w).lines = job.lines
          /\ half(w).todo = Tail(job.todo) /\ half(w).work = w
          /\ half(w).aborted
          /\ half(w).failed = job.failed \cup {line}
      BY <1>3, <1>4, <3>2 DEF Job
    <3>4. PICK x \in Job : x = half(w)
      BY <3>3
    <3>5. line = Head(job.todo)
      OBVIOUS
    <3> HIDE DEF half, line
    <3>6. /\ x.site = job.site /\ x.lines = job.lines
          /\ x.todo = Tail(job.todo) /\ x.aborted
          /\ job.failed \subseteq x.failed /\ line \in x.failed
          /\ Upserts(job.work, x.work, line.id, line.row, ls, t)
      BY <3>1, <3>3, <3>4
    <3>7. BatchAt(x, used, k + 1)
      BY <1>1, <1>2, <1>3, <3>5, <3>6, BatchAtWrite
    <3> QED
      BY <3>4, <3>7
  <2>3. Proper(whole)
    <3> DEFINE v == CreateOrUpdate(job.work, line.id, line.row, line.labels)
    <3>1. PICK t : Upserts(job.work, v, line.id, line.row, line.labels, t)
      BY <1>5, <1>6, CreateOrUpdateUpserts
    <3>2. v \in Database
      BY <3>1 DEF Upserts, Sound
    <3> HIDE DEF v
    <3>3. whole = [job EXCEPT !.todo = Tail(@), !.work = v]
      BY DEF v
    <3>4. /\ whole \in Job
          /\ whole.site = job.site /\ whole.lines = job.lines
          /\ whole.todo = Tail(job.todo) /\ whole.work = v
          /\ whole.aborted = job.aborted
          /\ whole.failed = job.failed
      BY <1>3, <1>4, <3>2, <3>3 DEF Job
    <3>5. PICK x \in Job : x = whole
      BY <3>4
    <3>6. line = Head(job.todo)
      OBVIOUS
    <3>7. job.failed # {} => job.aborted
      BY <1>2 DEF BatchAt
    <3> HIDE DEF whole, line
    <3>8. BatchAt(x, used, k + 1)
      BY <1>1, <1>2, <1>3, <3>1, <3>4, <3>5, <3>6, <3>7, BatchAtWrite
    <3> QED
      BY <3>5, <3>8
  <2> HIDE DEF skipped, half, whole
  <2>4. \E g : pc' = "batch" /\ job' = g /\ Proper(g)
    BY <1>1, <2>1, <2>2, <2>3 DEF Goto
  <2> QED
    BY <2>4
<1>7. JobOK("batch", g, file, db, used, writes)
  BY DEF JobOK
<1> QED
  BY <1>1, <1>7, GotoKeeps

-----------------------------------------------------------------------------
(***************************************************************************)
(* The edits of others, which never meet a transaction and always make an  *)
(* export look older than the database.                                    *)
(***************************************************************************)
LEMMA ImportAtStays ==
    ASSUME NEW j, NEW f, NEW d, NEW u, NEW v, u \subseteq v, NEW k, NEW m,
           ImportAt(j, f, d, u, k, m)
    PROVE  ImportAt(j, f, d, v, k, m)
BY DEF ImportAt, LiveWithin

LEMMA BatchAtStays ==
    ASSUME NEW j, NEW u, NEW v, u \subseteq v, NEW k, BatchAt(j, u, k)
    PROVE  BatchAt(j, v, k)
BY DEF BatchAt, LiveWithin

LEMMA ExportAtStays ==
    ASSUME NEW l, NEW j, j.since \in Nat, NEW d, NEW u, NEW v, u \subseteq v,
           NEW w \in Nat, ExportAt(l, j, d, u, w), NEW e
    PROVE  ExportAt(l, j, e, v, w + 1)
<1>1. Tidy(j.lines, v) /\ Tidy(j.todo, v)
  BY TidyStays DEF ExportAt
<1>2. j.since <= w + 1 /\ j.since # w + 1
  BY DEF ExportAt
<1> QED
  BY <1>1, <1>2 DEF ExportAt

LEMMA EditKeeps ==
    ASSUME IInv, NEW s \in Sites, NEW d, Edit(s, d), Sound(d),
           used \subseteq used', used' \subseteq Ids, LiveWithin(d, used')
    PROVE  IInv'
<1>1. /\ db' = [db EXCEPT ![s] = d]
      /\ writes' = writes + 1
      /\ UNCHANGED <<file, pc, job>>
      /\ ~(job.site = s /\ pc \in {"import", "importEdges", "batch"})
  BY DEF Edit, Editable
<1>2. /\ db \in [Sites -> Database] /\ writes \in Nat /\ job \in Job
      /\ job.since \in Nat
  BY DEF IInv, TypeOK, Job
<1>3. TypeOK'
  BY <1>1, <1>2 DEF IInv, TypeOK, Sound
<1>4. SitesOK(db', used')
  <2>1. \A q \in Sites : db'[q] = IF q = s THEN d ELSE db[q]
    BY <1>1, <1>2
  <2>2. \A q \in Sites : Sound(db[q]) /\ LiveWithin(db[q], used')
    BY DEF IInv, SitesOK, LiveWithin
  <2> QED
    BY <2>1, <2>2 DEF SitesOK
<1>5. Tidy(file', used')
  BY <1>1, TidyStays DEF IInv
<1>6. JobOK(pc', job', file', db', used', writes')
  <2>1. JobOK(pc, job, file, db, used, writes)
    BY DEF IInv
  <2>2. ASSUME pc \in {"exportLabels", "export"}
        PROVE  ExportAt(pc, job, db'[job.site], used', writes + 1)
    <3>1. ExportAt(pc, job, db[job.site], used, writes)
      BY <2>1, <2>2 DEF JobOK
    <3> QED
      BY <1>2, <3>1, ExportAtStays
  <2>3. ASSUME pc = "import"
        PROVE  \E k \in Nat :
                 ImportAt(job, file, db'[job.site], used', k, k)
    <3>1. PICK k \in Nat : ImportAt(job, file, db[job.site], used, k, k)
      BY <2>1, <2>3 DEF JobOK
    <3>2. job.site \in Sites /\ job.site # s
      BY <1>1, <2>3, <3>1 DEF ImportAt
    <3>3. db'[job.site] = db[job.site]
      BY <1>1, <1>2, <3>2
    <3> QED
      BY <3>1, <3>3, ImportAtStays
  <2>4. ASSUME pc = "importEdges"
        PROVE  /\ job.todo # <<>>
               /\ \E k \in Nat :
                    ImportAt(job, file, db'[job.site], used', k, k + 1)
    <3>1. /\ job.todo # <<>>
          /\ \E k \in Nat :
               ImportAt(job, file, db[job.site], used, k, k + 1)
      BY <2>1, <2>4 DEF JobOK
    <3>2. PICK k \in Nat : ImportAt(job, file, db[job.site], used, k, k + 1)
      BY <3>1
    <3>3. job.site \in Sites /\ job.site # s
      BY <1>1, <2>4, <3>2 DEF ImportAt
    <3>4. db'[job.site] = db[job.site]
      BY <1>1, <1>2, <3>3
    <3> QED
      BY <3>1, <3>2, <3>4, ImportAtStays
  <2>5. ASSUME pc = "batch"
        PROVE  \E k \in Nat : BatchAt(job, used', k)
    <3>1. PICK k \in Nat : BatchAt(job, used, k)
      BY <2>1, <2>5 DEF JobOK
    <3> QED
      BY <3>1, BatchAtStays
  <2>6. JobOK(pc, job, file, db', used', writes + 1)
    BY <2>2, <2>3, <2>4, <2>5 DEF JobOK
  <2> QED
    BY <1>1, <2>6
<1> QED
  BY <1>3, <1>4, <1>5, <1>6 DEF IInv

LEMMA AddKeeps == ASSUME IInv, NEW s \in Sites, Add(s) PROVE IInv'
<1>1. PICK line \in NewLines(Ids \ used) :
        /\ Edit(s, CreateOrUpdate(db[s], line.id, line.row, line.labels))
        /\ used' = used \cup {line.id}
  BY DEF Add
<1> DEFINE d == CreateOrUpdate(db[s], line.id, line.row, line.labels)
<1>2. /\ Sound(db[s]) /\ LiveWithin(db[s], used)
      /\ used \in SUBSET Ids /\ writes \in Nat
  BY DEF IInv, TypeOK, SitesOK
<1>3. line \in Line /\ line.id \in Ids \ used
  BY <1>1, <1>2, NewLinesAreLines
<1>4. line.row \in Row /\ line.labels \in SUBSET Labels
  BY <1>3 DEF Line
<1>5. CanUpsert(db[s], line.id, line.row)
  BY <1>2, <1>3 DEF CanUpsert, LiveWithin
<1>6. PICK t : Upserts(db[s], d, line.id, line.row, line.labels, t)
  BY <1>2, <1>3, <1>4, <1>5, CreateOrUpdateUpserts
<1>7. Edit(s, d)
  BY <1>1
<1> HIDE DEF d
<1>8. Sound(d) /\ LiveWithin(d, used')
  BY <1>1, <1>2, <1>6 DEF Upserts, LiveWithin
<1> QED
  BY <1>1, <1>2, <1>3, <1>7, <1>8, EditKeeps

LEMMA UpdateKeeps == ASSUME IInv, NEW s \in Sites, Update(s) PROVE IInv'
<1>1. PICK i \in Ids, c \in Contents, t \in Titles :
        LET row == [db[s].entries[i] EXCEPT !.content = c, !.title = t]
        IN  /\ Live(db[s], i)
            /\ CanUpdate(db[s], i, row)
            /\ Edit(s, UpdateRow(db[s], i, row))
  BY DEF Update
<1> DEFINE row == [db[s].entries[i] EXCEPT !.content = c, !.title = t]
           d == UpdateRow(db[s], i, row)
<1>2. /\ Sound(db[s]) /\ LiveWithin(db[s], used)
      /\ used' = used /\ used \subseteq Ids
  BY DEF IInv, TypeOK, SitesOK, Update
<1>3. db[s] \in Database /\ Consistent(db[s])
  BY <1>2 DEF Sound
<1>4. db[s].entries[i] \in Row
  BY <1>1, <1>3 DEF Database, Live
<1>5. row \in Row
  BY <1>4 DEF Row
<1>6. CanUpdate(db[s], i, row) /\ Edit(s, d) /\ Live(db[s], i)
  BY <1>1
<1>7. \A j \in Ids \ {i} : d.entries[j] = db[s].entries[j]
  BY <1>3 DEF UpdateRow, Database
<1> HIDE DEF row
<1>8. Sound(d)
  BY <1>3, <1>5, <1>6, UpdateRowSound
<1> HIDE DEF d
<1>9. LiveWithin(d, used')
  BY <1>2, <1>6, <1>7 DEF LiveWithin, Live
<1> QED
  BY <1>2, <1>6, <1>8, <1>9, EditKeeps

LEMMA DeleteKeeps == ASSUME IInv, NEW s \in Sites, Delete(s) PROVE IInv'
<1>1. PICK i \in Ids : Edit(s, DeleteEntries(db[s], {i}))
  BY DEF Delete
<1> DEFINE d == DeleteEntries(db[s], {i})
<1>2. /\ Sound(db[s]) /\ LiveWithin(db[s], used)
      /\ used' = used /\ used \subseteq Ids
  BY DEF IInv, TypeOK, SitesOK, Delete
<1>3. db[s] \in Database /\ Consistent(db[s])
  BY <1>2 DEF Sound
<1>4. Sound(d)
  BY <1>3, DeleteEntriesSound
<1>5. \A j \in Ids : d.entries[j] = Null \/ d.entries[j] = db[s].entries[j]
  BY <1>3 DEF DeleteEntries, Database
<1>6. Edit(s, d)
  BY <1>1
<1> HIDE DEF d
<1>7. LiveWithin(d, used')
  BY <1>2, <1>5 DEF LiveWithin, Live
<1> QED
  BY <1>2, <1>4, <1>6, <1>7, EditKeeps

LEMMA LinkKeeps == ASSUME IInv, NEW s \in Sites, Link(s) PROVE IInv'
<1>1. PICK i \in Ids, j \in Ids, type \in EdgeTypes :
        \E name \in [{<<j, type>>} -> EdgeIds] :
          /\ CanInsertEdges(db[s], i, name)
          /\ Edit(s, InsertEdges(db[s], i, name, Null))
  BY DEF Link
<1>2. PICK name \in [{<<j, type>>} -> EdgeIds] :
          /\ CanInsertEdges(db[s], i, name)
          /\ Edit(s, InsertEdges(db[s], i, name, Null))
  BY <1>1
<1> DEFINE d == InsertEdges(db[s], i, name, Null)
<1>3. /\ Sound(db[s]) /\ LiveWithin(db[s], used)
      /\ used' = used /\ used \subseteq Ids
  BY DEF IInv, TypeOK, SitesOK, Link
<1>4. db[s] \in Database /\ Consistent(db[s])
  BY <1>3 DEF Sound
<1>5. PICK links \in SUBSET (Ids \X EdgeTypes) : links = {<<j, type>>}
  OBVIOUS
<1>6. name \in [links -> EdgeIds]
  BY <1>5
<1>7. Sound(d)
  BY <1>2, <1>4, <1>6, WeightsAllowNull, InsertEdgesSound
<1>8. d.entries = db[s].entries
  BY <1>2, <1>4, InsertEdgesShape
<1>9. Edit(s, d)
  BY <1>2
<1> HIDE DEF d
<1>10. LiveWithin(d, used')
  BY <1>3, <1>8 DEF LiveWithin, Live
<1> QED
  BY <1>3, <1>7, <1>9, <1>10, EditKeeps

-----------------------------------------------------------------------------
(***************************************************************************)
(* The steps of an export.                                                 *)
(***************************************************************************)
\* A listing without repetitions, as long as there are entries, has them all.
LEMMA NewestFirstLists ==
    ASSUME NEW d, NEW ids \in SUBSET Ids, NEW q \in NewestFirst(d, ids)
    PROVE  /\ Cardinality(ids) \in Nat
           /\ q \in [1..Cardinality(ids) -> ids]
           /\ \A m, n \in DOMAIN q : m # n => q[m] # q[n]
           /\ \A i \in ids : \E n \in DOMAIN q : q[n] = i
<1> DEFINE c == Cardinality(ids)
<1>1. /\ q \in [1..c -> ids]
      /\ \A m, n \in DOMAIN q : m # n => q[m] # q[n]
  BY DEF NewestFirst
<1>2. IsFiniteSet(ids)
  BY TransferAssumption, FS_Subset
<1>3. c \in Nat
  BY <1>2, FS_CardinalityType
<1>4. q \in Injection(1..c, ids)
  BY <1>1 DEF Injection, IsInjective
<1>5. Cardinality(1..c) = c
  <2> HIDE DEF c
  <2>1. Cardinality(1..c) = IF 1 > c THEN 0 ELSE c - 1 + 1
    BY <1>3, FS_Interval
  <2> QED
    BY <1>3, <2>1
<1>6. q \in Surjection(1..c, ids)
  BY <1>2, <1>4, <1>5, FS_Injection
<1> QED
  BY <1>1, <1>3, <1>6 DEF Surjection

LEMMA ExportListKeeps == ASSUME IInv, NEW s \in Sites, ExportList(s)
                         PROVE  IInv'
<1> DEFINE d == db[s]
           ids == {i \in Ids : Live(d, i)}
           lineOf(i) == [id |-> i, row |-> d.entries[i], labels |-> {},
                         edges |-> <<>>, repeats |-> FALSE]
<1>1. PICK q \in NewestFirst(d, ids) :
        Goto("exportLabels",
             [NoJob EXCEPT !.site = s, !.since = writes,
                           !.todo = [n \in DOMAIN q |-> lineOf(q[n])]])
  BY DEF ExportList
<1> DEFINE todo == [n \in DOMAIN q |-> lineOf(q[n])]
           g == [NoJob EXCEPT !.site = s, !.since = writes, !.todo = todo]
<1>2. /\ pc' = "exportLabels" /\ job' = g
      /\ UNCHANGED <<db, file, writes, used>>
  BY <1>1 DEF ExportList, Goto
<1>3. /\ Sound(d) /\ LiveWithin(d, used) /\ writes \in Nat
      /\ d \in Database /\ Consistent(d)
  BY DEF IInv, TypeOK, SitesOK, Sound
<1>4. \A i \in ids : /\ i \in Ids /\ Live(d, i) /\ i \in used
                     /\ d.entries[i] \in Row
  BY <1>3 DEF LiveWithin, Database, Live
<1>5. \A i \in Ids : Live(d, i) <=> i \in ids
  OBVIOUS
<1> HIDE DEF ids
<1>6. ids \in SUBSET Ids
  BY <1>4
<1>7. /\ Cardinality(ids) \in Nat
      /\ q \in [1..Cardinality(ids) -> ids]
      /\ \A m, n \in DOMAIN q : m # n => q[m] # q[n]
      /\ \A i \in ids : \E n \in DOMAIN q : q[n] = i
  BY <1>6, NewestFirstLists
<1>8. \A i \in ids : lineOf(i) \in Line
  BY <1>4, NoEdges DEF Line
<1>9. /\ DOMAIN todo = DOMAIN q
      /\ \A n \in DOMAIN q : /\ q[n] \in ids
                             /\ todo[n] \in Line
                             /\ todo[n].id = q[n]
                             /\ todo[n].row = d.entries[q[n]]
                             /\ todo[n].edges = <<>>
  BY <1>7, <1>8
<1>10. todo \in Seq(Line)
  BY <1>7, <1>8
<1>11. NoJob.lines = <<>>
  BY DEF NoJob
<1> HIDE DEF todo, lineOf
<1>12. /\ g \in Job /\ g.site = s /\ g.since = writes /\ g.todo = todo
       /\ g.lines = <<>>
  BY <1>3, <1>10, <1>11, NoJobType DEF Job
<1> HIDE DEF g
<1>13. Tidy(todo, used)
  <2>1. \A n \in DOMAIN todo : TidyLine(todo[n], used)
    BY <1>4, <1>9 DEF TidyLine
  <2>2. ASSUME NEW m \in DOMAIN todo, NEW n \in DOMAIN todo, m # n
        PROVE  Differ(todo[m], todo[n])
    <3>1. q[m] \in ids /\ q[n] \in ids /\ q[m] # q[n]
      BY <1>7, <1>9, <2>2
    <3>2. ~(/\ d.entries[q[m]].content = d.entries[q[n]].content
            /\ d.entries[q[m]].scope = d.entries[q[n]].scope)
      <4> HIDE DEF d
      <4> QED
        BY <1>3, <1>4, <3>1 DEF Consistent, ContentUnique
    <3> QED
      BY <1>9, <3>1, <3>2 DEF Differ, SameText
  <2> QED
    BY <2>1, <2>2 DEF Tidy
<1>14. Snapshot("exportLabels", g, d)
  <2>1. DOMAIN g.lines = {}
    BY <1>12
  <2>2. \A n \in DOMAIN g.todo : Listed(d, g.todo[n])
    BY <1>4, <1>9, <1>12 DEF Listed
  <2>3. \A i \in Ids : Live(d, i) => \E n \in DOMAIN g.todo : g.todo[n].id = i
    BY <1>5, <1>7, <1>9, <1>12
  <2> QED
    BY <2>1, <2>2, <2>3 DEF Snapshot
<1>15. ExportAt("exportLabels", g, d, used, writes)
  <2>1. DOMAIN g.lines = {}
    BY <1>12
  <2>2. Tidy(g.lines, used)
    BY <2>1 DEF Tidy
  <2> QED
    BY <1>3, <1>12, <1>13, <1>14, <2>1, <2>2 DEF ExportAt
<1>16. JobOK("exportLabels", g, file, db, used, writes)
  BY <1>12, <1>15 DEF JobOK
<1> QED
  BY <1>2, <1>12, <1>16, GotoKeeps

LEMMA ExportLabelsKeeps == IInv /\ ExportLabels => IInv'
<1> SUFFICES ASSUME IInv, ExportLabels PROVE IInv'
  OBVIOUS
<1> DEFINE d == db[job.site]
           labelled(l) == [l EXCEPT !.labels = LabelsOf(d, l.id)]
           todo == [n \in DOMAIN job.todo |-> labelled(job.todo[n])]
           g == [job EXCEPT !.todo = todo]
<1>1. /\ pc = "exportLabels"
      /\ pc' = "export" /\ job' = g
      /\ UNCHANGED <<db, file, writes, used>>
  BY DEF ExportLabels, Goto
<1>2. job \in Job /\ job.todo \in Seq(Line)
  BY DEF IInv, TypeOK, Job
<1>3. ExportAt("exportLabels", job, d, used, writes)
  BY <1>1 DEF IInv, JobOK
<1>4. ASSUME NEW l \in Line
      PROVE  /\ labelled(l) \in Line
             /\ labelled(l).id = l.id /\ labelled(l).row = l.row
             /\ labelled(l).edges = l.edges
             /\ labelled(l).labels = LabelsOf(d, l.id)
  <2>1. LabelsOf(d, l.id) \in SUBSET Labels
    BY DEF LabelsOf
  <2> HIDE DEF d
  <2> QED
    BY <2>1 DEF Line
<1>5. /\ DOMAIN todo = DOMAIN job.todo
      /\ \A n \in DOMAIN todo : todo[n] = labelled(job.todo[n])
  OBVIOUS
<1> HIDE DEF labelled, todo
<1>6. \A n \in DOMAIN todo :
        /\ todo[n] \in Line
        /\ todo[n].id = job.todo[n].id /\ todo[n].row = job.todo[n].row
        /\ todo[n].edges = job.todo[n].edges
        /\ todo[n].labels = LabelsOf(d, todo[n].id)
  <2>1. \A n \in DOMAIN job.todo : job.todo[n] \in Line
    BY <1>2
  <2> QED
    BY <1>4, <1>5, <2>1
<1>7. todo \in Seq(Line)
  <2>1. Len(job.todo) \in Nat /\ DOMAIN job.todo = 1..Len(job.todo)
    BY <1>2
  <2>2. todo \in [1..Len(job.todo) -> Line]
    BY <1>5, <1>6, <2>1 DEF todo
  <2> QED
    BY <2>1, <2>2
<1>8. /\ g \in Job /\ g.site = job.site /\ g.since = job.since
      /\ g.lines = job.lines /\ g.todo = todo
  BY <1>2, <1>7 DEF Job
<1> HIDE DEF g
<1>9. Tidy(todo, used)
  BY <1>3, <1>5, <1>6 DEF ExportAt, Tidy, TidyLine, Differ, SameText
<1>10. \A m \in DOMAIN job.lines, n \in DOMAIN todo :
         Differ(job.lines[m], todo[n])
  BY <1>3, <1>5, <1>6 DEF ExportAt, Differ, SameText
<1>11. Snapshot("exportLabels", job, d) => Snapshot("export", g, d)
  BY <1>5, <1>6, <1>8 DEF Snapshot, Listed, Labelled
<1>12. ExportAt("export", g, d, used, writes)
  BY <1>3, <1>8, <1>9, <1>10, <1>11 DEF ExportAt
<1>13. JobOK("export", g, file, db, used, writes)
  BY <1>8, <1>12 DEF JobOK
<1> QED
  BY <1>1, <1>8, <1>13, GotoKeeps

LEMMA ExportEdgesKeeps == IInv /\ ExportEdges => IInv'
<1> SUFFICES ASSUME IInv, ExportEdges PROVE IInv'
  OBVIOUS
<1> DEFINE d == db[job.site]
           line == Head(job.todo)
           read == [line EXCEPT !.edges =
                      [e \in EdgesFrom(d, line.id) |-> d.edges[e]]]
           g == [job EXCEPT !.todo = Tail(@), !.lines = Append(@, read)]
<1>1. /\ pc = "export"
      /\ UNCHANGED <<db, writes, used>>
      /\ \/ job.todo # <<>> /\ Goto("export", g) /\ UNCHANGED file
         \/ job.todo = <<>> /\ file' = job.lines /\ Exit
  BY DEF ExportEdges
<1>2. /\ job \in Job /\ job.todo \in Seq(Line) /\ job.lines \in Seq(Line)
      /\ db \in [Sites -> Database] /\ SitesOK(db, used)
  BY DEF IInv, TypeOK, Job
<1>3. ExportAt("export", job, d, used, writes)
  BY <1>1 DEF IInv, JobOK
<1>4. CASE job.todo = <<>> /\ file' = job.lines /\ Exit
  <2>1. Tidy(job.lines, used)
    BY <1>3 DEF ExportAt
  <2> QED
    BY <1>1, <1>2, <1>4, <2>1, ExitKeeps DEF Exit, Goto
<1>5. CASE job.todo # <<>> /\ Goto("export", g) /\ UNCHANGED file
  <2>1. /\ line \in Line
        /\ Tail(job.todo) \in Seq(Line)
        /\ Len(Tail(job.todo)) = Len(job.todo) - 1
        /\ Len(job.todo) \in Nat \ {0}
        /\ line = job.todo[1]
        /\ \A n \in 1..Len(Tail(job.todo)) : Tail(job.todo)[n] = job.todo[n + 1]
    BY <1>2, <1>5, HeadAndTail
  <2>2. Sound(d) /\ d \in Database /\ Consistent(d)
    BY <1>2, <1>3 DEF ExportAt, SitesOK, Sound
  <2>3. \A e \in EdgesFrom(d, line.id) :
          /\ e \in EdgeIds /\ d.edges[e] \in Edge
          /\ d.edges[e].from = line.id /\ d.edges[e].to # line.id
    BY <2>2 DEF EdgesFrom, Present, Database, Consistent, EdgesAnchored
  <2>4. [e \in EdgesFrom(d, line.id) |-> d.edges[e]] \in EdgeLine
    <3> DEFINE es == EdgesFrom(d, line.id)
    <3>1. es \in SUBSET EdgeIds
      BY <2>3
    <3>2. [e \in es |-> d.edges[e]] \in [es -> Edge]
      BY <2>3
    <3> HIDE DEF es
    <3>3. [e \in es |-> d.edges[e]] \in EdgeLine
      BY <3>1, <3>2 DEF EdgeLine
    <3> QED
      BY <3>3 DEF es
  <2>5. /\ read \in Line /\ read.id = line.id /\ read.row = line.row
        /\ read.labels = line.labels
        /\ read.edges = [e \in EdgesFrom(d, line.id) |-> d.edges[e]]
    <3> DEFINE E == [e \in EdgesFrom(d, line.id) |-> d.edges[e]]
    <3>1. E \in EdgeLine /\ read = [line EXCEPT !.edges = E]
      BY <2>4
    <3> HIDE DEF E, read, line
    <3>2. /\ read \in Line /\ read.id = line.id /\ read.row = line.row
          /\ read.labels = line.labels /\ read.edges = E
      BY <2>1, <3>1 DEF Line
    <3> QED
      BY <3>2 DEF E
  <2>6. TidyLine(read, used)
    <3>1. line.id \in used
      BY <1>3, <2>1 DEF ExportAt, Tidy, TidyLine
    <3> HIDE DEF read
    <3> QED
      BY <2>3, <2>5, <3>1 DEF TidyLine
  <2> HIDE DEF read
  <2>7. /\ g \in Job /\ g.site = job.site /\ g.since = job.since
        /\ g.todo = Tail(job.todo) /\ g.lines = Append(job.lines, read)
    <3> DEFINE lines == Append(job.lines, read)
               todo == Tail(job.todo)
    <3>1. lines \in Seq(Line) /\ todo \in Seq(Line)
      BY <1>2, <2>1, <2>5
    <3>2. g = [job EXCEPT !.todo = todo, !.lines = lines]
      OBVIOUS
    <3> HIDE DEF lines, todo, g
    <3>3. /\ g \in Job /\ g.site = job.site /\ g.since = job.since
          /\ g.todo = todo /\ g.lines = lines
      BY <1>2, <3>1, <3>2 DEF Job
    <3> QED
      BY <3>3 DEF lines, todo
  <2> HIDE DEF g
  <2>8. /\ DOMAIN g.lines = 1..(Len(job.lines) + 1)
        /\ DOMAIN job.lines = 1..Len(job.lines)
        /\ Len(job.lines) \in Nat
        /\ \A n \in DOMAIN job.lines : g.lines[n] = job.lines[n]
        /\ g.lines[Len(job.lines) + 1] = read
    BY <1>2, <2>5, <2>7
  <2>9. \A n \in DOMAIN g.lines : n \in DOMAIN job.lines \/ g.lines[n] = read
    BY <2>8
  <2>10. /\ \A n \in DOMAIN Tail(job.todo) :
              n + 1 \in DOMAIN job.todo /\ Tail(job.todo)[n] = job.todo[n + 1]
         /\ 1 \in DOMAIN job.todo
         /\ \A n \in DOMAIN job.todo :
              \/ job.todo[n] = line
              \/ \E m \in DOMAIN Tail(job.todo) : Tail(job.todo)[m] = job.todo[n]
    <3>1. /\ DOMAIN job.todo = 1..Len(job.todo)
          /\ DOMAIN Tail(job.todo) = 1..Len(Tail(job.todo))
      BY <1>2, <2>1
    <3>2. \A n \in DOMAIN Tail(job.todo) :
            n + 1 \in DOMAIN job.todo /\ Tail(job.todo)[n] = job.todo[n + 1]
      BY <2>1, <3>1
    <3>3. ASSUME NEW n \in DOMAIN job.todo, n # 1
          PROVE  \E m \in DOMAIN Tail(job.todo) : Tail(job.todo)[m] = job.todo[n]
      <4>1. n - 1 \in DOMAIN Tail(job.todo) /\ (n - 1) + 1 = n
        BY <2>1, <3>1, <3>3
      <4> QED
        BY <2>1, <3>1, <4>1
    <3> QED
      BY <2>1, <3>1, <3>2, <3>3
  <2>11. /\ Tidy(Tail(job.todo), used)
         /\ \A n \in DOMAIN Tail(job.todo) : Differ(line, Tail(job.todo)[n])
    BY <1>2, <1>3, <1>5, TidyTail DEF ExportAt
  <2>12. /\ Tidy(job.lines, used)
         /\ \A m \in DOMAIN job.lines, n \in DOMAIN job.todo :
              Differ(job.lines[m], job.todo[n])
    BY <1>3 DEF ExportAt
  <2>13. \A l : /\ Differ(read, l) <=> Differ(line, l)
                /\ Differ(l, read) <=> Differ(l, line)
                /\ Differ(l, line) <=> Differ(line, l)
    BY <2>5 DEF Differ, SameText
  <2> HIDE DEF line, d
  <2>14. Tidy(g.lines, used)
    <3>1. \A n \in DOMAIN g.lines : TidyLine(g.lines[n], used)
      BY <2>6, <2>8, <2>9, <2>12 DEF Tidy
    <3>2. \A n \in DOMAIN job.lines : Differ(job.lines[n], line)
      BY <2>1, <2>10, <2>12
    <3>3. ASSUME NEW m \in DOMAIN g.lines, NEW n \in DOMAIN g.lines, m # n
          PROVE  Differ(g.lines[m], g.lines[n])
      <4>1. CASE m \in DOMAIN job.lines /\ n \in DOMAIN job.lines
        BY <2>8, <2>12, <3>3, <4>1 DEF Tidy
      <4>2. CASE m \in DOMAIN job.lines /\ n \notin DOMAIN job.lines
        BY <2>8, <2>9, <2>13, <3>2, <4>2
      <4>3. CASE m \notin DOMAIN job.lines /\ n \in DOMAIN job.lines
        BY <2>8, <2>9, <2>13, <3>2, <4>3
      <4>4. CASE m \notin DOMAIN job.lines /\ n \notin DOMAIN job.lines
        BY <2>8, <3>3, <4>4
      <4> QED
        BY <4>1, <4>2, <4>3, <4>4
    <3> QED
      BY <3>1, <3>3 DEF Tidy
  <2>15. \A m \in DOMAIN g.lines, n \in DOMAIN g.todo :
           Differ(g.lines[m], g.todo[n])
    BY <2>7, <2>8, <2>9, <2>10, <2>11, <2>12, <2>13
  <2>16. ASSUME job.since = writes
         PROVE  Snapshot("export", g, d)
    <3>1. Snapshot("export", job, d)
      BY <1>3, <2>16 DEF ExportAt
    <3>2. Listed(d, read) /\ Labelled(d, read) /\ Linked(d, read)
      BY <2>1, <2>5, <2>10, <3>1 DEF Snapshot, Listed, Labelled, Linked
    <3>3. \A n \in DOMAIN g.lines : /\ Listed(d, g.lines[n])
                                    /\ Labelled(d, g.lines[n])
                                    /\ Linked(d, g.lines[n])
      BY <2>8, <2>9, <3>1, <3>2 DEF Snapshot
    <3>4. \A n \in DOMAIN g.todo : /\ Listed(d, g.todo[n])
                                   /\ Labelled(d, g.todo[n])
      BY <2>7, <2>10, <3>1 DEF Snapshot
    <3>5. ASSUME NEW i \in Ids, Live(d, i)
          PROVE  \/ \E n \in DOMAIN g.lines : g.lines[n].id = i
                 \/ \E n \in DOMAIN g.todo : g.todo[n].id = i
      <4>1. CASE \E n \in DOMAIN job.lines : job.lines[n].id = i
        <5>1. \A n \in DOMAIN job.lines : n \in DOMAIN g.lines
          BY <2>8
        <5> QED
          BY <2>8, <4>1, <5>1
      <4>2. CASE \E n \in DOMAIN job.todo : job.todo[n].id = i
        <5>1. \/ line.id = i
              \/ \E n \in DOMAIN g.todo : g.todo[n].id = i
          BY <2>7, <2>10, <4>2
        <5>2. Len(job.lines) + 1 \in DOMAIN g.lines
          BY <2>8
        <5> QED
          BY <2>5, <2>8, <5>1, <5>2
      <4> QED
        BY <3>1, <3>5, <4>1, <4>2 DEF Snapshot
    <3> QED
      BY <3>3, <3>4, <3>5 DEF Snapshot
  <2>17. ExportAt("export", g, d, used, writes)
    BY <1>3, <2>7, <2>11, <2>14, <2>15, <2>16 DEF ExportAt
  <2>18. JobOK("export", g, file, db, used, writes)
    BY <2>7, <2>17 DEF JobOK, d
  <2>19. pc' = "export" /\ job' = g
    BY <1>5 DEF Goto
  <2> QED
    BY <1>1, <1>5, <2>7, <2>18, <2>19, GotoKeeps
<1> QED
  BY <1>1, <1>4, <1>5

LEMMA StutterKeeps == IInv /\ UNCHANGED vars => IInv'
BY DEF vars, IInv, TypeOK

LEMMA NextKeeps == IInv /\ [Next]_vars => IInv'
<1> SUFFICES ASSUME IInv, [Next]_vars PROVE IInv'
  OBVIOUS
<1>1. CASE UNCHANGED vars
  BY <1>1, StutterKeeps
<1>2. CASE \E s \in Sites : \/ ExportList(s) \/ ImportBegin(s)
                            \/ BatchBegin(s) \/ Add(s) \/ Update(s)
                            \/ Delete(s) \/ Link(s)
  <2>1. PICK s \in Sites : \/ ExportList(s) \/ ImportBegin(s)
                           \/ BatchBegin(s) \/ Add(s) \/ Update(s)
                           \/ Delete(s) \/ Link(s)
    BY <1>2
  <2> QED
    BY <2>1, ExportListKeeps, ImportBeginKeeps, BatchBeginKeeps, AddKeeps,
       UpdateKeeps, DeleteKeeps, LinkKeeps
<1>3. CASE ExportLabels \/ ExportEdges \/ ImportEntry \/ ImportEdges
             \/ ImportCommit \/ BatchEntry \/ BatchCommit \/ Crash
  BY <1>3, ExportLabelsKeeps, ExportEdgesKeeps, ImportEntryKeeps,
     ImportEdgesKeeps, ImportCommitKeeps, BatchEntryKeeps, BatchCommitKeeps,
     CrashKeeps
<1> QED
  BY <1>1, <1>2, <1>3 DEF Next

LEMMA InvariantHolds == Spec => []IInv
<1> QED
  BY InitIInv, NextKeeps, PTL DEF Spec

-----------------------------------------------------------------------------
(***************************************************************************)
(* The theorems.                                                           *)
(***************************************************************************)
\* Everything that export, import and batch leave behind has the type that
\* the schema and the file format give it: no failed statement, no race with
\* another command and no crash leaves a row or a line half filled in
\* (cmd/export.go, cmd/import.go, cmd/batch.go).
THEOREM TransferIsTyped == Spec => []TypeOK
<1>1. IInv => TypeOK
  BY DEF IInv
<1> QED
  BY <1>1, InvariantHolds, PTL

\* Both knowledge bases stay consistent, whichever of the commands write to
\* them and however their transactions end (storage/sqlite/schema.go).
THEOREM TransferIsConsistent == Spec => [](\A s \in Sites : Consistent(db[s]))
<1>1. IInv => \A s \in Sites : Consistent(db[s])
  BY DEF IInv, SitesOK, Sound
<1> QED
  BY <1>1, InvariantHolds, PTL

\* Only ExportEdges writes a file, when nothing is left to read.
LEMMA ExportedIsDone ==
    ASSUME IInv, [Next]_vars, Exported
    PROVE  /\ job.todo = <<>> /\ file' = job.lines
           /\ ExportAt("export", job, db[job.site], used, writes)
<1>1. ASSUME NEW s \in Sites,
             ExportList(s) \/ ImportBegin(s) \/ BatchBegin(s) \/ Add(s)
               \/ Update(s) \/ Delete(s) \/ Link(s)
      PROVE  file' = file
  BY <1>1 DEF ExportList, ImportBegin, BatchBegin, Add, Update, Delete, Link,
              Edit
<1>2. ExportEdges
  BY <1>1 DEF Exported, Next, vars, ExportLabels, ImportEntry, ImportEdges,
              ImportCommit, BatchEntry, BatchCommit, Crash
<1>3. job.todo = <<>> /\ file' = job.lines
  BY <1>2 DEF ExportEdges, Exported
<1> QED
  BY <1>3 DEF Exported, IInv, JobOK

\* An export that nobody disturbs is the database, for any number of entries,
\* labels and edges, in whichever order equal creation times are listed
\* (cmd/export.go, sqlite ListEntries and EdgesFrom).
THEOREM ExportIsExact == Spec => ExportIsTheDatabase
<1> DEFINE d == db[job.site]
           lines == {file'[n] : n \in DOMAIN file'}
           Exact == Exported /\ job.since = writes =>
             /\ {l.id : l \in lines} = {i \in Ids : Live(d, i)}
             /\ \A l \in lines :
                  /\ d.entries[l.id] = l.row
                  /\ LabelsOf(d, l.id) = l.labels
             /\ {e \in EdgeIds : Present(d, e)}
                   = UNION {DOMAIN l.edges : l \in lines}
             /\ \A l \in lines : \A e \in DOMAIN l.edges :
                  l.edges[e] = d.edges[e] /\ l.edges[e].from = l.id
<1>1. ASSUME IInv, [Next]_vars, Exported, job.since = writes
      PROVE  Exact
  <2>1. /\ job.todo = <<>> /\ file' = job.lines
        /\ ExportAt("export", job, d, used, writes)
    BY <1>1, ExportedIsDone
  <2>2. Snapshot("export", job, d) /\ job.site \in Sites
    BY <1>1, <2>1 DEF ExportAt
  <2>3. DOMAIN job.todo = {}
    BY <2>1
  <2>4. job.lines \in Seq(Line) /\ d \in Database /\ Consistent(d)
    BY <1>1, <2>2 DEF IInv, TypeOK, Job, SitesOK, Sound
  <2>5. \A l \in lines : \E n \in DOMAIN job.lines : l = job.lines[n]
    BY <2>1
  <2>6. \A n \in DOMAIN job.lines : job.lines[n] \in lines
    BY <2>1
  <2> HIDE DEF lines, d
  <2>7. \A l \in lines : l \in Line /\ Listed(d, l) /\ Labelled(d, l)
                           /\ Linked(d, l)
    BY <2>2, <2>4, <2>5 DEF Snapshot
  <2>8. \A i \in Ids : Live(d, i) => \E l \in lines : l.id = i
    BY <2>2, <2>3, <2>6 DEF Snapshot
  <2>9. {l.id : l \in lines} = {i \in Ids : Live(d, i)}
    BY <2>7, <2>8 DEF Listed, Line
  <2>10. \A l \in lines : d.entries[l.id] = l.row /\ LabelsOf(d, l.id) = l.labels
    BY <2>7 DEF Listed, Labelled
  <2>11. \A l \in lines : \A e \in DOMAIN l.edges :
           /\ e \in EdgeIds /\ Present(d, e)
           /\ l.edges[e] = d.edges[e] /\ l.edges[e].from = l.id
    <3> SUFFICES ASSUME NEW l \in lines, NEW e \in DOMAIN l.edges
                 PROVE  /\ e \in EdgeIds /\ Present(d, e)
                        /\ l.edges[e] = d.edges[e]
                        /\ l.edges[e].from = l.id
      OBVIOUS
    <3>1. l.edges = [x \in EdgesFrom(d, l.id) |-> d.edges[x]]
      BY <2>7 DEF Linked
    <3>2. e \in EdgesFrom(d, l.id) /\ l.edges[e] = d.edges[e]
      BY <3>1
    <3> QED
      BY <3>2 DEF EdgesFrom
  <2>12. ASSUME NEW e \in EdgeIds, Present(d, e)
         PROVE  \E l \in lines : e \in DOMAIN l.edges
    <3>1. d.edges[e].from \in Ids /\ Live(d, d.edges[e].from)
      BY <2>4, <2>12 DEF Database, Edge, Present, Consistent, EdgesAnchored
    <3>2. PICK l \in lines : l.id = d.edges[e].from
      BY <2>8, <3>1
    <3>3. e \in EdgesFrom(d, l.id)
      BY <2>12, <3>2 DEF EdgesFrom
    <3> QED
      BY <2>7, <3>3 DEF Linked
  <2>13. {e \in EdgeIds : Present(d, e)} = UNION {DOMAIN l.edges : l \in lines}
    BY <2>11, <2>12
  <2> QED
    BY <2>9, <2>10, <2>11, <2>13
<1>2. IInv /\ [Next]_vars => [Exact]_vars
  BY <1>1
<1>3. ExportIsTheDatabase <=> [][Exact]_vars
  BY PTL DEF ExportIsTheDatabase
<1> HIDE DEF Exact
<1> QED
  BY <1>2, <1>3, InvariantHolds, PTL DEF Spec

\* What an import leaves is its transaction's work, with every line done.
LEMMA ImportedIsDone ==
    ASSUME IInv, [Next]_vars, Imported
    PROVE  /\ file \in Seq(Line)
           /\ db'[job.site] = job.work
           /\ ~(Postgres /\ job.aborted)
           /\ \E k \in Nat : /\ 1..k = DOMAIN file
                             /\ ImportAt(job, file, db[job.site], used, k, k)
<1>1. ASSUME NEW s \in Sites,
             ExportList(s) \/ ImportBegin(s) \/ BatchBegin(s) \/ Add(s)
               \/ Update(s) \/ Delete(s) \/ Link(s)
      PROVE  db' = db \/ pc' = pc
  BY <1>1 DEF ExportList, ImportBegin, BatchBegin, Add, Update, Delete, Link,
              Edit
<1>2. ASSUME ImportEntry PROVE db' = db
  BY <1>2 DEF ImportEntry
<1>3. ImportCommit
  BY <1>1, <1>2 DEF Imported, Next, vars, ExportLabels, ExportEdges,
                    ImportEdges, BatchEntry, BatchCommit, Crash
<1>4. /\ file \in Seq(Line) /\ job.todo = <<>>
      /\ db \in [Sites -> Database]
  BY <1>3 DEF IInv, TypeOK, ImportCommit
<1>5. PICK k \in Nat : ImportAt(job, file, db[job.site], used, k, k)
  BY <1>3 DEF IInv, JobOK, ImportCommit
<1>6. job.site \in Sites /\ Ahead(file, job.todo, k)
  BY <1>5 DEF ImportAt
<1>7. 1..k = DOMAIN file
  BY <1>4, <1>6, AllBehind
<1>8. /\ ~(Postgres /\ job.aborted)
      /\ db' = [db EXCEPT ![job.site] = job.work]
  BY <1>3 DEF ImportCommit, Commit, Imported
<1>9. db'[job.site] = job.work
  BY <1>4, <1>6, <1>8
<1> QED
  BY <1>4, <1>5, <1>7, <1>8, <1>9

\* An import brings in the whole file or nothing of it: an upsert of a later
\* line undoes none of an earlier one, because no two lines of an export have
\* a text in a scope in common (cmd/import.go runImport).
THEOREM ImportIsWhole == Spec => ImportBringsEveryEntry
<1> DEFINE Whole == Imported =>
             \A n \in DOMAIN file :
                LET d == db'[job.site]
                    h == Holders(d, file[n].row.content, file[n].row.scope)
                IN  /\ h # {}
                    /\ \A i \in h :
                         /\ d.entries[i].title = file[n].row.title
                         /\ file[n].labels # {}
                              => LabelsOf(d, i) = file[n].labels
<1>1. ASSUME IInv, [Next]_vars, Imported
      PROVE  Whole
  <2>1. /\ db'[job.site] = job.work
        /\ \E k \in Nat : /\ 1..k = DOMAIN file
                          /\ ImportAt(job, file, db[job.site], used, k, k)
    BY <1>1, ImportedIsDone
  <2>2. \A n \in DOMAIN file : Brought(job.work, file[n])
    BY <2>1 DEF ImportAt, EntriesDone
  <2> QED
    BY <2>1, <2>2 DEF Brought, HoldersOf
<1>2. IInv /\ [Next]_vars => [Whole]_vars
  BY <1>1
<1>3. ImportBringsEveryEntry <=> [][Whole]_vars
  BY PTL DEF ImportBringsEveryEntry
<1> HIDE DEF Whole
<1> QED
  BY <1>2, <1>3, InvariantHolds, PTL DEF Spec

\* The edges that an import leaves out are explained: their target came later
\* in the file, or one of their ends is known here under another id
\* (cmd/import.go runImport, "skipping edge").
THEOREM ImportLossIsExplained == Spec => ImportLosesOnlyForwardEdges
<1> DEFINE Explained == Imported =>
             \A n \in DOMAIN file : \A e \in DOMAIN file[n].edges :
                LET edge == file[n].edges[e]
                    d == db'[job.site]
                IN  /\ Live(d, edge.from) /\ Live(d, edge.to)
                    /\ \/ Live(db[job.site], edge.to)
                       \/ \E m \in 1..n : file[m].id = edge.to
                    => Present(d, e)
<1>1. ASSUME IInv, [Next]_vars, Imported
      PROVE  Explained
  <2>1. /\ db'[job.site] = job.work
        /\ \E k \in Nat : /\ 1..k = DOMAIN file
                          /\ ImportAt(job, file, db[job.site], used, k, k)
    BY <1>1, ImportedIsDone
  <2>2. \A n \in DOMAIN file : \A e \in DOMAIN file[n].edges :
          EdgeDone(job.work, db[job.site], file, n, e)
    BY <2>1 DEF ImportAt, EdgesDone
  <2> QED
    BY <2>1, <2>2 DEF EdgeDone
<1>2. IInv /\ [Next]_vars => [Explained]_vars
  BY <1>1
<1>3. ImportLosesOnlyForwardEdges <=> [][Explained]_vars
  BY PTL DEF ImportLosesOnlyForwardEdges
<1> HIDE DEF Explained
<1> QED
  BY <1>2, <1>3, InvariantHolds, PTL DEF Spec

\* On PostgreSQL the same import commits with every edge or not at all: an
\* edge that could not be restored has aborted the transaction
\* (storage/postgres/postgres.go WithTx).
THEOREM PostgresImportIsWhole == Spec => PostgresImportsAllEdges
<1> DEFINE Whole == Imported /\ Postgres =>
             \A n \in DOMAIN file : \A e \in DOMAIN file[n].edges :
                db'[job.site].edges[e] = file[n].edges[e]
<1>1. ASSUME IInv, [Next]_vars, Imported, Postgres
      PROVE  Whole
  <2>1. /\ db'[job.site] = job.work
        /\ ~job.aborted
        /\ \E k \in Nat : /\ 1..k = DOMAIN file
                          /\ ImportAt(job, file, db[job.site], used, k, k)
    BY <1>1, ImportedIsDone
  <2>2. \A n \in DOMAIN file : \A e \in DOMAIN file[n].edges :
          job.work.edges[e] = file[n].edges[e]
    BY <1>1, <2>1 DEF ImportAt, AllEdges, Postgres
  <2> QED
    BY <2>1, <2>2
<1>2. IInv /\ [Next]_vars => [Whole]_vars
  BY <1>1
<1>3. PostgresImportsAllEdges <=> [][Whole]_vars
  BY PTL DEF PostgresImportsAllEdges
<1> HIDE DEF Whole
<1> QED
  BY <1>2, <1>3, InvariantHolds, PTL DEF Spec

\* A batch of any length that commits has written every line it does not
\* report: with its labels, unless a line with the same text took their place
\* (cmd/batch.go: "individual entry failures are logged as warnings").
THEOREM BatchIsBestEffort == Spec => BatchWritesTheRest
<1> DEFINE d == db'[job.site]
           lines == {job.lines[n] : n \in DOMAIN job.lines}
           same(l) == {k \in lines : /\ k.row.content = l.row.content
                                     /\ k.row.scope = l.row.scope}
           Ended == pc = "batch" /\ pc' = "idle" /\ db' # db
           Rest == Ended =>
             /\ Postgres => job.failed = {}
             /\ \A l \in lines \ job.failed :
                  \E i \in Holders(d, l.row.content, l.row.scope) :
                     same(l) = {l} => l.labels \subseteq LabelsOf(d, i)
<1>1. ASSUME IInv, [Next]_vars, Ended
      PROVE  Rest
  <2>1. ASSUME NEW s \in Sites,
               ExportList(s) \/ ImportBegin(s) \/ BatchBegin(s) \/ Add(s)
                 \/ Update(s) \/ Delete(s) \/ Link(s)
        PROVE  db' = db \/ pc' = pc
    BY <2>1 DEF ExportList, ImportBegin, BatchBegin, Add, Update, Delete,
                Link, Edit
  <2>2. ASSUME ImportEntry PROVE db' = db
    BY <2>2 DEF ImportEntry
  <2>3. BatchCommit
    BY <1>1, <2>1, <2>2 DEF Next, vars, ExportLabels, ExportEdges,
                            ImportEdges, ImportCommit, BatchEntry, Crash
  <2>4. /\ job.lines \in Seq(Line) /\ job.todo = <<>>
        /\ db \in [Sites -> Database]
    BY <1>1, <2>3 DEF IInv, TypeOK, Job, BatchCommit
  <2>5. PICK k \in Nat : BatchAt(job, used, k)
    BY <1>1 DEF IInv, JobOK
  <2>6. job.site \in Sites /\ Ahead(job.lines, job.todo, k)
    BY <2>5 DEF BatchAt
  <2>7. 1..k = DOMAIN job.lines
    BY <2>4, <2>6, AllBehind
  <2>8. /\ ~(Postgres /\ job.aborted)
        /\ db' = [db EXCEPT ![job.site] = job.work]
    BY <1>1, <2>3 DEF BatchCommit, Commit
  <2>9. d = job.work
    BY <2>4, <2>6, <2>8
  <2>10. Postgres => job.failed = {}
    BY <2>5, <2>8 DEF BatchAt
  <2>11. ASSUME NEW l \in lines \ job.failed
         PROVE  \E i \in Holders(d, l.row.content, l.row.scope) :
                   same(l) = {l} => l.labels \subseteq LabelsOf(d, i)
    <3>1. Written(job.work, job.lines, l)
      BY <2>5, <2>7 DEF BatchAt
    <3>2. PICK i \in HoldersOf(job.work, l) :
            (\A n \in DOMAIN job.lines : SameText(job.lines[n], l)
                                           => job.lines[n] = l)
              => l.labels \subseteq LabelsOf(job.work, i)
      BY <3>1 DEF Written
    <3>3. ASSUME same(l) = {l}, NEW n \in DOMAIN job.lines,
                 SameText(job.lines[n], l)
          PROVE  job.lines[n] = l
      <4>1. job.lines[n] \in same(l)
        BY <3>3 DEF SameText
      <4> QED
        BY <3>3, <4>1
    <3>4. i \in Holders(d, l.row.content, l.row.scope)
      BY <2>9, <3>2 DEF HoldersOf
    <3>5. same(l) = {l} => l.labels \subseteq LabelsOf(d, i)
      <4> HIDE DEF same, d
      <4> QED
        BY <2>9, <3>2, <3>3
    <3> QED
      BY <3>4, <3>5
  <2> QED
    BY <2>10, <2>11
<1>2. IInv /\ [Next]_vars => [Rest]_vars
  BY <1>1
<1>3. BatchWritesTheRest <=> [][Rest]_vars
  BY PTL DEF BatchWritesTheRest
<1> HIDE DEF Rest
<1> QED
  BY <1>2, <1>3, InvariantHolds, PTL DEF Spec
=============================================================================
