--------------------------- MODULE KnownTransfer ---------------------------
(***************************************************************************)
(* known export, known import and known add --batch.                       *)
(*                                                                         *)
(* Two knowledge bases and the file that is carried between them, while    *)
(* other commands edit both.  export reads with one statement after the    *)
(* other and no transaction; import and the batch write in one transaction *)
(* and go on after some errors.  What that means depends on the backend: a *)
(* failed statement leaves a SQLite transaction usable, while PostgreSQL   *)
(* refuses every later statement of it, and its COMMIT.                    *)
(*                                                                         *)
(* A transaction has its database to itself here; how transactions         *)
(* interleave is the subject of KnownCommands and KnownPostgres.           *)
(***************************************************************************)
EXTENDS KnownDB, FiniteSets

CONSTANTS
    Sites,       \* the knowledge bases
    Backend,     \* Backend[s]: "sqlite" or "postgres"
    MaxWrites,    \* bound: imports, batches and edits
    MaxBatch,    \* bound: lines of a batch
    MaxVersion   \* bound: no row is edited past this version

\* There are only so many ids: a ULID has 128 bits.
ASSUME TransferAssumption ==
    /\ IsFiniteSet(Ids)
    /\ Backend \in [Sites -> {"sqlite", "postgres"}]
    /\ MaxWrites \in Nat /\ MaxBatch \in Nat /\ MaxVersion \in Nat

VARIABLES
    db,     \* db[s]: what is committed at site s
    file,   \* the lines of the last export
    writes, \* commands that wrote so far; the created_at of their rows
    used,   \* every entry id that was ever drawn
    pc,     \* where the transfer is
    job     \* what it remembers between two statements

vars == <<db, file, writes, used, pc, job>>

-----------------------------------------------------------------------------
\* exportEntry: an entry with its labels and its outgoing edges, by edge id.
EdgeLine == UNION {[es -> Edge] : es \in SUBSET EdgeIds}

Line == [id : Ids, row : Row, labels : SUBSET Labels, edges : EdgeLine,
         repeats : BOOLEAN]

Job == [site : Sites \cup {Null}, lines : Seq(Line), todo : Seq(Line),
        work : Database, aborted : BOOLEAN, failed : SUBSET Line,
        since : Nat]

NoJob == [site |-> Null, lines |-> <<>>, todo |-> <<>>,
          work |-> EmptyDatabase, aborted |-> FALSE, failed |-> {},
          since |-> 0]

TypeOK == /\ db \in [Sites -> Database]
          /\ file \in Seq(Line)
          /\ writes \in Nat
          /\ used \in SUBSET Ids
          /\ pc \in {"idle", "exportLabels", "export", "import",
                     "importEdges", "batch"}
          /\ job \in Job

Init == /\ db = [s \in Sites |-> EmptyDatabase]
        /\ file = <<>>
        /\ writes = 0
        /\ used = {}
        /\ pc = "idle"
        /\ job = NoJob

Goto(loc, j) == pc' = loc /\ job' = j

Exit == Goto("idle", NoJob)

-----------------------------------------------------------------------------
(***************************************************************************)
(* known export: List, whose labels come from a second query, then         *)
(* EdgesFrom for one entry after the other.  The document is written last. *)
(***************************************************************************)
NewestFirst(d, ids) ==
    {q \in [1..Cardinality(ids) -> ids] :
       /\ \A m, n \in DOMAIN q : m # n => q[m] # q[n]
       /\ \A m, n \in DOMAIN q :
            m < n => d.entries[q[m]].created >= d.entries[q[n]].created}

ExportList(s) ==
    /\ pc = "idle"
    /\ LET d == db[s]
       IN  \E q \in NewestFirst(d, {i \in Ids : Live(d, i)}) :
             Goto("exportLabels",
                  [NoJob EXCEPT !.site = s, !.since = writes,
                     !.todo = [n \in DOMAIN q |->
                                 [id |-> q[n], row |-> d.entries[q[n]],
                                  labels |-> {}, edges |-> <<>>,
                                  repeats |-> FALSE]]])
    /\ UNCHANGED <<db, file, writes, used>>

ExportLabels ==
    /\ pc = "exportLabels"
    /\ Goto("export",
            [job EXCEPT !.todo = [n \in DOMAIN job.todo |->
               [job.todo[n] EXCEPT
                  !.labels = LabelsOf(db[job.site], job.todo[n].id)]]])
    /\ UNCHANGED <<db, file, writes, used>>

EdgesAt(d, i) == {e \in EdgeIds : Present(d, e) /\ d.edges[e].to = i}
EdgesFrom(d, i) == {e \in EdgeIds : Present(d, e) /\ d.edges[e].from = i}

ExportEdges ==
    /\ pc = "export"
    /\ \/ /\ job.todo # <<>>
          /\ LET line == Head(job.todo)
                 d == db[job.site]
             IN  Goto("export",
                      [job EXCEPT !.todo = Tail(@),
                         !.lines = Append(@,
                            [line EXCEPT !.edges =
                               [e \in EdgesFrom(d, line.id) |-> d.edges[e]]])])
          /\ UNCHANGED file
       \/ /\ job.todo = <<>>
          /\ file' = job.lines
          /\ Exit
    /\ UNCHANGED <<db, writes, used>>

-----------------------------------------------------------------------------
(***************************************************************************)
(* known import: each entry with its old id and version, then its edges.   *)
(***************************************************************************)
Postgres == Backend[job.site] = "postgres"

\* WithTx: COMMIT, which Postgres answers with an error if a statement of
\* the transaction has failed.
Commit == db' = IF Postgres /\ job.aborted THEN db
                ELSE [db EXCEPT ![job.site] = job.work]

ImportBegin(s) ==
    /\ pc = "idle" /\ file # <<>>
    /\ writes < MaxWrites
    /\ writes' = writes + 1
    /\ Goto("import", [NoJob EXCEPT !.site = s, !.todo = file,
                                    !.work = db[s]])
    /\ UNCHANGED <<db, file, used>>

\* An id that has another content or scope by now violates the primary key,
\* and the error rolls everything back.
ImportRefused(line) ==
    \/ Postgres /\ job.aborted
    \/ ~CanUpsert(job.work, line.id, line.row)

ImportSkipsRefused ==
    /\ pc = "import" /\ job.todo # <<>>
    /\ LET line == Head(job.todo)
       IN  IF ImportRefused(line)
           THEN Goto("import", [job EXCEPT !.todo = Tail(@)])
           ELSE Goto("importEdges",
                     [job EXCEPT !.work =
                        CreateOrUpdate(@, line.id, line.row, line.labels)])
    /\ UNCHANGED <<db, file, writes, used>>
ImportEntry ==
    /\ pc = "import" /\ job.todo # <<>>
    /\ LET line == Head(job.todo)
       IN  IF ImportRefused(line) THEN Exit
           ELSE Goto("importEdges",
                     [job EXCEPT !.work =
                        CreateOrUpdate(@, line.id, line.row, line.labels)])
    /\ UNCHANGED <<db, file, writes, used>>

\* Both ends must be there, and the edge must not.
CanRestore(d, e, edge) ==
    ~Present(d, e) /\ Live(d, edge.from) /\ Live(d, edge.to)

RestoreEdges(d, edges) ==
    [d EXCEPT !.edges = [e \in EdgeIds |->
        IF e \in DOMAIN edges /\ CanRestore(d, e, edges[e])
        THEN edges[e] ELSE @[e]]]

\* The edges of a file name its ids, but an entry whose content is known
\* here keeps the id it has.  A warning, and on to the next one.
ImportEdgesQuietly ==
    /\ pc = "importEdges"
    /\ LET edges == Head(job.todo).edges
       IN  Goto("import", [job EXCEPT !.work = RestoreEdges(@, edges),
                                      !.todo = Tail(@)])
    /\ UNCHANGED <<db, file, writes, used>>
ImportEdgesOutsideTx ==
    /\ pc = "importEdges"
    /\ LET edges == Head(job.todo).edges
           known == {e \in DOMAIN edges :
                       CanRestore(db[job.site], e, edges[e])}
       IN  Goto("import", [job EXCEPT
              !.work = RestoreEdges(@, [e \in known |-> edges[e]]),
              !.todo = Tail(@)])
    /\ UNCHANGED <<db, file, writes, used>>
ImportEdges ==
    /\ pc = "importEdges"
    /\ LET edges == Head(job.todo).edges
           fails == \E e \in DOMAIN edges :
                       ~CanRestore(job.work, e, edges[e])
       IN  Goto("import", [job EXCEPT !.work = RestoreEdges(@, edges),
                                      !.aborted = @ \/ fails,
                                      !.todo = Tail(@)])
    /\ UNCHANGED <<db, file, writes, used>>

ImportCommit ==
    /\ pc = "import" /\ job.todo = <<>>
    /\ Commit
    /\ Exit
    /\ UNCHANGED <<file, writes, used>>

-----------------------------------------------------------------------------
(***************************************************************************)
(* known add --batch: the lines of standard input, with ids drawn here,    *)
(* each by CreateOrUpdate.  A label that a line repeats is refused by the  *)
(* primary key of entry_labels.                                            *)
(***************************************************************************)
NewLines(free) ==
    {[id |-> i, labels |-> ls, edges |-> <<>>, repeats |-> r,
      row |-> [content |-> c, scope |-> s, title |-> t, created |-> writes,
               expires |-> Null, version |-> 1]] :
       i \in free, ls \in SUBSET Labels, c \in Contents, s \in Paths,
       t \in Titles, r \in BOOLEAN}

BatchBegin(s) ==
    /\ pc = "idle" /\ writes < MaxWrites
    /\ \E n \in 1..MaxBatch : \E lines \in [1..n -> NewLines(Ids \ used)] :
         /\ \A a, b \in 1..n : a # b => lines[a].id # lines[b].id
         /\ \A a \in 1..n : lines[a].repeats => lines[a].labels # {}
         /\ used' = used \cup {lines[a].id : a \in 1..n}
         /\ Goto("batch", [NoJob EXCEPT !.site = s, !.todo = lines,
                                        !.lines = lines, !.work = db[s]])
    /\ writes' = writes + 1
    /\ UNCHANGED <<db, file>>

\* What a refused label leaves behind in the transaction: the scopes, the
\* row, and the labels up to the repeated one instead of the old ones.
HalfWritten(d, line) ==
    {SaveLabels(CreateOrUpdate(d, line.id, line.row, {}),
                UpsertTarget(d, line.id, line.row), ls) :
       ls \in (SUBSET line.labels) \ {{}}}

BatchStopsAtFailure ==
    /\ pc = "batch" /\ job.todo # <<>>
    /\ LET line == Head(job.todo)
       IN  IF line.repeats
           THEN Goto("batch", [job EXCEPT !.todo = <<>>, !.failed = @ \cup {line}])
           ELSE Goto("batch",
                  [job EXCEPT !.todo = Tail(@),
                     !.work = CreateOrUpdate(@, line.id, line.row, line.labels)])
    /\ UNCHANGED <<db, file, writes, used>>
BatchEntry ==
    /\ pc = "batch" /\ job.todo # <<>>
    /\ LET line == Head(job.todo)
           skipped == [job EXCEPT !.todo = Tail(@), !.failed = @ \cup {line}]
       IN  IF Postgres /\ job.aborted THEN Goto("batch", skipped)
           ELSE IF line.repeats
           THEN \E w \in HalfWritten(job.work, line) :
                  Goto("batch", [skipped EXCEPT !.work = w, !.aborted = TRUE])
           ELSE Goto("batch",
                  [job EXCEPT !.todo = Tail(@),
                     !.work = CreateOrUpdate(@, line.id, line.row, line.labels)])
    /\ UNCHANGED <<db, file, writes, used>>

BatchCommit ==
    /\ pc = "batch" /\ job.todo = <<>>
    /\ Commit
    /\ Exit
    /\ UNCHANGED <<file, writes, used>>

-----------------------------------------------------------------------------
(***************************************************************************)
(* Other commands, which find the database between two statements of an    *)
(* export and not within a transaction.                                    *)
(***************************************************************************)
Editable(s) == /\ writes < MaxWrites
               /\ ~(job.site = s /\ pc \in {"import", "importEdges", "batch"})

Edit(s, d) == /\ Editable(s)
              /\ db' = [db EXCEPT ![s] = d]
              /\ writes' = writes + 1
              /\ UNCHANGED <<file, pc, job>>

Add(s) ==
    \E line \in NewLines(Ids \ used) :
        /\ ~line.repeats
        /\ Edit(s, CreateOrUpdate(db[s], line.id, line.row, line.labels))
        /\ used' = used \cup {line.id}

Update(s) ==
    /\ \E i \in Ids, c \in Contents, t \in Titles :
         /\ Live(db[s], i) /\ db[s].entries[i].version < MaxVersion
         /\ LET row == [db[s].entries[i] EXCEPT !.content = c, !.title = t]
            IN  CanUpdate(db[s], i, row) /\ Edit(s, UpdateRow(db[s], i, row))
    /\ UNCHANGED used

Delete(s) ==
    /\ \E i \in Ids : Live(db[s], i) /\ Edit(s, DeleteEntries(db[s], {i}))
    /\ UNCHANGED used

Link(s) ==
    /\ \E i, j \in Ids, type \in EdgeTypes :
         \E name \in [{<<j, type>>} -> EdgeIds] :
            /\ CanInsertEdges(db[s], i, name)
            /\ \A q \in Sites : \A l \in DOMAIN name : ~Present(db[q], name[l])
            /\ Edit(s, InsertEdges(db[s], i, name, Null))
    /\ UNCHANGED used

\* The transfer is killed: nothing of it is committed or written.
Crash == /\ pc # "idle"
         /\ Exit
         /\ UNCHANGED <<db, file, writes, used>>

Next ==
    \/ \E s \in Sites : \/ ExportList(s) \/ ImportBegin(s) \/ BatchBegin(s)
                        \/ Add(s) \/ Update(s) \/ Delete(s) \/ Link(s)
    \/ ExportLabels \/ ExportEdges
    \/ ImportEntry \/ ImportEdges \/ ImportCommit
    \/ BatchEntry \/ BatchCommit
    \/ Crash

Spec == Init /\ [][Next]_vars

-----------------------------------------------------------------------------
(***************************************************************************)
(* Properties.                                                             *)
(***************************************************************************)
Exported == pc = "export" /\ file' # file
Imported == pc = "import" /\ pc' = "idle" /\ db' # db

\* When nobody writes during an export, its lines are the database: every
\* entry, label and edge of it, and nothing else, whatever order equal
\* creation times are listed in (cmd/export.go, "export everything").
ExportIsTheDatabase ==
    [][LET d == db[job.site]
           lines == {file'[n] : n \in DOMAIN file'}
       IN  Exported /\ job.since = writes =>
             /\ {l.id : l \in lines} = {i \in Ids : Live(d, i)}
             /\ \A l \in lines :
                  /\ d.entries[l.id] = l.row
                  /\ LabelsOf(d, l.id) = l.labels
             /\ {e \in EdgeIds : Present(d, e)}
                   = UNION {DOMAIN l.edges : l \in lines}
             /\ \A l \in lines : \A e \in DOMAIN l.edges :
                  l.edges[e] = d.edges[e] /\ l.edges[e].from = l.id]_vars

\* An import brings in every line of the file or none of them, also when an
\* entry was edited, deleted or added on either side since the export
\* (cmd/import.go runImport; DB.WithTx).
ImportBringsEveryEntry ==
    [][Imported =>
         \A n \in DOMAIN file :
            LET d == db'[job.site]
                h == Holders(d, file[n].row.content, file[n].row.scope)
            IN  /\ h # {}
                /\ \A i \in h :
                     /\ d.entries[i].title = file[n].row.title
                     /\ file[n].labels # {} => LabelsOf(d, i) = file[n].labels]_vars

\* The edges that an import loses are those that point forward in the file,
\* at an entry that neither the database nor an earlier line has, and those
\* whose entry is known here under another id (cmd/import.go runImport).
ImportLosesOnlyForwardEdges ==
    [][Imported =>
         \A n \in DOMAIN file : \A e \in DOMAIN file[n].edges :
            LET edge == file[n].edges[e]
                d == db'[job.site]
            IN  /\ Live(d, edge.from) /\ Live(d, edge.to)
                /\ \/ Live(db[job.site], edge.to)
                   \/ \E m \in 1..n : file[m].id = edge.to
                => Present(d, e)]_vars

\* On PostgreSQL an import that commits has lost nothing: where SQLite goes
\* on without an edge, nothing at all is imported (storage/postgres WithTx).
PostgresImportsAllEdges ==
    [][Imported /\ Postgres =>
         \A n \in DOMAIN file : \A e \in DOMAIN file[n].edges :
            db'[job.site].edges[e] = file[n].edges[e]]_vars

\* A batch that writes anything writes every line that it does not report
\* as failed; on PostgreSQL a line that fails takes all of them with it
\* (cmd/batch.go: "Best-effort: individual entry failures are logged as
\* warnings, not rolled back").
BatchWritesTheRest ==
    [][pc = "batch" /\ pc' = "idle" /\ db' # db =>
         LET d == db'[job.site]
             lines == {job.lines[n] : n \in DOMAIN job.lines}
             same(l) == {k \in lines : /\ k.row.content = l.row.content
                                       /\ k.row.scope = l.row.scope}
         IN  /\ Postgres => job.failed = {}
             /\ \A l \in lines \ job.failed :
                  \E i \in Holders(d, l.row.content, l.row.scope) :
                     same(l) = {l} => l.labels \subseteq LabelsOf(d, i)]_vars
=============================================================================
