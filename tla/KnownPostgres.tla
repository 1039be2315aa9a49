--------------------------- MODULE KnownPostgres ---------------------------
(***************************************************************************)
(* Concurrent `known` processes on the PostgreSQL backend.                 *)
(*                                                                         *)
(* Unlike SQLite, the server runs the statements of different transactions *)
(* side by side at READ COMMITTED: a statement sees what is committed and  *)
(* what its own transaction wrote, a row written by an open transaction is *)
(* locked until that ends, and a referenced row is share-locked by the row *)
(* that refers to it.  A statement that must wait is a step that is not    *)
(* enabled yet: it looks at the rows again when it goes on.                *)
(*                                                                         *)
(* Where a store method opens a transaction (EntryStore.withTx, DB.WithTx) *)
(* every statement of it is a step, and so is the COMMIT; elsewhere every  *)
(* statement commits by itself.                                            *)
(***************************************************************************)
EXTENDS KnownDB

CONSTANTS
    Procs,       \* processes that may run at the same time
    Runs,        \* Runs[p]: the commands process p runs
    TTLs,        \* values of --ttl
    LtreeLabel,  \* LtreeLabel[s]: segment s with every `-` turned into `__`
    MaxNow,      \* bound: the clock stops here
    MaxVersion   \* bound: no entry is written past this version

ASSUME PostgresAssumption ==
    /\ DOMAIN Runs = Procs
    /\ TTLs \subseteq Nat
    /\ MaxNow \in Nat /\ MaxVersion \in Nat
    /\ DOMAIN LtreeLabel = Segments

VARIABLES
    db,    \* what is committed
    tx,    \* tx[p]: what the transaction of p has written and locked
    now,   \* NOW()
    used,  \* every entry id that was ever drawn
    pc,    \* pc[p]: where process p is in its command
    job    \* job[p]: what process p remembers between two statements

vars == <<db, tx, now, used, pc, job>>

-----------------------------------------------------------------------------
(***************************************************************************)
(* Rows, and what an open transaction knows of them.                       *)
(***************************************************************************)
ScopeRow(s)    == <<"scope", s>>
EntryRow(i)    == <<"entry", i>>
LabelRow(x)    == <<"label", x[1], x[2]>>
EdgeRow(e)     == <<"edge", e>>

\* The rows in which two databases differ.
Changed(d, w) ==
    {ScopeRow(s) : s \in (d.scopes \ w.scopes) \cup (w.scopes \ d.scopes)}
    \cup {EntryRow(i) : i \in {k \in Ids : d.entries[k] # w.entries[k]}}
    \cup {LabelRow(x) : x \in (d.labels \ w.labels) \cup (w.labels \ d.labels)}
    \cup {EdgeRow(e) : e \in {k \in EdgeIds : d.edges[k] # w.edges[k]}}

\* The database with those of its rows that are in `rows` taken from w.
Overlay(d, w, rows) ==
    [scopes  |-> {s \in d.scopes : ScopeRow(s) \notin rows}
                   \cup {s \in w.scopes : ScopeRow(s) \in rows},
     entries |-> [i \in Ids |-> IF EntryRow(i) \in rows
                                THEN w.entries[i] ELSE d.entries[i]],
     labels  |-> {x \in d.labels : LabelRow(x) \notin rows}
                   \cup {x \in w.labels : LabelRow(x) \in rows},
     edges   |-> [e \in EdgeIds |-> IF EdgeRow(e) \in rows
                                    THEN w.edges[e] ELSE d.edges[e]]]

NoTx   == [open |-> FALSE, written |-> {}, image |-> EmptyDatabase,
           shared |-> {}]
Opened == [NoTx EXCEPT !.open = TRUE]

\* What process p sees.
View(p) == IF tx[p].written = {} THEN db
           ELSE Overlay(db, tx[p].image, tx[p].written)

Others(p) == Procs \ {p}

LockedByOthers(p) == UNION {tx[q].written : q \in Others(p)}
SharedByOthers(p) == UNION {tx[q].shared : q \in Others(p)}

\* Rows that another transaction has deleted and not yet committed.
Vanishing(p) ==
    UNION {{r \in tx[q].written :
              /\ r[1] = "scope" => r[2] \notin tx[q].image.scopes
              /\ r[1] = "entry" => tx[q].image.entries[r[2]] = Null
              /\ r[1] \in {"scope", "entry"}} : q \in Others(p)}

\* Another transaction is about to give, or to take, a row with this
\* content_hash and scope: the UNIQUE index makes the statement wait.
KeyInDoubt(p, content, scope) ==
    \E q \in Others(p), i \in Ids :
        /\ EntryRow(i) \in tx[q].written
        /\ i \in Holders(db, content, scope)
                   \cup Holders(tx[q].image, content, scope)

Removed(d, w) ==
    {ScopeRow(s) : s \in d.scopes \ w.scopes}
    \cup {EntryRow(i) : i \in {k \in Ids : Live(d, k) /\ ~Live(w, k)}}

\* The statement that turns View(p) into w and leaves rows behind that refer
\* to the rows `parents`: in the transaction of p if it has one, committed
\* at once otherwise.
Execute(p, w, parents) ==
    LET d == View(p)
        written == tx[p].written \cup Changed(d, w)
    IN  /\ Changed(d, w) \cap LockedByOthers(p) = {}
        /\ Removed(d, w) \cap SharedByOthers(p) = {}
        /\ parents \cap Vanishing(p) = {}
        /\ IF tx[p].open
           THEN /\ tx' = [tx EXCEPT ![p] =
                           [open    |-> TRUE,
                            written |-> written,
                            image   |-> Overlay(EmptyDatabase, w, written),
                            shared  |-> tx[p].shared \cup parents]]
                /\ UNCHANGED db
           ELSE db' = w /\ UNCHANGED tx

-----------------------------------------------------------------------------
(***************************************************************************)
(* Processes.                                                              *)
(***************************************************************************)
Links == Ids \X EdgeTypes

Job == [id : Ids \cup {Null}, base : Row \cup {Null}, want : Row \cup {Null},
        labels : SUBSET Labels, todo : SUBSET Labels,
        path : Paths \cup {Null}, done : Nat, links : SUBSET Links,
        entries : SUBSET Ids, scopes : SUBSET Paths]

NoJob == [id |-> Null, base |-> Null, want |-> Null,
          labels |-> {}, todo |-> {}, path |-> Null, done |-> 0,
          links |-> {}, entries |-> {}, scopes |-> {}]

Locations == {"idle", "scope", "upsert", "addClear", "addLabels",
              "addLinks", "commit", "updateRead", "updateRow", "updateClear",
              "updateLabels", "delete", "link", "gcScopes", "scopeDelete",
              "treeList", "treeEntries", "treeScopes"}

Pending == [open : BOOLEAN, image : Database,
            written : SUBSET ({"scope"} \X Paths \cup {"entry"} \X Ids
                              \cup {"label"} \X Ids \X Labels
                              \cup {"edge"} \X EdgeIds),
            shared : SUBSET ({"scope"} \X Paths \cup {"entry"} \X Ids)]

TypeOK == /\ db \in Database
          /\ tx \in [Procs -> Pending]
          /\ now \in Nat
          /\ used \in SUBSET Ids
          /\ pc \in [Procs -> Locations]
          /\ job \in [Procs -> Job]

Init == /\ db = EmptyDatabase
        /\ tx = [p \in Procs |-> NoTx]
        /\ now = 0
        /\ used = {}
        /\ pc = [p \in Procs |-> "idle"]
        /\ job = [p \in Procs |-> NoJob]

Starts(p, c) == pc[p] = "idle" /\ c \in Runs[p]

Goto(p, loc, j) == /\ pc' = [pc EXCEPT ![p] = loc]
                   /\ job' = [job EXCEPT ![p] = j]

Exit(p) == Goto(p, "idle", NoJob)

Asks == UNCHANGED <<db, tx, now, used>>

Statement(p, w, parents) == /\ Execute(p, w, parents)
                            /\ UNCHANGED <<now, used>>

\* An error inside a transaction rolls it back (withTx, WithTx); either way
\* the command ends.
Fail(p) == /\ tx' = [tx EXCEPT ![p] = NoTx]
           /\ UNCHANGED <<db, now, used>>
           /\ Exit(p)

Commit(p) ==
    /\ pc[p] = "commit"
    /\ db' = View(p)
    /\ tx' = [tx EXCEPT ![p] = NoTx]
    /\ Exit(p)
    /\ UNCHANGED <<now, used>>

-----------------------------------------------------------------------------
(***************************************************************************)
(* EnsureHierarchy: INSERT ... ON CONFLICT DO NOTHING, one per prefix.  It *)
(* waits for a transaction that is writing the same row; a row that exists *)
(* is left alone, and not locked.                                          *)
(***************************************************************************)
AfterScopes(p) == IF job[p].want = Null THEN "idle"           \* scope create
                  ELSE IF job[p].base = Null THEN "upsert"    \* add
                  ELSE "updateRow"

PrefixFromZero(j) == SubSeq(j.path, 1, j.done)
NextPrefix(j) == SubSeq(j.path, 1, j.done + 1)

EnsureScope(p) ==
    /\ pc[p] = "scope"
    /\ LET k == job[p].done + 1
           s == NextPrefix(job[p])
       IN  /\ ScopeRow(s) \notin LockedByOthers(p)
           /\ Statement(p, InsertScope(View(p), s), {})
           /\ IF k < Len(job[p].path)
              THEN Goto(p, "scope", [job[p] EXCEPT !.done = k])
              ELSE IF AfterScopes(p) = "idle" THEN Exit(p)
              ELSE Goto(p, AfterScopes(p), job[p])

ScopeCreate(p) ==
    /\ Starts(p, "scope create")
    /\ \E s \in Paths : Goto(p, "scope", [NoJob EXCEPT !.path = s])
    /\ Asks

-----------------------------------------------------------------------------
(***************************************************************************)
(* known add: CreateOrUpdate and the edges in one transaction.             *)
(***************************************************************************)
LiveIds == {i \in Ids : Live(db, i)}

\* BEGIN has no effect of its own: it belongs to what comes before it.
AddResolve(p) ==
    /\ Starts(p, "add")
    /\ \E i \in Ids \ used, c \in Contents, s \in Paths, t \in Titles,
          ls \in SUBSET Labels, ttl \in TTLs \cup {Null},
          links \in SUBSET (LiveIds \X EdgeTypes) :
         /\ used' = used \cup {i}
         /\ Goto(p, "scope",
                 [NoJob EXCEPT
                    !.id = i, !.labels = ls, !.todo = ls, !.path = s,
                    !.links = links,
                    !.want = [content |-> c, scope |-> s, title |-> t,
                              created |-> now, version |-> 1,
                              expires |-> IF ttl = Null THEN Null
                                                        ELSE now + ttl]])
    /\ tx' = [tx EXCEPT ![p] = Opened]
    /\ UNCHANGED <<db, now>>

\* The row keeps, or gets, the id t; the scope may have been pruned since
\* EnsureHierarchy found it there.
UpsertBlind(p) ==
    /\ pc[p] = "upsert"
    /\ LET v == View(p)
           t == UpsertTarget(v, job[p].id, job[p].want)
           w == [v EXCEPT !.entries[t] =
                    UpsertRowKeepsVersion(v, job[p].id, job[p].want)]
       IN  /\ ~KeyInDoubt(p, job[p].want.content, job[p].want.scope)
           /\ \/ /\ job[p].want.scope \in v.scopes
                 /\ w.entries[t].version <= MaxVersion
                 /\ Statement(p, w, {ScopeRow(job[p].want.scope)})
                 /\ Goto(p, IF job[p].labels = {} THEN "addLinks"
                            ELSE "addClear", [job[p] EXCEPT !.id = t])
              \/ job[p].want.scope \notin v.scopes /\ Fail(p)
UpsertForgetsId(p) ==
    /\ pc[p] = "upsert"
    /\ LET v == View(p)
           t == UpsertTarget(v, job[p].id, job[p].want)
           w == [v EXCEPT !.entries[t] =
                    UpsertRow(v, job[p].id, job[p].want)]
       IN  /\ ~KeyInDoubt(p, job[p].want.content, job[p].want.scope)
           /\ w.entries[t].version <= MaxVersion
           /\ job[p].want.scope \in v.scopes
           /\ Statement(p, w, {ScopeRow(job[p].want.scope)})
           /\ Goto(p, "addLinks", job[p])
Upsert(p) ==
    /\ pc[p] = "upsert"
    /\ LET v == View(p)
           t == UpsertTarget(v, job[p].id, job[p].want)
           w == [v EXCEPT !.entries[t] =
                    UpsertRow(v, job[p].id, job[p].want)]
       IN  /\ ~KeyInDoubt(p, job[p].want.content, job[p].want.scope)
           /\ \/ /\ job[p].want.scope \in v.scopes
                 /\ w.entries[t].version <= MaxVersion
                 /\ Statement(p, w, {ScopeRow(job[p].want.scope)})
                 /\ Goto(p, IF job[p].labels = {} THEN "addLinks"
                            ELSE "addClear", [job[p] EXCEPT !.id = t])
              \/ job[p].want.scope \notin v.scopes /\ Fail(p)

-----------------------------------------------------------------------------
(***************************************************************************)
(* saveLabels: DELETE, then one INSERT per label, which refers to the      *)
(* entry and fails on a label that is there.  In add's transaction, and    *)
(* without one in update.                                                  *)
(***************************************************************************)
ClearLabels(p) ==
    /\ pc[p] \in {"addClear", "updateClear"}
    /\ Statement(p, DeleteLabels(View(p), job[p].id), {})
    /\ Goto(p, IF pc[p] = "addClear" THEN "addLabels" ELSE "updateLabels",
            job[p])

AfterLabels(p) == IF pc[p] = "addLabels"
                  THEN Goto(p, "addLinks", job[p]) ELSE Exit(p)

InsertLabels(p) ==
    /\ pc[p] \in {"addLabels", "updateLabels"}
    /\ \/ /\ job[p].todo = {}
          /\ AfterLabels(p)
          /\ Asks
       \/ \E l \in job[p].todo :
            /\ LabelRow(<<job[p].id, l>>) \notin LockedByOthers(p)
            /\ \/ /\ CanInsertLabel(View(p), job[p].id, l)
                  /\ Statement(p, InsertLabel(View(p), job[p].id, l),
                               {EntryRow(job[p].id)})
                  /\ Goto(p, pc[p], [job[p] EXCEPT !.todo = @ \ {l}])
               \/ /\ ~CanInsertLabel(View(p), job[p].id, l)
                  /\ Fail(p)

-----------------------------------------------------------------------------
(***************************************************************************)
(* EdgeStore.Create: in add's transaction, and alone in `link`.            *)
(***************************************************************************)
InsertLinks(p) ==
    /\ pc[p] \in {"addLinks", "link"}
    /\ \/ /\ job[p].links = {}
          /\ Goto(p, "commit", job[p])
          /\ Asks
       \/ \E l \in job[p].links :
            \/ \E name \in [{l} -> EdgeIds] :
                 /\ EdgeRow(name[l]) \notin LockedByOthers(p)
                 /\ CanInsertEdges(View(p), job[p].id, name)
                 /\ Statement(p, InsertEdges(View(p), job[p].id, name, Null),
                              {EntryRow(job[p].id), EntryRow(l[1])})
                 /\ IF pc[p] = "link" THEN Exit(p)
                    ELSE Goto(p, pc[p], [job[p] EXCEPT !.links = @ \ {l}])
            \/ ~CanLink(View(p), job[p].id, l) /\ Fail(p)

LinkGet(p) ==
    /\ Starts(p, "link")
    /\ \E i \in LiveIds, l \in LiveIds \X EdgeTypes :
         Goto(p, "link", [NoJob EXCEPT !.id = i, !.links = {l}])
    /\ Asks

Unlink(p) ==
    /\ Starts(p, "unlink")
    /\ \E e \in EdgeIds : /\ Present(db, e)
                          /\ Statement(p, DeleteEdge(db, e), {})
    /\ UNCHANGED <<pc, job>>

-----------------------------------------------------------------------------
(***************************************************************************)
(* known update: Get (row, then labels), and Update without a transaction. *)
(***************************************************************************)
UpdateGet(p) ==
    /\ Starts(p, "update")
    /\ \E i \in LiveIds :
         /\ db.entries[i].version < MaxVersion
         /\ Goto(p, "updateRead",
                 [NoJob EXCEPT !.id = i, !.base = db.entries[i]])
    /\ Asks

UpdateRead(p) ==
    /\ pc[p] = "updateRead"
    /\ \E c \in Contents, s \in Paths, t \in Titles,
          x \in {job[p].base.expires, Null},
          ls \in {LabelsOf(db, job[p].id)} \cup SUBSET Labels :
         Goto(p, "scope",
              [job[p] EXCEPT
                 !.want = [job[p].base EXCEPT !.content = c, !.scope = s,
                                              !.title = t, !.expires = x],
                 !.labels = ls, !.todo = ls, !.path = s])
    /\ Asks

\* content_hash or scope, the columns of the UNIQUE index, change.
MovesKey(p) ==
    /\ Live(db, job[p].id)
    /\ \/ db.entries[job[p].id].content # job[p].want.content
       \/ db.entries[job[p].id].scope # job[p].want.scope

\* A row that another transaction holds is waited for, and its version
\* compared again afterwards.
UpdateRowBlind(p) ==
    /\ pc[p] = "updateRow"
    /\ EntryRow(job[p].id) \notin LockedByOthers(p)
    /\ ~KeyInDoubt(p, job[p].want.content, job[p].want.scope)
    /\ \/ /\ Live(db, job[p].id)
          /\ job[p].want.scope \in db.scopes
          /\ Holders(db, job[p].want.content, job[p].want.scope)
                \subseteq {job[p].id}
          /\ Statement(p, UpdateRow(db, job[p].id, job[p].want),
                       {ScopeRow(job[p].want.scope)})
          /\ Goto(p, "updateClear", job[p])
       \/ ~Live(db, job[p].id) /\ Fail(p)
UpdateTheRow(p) ==
    /\ pc[p] = "updateRow"
    /\ EntryRow(job[p].id) \notin LockedByOthers(p)
    /\ MovesKey(p) => EntryRow(job[p].id) \notin SharedByOthers(p)
    /\ ~KeyInDoubt(p, job[p].want.content, job[p].want.scope)
    /\ \/ /\ CanUpdate(db, job[p].id, job[p].want)
          /\ Statement(p, UpdateRow(db, job[p].id, job[p].want),
                       {ScopeRow(job[p].want.scope)})
          /\ Goto(p, "updateClear", job[p])
       \/ ~CanUpdate(db, job[p].id, job[p].want) /\ Fail(p)

-----------------------------------------------------------------------------
(***************************************************************************)
(* known delete and known gc.                                              *)
(***************************************************************************)
DeleteGet(p) ==
    /\ Starts(p, "delete")
    /\ \E i \in LiveIds : Goto(p, "delete", [NoJob EXCEPT !.id = i])
    /\ Asks

DeleteTheRow(p) ==
    /\ pc[p] = "delete"
    /\ Statement(p, DeleteEntries(db, {job[p].id} \cap LiveIds), {})
    /\ Exit(p)

GcExpired(p) ==
    /\ Starts(p, "gc")
    /\ Statement(p, DeleteExpired(db, now), {})
    /\ Goto(p, "gcScopes", NoJob)

\* One statement that decides on what is committed.  A scope that an open
\* transaction has put an entry into is share-locked; when the entry is
\* committed the DELETE fails on the foreign key, and takes nothing.
GcScopes(p) ==
    /\ pc[p] = "gcScopes"
    /\ \/ Statement(p, DeleteEmpty(db), {}) /\ Exit(p)
       \/ /\ Removed(db, DeleteEmpty(db)) \cap SharedByOthers(p) # {}
          /\ Fail(p)

-----------------------------------------------------------------------------
(***************************************************************************)
(* known scope delete.  The descendants come from the ltree column.        *)
(***************************************************************************)
DotToLtree(s) == [i \in 1..Len(s) |-> LtreeLabel[s[i]]]

LtreeDescendants(d, path) ==
    {s \in d.scopes : /\ s # path
                      /\ \/ DotToLtree(s) = DotToLtree(path)
                         \/ Below(DotToLtree(path), DotToLtree(s))}

HasContent(path) ==
    ListPrefix(db, path, now) \cup LtreeDescendants(db, path) # {}

ScopeDeleteCheck(p) ==
    /\ Starts(p, "scope delete")
    /\ \E s \in db.scopes :
         Goto(p, IF HasContent(s) THEN "treeList" ELSE "scopeDelete",
              [NoJob EXCEPT !.path = s])
    /\ Asks

ScopeDeleteOne(p) ==
    /\ pc[p] = "scopeDelete"
    /\ \/ /\ CanDeleteScope(db, job[p].path)
          /\ Statement(p, DeleteScope(db, job[p].path), {})
          /\ Exit(p)
       \/ ~CanDeleteScope(db, job[p].path) /\ Fail(p)

\* --recursive: list and delete the entries one by one, then list the scopes
\* below and delete them, then the scope, in one transaction.
TreeList(p) ==
    /\ pc[p] = "treeList"
    /\ Goto(p, "treeEntries",
            [job[p] EXCEPT !.entries = ListPrefix(db, job[p].path, now)])
    /\ tx' = [tx EXCEPT ![p] = Opened]
    /\ UNCHANGED <<db, now, used>>

TreeEntries(p) ==
    /\ pc[p] = "treeEntries"
    /\ \/ \E i \in job[p].entries :
            \/ /\ Live(View(p), i)
               /\ Statement(p, DeleteEntries(View(p), {i}), {})
               /\ Goto(p, "treeEntries", [job[p] EXCEPT !.entries = @ \ {i}])
            \/ ~Live(View(p), i) /\ Fail(p)
       \/ /\ job[p].entries = {}
          /\ Goto(p, "treeScopes",
                  [job[p] EXCEPT !.scopes =
                     {job[p].path} \cup LtreeDescendants(View(p), job[p].path)])
          /\ Asks

TreeScopes(p) ==
    /\ pc[p] = "treeScopes"
    /\ \E s \in job[p].scopes :
         /\ s = job[p].path => job[p].scopes = {s}
         /\ \/ /\ CanDeleteScope(View(p), s)
               /\ Statement(p, DeleteScope(View(p), s), {})
               /\ IF job[p].scopes = {s}
                  THEN Goto(p, "commit", job[p])
                  ELSE Goto(p, "treeScopes",
                            [job[p] EXCEPT !.scopes = @ \ {s}])
            \/ ~CanDeleteScope(View(p), s) /\ Fail(p)

-----------------------------------------------------------------------------
\* A process is killed or loses its connection, or the server picks its
\* transaction as the victim of a deadlock.
Crash(p) == pc[p] # "idle" /\ Fail(p)

Tick == now < MaxNow /\ now' = now + 1 /\ UNCHANGED <<db, tx, used, pc, job>>

Next ==
    \/ \E p \in Procs :
         \/ EnsureScope(p) \/ ScopeCreate(p)
         \/ AddResolve(p) \/ Upsert(p) \/ Commit(p)
         \/ ClearLabels(p) \/ InsertLabels(p)
         \/ InsertLinks(p) \/ LinkGet(p) \/ Unlink(p)
         \/ UpdateGet(p) \/ UpdateRead(p) \/ UpdateTheRow(p)
         \/ DeleteGet(p) \/ DeleteTheRow(p) \/ GcExpired(p) \/ GcScopes(p)
         \/ ScopeDeleteCheck(p) \/ ScopeDeleteOne(p)
         \/ TreeList(p) \/ TreeEntries(p) \/ TreeScopes(p)
         \/ Crash(p)
    \/ Tick

Spec == Init /\ [][Next]_vars
-----------------------------------------------------------------------------
(***************************************************************************)
(* Properties.                                                             *)
(***************************************************************************)
Store == INSTANCE KnownStore WITH store <- db

\* What becomes visible to the other processes is, commit by commit, what
\* the storage contract allows: no half of a transaction, no dangling row,
\* no second row for a text in a scope, no version skipped or reused
\* (storage.Backend and the repositories it hands out).
ImplementsStore == Store!Spec

\* No lost update: the row an update overwrites is the row its flags were
\* applied to, also when its UPDATE waited for an add that upserted the row
\* (storage.EntryRepo.Update: "the update only succeeds if the entry's
\* version matches the expected version").
UpdateReplacesWhatItRead ==
    [][\A p \in Procs :
         pc[p] = "updateRow" /\ pc'[p] = "updateClear"
           => db.entries[job[p].id] = job[p].base]_vars

\* An add that reports success has its row and all its labels in the
\* database at that moment, whatever update, gc and scope delete did beside
\* it (EntryStore.CreateOrUpdate, "wraps both operations in one for
\* atomicity").
AddLandsWhole ==
    [][\A p \in Procs :
         /\ pc[p] = "commit" /\ pc'[p] = "idle"
         /\ job[p].want # Null /\ db' # db
         => /\ Live(db', job[p].id)
            /\ job[p].labels \subseteq LabelsOf(db', job[p].id)
            /\ [db'.entries[job[p].id] EXCEPT
                  !.version = job[p].want.version,
                  !.created = job[p].want.created] = job[p].want]_vars

TreeDeleted(p) == pc[p] = "commit" /\ pc'[p] = "idle" /\ job[p].want = Null

\* scope delete --recursive takes away nothing outside the tree, neither an
\* entry nor a scope, however the transactions interleave (cmd/scope.go
\* runScopeDelete; ListDescendants).
TreeDeleteStaysBelow ==
    [][\A p \in Procs : TreeDeleted(p) =>
         /\ \A s \in db.scopes \ db'.scopes :
               s = job[p].path \/ Below(job[p].path, s)
         /\ \A i \in Ids : Live(db, i) /\ ~Live(db', i) =>
               \/ db.entries[i].scope = job[p].path
               \/ Below(job[p].path, db.entries[i].scope)]_vars
=============================================================================
