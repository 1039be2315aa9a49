--------------------------- MODULE KnownCommands ---------------------------
(***************************************************************************)
(* Concurrent `known` processes on one SQLite database.                    *)
(*                                                                         *)
(* Every command is a short-lived process (cmd/root.go Run).  Inside       *)
(* DB.WithTx its statements take effect together or not at all; outside,   *)
(* each statement commits by itself, and between two of them any other     *)
(* process may run, or this one may be killed.  One action is one such     *)
(* commit, or one read whose answer the process keeps.                     *)
(*                                                                         *)
(* The flags of an invocation are chosen in the first action that needs    *)
(* them; nothing observes them earlier.                                    *)
(***************************************************************************)
EXTENDS KnownDB

CONSTANTS
    Procs,       \* processes that may run at the same time
    Commands,    \* the commands they run
    TTLs,        \* values of --ttl
    Recursive,   \* values of --recursive for `scope delete`
    MaxNow,      \* bound: the clock stops here
    MaxVersion   \* bound: no entry is written past this version

ASSUME BoundsAssumption ==
    /\ TTLs \subseteq Nat
    /\ Recursive \subseteq BOOLEAN
    /\ MaxNow \in Nat
    /\ MaxVersion \in Nat

VARIABLES
    db,    \* the database file
    now,   \* the clock every process reads
    used,  \* every entry id that ever had a row
    pc,    \* pc[p]: where process p is in its command
    job    \* job[p]: what process p remembers between two statements

vars == <<db, now, used, pc, job>>

(***************************************************************************)
(* What a process keeps: the entry it works on, the row as it read it, the *)
(* row it will write, the labels it must write and those still to insert,  *)
(* a scope path with the number of its prefixes already inserted, the      *)
(* links it still has to create (target and type) with the one in hand, and*)
(* the time at which a new entry was built.                                *)
(***************************************************************************)
Links == Ids \X EdgeTypes

Job == [id : Ids \cup {Null}, base : Row \cup {Null}, want : Row \cup {Null},
        labels : SUBSET Labels, todo : SUBSET Labels,
        path : Paths \cup {Null}, done : Nat,
        links : SUBSET Links, link : Links \cup {Null}, at : Nat]

NoJob == [id |-> Null, base |-> Null, want |-> Null,
          labels |-> {}, todo |-> {}, path |-> Null, done |-> 0,
          links |-> {}, link |-> Null, at |-> 0]

Locations == {"idle", "addTx", "updateRead", "updateScope", "updateRow",
              "updateClear", "updateLabels", "updateReturn", "delete",
              "accept", "acceptLink", "link", "gcScopes", "scopeCreate", "scopeDelete",
              "scopeDeleteTree"}

TypeOK == /\ db \in Database
          /\ now \in Nat
          /\ used \in SUBSET Ids
          /\ pc \in [Procs -> Locations]
          /\ job \in [Procs -> Job]

Init == /\ db = EmptyDatabase
        /\ now = 0
        /\ used = {}
        /\ pc = [p \in Procs |-> "idle"]
        /\ job = [p \in Procs |-> NoJob]

Starts(p, c) == pc[p] = "idle" /\ c \in Commands

Goto(p, loc, j) == /\ pc' = [pc EXCEPT ![p] = loc]
                   /\ job' = [job EXCEPT ![p] = j]

Exit(p) == Goto(p, "idle", NoJob)

Writes(d) == db' = d /\ UNCHANGED <<now, used>>

ReadsOnly == UNCHANGED <<db, now, used>>

ExpiresAt(created, ttl) == IF ttl = Null THEN Null ELSE created + ttl

-----------------------------------------------------------------------------
(***************************************************************************)
(* known add: the entry is built (NewEntry reads the clock) and the targets*)
(* of --link and --supersedes are looked up before the transaction; the    *)
(* transaction writes the entry and its edges together.                    *)
(***************************************************************************)
LiveIds == {i \in Ids : Live(db, i)}

AddResolve(p) ==
    /\ Starts(p, "add")
    /\ \E links \in SUBSET (LiveIds \X EdgeTypes) :
         Goto(p, "addTx", [NoJob EXCEPT !.at = now, !.links = links])
    /\ ReadsOnly

AddTx(p) ==
    /\ pc[p] = "addTx"
    /\ \E i \in Ids, c \in Contents, s \in Paths, t \in Titles,
          ls \in SUBSET Labels, ttl \in TTLs \cup {Null} :
         LET row == [content |-> c, scope |-> s, title |-> t,
                     created |-> job[p].at,
                     expires |-> ExpiresAt(job[p].at, ttl), version |-> 1]
             r   == UpsertTarget(db, i, row)
             w   == CreateOrUpdate(db, i, row, ls)
         IN  /\ i \in used => Holders(db, c, s) # {}
             /\ UpsertRow(db, i, row).version <= MaxVersion
             /\ CanUpsert(db, i, row)
             /\ \/ \E name \in [job[p].links -> EdgeIds] :
                      /\ CanInsertEdges(w, r, name)
                      /\ db' = InsertEdges(w, r, name, Null)
                      /\ used' = used \cup {r}
                \* a target is gone, or the entry would link to itself:
                \* the whole transaction rolls back
                \/ /\ \E l \in job[p].links : ~CanLink(w, r, l)
                   /\ UNCHANGED <<db, used>>
    /\ Exit(p)
    /\ UNCHANGED now

-----------------------------------------------------------------------------
(***************************************************************************)
(* known update: Get is two queries (row, then labels); Update is one      *)
(* statement per scope prefix, the guarded UPDATE, one DELETE of the       *)
(* labels and one INSERT per label, and no transaction around them.        *)
(***************************************************************************)
UpdateGet(p) ==
    /\ Starts(p, "update")
    /\ \E i \in Ids :
         /\ Live(db, i)
         /\ db.entries[i].version < MaxVersion
         /\ Goto(p, "updateRead",
                 [NoJob EXCEPT !.id = i, !.base = db.entries[i]])
    /\ ReadsOnly

\* --ttl: unchanged, 0 for none, or a duration, which SetTTL counts from the
\* row's created_at.
Expiries(base) ==
    {base.expires, Null} \cup {base.created + ttl : ttl \in TTLs}

UpdateRead(p) ==
    /\ pc[p] = "updateRead"
    /\ \E c \in Contents, s \in Paths, t \in Titles,
          x \in Expiries(job[p].base),
          ls \in {LabelsOf(db, job[p].id)} \cup SUBSET Labels :
         Goto(p, "updateScope",
              [job[p] EXCEPT
                 !.want = [job[p].base EXCEPT !.content = c, !.scope = s,
                                              !.title = t, !.expires = x],
                 !.labels = ls, !.todo = ls, !.path = s, !.done = 0])
    /\ ReadsOnly

UpdateScope(p) ==
    /\ pc[p] = "updateScope"
    /\ LET k == job[p].done + 1
       IN  /\ Writes(InsertScope(db, SubSeq(job[p].path, 1, k)))
           /\ Goto(p, IF k = Len(job[p].path) THEN "updateRow"
                                              ELSE "updateScope",
                   [job[p] EXCEPT !.done = k])

UpdateRevives(p) ==
    /\ pc[p] = "updateRow"
    /\ \/ /\ \/ ~Live(db, job[p].id)
             \/ UpdateMatches(db, job[p].id, job[p].want)
          /\ job[p].want.scope \in db.scopes
          /\ Holders(db, job[p].want.content, job[p].want.scope)
                \subseteq {job[p].id}
          /\ Writes(UpdateRow(db, job[p].id, job[p].want))
          /\ Goto(p, "updateClear", job[p])
       \/ ReadsOnly /\ Exit(p)
\* The UPDATE takes effect, or the command reports not found, a concurrent
\* modification or a constraint, and nothing changes.
UpdateCommit(p) ==
    /\ pc[p] = "updateRow"
    /\ \/ /\ CanUpdate(db, job[p].id, job[p].want)
          /\ Writes(UpdateRow(db, job[p].id, job[p].want))
          /\ Goto(p, "updateClear", job[p])
       \/ /\ ~CanUpdate(db, job[p].id, job[p].want)
          /\ ReadsOnly
          /\ Exit(p)

UpdateClear(p) ==
    /\ pc[p] = "updateClear"
    /\ Writes(DeleteLabels(db, job[p].id))
    /\ Goto(p, IF job[p].todo = {} THEN "updateReturn" ELSE "updateLabels",
            job[p])

\* One INSERT per label: it fails, and the command with it, when the entry
\* is gone or another process inserted the label first.
UpdateLabels(p) ==
    /\ pc[p] = "updateLabels"
    /\ \E l \in job[p].todo :
         \/ /\ CanInsertLabel(db, job[p].id, l)
            /\ Writes(InsertLabel(db, job[p].id, l))
            /\ Goto(p, IF job[p].todo = {l} THEN "updateReturn"
                                            ELSE "updateLabels",
                    [job[p] EXCEPT !.todo = @ \ {l}])
         \/ /\ ~CanInsertLabel(db, job[p].id, l)
            /\ ReadsOnly
            /\ Exit(p)

UpdateReturn(p) == pc[p] = "updateReturn" /\ Exit(p) /\ ReadsOnly

-----------------------------------------------------------------------------
(***************************************************************************)
(* known delete (forget), known link, known link accept, known unlink.     *)
(***************************************************************************)
DeleteGet(p) ==
    /\ Starts(p, "delete")
    /\ \E i \in Ids : /\ Live(db, i)
                      /\ Goto(p, "delete", [NoJob EXCEPT !.id = i])
    /\ ReadsOnly

DeleteRow(p) ==
    /\ pc[p] = "delete"
    /\ \/ Live(db, job[p].id) /\ Writes(DeleteEntries(db, {job[p].id}))
       \/ ~Live(db, job[p].id) /\ ReadsOnly
    /\ Exit(p)

LinkGet(p) ==
    /\ Starts(p, "link")
    /\ \E i \in LiveIds, l \in LiveIds \X EdgeTypes :
         Goto(p, "link", [NoJob EXCEPT !.id = i, !.links = {l}])
    /\ ReadsOnly

LinkCreate(p) ==
    /\ pc[p] = "link"
    /\ \/ \E name \in [job[p].links -> EdgeIds], w \in Weights :
             /\ CanInsertEdges(db, job[p].id, name)
             /\ Writes(InsertEdges(db, job[p].id, name, w))
       \/ /\ \E l \in job[p].links : ~CanLink(db, job[p].id, l)
          /\ ReadsOnly
    /\ Exit(p)

\* SuggestLinks leaves out entries already linked in either direction.  All
\* accepted links have one type: related-to, or the --type given.
Suggested(i) == {j \in LiveIds \ Expired(db, now) :
                    /\ j # i
                    /\ EdgesBetween(db, i, j) \cup EdgesBetween(db, j, i) = {}}

AcceptSuggest(p) ==
    /\ Starts(p, "link accept")
    /\ \E i \in LiveIds :
         \E to \in SUBSET Suggested(i) \ {{}}, type \in EdgeTypes :
            Goto(p, "accept",
                 [NoJob EXCEPT !.id = i, !.links = to \X {type}])
    /\ ReadsOnly

Linked(d, i, l) == \E e \in EdgesBetween(d, i, l[1]) : d.edges[e].type = l[2]

\* The loop over the accepted indices: a link that exists by now is skipped,
\* another is created, and one that cannot be is reported and passed over.
NextLink(p, l) == IF job[p].links = {l}
                  THEN Exit(p)
                  ELSE Goto(p, "accept", [job[p] EXCEPT !.links = @ \ {l},
                                                        !.link = Null])

AcceptCheck(p) ==
    /\ pc[p] = "accept"
    /\ \E l \in job[p].links :
         IF Linked(db, job[p].id, l)
         THEN NextLink(p, l)
         ELSE Goto(p, "acceptLink", [job[p] EXCEPT !.link = l])
    /\ ReadsOnly

AcceptCreate(p) ==
    /\ pc[p] = "acceptLink"
    /\ LET l == job[p].link
       IN  /\ \/ \E name \in [{l} -> EdgeIds] :
                    /\ CanInsertEdges(db, job[p].id, name)
                    /\ Writes(InsertEdges(db, job[p].id, name, Null))
              \/ ~CanLink(db, job[p].id, l) /\ ReadsOnly
           /\ NextLink(p, l)

Unlink(p) ==
    /\ Starts(p, "unlink")
    /\ \E e \in EdgeIds : Present(db, e) /\ Writes(DeleteEdge(db, e))
    /\ UNCHANGED <<pc, job>>

-----------------------------------------------------------------------------
(***************************************************************************)
(* known gc: two statements; the reinforcement it ends with is the subject *)
(* of KnownSessions.                                                       *)
(***************************************************************************)
GcExpired(p) ==
    /\ Starts(p, "gc")
    /\ Writes(DeleteExpired(db, now))
    /\ Goto(p, "gcScopes", NoJob)

GcScopes(p) ==
    /\ pc[p] = "gcScopes"
    /\ Writes(DeleteEmpty(db))
    /\ Exit(p)

-----------------------------------------------------------------------------
(***************************************************************************)
(* known scope create: one INSERT per prefix.  known scope delete: the     *)
(* checks run before the deletion, which is one statement for a scope      *)
(* found empty and one transaction for --recursive.                        *)
(***************************************************************************)
ScopeCreateStart(p) ==
    /\ Starts(p, "scope create")
    /\ \E s \in Paths : Goto(p, "scopeCreate", [NoJob EXCEPT !.path = s])
    /\ ReadsOnly

ScopeCreateStep(p) ==
    /\ pc[p] = "scopeCreate"
    /\ LET k == job[p].done + 1
       IN  /\ Writes(InsertScope(db, SubSeq(job[p].path, 1, k)))
           /\ IF k = Len(job[p].path)
              THEN Exit(p)
              ELSE Goto(p, "scopeCreate", [job[p] EXCEPT !.done = k])

HasContent(path) == ListPrefix(db, path, now) \cup ListDescendants(db, path) # {}

ScopeDeleteCheck(p) ==
    /\ Starts(p, "scope delete")
    /\ \E s \in db.scopes :
         \/ ~HasContent(s) /\ Goto(p, "scopeDelete", [NoJob EXCEPT !.path = s])
         \/ /\ HasContent(s) /\ TRUE \in Recursive
            /\ Goto(p, "scopeDeleteTree", [NoJob EXCEPT !.path = s])
    /\ ReadsOnly

ScopeDeleteOne(p) ==
    /\ pc[p] = "scopeDelete"
    /\ \/ CanDeleteScope(db, job[p].path) /\ Writes(DeleteScope(db, job[p].path))
       \/ ~CanDeleteScope(db, job[p].path) /\ ReadsOnly
    /\ Exit(p)

\* The entries List returns, then the scopes below, then the scope.  A row
\* the listing left out and that still refers to one of the scopes makes a
\* DELETE fail, and the transaction with it.
ScopeDeleteTree(p) ==
    /\ pc[p] = "scopeDeleteTree"
    /\ LET s    == job[p].path
           gone == {s} \cup ListDescendants(db, s)
           w    == DeleteEntries(db, ListPrefix(db, s, now))
       IN  \/ /\ s \in db.scopes
              /\ \A x \in gone : ~Referenced(w, x)
              /\ Writes([w EXCEPT !.scopes = @ \ gone])
           \/ /\ s \notin db.scopes \/ \E x \in gone : Referenced(w, x)
              /\ ReadsOnly
    /\ Exit(p)

-----------------------------------------------------------------------------
\* A process is killed (or loses its terminal) between two statements.
Crash(p) == pc[p] # "idle" /\ Exit(p) /\ ReadsOnly

Tick == now < MaxNow /\ now' = now + 1 /\ UNCHANGED <<db, used, pc, job>>

ProcessStep(p) ==
    \/ AddResolve(p) \/ AddTx(p)
    \/ UpdateGet(p) \/ UpdateRead(p) \/ UpdateScope(p) \/ UpdateCommit(p)
    \/ UpdateClear(p) \/ UpdateLabels(p) \/ UpdateReturn(p)
    \/ DeleteGet(p) \/ DeleteRow(p)
    \/ LinkGet(p) \/ LinkCreate(p)
    \/ AcceptSuggest(p) \/ AcceptCheck(p) \/ AcceptCreate(p) \/ Unlink(p)
    \/ GcExpired(p) \/ GcScopes(p)
    \/ ScopeCreateStart(p) \/ ScopeCreateStep(p)
    \/ ScopeDeleteCheck(p) \/ ScopeDeleteOne(p) \/ ScopeDeleteTree(p)
    \/ Crash(p)

Next == (\E p \in Procs : ProcessStep(p)) \/ Tick

Spec == Init /\ [][Next]_vars

-----------------------------------------------------------------------------
(***************************************************************************)
(* Properties.                                                             *)
(***************************************************************************)

\* The schema holds between any two statements of any processes: entries
\* point at scope rows, labels and edges at entries, and no scope holds the
\* same text twice (the migrations' foreign keys and UNIQUE index).
SchemaHolds == Consistent(db)

Rereading(p) == pc[p] \in {"updateRead", "updateScope", "updateRow"}

\* What optimistic locking rests on: while an update is between its Get and
\* its UPDATE, the entry has not gone back behind the version it read, and as
\* long as the version is the same the row is the very row it read.  Every
\* writer must move the version for this, the upsert of `add` included
\* (storage/sqlite/entry.go CreateOrUpdate and Update).
VersionIdentifiesRow ==
    \A p \in Procs :
        Rereading(p) /\ Live(db, job[p].id) =>
            LET row == db.entries[job[p].id]
            IN  /\ row.version >= job[p].base.version
                /\ row.version = job[p].base.version => row = job[p].base

UpdateLands(p) == pc[p] = "updateRow" /\ pc'[p] = "updateClear"

\* No lost update: the row an update overwrites is the row its flags were
\* applied to (storage.EntryRepo.Update: "the update only succeeds if the
\* entry's version matches the expected version").
UpdateReplacesWhatItRead ==
    [][\A p \in Procs :
         UpdateLands(p) => db.entries[job[p].id] = job[p].base]_vars

\* Versions count writes: a step that changes a row and leaves it in place
\* moves its version by exactly one, whoever writes.
VersionCountsWrites ==
    [][\A i \in Ids :
         /\ db.entries[i] # Null /\ db'.entries[i] # Null
         /\ db'.entries[i] # db.entries[i]
         => db'.entries[i].version = db.entries[i].version + 1]_vars

\* A deleted entry stays deleted: no command that read it before the delete
\* brings it back (update's UPDATE, a pending upsert).
NoResurrection ==
    [][\A i \in used : db.entries[i] = Null => db'.entries[i] = Null]_vars

\* Every entry sits under a complete chain of scope rows: "ensures that all
\* ancestor scopes exist" (storage.ScopeRepo.EnsureHierarchy).
EntryHierarchy ==
    \A i \in Ids :
        Live(db, i) => Prefixes(db.entries[i].scope) \subseteq db.scopes

\* Pruning never cuts the chain above an entry: a gc that removes scopes
\* leaves a complete hierarchy complete, with add, scope create and scope
\* delete running beside it (storage.ScopeRepo.DeleteEmpty).
PruneKeepsHierarchy ==
    [][\A p \in Procs :
         pc[p] = "gcScopes" /\ pc'[p] = "idle" /\ EntryHierarchy
           => EntryHierarchy']_vars

TreeDeleted(p) == /\ pc[p] = "scopeDeleteTree" /\ pc'[p] = "idle"
                  /\ job[p].path \in db.scopes
                  /\ job[p].path \notin db'.scopes

\* scope delete --recursive removes entries of the scope and of its
\* descendants only (storage.EntryFilter: "scope and all descendants").
TreeDeleteStaysBelow ==
    [][\A p \in Procs : TreeDeleted(p) =>
         \A i \in Ids :
            db.entries[i] # Null /\ db'.entries[i] = Null =>
               \/ db.entries[i].scope = job[p].path
               \/ Below(job[p].path, db.entries[i].scope)]_vars

\* ... and all of them, with every scope below, also those that appeared
\* between its check and its transaction (cmd/scope.go runScopeDelete).
TreeDeleteIsComplete ==
    [][\A p \in Procs : TreeDeleted(p) =>
         /\ \A s \in db'.scopes : ~Below(job[p].path, s)
         /\ \A i \in Ids :
               db'.entries[i] # Null =>
                  ~Below(job[p].path, db'.entries[i].scope)]_vars

\* The labels an update reports as written are the labels the entry has when
\* the last of them is in (cmd/update.go: "replaces all labels").
UpdateSetsLabels ==
    [][\A p \in Procs :
         /\ pc[p] \in {"updateClear", "updateLabels"}
         /\ pc'[p] = "updateReturn"
         => LabelsOf(db', job[p].id) = job[p].labels]_vars

\* Accepting a suggestion again adds no second edge of that type between the
\* two entries (cmd/link.go runLinkAccept: "repeat accept is idempotent").
AcceptedOnce ==
    [][\A p \in Procs :
         pc[p] = "acceptLink" /\ Linked(db, job[p].id, job[p].link)
           => (pc'[p] # "acceptLink" => db'.edges = db.edges)]_vars

Store == INSTANCE KnownStore WITH store <- db

\* Statement by statement, the commands on SQLite do to the database only
\* what the storage contract allows (storage.Backend and its repositories);
\* KnownPostgres implements the same contract.
ImplementsStore == Store!Spec
=============================================================================
