# Verification of `known`

`known` is a command-line knowledge base for agents. Every command is a
short-lived process; several agents run commands at the same time on one SQLite
file (`storage/sqlite`), with no daemon between them. Its correctness is
therefore a matter of what the statements of different processes can do to each
other, and of what is left behind when a process is killed between two of them.

A second backend keeps the same tables on a PostgreSQL server, and a web explorer
and a query engine read them while others write.

This directory holds TLA+ modules of these parts, TLC configurations that check
them on small instances, and TLAPS proofs of the main guarantees for instances
of any size. Paths below are relative to the repository root.

## 1. Inventory

| Component | State | Operations | What makes it correct |
|---|---|---|---|
| Entry store `storage/sqlite/entry.go` | `entries`, `entry_labels` | CreateOrUpdate (upsert on text and scope), Get, Update (optimistic lock), Delete, List, DeleteExpired | no lost update, no resurrection, one entry for a text in a scope, labels belong to entries |
| Scope store `storage/sqlite/scope.go` | `scopes` | EnsureHierarchy, Delete, ListDescendants, DeleteEmpty | entries point at scopes, ancestors exist, pruning cuts no chain |
| Edge store `storage/sqlite/edge.go` | `edges`, `edge_types` | Create, Update, Delete, EdgesFrom/To/Between | no dangling edge, weights in [0, 1] |
| Session store `storage/sqlite/session.go` | `sessions`, `session_events`, `session_reinforcements` | CreateSession, EndSession, LogEvent, ListUnprocessedSessions, MarkProcessed | each ended session counts once |
| Entry commands `cmd/add.go`, `update.go`, `delete.go` | what a process remembers between statements | see section 3 | as the entry store, under interleaving and kills |
| Edge commands `cmd/link.go`, `unlink.go` | the same | link, link accept, unlink | accepting is idempotent |
| `cmd/gc.go`, `cmd/scope.go` | the same | gc, scope create, scope delete | prune and delete exactly what they should |
| Sessions `cmd/session.go`, `cmd/root.go` | the file `~/.known/session`, `KNOWN_SESSION` | start, end, logging of each command | the file names an open session |
| Reinforcement `query/reinforce.go` | edge weights | Reinforce | action after recall only, once per session, no saturation |
| Import, export, batch `cmd/import.go`, `export.go`, `batch.go` | one transaction over many entries | import, export, add --batch | partial failures leave what is reported |
| Query engine `query/*.go` | none (reads) | hybrid search, traversal, shortest path, conflicts, suggestions | bounds on depth and results, demotion of superseded entries |
| Resolution `cmd/resolve.go`, `scope_resolve.go` | none | which entry a reference means | one confident answer or an error |
| Embedders `embed/` | the cache | Embed, EmbedBatch | a cached vector is that of the text and the model |
| PostgreSQL backend `storage/postgres/` | the same tables | the same interfaces | the same promises under its isolation |
| Migration runner `storage/sqlite/sqlite.go` | `schema_migrations` | Migrate | each migration once, in order |
| Web explorer `webui/`, `cmd/explore.go` | none (reads) | graph, entry, neighbors, path, search | a response has no edge without its ends |
| Configuration, output, completion, benchmarks | none shared | printing | – |

How they interact: a command reads through a store, may wait for the user, a
model or the clock, and then writes; `DB.WithTx` makes the statements of one
closure atomic, and everything outside it commits statement by statement.
Commands share the database and the session file and nothing else. gc and
`session end` run the reinforcement, which reads what other commands have
logged.

What is hard, and is listed line by line as `hazards` in `PROJECT.json`: a row
read before another process writes it; statements of one command that are not in
a transaction; lists read outside the transaction that works them off; kills
between two steps, a truncated session file among them; foreign keys that refer
to scopes but not from scope to parent; LIKE patterns built from data; weights
that move through many sessions; answers put together from many statements; and
scores of different scales that are sorted as one.

## 2. Modules

| Module | Models |
|---|---|
| `KnownDB` | the tables of one database as a value, and the statements as operators from database to database, each with a predicate where SQLite can refuse it |
| `KnownCommands` | processes that run add, update, delete, link, link accept, unlink, gc, scope create and scope delete on one `KnownDB` database; one action per commit or per read whose answer is kept |
| `KnownSessions` | sessions, the session file, logging and reinforcement, on the edges of a `KnownDB` database |
| `KnownStore` | the contract of `storage.Backend`: what one commit may do to the database, whichever backend serves it |
| `KnownPostgres` | the commands on PostgreSQL: transactions statement by statement at READ COMMITTED, row locks, key locks, waiting |
| `KnownTransfer` | export, import and add --batch between two knowledge bases on either backend |
| `KnownEngine` | what the query engine computes between two statements: fusion, scores, demotion, order, limits |
| `KnownReads` | the requests of the explorer and the reading commands, one action per statement, beside a writer |
| `MCCommands`, `MCSessions`, `MCPostgres`, `MCTransfer`, `MCReads` | constants and symmetry for TLC |
| `KnownDBProofs` | what each statement preserves |
| `KnownCommandsProofs` | the commands' inductive invariant: types and schema; versions, lost updates, resurrection, pruning, recursive deletion; `KnownCommands` implements `KnownStore`; what one command at a time keeps |
| `KnownSessionsProofs` | sessions, the session file, and the arithmetic of reinforcement |
| `KnownPostgresProofs` | transactions at READ COMMITTED: locks, overlays, `KnownPostgres` implements `KnownStore` |
| `KnownTransferProofs` | export, import and batch: what a file holds and what becomes of it |
| `KnownReadsProofs` | requests and what they remember; closed and exact answers; ranked hits |
| `KnownWalksProofs` | breadth-first search: what a traversal reaches, and shortest paths |
| `KnownSearchProofs` | expansion, what a recall may not miss, what a text resolves to |

`KnownCommands` (SQLite), `KnownPostgres` and `KnownSessions` instantiate
`KnownStore` with `store <- db`: the first two check its specification as a
property, the third, whose knowledge base is not empty at the start, its steps.
`KnownReads` extends `KnownEngine`; all of them build on the tables of `KnownDB`.

### KnownDB

`db.scopes` is the set of paths with a row, `db.entries[i]` the row of entry `i`
or `Null`, `db.labels` the set of (entry, label) rows, `db.edges[e]` the row of
edge `e` or `Null`. A row has the text (equal texts have equal hashes; collisions
of SHA-256 are ignored), the scope, the version, `created_at`, `expires_at`, and
one value `title` that stands for all columns an update may change freely
(title, provenance, source, metadata, observation). Embeddings are left out: they
are functions of the text and the configuration.

A scope path is a sequence of segments. `LIKE path || '.%'` is a constant
`LikeUnder`, of which only three things are assumed: it matches everything that
lies below the path, and never the path itself (`LikeAssumption`), and with a path
it matches what lies below that one, since the final `%` takes whatever follows
(`LikeReachesDown`). With plain segments it is exactly what lies below; a `_` in a
segment makes it larger.

### KnownCommands

`pc[p]` is the place of process `p` in its command and `job[p]` what it remembers
there: the identifier, the row as read, the row to write, labels, links, path.

| Command | Actions, in order | Code |
|---|---|---|
| add | `AddResolve` (clock, targets of --link and --supersedes), `AddTx` | `cmd/add.go` 114-257 |
| update | `UpdateGet`, `UpdateRead` (the two queries of Get), `UpdateScope` per prefix, `UpdateCommit`, `UpdateClear`, `UpdateLabels` per label, `UpdateReturn` | `cmd/update.go`, `storage/sqlite/entry.go` 291-383, 904-914 |
| delete | `DeleteGet`, `DeleteRow` | `cmd/delete.go` |
| link | `LinkGet`, `LinkCreate` | `cmd/link.go` 22-98 |
| link accept | `AcceptSuggest`, then per link `AcceptCheck`, `AcceptCreate` | `cmd/link.go` 113-245 |
| unlink | `Unlink` | `cmd/unlink.go` |
| gc | `GcExpired`, `GcScopes` | `cmd/gc.go` 19-33 |
| scope create | `ScopeCreateStart`, `ScopeCreateStep` per prefix | `cmd/scope.go` 73-97 |
| scope delete | `ScopeDeleteCheck`, then `ScopeDeleteOne` or `ScopeDeleteTree` | `cmd/scope.go` 99-220 |

`Crash` kills a process at any place; `Tick` moves the clock.

Abstractions. A `WithTx` block is one action that happens wholly or not at all.
Consecutive reads that decide only between going on and an error (the Gets of
link, the check, listing and descendants of scope delete, the searches of link
accept) are one action. A command that fails before its first write is not
started. A `--link` repeated in one command counts once. Identifiers are fresh
ULIDs: `used` records every identifier that ever had a row, and add never draws
one again. Import, which writes identifiers it has read from a file, is in
`KnownTransfer`, and `NoResurrection` says nothing about it.

### KnownSessions

`row[s]` is the session's row, `events[s]` its events in the order of
`created_at`, `processed` the table `session_reinforcements`, `file` and `stale`
the content and the age of the session file. Each command under a session is
`CommandStart` (which reads the file), one of `CommandReads`, `CommandLinks`,
`CommandDeletes`, then `LogEvent` and `TouchFile`. `LogEvent` may insert its
event before others that were logged since its `created_at` was taken, and may
fail, which the code ignores. A delete whose confirmation is declined returns no
error, so its event is logged while the entry stays (`CommandDeletes`). `session start` is `StartRead`, then `StartReuse`
or `StartCreate`, `StartTruncate`, `StartWrite`; `session end` is `EndRead`,
`EndUpdate`, `EndRemove` and the reinforcement: `ReinforceList`, and one
`ReinforceSession` per session. gc enters at `ReinforceList`.

Weights are thousandths rounded down, so decay is `(w * 9) \div 10`; `Null` is a
weight never set. The Go map of acted entries is iterated in any order
(`Orders`). An add event is logged by the code but is neither a recall nor an
action, and is left out; recall and search count alike and are one event.

### KnownStore

One variable, the committed database. A step puts one entry (a new row, the next
version of the row that is there, or the same row with other labels), removes a
set of entries with everything that hangs on them, changes edges, or changes
scope rows; and the schema holds after it. An UPDATE never changes `created_at`,
a new edge of a put starts at the entry put, and a put adds no scope but the
prefixes of the entry's own. The repositories' comments in `storage/storage.go`
say this method by method.

### KnownPostgres

SQLite has one writer at a time, so a transaction is one step there. PostgreSQL
does not: `tx[p]` holds the rows the open transaction of `p` has written, an
image of them, and the rows it has share-locked because a row of its own refers
to them. `View` is what a statement sees: the committed rows, overlaid with its
own. `Execute` is the enabling condition of a statement: no row it writes is
locked by another transaction, no key it inserts is in doubt, no row it refers
to is about to vanish; a statement that has to wait is not enabled, and looks at
the rows again when it is, as READ COMMITTED does. An error ends the transaction.

`EnsureScope` is one INSERT per prefix, `Upsert` the INSERT ... ON
CONFLICT, `ClearLabels`, `InsertLabels` and `InsertLinks` the statements after it
and `Commit` the COMMIT; `update` has the guarded UPDATE (`UpdateTheRow`) and its
label statements; scope delete is `TreeList`, `TreeEntries`, `TreeScopes` in one
transaction. Deadlocks, which the server breaks by failing one transaction, are
covered by `Crash`: any open transaction may be rolled back at any point.

### KnownTransfer

Two sites, each with a backend, and the file between them. export reads with one
statement per entry (`ExportList`, `ExportLabels`, `ExportEdges`); import and the
batch are a transaction whose statements can fail one by one (`ImportEntry`,
`ImportEdges`, `ImportCommit`; `BatchEntry`, `BatchCommit`). On SQLite a failed
statement leaves the transaction usable and what it did before it failed stays
(`HalfWritten`); on PostgreSQL it is `aborted`, and COMMIT rolls back. `Add`,
`Update`, `Delete` and `Link` edit both sites at any time between.

### KnownEngine and KnownReads

`job` is what one request remembers between two statements: the entry at hand,
edges not looked at, entries visited, the queue of a walk, hits of the vector
search and of the text search, the seeds still to expand, and the answer.

| Request | Actions | Code |
|---|---|---|
| `/api/graph`, `/api/entry`, `known show`, `conflicts`, `stats` | `HandleGraph`, `HandleEntry`, `ShowByID`, `DetectAllConflicts`, `Stats`, then `Scan`, `ScanIn`, `EntryConflicts`, `GraphPeers`, `LookUpPeers` or `ShowEdges` | `webui/api.go`, `query/conflict.go`, `cmd/show.go`, `cmd/stats.go` |
| `/api/neighbors`, `known related` | `HandleNeighbors`, `Related`, then `WalkOut`, `WalkIn`, `Visit` until `EndWalk`; `MeshEdges` | `webui/api.go`, `query/graph.go` |
| `/api/path`, `known path` | `HandlePath`, `PathTo`, `RunPath`, the same walk, `Build` per hop | `query/graph.go`, `cmd/path.go` |
| vector, text and hybrid search, `known recall` | `SearchVector`, `SearchText`, `HandleSearch`, `SearchHybrid`, `Recall`, `RecallByScope`, then `Fetch` (the second pass), `Enrich` per hit, `Match`, `Supersede` per hit, `ExpandFromEntry` per seed with the walk | `query/hybrid.go`, `vector.go`, `text.go`, `cmd/recall.go`, `cmd/search.go` |
| a text in place of an identifier | `ResolveEntry`, `Fetch`, `Enrich`, and `SearchByText` when there is nothing similar | `cmd/resolve.go` |

A score in [0, 1] is ten thousand times as much, rounded down. What the embedder,
FTS5 and the clock say of an entry are the constants `Similarity`, `Relevance`
and `Freshness`; `Scope` and `Now` are the scope searched and the time of the
request, and `InScope` the entries that the WHERE clause of the searches and
listings lets through: of that scope or below, not expired. `--limit 0` means no
limit to the cut at the end and to `recall --scope`, and the default of 10
(`DefaultLimit`) to each search (`OrDefault`). A threshold counts for a text
search when it is given explicitly (`strict`). Where the code sorts with equal
scores, or iterates over a map, every order is tried (`Rankings`, `FuseByRRF`).
Requests run one at a time: they share only the database, which none of them changes. On PostgreSQL the
similarity search is one statement where SQLite has two passes; the model has
the two passes, which allow more.

## 3. What the runs check

Bounds are constants of each `.cfg`. Every run checks for deadlock as well: a
process that has nothing left to do under the bounds can still start a command
or be killed, and a request can still be made, so the instances never stop, and
no state leaves everyone without a step.

| Run | Instance | Properties |
|---|---|---|
| `occ` | 2 processes, 2 identifiers, 2 texts, 2 titles, 1 label, 1 edge, 1 scope, versions to 3 | `TypeOK`, `SchemaHolds`, `VersionIdentifiesRow`, `UpdateReplacesWhatItRead`, `VersionCountsWrites`, `NoResurrection`, `ImplementsStore` |
| `scopes` | 2 processes, 3 identifiers, 2 texts, a scope and its child, clock to 1, TTL 1 | `SchemaHolds`, `PruneKeepsHierarchy`, `TreeDeleteIsComplete`, `ImplementsStore` |
| `sessions` | an agent and a reinforcing process, 2 sessions, 2 entries, 1 edge created with weight 0.98, deletes confirmed or not, 2 events, `KNOWN_SESSION` allowed | `TypeOK`, `ProcessedAreEnded`, `FileNamesASession`, `OneBoostPerSession`, `RecallEarnsTheBoost`, `NeverSaturates`, `CommitsKeepTheContract` |
| `drain` | the same processes with `FairSpec`, 1 event, no `KNOWN_SESSION` | `EndedIsReinforced` |
| `postgres` | 2 processes, one of which also cleans up; 2 identifiers, 1 text, 1 label, 1 edge, a scope and its child, versions to 2 | `TypeOK`, `ImplementsStore`, `UpdateReplacesWhatItRead`, `AddLandsWhole` |
| `transfer` | a SQLite and a PostgreSQL base, 3 identifiers, 2 texts, 1 label, 1 edge, 4 writes, batches of up to 2 lines | `TypeOK`, `ExportIsTheDatabase`, `ImportBringsEveryEntry`, `ImportLosesOnlyForwardEdges`, `PostgresImportsAllEdges`, `BatchWritesTheRest` |
| `queries` | two graphs of 4 entries and up to 4 edges, one with an entry that has expired and one outside the scope, depths 1 and 2, limits none, 1 and 3 (2 where a search is given none), filters, directions, recency 0 and 0.1, one change by another process at any moment | `TypeOK`, `ResponseIsClosed`, `EdgesAreExact`, `TraversalIsExact`, `PathIsShortest`, `HitsAreRanked`, `RecallMissesNothing`, `ExpansionIsSound`, `ResolutionIsJustified`, `EveryRequestEnds` |

Why these bounds are enough to be interesting. Two processes suffice for every
hazard found, all of which are one writer between two steps of another; version 3
leaves room for two writes behind the back of a reader. A scope and its child
give a chain to cut, a subtree to delete, and an entry that expires inside it;
three identifiers fill both scopes and leave one to add late. Two events are a
recall and an action; 0.98 is close enough to the ceiling to reach it without
decay. On PostgreSQL two transactions that meet on a row, a key and a scope are
what there is to meet; a third would only wait for one of them. Four writes are
two entries, an export and two edits or an import and a batch after it. The
graphs of `queries` have a cycle of three kinds of edges, two ways between two
entries, a superseded hit, a hit out of the scope, an expired one and one without a match; depth
2 has a hop beyond the first; one change per request is enough to fall between
any two statements. The limits of a resolution (6 similar entries, 10 matches,
200 listed) are 2, 2 and 3 there, so that four entries reach them. The proofs of
section 5 remove the bounds of `occ`, `scopes`, `sessions`, `postgres`,
`transfer` and `queries`.

Properties of answers distinguish quiet requests, during which nobody wrote, from
others: an answer put together from many statements cannot be exact when the
graph changes under it, but it must be closed and must end.

`sessions` gives reinforcement to one process only: with two, `OneBoostPerSession`
fails (run `doubleboost`), and the run shows that a single reinforcer, killed and
repeated at any point, boosts once.

### Disagreements with the repository's own text

Each of these runs checks one statement that a comment makes, and finds a
behaviour of the code against it.

| Run | Statement | What happens |
|---|---|---|
| `wildcard` | ScopePrefix means "scope and all descendants" (`storage/storage.go` 64) | `my_app` also matches what lies under `my-app` |
| `doubleboost` | "to prevent double-boosting ... Sessions are idempotent" (`query/reinforce.go` 128-130) | two processes hold the same list of sessions, and the mark does nothing the second time |
| `ranking` | "ordered by BM25 relevance (most relevant first)" (`storage/storage.go` 120) | `bm25ToScore` falls as relevance rises, and a recency weight sorts by it; its own comment (`query/query.go` 227-229) calls the result a similarity score |
| `relevance` | the threshold for `no relevant entries` (`query/query.go` 34) | fused scores are at most 2/61, below the threshold of 0.3 for any similarity |
| `expand` | "each result is expanded outward along graph edges up to ExpandDepth hops" (`query/hybrid.go` 18) | the results share the set of entries seen, so one cuts the expansion of another short |

Five more counterexamples are kept as configurations to run by hand
(`tlc -config labels.cfg MCCommands`, and so on):

| Config | Statement | What happens |
|---|---|---|
| `labels` (MCCommands) | `--label` "replaces all labels" (`cmd/update.go` 40) | two updates interleave their label statements, which are outside the lock, and leave a mixture |
| `hierarchy` (MCCommands) | EnsureHierarchy "ensures that all ancestor scopes exist" (`storage/storage.go` 207) | gc prunes the ancestor between two of its statements |
| `accept` (MCCommands) | "repeat accept is idempotent" (`cmd/link.go` 106) | check and insert are two statements; two processes both insert |
| `resume` (MCSessions) | "Start or resume an agent session" (`cmd/session.go` 89) | after a kill inside session end the file names an ended session, and start returns it |
| `moved` (MCPostgres) | a recursive delete removes the tree (`TreeDeleteStaysBelow`) | an update moves a listed entry out of the tree before it is deleted by its identifier |

The first two ask for two processes. One command at a time, killed anywhere, keeps
both statements: a chain of scopes inserted half, a row moved without its labels, a
prune or a deletion left undone, and then any other command, break neither. That is
proved (`AloneKeepsHierarchy`, `AloneSetsLabels` in section 5), and `alone.cfg`, a
sixth configuration to run by hand (MCCommands, one process, 3.4 million states),
finds no counterexample on a scope and its child.

Met while modelling, and left as remarks. "Edges may already exist; log but
continue" (`cmd/import.go` 111) and "Best-effort" (`cmd/batch.go` 189) hold on
SQLite only: on PostgreSQL the failed statement dooms the transaction
(`PostgresImportsAllEdges`, `BatchWritesTheRest`). An import over a base where an
identifier has another text by now is refused as a whole. `query/hybrid.go` 33-34
says that PostgreSQL has no text search; it has one, with positive ranks.
`model/edge.go` 99 speaks of boosted edges above 0.5, which `NeverSaturates`
excludes. An expansion depth of 0 becomes 1. A superseded entry whose correction
is itself superseded may stay above it, as both are demoted alike. `search
--label` filters after its limit, without fetching more. A path whose hop is
deleted while it is shown has an edge without its node, which is why
`ResponseIsClosed` leaves paths out. `cmd/resolve.go` 34 promises the dominance
rule for text matches too; the code takes only a single match or an equal text,
and looks no further than the default scope and the limits in
`ResolutionIsJustified`. A declined deletion is logged like one, so the edges of
the entry that stays decay without a boost.

## 4. Fairness

Safety properties assume nothing: every process may stop anywhere. Two liveness
properties need fairness.

`FairSpec` of `KnownSessions`, for `EndedIsReinforced`: a `session end` that runs
gets on (weak fairness of its two writes), gc or session end is run again and
again, and it is not killed every time before it has committed a session (strong
fairness of `ReinforceList` and `ReinforceSession`, which `Crash` disables). The
code leaves running gc to the user, so this is the assumption of a knowledge base
that is looked after. Nothing is assumed of agents; a session that nobody ends
stays open.

`Spec` of `KnownReads` has weak fairness of `Serve`, for `EveryRequestEnds`:
readers do not wait for writers (write-ahead logging on SQLite, row versions on
PostgreSQL), so a request that is being served goes on. New requests and writes
by others need not happen, and `Delete`, `Link` and `Unlink` may happen between
any two statements within the bound.

## 5. What is proved

`tlapm` checks every proof; the theorems hold for any number of processes,
entries, edges, labels, any set of scope paths closed under prefixes, any LIKE
that satisfies the two assumptions about it, any TTLs, any bounds on clock and versions, and,
for requests, any graph, depth, limit, threshold, filter and scores.

| Theorem | Property |
|---|---|
| `TypeCorrect` | `TypeOK` |
| `SchemaCorrect` | `SchemaHolds` |
| `VersionsCountWrites` | `VersionCountsWrites` |
| `DeletedStayDeleted` | `NoResurrection` |
| `VersionsIdentifyRows` | `VersionIdentifiesRow` |
| `NoLostUpdate` | `UpdateReplacesWhatItRead` |
| `PruneIsSafe` | `PruneKeepsHierarchy` |
| `TreeDeletesAll` | `TreeDeleteIsComplete` |
| `CommandsImplementStore` | `ImplementsStore` |
| `AloneKeepsHierarchy` | `EntryHierarchy`, for at most one process |
| `AloneSetsLabels` | `UpdateSetsLabels`, for at most one process |
| `TypeCorrect` (sessions) | `TypeOK` |
| `ProcessedCorrect` | `ProcessedAreEnded` |
| `FileCorrect` | `FileNamesASession` |
| `WeightsNeverSaturate` | `NeverSaturates` |
| `BoostsAreEarned` | `RecallEarnsTheBoost` |
| `OneReinforcerBoostsOnce` | `OneBoostPerSession`, for at most one reinforcing process |
| `SessionsKeepTheContract` | `CommitsKeepTheContract` |
| `PostgresIsTyped` | `TypeOK` |
| `PostgresIsConsistent` | the schema, for the committed rows |
| `PostgresImplementsStore` | `ImplementsStore` |
| `NoLostUpdateOnPostgres` | `UpdateReplacesWhatItRead` |
| `AddIsWholeOnPostgres` | `AddLandsWhole` |
| `TransferIsTyped` | `TypeOK` |
| `TransferIsConsistent` | the schema, at both sites |
| `ExportIsExact` | `ExportIsTheDatabase` |
| `ImportIsWhole` | `ImportBringsEveryEntry` |
| `ImportLossIsExplained` | `ImportLosesOnlyForwardEdges` |
| `PostgresImportIsWhole` | `PostgresImportsAllEdges` |
| `BatchIsBestEffort` | `BatchWritesTheRest` |
| `ReadsTypeCorrect` | `TypeOK` |
| `ResponsesAreClosed` | `ResponseIsClosed` |
| `AnswersAreExact` | `EdgesAreExact` |
| `AnswersAreRanked` | `HitsAreRanked` |
| `TraversalsAreExact` | `TraversalIsExact` |
| `PathsAreShortest` | `PathIsShortest` |
| `ExpansionsAreSound` | `ExpansionIsSound` |
| `ResolutionsAreJustified` | `ResolutionIsJustified` |
| `RecallsMissNothing` | `RecallMissesNothing` |

Assumptions: `NullAssumption`, `PathsAssumption`, `LikeAssumption`,
`LikeReachesDown`, `WeightsAllowNull`, `NullRowAssumption` of `KnownDB`, and `BoundsAssumption`,
`PostgresAssumption`, `TransferAssumption`, `ReadsAssumption` of the modules that
add constants. TLC evaluates each of them on the runs of its module. The last two
say that there are finitely many identifiers (a ULID has 128 bits): without it a
listing without repetitions need not be complete. `ReadsAssumption` also takes
scores to be natural numbers, a depth and the default limit to be at least 1, and
the three limits of a resolution to be at least 2; in the code the default is 10
and the three are 6, 10 and 200. A limit may be 0, for none.

The argument. `KnownDBProofs` shows for each statement that it takes a well-typed
consistent database to one, under exactly the predicate with which SQLite would
accept it. That is not enough for the commands, since a statement is applied to
what its process remembers: `TypeOK /\ SchemaHolds` is not inductive, because a
process in `updateRow` with an arbitrary memory could write a row outside the
type, or one in `updateScope` run past the end of its path. `IInv` adds what a
process holds at each location (`Fits`) and that live entries have used
identifiers (`LiveAreUsed`). Each action has one lemma; `StepOK` collects them.

For versions, `RowStep` bounds what any step can do to one row: leave it, delete
it, move its version by one, or give a row to an identifier not used before.
`VersionIdentifiesRow` alone is not inductive, since a deleted entry's identifier
could come back at the version the reader has; `Watched` adds that the identifier
of an update in flight is used, so it cannot. `NoLostUpdate` follows: the UPDATE
matches the version, so the row is the one that was read.

`PruneIsSafe` rests on LIKE matching at least what lies below, so an ancestor of
an entry's scope is never pruned; `TreeDeletesAll` on the foreign key: a row that
the listing left out makes the deletion of its scope fail. That the same deletion
takes nothing else is a matter of LIKE alone, and false of the patterns the code
builds (run `wildcard`), so there is no theorem about it.

`CommandsImplementStore` is the refinement: the mapping is the identity on the
database, and each action is shown to be one step of the contract or a stutter.
All are local except the guarded UPDATE: that what it writes is the next version
of the row in the database, with the `created_at` of that row, is optimistic
locking (`VInv`), and what a statement leaves consistent comes from `IInv`.

`AloneKeepsHierarchy` and `AloneSetsLabels` have a hypothesis, that there are no
two processes, which is the instance of `alone.cfg`. Neither property is inductive:
`Orderly` adds what a command has in hand (`InHand`): the prefixes an update has
inserted and that they are those of the scope it will write, the labels the entry
has so far, and that nothing lies below a scope found empty. Only the deletions
need an argument. A pruned scope and one found empty have no entry below them,
whatever else LIKE matches. The recursive deletion may take scopes that do not lie
below the one it is given (run `wildcard`), but by `LikeReachesDown` it then takes
what lies below those too, and an entry there that it does not take stops it
(`TreeKeepsHierarchy`, which holds for any number of processes).

In `KnownSessionsProofs`, the invariants of the runs are not inductive either: a
process about to write the file could name a session without a row, and one that
holds a list of sessions one that has not ended. `Holds` says what is known at
each location, and it lasts because a row only advances (none, open, ended).
`WeightsNeverSaturate` is arithmetic over the two bounds of `Reweigh` for every
action and every order of the acted entries; `BoostsAreEarned` follows the acted
events back to a recall before them.

`OneReinforcerBoostsOnce` has a hypothesis, that no two processes run session end
or gc, which is the instance of `sessions`; with two the property is false
(`doubleboost`). What one process remembers is then enough: none of the sessions
still on its list has been processed (`Undone`), since it alone marks sessions and
drops each from the list with its mark, and a kill drops the list. A transaction
that moves a weight therefore marks a session that was unmarked.
`SessionsKeepTheContract` shows each commit to be a step of `KnownStore`: the
order in which acted entries are met changes the weight of an edge and never its
ends or its type, and `Reweigh` stays inside the type of weights.

In `KnownPostgresProofs` the committed rows alone say too little: a statement
reads its own transaction's rows over the committed ones, and others commit
between two statements. The invariant is about `Outcome`, the committed rows with
a transaction's own laid over them, which is what they will be if it commits now:
it is a consistent database for every open transaction at any time. That another
transaction commits keeps it so is `Interference`, the lemma the module is built
around; it uses just what the server enforces, which is that two transactions lock
no row in common, that a row one of them refers to is share-locked and so not
removed by the other, and that neither inserts a key the other's rows leave in
doubt. `Fits` says what the transaction of each command has done at each of its
statements, `FreshOK` that the identifier of a row not yet inserted is nobody
else's, `KnowsOK` that the version an update has read is one the row had.
`Keeps(p)` gathers what a step of `p` owes to the others, so that each action has
one lemma about its own process (`StepKeeps`). A commit is then a step of the
contract, any other statement a stutter. Proving it, `AfterScopes` was found to
choose between two guards that both hold for a scope create, which leaves the
choice open; it is a conditional now, as the code is.

In `KnownTransferProofs`, `JobOK` relates what a transfer remembers to the
databases it works on. An exporter's file is a `Snapshot` of its site, and only as
long as `since = writes`; the file written from one is `Tidy`: no two lines have
an identifier or a text in common, which comes from the uniqueness of content in
the database it was read from. That is why a line imported stays imported: no
later line can meet its row (`EntriesDone`, `EdgesDone`), edits wait for the
transaction, and on PostgreSQL the first failure ends it. An edge is lost only
because the entry it leads to stands later in the file.

The proofs about requests have one invariant per question, all of them beside
`Typed`, which says what each location of a request expects to remember
(`Expected`), and all of them by the same rule: what has been read so far is what
the database holds, as long as `since = writes`.

- `Collected`: at each location of a graph, an entry, its neighbours or its
  conflicts, what the answer owes by now and what it has at hand. `EndsAreShown`
  is kept without quiet, which is the point of it: an edge enters the answer only
  together with what is known of its two ends, whatever anyone writes meanwhile.
- `Ranked`: a list of hits names an entry once, and where the code has just
  sorted, the best comes first. `Places` and `Picks` say what the model's sorts,
  cuts and filters do to a list, for any order among equal scores.
- `Traversed`: the items of the queue wait in the order of their depths, which
  differ by one at most (`Frontier`), each at its distance from the start; of
  whatever was seen and waits no longer, all neighbours were seen, unless it lies
  at the depth limit (`Sweep`). With an empty queue that is closure under
  neighbours, so everything within the depth (`Within`) is reached. `Sought` is the
  same for a path: the edges an item of the queue carries lead to it without a
  gap (`Leads`), and the target is first met at its distance, so no path is
  shorter.
- `Expanded`: a hit's neighbours have been seen once its expansion is over
  (`Attended`), whichever expansion saw them, and every result is anchored at a
  hit within its depth and scored below it (`Anchored`). That expansions share
  the set of entries seen costs depth beyond the first hop (run `expand`), and
  this is what is left of the promise.
- `Resolved`: a search cut to its limit has kept nothing further away than what
  it dropped (`Nearest`). So when the second fetched is 0.1 behind the first,
  everything not fetched is too; a limit of at least 2 is what makes a second.
- `Recalled`: each search finds all it looks for, or as many as its limit with
  more than the limit to be found (`Finds`). Fusing two lists and expanding keep
  what was found, demotion drops nothing, and a cut that leaves fewer hits than
  the limit has cut nothing; without a limit nothing is cut, but each search still
  fetches no more than the default (`OrDefaultIsPositive`). `Told` is the one more that the listing of a scope
  fetches.

Two things came out of proving them. An entry without an embedding has no place
in a search by similarity, so a text that is its content is given up while other
entries are similar enough to be candidates; `ResolutionIsJustified` used to deny
that, and the instance of `queries` had no such argument. It has one now. And
with a limit of 1 a resolution would be confident of whatever it found, so that
the limits are at least 2 is an assumption.

Only model-checked, because liveness and ENABLED are out of the prover's reach:
`EndedIsReinforced` and `EveryRequestEnds`. Every other property of a passing run
is proved. Also out of reach is what a recursive definition computes for every
input; the walks need none, since `Within` is a recursive
function on the depth and unfolds one round at a time.

## 6. Not modelled, and why

- The migration runner: it is run once per file, by statements of its own.
- The session store of PostgreSQL: its statements are those of SQLite's.
- What an index computes: similarities, full-text ranks, the parsing of a query.
- How `--scope` becomes a path (`cmd/scope_resolve.go`): the commands modelled take
  a resolved path, and every set of entries a scope can select.
- The ranking of link suggestions; `known list`, `show --scope` and `label list`,
  which are one statement and a printout.
- The embedders, and their cache, which lives in one process and holds what a
  text's embedding is in any case.
- The explorer's start and shutdown (`cmd/explore.go`), `/api/meta`, static files.
- Configuration, output, completion, scaffolding and benchmarks: no shared state.
- Failures inside the database (a full disk, a corrupted file) and a busy
  database that outlasts its timeout are an error before a commit, which has the
  effect of `Crash`.

## 7. Plan

Done: the SQLite store and its commands, sessions and reinforcement, the storage
contract and both backends against it, transfer, reading, and proofs about all of
them. What is left, in this order:

1. `KnownMigrate`: the migration runner with two first runs and kills.
2. `--scope` resolution beside a process that creates and prunes scopes.
