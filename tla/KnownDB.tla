------------------------------ MODULE KnownDB ------------------------------
(***************************************************************************)
(* The knowledge base of `known` as one SQLite database holds it: the      *)
(* tables scopes, entries, entry_labels and edges, and the statements the  *)
(* stores of storage/sqlite issue against them.                            *)
(*                                                                         *)
(* A database is a value `d`; a statement is an operator from a database   *)
(* to the database it leaves behind, with a predicate beside it where      *)
(* SQLite can refuse the statement (a primary key, a UNIQUE index, a       *)
(* foreign key, a CHECK).  A transaction is a composition of statements; a *)
(* command outside a transaction applies them one at a time.               *)
(***************************************************************************)
EXTENDS Naturals, Sequences

CONSTANTS
    Ids,          \* entry identifiers (ULIDs)
    EdgeIds,      \* edge identifiers (ULIDs)
    Contents,     \* entry texts; equal texts have equal hashes (SHA-256)
    Titles,       \* the columns an update may change freely, as one value
    Labels,       \* label texts
    EdgeTypes,    \* relationship types
    Weights,      \* edge weights that may be stored, Null among them
    Segments,     \* scope path segments
    Paths,        \* scope paths: non-empty sequences of segments
    LikeUnder,    \* LikeUnder[p]: the paths that match p || '.%' in a LIKE
    Null          \* SQL NULL, and the absence of a row

ASSUME NullAssumption ==
    Null \notin Ids \cup EdgeIds \cup Paths \cup Nat

\* model/scope.go ParseScopePath: a path has a segment, and every prefix of
\* a valid path is a valid path.
ASSUME PathsAssumption ==
    /\ Paths \subseteq Seq(Segments)
    /\ \A s \in Paths : Len(s) > 0
    /\ \A s \in Paths : \A i \in 1..Len(s) : SubSeq(s, 1, i) \in Paths

(***************************************************************************)
(* Rows.  `expires` is Null for an entry with no TTL.                      *)
(***************************************************************************)
Row == [content : Contents, scope : Paths, title : Titles,
        created : Nat, expires : Nat \cup {Null}, version : Nat]

Edge == [from : Ids, to : Ids, type : EdgeTypes, weight : Weights]

ASSUME WeightsAllowNull == Null \in Weights

ASSUME NullRowAssumption == Null \notin Row /\ Null \notin Edge

Database == [scopes  : SUBSET Paths,
             entries : [Ids -> Row \cup {Null}],
             labels  : SUBSET (Ids \X Labels),
             edges   : [EdgeIds -> Edge \cup {Null}]]

EmptyDatabase == [scopes  |-> {},
                  entries |-> [i \in Ids |-> Null],
                  labels  |-> {},
                  edges   |-> [e \in EdgeIds |-> Null]]

(***************************************************************************)
(* Scope paths.                                                            *)
(***************************************************************************)
PrefixesFromZero(path) == {SubSeq(path, 1, i) : i \in 0..Len(path)}
Prefixes(path) == {SubSeq(path, 1, i) : i \in 1..Len(path)}

\* s lies strictly below p: the hierarchical reading of the dotted path.
Below(p, s) == /\ Len(s) > Len(p)
               /\ \A i \in 1..Len(p) : s[i] = p[i]

\* s LIKE (p || '.%'): what SQLite answers instead.  It includes what lies
\* below p; a `_` in p, which stands for any character, and the case of
\* letters, which LIKE ignores, may let it include more.
LikeBelow(p, s) == s \in LikeUnder[p]

ASSUME LikeAssumption ==
    /\ LikeUnder \in [Paths -> SUBSET Paths]
    /\ \A p, s \in Paths : Below(p, s) => LikeBelow(p, s)
    /\ \A p \in Paths : ~LikeBelow(p, p)

\* The final % matches whatever else follows.
ASSUME LikeReachesDown ==
    \A p, s, x \in Paths : LikeBelow(p, s) /\ Below(s, x) => LikeBelow(p, x)

(***************************************************************************)
(* Queries.                                                                *)
(***************************************************************************)
Live(d, i) == d.entries[i] # Null

Present(d, e) == d.edges[e] # Null

LabelsOf(d, i) == {l \in Labels : <<i, l>> \in d.labels}

\* The row the UNIQUE (content_hash, scope) index finds, as a set of ids.
Holders(d, content, scope) ==
    {i \in Ids : /\ Live(d, i)
                 /\ d.entries[i].content = content
                 /\ d.entries[i].scope = scope}

Expired(d, now) ==
    {i \in Ids : /\ Live(d, i)
                 /\ d.entries[i].expires # Null
                 /\ d.entries[i].expires <= now}

\* EntryFilter{ScopePrefix: path}: expired entries are left out.
ListPrefix(d, path, now) ==
    {i \in Ids : /\ Live(d, i)
                 /\ i \notin Expired(d, now)
                 /\ \/ d.entries[i].scope = path
                    \/ LikeBelow(path, d.entries[i].scope)}

ListGrandchildren(d, path) ==
    {s \in d.scopes : LikeBelow(path, s) /\ Len(s) > Len(path) + 1}
ListDescendants(d, path) == {s \in d.scopes : LikeBelow(path, s)}

EdgesBetween(d, from, to) ==
    {e \in EdgeIds : /\ Present(d, e)
                     /\ d.edges[e].from = from
                     /\ d.edges[e].to = to}

(***************************************************************************)
(* Statements on scopes.                                                   *)
(***************************************************************************)
InsertScope(d, path) == [d EXCEPT !.scopes = @ \cup {path}]

EnsureHierarchy(d, path) == [d EXCEPT !.scopes = @ \cup Prefixes(path)]

Referenced(d, path) == \E i \in Ids : Live(d, i) /\ d.entries[i].scope = path

CanDeleteScopeUnchecked(d, path) == path \in d.scopes
CanDeleteScope(d, path) == path \in d.scopes /\ ~Referenced(d, path)

DeleteScope(d, path) == [d EXCEPT !.scopes = @ \ {path}]

\* One statement: no entry in the scope, and none LIKE-below it.
DeleteEmptyForgetsAncestors(d) ==
    [d EXCEPT !.scopes = {s \in @ : Referenced(d, s)}]
DeleteEmpty(d) ==
    [d EXCEPT !.scopes =
        {s \in @ : \/ Referenced(d, s)
                   \/ \E i \in Ids : /\ Live(d, i)
                                     /\ LikeBelow(s, d.entries[i].scope)}]

(***************************************************************************)
(* Statements on entries and their labels.                                 *)
(***************************************************************************)
DeleteLabels(d, i) == [d EXCEPT !.labels = {x \in @ : x[1] # i}]

CanInsertLabel(d, i, l) == Live(d, i) /\ <<i, l>> \notin d.labels

InsertLabel(d, i, l) == [d EXCEPT !.labels = @ \cup {<<i, l>>}]

SaveLabels(d, i, ls) ==
    [d EXCEPT !.labels = {x \in @ : x[1] # i} \cup ({i} \X ls)]

\* INSERT ... ON CONFLICT (content_hash, scope) DO UPDATE: the row that keeps
\* the pair absorbs the new columns; only a fresh row needs a fresh id.
UpsertTarget(d, i, row) ==
    LET h == Holders(d, row.content, row.scope)
    IN  IF h = {} THEN i ELSE CHOOSE j \in h : TRUE

CanUpsert(d, i, row) ==
    Holders(d, row.content, row.scope) = {} => ~Live(d, i)

UpsertRowKeepsVersion(d, i, row) ==
    LET t == UpsertTarget(d, i, row)
    IN  IF Live(d, t)
        THEN [row EXCEPT !.created = d.entries[t].created,
                         !.version = d.entries[t].version]
        ELSE row
UpsertRow(d, i, row) ==
    LET t == UpsertTarget(d, i, row)
    IN  IF Live(d, t)
        THEN [row EXCEPT !.created = d.entries[t].created,
                         !.version = d.entries[t].version + 1]
        ELSE row

\* createOrUpdateInner in its transaction: hierarchy, row, and the labels
\* when the caller gave any.
CreateOrUpdate(d, i, row, ls) ==
    LET t == UpsertTarget(d, i, row)
        w == [EnsureHierarchy(d, row.scope)
                EXCEPT !.entries[t] = UpsertRow(d, i, row)]
    IN  IF ls = {} THEN w ELSE SaveLabels(w, t, ls)

\* UPDATE entries SET ..., version = ? + 1 WHERE id = ? AND version = ?
\* The statement finds its row, and SQLite accepts the new one: the scope
\* exists and no other row has the content there.
UpdateIgnoresVersion(d, i, row) == Live(d, i)
UpdateMatches(d, i, row) == Live(d, i) /\ d.entries[i].version = row.version

CanUpdate(d, i, row) ==
    /\ UpdateMatches(d, i, row)
    /\ row.scope \in d.scopes
    /\ Holders(d, row.content, row.scope) \subseteq {i}

UpdateRowKeepsVersion(d, i, row) == [d EXCEPT !.entries[i] = row]
UpdateRow(d, i, row) ==
    [d EXCEPT !.entries[i] = [row EXCEPT !.version = @ + 1]]

\* DELETE FROM entries: labels and edges follow by ON DELETE CASCADE.
DeleteKeepsIncomingEdges(d, gone) ==
    [d EXCEPT
        !.entries = [i \in Ids |-> IF i \in gone THEN Null ELSE @[i]],
        !.labels  = {x \in @ : x[1] \notin gone},
        !.edges   = [e \in EdgeIds |->
                        IF @[e] # Null /\ @[e].from \in gone
                        THEN Null ELSE @[e]]]
DeleteEntries(d, gone) ==
    [d EXCEPT
        !.entries = [i \in Ids |-> IF i \in gone THEN Null ELSE @[i]],
        !.labels  = {x \in @ : x[1] \notin gone},
        !.edges   = [e \in EdgeIds |->
                        IF /\ @[e] # Null
                           /\ @[e].from \in gone \/ @[e].to \in gone
                        THEN Null ELSE @[e]]]

DeleteExpired(d, now) == DeleteEntries(d, Expired(d, now))

(***************************************************************************)
(* Statements on edges.                                                    *)
(***************************************************************************)
\* INSERT INTO edges, once per link: a link is a target and a type, and
\* name[l] is the identifier NewEdge draws for link l.  Both ends must exist
\* (foreign keys) and differ (CHECK).
CanLink(d, from, link) == Live(d, from) /\ Live(d, link[1]) /\ from # link[1]

CanInsertEdges(d, from, name) ==
    /\ \A l \in DOMAIN name : CanLink(d, from, l) /\ ~Present(d, name[l])
    /\ \A l, m \in DOMAIN name : name[l] = name[m] => l = m

InsertEdges(d, from, name, weight) ==
    LET linkOf(e) == CHOOSE l \in DOMAIN name : name[l] = e
    IN  [d EXCEPT !.edges = [e \in EdgeIds |->
            IF \E l \in DOMAIN name : name[l] = e
            THEN [from |-> from, to |-> linkOf(e)[1],
                  type |-> linkOf(e)[2], weight |-> weight]
            ELSE @[e]]]

DeleteEdge(d, e) == [d EXCEPT !.edges[e] = Null]

(***************************************************************************)
(* What the schema promises of every database: no dangling reference, and  *)
(* one entry for a text in a scope.                                        *)
(***************************************************************************)
ScopesExist(d) ==
    \A i \in Ids : Live(d, i) => d.entries[i].scope \in d.scopes

ContentUnique(d) ==
    \A i, j \in Ids :
        /\ Live(d, i) /\ Live(d, j)
        /\ d.entries[i].content = d.entries[j].content
        /\ d.entries[i].scope = d.entries[j].scope
        => i = j

LabelsOwned(d) == \A x \in d.labels : Live(d, x[1])

EdgesAnchored(d) ==
    \A e \in EdgeIds :
        Present(d, e) => /\ Live(d, d.edges[e].from)
                         /\ Live(d, d.edges[e].to)
                         /\ d.edges[e].from # d.edges[e].to

Consistent(d) == /\ ScopesExist(d)
                 /\ ContentUnique(d)
                 /\ LabelsOwned(d)
                 /\ EdgesAnchored(d)
=============================================================================
