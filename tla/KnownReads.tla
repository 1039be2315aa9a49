---------------------------- MODULE KnownReads ----------------------------
(***************************************************************************)
(* The commands and the web explorer's requests that read the graph while  *)
(* other processes change it.                                              *)
(*                                                                         *)
(* None of them opens a transaction: each is a sequence of statements, and *)
(* what one statement returned may be gone when the next one runs.  A step *)
(* is a statement with the computation up to the next one.  The reader     *)
(* serves one request at a time; concurrent requests share nothing but the *)
(* database, which they do not change.                                     *)
(***************************************************************************)
EXTENDS KnownEngine

CONSTANTS
    Initial,     \* the knowledge bases a request may find
    Kinds,       \* the requests that are made
    Depths,      \* values of --depth, --max-depth and --expand-depth
    Directions,  \* values of --direction: "out", "in", "both"
    TypeFilters, \* values of --edge-type, {} for all
    Scope,       \* the scope that is searched: --scope or the default one
    Now,         \* the clock, which stands still during a request
    Similarity,  \* an entry's score for the query, 0 without an embedding
    Relevance,   \* the absolute value of its full-text rank, 0 for no match
    Freshness,   \* its freshness score
    Recencies,   \* values of --recency, in thousandths
    Limits,      \* values of --limit, 0 for none
    DefaultLimit, \* what a search fetches without a limit: 10
    Filters,     \* what --label, --provenance and --source let through
    Threshold,   \* --threshold
    Arguments,   \* the texts that name an entry on a command line: which
                 \* entries consist of it, and which ones contain it
    SimilarLimit, TextLimit, ListLimit, \* how far its resolution looks:
                                        \* 6, 10 and 200
    LinkTypes,   \* values of --type of a concurrent known link
    MaxWrites    \* bound: changes by other processes

Argument == [exact : SUBSET Ids, containing : SUBSET Ids]

ASSUME ReadsAssumption ==
    /\ IsFiniteSet(Ids)  \* a ULID has 128 bits
    /\ Weights \subseteq 0..1000 \cup {Null}
    /\ \A d \in Initial : d \in Database /\ Consistent(d)
    /\ Scope \in Paths /\ Now \in Nat
    /\ Depths \cup {DefaultLimit} \subseteq Nat \ {0}
    /\ Limits \subseteq Nat
    /\ Directions \subseteq {"out", "in", "both"}
    /\ TypeFilters \subseteq SUBSET EdgeTypes
    /\ {Similarity, Relevance, Freshness} \subseteq [Ids -> Nat]
    /\ Recencies \subseteq 0..1000
    /\ Arguments \subseteq {a \in Argument : a.exact \subseteq a.containing}
    /\ {SimilarLimit, TextLimit, ListLimit} \subseteq Nat \ {0, 1}
    /\ LinkTypes \subseteq EdgeTypes
    /\ Filters \subseteq SUBSET Ids
    /\ Threshold \in Nat
    /\ MaxWrites \in Nat

VARIABLES
    db,      \* the knowledge base
    writes,  \* changes made so far
    pc,      \* where the request is
    job      \* what it remembers between two statements

vars == <<db, writes, pc, job>>

-----------------------------------------------------------------------------
Item == [id : Ids, depth : Nat, score : Nat, path : Seq(EdgeCopy)]

At(i, depth, score, path) ==
    [id |-> i, depth |-> depth, score |-> score, path |-> path]

NoJob == [kind |-> "none", since |-> 0,
          \* options
          start |-> Null, target |-> Null, depth |-> 1, dir |-> "both",
          types |-> {}, limit |-> 0, total |-> 0, recency |-> 0,
          text |-> FALSE, keep |-> FALSE, strict |-> FALSE, wanted |-> Ids,
          argument |-> [exact |-> {}, containing |-> {}],
          \* traversal
          cur |-> Null, pending |-> {}, visited |-> {}, queue |-> <<>>,
          path |-> <<>>,
          \* search
          phase |-> "none", ranked |-> <<>>, vector |-> <<>>, seeds |-> <<>>,
          at |-> 1,
          \* response
          todo |-> {}, nodes |-> {}, external |-> {}, missing |-> {},
          edges |-> {}, conflicts |-> {}, results |-> <<>>,
          more |-> FALSE]

TypeOK ==
    /\ db \in Database
    /\ writes \in 0..MaxWrites
    /\ pc \in {"idle", "scan", "scanIn", "conflicts", "peers", "pathTo",
               "walk", "walkIn", "visit", "build", "fetch", "enrich",
               "supersede", "match", "list", "done"}
    /\ job.kind \in Kinds \cup {"none"}
    /\ job.argument \in Argument
    /\ {job.start, job.target} \subseteq Ids \cup {Null}
    /\ job.cur = Null \/ job.cur \in Item
    /\ job.pending \cup job.edges \subseteq EdgeCopy
    /\ UNION {job.visited, job.todo, job.nodes, job.external, job.missing,
              job.conflicts} \subseteq Ids
    /\ job.queue \in Seq(Item)
    /\ job.path \in Seq(EdgeCopy)
    /\ job.ranked \in Seq(Ids)
    /\ {job.vector, job.seeds, job.results} \subseteq Seq(Result)
    /\ job.more \in BOOLEAN

Init == /\ db \in Initial
        /\ writes = 0
        /\ pc = "idle"
        /\ job = NoJob

LiveIds == {i \in Ids : Live(db, i)}

\* The WHERE clause that the searches and the listing of a scope share.
InScope == ListPrefix(db, Scope, Now)

Goto(loc, j) == pc' = loc /\ job' = j /\ UNCHANGED <<db, writes>>

Begin(kind) == pc = "idle" /\ kind \in Kinds

New(kind) == [NoJob EXCEPT !.kind = kind, !.since = writes]

Finish == pc = "done" /\ Goto("idle", NoJob)

-----------------------------------------------------------------------------
(***************************************************************************)
(* Requests for the edges around a set of entries: GET /api/graph, GET     *)
(* /api/entry, known show, conflicts and stats, and the second half of GET *)
(* /api/neighbors.                                                         *)
(***************************************************************************)
\* The entries that scope, label and limit let through.
HandleGraph ==
    /\ Begin("graph")
    /\ \E shown \in SUBSET LiveIds :
         Goto("scan", [New("graph") EXCEPT !.nodes = shown, !.todo = shown])

DetectAllConflicts ==
    /\ Begin("conflicts")
    /\ \E listed \in SUBSET LiveIds :
         Goto("scan", [New("conflicts") EXCEPT !.nodes = listed,
                                               !.todo = listed])

HandleEntry ==
    /\ Begin("entry")
    /\ \E i \in LiveIds :
         Goto("scan", [New("entry") EXCEPT !.nodes = {i}, !.todo = {i}])

ShowByID ==
    /\ Begin("show")
    /\ \E i \in LiveIds :
         Goto("scan", [New("show") EXCEPT !.nodes = {i}, !.todo = {i}])

Stats ==
    /\ Begin("stats")
    /\ \E listed \in SUBSET LiveIds :
         Goto("scan", [New("stats") EXCEPT !.nodes = listed, !.todo = listed])

Scan ==
    /\ pc = "scan"
    /\ \/ /\ job.todo = {}
          /\ Goto("done", job)
       \/ \E i \in job.todo :
            LET out == EdgesFrom(db, i)
                j == [job EXCEPT !.cur = At(i, 0, 0, <<>>), !.todo = @ \ {i}]
            IN  CASE job.kind = "conflicts" ->
                       Goto("peers", [j EXCEPT !.pending =
                                        OfTypes(out, {"contradicts"})])
                  [] job.kind = "stats" ->
                       Goto("scan", [j EXCEPT !.edges = @ \cup out])
                  [] job.kind \notin {"conflicts", "stats"} ->
                       Goto("scanIn", [j EXCEPT !.pending = out])

ScanIn ==
    /\ pc = "scanIn"
    /\ Goto(IF job.kind \in {"entry", "show"} THEN "conflicts" ELSE "peers",
            [job EXCEPT !.pending = @ \cup EdgesTo(db, job.cur.id)])

EntryConflicts ==
    /\ pc = "conflicts"
    /\ Goto("peers", [job EXCEPT !.conflicts = FindConflicts(db, job.cur.id)])

\* known show prints the edges as they are.
ShowEdges ==
    /\ pc = "peers" /\ job.kind = "show"
    /\ Goto("scan", [job EXCEPT !.pending = {}, !.edges = @ \cup job.pending])

\* buildMesh keeps the edges between its nodes, and looks nothing up.
MeshFollowsTypes ==
    /\ pc = "peers" /\ job.kind = "neighbors"
    /\ Goto("scan",
            [job EXCEPT !.pending = {},
               !.edges = @ \cup {x \in OfTypes(job.pending, job.types) :
                                   {x.from, x.to} \subseteq job.nodes}])
MeshEdges ==
    /\ pc = "peers" /\ job.kind = "neighbors"
    /\ Goto("scan",
            [job EXCEPT !.pending = {},
               !.edges = @ \cup {x \in job.pending :
                                   {x.from, x.to} \subseteq job.nodes}])

\* buildGraph: an end outside the nodes is looked up once, and joins them as
\* an external node; an edge to an entry that is gone is left out.
GraphPeersUnchecked ==
    /\ pc = "peers" /\ job.kind = "graph"
    /\ \/ job.pending = {} /\ Goto("scan", job)
       \/ \E x \in job.pending :
            LET peer == Other(x, job.cur.id)
                j == [job EXCEPT !.pending = @ \ {x}, !.edges = @ \cup {x}]
            IN  IF peer \in job.nodes \cup job.external \/ ~Live(db, peer)
                THEN Goto("peers", j)
                ELSE Goto("peers", [j EXCEPT !.external = @ \cup {peer}])
GraphPeers ==
    /\ pc = "peers" /\ job.kind = "graph"
    /\ \/ job.pending = {} /\ Goto("scan", job)
       \/ \E x \in job.pending :
            LET peer == Other(x, job.cur.id)
                j == [job EXCEPT !.pending = @ \ {x}]
            IN  IF peer \in job.nodes \cup job.external
                THEN Goto("peers", [j EXCEPT !.edges = @ \cup {x}])
                ELSE IF peer \in job.missing THEN Goto("peers", j)
                ELSE IF Live(db, peer)
                THEN Goto("peers", [j EXCEPT !.edges = @ \cup {x},
                                             !.external = @ \cup {peer}])
                ELSE Goto("peers", [j EXCEPT !.missing = @ \cup {peer}])

\* peerRef looks every edge's other end up, and names it "(missing)" when it
\* is gone; DetectAllConflicts leaves such a pair out.
LookUpPeers ==
    /\ pc = "peers" /\ job.kind \in {"entry", "conflicts"}
    /\ \/ job.pending = {} /\ Goto("scan", job)
       \/ \E x \in job.pending :
            LET peer == Other(x, job.cur.id)
                j == [job EXCEPT !.pending = @ \ {x}]
            IN  IF Live(db, peer)
                THEN Goto("peers", [j EXCEPT !.edges = @ \cup {x},
                                             !.external = @ \cup {peer}])
                ELSE IF job.kind = "entry"
                THEN Goto("peers", [j EXCEPT !.edges = @ \cup {x},
                                             !.missing = @ \cup {peer}])
                ELSE Goto("peers", j)

-----------------------------------------------------------------------------
(***************************************************************************)
(* Breadth-first walks: Traverse, FindPath and expandFromEntry differ in   *)
(* where they start, what they do with an entry, and when they stop.       *)
(***************************************************************************)
Walk(j, i, score) ==
    [j EXCEPT !.queue = <<At(i, 0, score, <<>>)>>, !.visited = @ \cup {i}]

HandleNeighbors ==
    /\ Begin("neighbors")
    /\ \E i \in LiveIds, n \in Depths, dir \in Directions,
          types \in TypeFilters :
         Goto("walk", Walk([New("neighbors") EXCEPT
                              !.start = i, !.depth = n, !.dir = dir,
                              !.types = types, !.nodes = {i},
                              !.results = <<Found(i, 0, 0)>>], i, 0))

Related ==
    /\ Begin("related")
    /\ \E i \in Ids, n \in Depths, dir \in Directions, types \in TypeFilters :
         Goto("walk", Walk([New("related") EXCEPT
                              !.start = i, !.depth = n, !.dir = dir,
                              !.types = types], i, 0))

HandlePath ==
    /\ Begin("path")
    /\ \E i \in LiveIds, k \in Ids, n \in Depths :
         Goto("pathTo", [New("path") EXCEPT
                           !.start = i, !.target = k, !.depth = n,
                           !.nodes = {i}])

PathTo ==
    /\ pc = "pathTo"
    /\ IF Live(db, job.target) THEN Goto("walk", Walk(job, job.start, 0))
                               ELSE Goto("idle", NoJob)

\* known path: what the arguments resolved to, which nobody looks up again.
RunPath ==
    /\ Begin("path")
    /\ \E i \in Ids, k \in Ids, n \in Depths :
         Goto("walk", Walk([New("path") EXCEPT
                              !.start = i, !.target = k, !.depth = n,
                              !.nodes = {i}], i, 0))

\* What lies at the depth limit is taken off the queue and passed over.
ExpandableOneMore ==
    Sublist(job.queue, {n \in DOMAIN job.queue : job.queue[n].depth <= job.depth})
Expandable ==
    Sublist(job.queue, {n \in DOMAIN job.queue : job.queue[n].depth < job.depth})

WalkOut ==
    /\ pc = "walk" /\ Expandable # <<>>
    /\ LET cur == Head(Expandable)
           j == [job EXCEPT !.cur = cur, !.queue = Tail(Expandable)]
           out == OfTypes(EdgesFrom(db, cur.id), job.types)
           in == OfTypes(EdgesTo(db, cur.id), job.types)
       IN  CASE job.dir = "in"   -> Goto("visit", [j EXCEPT !.pending = in])
             [] job.dir = "out"  -> Goto("visit", [j EXCEPT !.pending = out])
             [] job.dir = "both" -> Goto("walkIn", [j EXCEPT !.pending = out])

WalkIn ==
    /\ pc = "walkIn"
    /\ Goto("visit",
            [job EXCEPT !.pending =
               @ \cup OfTypes(EdgesTo(db, job.cur.id), job.types)])

\* Outgoing edges come first, each kind by age; edges of one age in any order.
NextEdges(fresh) ==
    LET out == {x \in fresh : x.from = job.cur.id}
    IN  IF out # {} THEN out ELSE fresh

MarkNothing(peer) == job.visited
Mark(peer) == job.visited \cup {peer}

Enqueue(queue, it) == Append(queue, it)

Reached(j, peer, x) ==
    LET n == job.cur.depth + 1
        score == ExpansionScore(job.cur.score, x)
    IN  [j EXCEPT !.nodes = @ \cup {peer},
                  !.results = Append(@, Found(peer, score, n)),
                  !.queue = Enqueue(@, At(peer, n, score, <<>>))]

\* FindPath looks nothing up on its way, and stops at the target.
Passed(j, peer, x) ==
    [j EXCEPT !.queue = Enqueue(@, At(peer, job.cur.depth + 1, 0,
                                      Append(job.cur.path, x)))]

Visit ==
    /\ pc = "visit"
    /\ LET fresh == {x \in job.pending :
                       Other(x, job.cur.id) \notin job.visited}
       IN  \/ fresh = {} /\ Goto("walk", [job EXCEPT !.pending = {}])
           \/ \E x \in NextEdges(fresh) :
                LET peer == Other(x, job.cur.id)
                    j == [job EXCEPT !.pending = fresh \ {x},
                                     !.visited = Mark(peer)]
                IN  CASE job.kind = "path" /\ peer = job.target ->
                           Goto("build", [j EXCEPT
                                            !.path = Append(job.cur.path, x),
                                            !.visited = {job.start}])
                      [] job.kind = "path" /\ peer # job.target ->
                           Goto("visit", Passed(j, peer, x))
                      [] job.kind # "path" ->
                           Goto("visit", IF Live(db, peer)
                                         THEN Reached(j, peer, x) ELSE j)

\* The queue is empty: no path, or on to the conflicts of what was reached.
EndWalk ==
    /\ pc = "walk" /\ Expandable = <<>> /\ job.seeds = <<>>
    /\ IF job.kind = "path" THEN Goto("done", job)
                            ELSE Goto("enrich", [job EXCEPT !.at = 1])

\* buildPathResults and pathGraph: one lookup per hop; an entry that is gone
\* by now is skipped, and the edges up to each entry that is shown are shown.
Build ==
    /\ pc = "build"
    /\ LET hop == job.path[job.at]
           peer == IF hop.from \notin job.visited THEN hop.from ELSE hop.to
           j == [job EXCEPT !.at = @ + 1, !.visited = @ \cup {peer}]
       IN  Goto(IF job.at = Len(job.path) THEN "done" ELSE "build",
                IF Live(db, peer)
                THEN [j EXCEPT !.nodes = @ \cup {peer},
                        !.results = Append(@, Found(peer, 0, job.at)),
                        !.edges = @ \cup {job.path[n] : n \in 1..job.at}]
                ELSE j)

-----------------------------------------------------------------------------
(***************************************************************************)
(* Searches.  `phase` says whose results are at hand: the vector search's, *)
(* the text search's, or those of the hybrid search that started them.     *)
(***************************************************************************)
Best(scores, limit) ==
    {Cut(q, limit) : q \in Rankings({i \in InScope : scores[i] > 0}, scores)}

\* Each search has a limit of its own when it is given none.
OrDefault(limit) == IF limit = 0 THEN DefaultLimit ELSE limit

\* SearchSimilar, first pass: the nearest entries, by id.
StartVector(j) ==
    \E q \in Best(Similarity, OrDefault(j.limit)) :
       Goto("fetch", [j EXCEPT !.phase = "vector", !.ranked = q])

\* SearchText, first pass.
StartText(j) ==
    \E q \in Best(Relevance, OrDefault(j.limit)) :
       Goto("fetch", [j EXCEPT !.phase = "text", !.ranked = q])

SearchVector ==
    /\ Begin("vector")
    /\ \E limit \in Limits, w \in Recencies, wanted \in Filters :
         StartVector([New("vector") EXCEPT
                        !.limit = limit, !.recency = w, !.wanted = wanted])

\* known search --text and known recall --text, with --threshold or without.
SearchText ==
    /\ Begin("text")
    /\ \E limit \in Limits, w \in Recencies, wanted \in Filters,
          strict \in BOOLEAN :
         StartText([New("text") EXCEPT
                      !.limit = limit, !.recency = w, !.wanted = wanted,
                      !.strict = strict])

\* The explorer's search has a limit, no recency weight and no filter.
HandleSearch ==
    /\ Begin("search")
    /\ \E limit \in Limits \ {0} : StartText([New("search") EXCEPT !.limit = limit])

\* known search --hybrid, with --text or without.
SearchHybrid ==
    /\ Begin("hybrid")
    /\ \E limit \in Limits, w \in Recencies, wanted \in Filters,
          n \in Depths, text \in BOOLEAN :
         StartVector([New("hybrid") EXCEPT
                        !.limit = limit, !.recency = w, !.wanted = wanted,
                        !.depth = n, !.text = text])

\* known recall: with a filter, it asks for ten times as many.
FetchLimitPlain(limit, wanted) == limit
FetchLimit(limit, wanted) == IF wanted = Ids THEN limit ELSE 10 * limit

Recall ==
    /\ Begin("recall")
    /\ \E limit \in Limits, w \in Recencies, wanted \in Filters,
          n \in Depths, keep \in BOOLEAN :
         StartVector([New("recall") EXCEPT
                        !.limit = FetchLimit(limit, wanted),
                        !.total = limit, !.recency = w, !.wanted = wanted,
                        !.depth = n, !.text = TRUE, !.keep = keep])

\* known recall --scope without a text: one entry more than is shown is
\* listed, to say whether there are more; without a limit all are shown.
NewestFirst(ids) == Rankings(ids, [i \in ids |-> db.entries[i].created])

RecallByScope ==
    /\ Begin("scope")
    /\ \E limit \in Limits, wanted \in Filters :
       \E listed \in NewestFirst(InScope \cap wanted) :
         LET fetched == Cut(listed, IF limit > 0 THEN limit + 1 ELSE 0)
             shown == Cut(fetched, limit)
         IN  Goto("done",
                  [New("scope") EXCEPT
                     !.total = limit, !.wanted = wanted,
                     !.more = limit > 0 /\ Len(fetched) > limit,
                     !.results = [n \in DOMAIN shown |-> Found(shown[n], 0, 0)]])

\* Any command whose argument is a text and not an identifier.  Without an
\* embedder, or when it fails, the entries are listed instead.
ResolveEntry ==
    /\ Begin("resolve")
    /\ \E argument \in Arguments :
         LET j == [New("resolve") EXCEPT !.argument = argument,
                                         !.limit = SimilarLimit]
         IN  StartVector(j) \/ Goto("list", j)

Score(j, i) ==
    LET own == IF j.phase = "vector" THEN Similarity[i]
                                     ELSE BM25ToScore(Relevance[i])
    IN  IF j.recency = 0 THEN own ELSE BlendScore(own, Freshness[i], j.recency)

\* The threshold is for similarities, and for a text search when it is
\* explicit; a resolution has none.
Thresholded(j) == \/ j.phase = "vector" /\ j.kind # "resolve"
                  \/ j.strict

Kept(j, i) == Live(db, i) /\ (Thresholded(j) => Score(j, i) >= Threshold)

\* Second pass: the rows that are still there, scored, filtered and sorted.
Fetch ==
    /\ pc = "fetch"
    /\ \E rows \in {Among(job.ranked, {i \in Ids : Kept(job, i)})} :
       \E found \in {[n \in DOMAIN rows |->
                        Found(rows[n], Score(job, rows[n]), 0)]} :
         Goto("enrich",
              [job EXCEPT !.ranked = <<>>, !.at = 1,
                 !.results = IF job.recency > 0 THEN SortByScore(found)
                                                ELSE found])

\* enrichConflicts, one result at a time.
Enrich ==
    /\ pc = "enrich" /\ job.at <= Len(job.results)
    /\ Goto("enrich",
            [job EXCEPT !.at = @ + 1,
               !.results[job.at].conflict =
                  @ \/ FindConflicts(db, job.results[job.at].id) # {}])

Wanted(j, rs) == IF j.wanted = Ids THEN rs ELSE Having(rs, j.wanted)

Show(j, rs) == Goto("done", [j EXCEPT !.results = Wanted(j, rs)])

Expand(j, rs) ==
    Goto("walk", [j EXCEPT !.phase = "hybrid", !.vector = rs, !.seeds = rs,
                           !.results = rs, !.visited = Listed(rs)])

\* resolveEntryConfident, on the similar entries: one whose content is the
\* argument, or a first one that is good and far ahead of the second.
ClearlyFirst(rs) ==
    LET second == IF Len(rs) > 1 THEN rs[2].score ELSE 0
    IN  rs[1].score >= 8000 /\ rs[1].score - second >= 1000

DominantMatchNoMargin(j, rs) ==
    LET exact == Having(rs, j.argument.exact)
    IN  CASE exact # <<>>                          -> exact[1].id
          [] exact = <<>> /\ rs[1].score >= 8000  -> rs[1].id
          [] OTHER                                 -> Null
DominantMatch(j, rs) ==
    LET exact == Having(rs, j.argument.exact)
    IN  CASE exact # <<>>                      -> exact[1].id
          [] exact = <<>> /\ ClearlyFirst(rs) -> rs[1].id
          [] OTHER                             -> Null

Enriched ==
    /\ pc = "enrich" /\ job.at > Len(job.results)
    /\ CASE job.kind = "related"   -> Goto("done", job)
         [] job.kind = "neighbors" -> Goto("scan", [job EXCEPT !.todo = job.nodes])
         [] job.kind = "vector"    -> Show(job, job.results)
         [] job.kind = "resolve"   ->
              IF job.results = <<>> THEN Goto("list", job)
              ELSE Goto("done", [job EXCEPT !.start =
                                   DominantMatch(job, job.results)])
         [] job.phase = "vector" /\ job.kind \in {"hybrid", "recall"} ->
              IF job.text
              THEN Goto("match", [job EXCEPT !.vector = job.results])
              ELSE Expand(job, job.results)
         [] job.phase = "text" -> Goto("supersede", [job EXCEPT !.at = 1])
         [] job.phase = "hybrid" ->
              Goto("supersede", [job EXCEPT !.at = 1,
                                            !.results = SortByScore(@)])

\* The text search of a hybrid one.
Match == pc = "match" /\ StartText(job)

\* enrichSuperseded, one result at a time.
Supersede ==
    /\ pc = "supersede" /\ job.at <= Len(job.results)
    /\ Goto("supersede",
            [job EXCEPT !.at = @ + 1,
               !.results[job.at].superseded =
                  @ \/ IsSuperseded(db, job.results[job.at].id)])

\* The fused list is cut to the limit before it is expanded.
Fuse(j) ==
    \E q \in IF j.results = <<>> THEN {j.vector}
                                 ELSE FuseByRRF(j.vector, j.results) :
       Expand(j, Cut(q, j.limit))

\* Demotion, the sort after it, the limit, and recall's filter and limit.
RankNoSort(j) ==
    LET demoted == IF j.keep THEN j.results ELSE Demoted(j.results)
        total == IF j.wanted = Ids THEN j.total ELSE 0
    IN  Cut(Wanted(j, Cut(demoted, total)), j.total)
Rank(j) ==
    LET demoted == IF j.keep THEN j.results ELSE SortByScore(Demoted(j.results))
        total == IF j.wanted = Ids THEN j.total ELSE 0
    IN  Cut(Wanted(j, Cut(demoted, total)), j.total)

Superseded ==
    /\ pc = "supersede" /\ job.at > Len(job.results)
    /\ CASE job.kind = "text" -> Show(job, job.results)
         [] job.kind = "search" -> Goto("done", job)
         [] job.kind \in {"hybrid", "recall"} /\ job.phase = "text" -> Fuse(job)
         [] job.phase = "hybrid" ->
              Goto("done", [job EXCEPT !.results = Rank(job)])

\* One expandFromEntry per seed; they share the set of entries seen.
ExpandSameEntry ==
    /\ pc = "walk" /\ Expandable = <<>> /\ job.seeds # <<>>
    /\ LET seed == Head(job.seeds)
       IN  Goto("walk", Walk(job, seed.id, seed.score))
ExpandFromEntry ==
    /\ pc = "walk" /\ Expandable = <<>> /\ job.seeds # <<>>
    /\ LET seed == Head(job.seeds)
       IN  Goto("walk", Walk([job EXCEPT !.seeds = Tail(@)],
                             seed.id, seed.score))

\* searchByText: the newest entries of the default scope, expired ones left
\* out, and of these the first that contain the argument; then the only one,
\* or one whose content is the argument.
TextMatches(j, listed) ==
    Cut(Among(Cut(listed, ListLimit), j.argument.containing), TextLimit)

OnlyMatch(j, found) ==
    LET exact == Among(found, j.argument.exact)
    IN  CASE Len(found) = 1                     -> found[1]
          [] Len(found) # 1 /\ exact # <<>>     -> exact[1]
          [] OTHER                              -> Null

SearchByText ==
    /\ pc = "list"
    /\ \E listed \in NewestFirst(InScope) :
         Goto("done", [job EXCEPT !.phase = "list",
                         !.start = OnlyMatch(job, TextMatches(job, listed))])

-----------------------------------------------------------------------------
(***************************************************************************)
(* The other processes: known delete, known link and known unlink.         *)
(***************************************************************************)
Write(d) == /\ writes < MaxWrites
            /\ writes' = writes + 1
            /\ db' = d
            /\ UNCHANGED <<pc, job>>

Delete == \E i \in LiveIds : Write(DeleteEntries(db, {i}))

Link ==
    \E i \in LiveIds, k \in LiveIds, t \in LinkTypes, e \in EdgeIds :
       LET name == [l \in {<<k, t>>} |-> e]
       IN  CanInsertEdges(db, i, name) /\ Write(InsertEdges(db, i, name, Null))

Unlink == \E e \in EdgeIds : Present(db, e) /\ Write(DeleteEdge(db, e))

-----------------------------------------------------------------------------
Ask == \/ HandleGraph \/ DetectAllConflicts \/ HandleEntry
       \/ ShowByID \/ Stats \/ RecallByScope \/ ResolveEntry
       \/ HandleNeighbors \/ Related \/ HandlePath \/ RunPath
       \/ SearchVector \/ SearchText \/ HandleSearch \/ SearchHybrid \/ Recall

Serve == \/ Scan \/ ScanIn \/ EntryConflicts
         \/ ShowEdges \/ MeshEdges \/ GraphPeers \/ LookUpPeers
         \/ PathTo \/ WalkOut \/ WalkIn \/ Visit \/ EndWalk \/ Build
         \/ Fetch \/ Enrich \/ Enriched \/ Match \/ Supersede \/ Superseded
         \/ ExpandFromEntry \/ SearchByText \/ Finish

Next == Ask \/ Serve \/ Delete \/ Link \/ Unlink

\* A reader never waits for a writer (write-ahead logging), so a request that
\* is being served goes on.
Spec == Init /\ [][Next]_vars /\ WF_vars(Serve)

-----------------------------------------------------------------------------
(***************************************************************************)
(* Properties of an answer.  It is quiet when nothing was written between  *)
(* its first and its last statement.                                       *)
(***************************************************************************)
Answered(kinds) == pc = "done" /\ job.kind \in kinds

Quiet == job.since = writes

Touching(d, ids) == UNION {EdgesFrom(d, i) \cup EdgesTo(d, i) : i \in ids}

NoDuplicates(rs) == Cardinality(Listed(rs)) = Len(rs)

\* The explorer never receives an edge without both its ends, nor one entry
\* as a primary and as an external node, nor an edge that touches no primary
\* node, whatever is deleted and linked while buildGraph, buildMesh and
\* handleEntry collect statement by statement.
ResponseIsClosed ==
    Answered({"graph", "neighbors", "entry"}) =>
      /\ job.nodes \cap job.external = {}
      /\ \A x \in job.edges :
           /\ {x.from, x.to} \subseteq
                job.nodes \cup job.external
                  \cup (IF job.kind = "entry" THEN job.missing ELSE {})
           /\ {x.from, x.to} \cap job.nodes # {}

\* A quiet answer has exactly the edges that its entries have in the
\* database: all that touch them (graph, entry, show), those that leave them
\* (stats), the contradictions they state (conflicts), all between them
\* whatever the type filter (neighbors).
EdgesAreExact ==
    Quiet =>
      /\ Answered({"graph", "entry", "show"}) =>
           job.edges = Touching(db, job.nodes)
      /\ Answered({"stats"}) =>
           job.edges = UNION {EdgesFrom(db, i) : i \in job.nodes}
      /\ Answered({"graph", "entry"}) =>
           /\ job.external =
                  (UNION {{x.from, x.to} : x \in job.edges}) \ job.nodes
           /\ job.missing = {}
      /\ Answered({"entry", "show"}) =>
           job.conflicts = {Other(x, job.cur.id) :
                              x \in OfTypes(job.edges, {"contradicts"})}
      /\ Answered({"conflicts"}) =>
           job.edges = OfTypes(UNION {EdgesFrom(db, i) : i \in job.nodes},
                               {"contradicts"})
      /\ Answered({"neighbors"}) =>
           job.edges = {x \in Touching(db, job.nodes) :
                          {x.from, x.to} \subseteq job.nodes}

\* Traverse reports each entry once, and a quiet one reports exactly those
\* within the depth, each at its distance from the start.
TraversalIsExact ==
    Answered({"neighbors", "related"}) =>
      /\ NoDuplicates(job.results)
      /\ Quiet =>
           /\ Listed(job.results) \cup {job.start} =
                Within(db, {job.start}, job.depth, job.dir, job.types)
           /\ \A n \in DOMAIN job.results :
                LET r == job.results[n]
                IN  r.id # job.start =>
                      r.id \notin Within(db, {job.start}, r.depth - 1,
                                         job.dir, job.types)

\* FindPath's edges lead from the start to the target without a gap, even
\* when entries disappear on the way; a quiet search finds a path exactly if
\* there is one within the depth, and none is shorter.
PathIsShortest ==
    Answered({"path"}) =>
      LET place[n \in 0..Len(job.path)] ==
            IF n = 0 THEN job.start ELSE Other(job.path[n], place[n - 1])
          reach(n) == Within(db, {job.start}, n, "both", {})
          found == job.path # <<>>
      IN  /\ found => /\ place[Len(job.path)] = job.target
                      /\ Len(job.path) <= job.depth
                      /\ \A n \in 1..Len(job.path) :
                           place[n - 1] \in {job.path[n].from, job.path[n].to}
          /\ Quiet => /\ found <=> /\ job.start # job.target
                                   /\ job.target \in reach(job.depth)
                      /\ found => job.target \notin reach(Len(job.path) - 1)

\* Every list of hits names an entry once; a hybrid one comes best first,
\* after demotion too; recall shows no more than its limit.
HitsAreRanked ==
    Answered({"vector", "text", "search", "hybrid", "recall"}) =>
      /\ NoDuplicates(job.results)
      /\ job.kind \notin {"text", "search"} =>
           \A m, n \in DOMAIN job.results :
             m < n => job.results[m].score >= job.results[n].score
      /\ job.kind = "recall" /\ job.total > 0 => Len(job.results) <= job.total

\* A quiet recall that shows fewer hits than its limit has shown every entry
\* of the scope that passes the filters and that either search finds: no hit
\* is lost to one that a filter removes later.  With filters or recency this
\* holds as long as there are no more candidates than it asks for, ten times
\* the limit with filters; without a limit, the DefaultLimit takes its place
\* in what is asked for.  The recall of a scope says that there are more
\* entries exactly when it leaves some out, and without a limit leaves out
\* none (cmd/recall.go runRecall and recallByScope).
RecallMissesNothing ==
    LET candidates == {i \in InScope : Similarity[i] > 0 \/ Relevance[i] > 0}
        asked == OrDefault(IF job.wanted = Ids THEN job.total ELSE 10 * job.total)
        similar(i) == /\ Similarity[i] > 0
                      /\ Score([job EXCEPT !.phase = "vector"], i) >= Threshold
    IN  /\ Answered({"scope"}) /\ Quiet =>
             /\ job.more <=> ~ InScope \cap job.wanted \subseteq Listed(job.results)
             /\ job.total = 0 => ~job.more
        /\ /\ Answered({"recall"}) /\ Quiet
           /\ \/ /\ job.wanted = Ids /\ job.recency = 0
                 /\ Len(job.results) < OrDefault(job.total)
              \/ /\ Cardinality(candidates) <= asked
                 /\ job.total = 0 \/ Len(job.results) < job.total
           => \A i \in InScope \cap job.wanted :
                similar(i) \/ Relevance[i] > 0 => i \in Listed(job.results)

\* Quiet expansion: what it adds is within its depth of a seed, every entry
\* next to a seed is seen, and no hop raises a score above 0.8 of its origin.
ExpansionIsSound ==
    Answered({"hybrid", "recall"}) /\ Quiet =>
      /\ Within(db, Listed(job.vector), 1, "both", {}) \subseteq job.visited
      /\ \A n \in DOMAIN job.results :
           LET r == job.results[n]
           IN  /\ r.id \in Within(db, Listed(job.vector), r.depth, "both", {})
               /\ r.depth <= job.depth
               /\ r.depth > 0 =>
                    \E k \in DOMAIN job.vector :
                       10 * r.score <= 8 * job.vector[k].score

\* Of the entries in the default scope that have not expired, what a quiet
\* resolution names is what the argument says, or the only one that it can
\* mean: it is alone among those that contain the text (of the newest
\* ListLimit), or no other is nearly as similar, those that were not fetched
\* included.  It gives up on an argument that is the content of one of them
\* only when that one is beyond the limits, or has no embedding
\* (cmd/resolve.go resolveEntryConfident).
ResolutionIsJustified ==
    Answered({"resolve"}) /\ Quiet =>
      LET i == job.start
          named == job.argument.exact \cap InScope
          holding == job.argument.containing \cap InScope
          asSimilar(k) == {m \in InScope : Similarity[m] >= Similarity[k]}
      IN  /\ i # Null =>
               \/ i \in named
               \/ /\ job.phase = "vector" /\ Similarity[i] >= 8000
                  /\ \A k \in InScope \ {i} :
                       Similarity[i] >= Similarity[k] + 1000
               \/ /\ job.phase = "list"
                  /\ holding = {i} \/ Cardinality(InScope) > ListLimit
          /\ i = Null /\ named # {} =>
               \/ /\ job.phase = "vector"
                  /\ \A k \in named :
                       Similarity[k] > 0 => Cardinality(asSimilar(k)) > SimilarLimit
               \/ /\ job.phase = "list"
                  /\ \/ Cardinality(holding) > TextLimit
                     \/ Cardinality(InScope) > ListLimit

\* Every request is answered: no graph, cyclic or changing, keeps one going.
EveryRequestEnds == pc # "idle" ~> pc = "idle"

-----------------------------------------------------------------------------
(***************************************************************************)
(* What the documentation says and the code does not keep.                 *)
(***************************************************************************)
\* storage.go: text search is "ordered by BM25 relevance (most relevant
\* first)"; recency may reorder entries of different freshness only.
MostRelevantFirst ==
    Answered({"text"}) =>
      \A m, n \in DOMAIN job.results :
        /\ m < n
        /\ Freshness[job.results[m].id] = Freshness[job.results[n].id]
        => Relevance[job.results[m].id] >= Relevance[job.results[n].id]

\* query.go: the signal "no relevant entries" is for a top result that scores
\* below 0.3, so never for an answer with a better match in it.
LowRelevance(rs) == rs # <<>> /\ rs[1].score < 3000

LowRelevanceIsHonest ==
    Answered({"recall"}) /\ LowRelevance(job.results) =>
      \A n \in DOMAIN job.results :
         job.results[n].superseded \/ Similarity[job.results[n].id] < 3000

\* hybrid.go: "each result is expanded outward along graph edges up to
\* ExpandDepth hops".
ExpansionReachesDepth ==
    Answered({"hybrid"}) /\ Quiet =>
      Within(db, Listed(job.vector), job.depth, "both", {})
        \cap job.wanted \subseteq Listed(job.results)
===========================================================================
