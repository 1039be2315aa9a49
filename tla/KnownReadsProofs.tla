-------------------------- MODULE KnownReadsProofs --------------------------
(***************************************************************************)
(* What the answers of KnownReads promise, proved for every value of its   *)
(* constants.                                                              *)
(***************************************************************************)
EXTENDS KnownReads, KnownDBProofs, FiniteSetTheorems, SequenceTheorems,
        WellFoundedInduction

-----------------------------------------------------------------------------
(***************************************************************************)
(* Orders and lists.                                                       *)
(***************************************************************************)
\* The places of a finite, strictly ordered set are 1 to its cardinality;
\* P[n] is what comes before n.
Ordered(S, P) ==
    /\ P \in [S -> SUBSET S]
    /\ \A n \in S : n \notin P[n]
    /\ \A m, n \in S : m \in P[n] => P[m] \subseteq P[n]
    /\ \A m, n \in S : m # n => m \in P[n] \/ n \in P[m]

LEMMA Places ==
    ASSUME NEW S, IsFiniteSet(S), NEW P, Ordered(S, P)
    PROVE  LET L == Cardinality(S)
               f == InOrder(S, P)
           IN  /\ L \in Nat
               /\ f \in [1..L -> S]
               /\ \A k \in 1..L : Cardinality(P[f[k]]) + 1 = k
               /\ \A n \in S : \E k \in 1..L : f[k] = n
               /\ \A k, l \in 1..L : k < l <=> f[k] \in P[f[l]]
<1> DEFINE L == Cardinality(S)
           g == [n \in S |-> Cardinality(P[n]) + 1]
           f == InOrder(S, P)
<1>0. f = [k \in 1..L |-> CHOOSE n \in S : Cardinality(P[n]) + 1 = k]
  BY DEF InOrder
<1>1. L \in Nat
  BY FS_CardinalityType
<1>2. ASSUME NEW n \in S PROVE g[n] \in 1..L
  <2>1. P[n] \in SUBSET S /\ P[n] # S
    BY <1>2 DEF Ordered
  <2>2. /\ IsFiniteSet(P[n]) /\ Cardinality(P[n]) <= L
        /\ L = Cardinality(P[n]) => S = P[n]
    BY <2>1, FS_Subset
  <2>3. Cardinality(P[n]) \in Nat
    BY <2>2, FS_CardinalityType
  <2> QED
    BY <1>1, <2>1, <2>2, <2>3
<1>3. ASSUME NEW m \in S, NEW n \in S, m \in P[n] PROVE g[m] < g[n]
  <2>1. P[m] \in SUBSET P[n] /\ P[m] # P[n] /\ P[n] \in SUBSET S
    BY <1>3 DEF Ordered
  <2>2. IsFiniteSet(P[n])
    BY <2>1, FS_Subset
  <2>3. /\ Cardinality(P[m]) <= Cardinality(P[n])
        /\ Cardinality(P[n]) = Cardinality(P[m]) => P[n] = P[m]
        /\ IsFiniteSet(P[m])
    BY <2>1, <2>2, FS_Subset
  <2>4. Cardinality(P[m]) \in Nat /\ Cardinality(P[n]) \in Nat
    BY <2>2, <2>3, FS_CardinalityType
  <2> QED
    BY <2>1, <2>3, <2>4
<1>4. \A m, n \in S : g[m] < g[n] <=> m \in P[n]
  BY <1>2, <1>3 DEF Ordered
<1>5. ASSUME NEW k \in 1..L PROVE \E n \in S : g[n] = k
  <2> SUFFICES ASSUME \A n \in S : g[n] # k PROVE FALSE
    OBVIOUS
  <2> DEFINE T == (1..L) \ {k}
  <2>1. IsFiniteSet(1..L) /\ Cardinality(1..L) = L
    BY <1>1, FS_Interval
  <2>2. IsFiniteSet(T) /\ Cardinality(T) = L - 1
    BY <2>1, FS_RemoveElement
  <2>3. g \in [S -> T]
    BY <1>2
  <2> HIDE DEF T, g
  <2>4. \E x, y \in S : x # y /\ g[x] = g[y]
    BY <1>1, <2>2, <2>3, FS_PigeonHole
  <2> QED
    BY <1>2, <1>4, <2>4 DEF Ordered
<1>6. ASSUME NEW k \in 1..L PROVE f[k] \in S /\ g[f[k]] = k
  BY <1>0, <1>5
<1>7. \A n \in S : \E k \in 1..L : f[k] = n
  <2> SUFFICES ASSUME NEW n \in S PROVE f[g[n]] = n /\ g[n] \in 1..L
    OBVIOUS
  <2>1. g[n] \in 1..L
    BY <1>2
  <2>2. f[g[n]] \in S /\ g[f[g[n]]] = g[n]
    BY <1>6, <2>1
  <2> HIDE DEF f, g
  <2> QED
    BY <1>2, <1>4, <2>1, <2>2 DEF Ordered
<1>8. f \in [1..L -> S]
  BY <1>0, <1>6
<1>9. \A k, l \in 1..L : k < l <=> f[k] \in P[f[l]]
  <2> HIDE DEF f, g
  <2> QED
    BY <1>4, <1>6
<1>10. \A k \in 1..L : Cardinality(P[f[k]]) + 1 = k
  BY <1>6
<1> HIDE DEF L
<1> QED
  BY <1>1, <1>7, <1>8, <1>9, <1>10 DEF L

\* r has the elements of q at these places, f[k] being the place of the k-th.
Picks(r, q, places, f) ==
    /\ f \in [DOMAIN r -> places]
    /\ \A k, l \in DOMAIN r : k # l => f[k] # f[l]
    /\ \A n \in places : \E k \in DOMAIN r : f[k] = n
    /\ \A k \in DOMAIN r : r[k] = q[f[k]]

LEMMA SublistFacts ==
    ASSUME NEW S, NEW q \in Seq(S), NEW I \in SUBSET DOMAIN q
    PROVE  /\ Sublist(q, I) \in Seq(S)
           /\ \E f : /\ Picks(Sublist(q, I), q, I, f)
                     /\ \A k, l \in DOMAIN Sublist(q, I) : k < l <=> f[k] < f[l]
<1> DEFINE P == [n \in I |-> {m \in I : m < n}]
           f == InOrder(I, P)
           r == Sublist(q, I)
<1>1. IsFiniteSet(I)
  <2>1. Len(q) \in Nat /\ DOMAIN q = 1..Len(q)
    OBVIOUS
  <2>2. IsFiniteSet(1..Len(q))
    BY <2>1, FS_Interval
  <2> QED
    BY <2>1, <2>2, FS_Subset
<1>2. I \subseteq Nat
  OBVIOUS
<1>3. Ordered(I, P)
  BY <1>2 DEF Ordered
<1>4. r = [k \in DOMAIN f |-> q[f[k]]]
  BY DEF Sublist
<1>6. /\ Cardinality(I) \in Nat
      /\ f \in [1..Cardinality(I) -> I]
      /\ \A n \in I : \E k \in 1..Cardinality(I) : f[k] = n
      /\ \A k, l \in 1..Cardinality(I) : k < l <=> f[k] \in P[f[l]]
  <2> HIDE DEF P
  <2> QED
    BY <1>1, <1>3, Places
<1>7. \A k, l \in 1..Cardinality(I) : k < l <=> f[k] < f[l]
  BY <1>6
<1> HIDE DEF f, P
<1>8. r = [k \in 1..Cardinality(I) |-> q[f[k]]]
  BY <1>4, <1>6
<1> HIDE DEF r
<1>9. DOMAIN r = 1..Cardinality(I) /\ \A k \in DOMAIN r : r[k] = q[f[k]]
  BY <1>8
<1>10. r \in [1..Cardinality(I) -> S]
  BY <1>6, <1>8
<1>11. r \in Seq(S) /\ Len(r) = Cardinality(I)
  BY <1>6, <1>10
<1>12. Picks(r, q, I, f)
  <2>1. \A k, l \in DOMAIN r : k # l => f[k] # f[l]
    BY <1>2, <1>6, <1>7, <1>9
  <2> QED
    BY <1>6, <1>9, <2>1 DEF Picks
<1> QED
  BY <1>7, <1>9, <1>11, <1>12 DEF r

LEMMA SortByScoreFacts ==
    ASSUME NEW rs \in Seq(Result)
    PROVE  /\ SortByScore(rs) \in Seq(Result)
           /\ Len(SortByScore(rs)) = Len(rs)
           /\ \E f : Picks(SortByScore(rs), rs, DOMAIN rs, f)
           /\ \A k, l \in DOMAIN SortByScore(rs) :
                k < l => SortByScore(rs)[k].score >= SortByScore(rs)[l].score
<1> DEFINE D == DOMAIN rs
           P == [n \in D |-> {m \in D :
                   \/ rs[m].score > rs[n].score
                   \/ rs[m].score = rs[n].score /\ m < n}]
           f == InOrder(D, P)
           r == SortByScore(rs)
<1>1. /\ Len(rs) \in Nat /\ D = 1..Len(rs) /\ D \subseteq Nat
      /\ \A n \in D : rs[n] \in Result /\ rs[n].score \in Nat
  <2>1. /\ Len(rs) \in Nat /\ DOMAIN rs = 1..Len(rs)
        /\ \A n \in DOMAIN rs : rs[n] \in Result
    OBVIOUS
  <2> HIDE DEF P
  <2> QED
    BY <2>1 DEF Result
<1>2. IsFiniteSet(D) /\ Cardinality(D) = Len(rs)
  BY <1>1, FS_Interval
<1>3. r = [k \in DOMAIN f |-> rs[f[k]]]
  BY DEF SortByScore
<1> HIDE DEF D, r
<1>4. \A m, n \in D : m \in P[n] <=>
        \/ rs[m].score > rs[n].score
        \/ rs[m].score = rs[n].score /\ m < n
  OBVIOUS
<1>5. Ordered(D, P)
  <2>1. P \in [D -> SUBSET D]
    OBVIOUS
  <2> HIDE DEF P
  <2>2. \A n \in D : n \notin P[n]
    BY <1>1, <1>4
  <2>3. \A m, n \in D : m \in P[n] => P[m] \subseteq P[n]
    <3> SUFFICES ASSUME NEW m \in D, NEW n \in D, m \in P[n], NEW x \in P[m]
                 PROVE  x \in P[n]
      OBVIOUS
    <3>1. x \in D
      BY <2>1
    <3>2. /\ rs[x].score \in Nat /\ rs[m].score \in Nat /\ rs[n].score \in Nat
          /\ x \in Nat /\ m \in Nat /\ n \in Nat
      BY <1>1, <3>1
    <3> QED
      BY <1>4, <3>1, <3>2
  <2>4. \A m, n \in D : m # n => m \in P[n] \/ n \in P[m]
    BY <1>1, <1>4
  <2> QED
    BY <2>1, <2>2, <2>3, <2>4 DEF Ordered
<1> HIDE DEF P
<1>6. /\ f \in [1..Len(rs) -> D]
      /\ \A n \in D : \E k \in 1..Len(rs) : f[k] = n
      /\ \A k, l \in 1..Len(rs) : k < l <=> f[k] \in P[f[l]]
  BY <1>2, <1>5, Places
<1> HIDE DEF f
<1>7. /\ DOMAIN r = 1..Len(rs) /\ r = [k \in 1..Len(rs) |-> rs[f[k]]]
      /\ \A k \in DOMAIN r : r[k] = rs[f[k]]
  BY <1>3, <1>6
<1>8. r \in [1..Len(rs) -> Result]
  BY <1>1, <1>6, <1>7
<1>9. r \in Seq(Result) /\ Len(r) = Len(rs)
  BY <1>1, <1>8
<1>10. \A k, l \in DOMAIN r : k < l => r[k].score >= r[l].score
  <2> SUFFICES ASSUME NEW k \in DOMAIN r, NEW l \in DOMAIN r, k < l
               PROVE  r[k].score >= r[l].score
    OBVIOUS
  <2>1. f[k] \in D /\ f[l] \in D /\ f[k] \in P[f[l]]
    BY <1>6, <1>7
  <2>2. r[k].score = rs[f[k]].score /\ r[l].score = rs[f[l]].score
    BY <1>7
  <2>3. rs[f[k]].score \in Nat /\ rs[f[l]].score \in Nat
    BY <1>1, <2>1
  <2> QED
    BY <1>4, <2>1, <2>2, <2>3
<1>11. \A k, l \in DOMAIN r : k # l => f[k] # f[l]
  <2> SUFFICES ASSUME NEW k \in DOMAIN r, NEW l \in DOMAIN r, k < l
               PROVE  f[k] # f[l]
    <3>1. DOMAIN r = 1..Len(rs)
      BY <1>7
    <3> QED
      BY <1>1, <3>1
  <2> QED
    BY <1>5, <1>6, <1>7 DEF Ordered
<1>12. Picks(r, rs, D, f)
  <2>1. f \in [DOMAIN r -> D] /\ \A n \in D : \E k \in DOMAIN r : f[k] = n
    BY <1>6, <1>7
  <2> QED
    BY <1>7, <1>11, <2>1 DEF Picks
<1> QED
  BY <1>9, <1>10, <1>12 DEF D, r

LEMMA CutFacts ==
    ASSUME NEW S, NEW q \in Seq(S), NEW n \in Nat
    PROVE  /\ Cut(q, n) \in Seq(S)
           /\ Len(Cut(q, n)) <= Len(q)
           /\ n > 0 => Len(Cut(q, n)) <= n
           /\ Len(Cut(q, n)) = Len(q) \/ (Len(Cut(q, n)) = n /\ n > 0)
           /\ \A k \in 1..Len(Cut(q, n)) : Cut(q, n)[k] = q[k]
           /\ Len(Cut(q, n)) = Len(q) => Cut(q, n) = q
<1>1. Len(q) \in Nat
  OBVIOUS
<1>2. CASE n > 0 /\ Len(q) > n
  <2>1. Cut(q, n) = SubSeq(q, 1, n)
    BY <1>2 DEF Cut
  <2>2. /\ SubSeq(q, 1, n) \in Seq(S) /\ Len(SubSeq(q, 1, n)) = n
        /\ \A k \in 1..n : SubSeq(q, 1, n)[k] = q[k]
    BY <1>1, <1>2
  <2> QED
    BY <1>1, <1>2, <2>1, <2>2
<1>3. CASE ~(n > 0 /\ Len(q) > n)
  <2>1. Cut(q, n) = q
    BY <1>3 DEF Cut
  <2> QED
    BY <1>1, <1>3, <2>1
<1> QED
  BY <1>2, <1>3

-----------------------------------------------------------------------------
(***************************************************************************)
(* What a request remembers, and where it can be.                          *)
(***************************************************************************)
Fields == {"kind", "since", "start", "target", "depth", "dir", "types", "limit",
           "total", "recency", "text", "keep", "strict", "wanted", "argument",
           "cur", "pending", "visited", "queue", "path", "phase", "ranked", "vector",
           "seeds", "at", "todo", "nodes", "external", "missing", "edges",
           "conflicts", "results", "more"}

Options(j) ==
    /\ j.kind \in Kinds \cup {"none"} /\ j.since \in Nat
    /\ j.start \in Ids \cup {Null} /\ j.target \in Ids \cup {Null}
    /\ j.depth \in Nat
    /\ j.dir \in {"out", "in", "both"} /\ j.types \in SUBSET EdgeTypes
    /\ j.limit \in Nat /\ j.total \in Nat /\ j.recency \in 0..1000
    /\ j.text \in BOOLEAN /\ j.keep \in BOOLEAN /\ j.strict \in BOOLEAN
    /\ j.wanted \in SUBSET Ids
    /\ j.argument \in Argument

Gathered(j) ==
    /\ j.pending \in SUBSET EdgeCopy /\ j.edges \in SUBSET EdgeCopy
    /\ j.visited \in SUBSET Ids /\ j.todo \in SUBSET Ids
    /\ j.nodes \in SUBSET Ids /\ j.external \in SUBSET Ids
    /\ j.missing \in SUBSET Ids /\ j.conflicts \in SUBSET Ids

Lists(j) ==
    /\ j.cur \in Item \cup {Null} /\ j.queue \in Seq(Item)
    /\ j.path \in Seq(EdgeCopy)
    /\ j.phase \in {"none", "vector", "text", "hybrid", "list"}
    /\ j.ranked \in Seq(Ids) /\ j.vector \in Seq(Result)
    /\ j.seeds \in Seq(Result) /\ j.results \in Seq(Result)
    /\ j.at \in Nat \ {0} /\ j.more \in BOOLEAN

IsJob(j) == /\ DOMAIN j = Fields
            /\ Options(j)
            /\ Gathered(j)
            /\ Lists(j)

LEMMA NoJobIsAJob == IsJob(NoJob)
  BY ReadsAssumption DEF IsJob, Fields, Options, Gathered, Lists, NoJob, Argument

Locations == {"idle", "scan", "scanIn", "conflicts", "peers", "pathTo",
              "walk", "walkIn", "visit", "build", "fetch", "enrich",
              "supersede", "match", "list", "done"}

Around == {"graph", "conflicts", "entry", "show", "stats", "neighbors"}
Tracing == {"neighbors", "related", "path"}
Expanding == {"hybrid", "recall"}
Searching == {"vector", "text", "search", "resolve"} \cup Expanding

\* Whose results are at hand.
VectorPhase(j) ==
    j.phase = "vector" /\ j.kind \in {"vector", "resolve"} \cup Expanding
TextPhase(j) ==
    j.phase = "text" /\ j.kind \in {"text", "search"} \cup Expanding
HybridPhase(j) == j.phase = "hybrid" /\ j.kind \in Expanding

\* A walk that no search has started.
Tracks(j) ==
    j.kind \in Tracing /\ j.seeds = <<>> /\ j.at = 1 /\ j.phase = "none"

Expected(l, j) ==
    /\ l = "idle" => j = NoJob
    /\ l # "idle" => j.kind \in Around \cup Tracing \cup Searching \cup {"scope"}
    /\ l \in {"scan", "scanIn", "conflicts", "peers"} => j.kind \in Around
    /\ l = "scanIn" => j.kind \notin {"conflicts", "stats"}
    /\ l = "conflicts" => j.kind \in {"entry", "show"}
    /\ l = "peers" => j.kind # "stats"
    /\ l \in {"pathTo", "build"} => j.kind = "path"
    /\ l \in {"walk", "walkIn", "visit"} =>
         Tracks(j) \/ HybridPhase(j)
    /\ l = "fetch" => VectorPhase(j) \/ TextPhase(j)
    /\ l = "enrich" => \/ j.kind \in {"neighbors", "related"} /\ j.phase = "none"
                       \/ VectorPhase(j) \/ TextPhase(j) \/ HybridPhase(j)
    /\ l = "supersede" => TextPhase(j) \/ HybridPhase(j)
    /\ l = "match" => VectorPhase(j) /\ j.kind \in Expanding
    /\ l = "list" => j.kind = "resolve"
    /\ l \in {"scanIn", "conflicts", "peers", "walkIn", "visit"} => j.cur \in Item
    /\ j.kind \in Tracing => j.start \in Ids
    /\ l = "pathTo" => j.target \in Ids /\ Tracks(j)
    /\ l = "build" => j.at \in 1..Len(j.path)

Typed == /\ db \in Database /\ Consistent(db)
         /\ writes \in 0..MaxWrites
         /\ pc \in Locations
         /\ IsJob(job) /\ job.since <= writes
         /\ Expected(pc, job)

LEMMA Moves ==
    ASSUME Typed, NEW l \in Locations, NEW j, Goto(l, j),
           IsJob(j), j.since <= writes, Expected(l, j)
    PROVE  Typed'
  BY DEF Typed, Goto

\* What a request reads off the tables is well-typed.
LEMMA CopiesAreEdges ==
    ASSUME NEW d \in Database, NEW i
    PROVE  /\ EdgesFrom(d, i) \in SUBSET EdgeCopy
           /\ EdgesTo(d, i) \in SUBSET EdgeCopy
           /\ \A x \in EdgesFrom(d, i) : x.from = i
           /\ \A x \in EdgesTo(d, i) : x.to = i
<1> SUFFICES ASSUME NEW e \in EdgeIds, Present(d, e)
             PROVE  Copy(d, e) \in EdgeCopy
  BY DEF EdgesFrom, EdgesTo, Copy
<1>1. d.edges[e] \in Edge
  BY DEF Present, Database
<1> QED
  BY <1>1 DEF Copy, EdgeCopy, Edge

LEMMA OtherIsAnId ==
    ASSUME NEW x \in EdgeCopy, NEW i PROVE Other(x, i) \in Ids
  BY DEF EdgeCopy, Other

LEMMA ConflictsAreIds ==
    ASSUME NEW d \in Database, NEW i
    PROVE  FindConflicts(d, i) \in SUBSET Ids
<1>1. OfTypes(EdgesFrom(d, i) \cup EdgesTo(d, i), {"contradicts"})
        \in SUBSET EdgeCopy
  BY CopiesAreEdges DEF OfTypes
<1> QED
  BY <1>1, OtherIsAnId DEF FindConflicts

-----------------------------------------------------------------------------
(***************************************************************************)
(* Every action keeps this.                                                *)
(***************************************************************************)
LEMMA WritesAreCounted == ASSUME Typed PROVE writes \in Nat
  BY ReadsAssumption DEF Typed

LEMMA Asked ==
    ASSUME NEW j, IsJob(j), NEW kind \in Kinds, NEW n \in Nat
    PROVE  IsJob([j EXCEPT !.kind = kind, !.since = n])
<1> DEFINE m == [j EXCEPT !.kind = kind, !.since = n]
<1>1. DOMAIN m = Fields
  BY DEF IsJob, Fields
<1>2. Options(m)
  BY DEF IsJob, Fields, Options
<1>3. Gathered(m)
  BY DEF IsJob, Fields, Gathered
<1>4. Lists(m)
  BY DEF IsJob, Fields, Lists
<1> QED
  BY <1>1, <1>2, <1>3, <1>4 DEF IsJob

\* Nothing done yet.
Untouched(j) ==
    /\ j.phase = "none" /\ j.at = 1 /\ j.seeds = <<>> /\ j.visited = {}
    /\ j.queue = <<>> /\ j.path = <<>> /\ j.results = <<>> /\ j.vector = <<>>
    /\ j.nodes = {} /\ j.edges = {} /\ j.external = {}
    /\ j.dir = "both" /\ j.types = {} /\ ~j.strict

LEMMA NewIsAJob ==
    ASSUME Typed, NEW kind \in Kinds
    PROVE  /\ IsJob(New(kind)) /\ DOMAIN New(kind) = Fields
           /\ New(kind).kind = kind /\ New(kind).since = writes
           /\ Untouched(New(kind))
<1>1. IsJob(New(kind))
  BY NoJobIsAJob, Asked, WritesAreCounted DEF New
<1>2. DOMAIN New(kind) = Fields
  BY <1>1 DEF IsJob
<1> QED
  BY <1>1, <1>2 DEF New, NoJob, Untouched

\* A request for the edges around some entries.
LEMMA AroundBegins ==
    ASSUME Typed, NEW kind \in Kinds, kind \in Around \ {"neighbors"},
           NEW ids \in SUBSET Ids,
           Goto("scan", [New(kind) EXCEPT !.nodes = ids, !.todo = ids])
    PROVE  Typed'
<1> DEFINE n == New(kind)
           j == [n EXCEPT !.nodes = ids, !.todo = ids]
<1>1. /\ IsJob(n) /\ n.kind = kind /\ n.since = writes /\ DOMAIN n = Fields
      /\ writes \in Nat
  BY NewIsAJob, WritesAreCounted
<1>2. Goto("scan", j)
  OBVIOUS
<1> HIDE DEF n
<1>3. IsJob(j)
  <2>1. DOMAIN j = Fields
    BY <1>1 DEF IsJob, Fields
  <2>2. Options(j)
    BY <1>1 DEF IsJob, Fields, Options
  <2>3. Gathered(j)
    BY <1>1 DEF IsJob, Fields, Gathered
  <2>4. Lists(j)
    BY <1>1 DEF IsJob, Fields, Lists
  <2> QED
    BY <2>1, <2>2, <2>3, <2>4 DEF IsJob
<1>4. j.kind = kind /\ j.since = writes
  BY <1>1 DEF Fields
<1> HIDE DEF j
<1>5. Expected("scan", j)
  BY <1>4 DEF Expected, Around, Tracing
<1> QED
  BY <1>1, <1>2, <1>3, <1>4, <1>5, Moves DEF Locations

LEMMA AroundRequests ==
    ASSUME \/ HandleGraph \/ DetectAllConflicts \/ HandleEntry
           \/ ShowByID \/ Stats
    PROVE  \E kind \in Around \ {"neighbors"}, ids \in SUBSET Ids :
             /\ kind \in Kinds
             /\ kind \in {"entry", "show"} => \E i \in Ids : ids = {i}
             /\ Goto("scan", [New(kind) EXCEPT !.nodes = ids, !.todo = ids])
<1> DEFINE Asks(kind, ids) ==
             /\ kind \in Kinds
             /\ kind \in {"entry", "show"} => \E i \in Ids : ids = {i}
             /\ Goto("scan", [New(kind) EXCEPT !.nodes = ids, !.todo = ids])
<1>1. LiveIds \in SUBSET Ids
  BY DEF LiveIds
<1>2. CASE HandleGraph
  <2>1. PICK ids \in SUBSET LiveIds :
          Goto("scan", [New("graph") EXCEPT !.nodes = ids, !.todo = ids])
    BY <1>2 DEF HandleGraph
  <2>2. Asks("graph", ids) /\ ids \in SUBSET Ids
    BY <1>1, <1>2, <2>1 DEF HandleGraph, Begin
  <2> HIDE DEF Asks
  <2> QED
    BY <2>2 DEF Asks, Around
<1>3. CASE DetectAllConflicts
  <2>1. PICK ids \in SUBSET LiveIds :
          Goto("scan", [New("conflicts") EXCEPT !.nodes = ids, !.todo = ids])
    BY <1>3 DEF DetectAllConflicts
  <2>2. Asks("conflicts", ids) /\ ids \in SUBSET Ids
    BY <1>1, <1>3, <2>1 DEF DetectAllConflicts, Begin
  <2> HIDE DEF Asks
  <2> QED
    BY <2>2 DEF Asks, Around
<1>4. CASE HandleEntry
  <2>1. PICK i \in LiveIds :
          Goto("scan", [New("entry") EXCEPT !.nodes = {i}, !.todo = {i}])
    BY <1>4 DEF HandleEntry
  <2>2. Asks("entry", {i}) /\ {i} \in SUBSET Ids
    BY <1>1, <1>4, <2>1 DEF HandleEntry, Begin
  <2> HIDE DEF Asks
  <2> QED
    BY <2>2 DEF Asks, Around
<1>5. CASE ShowByID
  <2>1. PICK i \in LiveIds :
          Goto("scan", [New("show") EXCEPT !.nodes = {i}, !.todo = {i}])
    BY <1>5 DEF ShowByID
  <2>2. Asks("show", {i}) /\ {i} \in SUBSET Ids
    BY <1>1, <1>5, <2>1 DEF ShowByID, Begin
  <2> HIDE DEF Asks
  <2> QED
    BY <2>2 DEF Asks, Around
<1>6. CASE Stats
  <2>1. PICK ids \in SUBSET LiveIds :
          Goto("scan", [New("stats") EXCEPT !.nodes = ids, !.todo = ids])
    BY <1>6 DEF Stats
  <2>2. Asks("stats", ids) /\ ids \in SUBSET Ids
    BY <1>1, <1>6, <2>1 DEF Stats, Begin
  <2> HIDE DEF Asks
  <2> QED
    BY <2>2 DEF Asks, Around
<1> QED
  BY <1>2, <1>3, <1>4, <1>5, <1>6

LEMMA AsksAround ==
    ASSUME Typed,
           \/ HandleGraph \/ DetectAllConflicts \/ HandleEntry
           \/ ShowByID \/ Stats
    PROVE  Typed'
<1>1. PICK kind \in Around \ {"neighbors"}, ids \in SUBSET Ids :
        /\ kind \in Kinds
        /\ Goto("scan", [New(kind) EXCEPT !.nodes = ids, !.todo = ids])
  BY AroundRequests
<1> QED
  BY <1>1, AroundBegins

\* The facts a step starts from.
LEMMA Remembered ==
    ASSUME Typed
    PROVE  /\ IsJob(job) /\ DOMAIN job = Fields /\ job.since <= writes
           /\ db \in Database /\ Consistent(db) /\ writes \in Nat
           /\ Expected(pc, job)
  BY WritesAreCounted DEF Typed, IsJob

LEMMA ScanKeepsTypes == ASSUME Typed, Scan PROVE Typed'
<1>1. /\ IsJob(job) /\ DOMAIN job = Fields /\ job.since <= writes
      /\ db \in Database /\ Expected("scan", job) /\ pc = "scan"
  BY Remembered DEF Scan
<1>2. CASE job.todo = {} /\ Goto("done", job)
  <2>1. Expected("done", job)
    BY <1>1 DEF Expected
  <2> QED
    BY <1>1, <1>2, <2>1, Moves DEF Locations
<1>3. ASSUME NEW i \in job.todo,
             LET out == EdgesFrom(db, i)
                 j == [job EXCEPT !.cur = At(i, 0, 0, <<>>), !.todo = @ \ {i}]
             IN  CASE job.kind = "conflicts" ->
                        Goto("peers", [j EXCEPT !.pending =
                                         OfTypes(out, {"contradicts"})])
                   [] job.kind = "stats" ->
                        Goto("scan", [j EXCEPT !.edges = @ \cup out])
                   [] job.kind \notin {"conflicts", "stats"} ->
                        Goto("scanIn", [j EXCEPT !.pending = out])
      PROVE  Typed'
  <2> DEFINE it == At(i, 0, 0, <<>>)
             out == EdgesFrom(db, i)
             some == OfTypes(out, {"contradicts"})
             j == [job EXCEPT !.cur = it, !.todo = @ \ {i}]
             p == [j EXCEPT !.pending = some]
             q == [j EXCEPT !.edges = @ \cup out]
             r == [j EXCEPT !.pending = out]
  <2>1. i \in Ids
    BY <1>1, <1>3 DEF IsJob, Gathered
  <2>2. it \in Item
    BY <2>1 DEF At, Item
  <2>3. out \in SUBSET EdgeCopy /\ some \in SUBSET EdgeCopy
    BY <1>1, CopiesAreEdges DEF OfTypes
  <2>4. \/ job.kind = "conflicts" /\ Goto("peers", p)
        \/ job.kind = "stats" /\ Goto("scan", q)
        \/ job.kind \notin {"conflicts", "stats"} /\ Goto("scanIn", r)
    BY <1>3
  <2> HIDE DEF it, out, some
  <2>5. IsJob(j)
    <3>1. DOMAIN j = Fields
      BY <1>1, <2>2 DEF IsJob, Fields
    <3>2. Options(j)
      BY <1>1, <2>2 DEF IsJob, Fields, Options
    <3>3. Gathered(j)
      BY <1>1, <2>2 DEF IsJob, Fields, Gathered
    <3>4. Lists(j)
      BY <1>1, <2>2 DEF IsJob, Fields, Lists
    <3> QED
      BY <3>1, <3>2, <3>3, <3>4 DEF IsJob
  <2>6. /\ DOMAIN j = Fields /\ j.cur = it /\ j.since = job.since
        /\ j.kind = job.kind /\ j.start = job.start
    BY <1>1 DEF Fields
  <2> HIDE DEF j
  <2>7. IsJob(p) /\ IsJob(q) /\ IsJob(r)
    BY <2>3, <2>5 DEF IsJob, Fields, Options, Gathered, Lists
  <2>8. \A m \in {p, q, r} : /\ m.cur = it /\ m.since = job.since
                             /\ m.kind = job.kind /\ m.start = job.start
    BY <2>6 DEF Fields
  <2> HIDE DEF p, q, r
  <2>9. job.kind \in Around /\ (job.kind \in Tracing => job.start \in Ids)
    BY <1>1 DEF Expected
  <2>10. /\ job.kind = "conflicts" => Expected("peers", p)
         /\ job.kind = "stats" => Expected("scan", q)
         /\ job.kind \notin {"conflicts", "stats"} => Expected("scanIn", r)
    BY <2>2, <2>8, <2>9 DEF Expected
  <2> QED
    BY <1>1, <2>4, <2>7, <2>8, <2>10, Moves DEF Locations
<1> QED
  BY <1>2, <1>3 DEF Scan

\* Steps that only add to the answer, and take from what is to be looked at.
Gathers(m, j) ==
    /\ DOMAIN m = Fields /\ Gathered(m)
    /\ Options(m) <=> Options(j)
    /\ Lists(m) <=> Lists(j)
    /\ m.since = j.since /\ m.kind = j.kind /\ m.start = j.start
    /\ m.cur = j.cur

LEMMA GatherKeepsTypes ==
    ASSUME Typed, NEW l \in {"scan", "conflicts", "peers"}, NEW m, Goto(l, m),
           Gathers(m, job),
           pc \in {"scanIn", "conflicts", "peers"},
           l = "conflicts" => job.kind \in {"entry", "show"}
    PROVE  Typed'
<1>1. /\ IsJob(job) /\ job.since <= writes /\ Expected(pc, job)
  BY Remembered
<1>2. IsJob(m) /\ m.since <= writes
  BY <1>1 DEF Gathers, IsJob
<1>3. /\ job.kind \in Around /\ (job.kind \in Tracing => job.start \in Ids)
      /\ job.cur \in Item
      /\ l = "peers" => job.kind # "stats"
  BY <1>1 DEF Expected
<1>4. Expected(l, m)
  BY <1>3 DEF Expected, Gathers
<1> QED
  BY <1>2, <1>4, Moves DEF Locations

LEMMA Gathering ==
    ASSUME NEW j, IsJob(j), NEW pending \in SUBSET EdgeCopy,
           NEW edges \in SUBSET EdgeCopy, NEW external \in SUBSET Ids,
           NEW missing \in SUBSET Ids, NEW conflicts \in SUBSET Ids
    PROVE  /\ Gathers(j, j)
           /\ Gathers([j EXCEPT !.pending = pending], j)
           /\ Gathers([j EXCEPT !.conflicts = conflicts], j)
           /\ Gathers([j EXCEPT !.pending = pending, !.edges = edges], j)
           /\ Gathers([j EXCEPT !.pending = pending, !.edges = edges,
                                !.external = external], j)
           /\ Gathers([j EXCEPT !.pending = pending, !.edges = edges,
                                !.missing = missing], j)
           /\ Gathers([j EXCEPT !.pending = pending, !.missing = missing], j)
<1>1. DOMAIN j = Fields /\ Gathered(j)
  BY DEF IsJob
<1>2. Gathers(j, j)
  BY <1>1 DEF Gathers
<1>3. Gathers([j EXCEPT !.pending = pending], j)
  BY <1>1 DEF Gathers, Fields, Gathered, Options, Lists
<1>4. Gathers([j EXCEPT !.conflicts = conflicts], j)
  BY <1>1 DEF Gathers, Fields, Gathered, Options, Lists
<1>5. Gathers([j EXCEPT !.pending = pending, !.edges = edges], j)
  BY <1>1 DEF Gathers, Fields, Gathered, Options, Lists
<1>6. Gathers([j EXCEPT !.pending = pending, !.edges = edges,
                        !.external = external], j)
  BY <1>1 DEF Gathers, Fields, Gathered, Options, Lists
<1>7. Gathers([j EXCEPT !.pending = pending, !.edges = edges,
                        !.missing = missing], j)
  BY <1>1 DEF Gathers, Fields, Gathered, Options, Lists
<1>8. Gathers([j EXCEPT !.pending = pending, !.missing = missing], j)
  BY <1>1 DEF Gathers, Fields, Gathered, Options, Lists
<1> QED
  BY <1>2, <1>3, <1>4, <1>5, <1>6, <1>7, <1>8

LEMMA PendingFacts ==
    ASSUME Typed
    PROVE  /\ job.pending \in SUBSET EdgeCopy /\ job.edges \in SUBSET EdgeCopy
           /\ job.external \in SUBSET Ids /\ job.missing \in SUBSET Ids
           /\ job.nodes \in SUBSET Ids /\ job.visited \in SUBSET Ids
           /\ \A x \in job.pending, i \in Ids : Other(x, i) \in Ids
<1>1. Gathered(job)
  BY Remembered DEF IsJob
<1> QED
  BY <1>1, OtherIsAnId DEF Gathered

LEMMA GatheringKeepsTypes ==
    ASSUME Typed,
           \/ ScanIn \/ EntryConflicts \/ ShowEdges \/ MeshEdges
    PROVE  Typed'
<1>1. /\ IsJob(job) /\ db \in Database
  BY Remembered
<1>2. CASE ScanIn
  <2> DEFINE p == job.pending \cup EdgesTo(db, job.cur.id)
             l == IF job.kind \in {"entry", "show"} THEN "conflicts" ELSE "peers"
             m == [job EXCEPT !.pending = p]
  <2>1. Goto(l, m) /\ pc = "scanIn"
    BY <1>2 DEF ScanIn
  <2>2. p \in SUBSET EdgeCopy
    BY <1>1, PendingFacts, CopiesAreEdges
  <2> HIDE DEF p
  <2>3. Gathers(m, job)
    BY <1>1, <2>2, PendingFacts, Gathering
  <2>4. l \in {"scan", "conflicts", "peers"}
    OBVIOUS
  <2>5. l = "conflicts" => job.kind \in {"entry", "show"}
    OBVIOUS
  <2> HIDE DEF m, l
  <2> QED
    BY <2>1, <2>3, <2>4, <2>5, GatherKeepsTypes
<1>3. CASE EntryConflicts
  <2> DEFINE p == FindConflicts(db, job.cur.id)
             m == [job EXCEPT !.conflicts = p]
  <2>1. Goto("peers", m) /\ pc = "conflicts"
    BY <1>3 DEF EntryConflicts
  <2>2. p \in SUBSET Ids
    BY <1>1, ConflictsAreIds
  <2> HIDE DEF p
  <2>3. Gathers(m, job)
    BY <1>1, <2>2, PendingFacts, Gathering
  <2> HIDE DEF m
  <2> QED
    BY <2>1, <2>3, GatherKeepsTypes
<1>4. CASE ShowEdges
  <2> DEFINE p == job.edges \cup job.pending
             m == [job EXCEPT !.pending = {}, !.edges = p]
  <2>1. Goto("scan", m) /\ pc = "peers"
    BY <1>4 DEF ShowEdges
  <2>2. p \in SUBSET EdgeCopy
    BY <1>1, PendingFacts
  <2> HIDE DEF p
  <2>3. Gathers(m, job)
    BY <1>1, <2>2, PendingFacts, Gathering
  <2> HIDE DEF m
  <2> QED
    BY <2>1, <2>3, GatherKeepsTypes
<1>5. CASE MeshEdges
  <2> DEFINE p == job.edges \cup {x \in job.pending :
                                    {x.from, x.to} \subseteq job.nodes}
             m == [job EXCEPT !.pending = {}, !.edges = p]
  <2>1. Goto("scan", m) /\ pc = "peers"
    BY <1>5 DEF MeshEdges
  <2>2. p \in SUBSET EdgeCopy
    BY <1>1, PendingFacts
  <2> HIDE DEF p
  <2>3. Gathers(m, job)
    BY <1>1, <2>2, PendingFacts, Gathering
  <2> HIDE DEF m
  <2> QED
    BY <2>1, <2>3, GatherKeepsTypes
<1> QED
  BY <1>2, <1>3, <1>4, <1>5

\* The ways in which one edge's other end is dealt with.
Taken(x) == [job EXCEPT !.pending = @ \ {x}]

PeerSteps(x) ==
    LET peer == Other(x, job.cur.id)
        j == Taken(x)
    IN  {j,
         [j EXCEPT !.edges = @ \cup {x}],
         [j EXCEPT !.missing = @ \cup {peer}],
         [j EXCEPT !.edges = @ \cup {x}, !.external = @ \cup {peer}],
         [j EXCEPT !.edges = @ \cup {x}, !.missing = @ \cup {peer}]}

LEMMA PeerStepsGather ==
    ASSUME Typed, pc = "peers", NEW x \in job.pending, NEW m \in PeerSteps(x)
    PROVE  Gathers(m, job)
<1> DEFINE peer == Other(x, job.cur.id)
           rest == job.pending \ {x}
           j == Taken(x)
           more == j.edges \cup {x}
           ext == j.external \cup {peer}
           miss == j.missing \cup {peer}
<1>1. job.cur \in Item /\ IsJob(job) /\ DOMAIN job = Fields
  BY Remembered DEF Expected
<1>2. peer \in Ids
  BY <1>1, PendingFacts DEF Item
<1>3. Gathers(j, job)
  <2>1. rest \in SUBSET EdgeCopy /\ j = [job EXCEPT !.pending = rest]
    BY PendingFacts DEF Taken
  <2> HIDE DEF rest, j
  <2> QED
    BY <1>1, <2>1, PendingFacts, Gathering
<1>4. /\ j.edges = job.edges /\ j.external = job.external
      /\ j.missing = job.missing /\ j.conflicts = job.conflicts
      /\ j.pending = rest
  BY <1>1 DEF Taken, Fields
<1>5. IsJob(j)
  BY <1>1, <1>3 DEF Gathers, IsJob
<1>6. \/ m = j
      \/ m = [j EXCEPT !.edges = more]
      \/ m = [j EXCEPT !.missing = miss]
      \/ m = [j EXCEPT !.edges = more, !.external = ext]
      \/ m = [j EXCEPT !.edges = more, !.missing = miss]
  BY DEF PeerSteps
<1>7. /\ rest \in SUBSET EdgeCopy /\ more \in SUBSET EdgeCopy
      /\ ext \in SUBSET Ids /\ miss \in SUBSET Ids
  BY <1>2, <1>4, PendingFacts
<1> HIDE DEF rest, more, ext, miss, j, peer
<1>8. DOMAIN j = Fields /\ Gathered(j)
  BY <1>5 DEF IsJob
<1>9. Gathers(m, j)
  <2>1. CASE m = j
    BY <1>8, <2>1 DEF Gathers
  <2>2. CASE m = [j EXCEPT !.edges = more]
    BY <1>7, <1>8, <2>2 DEF Gathers, Fields, Gathered, Options, Lists
  <2>3. CASE m = [j EXCEPT !.missing = miss]
    BY <1>7, <1>8, <2>3 DEF Gathers, Fields, Gathered, Options, Lists
  <2>4. CASE m = [j EXCEPT !.edges = more, !.external = ext]
    BY <1>7, <1>8, <2>4 DEF Gathers, Fields, Gathered, Options, Lists
  <2>5. CASE m = [j EXCEPT !.edges = more, !.missing = miss]
    BY <1>7, <1>8, <2>5 DEF Gathers, Fields, Gathered, Options, Lists
  <2> QED
    BY <1>6, <2>1, <2>2, <2>3, <2>4, <2>5
<1> QED
  BY <1>3, <1>9 DEF Gathers

LEMMA PeersAreSteps ==
    ASSUME GraphPeers \/ LookUpPeers
    PROVE  /\ pc = "peers"
           /\ \/ Goto("scan", job)
              \/ \E x \in job.pending : \E m \in PeerSteps(x) : Goto("peers", m)
<1>1. CASE GraphPeers
  <2>1. ASSUME NEW x \in job.pending,
               LET peer == Other(x, job.cur.id)
                   j == [job EXCEPT !.pending = @ \ {x}]
               IN  IF peer \in job.nodes \cup job.external
                   THEN Goto("peers", [j EXCEPT !.edges = @ \cup {x}])
                   ELSE IF peer \in job.missing THEN Goto("peers", j)
                   ELSE IF Live(db, peer)
                   THEN Goto("peers", [j EXCEPT !.edges = @ \cup {x},
                                                !.external = @ \cup {peer}])
                   ELSE Goto("peers", [j EXCEPT !.missing = @ \cup {peer}])
        PROVE  \E m \in PeerSteps(x) : Goto("peers", m)
    <3> DEFINE peer == Other(x, job.cur.id)
               j == Taken(x)
    <3>1. \/ Goto("peers", j)
          \/ Goto("peers", [j EXCEPT !.edges = @ \cup {x}])
          \/ Goto("peers", [j EXCEPT !.missing = @ \cup {peer}])
          \/ Goto("peers", [j EXCEPT !.edges = @ \cup {x},
                                     !.external = @ \cup {peer}])
      BY <2>1 DEF Taken
    <3> HIDE DEF j
    <3> QED
      BY <3>1 DEF PeerSteps, j
  <2> QED
    BY <1>1, <2>1 DEF GraphPeers
<1>2. CASE LookUpPeers
  <2>1. ASSUME NEW x \in job.pending,
               LET peer == Other(x, job.cur.id)
                   j == [job EXCEPT !.pending = @ \ {x}]
               IN  IF Live(db, peer)
                   THEN Goto("peers", [j EXCEPT !.edges = @ \cup {x},
                                                !.external = @ \cup {peer}])
                   ELSE IF job.kind = "entry"
                   THEN Goto("peers", [j EXCEPT !.edges = @ \cup {x},
                                                !.missing = @ \cup {peer}])
                   ELSE Goto("peers", j)
        PROVE  \E m \in PeerSteps(x) : Goto("peers", m)
    <3> DEFINE peer == Other(x, job.cur.id)
               j == Taken(x)
    <3>1. \/ Goto("peers", j)
          \/ Goto("peers", [j EXCEPT !.edges = @ \cup {x},
                                     !.missing = @ \cup {peer}])
          \/ Goto("peers", [j EXCEPT !.edges = @ \cup {x},
                                     !.external = @ \cup {peer}])
      BY <2>1 DEF Taken
    <3> HIDE DEF j
    <3> QED
      BY <3>1 DEF PeerSteps, j
  <2> QED
    BY <1>2, <2>1 DEF LookUpPeers
<1> QED
  BY <1>1, <1>2

LEMMA PeersKeepTypes == ASSUME Typed, GraphPeers \/ LookUpPeers PROVE Typed'
<1>1. /\ pc = "peers"
      /\ \/ Goto("scan", job)
         \/ \E x \in job.pending : \E m \in PeerSteps(x) : Goto("peers", m)
  BY PeersAreSteps
<1>2. CASE Goto("scan", job)
  <2>1. Gathers(job, job)
    BY Remembered DEF IsJob, Gathers
  <2> QED
    BY <1>1, <1>2, <2>1, GatherKeepsTypes
<1>3. ASSUME NEW x \in job.pending, NEW m \in PeerSteps(x), Goto("peers", m)
      PROVE  Typed'
  <2>1. Gathers(m, job)
    BY <1>1, <1>3, PeerStepsGather
  <2> QED
    BY <1>1, <1>3, <2>1, GatherKeepsTypes
<1> QED
  BY <1>1, <1>2, <1>3

LEMMA FoundIsAResult ==
    ASSUME NEW i \in Ids, NEW score \in Nat, NEW n \in Nat
    PROVE  Found(i, score, n) \in Result /\ Found(i, score, n).id = i
  BY DEF Found, Result

\* What a step of a walk leaves alone.
SameRequest(m, j) ==
    /\ m.kind = j.kind /\ m.since = j.since /\ m.start = j.start
    /\ m.target = j.target /\ m.phase = j.phase /\ m.seeds = j.seeds
    /\ m.depth = j.depth /\ m.at = j.at

LEMMA WalkFacts ==
    ASSUME NEW j, IsJob(j), NEW i \in Ids, NEW score \in Nat
    PROVE  /\ IsJob(Walk(j, i, score))
           /\ SameRequest(Walk(j, i, score), j)
<1> DEFINE q == <<At(i, 0, score, <<>>)>>
           v == j.visited \cup {i}
           m == [j EXCEPT !.queue = q, !.visited = v]
<1>1. Walk(j, i, score) = m
  BY DEF Walk
<1>2. q \in Seq(Item)
  BY DEF At, Item
<1>3. v \in SUBSET Ids
  BY DEF IsJob, Gathered
<1> HIDE DEF q, v
<1>4. IsJob(m)
  <2>1. DOMAIN m = Fields
    BY <1>2, <1>3 DEF IsJob, Fields
  <2>2. Options(m)
    BY <1>2, <1>3 DEF IsJob, Fields, Options
  <2>3. Gathered(m)
    BY <1>2, <1>3 DEF IsJob, Fields, Gathered
  <2>4. Lists(m)
    BY <1>2, <1>3 DEF IsJob, Fields, Lists
  <2> QED
    BY <2>1, <2>2, <2>3, <2>4 DEF IsJob
<1>5. SameRequest(m, j)
  BY DEF IsJob, Fields, SameRequest
<1> QED
  BY <1>1, <1>4, <1>5

LEMMA WalkBegins ==
    ASSUME Typed, NEW j, IsJob(j), j.since = writes,
           j.start \in Ids, Tracks(j), NEW i \in Ids,
           Goto("walk", Walk(j, i, 0))
    PROVE  Typed'
<1> DEFINE m == Walk(j, i, 0)
<1>1. IsJob(m) /\ SameRequest(m, j) /\ Goto("walk", m)
  BY WalkFacts
<1> HIDE DEF m
<1>2. Expected("walk", m) /\ m.since <= writes
  BY <1>1, WritesAreCounted DEF Expected, SameRequest, Tracks, Tracing
<1> QED
  BY <1>1, <1>2, Moves DEF Locations

\* What a walk starts from.
TracingJob(j) ==
    /\ IsJob(j) /\ j.since = writes /\ j.start \in Ids /\ Tracks(j)
    /\ j.edges = {} /\ j.external = {} /\ j.visited = {} /\ j.path = <<>>
    /\ j.queue = <<>>
    /\ j.kind = "neighbors" =>
         j.nodes = {j.start} /\ j.results = <<Found(j.start, 0, 0)>>
    /\ j.kind = "related" => j.nodes = {} /\ j.results = <<>>
    /\ j.kind = "path" => /\ j.nodes = {j.start} /\ j.target \in Ids
                          /\ j.results = <<>> /\ j.dir = "both" /\ j.types = {}
    /\ j.depth > 0
    /\ \/ Goto("walk", Walk(j, j.start, 0))
       \/ j.kind = "path" /\ Goto("pathTo", j)

LEMMA TracingAsks ==
    ASSUME Typed, HandleNeighbors \/ Related \/ HandlePath \/ RunPath
    PROVE  \E j : TracingJob(j)
<1>1. LiveIds \in SUBSET Ids /\ Depths \in SUBSET (Nat \ {0})
      /\ Directions \in SUBSET {"out", "in", "both"}
      /\ TypeFilters \in SUBSET SUBSET EdgeTypes
  BY ReadsAssumption DEF LiveIds
<1> DEFINE Blank(a, kind) ==
      /\ DOMAIN a = Fields /\ a.kind = kind /\ a.since = writes
      /\ a.seeds = <<>> /\ a.at = 1 /\ a.phase = "none"
      /\ a.edges = {} /\ a.external = {} /\ a.visited = {} /\ a.path = <<>>
      /\ a.queue = <<>>
<1>2. ASSUME NEW kind \in Kinds
      PROVE  /\ Blank(New(kind), kind) /\ IsJob(New(kind))
             /\ New(kind).nodes = {} /\ New(kind).results = <<>>
             /\ New(kind).dir = "both" /\ New(kind).types = {}
  BY NewIsAJob DEF Untouched
<1>3. CASE HandleNeighbors
  <2>1. PICK i \in LiveIds, n \in Depths, dir \in Directions,
             types \in TypeFilters :
          Goto("walk", Walk([New("neighbors") EXCEPT
                               !.start = i, !.depth = n, !.dir = dir,
                               !.types = types, !.nodes = {i},
                               !.results = <<Found(i, 0, 0)>>], i, 0))
    BY <1>3 DEF HandleNeighbors
  <2> DEFINE a == New("neighbors")
             rs == <<Found(i, 0, 0)>>
             j == [a EXCEPT !.start = i, !.depth = n, !.dir = dir,
                            !.types = types, !.nodes = {i}, !.results = rs]
  <2>2. Blank(a, "neighbors") /\ IsJob(a)
    BY <1>2, <1>3 DEF HandleNeighbors, Begin
  <2>3. i \in Ids /\ n \in Nat /\ n > 0 /\ dir \in {"out", "in", "both"}
        /\ types \in SUBSET EdgeTypes
    BY <1>1
  <2>4. rs \in Seq(Result) /\ rs = <<Found(i, 0, 0)>>
    BY <2>3, FoundIsAResult
  <2>5. Goto("walk", Walk(j, i, 0))
    BY <2>1
  <2> HIDE DEF a, rs
  <2>6. IsJob(j)
    <3>1. DOMAIN j = Fields
      BY <2>2, <2>3, <2>4 DEF IsJob
    <3>2. Options(j)
      BY <2>2, <2>3, <2>4 DEF IsJob, Fields, Options
    <3>3. Gathered(j)
      BY <2>2, <2>3, <2>4 DEF IsJob, Fields, Gathered
    <3>4. Lists(j)
      BY <2>2, <2>3, <2>4 DEF IsJob, Fields, Lists
    <3> QED
      BY <3>1, <3>2, <3>3, <3>4 DEF IsJob
  <2>7. Blank(j, "neighbors") /\ j.start = i /\ j.nodes = {i} /\ j.results = rs
        /\ j.depth = n
    BY <2>2 DEF Fields
  <2> HIDE DEF j
  <2> QED
    BY <2>3, <2>4, <2>5, <2>6, <2>7 DEF TracingJob, Tracks, Tracing
<1>4. CASE Related
  <2>1. PICK i \in Ids, n \in Depths, dir \in Directions,
             types \in TypeFilters :
          Goto("walk", Walk([New("related") EXCEPT
                               !.start = i, !.depth = n, !.dir = dir,
                               !.types = types], i, 0))
    BY <1>4 DEF Related
  <2> DEFINE a == New("related")
             j == [a EXCEPT !.start = i, !.depth = n, !.dir = dir,
                            !.types = types]
  <2>2. Blank(a, "related") /\ IsJob(a) /\ a.nodes = {} /\ a.results = <<>>
    BY <1>2, <1>4 DEF Related, Begin
  <2>3. n \in Nat /\ n > 0 /\ dir \in {"out", "in", "both"}
        /\ types \in SUBSET EdgeTypes
    BY <1>1
  <2>4. Goto("walk", Walk(j, i, 0))
    BY <2>1
  <2> HIDE DEF a
  <2>5. IsJob(j)
    <3>1. DOMAIN j = Fields
      BY <2>2, <2>3 DEF IsJob, Fields
    <3>2. Options(j)
      BY <2>2, <2>3 DEF IsJob, Fields, Options
    <3>3. Gathered(j)
      BY <2>2, <2>3 DEF IsJob, Fields, Gathered
    <3>4. Lists(j)
      BY <2>2, <2>3 DEF IsJob, Fields, Lists
    <3> QED
      BY <3>1, <3>2, <3>3, <3>4 DEF IsJob
  <2>6. Blank(j, "related") /\ j.start = i /\ j.nodes = {} /\ j.results = <<>>
        /\ j.depth = n
    BY <2>2 DEF Fields
  <2> HIDE DEF j
  <2> QED
    BY <2>3, <2>4, <2>5, <2>6 DEF TracingJob, Tracks, Tracing
<1>5. CASE HandlePath \/ RunPath
  <2>1. PICK i \in Ids, k \in Ids, n \in Depths :
          LET j == [New("path") EXCEPT !.start = i, !.target = k,
                                       !.depth = n, !.nodes = {i}]
          IN  Goto("pathTo", j) \/ Goto("walk", Walk(j, i, 0))
    BY <1>5 DEF HandlePath, RunPath, LiveIds
  <2> DEFINE a == New("path")
             j == [a EXCEPT !.start = i, !.target = k, !.depth = n,
                            !.nodes = {i}]
  <2>2. /\ Blank(a, "path") /\ IsJob(a)
        /\ a.results = <<>> /\ a.dir = "both" /\ a.types = {}
    BY <1>2, <1>5 DEF HandlePath, RunPath, Begin
  <2>3. n \in Nat /\ n > 0 /\ (Goto("pathTo", j) \/ Goto("walk", Walk(j, i, 0)))
    BY <1>1, <2>1
  <2> HIDE DEF a
  <2>4. IsJob(j)
    <3>1. DOMAIN j = Fields
      BY <2>2, <2>3 DEF IsJob
    <3>2. Options(j)
      BY <2>2, <2>3 DEF IsJob, Fields, Options
    <3>3. Gathered(j)
      BY <2>2, <2>3 DEF IsJob, Fields, Gathered
    <3>4. Lists(j)
      BY <2>2, <2>3 DEF IsJob, Fields, Lists
    <3> QED
      BY <3>1, <3>2, <3>3, <3>4 DEF IsJob
  <2>5. Blank(j, "path") /\ j.start = i /\ j.target = k /\ j.nodes = {i}
        /\ j.depth = n /\ j.results = <<>> /\ j.dir = "both" /\ j.types = {}
    BY <2>2 DEF Fields
  <2> HIDE DEF j
  <2> QED
    BY <2>3, <2>4, <2>5 DEF TracingJob, Tracks, Tracing
<1> QED
  BY <1>3, <1>4, <1>5

LEMMA TracingBegins ==
    ASSUME Typed, HandleNeighbors \/ Related \/ HandlePath \/ RunPath
    PROVE  Typed'
<1>1. PICK j : TracingJob(j)
  BY TracingAsks
<1>2. CASE Goto("walk", Walk(j, j.start, 0))
  BY <1>1, <1>2, WalkBegins DEF TracingJob
<1>3. CASE j.kind = "path" /\ Goto("pathTo", j)
  <2>1. Expected("pathTo", j) /\ j.since <= writes
    BY <1>1, <1>3, WritesAreCounted DEF Expected, Tracing, TracingJob
  <2> QED
    BY <1>1, <1>3, <2>1, Moves DEF Locations, TracingJob
<1> QED
  BY <1>1, <1>2, <1>3 DEF TracingJob

LEMMA GivesUp == ASSUME Typed, Goto("idle", NoJob) PROVE Typed'
<1>1. Expected("idle", NoJob) /\ NoJob.since <= writes
  BY WritesAreCounted DEF Expected, NoJob, Tracing
<1> QED
  BY <1>1, NoJobIsAJob, Moves DEF Locations

LEMMA LooksUpTheTarget == ASSUME Typed, PathTo PROVE Typed'
<1>1. /\ IsJob(job) /\ job.since <= writes /\ writes \in Nat
      /\ Expected("pathTo", job)
  BY Remembered DEF PathTo
<1>2. job.kind = "path" /\ job.start \in Ids
  BY <1>1 DEF Expected, Tracing
<1>3. CASE Live(db, job.target)
  <2> DEFINE m == Walk(job, job.start, 0)
  <2>1. Goto("walk", m)
    BY <1>3 DEF PathTo
  <2>2. IsJob(m) /\ SameRequest(m, job)
    BY <1>1, <1>2, WalkFacts
  <2> HIDE DEF m
  <2>3. m.since <= writes
    BY <1>1, <2>2 DEF SameRequest
  <2>4. Expected("walk", m)
    BY <1>1, <1>2, <2>2 DEF Expected, SameRequest, Tracks, Tracing
  <2> QED
    BY <2>1, <2>2, <2>3, <2>4, Moves DEF Locations
<1>4. CASE ~Live(db, job.target)
  BY <1>4, GivesUp DEF PathTo
<1> QED
  BY <1>3, <1>4

LEMMA WalkMoves ==
    ASSUME Typed, pc \in {"walk", "walkIn", "visit"},
           NEW l \in {"walk", "walkIn", "visit"}, NEW m, Goto(l, m),
           IsJob(m), SameRequest(m, job), l # "walk" => m.cur \in Item
    PROVE  Typed'
<1>1. job.since <= writes /\ Expected(pc, job)
  BY Remembered
<1>2. /\ Tracks(job) \/ HybridPhase(job)
      /\ job.kind \in Tracing => job.start \in Ids
  BY <1>1 DEF Expected
<1>3. m.kind \in Tracing => m.start \in Ids
  BY <1>2 DEF SameRequest
<1>4. Tracks(m) \/ HybridPhase(m)
  BY <1>2 DEF SameRequest, HybridPhase, Tracks
<1>5. m.kind \in Tracing \cup Expanding
  BY <1>4 DEF HybridPhase, Tracks
<1>6. Expected(l, m)
  BY <1>3, <1>4, <1>5 DEF Expected, Tracing, Expanding, Searching
<1> QED
  BY <1>1, <1>6, Moves DEF Locations, SameRequest

LEMMA ExpandableFacts ==
    ASSUME Typed
    PROVE  /\ Expandable \in Seq(Item)
           /\ \E f : Picks(Expandable, job.queue,
                           {n \in DOMAIN job.queue :
                              job.queue[n].depth < job.depth}, f)
           /\ Expandable # <<>> => /\ Head(Expandable) \in Item
                                   /\ Tail(Expandable) \in Seq(Item)
<1> DEFINE I == {n \in DOMAIN job.queue : job.queue[n].depth < job.depth}
<1>1. job.queue \in Seq(Item)
  BY Remembered DEF IsJob, Lists
<1>2. I \in SUBSET DOMAIN job.queue /\ Expandable = Sublist(job.queue, I)
  BY DEF Expandable
<1> HIDE DEF I
<1>3. /\ Expandable \in Seq(Item)
      /\ \E f : Picks(Expandable, job.queue, I, f)
  BY <1>1, <1>2, SublistFacts
<1>4. Expandable # <<>> => /\ Head(Expandable) \in Item
                           /\ Tail(Expandable) \in Seq(Item)
  BY <1>3
<1> QED
  BY <1>3, <1>4 DEF I

LEMMA WalkReadsKeepTypes == ASSUME Typed, WalkOut \/ WalkIn PROVE Typed'
<1>1. /\ IsJob(job) /\ DOMAIN job = Fields /\ db \in Database
      /\ Expected(pc, job)
  BY Remembered
<1>2. CASE WalkOut
  <2> DEFINE cur == Head(Expandable)
             q == Tail(Expandable)
             j == [job EXCEPT !.cur = cur, !.queue = q]
             out == OfTypes(EdgesFrom(db, cur.id), job.types)
             in == OfTypes(EdgesTo(db, cur.id), job.types)
             mi == [j EXCEPT !.pending = in]
             mo == [j EXCEPT !.pending = out]
  <2>1. /\ pc = "walk"
        /\ \/ Goto("visit", mi)
           \/ Goto("visit", mo)
           \/ Goto("walkIn", mo)
    <3>1. job.dir \in {"out", "in", "both"}
      BY <1>1 DEF IsJob, Options
    <3> QED
      BY <1>2, <3>1 DEF WalkOut
  <2>2. cur \in Item /\ q \in Seq(Item)
    BY <1>2, ExpandableFacts DEF WalkOut
  <2>3. out \in SUBSET EdgeCopy /\ in \in SUBSET EdgeCopy
    BY <1>1, CopiesAreEdges DEF OfTypes
  <2> HIDE DEF cur, q, out, in
  <2>4. IsJob(j)
    <3>1. DOMAIN j = Fields
      BY <1>1, <2>2 DEF IsJob, Fields
    <3>2. Options(j)
      BY <1>1, <2>2 DEF IsJob, Fields, Options
    <3>3. Gathered(j)
      BY <1>1, <2>2 DEF IsJob, Fields, Gathered
    <3>4. Lists(j)
      BY <1>1, <2>2 DEF IsJob, Fields, Lists
    <3> QED
      BY <3>1, <3>2, <3>3, <3>4 DEF IsJob
  <2>5. DOMAIN j = Fields /\ j.cur = cur /\ SameRequest(j, job)
    BY <1>1 DEF Fields, SameRequest
  <2> HIDE DEF j
  <2>6. IsJob(mi) /\ IsJob(mo)
    <3>1. DOMAIN mi = Fields /\ DOMAIN mo = Fields
      BY <2>4 DEF IsJob, Fields
    <3>2. Options(mi) /\ Options(mo)
      BY <2>4 DEF IsJob, Fields, Options
    <3>3. Gathered(mi)
      BY <2>3, <2>4 DEF IsJob, Fields, Gathered
    <3>4. Gathered(mo)
      BY <2>3, <2>4 DEF IsJob, Fields, Gathered
    <3>5. Lists(mi) /\ Lists(mo)
      BY <2>4 DEF IsJob, Fields, Lists
    <3> QED
      BY <3>1, <3>2, <3>3, <3>4, <3>5 DEF IsJob
  <2>7. /\ mi.cur = cur /\ SameRequest(mi, job)
        /\ mo.cur = cur /\ SameRequest(mo, job)
    BY <2>5 DEF Fields, SameRequest
  <2> HIDE DEF mi, mo
  <2> QED
    BY <2>1, <2>2, <2>6, <2>7, WalkMoves
<1>3. CASE WalkIn
  <2> DEFINE p == job.pending \cup OfTypes(EdgesTo(db, job.cur.id), job.types)
             m == [job EXCEPT !.pending = p]
  <2>1. Goto("visit", m) /\ pc = "walkIn"
    BY <1>3 DEF WalkIn
  <2>2. p \in SUBSET EdgeCopy
    BY <1>1, PendingFacts, CopiesAreEdges DEF OfTypes
  <2> HIDE DEF p
  <2>3. IsJob(m)
    <3>1. DOMAIN m = Fields
      BY <1>1, <2>2 DEF IsJob, Fields
    <3>2. Options(m)
      BY <1>1, <2>2 DEF IsJob, Fields, Options
    <3>3. Gathered(m)
      BY <1>1, <2>2 DEF IsJob, Fields, Gathered
    <3>4. Lists(m)
      BY <1>1, <2>2 DEF IsJob, Fields, Lists
    <3> QED
      BY <3>1, <3>2, <3>3, <3>4 DEF IsJob
  <2>4. m.cur = job.cur /\ SameRequest(m, job)
    BY <1>1 DEF Fields, SameRequest
  <2>5. job.cur \in Item
    BY <1>1, <2>1 DEF Expected
  <2> HIDE DEF m
  <2> QED
    BY <2>1, <2>3, <2>4, <2>5, WalkMoves
<1> QED
  BY <1>2, <1>3

\* Weights and recencies count in thousandths.
Thousandths == 0..1000

LEMMA EffectiveWeightIsSmall ==
    ASSUME NEW x \in EdgeCopy PROVE EffectiveWeight(x) \in 0..1000
<1>1. Weights \subseteq Thousandths \cup {Null}
  BY ReadsAssumption DEF Thousandths
<1>2. x.weight \in Weights
  BY DEF EdgeCopy
<1>3. x.weight \in Thousandths \/ x.weight = Null
  BY ONLY <1>1, <1>2
<1> QED
  BY <1>3 DEF EffectiveWeight, Thousandths

LEMMA ExpansionScoreIsSmall ==
    ASSUME NEW x \in EdgeCopy, NEW score \in Nat
    PROVE  /\ ExpansionScore(score, x) \in Nat
           /\ 10 * ExpansionScore(score, x) <= 8 * score
<1> DEFINE w == EffectiveWeight(x)
           n == score * w * 8
<1>1. w \in 0..1000
  BY EffectiveWeightIsSmall
<1> HIDE DEF w
<1>2. score * w \in Nat
  BY <1>1
<1>3. score * w <= score * 1000
  BY <1>1
<1>4. n \in Nat /\ n <= 8000 * score
  BY <1>2, <1>3
<1>5. ExpansionScore(score, x) = n \div 10000
  BY DEF ExpansionScore, w
<1> HIDE DEF n
<1>6. n \div 10000 \in Nat /\ 10000 * (n \div 10000) <= n
  BY <1>4
<1> QED
  BY <1>4, <1>5, <1>6

\* What the visit of an edge makes of the request.
Fresh == {x \in job.pending : Other(x, job.cur.id) \notin job.visited}

Visited(x) == [job EXCEPT !.pending = Fresh \ {x},
                          !.visited = @ \cup {Other(x, job.cur.id)}]

LEMMA VisitIs ==
    ASSUME Visit
    PROVE  /\ pc = "visit"
           /\ \/ Fresh = {} /\ Goto("walk", [job EXCEPT !.pending = {}])
              \/ \E x \in Fresh :
                   LET peer == Other(x, job.cur.id)
                       j == Visited(x)
                   IN  \/ /\ job.kind = "path" /\ peer = job.target
                          /\ Goto("build", [j EXCEPT
                                              !.path = Append(job.cur.path, x),
                                              !.visited = {job.start}])
                       \/ /\ job.kind = "path" /\ peer # job.target
                          /\ Goto("visit", Passed(j, peer, x))
                       \/ /\ job.kind # "path"
                          /\ Goto("visit", IF Live(db, peer)
                                           THEN Reached(j, peer, x) ELSE j)
<1>1. pc = "visit"
  BY DEF Visit
<1>2. NextEdges(Fresh) \subseteq Fresh
  BY DEF NextEdges
<1>3. CASE Fresh = {} /\ Goto("walk", [job EXCEPT !.pending = {}])
  BY <1>1, <1>3
<1>4. ASSUME NEW x \in NextEdges(Fresh),
             LET peer == Other(x, job.cur.id)
                 j == Visited(x)
             IN  CASE job.kind = "path" /\ peer = job.target ->
                        Goto("build", [j EXCEPT
                                         !.path = Append(job.cur.path, x),
                                         !.visited = {job.start}])
                   [] job.kind = "path" /\ peer # job.target ->
                        Goto("visit", Passed(j, peer, x))
                   [] job.kind # "path" ->
                        Goto("visit", IF Live(db, peer)
                                      THEN Reached(j, peer, x) ELSE j)
      PROVE  LET peer == Other(x, job.cur.id)
                 j == Visited(x)
             IN  \/ /\ job.kind = "path" /\ peer = job.target
                    /\ Goto("build", [j EXCEPT
                                        !.path = Append(job.cur.path, x),
                                        !.visited = {job.start}])
                 \/ /\ job.kind = "path" /\ peer # job.target
                    /\ Goto("visit", Passed(j, peer, x))
                 \/ /\ job.kind # "path"
                    /\ Goto("visit", IF Live(db, peer)
                                     THEN Reached(j, peer, x) ELSE j)
  <2> DEFINE peer == Other(x, job.cur.id)
  <2>1. CASE job.kind = "path" /\ peer = job.target
    BY <1>4, <2>1
  <2>2. CASE job.kind = "path" /\ peer # job.target
    BY <1>4, <2>2
  <2>3. CASE job.kind # "path"
    BY <1>4, <2>3
  <2> QED
    BY <2>1, <2>2, <2>3
<1>5. \/ Fresh = {} /\ Goto("walk", [job EXCEPT !.pending = {}])
      \/ \E x \in NextEdges(Fresh) :
           LET peer == Other(x, job.cur.id)
               j == Visited(x)
           IN  CASE job.kind = "path" /\ peer = job.target ->
                      Goto("build", [j EXCEPT
                                       !.path = Append(job.cur.path, x),
                                       !.visited = {job.start}])
                 [] job.kind = "path" /\ peer # job.target ->
                      Goto("visit", Passed(j, peer, x))
                 [] job.kind # "path" ->
                      Goto("visit", IF Live(db, peer)
                                    THEN Reached(j, peer, x) ELSE j)
  BY DEF Visit, Fresh, Visited, Mark
<1> QED
  BY <1>1, <1>2, <1>3, <1>4, <1>5

LEMMA VisitedFacts ==
    ASSUME Typed, pc = "visit", NEW x \in Fresh
    PROVE  /\ x \in EdgeCopy /\ x \in job.pending
           /\ Other(x, job.cur.id) \in Ids \ job.visited
           /\ job.cur \in Item /\ job.cur.id \in Ids /\ job.cur.depth \in Nat
           /\ job.cur.score \in Nat /\ job.cur.path \in Seq(EdgeCopy)
           /\ IsJob(Visited(x)) /\ DOMAIN Visited(x) = Fields
           /\ SameRequest(Visited(x), job)

<1> DEFINE p == Fresh \ {x}
           v == job.visited \cup {Other(x, job.cur.id)}
           j == [job EXCEPT !.pending = p, !.visited = v]
<1>1. /\ IsJob(job) /\ DOMAIN job = Fields /\ Expected("visit", job)
  BY Remembered
<1>2. job.cur \in Item
  BY <1>1 DEF Expected
<1>3. /\ job.cur.id \in Ids /\ job.cur.depth \in Nat
      /\ job.cur.score \in Nat /\ job.cur.path \in Seq(EdgeCopy)
  BY <1>2 DEF Item
<1>4. x \in EdgeCopy /\ x \in job.pending /\ p \in SUBSET EdgeCopy
  BY PendingFacts DEF Fresh
<1>5. Other(x, job.cur.id) \in Ids \ job.visited /\ v \in SUBSET Ids
  BY <1>3, <1>4, PendingFacts DEF Fresh
<1>6. j = Visited(x)
  BY DEF Visited
<1> HIDE DEF p, v
<1>7. IsJob(j)
  <2>1. DOMAIN j = Fields
    BY <1>1, <1>4, <1>5 DEF IsJob, Fields
  <2>2. Options(j)
    BY <1>1, <1>4, <1>5 DEF IsJob, Fields, Options
  <2>3. Gathered(j)
    BY <1>1, <1>4, <1>5 DEF IsJob, Fields, Gathered
  <2>4. Lists(j)
    BY <1>1, <1>4, <1>5 DEF IsJob, Fields, Lists
  <2> QED
    BY <2>1, <2>2, <2>3, <2>4 DEF IsJob
<1>8. DOMAIN j = Fields /\ SameRequest(j, job)
  BY <1>1 DEF Fields, SameRequest
<1> HIDE DEF j
<1> QED
  BY <1>2, <1>3, <1>4, <1>5, <1>6, <1>7, <1>8

LEMMA VisitKeepsTypes == ASSUME Typed, Visit PROVE Typed'
<1>1. /\ IsJob(job) /\ DOMAIN job = Fields /\ job.since <= writes
      /\ pc = "visit"
  BY Remembered DEF Visit
<1>2. CASE Fresh = {} /\ Goto("walk", [job EXCEPT !.pending = {}])
  <2> DEFINE m == [job EXCEPT !.pending = {}]
  <2>1. IsJob(m) /\ SameRequest(m, job)
    BY <1>1 DEF IsJob, Fields, Options, Gathered, Lists, SameRequest
  <2> QED
    BY <1>1, <1>2, <2>1, WalkMoves
<1>3. ASSUME NEW x \in Fresh,
             LET peer == Other(x, job.cur.id)
                 j == Visited(x)
             IN  \/ /\ job.kind = "path" /\ peer = job.target
                    /\ Goto("build", [j EXCEPT
                                        !.path = Append(job.cur.path, x),
                                        !.visited = {job.start}])
                 \/ /\ job.kind = "path" /\ peer # job.target
                    /\ Goto("visit", Passed(j, peer, x))
                 \/ /\ job.kind # "path"
                    /\ Goto("visit", IF Live(db, peer)
                                     THEN Reached(j, peer, x) ELSE j)
      PROVE  Typed'
  <2> DEFINE peer == Other(x, job.cur.id)
             j == Visited(x)
             n == job.cur.depth + 1
  <2>1. /\ x \in EdgeCopy /\ peer \in Ids /\ job.cur \in Item
        /\ job.cur.score \in Nat /\ job.cur.path \in Seq(EdgeCopy)
        /\ n \in Nat /\ IsJob(j) /\ DOMAIN j = Fields /\ SameRequest(j, job)
        /\ j.cur = job.cur
    <3>1. j.cur = job.cur
      BY <1>1 DEF Visited, Fields
    <3> HIDE DEF j
    <3> QED
      BY <1>1, <3>1, VisitedFacts DEF j
  <2>2. CASE /\ job.kind = "path"
             /\ Goto("build", [j EXCEPT !.path = Append(job.cur.path, x),
                                        !.visited = {job.start}])
    <3> DEFINE p == Append(job.cur.path, x)
               m == [j EXCEPT !.path = p, !.visited = {job.start}]
    <3>1. Goto("build", m)
      BY <2>2
    <3>2. p \in Seq(EdgeCopy) /\ Len(p) = Len(job.cur.path) + 1
          /\ Len(job.cur.path) \in Nat
      BY <2>1
    <3>3. job.start \in Ids
      BY <1>1, <2>2, Remembered DEF Expected, Tracing
    <3> HIDE DEF p, j
    <3>4. IsJob(m)
      <4>1. DOMAIN m = Fields
        BY <2>1, <3>2, <3>3 DEF IsJob
      <4>2. Options(m)
        BY <2>1, <3>2, <3>3 DEF IsJob, Fields, Options
      <4>3. Gathered(m)
        BY <2>1, <3>2, <3>3 DEF IsJob, Fields, Gathered
      <4>4. Lists(m)
        BY <2>1, <3>2, <3>3 DEF IsJob, Fields, Lists
      <4> QED
        BY <4>1, <4>2, <4>3, <4>4 DEF IsJob
    <3>5. m.kind = "path" /\ m.start = job.start /\ m.since = job.since
          /\ m.path = p /\ m.at = j.at
      BY <2>1, <2>2 DEF Fields, SameRequest
    <3>6. j.at = 1
      BY <1>1, <2>1, <2>2, Remembered DEF SameRequest, Expected, Tracks,
                                          HybridPhase, Expanding
    <3>7. Len(p) \in Nat /\ 1 \in 1..Len(p)
      BY <3>2
    <3> HIDE DEF m
    <3>8. Expected("build", m)
      BY <3>3, <3>5, <3>6, <3>7 DEF Expected, Tracing
    <3> QED
      BY <1>1, <3>1, <3>4, <3>5, <3>8, Moves DEF Locations
  <2>3. CASE job.kind = "path" /\ Goto("visit", Passed(j, peer, x))
    <3> DEFINE p == Append(job.cur.path, x)
               it == At(peer, n, 0, p)
               q == Append(j.queue, it)
               m == [j EXCEPT !.queue = q]
    <3>1. Goto("visit", m)
      BY <2>3 DEF Passed, Enqueue
    <3>2. it \in Item
      <4>1. p \in Seq(EdgeCopy)
        BY <2>1
      <4> HIDE DEF p
      <4> QED
        BY <2>1, <4>1 DEF At, Item
    <3>3. q \in Seq(Item)
      BY <2>1, <3>2 DEF IsJob, Lists
    <3> HIDE DEF q, j
    <3>4. IsJob(m)
      <4>1. DOMAIN m = Fields
        BY <2>1, <3>3 DEF IsJob, Fields
      <4>2. Options(m)
        BY <2>1, <3>3 DEF IsJob, Fields, Options
      <4>3. Gathered(m)
        BY <2>1, <3>3 DEF IsJob, Fields, Gathered
      <4>4. Lists(m)
        BY <2>1, <3>3 DEF IsJob, Fields, Lists
      <4> QED
        BY <4>1, <4>2, <4>3, <4>4 DEF IsJob
    <3>5. SameRequest(m, job) /\ m.cur = job.cur
      BY <2>1 DEF Fields, SameRequest
    <3> HIDE DEF m
    <3> QED
      BY <1>1, <2>1, <3>1, <3>4, <3>5, WalkMoves
  <2>4. CASE Goto("visit", j)
    <3> HIDE DEF j
    <3> QED
      BY <1>1, <2>1, <2>4, WalkMoves
  <2>5. CASE Goto("visit", Reached(j, peer, x))
    <3> DEFINE score == ExpansionScore(job.cur.score, x)
               it == At(peer, n, score, <<>>)
               q == Append(j.queue, it)
               rs == Append(j.results, Found(peer, score, n))
               ns == j.nodes \cup {peer}
               m == [j EXCEPT !.nodes = ns, !.results = rs, !.queue = q]
    <3>1. Goto("visit", m)
      BY <2>5 DEF Reached, Enqueue
    <3>2. score \in Nat
      BY <2>1, ExpansionScoreIsSmall
    <3> HIDE DEF score
    <3>3. it \in Item /\ Found(peer, score, n) \in Result
      <4>1. it \in Item
        BY <2>1, <3>2 DEF At, Item
      <4> QED
        BY <2>1, <3>2, <4>1, FoundIsAResult
    <3>4. q \in Seq(Item) /\ rs \in Seq(Result) /\ ns \in SUBSET Ids
      BY <2>1, <3>3 DEF IsJob, Lists, Gathered
    <3> HIDE DEF q, rs, ns, j
    <3>5. IsJob(m)
      <4>1. DOMAIN m = Fields
        BY <2>1, <3>4 DEF IsJob, Fields
      <4>2. Options(m)
        BY <2>1, <3>4 DEF IsJob, Fields, Options
      <4>3. Gathered(m)
        BY <2>1, <3>4 DEF IsJob, Fields, Gathered
      <4>4. Lists(m)
        BY <2>1, <3>4 DEF IsJob, Fields, Lists
      <4> QED
        BY <4>1, <4>2, <4>3, <4>4 DEF IsJob
    <3>6. SameRequest(m, job) /\ m.cur = job.cur
      BY <2>1 DEF Fields, SameRequest
    <3> HIDE DEF m
    <3> QED
      BY <1>1, <2>1, <3>1, <3>5, <3>6, WalkMoves
  <2> HIDE DEF j
  <2> QED
    BY <1>3, <2>2, <2>3, <2>4, <2>5 DEF j
<1> QED
  BY <1>2, <1>3, VisitIs

LEMMA EndWalkKeepsTypes == ASSUME Typed, EndWalk PROVE Typed'
<1>1. /\ IsJob(job) /\ DOMAIN job = Fields /\ job.since <= writes
      /\ Expected("walk", job)
  BY Remembered DEF EndWalk
<1>2. CASE job.kind = "path"
  <2>1. Goto("done", job)
    BY <1>2 DEF EndWalk
  <2>2. Expected("done", job)
    BY <1>1 DEF Expected
  <2> QED
    BY <1>1, <2>1, <2>2, Moves DEF Locations
<1>3. CASE job.kind # "path"
  <2> DEFINE m == [job EXCEPT !.at = 1]
  <2>1. Goto("enrich", m)
    BY <1>3 DEF EndWalk
  <2>2. IsJob(m)
    <3>1. DOMAIN m = Fields
      BY <1>1 DEF IsJob
    <3>2. Options(m)
      BY <1>1 DEF IsJob, Fields, Options
    <3>3. Gathered(m)
      BY <1>1 DEF IsJob, Fields, Gathered
    <3>4. Lists(m)
      BY <1>1 DEF IsJob, Fields, Lists
    <3> QED
      BY <3>1, <3>2, <3>3, <3>4 DEF IsJob
  <2>3. /\ m.kind = job.kind /\ m.since = job.since /\ m.phase = job.phase
        /\ m.start = job.start
    BY <1>1 DEF Fields
  <2> HIDE DEF m
  <2>4. Expected("enrich", m)
    BY <1>1, <1>3, <2>3 DEF Expected, Tracks, HybridPhase, Tracing, Expanding,
                            Searching
  <2> QED
    BY <1>1, <2>1, <2>2, <2>3, <2>4, Moves DEF Locations
<1> QED
  BY <1>2, <1>3

LEMMA BuildKeepsTypes == ASSUME Typed, Build PROVE Typed'
<1>1. /\ IsJob(job) /\ DOMAIN job = Fields /\ job.since <= writes
      /\ Expected("build", job)
  BY Remembered DEF Build
<1>2. /\ job.kind = "path" /\ job.start \in Ids /\ job.at \in 1..Len(job.path)
      /\ job.path \in Seq(EdgeCopy) /\ job.at \in Nat /\ Len(job.path) \in Nat
  BY <1>1 DEF Expected, Tracing, IsJob, Lists
<1> DEFINE hop == job.path[job.at]
           peer == IF hop.from \notin job.visited THEN hop.from ELSE hop.to
           v == job.visited \cup {peer}
           j == [job EXCEPT !.at = @ + 1, !.visited = v]
           ns == j.nodes \cup {peer}
           rs == Append(j.results, Found(peer, 0, job.at))
           es == j.edges \cup {job.path[n] : n \in 1..job.at}
           m == [j EXCEPT !.nodes = ns, !.results = rs, !.edges = es]
           l == IF job.at = Len(job.path) THEN "done" ELSE "build"
<1>3. Goto(l, m) \/ Goto(l, j)
  BY DEF Build
<1>4. /\ hop \in EdgeCopy
      /\ \A n \in 1..job.at : job.path[n] \in EdgeCopy
  BY <1>2
<1>5. peer \in Ids
  <2> HIDE DEF hop
  <2> QED
    BY <1>4 DEF EdgeCopy
<1>6. v \in SUBSET Ids
  BY <1>1, <1>5 DEF IsJob, Gathered
<1>7. IsJob(j)
  <2> HIDE DEF v
  <2> QED
    BY <1>1, <1>6 DEF IsJob, Fields, Options, Gathered, Lists
<1>8. /\ DOMAIN j = Fields /\ j.kind = "path" /\ j.since = job.since
      /\ j.start = job.start /\ j.at = job.at + 1 /\ j.path = job.path
  BY <1>1, <1>2 DEF Fields
<1> HIDE DEF j, peer
<1>9. ns \in SUBSET Ids /\ rs \in Seq(Result) /\ es \in SUBSET EdgeCopy
  <2>1. /\ j.nodes \in SUBSET Ids /\ j.results \in Seq(Result)
        /\ j.edges \in SUBSET EdgeCopy
    BY <1>7 DEF IsJob, Gathered, Lists
  <2>2. Found(peer, 0, job.at) \in Result
    BY <1>2, <1>5, FoundIsAResult
  <2> QED
    BY <1>4, <1>5, <2>1, <2>2
<1> HIDE DEF ns, rs, es
<1>10. IsJob(m)
  <2>1. DOMAIN m = Fields
    BY <1>7, <1>9 DEF IsJob, Fields
  <2>2. Options(m)
    BY <1>7, <1>9 DEF IsJob, Fields, Options
  <2>3. Gathered(m)
    BY <1>7, <1>9 DEF IsJob, Fields, Gathered
  <2>4. Lists(m)
    BY <1>7, <1>9 DEF IsJob, Fields, Lists
  <2> QED
    BY <2>1, <2>2, <2>3, <2>4 DEF IsJob
<1>11. /\ m.kind = "path" /\ m.since = job.since
       /\ m.start = job.start /\ m.at = job.at + 1 /\ m.path = job.path
  BY <1>8 DEF Fields
<1> HIDE DEF m
<1>12. l = "done" \/ (l = "build" /\ job.at + 1 \in 1..Len(job.path))
  BY <1>2
<1>13. l \in Locations
  BY DEF Locations
<1> HIDE DEF l
<1>14. Expected(l, j) /\ Expected(l, m)
  BY <1>2, <1>8, <1>11, <1>12 DEF Expected, Tracing
<1> QED
  BY <1>1, <1>3, <1>7, <1>8, <1>10, <1>11, <1>13, <1>14, Moves

\* Lists without repetitions, and the lists made from them.
Distinct(q) == \A k, l \in DOMAIN q : k # l => q[k] # q[l]

DistinctIds(rs) == \A k, l \in DOMAIN rs : k # l => rs[k].id # rs[l].id

Descending(rs) ==
    \A k, l \in DOMAIN rs : k < l => rs[k].score >= rs[l].score

LEMMA IdsAreFinite ==
    ASSUME NEW ids \in SUBSET Ids
    PROVE  IsFiniteSet(ids) /\ Cardinality(ids) \in Nat
<1>1. IsFiniteSet(ids)
  BY ReadsAssumption, FS_Subset
<1> QED
  BY <1>1, FS_CardinalityType

LEMMA RankingFacts ==
    ASSUME NEW ids \in SUBSET Ids, NEW score, NEW q \in Rankings(ids, score)
    PROVE  /\ q \in Seq(Ids) /\ Len(q) = Cardinality(ids) /\ Distinct(q)
           /\ \A k \in DOMAIN q : q[k] \in ids
           /\ \A i \in ids : \E k \in DOMAIN q : q[k] = i
           /\ \A k, l \in DOMAIN q : k < l => score[q[k]] >= score[q[l]]
<1> DEFINE L == Cardinality(ids)
<1>1. L \in Nat /\ IsFiniteSet(ids)
  BY IdsAreFinite
<1>2. /\ q \in [1..L -> ids] /\ Distinct(q)
      /\ \A k, l \in DOMAIN q : k < l => score[q[k]] >= score[q[l]]
  BY DEF Rankings, Distinct
<1>3. ASSUME NEW i \in ids PROVE \E k \in DOMAIN q : q[k] = i
  <2> SUFFICES ASSUME \A k \in 1..L : q[k] # i PROVE FALSE
    BY <1>2
  <2> DEFINE T == ids \ {i}
  <2>1. IsFiniteSet(T) /\ Cardinality(T) = L - 1
    BY <1>1, <1>3, FS_RemoveElement
  <2>2. IsFiniteSet(1..L) /\ Cardinality(1..L) = L
    BY <1>1, FS_Interval
  <2>3. q \in [1..L -> T]
    BY <1>2
  <2> HIDE DEF T, L
  <2>4. \E k, l \in 1..L : k # l /\ q[k] = q[l]
    BY <1>1, <2>1, <2>2, <2>3, FS_PigeonHole
  <2> QED
    BY <1>2, <2>4 DEF Distinct
<1> HIDE DEF L
<1>4. q \in Seq(Ids) /\ Len(q) = L
  BY <1>1, <1>2
<1> QED
  BY <1>2, <1>3, <1>4 DEF L

\* The scope has live entries only.
LEMMA ScopeIsLive ==
    InScope \in SUBSET Ids /\ \A i \in InScope : Live(db, i)
  BY DEF InScope, ListPrefix

LEMMA OrDefaultIsPositive ==
    ASSUME NEW limit \in Nat
    PROVE  OrDefault(limit) \in Nat \ {0}
  BY ReadsAssumption DEF OrDefault

LEMMA BestFacts ==
    ASSUME NEW scores, NEW limit \in Nat, NEW q \in Best(scores, limit)
    PROVE  /\ q \in Seq(Ids) /\ Distinct(q)
           /\ \A k \in DOMAIN q : q[k] \in InScope /\ scores[q[k]] > 0
           /\ \A k, l \in DOMAIN q : k < l => scores[q[k]] >= scores[q[l]]
<1> DEFINE ids == {i \in InScope : scores[i] > 0}
<1>1. PICK r \in Rankings(ids, scores) : q = Cut(r, limit)
  BY DEF Best
<1>2. ids \in SUBSET Ids
  BY ScopeIsLive
<1> HIDE DEF ids
<1>3. /\ r \in Seq(Ids) /\ Distinct(r)
      /\ \A k \in DOMAIN r : r[k] \in ids
      /\ \A k, l \in DOMAIN r : k < l => scores[r[k]] >= scores[r[l]]
  BY <1>2, RankingFacts
<1>4. /\ q \in Seq(Ids) /\ Len(q) <= Len(r)
      /\ \A k \in 1..Len(q) : q[k] = r[k]
  BY <1>1, <1>3, CutFacts
<1>5. DOMAIN q \subseteq DOMAIN r /\ \A k \in DOMAIN q : q[k] = r[k]
  BY <1>3, <1>4
<1> QED
  BY <1>3, <1>4, <1>5 DEF Distinct, ids

LEMMA SearchBegins ==
    ASSUME Typed, NEW j, IsJob(j), j.since <= writes,
           \/ /\ StartVector(j)
              /\ j.kind \in {"vector", "resolve"} \cup Expanding
           \/ /\ StartText(j)
              /\ j.kind \in {"text", "search"} \cup Expanding
    PROVE  Typed'
<1>1. OrDefault(j.limit) \in Nat /\ DOMAIN j = Fields
  BY OrDefaultIsPositive DEF IsJob, Options
<1>2. CASE /\ StartVector(j)
           /\ j.kind \in {"vector", "resolve"} \cup Expanding
  <2>1. PICK q \in Best(Similarity, OrDefault(j.limit)) :
          Goto("fetch", [j EXCEPT !.phase = "vector", !.ranked = q])
    BY <1>2 DEF StartVector
  <2> DEFINE m == [j EXCEPT !.phase = "vector", !.ranked = q]
  <2>2. q \in Seq(Ids) /\ Goto("fetch", m)
    BY <1>1, <2>1, BestFacts
  <2>3. IsJob(m)
    <3>1. DOMAIN m = Fields
      BY <2>2 DEF IsJob, Fields
    <3>2. Options(m)
      BY <2>2 DEF IsJob, Fields, Options
    <3>3. Gathered(m)
      BY <2>2 DEF IsJob, Fields, Gathered
    <3>4. Lists(m)
      BY <2>2 DEF IsJob, Fields, Lists
    <3> QED
      BY <3>1, <3>2, <3>3, <3>4 DEF IsJob
  <2>4. m.kind = j.kind /\ m.since = j.since /\ m.phase = "vector"
    BY <1>1 DEF Fields
  <2> HIDE DEF m
  <2>5. Expected("fetch", m)
    BY <1>2, <2>4 DEF Expected, VectorPhase, Searching, Tracing, Expanding
  <2> QED
    BY <2>2, <2>3, <2>4, <2>5, Moves DEF Locations
<1>3. CASE /\ StartText(j)
           /\ j.kind \in {"text", "search"} \cup Expanding
  <2>1. PICK q \in Best(Relevance, OrDefault(j.limit)) :
          Goto("fetch", [j EXCEPT !.phase = "text", !.ranked = q])
    BY <1>3 DEF StartText
  <2> DEFINE m == [j EXCEPT !.phase = "text", !.ranked = q]
  <2>2. q \in Seq(Ids) /\ Goto("fetch", m)
    BY <1>1, <2>1, BestFacts
  <2>3. IsJob(m)
    <3>1. DOMAIN m = Fields
      BY <2>2 DEF IsJob, Fields
    <3>2. Options(m)
      BY <2>2 DEF IsJob, Fields, Options
    <3>3. Gathered(m)
      BY <2>2 DEF IsJob, Fields, Gathered
    <3>4. Lists(m)
      BY <2>2 DEF IsJob, Fields, Lists
    <3> QED
      BY <3>1, <3>2, <3>3, <3>4 DEF IsJob
  <2>4. m.kind = j.kind /\ m.since = j.since /\ m.phase = "text"
    BY <1>1 DEF Fields
  <2> HIDE DEF m
  <2>5. Expected("fetch", m)
    BY <1>3, <2>4 DEF Expected, TextPhase, Searching, Tracing, Expanding
  <2> QED
    BY <2>2, <2>3, <2>4, <2>5, Moves DEF Locations
<1> QED
  BY <1>2, <1>3

\* What a search starts from.
Asking(j) ==
    /\ IsJob(j) /\ j.since = writes
    /\ j.results = <<>> /\ j.vector = <<>> /\ j.seeds = <<>> /\ j.visited = {}
    /\ j.queue = <<>> /\ j.dir = "both" /\ j.types = {} /\ j.phase = "none"
    /\ j.kind \in Expanding => j.depth > 0
    /\ j.kind \in {"resolve"} \cup Expanding => ~j.strict
    /\ j.kind = "recall" => /\ j.text
                            /\ j.limit = FetchLimit(j.total, j.wanted)
    /\ j.kind = "resolve" => /\ j.recency = 0 /\ j.limit = SimilarLimit
                             /\ j.argument \in Arguments
    /\ \/ j.kind \in {"vector", "resolve"} \cup Expanding /\ StartVector(j)
       \/ j.kind \in {"text", "search"} /\ StartText(j)
       \/ j.kind = "resolve" /\ Goto("list", j)

LEMMA SearchesAsk ==
    ASSUME Typed,
           \/ SearchVector \/ SearchText \/ HandleSearch \/ SearchHybrid
           \/ Recall \/ ResolveEntry
    PROVE  \E j : Asking(j)
<1>1. /\ Limits \in SUBSET Nat /\ Recencies \in SUBSET (0..1000)
      /\ Filters \in SUBSET SUBSET Ids /\ Depths \in SUBSET (Nat \ {0})
  BY ReadsAssumption
<1> DEFINE Blank(a, kind) ==
      /\ IsJob(a) /\ DOMAIN a = Fields /\ a.kind = kind /\ a.since = writes
      /\ a.results = <<>> /\ a.vector = <<>> /\ a.seeds = <<>>
      /\ a.visited = {} /\ a.queue = <<>> /\ a.dir = "both" /\ a.types = {}
      /\ a.phase = "none"
      /\ kind # "text" => ~a.strict
<1>2. ASSUME NEW kind \in Kinds PROVE Blank(New(kind), kind)
  BY NewIsAJob DEF Untouched
<1>3. CASE SearchVector
  <2>1. PICK limit \in Limits, w \in Recencies, wanted \in Filters :
          StartVector([New("vector") EXCEPT
                         !.limit = limit, !.recency = w, !.wanted = wanted])
    BY <1>3 DEF SearchVector
  <2> DEFINE a == New("vector")
             j == [a EXCEPT !.limit = limit, !.recency = w, !.wanted = wanted]
  <2>2. Blank(a, "vector")
    BY <1>2, <1>3 DEF SearchVector, Begin
  <2>3. /\ limit \in Nat /\ w \in 0..1000 /\ wanted \in SUBSET Ids
        /\ StartVector(j)
    BY <1>1, <2>1
  <2> HIDE DEF a
  <2>4. IsJob(j)
    <3>1. DOMAIN j = Fields
      BY <2>2, <2>3 DEF IsJob
    <3>2. Options(j)
      BY <2>2, <2>3 DEF IsJob, Fields, Options
    <3>3. Gathered(j)
      BY <2>2, <2>3 DEF IsJob, Fields, Gathered
    <3>4. Lists(j)
      BY <2>2, <2>3 DEF IsJob, Fields, Lists
    <3> QED
      BY <3>1, <3>2, <3>3, <3>4 DEF IsJob
  <2>5. Blank(j, "vector")
    BY <2>2, <2>4 DEF Fields
  <2> HIDE DEF j
  <2> QED
    BY <2>3, <2>5 DEF Asking, Expanding
<1>8. CASE SearchText
  <2>1. PICK limit \in Limits, w \in Recencies, wanted \in Filters,
             strict \in BOOLEAN :
          StartText([New("text") EXCEPT
                       !.limit = limit, !.recency = w, !.wanted = wanted,
                       !.strict = strict])
    BY <1>8 DEF SearchText
  <2> DEFINE a == New("text")
             j == [a EXCEPT !.limit = limit, !.recency = w, !.wanted = wanted,
                            !.strict = strict]
  <2>2. Blank(a, "text")
    BY <1>2, <1>8 DEF SearchText, Begin
  <2>3. /\ limit \in Nat /\ w \in 0..1000 /\ wanted \in SUBSET Ids
        /\ strict \in BOOLEAN /\ StartText(j)
    BY <1>1, <2>1
  <2> HIDE DEF a
  <2>4. IsJob(j)
    <3>1. DOMAIN j = Fields
      BY <2>2, <2>3 DEF IsJob
    <3>2. Options(j)
      BY <2>2, <2>3 DEF IsJob, Fields, Options
    <3>3. Gathered(j)
      BY <2>2, <2>3 DEF IsJob, Fields, Gathered
    <3>4. Lists(j)
      BY <2>2, <2>3 DEF IsJob, Fields, Lists
    <3> QED
      BY <3>1, <3>2, <3>3, <3>4 DEF IsJob
  <2>5. Blank(j, "text")
    BY <2>2, <2>4 DEF Fields
  <2> HIDE DEF j
  <2> QED
    BY <2>3, <2>5 DEF Asking, Expanding
<1>4. CASE HandleSearch
  <2>1. PICK limit \in Limits \ {0} : StartText([New("search") EXCEPT !.limit = limit])
    BY <1>4 DEF HandleSearch
  <2> DEFINE a == New("search")
             j == [a EXCEPT !.limit = limit]
  <2>2. Blank(a, "search")
    BY <1>2, <1>4 DEF HandleSearch, Begin
  <2>3. limit \in Nat /\ StartText(j)
    BY <1>1, <2>1
  <2> HIDE DEF a
  <2>4. IsJob(j)
    <3>1. DOMAIN j = Fields
      BY <2>2, <2>3 DEF IsJob, Fields
    <3>2. Options(j)
      BY <2>2, <2>3 DEF IsJob, Fields, Options
    <3>3. Gathered(j)
      BY <2>2, <2>3 DEF IsJob, Fields, Gathered
    <3>4. Lists(j)
      BY <2>2, <2>3 DEF IsJob, Fields, Lists
    <3> QED
      BY <3>1, <3>2, <3>3, <3>4 DEF IsJob
  <2>5. Blank(j, "search")
    BY <2>2, <2>4 DEF Fields
  <2> HIDE DEF j
  <2> QED
    BY <2>3, <2>5 DEF Asking, Expanding
<1>5. CASE SearchHybrid
  <2>1. PICK limit \in Limits, w \in Recencies, wanted \in Filters,
             n \in Depths, text \in BOOLEAN :
          StartVector([New("hybrid") EXCEPT
                         !.limit = limit, !.recency = w, !.wanted = wanted,
                         !.depth = n, !.text = text])
    BY <1>5 DEF SearchHybrid
  <2> DEFINE a == New("hybrid")
             j == [a EXCEPT !.limit = limit, !.recency = w, !.wanted = wanted,
                            !.depth = n, !.text = text]
  <2>2. Blank(a, "hybrid")
    BY <1>2, <1>5 DEF SearchHybrid, Begin
  <2>3. /\ limit \in Nat /\ w \in 0..1000 /\ wanted \in SUBSET Ids
        /\ n \in Nat \ {0} /\ StartVector(j)
    BY <1>1, <2>1
  <2> HIDE DEF a
  <2>4. IsJob(j)
    <3>1. DOMAIN j = Fields
      BY <2>2, <2>3 DEF IsJob
    <3>2. Options(j)
      BY <2>2, <2>3 DEF IsJob, Fields, Options
    <3>3. Gathered(j)
      BY <2>2, <2>3 DEF IsJob, Fields, Gathered
    <3>4. Lists(j)
      BY <2>2, <2>3 DEF IsJob, Fields, Lists
    <3> QED
      BY <3>1, <3>2, <3>3, <3>4 DEF IsJob
  <2>5. Blank(j, "hybrid") /\ j.depth > 0
    BY <2>2, <2>3, <2>4 DEF Fields
  <2> HIDE DEF j
  <2> QED
    BY <2>3, <2>5 DEF Asking, Expanding
<1>6. CASE Recall
  <2>1. PICK limit \in Limits, w \in Recencies, wanted \in Filters,
             n \in Depths, keep \in BOOLEAN :
          StartVector([New("recall") EXCEPT
                         !.limit = FetchLimit(limit, wanted),
                         !.total = limit, !.recency = w, !.wanted = wanted,
                         !.depth = n, !.text = TRUE, !.keep = keep])
    BY <1>6 DEF Recall
  <2> DEFINE a == New("recall")
             f == FetchLimit(limit, wanted)
             j == [a EXCEPT !.limit = f, !.total = limit, !.recency = w,
                            !.wanted = wanted, !.depth = n, !.text = TRUE,
                            !.keep = keep]
  <2>2. Blank(a, "recall")
    BY <1>2, <1>6 DEF Recall, Begin
  <2>3. /\ limit \in Nat /\ w \in 0..1000 /\ wanted \in SUBSET Ids
        /\ n \in Nat \ {0} /\ StartVector(j)
    BY <1>1, <2>1
  <2>4. f \in Nat /\ f = FetchLimit(limit, wanted)
    BY <2>3 DEF FetchLimit
  <2> HIDE DEF a, f
  <2>5. IsJob(j)
    <3>1. DOMAIN j = Fields
      BY <2>2, <2>3, <2>4 DEF IsJob
    <3>2. Options(j)
      BY <2>2, <2>3, <2>4 DEF IsJob, Fields, Options
    <3>3. Gathered(j)
      BY <2>2, <2>3, <2>4 DEF IsJob, Fields, Gathered
    <3>4. Lists(j)
      BY <2>2, <2>3, <2>4 DEF IsJob, Fields, Lists
    <3> QED
      BY <3>1, <3>2, <3>3, <3>4 DEF IsJob
  <2>6. Blank(j, "recall") /\ j.depth > 0
    BY <2>2, <2>3, <2>5 DEF Fields
  <2>7. j.text /\ j.total = limit /\ j.wanted = wanted /\ j.limit = f
    BY <2>2 DEF Fields
  <2> HIDE DEF j
  <2>8. j.limit = FetchLimit(j.total, j.wanted)
    BY <2>4, <2>7
  <2> QED
    BY <2>3, <2>6, <2>7, <2>8 DEF Asking, Expanding
<1>7. CASE ResolveEntry
  <2>1. PICK argument \in Arguments :
          LET j == [New("resolve") EXCEPT !.argument = argument,
                                          !.limit = SimilarLimit]
          IN  StartVector(j) \/ Goto("list", j)
    BY <1>7 DEF ResolveEntry
  <2> DEFINE a == New("resolve")
             j == [a EXCEPT !.argument = argument, !.limit = SimilarLimit]
  <2>2. Blank(a, "resolve") /\ a.recency = 0
    <3>1. Blank(a, "resolve")
      BY <1>2, <1>7 DEF ResolveEntry, Begin
    <3>2. a.recency = 0
      BY DEF New, NoJob
    <3> QED
      BY <3>1, <3>2
  <2>3. /\ argument \in Argument \cap Arguments /\ SimilarLimit \in Nat
        /\ StartVector(j) \/ Goto("list", j)
    BY <2>1, ReadsAssumption
  <2> HIDE DEF a
  <2>4. IsJob(j)
    <3>1. DOMAIN j = Fields
      BY <2>2, <2>3 DEF IsJob
    <3>2. Options(j)
      BY <2>2, <2>3 DEF IsJob, Fields, Options
    <3>3. Gathered(j)
      BY <2>2, <2>3 DEF IsJob, Fields, Gathered
    <3>4. Lists(j)
      BY <2>2, <2>3 DEF IsJob, Fields, Lists
    <3> QED
      BY <3>1, <3>2, <3>3, <3>4 DEF IsJob
  <2>5. Blank(j, "resolve")
    BY <2>2, <2>4 DEF Fields
  <2>6. j.recency = 0 /\ j.limit = SimilarLimit /\ j.argument \in Arguments
    BY <2>2, <2>3 DEF Fields
  <2> HIDE DEF j
  <2> QED
    BY <2>3, <2>5, <2>6 DEF Asking, Expanding
<1> QED
  BY <1>3, <1>4, <1>5, <1>6, <1>7, <1>8

LEMMA SearchesBegin ==
    ASSUME Typed,
           \/ SearchVector \/ SearchText \/ HandleSearch \/ SearchHybrid
           \/ Recall \/ ResolveEntry
    PROVE  Typed'
<1>1. PICK j : Asking(j)
  BY SearchesAsk
<1>2. IsJob(j) /\ j.since <= writes
  BY <1>1, WritesAreCounted DEF Asking
<1>3. CASE j.kind = "resolve" /\ Goto("list", j)
  <2>1. Expected("list", j)
    BY <1>3 DEF Expected, Tracing, Searching
  <2> QED
    BY <1>2, <1>3, <2>1, Moves DEF Locations
<1> QED
  BY <1>1, <1>2, <1>3, SearchBegins DEF Asking

OneMore(limit) == IF limit > 0 THEN limit + 1 ELSE 0

\* A listing: the newest entries, and whether there are more.
Listing(j) ==
    /\ IsJob(j) /\ j.since = writes /\ j.kind = "scope" /\ Goto("done", j)
    /\ \E listed \in NewestFirst(InScope \cap j.wanted) :
         LET fetched == Cut(listed, OneMore(j.total))
             shown == Cut(fetched, j.total)
         IN  /\ j.more = (j.total > 0 /\ Len(fetched) > j.total)
             /\ j.results = [n \in DOMAIN shown |-> Found(shown[n], 0, 0)]

LEMMA ScopeAsks == ASSUME Typed, RecallByScope PROVE \E j : Listing(j)
<1>1. Limits \in SUBSET Nat /\ Filters \in SUBSET SUBSET Ids
  BY ReadsAssumption
<1>2. PICK limit \in Limits, wanted \in Filters :
        \E listed \in NewestFirst(InScope \cap wanted) :
          LET fetched == Cut(listed, OneMore(limit))
              shown == Cut(fetched, limit)
          IN  Goto("done",
                   [New("scope") EXCEPT
                      !.total = limit, !.wanted = wanted,
                      !.more = limit > 0 /\ Len(fetched) > limit,
                      !.results = [n \in DOMAIN shown |->
                                     Found(shown[n], 0, 0)]])
  BY DEF RecallByScope, OneMore
<1>3. PICK listed \in NewestFirst(InScope \cap wanted) :
        LET fetched == Cut(listed, OneMore(limit))
            shown == Cut(fetched, limit)
        IN  Goto("done",
                 [New("scope") EXCEPT
                    !.total = limit, !.wanted = wanted,
                    !.more = limit > 0 /\ Len(fetched) > limit,
                    !.results = [n \in DOMAIN shown |->
                                   Found(shown[n], 0, 0)]])
  BY <1>2
<1> DEFINE a == New("scope")
           fetched == Cut(listed, OneMore(limit))
           shown == Cut(fetched, limit)
           more == limit > 0 /\ Len(fetched) > limit
           rs == [n \in DOMAIN shown |-> Found(shown[n], 0, 0)]
           j == [a EXCEPT !.total = limit, !.wanted = wanted,
                          !.more = more, !.results = rs]
<1>4. "scope" \in Kinds
  BY DEF RecallByScope, Begin
<1>5. IsJob(a) /\ DOMAIN a = Fields /\ a.kind = "scope" /\ a.since = writes
  BY <1>4, NewIsAJob
<1>6. limit \in Nat /\ wanted \in SUBSET Ids /\ Goto("done", j)
  BY <1>1, <1>3
<1>7. listed \in Seq(Ids)
  <2>1. InScope \cap wanted \in SUBSET Ids
    BY ScopeIsLive
  <2> QED
    BY <2>1, RankingFacts DEF NewestFirst
<1>8. fetched \in Seq(Ids)
  BY <1>6, <1>7, CutFacts DEF OneMore
<1> HIDE DEF fetched
<1>9. shown \in Seq(Ids)
  BY <1>6, <1>8, CutFacts
<1> HIDE DEF shown
<1>10. rs \in Seq(Result)
  <2>1. Len(shown) \in Nat /\ DOMAIN shown = 1..Len(shown)
        /\ \A n \in DOMAIN shown : shown[n] \in Ids
    BY <1>9
  <2>2. rs \in [1..Len(shown) -> Result]
    BY <2>1, FoundIsAResult
  <2> QED
    BY <2>1, <2>2
<1>11. more \in BOOLEAN
  OBVIOUS
<1> HIDE DEF a, rs, more
<1>12. IsJob(j)
  <2>1. DOMAIN j = Fields
    BY <1>5, <1>6, <1>10, <1>11 DEF IsJob, Fields
  <2>2. Options(j)
    BY <1>5, <1>6, <1>10, <1>11 DEF IsJob, Fields, Options
  <2>3. Gathered(j)
    BY <1>5, <1>6, <1>10, <1>11 DEF IsJob, Fields, Gathered
  <2>4. Lists(j)
    BY <1>5, <1>6, <1>10, <1>11 DEF IsJob, Fields, Lists
  <2> QED
    BY <2>1, <2>2, <2>3, <2>4 DEF IsJob
<1>13. /\ j.kind = "scope" /\ j.since = writes /\ j.total = limit
       /\ j.wanted = wanted /\ j.more = more /\ j.results = rs
  BY <1>5 DEF Fields
<1> HIDE DEF j
<1>14. /\ j.more = (/\ j.total > 0
                    /\ Len(Cut(listed, OneMore(j.total))) > j.total)
       /\ LET seen == Cut(Cut(listed, OneMore(j.total)), j.total)
          IN  j.results = [n \in DOMAIN seen |-> Found(seen[n], 0, 0)]
  BY <1>13 DEF more, rs, fetched, shown
<1> QED
  BY <1>3, <1>6, <1>12, <1>13, <1>14 DEF Listing

LEMMA ScopeBegins == ASSUME Typed, RecallByScope PROVE Typed'
<1>1. PICK j : Listing(j)
  BY ScopeAsks
<1>2. Expected("done", j) /\ j.since <= writes
  BY <1>1, WritesAreCounted DEF Listing, Expected, Tracing
<1> QED
  BY <1>1, <1>2, Moves DEF Listing, Locations

LEMMA MatchKeepsTypes == ASSUME Typed, Match PROVE Typed'
<1>1. /\ IsJob(job) /\ job.since <= writes /\ Expected("match", job)
      /\ StartText(job)
  BY Remembered DEF Match
<1>2. job.kind \in {"text", "search"} \cup Expanding
  BY <1>1 DEF Expected
<1> QED
  BY <1>1, <1>2, SearchBegins

LEMMA BlendIsNatural ==
    ASSUME NEW own \in Nat, NEW f \in Nat, NEW w \in Thousandths
    PROVE  BlendScore(own, f, w) \in Nat
<1> DEFINE u == 1000 - w
<1>1. w \in Nat /\ u \in Nat
  BY DEF Thousandths
<1> HIDE DEF u
<1>2. u * own \in Nat
  BY <1>1
<1>3. w * f \in Nat
  BY <1>1
<1> DEFINE n == u * own + w * f
<1>4. n \in Nat
  BY <1>2, <1>3
<1> HIDE DEF n
<1>5. n \div 1000 \in Nat
  BY <1>4
<1> QED
  BY <1>5 DEF BlendScore, n, u

LEMMA ScoreIsNatural ==
    ASSUME NEW j, IsJob(j), NEW i \in Ids PROVE Score(j, i) \in Nat
<1>1. j.recency \in 0..1000
  BY DEF IsJob, Options
<1>2. /\ Similarity[i] \in Nat /\ Relevance[i] \in Nat /\ Freshness[i] \in Nat
  BY ReadsAssumption
<1>3. BM25ToScore(Relevance[i]) \in Nat
  <2> DEFINE r == Relevance[i]
  <2>1. CASE r = 0
    BY <2>1 DEF BM25ToScore
  <2>2. CASE r # 0
    <3>1. 1 + r \in Nat /\ 1 + r > 0
      BY <1>2
    <3>2. 10000 \div (1 + r) \in Nat
      BY <3>1
    <3> QED
      BY <2>2, <3>2 DEF BM25ToScore
  <2> QED
    BY <2>1, <2>2
<1>4. ASSUME NEW own \in Nat
      PROVE  BlendScore(own, Freshness[i], j.recency) \in Nat
  <2> DEFINE f == Freshness[i]
             w == j.recency
  <2>1. f \in Nat /\ w \in Thousandths
    BY <1>1, <1>2 DEF Thousandths
  <2> HIDE DEF f, w
  <2>2. BlendScore(own, f, w) \in Nat
    BY <2>1, BlendIsNatural, Zenon
  <2> QED
    BY <2>2 DEF f, w
<1> QED
  BY <1>2, <1>3, <1>4 DEF Score

\* The first pass finds rows; the second one scores those that are left.
Rows(j) == Among(j.ranked, {i \in Ids : Kept(j, i)})
FoundIn(j) == [n \in DOMAIN Rows(j) |-> Found(Rows(j)[n], Score(j, Rows(j)[n]), 0)]

LEMMA FetchFacts ==
    ASSUME NEW j, IsJob(j)
    PROVE  /\ Rows(j) \in Seq(Ids) /\ FoundIn(j) \in Seq(Result)
           /\ DOMAIN FoundIn(j) = DOMAIN Rows(j)
           /\ \A n \in DOMAIN FoundIn(j) :
                /\ FoundIn(j)[n].id = Rows(j)[n]
                /\ FoundIn(j)[n].score = Score(j, Rows(j)[n])
                /\ FoundIn(j)[n].depth = 0
           /\ \E f : /\ Picks(Rows(j), j.ranked,
                              {n \in DOMAIN j.ranked :
                                 j.ranked[n] \in {i \in Ids : Kept(j, i)}}, f)
                     /\ \A k, l \in DOMAIN Rows(j) : k < l <=> f[k] < f[l]
<1> DEFINE I == {n \in DOMAIN j.ranked :
                   j.ranked[n] \in {i \in Ids : Kept(j, i)}}
           rows == Rows(j)
           found == FoundIn(j)
<1>1. j.ranked \in Seq(Ids) /\ I \in SUBSET DOMAIN j.ranked
  BY DEF IsJob, Lists
<1>2. rows = Sublist(j.ranked, I)
  BY DEF Rows, Among
<1> HIDE DEF I
<1>3. /\ rows \in Seq(Ids)
      /\ \E f : /\ Picks(rows, j.ranked, I, f)
                /\ \A k, l \in DOMAIN rows : k < l <=> f[k] < f[l]
  BY <1>1, <1>2, SublistFacts
<1>4. found = [n \in DOMAIN rows |-> Found(rows[n], Score(j, rows[n]), 0)]
  BY DEF FoundIn
<1> HIDE DEF rows, found
<1>5. Len(rows) \in Nat /\ DOMAIN rows = 1..Len(rows)
      /\ \A n \in DOMAIN rows : rows[n] \in Ids
  BY <1>3
<1>6. \A n \in DOMAIN rows : Score(j, rows[n]) \in Nat
  BY <1>5, ScoreIsNatural
<1>7. found \in [1..Len(rows) -> Result]
  BY <1>4, <1>5, <1>6, FoundIsAResult
<1>8. found \in Seq(Result) /\ DOMAIN found = DOMAIN rows
  BY <1>5, <1>7
<1>9. \A n \in DOMAIN found : /\ found[n].id = rows[n]
                              /\ found[n].score = Score(j, rows[n])
                              /\ found[n].depth = 0
  BY <1>4 DEF Found
<1> QED
  BY <1>3, <1>8, <1>9 DEF rows, found, I

LEMMA FetchKeepsTypes == ASSUME Typed, Fetch PROVE Typed'
<1> DEFINE rs == IF job.recency > 0 THEN SortByScore(FoundIn(job))
                                    ELSE FoundIn(job)
           m == [job EXCEPT !.ranked = <<>>, !.at = 1, !.results = rs]
<1>1. /\ IsJob(job) /\ DOMAIN job = Fields /\ job.since <= writes
      /\ Expected("fetch", job)
  BY Remembered DEF Fetch
<1>2. Goto("enrich", m)
  BY DEF Fetch, FoundIn, Rows
<1>3. rs \in Seq(Result)
  BY <1>1, FetchFacts, SortByScoreFacts
<1> HIDE DEF rs
<1>4. IsJob(m)
  <2>1. DOMAIN m = Fields
    BY <1>1, <1>3 DEF IsJob
  <2>2. Options(m)
    BY <1>1, <1>3 DEF IsJob, Fields, Options
  <2>3. Gathered(m)
    BY <1>1, <1>3 DEF IsJob, Fields, Gathered
  <2>4. Lists(m)
    BY <1>1, <1>3 DEF IsJob, Fields, Lists
  <2> QED
    BY <2>1, <2>2, <2>3, <2>4 DEF IsJob
<1>5. m.kind = job.kind /\ m.since = job.since /\ m.phase = job.phase
  BY <1>1 DEF Fields
<1> HIDE DEF m
<1>6. VectorPhase(m) \/ TextPhase(m)
  BY <1>1, <1>5 DEF Expected, VectorPhase, TextPhase
<1>7. Expected("enrich", m)
  BY <1>6 DEF Expected, VectorPhase, TextPhase, Searching, Tracing, Expanding
<1> QED
  BY <1>1, <1>2, <1>4, <1>5, <1>7, Moves DEF Locations

\* One result of a list is marked.
LEMMA MarkedResults ==
    ASSUME NEW rs \in Seq(Result), NEW n \in DOMAIN rs, NEW b \in BOOLEAN
    PROVE  /\ [rs EXCEPT ![n].conflict = b] \in Seq(Result)
           /\ [rs EXCEPT ![n].superseded = b] \in Seq(Result)
           /\ \A k \in DOMAIN rs :
                /\ [rs EXCEPT ![n].conflict = b][k].id = rs[k].id
                /\ [rs EXCEPT ![n].conflict = b][k].score = rs[k].score
                /\ [rs EXCEPT ![n].conflict = b][k].depth = rs[k].depth
                /\ [rs EXCEPT ![n].superseded = b][k].id = rs[k].id
                /\ [rs EXCEPT ![n].superseded = b][k].score = rs[k].score
                /\ [rs EXCEPT ![n].superseded = b][k].depth = rs[k].depth
<1> DEFINE r == rs[n]
           c == [r EXCEPT !.conflict = b]
           s == [r EXCEPT !.superseded = b]
<1>1. r \in Result
  OBVIOUS
<1>2. /\ c \in Result /\ c.id = r.id /\ c.score = r.score /\ c.depth = r.depth
      /\ s \in Result /\ s.id = r.id /\ s.score = r.score /\ s.depth = r.depth
  <2> HIDE DEF r
  <2> QED
    BY <1>1 DEF Result
<1> HIDE DEF c, s
<1>3. /\ [rs EXCEPT ![n] = c] \in Seq(Result)
      /\ [rs EXCEPT ![n] = s] \in Seq(Result)
  BY <1>2
<1>4. \A k \in DOMAIN rs :
        /\ [rs EXCEPT ![n] = c][k] = IF k = n THEN c ELSE rs[k]
        /\ [rs EXCEPT ![n] = s][k] = IF k = n THEN s ELSE rs[k]
  OBVIOUS
<1>5. \A k \in DOMAIN rs :
        /\ [rs EXCEPT ![n] = c][k].id = rs[k].id
        /\ [rs EXCEPT ![n] = c][k].score = rs[k].score
        /\ [rs EXCEPT ![n] = c][k].depth = rs[k].depth
        /\ [rs EXCEPT ![n] = s][k].id = rs[k].id
        /\ [rs EXCEPT ![n] = s][k].score = rs[k].score
        /\ [rs EXCEPT ![n] = s][k].depth = rs[k].depth
  BY <1>2, <1>4
<1> QED
  BY <1>3, <1>5 DEF c, s, r

LEMMA MarksKeepTypes == ASSUME Typed, Enrich \/ Supersede PROVE Typed'
<1>1. /\ IsJob(job) /\ DOMAIN job = Fields /\ job.since <= writes
      /\ Expected(pc, job)
  BY Remembered
<1>2. /\ job.results \in Seq(Result) /\ job.at \in Nat \ {0}
  BY <1>1 DEF IsJob, Lists
<1>3. job.at \in DOMAIN job.results /\ job.at + 1 \in Nat \ {0}
  BY <1>2 DEF Enrich, Supersede
<1>4. PICK rs \in Seq(Result) :
        /\ pc \in {"enrich", "supersede"}
        /\ Goto(pc, [job EXCEPT !.at = @ + 1, !.results = rs])
  <2>1. CASE Enrich
    <3> DEFINE b == \/ job.results[job.at].conflict
                    \/ FindConflicts(db, job.results[job.at].id) # {}
               rs == [job.results EXCEPT ![job.at].conflict = b]
    <3>1. Goto("enrich", [job EXCEPT !.at = @ + 1, !.results = rs])
          /\ pc = "enrich"
      BY <2>1 DEF Enrich
    <3>2. b \in BOOLEAN
      OBVIOUS
    <3> HIDE DEF b
    <3>3. rs \in Seq(Result)
      BY <1>2, <1>3, <3>2, MarkedResults
    <3> HIDE DEF rs
    <3> QED
      BY <3>1, <3>3
  <2>2. CASE Supersede
    <3> DEFINE b == \/ job.results[job.at].superseded
                    \/ IsSuperseded(db, job.results[job.at].id)
               rs == [job.results EXCEPT ![job.at].superseded = b]
    <3>1. Goto("supersede", [job EXCEPT !.at = @ + 1, !.results = rs])
          /\ pc = "supersede"
      BY <2>2 DEF Supersede
    <3>2. b \in BOOLEAN
      OBVIOUS
    <3> HIDE DEF b
    <3>3. rs \in Seq(Result)
      BY <1>2, <1>3, <3>2, MarkedResults
    <3> HIDE DEF rs
    <3> QED
      BY <3>1, <3>3
  <2> QED
    BY <2>1, <2>2
<1> DEFINE m == [job EXCEPT !.at = @ + 1, !.results = rs]
<1>5. IsJob(m)
  <2>1. DOMAIN m = Fields
    BY <1>1, <1>3, <1>4 DEF IsJob, Fields
  <2>2. Options(m)
    BY <1>1, <1>3, <1>4 DEF IsJob, Fields, Options
  <2>3. Gathered(m)
    BY <1>1, <1>3, <1>4 DEF IsJob, Fields, Gathered
  <2>4. Lists(m)
    BY <1>1, <1>3, <1>4 DEF IsJob, Fields, Lists
  <2> QED
    BY <2>1, <2>2, <2>3, <2>4 DEF IsJob
<1>6. /\ m.kind = job.kind /\ m.since = job.since /\ m.phase = job.phase
      /\ m.start = job.start
  BY <1>1 DEF Fields
<1> HIDE DEF m
<1>7. Expected(pc, m)
  <2>1. CASE pc = "enrich"
    BY <1>1, <1>6, <2>1 DEF Expected, VectorPhase, TextPhase, HybridPhase
  <2>2. CASE pc = "supersede"
    BY <1>1, <1>6, <2>2 DEF Expected, VectorPhase, TextPhase, HybridPhase
  <2> QED
    BY <1>4, <2>1, <2>2
<1>8. Goto(pc, m) /\ pc \in Locations
  BY <1>4 DEF m, Locations
<1> QED
  BY <1>1, <1>5, <1>6, <1>7, <1>8, Moves

\* A loop that keeps the results of some entries.
LEMMA HavingFacts ==
    ASSUME NEW rs \in Seq(Result), NEW ids
    PROVE  /\ Having(rs, ids) \in Seq(Result)
           /\ \A k \in DOMAIN Having(rs, ids) : Having(rs, ids)[k].id \in ids
           /\ \E f : /\ Picks(Having(rs, ids), rs,
                              {n \in DOMAIN rs : rs[n].id \in ids}, f)
                     /\ \A k, l \in DOMAIN Having(rs, ids) :
                          k < l <=> f[k] < f[l]
<1> DEFINE I == {n \in DOMAIN rs : rs[n].id \in ids}
           q == Having(rs, ids)
<1>1. I \in SUBSET DOMAIN rs /\ q = Sublist(rs, I)
  BY DEF Having
<1> HIDE DEF q, I
<1>2. PICK f : /\ Picks(q, rs, I, f)
               /\ \A k, l \in DOMAIN q : k < l <=> f[k] < f[l]
  BY <1>1, SublistFacts
<1>3. q \in Seq(Result)
  BY <1>1, SublistFacts
<1>4. \A k \in DOMAIN q : q[k].id \in ids
  <2>1. \A n \in I : rs[n].id \in ids
    BY DEF I
  <2> QED
    BY <1>2, <2>1 DEF Picks
<1> QED
  BY <1>2, <1>3, <1>4 DEF q, I

LEMMA AmongFacts ==
    ASSUME NEW q \in Seq(Ids), NEW ids
    PROVE  /\ Among(q, ids) \in Seq(Ids)
           /\ \A k \in DOMAIN Among(q, ids) : Among(q, ids)[k] \in ids
           /\ \E f : /\ Picks(Among(q, ids), q, {n \in DOMAIN q : q[n] \in ids}, f)
                     /\ \A k, l \in DOMAIN Among(q, ids) : k < l <=> f[k] < f[l]
<1> DEFINE I == {n \in DOMAIN q : q[n] \in ids}
           r == Among(q, ids)
<1>1. I \in SUBSET DOMAIN q /\ r = Sublist(q, I)
  BY DEF Among
<1> HIDE DEF r
<1>2. PICK f : /\ Picks(r, q, I, f)
               /\ \A k, l \in DOMAIN r : k < l <=> f[k] < f[l]
  BY <1>1, SublistFacts
<1>3. r \in Seq(Ids)
  BY <1>1, SublistFacts
<1>4. \A k \in DOMAIN r : r[k] \in ids
  BY <1>2 DEF Picks
<1> QED
  BY <1>2, <1>3, <1>4 DEF r, I

\* A list of results is shown, or expanded, or looked at again.
LEMMA ShowKeepsTypes ==
    ASSUME Typed, pc # "idle", job.kind \notin Tracing,
           NEW rs \in Seq(Result),
           Goto("done", [job EXCEPT !.results = rs])
    PROVE  Typed'
<1> DEFINE m == [job EXCEPT !.results = rs]
<1>1. /\ IsJob(job) /\ DOMAIN job = Fields /\ job.since <= writes
      /\ Expected(pc, job)
  BY Remembered
<1>2. IsJob(m)
  <2>1. DOMAIN m = Fields
    BY <1>1 DEF IsJob, Fields
  <2>2. Options(m)
    BY <1>1 DEF IsJob, Fields, Options
  <2>3. Gathered(m)
    BY <1>1 DEF IsJob, Fields, Gathered
  <2>4. Lists(m)
    BY <1>1 DEF IsJob, Fields, Lists
  <2> QED
    BY <2>1, <2>2, <2>3, <2>4 DEF IsJob
<1>3. m.kind = job.kind /\ m.since = job.since
  BY <1>1 DEF Fields
<1>4. Goto("done", m)
  OBVIOUS
<1> HIDE DEF m
<1>5. Expected("done", m)
  BY <1>1, <1>3 DEF Expected
<1> QED
  BY <1>1, <1>2, <1>3, <1>4, <1>5, Moves DEF Locations

LEMMA ExpandKeepsTypes ==
    ASSUME Typed, job.kind \in Expanding, NEW rs \in Seq(Result),
           Expand(job, rs)
    PROVE  Typed'
<1> DEFINE v == Listed(rs)
           m == [job EXCEPT !.phase = "hybrid", !.vector = rs, !.seeds = rs,
                            !.results = rs, !.visited = v]
<1>1. /\ IsJob(job) /\ DOMAIN job = Fields /\ job.since <= writes
  BY Remembered
<1>2. v \in SUBSET Ids
  <2>1. \A n \in DOMAIN rs : rs[n] \in Result
    OBVIOUS
  <2> QED
    BY <2>1 DEF Listed, Result
<1>3. Goto("walk", m)
  BY DEF Expand
<1> HIDE DEF v
<1>4. IsJob(m)
  <2>1. DOMAIN m = Fields
    BY <1>1, <1>2 DEF IsJob, Fields
  <2>2. Options(m)
    BY <1>1, <1>2 DEF IsJob, Fields, Options
  <2>3. Gathered(m)
    BY <1>1, <1>2 DEF IsJob, Fields, Gathered
  <2>4. Lists(m)
    BY <1>1, <1>2 DEF IsJob, Fields, Lists
  <2> QED
    BY <2>1, <2>2, <2>3, <2>4 DEF IsJob
<1>5. m.kind = job.kind /\ m.since = job.since /\ m.phase = "hybrid"
  BY <1>1 DEF Fields
<1> HIDE DEF m
<1>6. Expected("walk", m)
  BY <1>5 DEF Expected, HybridPhase, Expanding, Tracing, Searching
<1> QED
  BY <1>1, <1>3, <1>4, <1>5, <1>6, Moves DEF Locations

LEMMA SupersedeBegins ==
    ASSUME Typed, TextPhase(job) \/ HybridPhase(job), NEW rs \in Seq(Result),
           Goto("supersede", [job EXCEPT !.at = 1, !.results = rs])
    PROVE  Typed'
<1> DEFINE m == [job EXCEPT !.at = 1, !.results = rs]
<1>1. /\ IsJob(job) /\ DOMAIN job = Fields /\ job.since <= writes
  BY Remembered
<1>2. IsJob(m)
  <2>1. DOMAIN m = Fields
    BY <1>1 DEF IsJob, Fields
  <2>2. Options(m)
    BY <1>1 DEF IsJob, Fields, Options
  <2>3. Gathered(m)
    BY <1>1 DEF IsJob, Fields, Gathered
  <2>4. Lists(m)
    BY <1>1 DEF IsJob, Fields, Lists
  <2> QED
    BY <2>1, <2>2, <2>3, <2>4 DEF IsJob
<1>3. m.kind = job.kind /\ m.since = job.since /\ m.phase = job.phase
  BY <1>1 DEF Fields
<1>4. Goto("supersede", m)
  OBVIOUS
<1> HIDE DEF m
<1>5. Expected("supersede", m)
  BY <1>3 DEF Expected, HybridPhase, TextPhase, Expanding, Tracing, Searching
<1> QED
  BY <1>1, <1>2, <1>3, <1>4, <1>5, Moves DEF Locations

LEMMA EnrichedIs ==
    ASSUME Typed, Enriched
    PROVE  /\ pc = "enrich" /\ job.at > Len(job.results)
           /\ \/ job.kind = "related" /\ Goto("done", job)
              \/ /\ job.kind = "neighbors"
                 /\ Goto("scan", [job EXCEPT !.todo = job.nodes])
              \/ job.kind = "vector" /\ VectorPhase(job) /\ Show(job, job.results)
              \/ /\ job.kind = "resolve" /\ job.results = <<>>
                 /\ Goto("list", job)
              \/ /\ job.kind = "resolve" /\ job.results # <<>> /\ VectorPhase(job)
                 /\ Goto("done", [job EXCEPT !.start =
                                    DominantMatch(job, job.results)])
              \/ /\ job.kind \in Expanding /\ VectorPhase(job) /\ job.text
                 /\ Goto("match", [job EXCEPT !.vector = job.results])
              \/ /\ job.kind \in Expanding /\ VectorPhase(job) /\ ~job.text
                 /\ Expand(job, job.results)
              \/ /\ TextPhase(job)
                 /\ Goto("supersede", [job EXCEPT !.at = 1])
              \/ /\ HybridPhase(job)
                 /\ Goto("supersede", [job EXCEPT !.at = 1,
                                         !.results = SortByScore(@)])
<1>1. /\ pc = "enrich" /\ job.at > Len(job.results)
      /\ CASE job.kind = "related"   -> Goto("done", job)
           [] job.kind = "neighbors" ->
                Goto("scan", [job EXCEPT !.todo = job.nodes])
           [] job.kind = "vector"    -> Show(job, job.results)
           [] job.kind = "resolve"   ->
                IF job.results = <<>> THEN Goto("list", job)
                ELSE Goto("done", [job EXCEPT !.start =
                                     DominantMatch(job, job.results)])
           [] job.phase = "vector" /\ job.kind \in {"hybrid", "recall"} ->
                IF job.text
                THEN Goto("match", [job EXCEPT !.vector = job.results])
                ELSE Expand(job, job.results)
           [] job.phase = "text" -> Goto("supersede", [job EXCEPT !.at = 1])
           [] job.phase = "hybrid" ->
                Goto("supersede", [job EXCEPT !.at = 1,
                                              !.results = SortByScore(@)])
  BY DEF Enriched
<1>2. \/ job.kind \in {"neighbors", "related"} /\ job.phase = "none"
      \/ VectorPhase(job) \/ TextPhase(job) \/ HybridPhase(job)
  BY <1>1, Remembered DEF Expected
<1>3. CASE job.kind = "related" /\ job.phase = "none"
  BY <1>1, <1>3
<1>4. CASE job.kind = "neighbors" /\ job.phase = "none"
  BY <1>1, <1>4
<1>5. CASE VectorPhase(job) /\ job.kind = "vector"
  BY <1>1, <1>5 DEF VectorPhase
<1>6. CASE VectorPhase(job) /\ job.kind = "resolve"
  BY <1>1, <1>6 DEF VectorPhase
<1>7. CASE VectorPhase(job) /\ job.kind \in Expanding
  BY <1>1, <1>7 DEF VectorPhase, Expanding
<1>8. CASE TextPhase(job)
  BY <1>1, <1>8 DEF TextPhase, Expanding
<1>9. CASE HybridPhase(job)
  BY <1>1, <1>9 DEF HybridPhase, Expanding
<1> QED
  BY <1>2, <1>3, <1>4, <1>5, <1>6, <1>7, <1>8, <1>9 DEF VectorPhase

LEMMA DominantMatchFacts ==
    ASSUME NEW j, NEW rs \in Seq(Result), rs # <<>>
    PROVE  DominantMatch(j, rs) \in Ids \cup {Null}
<1> DEFINE e == Having(rs, j.argument.exact)
<1>1. e \in Seq(Result)
  BY HavingFacts
<1> HIDE DEF e
<1>2. e # <<>> => e[1] \in Result
  BY <1>1
<1>3. rs[1] \in Result
  OBVIOUS
<1>4. DominantMatch(j, rs) = CASE e # <<>> -> e[1].id
                               [] e = <<>> /\ ClearlyFirst(rs) -> rs[1].id
                               [] OTHER -> Null
  BY DEF DominantMatch, e
<1>5. (e # <<>> => e[1].id \in Ids) /\ rs[1].id \in Ids
  BY <1>2, <1>3 DEF Result
<1> QED
  BY <1>4, <1>5

LEMMA EnrichedKeepsTypes == ASSUME Typed, Enriched PROVE Typed'
<1>1. /\ IsJob(job) /\ DOMAIN job = Fields /\ job.since <= writes
      /\ Expected("enrich", job) /\ pc = "enrich"
  BY Remembered, EnrichedIs
<1>2. job.results \in Seq(Result) /\ job.nodes \in SUBSET Ids
  BY <1>1 DEF IsJob, Lists, Gathered
<1>3. CASE job.kind = "related" /\ Goto("done", job)
  <2>1. Expected("done", job)
    BY <1>1 DEF Expected
  <2> QED
    BY <1>1, <1>3, <2>1, Moves DEF Locations
<1>4. CASE /\ job.kind = "neighbors"
           /\ Goto("scan", [job EXCEPT !.todo = job.nodes])
  <2> DEFINE m == [job EXCEPT !.todo = job.nodes]
  <2>1. IsJob(m)
    <3>1. DOMAIN m = Fields
      BY <1>1 DEF IsJob, Fields
    <3>2. Options(m)
      BY <1>1 DEF IsJob, Fields, Options
    <3>3. Gathered(m)
      BY <1>1 DEF IsJob, Fields, Gathered
    <3>4. Lists(m)
      BY <1>1 DEF IsJob, Fields, Lists
    <3> QED
      BY <3>1, <3>2, <3>3, <3>4 DEF IsJob
  <2>2. m.kind = job.kind /\ m.since = job.since /\ m.start = job.start
    BY <1>1 DEF Fields
  <2>3. Goto("scan", m)
    BY <1>4
  <2> HIDE DEF m
  <2>4. Expected("scan", m)
    BY <1>1, <1>4, <2>2 DEF Expected, Around, Tracing
  <2> QED
    BY <1>1, <2>1, <2>2, <2>3, <2>4, Moves DEF Locations
<1>5. CASE VectorPhase(job) /\ Show(job, job.results)
  <2>1. Wanted(job, job.results) \in Seq(Result)
    BY <1>2, HavingFacts DEF Wanted
  <2>2. job.kind \notin Tracing
    BY <1>5 DEF VectorPhase, Tracing, Expanding
  <2> QED
    BY <1>1, <1>5, <2>1, <2>2, ShowKeepsTypes DEF Show
<1>6. CASE job.kind = "resolve" /\ Goto("list", job)
  <2>1. Expected("list", job)
    BY <1>1, <1>6 DEF Expected, Tracing
  <2> QED
    BY <1>1, <1>6, <2>1, Moves DEF Locations
<1>7. CASE /\ job.kind = "resolve" /\ job.results # <<>>
           /\ Goto("done", [job EXCEPT !.start =
                              DominantMatch(job, job.results)])
  <2> DEFINE i == DominantMatch(job, job.results)
             m == [job EXCEPT !.start = i]
  <2>1. i \in Ids \cup {Null}
    BY <1>2, <1>7, DominantMatchFacts
  <2>2. Goto("done", m)
    BY <1>7
  <2> HIDE DEF i
  <2>3. IsJob(m)
    <3>1. DOMAIN m = Fields
      BY <1>1, <2>1 DEF IsJob, Fields
    <3>2. Options(m)
      BY <1>1, <2>1 DEF IsJob, Fields, Options
    <3>3. Gathered(m)
      BY <1>1, <2>1 DEF IsJob, Fields, Gathered
    <3>4. Lists(m)
      BY <1>1, <2>1 DEF IsJob, Fields, Lists
    <3> QED
      BY <3>1, <3>2, <3>3, <3>4 DEF IsJob
  <2>4. m.kind = job.kind /\ m.since = job.since
    BY <1>1 DEF Fields
  <2> HIDE DEF m
  <2>5. Expected("done", m)
    BY <1>7, <2>4 DEF Expected, Tracing, Searching
  <2> QED
    BY <1>1, <2>2, <2>3, <2>4, <2>5, Moves DEF Locations
<1>8. CASE /\ job.kind \in Expanding /\ VectorPhase(job)
           /\ Goto("match", [job EXCEPT !.vector = job.results])
  <2> DEFINE m == [job EXCEPT !.vector = job.results]
  <2>1. Goto("match", m)
    BY <1>8
  <2>2. IsJob(m)
    <3>1. DOMAIN m = Fields
      BY <1>1 DEF IsJob, Fields
    <3>2. Options(m)
      BY <1>1 DEF IsJob, Fields, Options
    <3>3. Gathered(m)
      BY <1>1 DEF IsJob, Fields, Gathered
    <3>4. Lists(m)
      BY <1>1 DEF IsJob, Fields, Lists
    <3> QED
      BY <3>1, <3>2, <3>3, <3>4 DEF IsJob
  <2>3. m.kind = job.kind /\ m.since = job.since /\ m.phase = job.phase
    BY <1>1 DEF Fields
  <2> HIDE DEF m
  <2>4. Expected("match", m)
    BY <1>8, <2>3 DEF Expected, VectorPhase, Tracing, Searching, Expanding
  <2> QED
    BY <1>1, <2>1, <2>2, <2>3, <2>4, Moves DEF Locations
<1>9. CASE job.kind \in Expanding /\ Expand(job, job.results)
  BY <1>2, <1>9, ExpandKeepsTypes
<1>10. CASE TextPhase(job) /\ Goto("supersede", [job EXCEPT !.at = 1])
  <2>1. [job EXCEPT !.at = 1] = [job EXCEPT !.at = 1, !.results = job.results]
    BY <1>1 DEF IsJob, Fields
  <2> QED
    BY <1>2, <1>10, <2>1, SupersedeBegins
<1>11. CASE /\ HybridPhase(job)
            /\ Goto("supersede", [job EXCEPT !.at = 1,
                                    !.results = SortByScore(@)])
  BY <1>2, <1>11, SortByScoreFacts, SupersedeBegins
<1> QED
  BY <1>3, <1>4, <1>5, <1>6, <1>7, <1>8, <1>9, <1>10, <1>11, EnrichedIs

\* The fused list has every entry of the two lists once, best first.
LEMMA FuseFacts ==
    ASSUME NEW v \in Seq(Result), NEW t \in Seq(Result),
           NEW q \in FuseByRRF(v, t)
    PROVE  /\ q \in Seq(Result) /\ DistinctIds(q) /\ Descending(q)
           /\ Listed(q) = Listed(v) \cup Listed(t)
           /\ \A n \in DOMAIN q :
                \/ \E k \in DOMAIN v : q[n].depth = v[k].depth
                \/ \E k \in DOMAIN t : q[n].depth = t[k].depth
<1> DEFINE ids == Listed(v) \cup Listed(t)
           score == [i \in ids |-> RRF(v, i) + RRF(t, i)]
           result(i) == IF i \in Listed(v) THEN v[Position(v, i)]
                                           ELSE t[Position(t, i)]
<1>1. PICK o \in Rankings(ids, score) :
        q = [n \in DOMAIN o |-> [result(o[n]) EXCEPT !.score = score[o[n]]]]
  BY DEF FuseByRRF
<1>2. ASSUME NEW l \in Seq(Result)
      PROVE  /\ Listed(l) \in SUBSET Ids
             /\ \A i \in Listed(l) : /\ Position(l, i) \in DOMAIN l
                                     /\ Position(l, i) \in Nat \ {0}
                                     /\ l[Position(l, i)] \in Result
                                     /\ l[Position(l, i)].id = i
             /\ \A i \in Ids : RRF(l, i) \in Nat
  <2>1. \A n \in DOMAIN l : l[n] \in Result /\ n \in Nat \ {0}
    OBVIOUS
  <2>2. Listed(l) \in SUBSET Ids
    BY <2>1 DEF Listed, Result
  <2>3. ASSUME NEW i \in Listed(l)
        PROVE  /\ Position(l, i) \in DOMAIN l /\ l[Position(l, i)].id = i
    <3>1. \E n \in DOMAIN l : l[n].id = i
      BY DEF Listed
    <3> QED
      BY <3>1 DEF Position
  <2>4. ASSUME NEW i \in Ids PROVE RRF(l, i) \in Nat
    <3>1. CASE i \in Listed(l)
      <4>1. Position(l, i) \in Nat \ {0}
        BY <2>1, <2>3, <3>1
      <4> DEFINE n == RRFk + Position(l, i)
      <4>2. n \in Nat /\ n > 0
        BY <4>1 DEF RRFk
      <4>3. RRF(l, i) = 10000 \div n
        BY <3>1 DEF RRF
      <4> HIDE DEF n
      <4>4. 10000 \div n \in Nat
        BY <4>2
      <4> QED
        BY <4>3, <4>4
    <3>2. CASE i \notin Listed(l)
      BY <3>2 DEF RRF
    <3> QED
      BY <3>1, <3>2
  <2> QED
    BY <2>1, <2>2, <2>3, <2>4
<1>3. ids \in SUBSET Ids
  BY <1>2
<1>4. \A i \in ids : /\ result(i) \in Result /\ result(i).id = i
                    /\ \/ \E k \in DOMAIN v : result(i) = v[k]
                       \/ \E k \in DOMAIN t : result(i) = t[k]
  BY <1>2
<1>5. \A i \in ids : score[i] \in Nat
  <2>1. ASSUME NEW i \in ids PROVE RRF(v, i) \in Nat /\ RRF(t, i) \in Nat
    BY <1>2, <1>3
  <2> QED
    BY <2>1
<1> DEFINE scored(i) == [result(i) EXCEPT !.score = score[i]]
<1>6. ASSUME NEW i \in ids
      PROVE  /\ scored(i) \in Result /\ scored(i).id = i /\ scored(i).score = score[i]
             /\ \/ \E k \in DOMAIN v : scored(i).depth = v[k].depth
                \/ \E k \in DOMAIN t : scored(i).depth = t[k].depth
  <2> DEFINE r == result(i)
             s == score[i]
  <2>1. /\ r \in Result /\ r.id = i /\ s \in Nat
        /\ (\E k \in DOMAIN v : r = v[k]) \/ (\E k \in DOMAIN t : r = t[k])
    BY <1>4, <1>5
  <2> HIDE DEF r, s
  <2>2. LET m == [r EXCEPT !.score = s]
        IN  m \in Result /\ m.id = i /\ m.score = s /\ m.depth = r.depth
    BY <2>1 DEF Result
  <2> QED
    BY <2>1, <2>2 DEF r, s
<1>7. q = [n \in DOMAIN o |-> scored(o[n])]
  BY <1>1
<1> HIDE DEF scored, score, result, ids
<1>8. /\ o \in Seq(Ids) /\ Distinct(o)
      /\ \A k \in DOMAIN o : o[k] \in ids
      /\ \A i \in ids : \E k \in DOMAIN o : o[k] = i
      /\ \A k, l \in DOMAIN o : k < l => score[o[k]] >= score[o[l]]
  <2>1. o \in Rankings(ids, score)
    BY <1>1
  <2> QED
    BY <1>3, <2>1, RankingFacts
<1>9. Len(o) \in Nat /\ DOMAIN o = 1..Len(o)
  BY <1>8
<1>10. DOMAIN q = DOMAIN o /\ \A n \in DOMAIN o : q[n] = scored(o[n])
  BY <1>7
<1>11. q \in [1..Len(o) -> Result]
  BY <1>6, <1>7, <1>8, <1>9
<1>12. q \in Seq(Result)
  BY <1>9, <1>11
<1>13. \A n \in DOMAIN o : q[n].id = o[n] /\ q[n].score = score[o[n]]
  BY <1>6, <1>8, <1>10
<1>14. DistinctIds(q) /\ Descending(q)
  BY <1>8, <1>10, <1>13 DEF DistinctIds, Descending, Distinct
<1>15. Listed(q) = ids
  BY <1>8, <1>10, <1>13 DEF Listed
<1>16. ASSUME NEW n \in DOMAIN q
       PROVE  \/ \E k \in DOMAIN v : q[n].depth = v[k].depth
              \/ \E k \in DOMAIN t : q[n].depth = t[k].depth
  <2>1. o[n] \in ids /\ q[n] = scored(o[n])
    BY <1>8, <1>10
  <2>2. \/ \E k \in DOMAIN v : scored(o[n]).depth = v[k].depth
        \/ \E k \in DOMAIN t : scored(o[n]).depth = t[k].depth
    BY <1>6, <2>1
  <2> QED
    BY <2>1, <2>2
<1> QED
  BY <1>12, <1>14, <1>15, <1>16 DEF ids

LEMMA DemotedFacts ==
    ASSUME NEW rs \in Seq(Result)
    PROVE  /\ Demoted(rs) \in Seq(Result) /\ Len(Demoted(rs)) = Len(rs)
           /\ \A n \in DOMAIN rs : /\ Demoted(rs)[n].id = rs[n].id
                                   /\ Demoted(rs)[n].depth = rs[n].depth
                                   /\ Demoted(rs)[n].score <= rs[n].score
<1> DEFINE new(n) == IF rs[n].superseded
                     THEN [rs[n] EXCEPT !.score = @ \div 10] ELSE rs[n]
           ds == Demoted(rs)
<1>1. Len(rs) \in Nat /\ DOMAIN rs = 1..Len(rs)
      /\ \A n \in DOMAIN rs : rs[n] \in Result
  OBVIOUS
<1>2. ASSUME NEW r \in Result
      PROVE  LET m == [r EXCEPT !.score = @ \div 10]
             IN  /\ m \in Result /\ m.id = r.id /\ m.depth = r.depth
                 /\ m.score <= r.score /\ r.score <= r.score
  <2> DEFINE s == r.score \div 10
  <2>1. s \in Nat /\ s <= r.score /\ r.score \in Nat
    BY DEF Result
  <2> HIDE DEF s
  <2>2. LET m == [r EXCEPT !.score = s]
        IN  m \in Result /\ m.id = r.id /\ m.depth = r.depth /\ m.score = s
    BY <2>1 DEF Result
  <2>3. r.score <= r.score
    BY <2>1
  <2> QED
    BY <2>1, <2>2, <2>3 DEF s
<1>3. \A n \in DOMAIN rs : /\ new(n) \in Result /\ new(n).id = rs[n].id
                           /\ new(n).depth = rs[n].depth
                           /\ new(n).score <= rs[n].score
  BY <1>1, <1>2
<1>4. ds = [n \in DOMAIN rs |-> new(n)]
  BY DEF Demoted
<1> HIDE DEF new, ds
<1>5. ds \in [1..Len(rs) -> Result]
  BY <1>1, <1>3, <1>4
<1>6. ds \in Seq(Result) /\ Len(ds) = Len(rs)
  BY <1>1, <1>5
<1>7. \A n \in DOMAIN rs : ds[n] = new(n)
  BY <1>4
<1> QED
  BY <1>3, <1>6, <1>7 DEF ds

LEMMA RankIsAList ==
    ASSUME NEW j, IsJob(j) PROVE Rank(j) \in Seq(Result)
<1> DEFINE demoted == IF j.keep THEN j.results
                                ELSE SortByScore(Demoted(j.results))
           total == IF j.wanted = Ids THEN j.total ELSE 0
           cut == Cut(demoted, total)
           kept == Wanted(j, cut)
<1>1. j.results \in Seq(Result) /\ j.total \in Nat /\ total \in Nat
  BY DEF IsJob, Lists, Options
<1>2. demoted \in Seq(Result)
  BY <1>1, DemotedFacts, SortByScoreFacts
<1> HIDE DEF demoted, total
<1>3. cut \in Seq(Result)
  BY <1>1, <1>2, CutFacts
<1> HIDE DEF cut
<1>4. kept \in Seq(Result)
  BY <1>3, HavingFacts DEF Wanted
<1> HIDE DEF kept
<1>5. Cut(kept, j.total) \in Seq(Result)
  BY <1>1, <1>4, CutFacts
<1> QED
  BY <1>5 DEF Rank, kept, cut, demoted, total

LEMMA FusedIsAList ==
    ASSUME NEW j, IsJob(j),
           NEW q \in IF j.results = <<>> THEN {j.vector}
                                         ELSE FuseByRRF(j.vector, j.results)
    PROVE  q \in Seq(Result) /\ Cut(q, j.limit) \in Seq(Result)
<1>1. /\ j.results \in Seq(Result) /\ j.vector \in Seq(Result) /\ j.limit \in Nat
  BY DEF IsJob, Lists, Options
<1>2. q \in Seq(Result)
  BY <1>1, FuseFacts
<1> QED
  BY <1>1, <1>2, CutFacts

LEMMA SupersededIs ==
    ASSUME Typed, Superseded
    PROVE  /\ pc = "supersede" /\ job.at > Len(job.results)
           /\ \/ TextPhase(job) /\ job.kind = "text" /\ Show(job, job.results)
              \/ TextPhase(job) /\ job.kind = "search" /\ Goto("done", job)
              \/ TextPhase(job) /\ job.kind \in Expanding /\ Fuse(job)
              \/ /\ HybridPhase(job)
                 /\ Goto("done", [job EXCEPT !.results = Rank(job)])
<1>1. /\ pc = "supersede" /\ job.at > Len(job.results)
      /\ CASE job.kind = "text" -> Show(job, job.results)
           [] job.kind = "search" -> Goto("done", job)
           [] job.kind \in {"hybrid", "recall"} /\ job.phase = "text" ->
                Fuse(job)
           [] job.phase = "hybrid" ->
                Goto("done", [job EXCEPT !.results = Rank(job)])
  BY DEF Superseded
<1>2. TextPhase(job) \/ HybridPhase(job)
  BY <1>1, Remembered DEF Expected
<1>3. CASE TextPhase(job) /\ job.kind = "text"
  BY <1>1, <1>3 DEF TextPhase
<1>4. CASE TextPhase(job) /\ job.kind = "search"
  BY <1>1, <1>4 DEF TextPhase
<1>5. CASE TextPhase(job) /\ job.kind \in Expanding
  BY <1>1, <1>5 DEF TextPhase, Expanding
<1>6. CASE HybridPhase(job)
  BY <1>1, <1>6 DEF HybridPhase, Expanding
<1> QED
  BY <1>2, <1>3, <1>4, <1>5, <1>6 DEF TextPhase

LEMMA SupersededKeepsTypes == ASSUME Typed, Superseded PROVE Typed'
<1>1. /\ IsJob(job) /\ job.since <= writes /\ Expected("supersede", job)
      /\ pc = "supersede"
  BY Remembered, SupersededIs
<1>2. job.kind \notin Tracing
  BY <1>1 DEF Expected, TextPhase, HybridPhase, Tracing, Expanding
<1>3. CASE Show(job, job.results)
  <2>1. Wanted(job, job.results) \in Seq(Result)
    BY <1>1, HavingFacts DEF Wanted, IsJob, Lists
  <2> QED
    BY <1>1, <1>2, <1>3, <2>1, ShowKeepsTypes DEF Show
<1>4. CASE Goto("done", job)
  <2>1. Expected("done", job)
    BY <1>1 DEF Expected
  <2> QED
    BY <1>1, <1>4, <2>1, Moves DEF Locations
<1>5. CASE job.kind \in Expanding /\ Fuse(job)
  <2>1. PICK q \in IF job.results = <<>> THEN {job.vector}
                   ELSE FuseByRRF(job.vector, job.results) :
          Expand(job, Cut(q, job.limit))
    BY <1>5 DEF Fuse
  <2>2. Cut(q, job.limit) \in Seq(Result)
    BY <1>1, FusedIsAList
  <2> QED
    BY <1>5, <2>1, <2>2, ExpandKeepsTypes
<1>6. CASE Goto("done", [job EXCEPT !.results = Rank(job)])
  BY <1>1, <1>2, <1>6, RankIsAList, ShowKeepsTypes
<1> QED
  BY <1>3, <1>4, <1>5, <1>6, SupersededIs

LEMMA SeedsKeepTypes == ASSUME Typed, ExpandFromEntry PROVE Typed'
<1> DEFINE seed == Head(job.seeds)
           rest == Tail(job.seeds)
           j == [job EXCEPT !.seeds = rest]
           m == Walk(j, seed.id, seed.score)
<1>1. /\ IsJob(job) /\ DOMAIN job = Fields /\ job.since <= writes
      /\ Expected("walk", job)
  BY Remembered DEF ExpandFromEntry
<1>2. job.seeds # <<>> /\ Goto("walk", m)
  BY DEF ExpandFromEntry
<1>3. HybridPhase(job)
  BY <1>1, <1>2 DEF Expected, Tracks
<1>4. seed \in Result /\ rest \in Seq(Result)
  BY <1>1, <1>2 DEF IsJob, Lists
<1>5. seed.id \in Ids /\ seed.score \in Nat
  BY <1>4 DEF Result
<1> HIDE DEF seed, rest
<1>6. IsJob(j)
  <2>1. DOMAIN j = Fields
    BY <1>1, <1>4 DEF IsJob, Fields
  <2>2. Options(j)
    BY <1>1, <1>4 DEF IsJob, Fields, Options
  <2>3. Gathered(j)
    BY <1>1, <1>4 DEF IsJob, Fields, Gathered
  <2>4. Lists(j)
    BY <1>1, <1>4 DEF IsJob, Fields, Lists
  <2> QED
    BY <2>1, <2>2, <2>3, <2>4 DEF IsJob
<1>7. j.kind = job.kind /\ j.since = job.since /\ j.phase = job.phase
  BY <1>1 DEF Fields
<1> HIDE DEF j
<1>8. IsJob(m) /\ SameRequest(m, j)
  BY <1>5, <1>6, WalkFacts
<1> HIDE DEF m
<1>9. HybridPhase(m) /\ m.since <= writes
  BY <1>1, <1>3, <1>7, <1>8 DEF HybridPhase, SameRequest
<1>10. Expected("walk", m)
  BY <1>9 DEF Expected, HybridPhase, Expanding, Tracing, Searching
<1> QED
  BY <1>2, <1>8, <1>9, <1>10, Moves DEF Locations

LEMMA TextMatchesFacts ==
    ASSUME NEW j, NEW listed \in Seq(Ids)
    PROVE  /\ Among(Cut(listed, ListLimit), j.argument.containing) \in Seq(Ids)
           /\ TextMatches(j, listed) \in Seq(Ids)
<1> DEFINE c == Cut(listed, ListLimit)
           a == Among(c, j.argument.containing)
<1>1. ListLimit \in Nat /\ TextLimit \in Nat
  BY ReadsAssumption
<1>2. c \in Seq(Ids)
  BY <1>1, CutFacts
<1> HIDE DEF c
<1>3. a \in Seq(Ids)
  BY <1>2, AmongFacts
<1> HIDE DEF a
<1>4. Cut(a, TextLimit) \in Seq(Ids)
  BY <1>1, <1>3, CutFacts
<1> QED
  BY <1>3, <1>4 DEF TextMatches, a, c

LEMMA OnlyMatchFacts ==
    ASSUME NEW j, NEW found \in Seq(Ids)
    PROVE  OnlyMatch(j, found) \in Ids \cup {Null}
<1> DEFINE e == Among(found, j.argument.exact)
<1>1. e \in Seq(Ids)
  BY AmongFacts
<1>2. OnlyMatch(j, found) = CASE Len(found) = 1 -> found[1]
                              [] Len(found) # 1 /\ e # <<>> -> e[1]
                              [] OTHER -> Null
  BY DEF OnlyMatch
<1> HIDE DEF e
<1>3. e # <<>> => e[1] \in Ids
  BY <1>1
<1>4. Len(found) = 1 => found[1] \in Ids
  OBVIOUS
<1> QED
  BY <1>2, <1>3, <1>4

LEMMA TextSearchKeepsTypes == ASSUME Typed, SearchByText PROVE Typed'
<1>1. /\ IsJob(job) /\ DOMAIN job = Fields /\ job.since <= writes
      /\ Expected("list", job)
  BY Remembered DEF SearchByText
<1>2. PICK listed \in NewestFirst(InScope) :
        Goto("done", [job EXCEPT !.phase = "list",
                        !.start = OnlyMatch(job, TextMatches(job, listed))])
  BY DEF SearchByText
<1> DEFINE i == OnlyMatch(job, TextMatches(job, listed))
           m == [job EXCEPT !.phase = "list", !.start = i]
<1>3. listed \in Seq(Ids)
  <2>1. InScope \in SUBSET Ids
    BY ScopeIsLive
  <2> QED
    BY <2>1, RankingFacts DEF NewestFirst
<1>4. i \in Ids \cup {Null}
  BY <1>3, TextMatchesFacts, OnlyMatchFacts
<1>5. Goto("done", m)
  BY <1>2
<1> HIDE DEF i
<1>6. IsJob(m)
  <2>1. DOMAIN m = Fields
    BY <1>1, <1>4 DEF IsJob, Fields
  <2>2. Options(m)
    BY <1>1, <1>4 DEF IsJob, Fields, Options
  <2>3. Gathered(m)
    BY <1>1, <1>4 DEF IsJob, Fields, Gathered
  <2>4. Lists(m)
    BY <1>1, <1>4 DEF IsJob, Fields, Lists
  <2> QED
    BY <2>1, <2>2, <2>3, <2>4 DEF IsJob
<1>7. m.kind = "resolve" /\ m.since = job.since
  BY <1>1 DEF Fields, Expected
<1> HIDE DEF m
<1>8. Expected("done", m)
  BY <1>7 DEF Expected, Tracing, Searching
<1> QED
  BY <1>1, <1>5, <1>6, <1>7, <1>8, Moves DEF Locations

\* What other processes do to the database, with the request left alone.
LEMMA WritesAreSound ==
    ASSUME Typed, Delete \/ Link \/ Unlink
    PROVE  /\ db' \in Database /\ Consistent(db') /\ writes' = writes + 1
           /\ writes < MaxWrites /\ UNCHANGED <<pc, job>>
<1>1. db \in Database /\ Consistent(db)
  BY Remembered
<1>2. CASE Delete
  <2>1. PICK i \in LiveIds : Write(DeleteEntries(db, {i}))
    BY <1>2 DEF Delete
  <2>2. {i} \in SUBSET Ids
    BY DEF LiveIds
  <2>3. Sound(DeleteEntries(db, {i}))
    BY <1>1, <2>2, DeleteEntriesSound
  <2> QED
    BY <2>1, <2>3 DEF Write, Sound
<1>3. CASE Link
  <2>1. PICK i \in LiveIds, k \in LiveIds, t \in LinkTypes, e \in EdgeIds :
          LET name == [l \in {<<k, t>>} |-> e]
          IN  CanInsertEdges(db, i, name) /\ Write(InsertEdges(db, i, name, Null))
    BY <1>3 DEF Link
  <2> DEFINE links == {<<k, t>>}
             name == [l \in links |-> e]
  <2>2. i \in Ids /\ k \in Ids /\ t \in EdgeTypes
    BY ReadsAssumption DEF LiveIds
  <2>3. links \in SUBSET (Ids \X EdgeTypes)
    BY <2>2
  <2>4. name \in [links -> EdgeIds]
    OBVIOUS
  <2>5. CanInsertEdges(db, i, name) /\ Write(InsertEdges(db, i, name, Null))
    BY <2>1
  <2> HIDE DEF links, name
  <2>6. Sound(InsertEdges(db, i, name, Null))
    BY <1>1, <2>2, <2>3, <2>4, <2>5, InsertEdgesSound, WeightsAllowNull
  <2> QED
    BY <2>5, <2>6 DEF Write, Sound
<1>4. CASE Unlink
  <2>1. PICK e \in EdgeIds : Write(DeleteEdge(db, e))
    BY <1>4 DEF Unlink
  <2>2. Sound(DeleteEdge(db, e))
    BY <1>1, DeleteEdgeSound
  <2> QED
    BY <2>1, <2>2 DEF Write, Sound
<1> QED
  BY <1>2, <1>3, <1>4

LEMMA WritesKeepTypes == ASSUME Typed, Delete \/ Link \/ Unlink PROVE Typed'
<1>1. /\ db' \in Database /\ Consistent(db') /\ writes' = writes + 1
      /\ writes < MaxWrites /\ UNCHANGED <<pc, job>>
  BY WritesAreSound
<1>2. job.since \in Nat /\ job.since <= writes /\ writes \in Nat
      /\ MaxWrites \in Nat
  BY Remembered, ReadsAssumption DEF IsJob, Options
<1> QED
  BY <1>1, <1>2 DEF Typed

LEMMA InitTyped == ASSUME Init PROVE Typed
<1>1. db \in Database /\ Consistent(db) /\ writes = 0 /\ pc = "idle"
      /\ job = NoJob
  BY ReadsAssumption DEF Init
<1>2. IsJob(job) /\ job.since = 0
  BY <1>1, NoJobIsAJob DEF NoJob
<1>3. Expected(pc, job)
  BY <1>1 DEF Expected, NoJob, Tracing
<1>4. writes \in 0..MaxWrites /\ job.since <= writes
  BY <1>1, <1>2, ReadsAssumption
<1> QED
  BY <1>1, <1>2, <1>3, <1>4 DEF Typed, Locations

LEMMA NextTyped == ASSUME Typed, [Next]_vars PROVE Typed'
<1>1. CASE Ask
  BY <1>1, AsksAround, ScopeBegins, TracingBegins, SearchesBegin DEF Ask
<1>2. CASE Scan \/ ScanIn \/ EntryConflicts \/ ShowEdges \/ MeshEdges
           \/ GraphPeers \/ LookUpPeers
  BY <1>2, ScanKeepsTypes, GatheringKeepsTypes, PeersKeepTypes
<1>3. CASE PathTo \/ WalkOut \/ WalkIn \/ Visit \/ EndWalk \/ Build
  BY <1>3, LooksUpTheTarget, WalkReadsKeepTypes, VisitKeepsTypes,
     EndWalkKeepsTypes, BuildKeepsTypes
<1>4. CASE \/ Fetch \/ Enrich \/ Enriched \/ Match \/ Supersede \/ Superseded
           \/ ExpandFromEntry \/ SearchByText
  BY <1>4, FetchKeepsTypes, MarksKeepTypes, EnrichedKeepsTypes,
     MatchKeepsTypes, SupersededKeepsTypes, SeedsKeepTypes,
     TextSearchKeepsTypes
<1>5. CASE Finish
  BY <1>5, GivesUp DEF Finish
<1>6. CASE Delete \/ Link \/ Unlink
  BY <1>6, WritesKeepTypes
<1>7. CASE UNCHANGED vars
  BY <1>7 DEF vars, Typed
<1> QED
  BY <1>1, <1>2, <1>3, <1>4, <1>5, <1>6, <1>7 DEF Next, Serve

\* In every reachable state the request remembers values of the types that
\* its statements return, the database included: no listing is read beyond
\* its end, no entry is followed that is none.
THEOREM ReadsTypeCorrect == Spec => []TypeOK
<1>1. Init => Typed
  BY InitTyped
<1>2. Typed /\ [Next]_vars => Typed'
  BY NextTyped
<1>3. Typed => TypeOK
  <2> SUFFICES ASSUME Typed PROVE TypeOK
    OBVIOUS
  <2>1. IsJob(job) /\ db \in Database /\ writes \in 0..MaxWrites
        /\ pc \in Locations
    BY DEF Typed
  <2>2. Gathered(job) /\ Lists(job) /\ Options(job)
    BY <2>1 DEF IsJob
  <2>3. /\ job.pending \cup job.edges \subseteq EdgeCopy
        /\ UNION {job.visited, job.todo, job.nodes, job.external, job.missing,
                  job.conflicts} \subseteq Ids
    BY <2>2 DEF Gathered
  <2>4. /\ job.cur = Null \/ job.cur \in Item
        /\ {job.vector, job.seeds, job.results} \subseteq Seq(Result)
        /\ job.queue \in Seq(Item) /\ job.path \in Seq(EdgeCopy)
        /\ job.ranked \in Seq(Ids) /\ job.more \in BOOLEAN
    BY <2>2 DEF Lists
  <2>5. /\ job.kind \in Kinds \cup {"none"} /\ job.argument \in Argument
        /\ {job.start, job.target} \subseteq Ids \cup {Null}
    BY <2>2 DEF Options
  <2> QED
    BY <2>1, <2>3, <2>4, <2>5 DEF TypeOK, Locations
<1> QED
  BY <1>1, <1>2, <1>3, PTL DEF Spec

-----------------------------------------------------------------------------
(***************************************************************************)
(* The edges around a set of entries.  An answer collects them entry by    *)
(* entry; Owed says what it owes for the entries it has dealt with.        *)
(***************************************************************************)
Ends(edges) == UNION {{x.from, x.to} : x \in edges}

Read(d, kind, i) ==
    CASE kind = "stats"     -> EdgesFrom(d, i)
      [] kind = "conflicts" -> OfTypes(EdgesFrom(d, i), {"contradicts"})
      [] kind \notin {"stats", "conflicts"} -> EdgesFrom(d, i) \cup EdgesTo(d, i)

\* The explorer's neighbours show the edges between them.
Shown(j, edges) ==
    {x \in edges : j.kind = "neighbors" => {x.from, x.to} \subseteq j.nodes}

Owed(d, j, ids) == Shown(j, UNION {Read(d, j.kind, i) : i \in ids})

\* Whatever others write meanwhile.
EndsAreShown(j) ==
    /\ j.nodes \cap j.external = {}
    /\ \A x \in j.edges :
         /\ {x.from, x.to} \subseteq
              j.nodes \cup j.external
                \cup (IF j.kind = "entry" THEN j.missing ELSE {})
         /\ {x.from, x.to} \cap j.nodes # {}

AtHand(j) ==
    /\ j.cur.id \in j.nodes \ j.todo
    /\ \A x \in j.pending : x.from # x.to /\ j.cur.id \in {x.from, x.to}

Collecting == {"scan", "scanIn", "conflicts", "peers", "done"}

Closed(l, j) ==
    /\ l \notin Collecting => j.edges = {} /\ j.external = {}
    /\ l \in Collecting =>
         /\ j.todo \subseteq j.nodes
         /\ j.kind \in {"entry", "show"} => \E i \in Ids : j.nodes = {i}
         /\ l = "done" => j.todo = {}
         /\ j.kind \in {"graph", "entry", "neighbors"} => EndsAreShown(j)
    /\ l \in {"scanIn", "conflicts", "peers"} => AtHand(j)

\* If nobody does.
Conflicting(l, j, d) ==
    /\ l = "peers" => j.conflicts = FindConflicts(d, j.cur.id)
    /\ l \in {"scan", "done"} /\ j.todo # j.nodes =>
         j.nodes = {j.cur.id} /\ j.conflicts = FindConflicts(d, j.cur.id)

Exact(l, j, d) ==
    /\ l \in {"scan", "done"} => j.edges = Owed(d, j, j.nodes \ j.todo)
    /\ l \in {"scanIn", "conflicts"} =>
         j.edges = Owed(d, j, j.nodes \ (j.todo \cup {j.cur.id}))
    /\ l = "scanIn" => j.pending = EdgesFrom(d, j.cur.id)
    /\ l = "conflicts" =>
         j.pending = EdgesFrom(d, j.cur.id) \cup EdgesTo(d, j.cur.id)
    /\ l = "peers" =>
         /\ j.pending \subseteq Read(d, j.kind, j.cur.id)
         /\ j.edges \cup Shown(j, j.pending) = Owed(d, j, j.nodes \ j.todo)
    /\ l \in Collecting /\ j.kind \in {"entry", "show"} => Conflicting(l, j, d)
    /\ l \in Collecting /\ j.kind \in {"graph", "entry"} =>
         j.external = Ends(j.edges) \ j.nodes /\ j.missing = {}

Collected == job.kind \in Around => /\ Closed(pc, job)
                                    /\ Quiet => Exact(pc, job, db)

LEMMA CollectedMoves ==
    ASSUME NEW l, NEW m, Goto(l, m),
           m.kind \in Around => /\ Closed(l, m)
                                /\ m.since = writes => Exact(l, m, db)
    PROVE  Collected'
  BY DEF Goto, Collected, Quiet

LEMMA ShownFacts ==
    ASSUME NEW d, NEW j, NEW s, NEW t
    PROVE  /\ Shown(j, s \cup t) = Shown(j, s) \cup Shown(j, t)
           /\ j.kind # "neighbors" => Shown(j, s) = s
           /\ Shown(j, {}) = {} /\ Owed(d, j, {}) = {}
  BY DEF Owed, Shown

LEMMA OwedIsTheSame ==
    ASSUME NEW d, NEW j, NEW m, m.kind = j.kind, m.nodes = j.nodes
    PROVE  /\ \A ids : Owed(d, m, ids) = Owed(d, j, ids)
           /\ \A s : Shown(m, s) = Shown(j, s)
  BY DEF Owed, Shown

LEMMA PresentEnds ==
    ASSUME NEW d \in Database, Consistent(d), NEW i,
           NEW x \in EdgesFrom(d, i) \cup EdgesTo(d, i)
    PROVE  /\ x.from # x.to /\ Live(d, x.from) /\ Live(d, x.to)
           /\ i \in {x.from, x.to}
<1>1. PICK e \in EdgeIds : /\ Present(d, e) /\ x = Copy(d, e)
                           /\ d.edges[e].from = i \/ d.edges[e].to = i
  BY DEF EdgesFrom, EdgesTo
<1>2. x.from = d.edges[e].from /\ x.to = d.edges[e].to
  BY <1>1 DEF Copy
<1> QED
  BY <1>1, <1>2 DEF Consistent, EdgesAnchored

LEMMA ReadFacts ==
    ASSUME NEW d \in Database, Consistent(d), NEW kind, NEW i
    PROVE  /\ Read(d, kind, i) \subseteq EdgesFrom(d, i) \cup EdgesTo(d, i)
           /\ \A x \in Read(d, kind, i) : x.from # x.to /\ i \in {x.from, x.to}
           /\ kind \notin {"stats", "conflicts"} =>
                Read(d, kind, i) = EdgesFrom(d, i) \cup EdgesTo(d, i)
           /\ kind = "stats" => Read(d, kind, i) = EdgesFrom(d, i)
           /\ kind = "conflicts" =>
                Read(d, kind, i) = OfTypes(EdgesFrom(d, i), {"contradicts"})
<1>1. CASE kind = "stats"
  BY <1>1, PresentEnds DEF Read
<1>2. CASE kind = "conflicts"
  BY <1>2, PresentEnds DEF Read, OfTypes
<1>3. CASE kind \notin {"stats", "conflicts"}
  BY <1>3, PresentEnds DEF Read
<1> QED
  BY <1>1, <1>2, <1>3

LEMMA CollectingBegins ==
    ASSUME Typed, NEW kind \in Kinds, kind \in Around \ {"neighbors"},
           NEW ids \in SUBSET Ids,
           kind \in {"entry", "show"} => \E i \in Ids : ids = {i},
           Goto("scan", [New(kind) EXCEPT !.nodes = ids, !.todo = ids])
    PROVE  Collected'
<1> DEFINE n == New(kind)
           m == [n EXCEPT !.nodes = ids, !.todo = ids]
<1>1. DOMAIN n = Fields /\ n.kind = kind
  BY NewIsAJob
<1>2. n.edges = {} /\ n.external = {} /\ n.missing = {}
  BY DEF New, NoJob
<1>3. Goto("scan", m)
  OBVIOUS
<1> HIDE DEF n
<1>4. /\ m.kind = kind /\ m.nodes = ids /\ m.todo = ids
      /\ m.edges = {} /\ m.external = {} /\ m.missing = {}
  BY <1>1, <1>2 DEF Fields
<1> HIDE DEF m
<1>5. Closed("scan", m)
  BY <1>4 DEF Closed, Collecting, EndsAreShown
<1>6. ids \ ids = {} /\ Ends({}) = {}
  BY DEF Ends
<1>7. Exact("scan", m, db)
  BY <1>4, <1>6, ShownFacts DEF Exact, Conflicting
<1> QED
  BY <1>3, <1>5, <1>7, CollectedMoves

LEMMA AsksAroundCollect ==
    ASSUME Typed,
           \/ HandleGraph \/ DetectAllConflicts \/ HandleEntry
           \/ ShowByID \/ Stats
    PROVE  Collected'
<1>1. PICK kind \in Around \ {"neighbors"}, ids \in SUBSET Ids :
        /\ kind \in Kinds
        /\ kind \in {"entry", "show"} => \E i \in Ids : ids = {i}
        /\ Goto("scan", [New(kind) EXCEPT !.nodes = ids, !.todo = ids])
  BY AroundRequests
<1> QED
  BY <1>1, CollectingBegins

LEMMA ScanCollects == ASSUME Typed, Collected, Scan PROVE Collected'
<1>1. /\ IsJob(job) /\ DOMAIN job = Fields /\ db \in Database /\ Consistent(db)
      /\ pc = "scan" /\ job.kind \in Around
  BY Remembered DEF Scan, Expected
<1>2. /\ job.todo \subseteq job.nodes
      /\ job.kind \in {"entry", "show"} => \E i \in Ids : job.nodes = {i}
      /\ job.kind \in {"graph", "entry", "neighbors"} => EndsAreShown(job)
  BY <1>1 DEF Collected, Closed, Collecting
<1>3. job.since = writes => Exact("scan", job, db)
  BY <1>1 DEF Collected, Quiet
<1>4. CASE job.todo = {} /\ Goto("done", job)
  <2>1. Closed("done", job)
    BY <1>2, <1>4 DEF Closed, Collecting
  <2>2. job.since = writes => Exact("done", job, db)
    BY <1>3 DEF Exact, Collecting, Conflicting
  <2> QED
    BY <1>4, <2>1, <2>2, CollectedMoves
<1>5. ASSUME NEW i \in job.todo,
             LET out == EdgesFrom(db, i)
                 j == [job EXCEPT !.cur = At(i, 0, 0, <<>>), !.todo = @ \ {i}]
             IN  CASE job.kind = "conflicts" ->
                        Goto("peers", [j EXCEPT !.pending =
                                         OfTypes(out, {"contradicts"})])
                   [] job.kind = "stats" ->
                        Goto("scan", [j EXCEPT !.edges = @ \cup out])
                   [] job.kind \notin {"conflicts", "stats"} ->
                        Goto("scanIn", [j EXCEPT !.pending = out])
      PROVE  Collected'
  <2> DEFINE it == At(i, 0, 0, <<>>)
             rest == job.todo \ {i}
             out == EdgesFrom(db, i)
             some == OfTypes(out, {"contradicts"})
             j == [job EXCEPT !.cur = it, !.todo = rest]
  <2>1. \/ job.kind = "conflicts" /\ Goto("peers", [j EXCEPT !.pending = some])
        \/ /\ job.kind = "stats"
           /\ Goto("scan", [j EXCEPT !.edges = @ \cup out])
        \/ /\ job.kind \notin {"conflicts", "stats"}
           /\ Goto("scanIn", [j EXCEPT !.pending = out])
    BY <1>5
  <2>2. it.id = i
    BY DEF At
  <2>3. \A x \in out : x.from # x.to /\ i \in {x.from, x.to}
    BY <1>1, PresentEnds
  <2>4. job.nodes \ rest = (job.nodes \ job.todo) \cup {i}
        /\ rest \cup {i} = job.todo /\ i \in job.nodes \ rest
    BY <1>2, <1>5
  <2>5. job.since = writes => job.edges = Owed(db, job, job.nodes \ job.todo)
    BY <1>3 DEF Exact
  <2>6. Owed(db, job, job.nodes \ rest)
          = Owed(db, job, job.nodes \ job.todo)
              \cup Shown(job, Read(db, job.kind, i))
    <3> DEFINE old == job.nodes \ job.todo
               new == job.nodes \ rest
    <3>1. new = old \cup {i}
      BY <2>4
    <3> HIDE DEF old, new
    <3>2. Owed(db, job, new) = Owed(db, job, old)
                                 \cup Shown(job, Read(db, job.kind, i))
      BY <3>1 DEF Owed, Shown
    <3> QED
      BY <3>2 DEF old, new
  <2> HIDE DEF it, out
  <2>7. /\ DOMAIN j = Fields /\ j.cur = it /\ j.todo = rest
        /\ j.since = job.since /\ j.kind = job.kind /\ j.nodes = job.nodes
        /\ j.edges = job.edges /\ j.external = job.external
        /\ j.missing = job.missing
    BY <1>1 DEF Fields
  <2>8. EndsAreShown(job) => EndsAreShown(j)
    <3> HIDE DEF j
    <3> QED
      BY <2>7 DEF EndsAreShown
  <2> HIDE DEF j, rest, some
  <2>9. CASE /\ job.kind = "conflicts"
             /\ Goto("peers", [j EXCEPT !.pending = some])
    <3> DEFINE m == [j EXCEPT !.pending = some]
    <3>1. /\ m.cur = it /\ m.todo = rest /\ m.since = job.since
          /\ m.kind = job.kind /\ m.nodes = job.nodes
          /\ m.edges = job.edges /\ m.pending = some
      BY <2>7 DEF Fields
    <3>2. Goto("peers", m)
      BY <2>9
    <3> HIDE DEF m
    <3>3. Closed("peers", m)
      <4>1. \A x \in some : x.from # x.to /\ i \in {x.from, x.to}
        BY <2>3 DEF some, OfTypes
      <4> QED
        BY <1>2, <2>2, <2>4, <2>9, <3>1, <4>1 DEF Closed, Collecting, AtHand, rest
    <3>4. some = Read(db, job.kind, i)
      BY <1>1, <2>9, ReadFacts DEF some, out
    <3>5. /\ Owed(db, m, job.nodes \ rest) = Owed(db, job, job.nodes \ rest)
          /\ Shown(m, some) = Shown(job, some)
      BY <3>1, OwedIsTheSame
    <3>6. m.since = writes => Exact("peers", m, db)
      BY <2>2, <2>5, <2>6, <2>9, <3>1, <3>4, <3>5 DEF Exact
    <3> QED
      BY <3>2, <3>3, <3>6, CollectedMoves
  <2>10. CASE /\ job.kind = "stats"
              /\ Goto("scan", [j EXCEPT !.edges = @ \cup out])
    <3> DEFINE es == j.edges \cup out
               m == [j EXCEPT !.edges = es]
    <3>1. /\ m.cur = it /\ m.todo = rest /\ m.since = job.since
          /\ m.kind = job.kind /\ m.nodes = job.nodes
          /\ m.edges = job.edges \cup out
      BY <2>7 DEF Fields
    <3>2. Goto("scan", m)
      BY <2>10
    <3> HIDE DEF m
    <3>3. Closed("scan", m)
      BY <1>2, <2>4, <2>10, <3>1 DEF Closed, Collecting, rest
    <3>4. out = Read(db, job.kind, i)
      BY <1>1, <2>10, ReadFacts DEF out
    <3>5. /\ Owed(db, m, job.nodes \ rest) = Owed(db, job, job.nodes \ rest)
          /\ Shown(job, out) = out
      BY <2>10, <3>1, OwedIsTheSame, ShownFacts
    <3>6. m.since = writes => Exact("scan", m, db)
      BY <2>5, <2>6, <2>10, <3>1, <3>4, <3>5 DEF Exact
    <3> QED
      BY <3>2, <3>3, <3>6, CollectedMoves
  <2>11. CASE /\ job.kind \notin {"conflicts", "stats"}
              /\ Goto("scanIn", [j EXCEPT !.pending = out])
    <3> DEFINE m == [j EXCEPT !.pending = out]
    <3>1. /\ m.cur = it /\ m.todo = rest /\ m.since = job.since
          /\ m.kind = job.kind /\ m.nodes = job.nodes /\ m.pending = out
          /\ m.edges = job.edges /\ m.external = job.external
          /\ m.missing = job.missing
      BY <2>7 DEF Fields
    <3>2. Goto("scanIn", m)
      BY <2>11
    <3> HIDE DEF m
    <3>3. EndsAreShown(job) => EndsAreShown(m)
      BY <3>1 DEF EndsAreShown
    <3>4. Closed("scanIn", m)
      BY <1>2, <2>2, <2>3, <2>4, <3>1, <3>3 DEF Closed, Collecting, AtHand, rest
    <3>5. Owed(db, m, job.nodes \ job.todo) = Owed(db, job, job.nodes \ job.todo)
      BY <3>1, OwedIsTheSame
    <3>6. /\ job.since = writes /\ job.kind \in {"graph", "entry"}
          => job.external = Ends(job.edges) \ job.nodes /\ job.missing = {}
      BY <1>3 DEF Exact, Collecting
    <3>7. m.since = writes => Exact("scanIn", m, db)
      BY <2>2, <2>4, <2>5, <3>1, <3>5, <3>6 DEF Exact, Conflicting, out
    <3> QED
      BY <3>2, <3>4, <3>7, CollectedMoves
  <2> QED
    BY <2>1, <2>9, <2>10, <2>11 DEF some
<1> QED
  BY <1>4, <1>5 DEF Scan

LEMMA AtHandFacts ==
    ASSUME Typed, Collected, pc \in {"scanIn", "conflicts", "peers"}
    PROVE  /\ job.kind \in Around /\ job.cur.id \in job.nodes \ job.todo
           /\ job.cur.id \in Ids
           /\ \A x \in job.pending : x.from # x.to /\ job.cur.id \in {x.from, x.to}
           /\ job.todo \subseteq job.nodes
           /\ job.kind \in {"entry", "show"} => \E i \in Ids : job.nodes = {i}
           /\ job.kind \in {"graph", "entry", "neighbors"} => EndsAreShown(job)
           /\ job.since = writes => Exact(pc, job, db)
           /\ Owed(db, job, job.nodes \ job.todo)
                = Owed(db, job, job.nodes \ (job.todo \cup {job.cur.id}))
                    \cup Shown(job, Read(db, job.kind, job.cur.id))
<1> DEFINE c == job.cur.id
           old == job.nodes \ (job.todo \cup {c})
           new == job.nodes \ job.todo
<1>1. job.kind \in Around /\ job.cur \in Item
  BY Remembered DEF Expected
<1>2. Closed(pc, job) /\ (job.since = writes => Exact(pc, job, db))
  BY <1>1 DEF Collected, Quiet
<1>3. AtHand(job) /\ pc \in Collecting /\ pc # "done"
  BY <1>2 DEF Closed, Collecting
<1>4. c \in new
  BY <1>3 DEF AtHand
<1>5. new = old \cup {c}
  BY <1>4
<1> HIDE DEF new, old
<1>6. Owed(db, job, new) = Owed(db, job, old)
                             \cup Shown(job, Read(db, job.kind, c))
  BY <1>5 DEF Owed, Shown
<1>7. c \in Ids
  BY <1>1 DEF Item
<1>8. /\ job.todo \subseteq job.nodes
      /\ job.kind \in {"entry", "show"} => \E i \in Ids : job.nodes = {i}
      /\ job.kind \in {"graph", "entry", "neighbors"} => EndsAreShown(job)
  BY <1>2, <1>3 DEF Closed
<1>9. \A x \in job.pending : x.from # x.to /\ job.cur.id \in {x.from, x.to}
  BY <1>3 DEF AtHand
<1> QED
  BY <1>1, <1>2, <1>4, <1>6, <1>7, <1>8, <1>9 DEF new, old

LEMMA ScanInCollects == ASSUME Typed, Collected, ScanIn PROVE Collected'
<1> DEFINE c == job.cur.id
           p == job.pending \cup EdgesTo(db, c)
           l == IF job.kind \in {"entry", "show"} THEN "conflicts" ELSE "peers"
           m == [job EXCEPT !.pending = p]
           old == job.nodes \ (job.todo \cup {c})
           new == job.nodes \ job.todo
<1>1. /\ IsJob(job) /\ DOMAIN job = Fields /\ db \in Database /\ Consistent(db)
      /\ pc = "scanIn" /\ job.kind \notin {"conflicts", "stats"}
  BY Remembered DEF ScanIn, Expected
<1>2. /\ job.kind \in Around /\ c \in new
      /\ \A x \in job.pending : x.from # x.to /\ c \in {x.from, x.to}
      /\ job.todo \subseteq job.nodes
      /\ job.kind \in {"entry", "show"} => \E i \in Ids : job.nodes = {i}
      /\ job.kind \in {"graph", "entry", "neighbors"} => EndsAreShown(job)
      /\ job.since = writes => Exact("scanIn", job, db)
      /\ Owed(db, job, new) = Owed(db, job, old)
                                \cup Shown(job, Read(db, job.kind, c))
  BY <1>1, AtHandFacts
<1>3. Goto(l, m)
  BY DEF ScanIn
<1>4. \A x \in p : x.from # x.to /\ c \in {x.from, x.to}
  BY <1>1, <1>2, PresentEnds
<1>5. Read(db, job.kind, c) = EdgesFrom(db, c) \cup EdgesTo(db, c)
  BY <1>1, ReadFacts
<1>6. job.since = writes =>
        /\ job.edges = Owed(db, job, old) /\ job.pending = EdgesFrom(db, c)
        /\ job.kind \in {"graph", "entry"} =>
             job.external = Ends(job.edges) \ job.nodes /\ job.missing = {}
  BY <1>2 DEF Exact, Collecting
<1>7. l \in {"conflicts", "peers"} /\ (l = "peers" => job.kind \notin {"entry", "show"})
  OBVIOUS
<1> HIDE DEF l, p
<1>8. /\ m.cur = job.cur /\ m.todo = job.todo /\ m.since = job.since
      /\ m.kind = job.kind /\ m.nodes = job.nodes /\ m.pending = p
      /\ m.edges = job.edges /\ m.external = job.external
      /\ m.missing = job.missing
  BY <1>1 DEF Fields
<1> HIDE DEF m
<1>9. EndsAreShown(job) => EndsAreShown(m)
  BY <1>8 DEF EndsAreShown
<1>10. Closed(l, m)
  BY <1>2, <1>4, <1>7, <1>8, <1>9 DEF Closed, Collecting, AtHand
<1>11. /\ Owed(db, m, new) = Owed(db, job, new)
       /\ Owed(db, m, old) = Owed(db, job, old)
       /\ Shown(m, p) = Shown(job, p)
  BY <1>8, OwedIsTheSame
<1>12. ASSUME job.since = writes PROVE Exact(l, m, db)
  <2>1. p = EdgesFrom(db, c) \cup EdgesTo(db, c)
    BY <1>6, <1>12 DEF p
  <2>2. p = Read(db, job.kind, c)
    BY <1>5, <2>1
  <2> HIDE DEF new, old
  <2>3. job.edges \cup Shown(m, p) = Owed(db, m, new)
    BY <1>2, <1>6, <1>11, <1>12, <2>2
  <2> USE DEF new, old
  <2>4. CASE l = "conflicts"
    BY <1>6, <1>8, <1>11, <1>12, <2>1, <2>4 DEF Exact, Conflicting
  <2>5. CASE l = "peers"
    BY <1>6, <1>7, <1>8, <1>12, <2>2, <2>3, <2>5 DEF Exact
  <2> QED
    BY <1>7, <2>4, <2>5
<1> QED
  BY <1>3, <1>8, <1>10, <1>12, CollectedMoves

LEMMA ConflictsCollect == ASSUME Typed, Collected, EntryConflicts PROVE Collected'
<1> DEFINE c == job.cur.id
           f == FindConflicts(db, c)
           m == [job EXCEPT !.conflicts = f]
           old == job.nodes \ (job.todo \cup {c})
           new == job.nodes \ job.todo
<1>1. /\ IsJob(job) /\ DOMAIN job = Fields
      /\ pc = "conflicts" /\ job.kind \in {"entry", "show"}
  BY Remembered DEF EntryConflicts, Expected
<1>2. /\ job.kind \in Around /\ c \in new
      /\ \A x \in job.pending : x.from # x.to /\ c \in {x.from, x.to}
      /\ job.todo \subseteq job.nodes
      /\ job.kind \in {"entry", "show"} => \E i \in Ids : job.nodes = {i}
      /\ job.kind \in {"graph", "entry", "neighbors"} => EndsAreShown(job)
      /\ job.since = writes => Exact("conflicts", job, db)
      /\ Owed(db, job, new) = Owed(db, job, old)
                                \cup Shown(job, Read(db, job.kind, c))
  BY <1>1, AtHandFacts
<1>3. Goto("peers", m)
  BY DEF EntryConflicts
<1>4. Read(db, job.kind, c) = EdgesFrom(db, c) \cup EdgesTo(db, c)
  BY <1>1, Remembered, ReadFacts
<1>5. job.since = writes =>
        /\ job.edges = Owed(db, job, old) /\ job.pending = Read(db, job.kind, c)
        /\ job.kind \in {"graph", "entry"} =>
             job.external = Ends(job.edges) \ job.nodes /\ job.missing = {}
  BY <1>2, <1>4 DEF Exact, Collecting
<1> HIDE DEF f
<1>6. /\ m.cur = job.cur /\ m.todo = job.todo /\ m.since = job.since
      /\ m.kind = job.kind /\ m.nodes = job.nodes /\ m.pending = job.pending
      /\ m.edges = job.edges /\ m.external = job.external
      /\ m.missing = job.missing /\ m.conflicts = f
  BY <1>1 DEF Fields
<1> HIDE DEF m
<1>7. EndsAreShown(job) => EndsAreShown(m)
  BY <1>6 DEF EndsAreShown
<1>8. Closed("peers", m)
  BY <1>2, <1>6, <1>7 DEF Closed, Collecting, AtHand
<1>9. /\ Owed(db, m, new) = Owed(db, job, new)
      /\ Shown(m, job.pending) = Shown(job, job.pending)
  BY <1>6, OwedIsTheSame
<1>10. ASSUME job.since = writes PROVE Exact("peers", m, db)
  <2> HIDE DEF new, old
  <2>1. job.edges \cup Shown(m, job.pending) = Owed(db, m, new)
    BY <1>2, <1>5, <1>9, <1>10
  <2> USE DEF new, old
  <2> QED
    BY <1>5, <1>6, <1>10, <2>1 DEF Exact, Conflicting, f
<1> QED
  BY <1>3, <1>6, <1>8, <1>10, CollectedMoves

\* known show and buildMesh take what was read as it is.
LEMMA EdgesCollect ==
    ASSUME Typed, Collected, ShowEdges \/ MeshEdges PROVE Collected'
<1> DEFINE c == job.cur.id
           es == job.edges \cup Shown(job, job.pending)
           m == [job EXCEPT !.pending = {}, !.edges = es]
           new == job.nodes \ job.todo
<1>1. /\ IsJob(job) /\ DOMAIN job = Fields
      /\ pc = "peers" /\ job.kind \in {"show", "neighbors"}
  BY Remembered DEF ShowEdges, MeshEdges
<1>2. /\ job.kind \in Around /\ c \in new
      /\ \A x \in job.pending : x.from # x.to /\ c \in {x.from, x.to}
      /\ job.todo \subseteq job.nodes
      /\ job.kind \in {"entry", "show"} => \E i \in Ids : job.nodes = {i}
      /\ job.kind \in {"graph", "entry", "neighbors"} => EndsAreShown(job)
      /\ job.since = writes => Exact("peers", job, db)
  BY <1>1, AtHandFacts
<1>3. Goto("scan", m)
  <2>1. CASE ShowEdges
    <3>1. Shown(job, job.pending) = job.pending
      BY <2>1 DEF ShowEdges, Shown
    <3> QED
      BY <2>1, <3>1 DEF ShowEdges
  <2>2. CASE MeshEdges
    <3>1. Shown(job, job.pending) = {x \in job.pending :
                                       {x.from, x.to} \subseteq job.nodes}
      BY <2>2 DEF MeshEdges, Shown
    <3> QED
      BY <2>2, <3>1 DEF MeshEdges
  <2> QED
    BY <2>1, <2>2
<1>4. job.kind = "neighbors" =>
        \A x \in Shown(job, job.pending) : /\ {x.from, x.to} \subseteq job.nodes
                                           /\ {x.from, x.to} \cap job.nodes # {}
  BY DEF Shown
<1> HIDE DEF es
<1>5. /\ m.cur = job.cur /\ m.todo = job.todo /\ m.since = job.since
      /\ m.kind = job.kind /\ m.nodes = job.nodes
      /\ m.edges = es /\ m.external = job.external
      /\ m.missing = job.missing /\ m.conflicts = job.conflicts
  BY <1>1 DEF Fields
<1> HIDE DEF m
<1>6. job.kind = "neighbors" => EndsAreShown(m)
  BY <1>2, <1>4, <1>5 DEF EndsAreShown, es
<1>7. Closed("scan", m)
  BY <1>1, <1>2, <1>5, <1>6 DEF Closed, Collecting
<1>8. Owed(db, m, new) = Owed(db, job, new)
  BY <1>5, OwedIsTheSame
<1>9. ASSUME job.since = writes PROVE Exact("scan", m, db)
  <2>1. es = Owed(db, m, new)
    BY <1>2, <1>8, <1>9 DEF Exact, es
  <2>2. job.kind = "show" => /\ job.conflicts = FindConflicts(db, c)
                             /\ job.nodes = {c}
    <3>1. job.kind = "show" => job.conflicts = FindConflicts(db, c)
      BY <1>2, <1>9 DEF Exact, Conflicting, Collecting
    <3> QED
      BY <1>2, <3>1
  <2> QED
    BY <1>1, <1>5, <2>1, <2>2 DEF Exact, Conflicting
<1> QED
  BY <1>3, <1>5, <1>7, <1>9, CollectedMoves

\* An edge whose other end is known, found, or gone.
Dealt(m, x) ==
    LET peer == Other(x, job.cur.id)
    IN  /\ m.pending = job.pending \ {x} /\ m.cur = job.cur
        /\ m.todo = job.todo /\ m.since = job.since /\ m.kind = job.kind
        /\ m.nodes = job.nodes /\ m.conflicts = job.conflicts
        /\ \/ /\ job.kind = "graph" /\ peer \in job.nodes \cup job.external
              /\ m.edges = job.edges \cup {x} /\ m.external = job.external
              /\ m.missing = job.missing
           \/ /\ job.kind = "graph" => peer \notin job.nodes
              /\ Live(db, peer)
              /\ m.edges = job.edges \cup {x}
              /\ m.external = job.external \cup {peer}
              /\ m.missing = job.missing
           \/ /\ job.kind = "entry" /\ ~Live(db, peer)
              /\ m.edges = job.edges \cup {x} /\ m.external = job.external
              /\ m.missing = job.missing \cup {peer}
           \/ /\ job.kind # "entry"
              /\ ~Live(db, peer) \/ (job.kind = "graph" /\ peer \in job.missing)
              /\ m.edges = job.edges /\ m.external = job.external

LEMMA PeersAreDealt ==
    ASSUME Typed, GraphPeers \/ LookUpPeers
    PROVE  /\ pc = "peers" /\ job.kind \in {"graph", "entry", "conflicts"}
           /\ \/ job.pending = {} /\ Goto("scan", job)
              \/ \E x \in job.pending : \E m : Dealt(m, x) /\ Goto("peers", m)
<1>1. DOMAIN job = Fields
  BY Remembered
<1>2. ASSUME NEW x \in job.pending
      PROVE  LET peer == Other(x, job.cur.id)
                 j == Taken(x)
                 shown == [j EXCEPT !.edges = @ \cup {x}]
                 gone == [j EXCEPT !.missing = @ \cup {peer}]
                 found == [j EXCEPT !.edges = @ \cup {x},
                                    !.external = @ \cup {peer}]
                 lost == [j EXCEPT !.edges = @ \cup {x},
                                   !.missing = @ \cup {peer}]
             IN  /\ job.kind = "graph" /\ peer \in job.nodes \cup job.external
                      => Dealt(shown, x)
                 /\ (job.kind = "graph" => peer \notin job.nodes) /\ Live(db, peer)
                      => Dealt(found, x)
                 /\ job.kind = "entry" /\ ~Live(db, peer) => Dealt(lost, x)
                 /\ /\ job.kind # "entry"
                    /\ ~Live(db, peer) \/ (job.kind = "graph" /\ peer \in job.missing)
                    => Dealt(j, x) /\ Dealt(gone, x)
  <2> DEFINE peer == Other(x, job.cur.id)
             j == Taken(x)
             es == j.edges \cup {x}
             ext == j.external \cup {peer}
             miss == j.missing \cup {peer}
  <2>1. /\ DOMAIN j = Fields /\ j.edges = job.edges
        /\ j.external = job.external /\ j.missing = job.missing
        /\ j.pending = job.pending \ {x} /\ j.cur = job.cur
        /\ j.todo = job.todo /\ j.since = job.since /\ j.kind = job.kind
        /\ j.nodes = job.nodes /\ j.conflicts = job.conflicts
    BY <1>1 DEF Taken, Fields
  <2>2. es = job.edges \cup {x} /\ ext = job.external \cup {peer}
        /\ miss = job.missing \cup {peer}
    BY <2>1
  <2> HIDE DEF j, es, ext, miss
  <2>4. LET m == [j EXCEPT !.edges = es]
        IN  /\ m.edges = es /\ m.external = j.external /\ m.missing = j.missing
            /\ m.pending = j.pending /\ m.cur = j.cur
            /\ m.todo = j.todo /\ m.since = j.since /\ m.kind = j.kind
            /\ m.nodes = j.nodes /\ m.conflicts = j.conflicts
    BY <2>1 DEF Fields
  <2>5. LET m == [j EXCEPT !.missing = miss]
        IN  /\ m.edges = j.edges /\ m.external = j.external
            /\ m.pending = j.pending /\ m.cur = j.cur
            /\ m.todo = j.todo /\ m.since = j.since /\ m.kind = j.kind
            /\ m.nodes = j.nodes /\ m.conflicts = j.conflicts
    BY <2>1 DEF Fields
  <2>6. LET m == [j EXCEPT !.edges = es, !.external = ext]
        IN  /\ m.edges = es /\ m.external = ext /\ m.missing = j.missing
            /\ m.pending = j.pending /\ m.cur = j.cur
            /\ m.todo = j.todo /\ m.since = j.since /\ m.kind = j.kind
            /\ m.nodes = j.nodes /\ m.conflicts = j.conflicts
    BY <2>1 DEF Fields
  <2>7. LET m == [j EXCEPT !.edges = es, !.missing = miss]
        IN  /\ m.edges = es /\ m.external = j.external /\ m.missing = miss
            /\ m.pending = j.pending /\ m.cur = j.cur
            /\ m.todo = j.todo /\ m.since = j.since /\ m.kind = j.kind
            /\ m.nodes = j.nodes /\ m.conflicts = j.conflicts
    BY <2>1 DEF Fields
  <2>8. /\ job.kind = "graph" /\ peer \in job.nodes \cup job.external
        => Dealt([j EXCEPT !.edges = es], x)
    BY <2>1, <2>2, <2>4 DEF Dealt
  <2>9. /\ (job.kind = "graph" => peer \notin job.nodes) /\ Live(db, peer)
        => Dealt([j EXCEPT !.edges = es, !.external = ext], x)
    BY <2>1, <2>2, <2>6 DEF Dealt
  <2>10. job.kind = "entry" /\ ~Live(db, peer)
         => Dealt([j EXCEPT !.edges = es, !.missing = miss], x)
    BY <2>1, <2>2, <2>7 DEF Dealt
  <2>11. /\ job.kind # "entry"
         /\ ~Live(db, peer) \/ (job.kind = "graph" /\ peer \in job.missing)
         => Dealt(j, x) /\ Dealt([j EXCEPT !.missing = miss], x)
    BY <2>1, <2>2, <2>5 DEF Dealt
  <2> QED
    BY <2>8, <2>9, <2>10, <2>11 DEF j, es, ext, miss
<1>3. CASE GraphPeers
  <2>1. ASSUME NEW x \in job.pending,
               LET peer == Other(x, job.cur.id)
                   j == Taken(x)
               IN  IF peer \in job.nodes \cup job.external
                   THEN Goto("peers", [j EXCEPT !.edges = @ \cup {x}])
                   ELSE IF peer \in job.missing THEN Goto("peers", j)
                   ELSE IF Live(db, peer)
                   THEN Goto("peers", [j EXCEPT !.edges = @ \cup {x},
                                                !.external = @ \cup {peer}])
                   ELSE Goto("peers", [j EXCEPT !.missing = @ \cup {peer}])
        PROVE  \E m : Dealt(m, x) /\ Goto("peers", m)
    <3> DEFINE peer == Other(x, job.cur.id)
    <3>1. CASE peer \in job.nodes \cup job.external
      BY <1>2, <1>3, <2>1, <3>1 DEF GraphPeers
    <3>2. CASE peer \notin job.nodes \cup job.external /\ peer \in job.missing
      BY <1>2, <1>3, <2>1, <3>2 DEF GraphPeers
    <3>3. CASE /\ peer \notin job.nodes \cup job.external
               /\ peer \notin job.missing /\ Live(db, peer)
      BY <1>2, <1>3, <2>1, <3>3 DEF GraphPeers
    <3>4. CASE /\ peer \notin job.nodes \cup job.external
               /\ peer \notin job.missing /\ ~Live(db, peer)
      BY <1>2, <1>3, <2>1, <3>4 DEF GraphPeers
    <3> QED
      BY <3>1, <3>2, <3>3, <3>4
  <2> QED
    BY <1>3, <2>1 DEF GraphPeers, Taken
<1>4. CASE LookUpPeers
  <2>1. ASSUME NEW x \in job.pending,
               LET peer == Other(x, job.cur.id)
                   j == Taken(x)
               IN  IF Live(db, peer)
                   THEN Goto("peers", [j EXCEPT !.edges = @ \cup {x},
                                                !.external = @ \cup {peer}])
                   ELSE IF job.kind = "entry"
                   THEN Goto("peers", [j EXCEPT !.edges = @ \cup {x},
                                                !.missing = @ \cup {peer}])
                   ELSE Goto("peers", j)
        PROVE  \E m : Dealt(m, x) /\ Goto("peers", m)
    <3> DEFINE peer == Other(x, job.cur.id)
    <3>1. CASE Live(db, peer)
      BY <1>2, <1>4, <2>1, <3>1 DEF LookUpPeers
    <3>2. CASE ~Live(db, peer) /\ job.kind = "entry"
      BY <1>2, <1>4, <2>1, <3>2 DEF LookUpPeers
    <3>3. CASE ~Live(db, peer) /\ job.kind # "entry"
      BY <1>2, <1>4, <2>1, <3>3 DEF LookUpPeers
    <3> QED
      BY <3>1, <3>2, <3>3
  <2> QED
    BY <1>4, <2>1 DEF LookUpPeers, Taken
<1> QED
  BY <1>3, <1>4

LEMMA DealtCollects ==
    ASSUME Typed, Collected, pc = "peers",
           job.kind \in {"graph", "entry", "conflicts"},
           NEW x \in job.pending, NEW m, Dealt(m, x), Goto("peers", m)
    PROVE  Collected'
<1> DEFINE c == job.cur.id
           peer == Other(x, c)
           new == job.nodes \ job.todo
<1>1. /\ c \in new
      /\ \A y \in job.pending : y.from # y.to /\ c \in {y.from, y.to}
      /\ job.todo \subseteq job.nodes
      /\ job.kind \in {"entry", "show"} => \E i \in Ids : job.nodes = {i}
      /\ job.kind \in {"graph", "entry", "neighbors"} => EndsAreShown(job)
      /\ job.since = writes => Exact("peers", job, db)
  BY AtHandFacts
<1>2. {x.from, x.to} = {c, peer} /\ peer # c
  BY <1>1 DEF Other
<1>3. job.kind = "entry" => peer \notin job.nodes
  BY <1>1, <1>2
<1>4. /\ m.pending = job.pending \ {x} /\ m.cur = job.cur
      /\ m.todo = job.todo /\ m.since = job.since /\ m.kind = job.kind
      /\ m.nodes = job.nodes /\ m.conflicts = job.conflicts
  BY DEF Dealt
<1>5. \/ /\ job.kind = "graph" /\ peer \in job.nodes \cup job.external
         /\ m.edges = job.edges \cup {x} /\ m.external = job.external
         /\ m.missing = job.missing
      \/ /\ job.kind = "graph" => peer \notin job.nodes
         /\ Live(db, peer)
         /\ m.edges = job.edges \cup {x}
         /\ m.external = job.external \cup {peer}
         /\ m.missing = job.missing
      \/ /\ job.kind = "entry" /\ ~Live(db, peer)
         /\ m.edges = job.edges \cup {x} /\ m.external = job.external
         /\ m.missing = job.missing \cup {peer}
      \/ /\ job.kind # "entry"
         /\ ~Live(db, peer) \/ (job.kind = "graph" /\ peer \in job.missing)
         /\ m.edges = job.edges /\ m.external = job.external
  BY DEF Dealt
<1> HIDE DEF peer, c
<1>6. ASSUME job.kind \in {"graph", "entry"} PROVE EndsAreShown(m)
  <2>1. EndsAreShown(job)
    BY <1>1, <1>6
  <2>2. m.nodes \cap m.external = {}
    BY <1>3, <1>4, <1>5, <1>6, <2>1 DEF EndsAreShown
  <2> DEFINE all == m.nodes \cup m.external
                      \cup (IF m.kind = "entry" THEN m.missing ELSE {})
  <2>3. ASSUME NEW y \in m.edges
        PROVE  {y.from, y.to} \subseteq all /\ {y.from, y.to} \cap m.nodes # {}
    <3>1. CASE y \in job.edges
      <4>1. job.nodes \cup job.external
              \cup (IF job.kind = "entry" THEN job.missing ELSE {}) \subseteq all
        BY <1>4, <1>5
      <4> HIDE DEF all
      <4> QED
        BY <1>4, <2>1, <3>1, <4>1 DEF EndsAreShown
    <3>2. CASE y \notin job.edges
      <4>1. y = x
        BY <1>5, <3>2
      <4>2. c \in all /\ c \in m.nodes
        BY <1>1, <1>4
      <4>3. peer \in all
        BY <1>4, <1>5, <1>6, <3>2
      <4> HIDE DEF all
      <4> QED
        BY <1>2, <4>1, <4>2, <4>3
    <3> QED
      BY <3>1, <3>2
  <2> QED
    BY <2>2, <2>3 DEF EndsAreShown
<1>7. Closed("peers", m)
  BY <1>1, <1>4, <1>6 DEF Closed, Collecting, AtHand, c
<1>8. ASSUME job.since = writes PROVE Exact("peers", m, db)
  <2>1. /\ job.pending \subseteq Read(db, job.kind, c)
        /\ job.edges \cup Shown(job, job.pending) = Owed(db, job, new)
        /\ job.kind \in {"graph", "entry"} =>
             job.external = Ends(job.edges) \ job.nodes /\ job.missing = {}
        /\ job.kind \in {"entry", "show"} => job.conflicts = FindConflicts(db, c)
    BY <1>1, <1>8 DEF Exact, Collecting, Conflicting, c
  <2>2. Live(db, peer)
    <3>1. x \in EdgesFrom(db, c) \cup EdgesTo(db, c)
      BY <2>1, Remembered, ReadFacts
    <3>2. Live(db, x.from) /\ Live(db, x.to)
      BY <3>1, Remembered, PresentEnds
    <3> QED
      BY <3>2 DEF peer, Other
  <2>3. /\ m.edges = job.edges \cup {x}
        /\ job.kind \in {"graph", "entry"} => m.missing = {}
        /\ \/ job.kind = "graph" /\ peer \in job.nodes \cup job.external
              /\ m.external = job.external
           \/ /\ job.kind = "graph" => peer \notin job.nodes
              /\ m.external = job.external \cup {peer}
    BY <1>5, <2>1, <2>2
  <2>4. Shown(job, job.pending) = job.pending /\ Shown(m, m.pending) = m.pending
    BY <1>4 DEF Shown
  <2>5. Owed(db, m, new) = Owed(db, job, new)
    BY <1>4, OwedIsTheSame
  <2>6. m.edges \cup m.pending = job.edges \cup job.pending
    BY <1>4, <2>3
  <2>7. ASSUME job.kind \in {"graph", "entry"}
        PROVE  m.external = Ends(m.edges) \ m.nodes
    <3>1. Ends(m.edges) = Ends(job.edges) \cup {c, peer}
      BY <1>2, <2>3 DEF Ends
    <3>2. job.external = Ends(job.edges) \ job.nodes
      BY <2>1, <2>7
    <3>3. c \in job.nodes
      BY <1>1
    <3> QED
      BY <1>3, <1>4, <2>3, <2>7, <3>1, <3>2, <3>3
  <2>8. m.pending \subseteq Read(db, m.kind, c)
    BY <1>4, <2>1
  <2> HIDE DEF new
  <2>9. m.edges \cup Shown(m, m.pending) = Owed(db, m, new)
    BY <2>1, <2>4, <2>5, <2>6
  <2> QED
    BY <1>4, <2>1, <2>3, <2>7, <2>8, <2>9 DEF Exact, Collecting, Conflicting, new, c
<1> QED
  BY <1>4, <1>7, <1>8, CollectedMoves

LEMMA PeersCollect ==
    ASSUME Typed, Collected, GraphPeers \/ LookUpPeers PROVE Collected'
<1>1. /\ pc = "peers" /\ job.kind \in {"graph", "entry", "conflicts"}
      /\ \/ job.pending = {} /\ Goto("scan", job)
         \/ \E x \in job.pending : \E m : Dealt(m, x) /\ Goto("peers", m)
  BY PeersAreDealt
<1>2. CASE job.pending = {} /\ Goto("scan", job)
  <2>1. /\ job.cur.id \in job.nodes \ job.todo
        /\ job.todo \subseteq job.nodes
        /\ job.kind \in {"entry", "show"} => \E i \in Ids : job.nodes = {i}
        /\ job.kind \in {"graph", "entry", "neighbors"} => EndsAreShown(job)
        /\ job.since = writes => Exact("peers", job, db)
    BY <1>1, AtHandFacts
  <2>2. Closed("scan", job)
    BY <2>1 DEF Closed, Collecting
  <2>3. ASSUME job.since = writes PROVE Exact("scan", job, db)
    <3>1. Shown(job, job.pending) = {}
      BY <1>2 DEF Shown
    <3>2. job.edges = Owed(db, job, job.nodes \ job.todo)
      BY <2>1, <2>3, <3>1 DEF Exact
    <3>3. job.kind = "entry" =>
            job.conflicts = FindConflicts(db, job.cur.id)
      BY <2>1, <2>3 DEF Exact, Collecting, Conflicting
    <3>4. job.kind = "entry" => job.nodes = {job.cur.id}
      BY <2>1
    <3>5. job.kind \in {"graph", "entry"} =>
            job.external = Ends(job.edges) \ job.nodes /\ job.missing = {}
      BY <2>1, <2>3 DEF Exact, Collecting
    <3> QED
      BY <1>1, <3>2, <3>3, <3>4, <3>5 DEF Exact, Collecting, Conflicting
  <2> QED
    BY <1>2, <2>2, <2>3, CollectedMoves
<1> QED
  BY <1>1, <1>2, DealtCollects

\* Nothing is collected outside the loop over the entries.
LEMMA ElsewhereCollects ==
    ASSUME NEW l, l \notin Collecting, NEW m, Goto(l, m),
           m.kind \in Around => m.edges = {} /\ m.external = {}
    PROVE  Collected'
<1>1. m.kind \in Around => Closed(l, m) /\ Exact(l, m, db)
  BY DEF Closed, Exact, Conflicting, Collecting
<1> QED
  BY <1>1, CollectedMoves

LEMMA OthersCollect == ASSUME job'.kind \notin Around PROVE Collected'
  BY DEF Collected

LEMMA TracingCollects ==
    ASSUME Typed, HandleNeighbors \/ Related \/ HandlePath \/ RunPath
    PROVE  Collected'
<1>1. PICK j : TracingJob(j)
  BY TracingAsks
<1>2. j.edges = {} /\ j.external = {} /\ DOMAIN j = Fields
  BY <1>1 DEF TracingJob, IsJob
<1>3. CASE Goto("walk", Walk(j, j.start, 0))
  <2> DEFINE m == Walk(j, j.start, 0)
  <2>1. m.edges = {} /\ m.external = {}
    BY <1>2 DEF Walk, Fields
  <2> HIDE DEF m
  <2> QED
    BY <1>3, <2>1, ElsewhereCollects DEF Collecting, m
<1>4. CASE Goto("pathTo", j)
  BY <1>2, <1>4, ElsewhereCollects DEF Collecting
<1> QED
  BY <1>1, <1>3, <1>4 DEF TracingJob

LEMMA SearchIsNotCollecting ==
    ASSUME NEW j, DOMAIN j = Fields, j.kind \notin Around,
           StartVector(j) \/ StartText(j) \/ Goto("list", j)
    PROVE  Collected'
<1>1. \A phase, q : [j EXCEPT !.phase = phase, !.ranked = q].kind = j.kind
  BY DEF Fields
<1> QED
  BY <1>1, OthersCollect DEF StartVector, StartText, Goto

LEMMA SearchesCollect ==
    ASSUME Typed,
           \/ SearchVector \/ SearchText \/ HandleSearch \/ SearchHybrid
           \/ Recall \/ ResolveEntry
    PROVE  Collected'
<1>1. PICK j : Asking(j)
  BY SearchesAsk
<1>2. DOMAIN j = Fields /\ j.kind \notin Around
  BY <1>1 DEF Asking, IsJob, Around, Expanding
<1> QED
  BY <1>1, <1>2, SearchIsNotCollecting DEF Asking

LEMMA ScopeCollects == ASSUME Typed, RecallByScope PROVE Collected'
<1>1. PICK j : Listing(j)
  BY ScopeAsks
<1> QED
  BY <1>1, OthersCollect DEF Listing, Goto, Around

\* The walk of the explorer's neighbours.
LEMMA WalksCollect ==
    ASSUME Typed, Collected, WalkOut \/ WalkIn \/ Visit \/ EndWalk \/ Enrich
    PROVE  Collected'
<1> DEFINE Carries(m) == /\ m.kind = job.kind /\ m.edges = job.edges
                         /\ m.external = job.external
<1>1. DOMAIN job = Fields /\ Expected(pc, job)
  BY Remembered
<1>2. ASSUME NEW l, l \notin Collecting, pc \notin Collecting,
             NEW m, Carries(m), Goto(l, m)
      PROVE  Collected'
  <2>1. m.kind \in Around => m.edges = {} /\ m.external = {}
    BY <1>2 DEF Collected, Closed
  <2> HIDE DEF Carries
  <2> QED
    BY <1>2, <2>1, ElsewhereCollects
<1>3. {"walk", "walkIn", "visit", "enrich"} \cap Collecting = {}
  BY DEF Collecting
<1>4. CASE WalkOut
  <2> DEFINE cur == Head(Expandable)
             j == [job EXCEPT !.cur = cur, !.queue = Tail(Expandable)]
  <2>1. \A p : Carries([j EXCEPT !.pending = p])
    BY <1>1 DEF Fields
  <2>2. pc = "walk" /\ job.dir \in {"out", "in", "both"}
    BY <1>4, Remembered DEF WalkOut, IsJob, Options
  <2> HIDE DEF Carries
  <2>3. \E p : \/ Goto("visit", [j EXCEPT !.pending = p])
               \/ Goto("walkIn", [j EXCEPT !.pending = p])
    <3>1. CASE job.dir = "in"
      BY <1>4, <3>1 DEF WalkOut
    <3>2. CASE job.dir = "out"
      BY <1>4, <3>2 DEF WalkOut
    <3>3. CASE job.dir = "both"
      BY <1>4, <3>3 DEF WalkOut
    <3> QED
      BY <2>2, <3>1, <3>2, <3>3
  <2> HIDE DEF j
  <2> QED
    BY <1>2, <1>3, <2>1, <2>2, <2>3
<1>5. CASE WalkIn
  <2> DEFINE p == job.pending \cup OfTypes(EdgesTo(db, job.cur.id), job.types)
             m == [job EXCEPT !.pending = p]
  <2>1. Goto("visit", m) /\ pc = "walkIn"
    BY <1>5 DEF WalkIn
  <2> HIDE DEF p
  <2>2. Carries(m)
    BY <1>1 DEF Fields
  <2> HIDE DEF m, Carries
  <2> QED
    BY <1>2, <1>3, <2>1, <2>2
<1>6. CASE Visit
  <2>1. pc = "visit"
    BY <1>6, VisitIs
  <2>2. CASE Fresh = {} /\ Goto("walk", [job EXCEPT !.pending = {}])
    <3>1. Carries([job EXCEPT !.pending = {}])
      BY <1>1 DEF Fields
    <3> HIDE DEF Carries
    <3> QED
      BY <1>2, <1>3, <2>1, <2>2, <3>1
  <2>3. ASSUME NEW x \in Fresh,
               LET peer == Other(x, job.cur.id)
                   j == Visited(x)
               IN  \/ /\ job.kind = "path" /\ peer = job.target
                      /\ Goto("build", [j EXCEPT
                                          !.path = Append(job.cur.path, x),
                                          !.visited = {job.start}])
                   \/ /\ job.kind = "path" /\ peer # job.target
                      /\ Goto("visit", Passed(j, peer, x))
                   \/ /\ job.kind # "path"
                      /\ Goto("visit", IF Live(db, peer)
                                       THEN Reached(j, peer, x) ELSE j)
        PROVE  Collected'
    <3> DEFINE peer == Other(x, job.cur.id)
               j == Visited(x)
    <3>1. Carries(j) /\ DOMAIN j = Fields
      BY <1>1 DEF Visited, Fields
    <3>2. CASE job.kind = "path"
      <4> DEFINE a == [j EXCEPT !.path = Append(job.cur.path, x),
                                !.visited = {job.start}]
                 b == Passed(j, peer, x)
      <4>1. a.kind = "path"
        BY <3>1, <3>2 DEF Fields
      <4>2. b.kind = "path"
        BY <3>1, <3>2 DEF Fields, Passed
      <4>3. job' = a \/ job' = b
        BY <2>3, <3>2 DEF Goto
      <4> HIDE DEF a, b
      <4> QED
        BY <4>1, <4>2, <4>3, OthersCollect DEF Around
    <3>3. CASE job.kind # "path" /\ Live(db, peer)
      <4> DEFINE m == Reached(j, peer, x)
      <4>1. Carries(m)
        BY <3>1 DEF Fields, Reached
      <4>2. Goto("visit", m)
        BY <2>3, <3>3
      <4> HIDE DEF m, Carries
      <4> QED
        BY <1>2, <1>3, <2>1, <4>1, <4>2
    <3>4. CASE job.kind # "path" /\ ~Live(db, peer)
      <4>1. Goto("visit", j)
        BY <2>3, <3>4
      <4> HIDE DEF j, Carries
      <4> QED
        BY <1>2, <1>3, <2>1, <3>1, <4>1
    <3> QED
      BY <3>2, <3>3, <3>4
  <2> QED
    BY <1>6, <2>2, <2>3, VisitIs
<1>7. CASE EndWalk
  <2>1. pc = "walk" /\ (\/ job.kind = "path" /\ Goto("done", job)
                        \/ Goto("enrich", [job EXCEPT !.at = 1]))
    BY <1>7 DEF EndWalk
  <2>2. CASE job.kind = "path" /\ Goto("done", job)
    BY <2>2, OthersCollect DEF Goto, Around
  <2>3. CASE Goto("enrich", [job EXCEPT !.at = 1])
    <3>1. Carries([job EXCEPT !.at = 1])
      BY <1>1 DEF Fields
    <3> HIDE DEF Carries
    <3> QED
      BY <1>2, <1>3, <2>1, <2>3, <3>1
  <2> QED
    BY <2>1, <2>2, <2>3
<1>8. CASE Enrich
  <2> DEFINE b == \/ job.results[job.at].conflict
                  \/ FindConflicts(db, job.results[job.at].id) # {}
             rs == [job.results EXCEPT ![job.at].conflict = b]
             m == [job EXCEPT !.at = @ + 1, !.results = rs]
  <2>1. pc = "enrich" /\ Goto("enrich", m)
    BY <1>8 DEF Enrich
  <2> HIDE DEF b, rs
  <2>2. Carries(m)
    BY <1>1 DEF Fields
  <2> HIDE DEF m, Carries
  <2> QED
    BY <1>2, <1>3, <2>1, <2>2
<1> QED
  BY <1>4, <1>5, <1>6, <1>7, <1>8

\* What was reached becomes the nodes whose edges are collected.
LEMMA EnrichedCollects == ASSUME Typed, Collected, Enriched PROVE Collected'
<1>1. DOMAIN job = Fields /\ pc = "enrich"
  BY Remembered, EnrichedIs
<1>2. CASE job.kind = "neighbors" /\ Goto("scan", [job EXCEPT !.todo = job.nodes])
  <2> DEFINE m == [job EXCEPT !.todo = job.nodes]
  <2>1. job.edges = {} /\ job.external = {}
    BY <1>1, <1>2 DEF Collected, Closed, Collecting, Around
  <2>2. /\ m.kind = "neighbors" /\ m.todo = job.nodes /\ m.nodes = job.nodes
        /\ m.edges = {} /\ m.external = {}
    BY <1>1, <1>2, <2>1 DEF Fields
  <2>3. Goto("scan", m)
    BY <1>2
  <2> HIDE DEF m
  <2>4. Closed("scan", m)
    BY <2>2 DEF Closed, Collecting, EndsAreShown
  <2>5. m.nodes \ m.todo = {}
    BY <2>2
  <2>6. Exact("scan", m, db)
    BY <2>2, <2>5, ShownFacts DEF Exact
  <2> QED
    BY <2>3, <2>4, <2>6, CollectedMoves
<1>3. CASE job.kind # "neighbors"
  <2>1. job.kind \notin Around
    BY <1>1, <1>3, Remembered
    DEF Expected, VectorPhase, TextPhase, HybridPhase, Expanding, Around
  <2>2. job'.kind = job.kind
    BY <1>1, <1>3, EnrichedIs DEF Goto, Show, Expand, Fields
  <2> QED
    BY <2>1, <2>2, OthersCollect
<1>4. job.kind = "neighbors" => Goto("scan", [job EXCEPT !.todo = job.nodes])
  BY EnrichedIs DEF VectorPhase, TextPhase, HybridPhase, Expanding
<1> QED
  BY <1>2, <1>3, <1>4

\* A step of a request leaves what it is asked.
LEMMA KeepsKind ==
    ASSUME Typed, Serve
    PROVE  job'.kind = job.kind \/ job' = NoJob
<1>1. DOMAIN job = Fields /\ Expected(pc, job)
  BY Remembered
<1>2. CASE Scan
  <2>1. CASE Goto("done", job)
    BY <2>1 DEF Goto
  <2>2. ASSUME NEW i \in job.todo,
               LET out == EdgesFrom(db, i)
                   j == [job EXCEPT !.cur = At(i, 0, 0, <<>>), !.todo = @ \ {i}]
               IN  \/ \E p : job' = [j EXCEPT !.pending = p]
                   \/ job' = [j EXCEPT !.edges = @ \cup out]
        PROVE  job'.kind = job.kind
    <3> DEFINE j == [job EXCEPT !.cur = At(i, 0, 0, <<>>), !.todo = @ \ {i}]
    <3>1. DOMAIN j = Fields /\ j.kind = job.kind
      BY <1>1 DEF Fields
    <3>2. \/ \E p : job' = [j EXCEPT !.pending = p]
          \/ job' = [j EXCEPT !.edges = @ \cup EdgesFrom(db, i)]
      BY <2>2
    <3> HIDE DEF j
    <3> QED
      BY <3>1, <3>2 DEF Fields
  <2>3. \/ Goto("done", job)
        \/ \E i \in job.todo :
             LET out == EdgesFrom(db, i)
                 j == [job EXCEPT !.cur = At(i, 0, 0, <<>>), !.todo = @ \ {i}]
             IN  \/ \E p : job' = [j EXCEPT !.pending = p]
                 \/ job' = [j EXCEPT !.edges = @ \cup out]
    <3>1. CASE job.kind = "conflicts"
      BY <1>2, <3>1 DEF Scan, Goto
    <3>2. CASE job.kind = "stats"
      BY <1>2, <3>2 DEF Scan, Goto
    <3>3. CASE job.kind \notin {"conflicts", "stats"}
      BY <1>2, <3>3 DEF Scan, Goto
    <3> QED
      BY <3>1, <3>2, <3>3
  <2> QED
    BY <2>1, <2>2, <2>3
<1>3. CASE ScanIn
  BY <1>1, <1>3 DEF ScanIn, Goto, Fields
<1>4. CASE EntryConflicts
  BY <1>1, <1>4 DEF EntryConflicts, Goto, Fields
<1>5. CASE ShowEdges \/ MeshEdges
  BY <1>1, <1>5 DEF ShowEdges, MeshEdges, Goto, Fields
<1>6. CASE GraphPeers \/ LookUpPeers
  BY <1>6, PeersAreDealt DEF Dealt, Goto
<1>7. CASE PathTo
  BY <1>1, <1>7 DEF PathTo, Walk, Goto, Fields
<1>8. CASE WalkOut
  <2> DEFINE cur == Head(Expandable)
             j == [job EXCEPT !.cur = cur, !.queue = Tail(Expandable)]
  <2>1. \A p : [j EXCEPT !.pending = p].kind = job.kind
    BY <1>1 DEF Fields
  <2>2. job.dir \in {"out", "in", "both"}
    BY Remembered DEF IsJob, Options
  <2>3. \E p : job' = [j EXCEPT !.pending = p]
    <3>1. CASE job.dir = "in"
      BY <1>8, <3>1 DEF WalkOut, Goto
    <3>2. CASE job.dir = "out"
      BY <1>8, <3>2 DEF WalkOut, Goto
    <3>3. CASE job.dir = "both"
      BY <1>8, <3>3 DEF WalkOut, Goto
    <3> QED
      BY <2>2, <3>1, <3>2, <3>3
  <2> HIDE DEF j
  <2> QED
    BY <2>1, <2>3
<1>9. CASE WalkIn
  BY <1>1, <1>9 DEF WalkIn, Goto, Fields
<1>10. CASE Visit
  <2>1. CASE Goto("walk", [job EXCEPT !.pending = {}])
    BY <1>1, <2>1 DEF Goto, Fields
  <2>2. ASSUME NEW x \in Fresh,
               LET peer == Other(x, job.cur.id)
                   j == Visited(x)
               IN  \/ job' = j
                   \/ job' = [j EXCEPT !.path = Append(job.cur.path, x),
                                       !.visited = {job.start}]
                   \/ job' = Passed(j, peer, x)
                   \/ job' = Reached(j, peer, x)
        PROVE  job'.kind = job.kind
    <3> DEFINE peer == Other(x, job.cur.id)
               j == Visited(x)
    <3>1. DOMAIN j = Fields /\ j.kind = job.kind
      BY <1>1 DEF Visited, Fields
    <3>2. \/ job' = j
          \/ job' = [j EXCEPT !.path = Append(job.cur.path, x),
                              !.visited = {job.start}]
          \/ job' = Passed(j, peer, x)
          \/ job' = Reached(j, peer, x)
      BY <2>2
    <3> HIDE DEF j
    <3>3. CASE job' = [j EXCEPT !.path = Append(job.cur.path, x),
                                !.visited = {job.start}]
      BY <3>1, <3>3 DEF Fields
    <3>4. CASE job' = Passed(j, peer, x)
      BY <3>1, <3>4 DEF Fields, Passed
    <3>5. CASE job' = Reached(j, peer, x)
      BY <3>1, <3>5 DEF Fields, Reached
    <3> QED
      BY <3>1, <3>2, <3>3, <3>4, <3>5
  <2>3. \/ Goto("walk", [job EXCEPT !.pending = {}])
        \/ \E x \in Fresh :
             LET peer == Other(x, job.cur.id)
                 j == Visited(x)
             IN  \/ job' = j
                 \/ job' = [j EXCEPT !.path = Append(job.cur.path, x),
                                     !.visited = {job.start}]
                 \/ job' = Passed(j, peer, x)
                 \/ job' = Reached(j, peer, x)
    BY <1>10, VisitIs DEF Goto
  <2> QED
    BY <2>1, <2>2, <2>3
<1>11. CASE EndWalk
  BY <1>1, <1>11 DEF EndWalk, Goto, Fields
<1>12. CASE Build
  <2> DEFINE hop == job.path[job.at]
             peer == IF hop.from \notin job.visited THEN hop.from ELSE hop.to
             j == [job EXCEPT !.at = @ + 1, !.visited = @ \cup {peer}]
             m == [j EXCEPT !.nodes = @ \cup {peer},
                        !.results = Append(@, Found(peer, 0, job.at)),
                        !.edges = @ \cup {job.path[n] : n \in 1..job.at}]
  <2>1. job' = j \/ job' = m
    BY <1>12 DEF Build, Goto
  <2>2. j.kind = job.kind /\ DOMAIN j = Fields
    BY <1>1 DEF Fields
  <2> HIDE DEF j
  <2>3. m.kind = job.kind
    BY <2>2 DEF Fields
  <2> HIDE DEF m
  <2> QED
    BY <2>1, <2>2, <2>3
<1>13. CASE Fetch
  <2>1. \A rs : [job EXCEPT !.ranked = <<>>, !.at = 1, !.results = rs].kind
                  = job.kind
    BY <1>1 DEF Fields
  <2> QED
    BY <1>13, <2>1 DEF Fetch, Goto
<1>14. CASE Enrich \/ Supersede
  <2>1. \A n, rs : [job EXCEPT !.at = n, !.results = rs].kind = job.kind
    BY <1>1 DEF Fields
  <2>2. CASE Enrich
    <3>1. \E n, rs : job' = [job EXCEPT !.at = n, !.results = rs]
      BY <2>2 DEF Enrich, Goto
    <3> QED
      BY <2>1, <3>1
  <2>3. CASE Supersede
    <3>1. \E n, rs : job' = [job EXCEPT !.at = n, !.results = rs]
      BY <2>3 DEF Supersede, Goto
    <3> QED
      BY <2>1, <3>1
  <2> QED
    BY <1>14, <2>2, <2>3
<1>15. CASE Enriched
  <2>1. /\ \A v : /\ [job EXCEPT !.todo = v].kind = job.kind
                 /\ [job EXCEPT !.start = v].kind = job.kind
                 /\ [job EXCEPT !.vector = v].kind = job.kind
        /\ \A n, v : [job EXCEPT !.at = n, !.results = v].kind = job.kind
        /\ \A n : [job EXCEPT !.at = n].kind = job.kind
        /\ \A v : [job EXCEPT !.results = v].kind = job.kind
    BY <1>1 DEF Fields
  <2>2. \A rs, v : [job EXCEPT !.phase = "hybrid", !.vector = rs,
                      !.seeds = rs, !.results = rs, !.visited = v].kind
                     = job.kind
    BY <1>1 DEF Fields
  <2>3. ASSUME NEW rs, Show(job, rs) PROVE job'.kind = job.kind
    BY <2>1, <2>3 DEF Show, Goto
  <2>4. ASSUME NEW rs, Expand(job, rs) PROVE job'.kind = job.kind
    BY <2>1, <2>2, <2>4 DEF Expand, Goto
  <2>5. ASSUME NEW l, NEW m, Goto(l, m), m.kind = job.kind
        PROVE  job'.kind = job.kind
    BY <2>5 DEF Goto
  <2>6. \/ Goto("done", job) \/ Goto("list", job)
        \/ Goto("scan", [job EXCEPT !.todo = job.nodes])
        \/ Goto("done", [job EXCEPT !.start = DominantMatch(job, job.results)])
        \/ Goto("match", [job EXCEPT !.vector = job.results])
        \/ Goto("supersede", [job EXCEPT !.at = 1])
        \/ Goto("supersede", [job EXCEPT !.at = 1,
                                        !.results = SortByScore(@)])
        \/ Show(job, job.results)
        \/ Expand(job, job.results)
    BY ONLY <1>15, Typed, EnrichedIs
  <2> QED
    BY ONLY <2>1, <2>3, <2>4, <2>5, <2>6
<1>16. CASE Match
  <2>1. \A q : [job EXCEPT !.phase = "text", !.ranked = q].kind = job.kind
    BY <1>1 DEF Fields
  <2> QED
    BY <1>16, <2>1 DEF Match, StartText, Goto
<1>17. CASE Superseded
  <2>1. /\ \A rs : [job EXCEPT !.results = rs].kind = job.kind
        /\ \A rs, v : [job EXCEPT !.phase = "hybrid", !.vector = rs,
                         !.seeds = rs, !.results = rs, !.visited = v].kind
                        = job.kind
    BY <1>1 DEF Fields
  <2>2. \/ \E rs : Show(job, rs) \/ Expand(job, rs)
        \/ Goto("done", job)
        \/ Goto("done", [job EXCEPT !.results = Rank(job)])
    BY <1>17, SupersededIs DEF Fuse
  <2>3. ASSUME NEW rs, Show(job, rs) \/ Expand(job, rs)
        PROVE  job'.kind = job.kind
    <3>1. CASE Show(job, rs)
      BY <2>1, <3>1 DEF Goto, Show
    <3>2. CASE Expand(job, rs)
      BY <2>1, <3>2 DEF Goto, Expand
    <3> QED
      BY <2>3, <3>1, <3>2
  <2> QED
    BY <2>1, <2>2, <2>3 DEF Goto
<1>18. CASE ExpandFromEntry
  <2> DEFINE j == [job EXCEPT !.seeds = Tail(@)]
  <2>1. \E i, score : job' = Walk(j, i, score)
    BY <1>18 DEF ExpandFromEntry, Goto
  <2>2. j.kind = job.kind /\ DOMAIN j = Fields
    BY <1>1 DEF Fields
  <2> HIDE DEF j
  <2> QED
    BY <2>1, <2>2 DEF Walk, Fields
<1>19. CASE SearchByText
  <2>1. \A i : [job EXCEPT !.phase = "list", !.start = i].kind = job.kind
    BY <1>1 DEF Fields
  <2> QED
    BY <1>19, <2>1 DEF SearchByText, Goto
<1>20. CASE Finish
  BY <1>20 DEF Finish, Goto
<1> QED
  BY <1>2, <1>3, <1>4, <1>5, <1>6, <1>7, <1>8, <1>9, <1>10, <1>11, <1>12,
     <1>13, <1>14, <1>15, <1>16, <1>17, <1>18, <1>19, <1>20 DEF Serve

\* A request that collects nothing goes on collecting nothing.
LEMMA ServingCollects ==
    ASSUME Typed,
           \/ PathTo \/ Build \/ Fetch \/ Match \/ Supersede \/ Superseded
           \/ ExpandFromEntry \/ SearchByText \/ Finish
    PROVE  Collected'
<1>1. CASE Finish
  BY <1>1, OthersCollect DEF Finish, Goto, NoJob, Around
<1>2. ASSUME pc \in {"pathTo", "build", "fetch", "match", "supersede", "list"}
               \/ (pc = "walk" /\ job.seeds # <<>>)
      PROVE  job.kind \notin Around
  BY <1>2, Remembered
  DEF Expected, VectorPhase, TextPhase, HybridPhase, Tracks, Expanding, Around
<1>3. CASE ~Finish
  <2>1. pc \in {"pathTo", "build", "fetch", "match", "supersede", "list"}
          \/ (pc = "walk" /\ job.seeds # <<>>)
    BY <1>3 DEF PathTo, Build, Fetch, Match, Supersede, Superseded,
                ExpandFromEntry, SearchByText
  <2>2. Serve
    BY DEF Serve
  <2> QED
    BY <1>2, <2>1, <2>2, KeepsKind, OthersCollect DEF NoJob, Around
<1> QED
  BY <1>1, <1>3

\* Whoever writes ends the quiet.
LEMMA WritesCollect ==
    ASSUME Typed, Collected, Delete \/ Link \/ Unlink PROVE Collected'
<1>1. writes' = writes + 1 /\ pc' = pc /\ job' = job
  BY DEF Delete, Link, Unlink, Write
<1>2. job.since <= writes /\ job.since \in Nat /\ writes \in Nat
  BY Remembered, WritesAreCounted DEF IsJob, Options
<1>3. ~Quiet'
  BY <1>1, <1>2 DEF Quiet
<1> QED
  BY <1>1, <1>3 DEF Collected

LEMMA NextCollects ==
    ASSUME Typed, Collected, [Next]_vars PROVE Collected'
<1>1. CASE Ask
  BY <1>1, AsksAroundCollect, TracingCollects, SearchesCollect, ScopeCollects
  DEF Ask
<1>2. CASE Scan \/ ScanIn \/ EntryConflicts \/ ShowEdges \/ MeshEdges
           \/ GraphPeers \/ LookUpPeers
  BY <1>2, ScanCollects, ScanInCollects, ConflictsCollect, EdgesCollect,
     PeersCollect
<1>3. CASE WalkOut \/ WalkIn \/ Visit \/ EndWalk \/ Enrich
  BY <1>3, WalksCollect
<1>4. CASE Enriched
  BY <1>4, EnrichedCollects
<1>5. CASE \/ PathTo \/ Build \/ Fetch \/ Match \/ Supersede \/ Superseded
           \/ ExpandFromEntry \/ SearchByText \/ Finish
  BY <1>5, ServingCollects
<1>6. CASE Delete \/ Link \/ Unlink
  BY <1>6, WritesCollect
<1>7. CASE UNCHANGED vars
  BY <1>7 DEF vars, Collected, Quiet
<1> QED
  BY <1>1, <1>2, <1>3, <1>4, <1>5, <1>6, <1>7 DEF Next, Serve

THEOREM TypedAndCollected == Spec => [](Typed /\ Collected)
<1>1. Init => Typed /\ Collected
  BY InitTyped DEF Init, NoJob, Collected, Around
<1>2. Typed /\ Collected /\ [Next]_vars => (Typed /\ Collected)'
  BY NextTyped, NextCollects
<1> QED
  BY <1>1, <1>2, PTL DEF Spec

\* The explorer's answers are closed, whatever is written meanwhile.
THEOREM ResponsesAreClosed == Spec => []ResponseIsClosed
<1>1. Collected => ResponseIsClosed
  <2> SUFFICES ASSUME Collected, Answered({"graph", "neighbors", "entry"})
               PROVE  EndsAreShown(job)
    BY DEF ResponseIsClosed, EndsAreShown
  <2> QED
    BY DEF Answered, Collected, Closed, Collecting, Around
<1> QED
  BY <1>1, TypedAndCollected, PTL

\* A quiet answer has exactly the edges that the database has.
THEOREM AnswersAreExact == Spec => []EdgesAreExact
<1>1. ASSUME Collected, Quiet, pc = "done", job.kind \in Around
      PROVE  /\ job.edges = Owed(db, job, job.nodes)
             /\ job.kind \in {"entry", "show"} =>
                  /\ job.nodes = {job.cur.id}
                  /\ job.conflicts = FindConflicts(db, job.cur.id)
             /\ job.kind \in {"graph", "entry"} =>
                  job.external = Ends(job.edges) \ job.nodes /\ job.missing = {}
  <2>1. Closed("done", job) /\ Exact("done", job, db)
    BY <1>1 DEF Collected
  <2>2. job.todo = {} /\ job.nodes \ job.todo = job.nodes
    BY <2>1 DEF Closed, Collecting
  <2>3. job.kind \in {"entry", "show"} => job.todo # job.nodes
    BY <2>1, <2>2 DEF Closed, Collecting
  <2> QED
    BY <2>1, <2>2, <2>3 DEF Exact, Conflicting, Collecting
<1>2. job.kind \notin {"stats", "conflicts"} =>
        UNION {Read(db, job.kind, i) : i \in job.nodes} = Touching(db, job.nodes)
  BY DEF Read, Touching
<1>3. job.kind = "stats" =>
        UNION {Read(db, job.kind, i) : i \in job.nodes}
          = UNION {EdgesFrom(db, i) : i \in job.nodes}
  BY DEF Read
<1>4. job.kind = "conflicts" =>
        UNION {Read(db, job.kind, i) : i \in job.nodes}
          = OfTypes(UNION {EdgesFrom(db, i) : i \in job.nodes}, {"contradicts"})
  BY DEF Read, OfTypes
<1>5. job.kind # "neighbors" =>
        Owed(db, job, job.nodes) = UNION {Read(db, job.kind, i) : i \in job.nodes}
  BY ShownFacts DEF Owed
<1>6. job.kind = "neighbors" =>
        Owed(db, job, job.nodes) = {x \in Touching(db, job.nodes) :
                                      {x.from, x.to} \subseteq job.nodes}
  BY <1>2 DEF Owed, Shown
<1>7. Collected => EdgesAreExact
  <2> SUFFICES ASSUME Collected, Quiet, pc = "done", job.kind \in Around
               PROVE  EdgesAreExact
    BY DEF EdgesAreExact, Answered, Around
  <2>1. job.kind \in {"graph", "entry", "show"} =>
          job.edges = Touching(db, job.nodes)
    BY <1>1, <1>2, <1>5
  <2>2. job.kind = "stats" =>
          job.edges = UNION {EdgesFrom(db, i) : i \in job.nodes}
    BY <1>1, <1>3, <1>5
  <2>3. job.kind \in {"graph", "entry"} =>
          /\ job.external =
               (UNION {{x.from, x.to} : x \in job.edges}) \ job.nodes
          /\ job.missing = {}
    BY <1>1 DEF Ends
  <2>4. job.kind \in {"entry", "show"} =>
          job.conflicts = {Other(x, job.cur.id) :
                             x \in OfTypes(job.edges, {"contradicts"})}
    <3> SUFFICES ASSUME job.kind \in {"entry", "show"}
                 PROVE  job.conflicts = {Other(x, job.cur.id) :
                             x \in OfTypes(job.edges, {"contradicts"})}
      OBVIOUS
    <3>1. /\ job.nodes = {job.cur.id}
          /\ job.conflicts = FindConflicts(db, job.cur.id)
      BY <1>1
    <3>2. job.edges = EdgesFrom(db, job.cur.id) \cup EdgesTo(db, job.cur.id)
      BY <2>1, <3>1 DEF Touching
    <3> QED
      BY <3>1, <3>2 DEF FindConflicts
  <2>5. job.kind = "conflicts" =>
          job.edges = OfTypes(UNION {EdgesFrom(db, i) : i \in job.nodes},
                              {"contradicts"})
    BY <1>1, <1>4, <1>5
  <2>6. job.kind = "neighbors" =>
          job.edges = {x \in Touching(db, job.nodes) :
                         {x.from, x.to} \subseteq job.nodes}
    BY <1>1, <1>6
  <2> QED
    BY <2>1, <2>2, <2>3, <2>4, <2>5, <2>6 DEF EdgesAreExact, Answered
<1> QED
  BY <1>7, TypedAndCollected, PTL

-----------------------------------------------------------------------------
(***************************************************************************)
(* The hits of a search.                                                   *)
(***************************************************************************)
Hitting == {"vector", "text", "search", "hybrid", "recall"}

Hits(l, j) ==
    /\ DistinctIds(j.results) /\ DistinctIds(j.vector)
    /\ l = "fetch" =>
         /\ Distinct(j.ranked)
         /\ j.phase = "vector" =>
              \A k, n \in DOMAIN j.ranked :
                k < n => Similarity[j.ranked[k]] >= Similarity[j.ranked[n]]
    /\ l \in {"walk", "walkIn", "visit"} => Listed(j.results) \subseteq j.visited
    /\ l = "enrich" /\ j.kind = "vector" => Descending(j.results)
    /\ l = "supersede" /\ j.phase = "hybrid" => Descending(j.results)
    /\ l = "done" => /\ j.kind \notin {"text", "search"} => Descending(j.results)
                     /\ j.kind = "recall" /\ j.total > 0 =>
                          Len(j.results) <= j.total

Ranked == job.kind \in Hitting => Hits(pc, job)

LEMMA RankedMoves ==
    ASSUME NEW l, NEW m, Goto(l, m), m.kind \in Hitting => Hits(l, m)
    PROVE  Ranked'
  BY DEF Goto, Ranked

LEMMA PicksAreDistinct ==
    ASSUME NEW r, NEW q, NEW I, I \subseteq DOMAIN q, NEW f, Picks(r, q, I, f)
    PROVE  /\ Distinct(q) => Distinct(r)
           /\ DistinctIds(q) => DistinctIds(r)
           /\ (\A k, l \in DOMAIN r : k < l <=> f[k] < f[l]) /\ Descending(q)
                => Descending(r)
<1>1. /\ \A k \in DOMAIN r : f[k] \in DOMAIN q /\ r[k] = q[f[k]]
      /\ \A k, l \in DOMAIN r : k # l => f[k] # f[l]
  BY DEF Picks
<1> QED
  BY <1>1 DEF Distinct, DistinctIds, Descending

LEMMA HavingKeeps ==
    ASSUME NEW rs \in Seq(Result), NEW ids, DistinctIds(rs)
    PROVE  /\ DistinctIds(Having(rs, ids))
           /\ Descending(rs) => Descending(Having(rs, ids))
<1> DEFINE I == {n \in DOMAIN rs : rs[n].id \in ids}
<1>1. PICK f : /\ Picks(Having(rs, ids), rs, I, f)
               /\ \A k, l \in DOMAIN Having(rs, ids) : k < l <=> f[k] < f[l]
  BY HavingFacts
<1>2. I \subseteq DOMAIN rs
  OBVIOUS
<1> HIDE DEF I
<1> QED
  BY <1>1, <1>2, PicksAreDistinct

LEMMA SortKeeps ==
    ASSUME NEW rs \in Seq(Result), DistinctIds(rs)
    PROVE  DistinctIds(SortByScore(rs)) /\ Descending(SortByScore(rs))
<1>1. PICK f : Picks(SortByScore(rs), rs, DOMAIN rs, f)
  BY SortByScoreFacts
<1>2. DOMAIN rs \subseteq DOMAIN rs
  OBVIOUS
<1>3. DistinctIds(SortByScore(rs))
  BY <1>1, <1>2, PicksAreDistinct
<1> QED
  BY <1>3, SortByScoreFacts DEF Descending

LEMMA CutKeeps ==
    ASSUME NEW rs \in Seq(Result), NEW n \in Nat, DistinctIds(rs)
    PROVE  /\ DistinctIds(Cut(rs, n))
           /\ Descending(rs) => Descending(Cut(rs, n))
<1> DEFINE c == Cut(rs, n)
<1>1. /\ c \in Seq(Result) /\ Len(c) <= Len(rs) /\ Len(c) \in Nat
      /\ Len(rs) \in Nat /\ DOMAIN rs = 1..Len(rs) /\ DOMAIN c = 1..Len(c)
      /\ \A k \in 1..Len(c) : c[k] = rs[k]
  BY CutFacts
<1> HIDE DEF c
<1>2. \A k \in DOMAIN c : k \in DOMAIN rs /\ c[k] = rs[k]
  BY <1>1
<1>3. DistinctIds(c)
  BY <1>2 DEF DistinctIds
<1>4. Descending(rs) => Descending(c)
  BY <1>2 DEF Descending
<1> QED
  BY <1>3, <1>4 DEF c

LEMMA DemotedKeeps ==
    ASSUME NEW rs \in Seq(Result), DistinctIds(rs)
    PROVE  DistinctIds(Demoted(rs))
<1>1. DOMAIN Demoted(rs) = DOMAIN rs
  BY DEF Demoted
<1> QED
  BY <1>1, DemotedFacts DEF DistinctIds

\* One result marked is in no other place and has no other score.
LEMMA MarkKeeps ==
    ASSUME NEW rs \in Seq(Result), NEW n \in DOMAIN rs, NEW b \in BOOLEAN,
           NEW ms \in {[rs EXCEPT ![n].conflict = b],
                       [rs EXCEPT ![n].superseded = b]},
           DistinctIds(rs)
    PROVE  DistinctIds(ms) /\ (Descending(rs) => Descending(ms))
<1>1. \A k \in DOMAIN rs : ms[k].id = rs[k].id /\ ms[k].score = rs[k].score
  <2>1. CASE ms = [rs EXCEPT ![n].conflict = b]
    BY <2>1, MarkedResults
  <2>2. CASE ms = [rs EXCEPT ![n].superseded = b]
    BY <2>2, MarkedResults
  <2> QED
    BY <2>1, <2>2
<1>2. DOMAIN ms = DOMAIN rs
  OBVIOUS
<1> QED
  BY <1>1, <1>2 DEF DistinctIds, Descending

LEMMA EmptyIsRanked == DistinctIds(<<>>) /\ Descending(<<>>) /\ Distinct(<<>>)
  BY DEF DistinctIds, Descending, Distinct

LEMMA SearchStartsRanked ==
    ASSUME NEW j, IsJob(j), DistinctIds(j.results), DistinctIds(j.vector),
           StartVector(j) \/ StartText(j)
    PROVE  Ranked'
<1>1. DOMAIN j = Fields /\ OrDefault(j.limit) \in Nat
  BY OrDefaultIsPositive DEF IsJob, Options
<1>2. CASE StartVector(j)
  <2>1. PICK q \in Best(Similarity, OrDefault(j.limit)) :
          Goto("fetch", [j EXCEPT !.phase = "vector", !.ranked = q])
    BY <1>2 DEF StartVector
  <2> DEFINE m == [j EXCEPT !.phase = "vector", !.ranked = q]
  <2>2. /\ Distinct(q)
        /\ \A k, l \in DOMAIN q : k < l => Similarity[q[k]] >= Similarity[q[l]]
    BY <1>1, BestFacts
  <2>3. /\ m.kind = j.kind /\ m.total = j.total /\ m.results = j.results
        /\ m.vector = j.vector /\ m.ranked = q
    BY <1>1 DEF Fields
  <2>4. Goto("fetch", m)
    BY <2>1
  <2> HIDE DEF m
  <2>5. Hits("fetch", m)
    BY <2>2, <2>3 DEF Hits
  <2> QED
    BY <2>4, <2>5, RankedMoves
<1>3. CASE StartText(j)
  <2>1. PICK q \in Best(Relevance, OrDefault(j.limit)) :
          Goto("fetch", [j EXCEPT !.phase = "text", !.ranked = q])
    BY <1>3 DEF StartText
  <2> DEFINE m == [j EXCEPT !.phase = "text", !.ranked = q]
  <2>2. Distinct(q)
    BY <1>1, BestFacts
  <2>3. /\ m.kind = j.kind /\ m.total = j.total /\ m.results = j.results
        /\ m.vector = j.vector /\ m.ranked = q /\ m.phase = "text"
    BY <1>1 DEF Fields
  <2>4. Goto("fetch", m)
    BY <2>1
  <2> HIDE DEF m
  <2>5. Hits("fetch", m)
    BY <2>2, <2>3 DEF Hits
  <2> QED
    BY <2>4, <2>5, RankedMoves
<1> QED
  BY <1>2, <1>3

LEMMA AskRanks == ASSUME Typed, Ask PROVE Ranked'
<1>1. CASE \/ SearchVector \/ SearchText \/ HandleSearch \/ SearchHybrid
           \/ Recall \/ ResolveEntry
  <2>1. PICK j : Asking(j)
    BY <1>1, SearchesAsk
  <2>2. CASE StartVector(j) \/ StartText(j)
    BY <2>1, <2>2, EmptyIsRanked, SearchStartsRanked DEF Asking
  <2>3. CASE j.kind = "resolve" /\ Goto("list", j)
    BY <2>3, RankedMoves DEF Hitting
  <2> QED
    BY <2>1, <2>2, <2>3 DEF Asking
<1>2. CASE HandleNeighbors \/ Related \/ HandlePath \/ RunPath
  <2>1. PICK j : TracingJob(j)
    BY <1>2, TracingAsks
  <2>2. j.kind \in Tracing /\ IsJob(j) /\ j.start \in Ids
    BY <2>1 DEF TracingJob, Tracks
  <2>3. Walk(j, j.start, 0).kind = j.kind
    BY <2>2, WalkFacts DEF SameRequest
  <2>4. job'.kind \in Tracing
    BY <2>1, <2>2, <2>3 DEF TracingJob, Goto
  <2> QED
    BY <2>4 DEF Ranked, Hitting, Tracing
<1>3. CASE \/ HandleGraph \/ DetectAllConflicts \/ HandleEntry
           \/ ShowByID \/ Stats
  <2>1. PICK kind \in Around \ {"neighbors"}, ids \in SUBSET Ids :
          /\ kind \in Kinds
          /\ Goto("scan", [New(kind) EXCEPT !.nodes = ids, !.todo = ids])
    BY <1>3, AroundRequests
  <2>2. DOMAIN New(kind) = Fields /\ New(kind).kind = kind
    BY <2>1, NewIsAJob
  <2>3. job'.kind = kind
    BY <2>1, <2>2 DEF Goto, Fields
  <2> QED
    BY <2>3 DEF Ranked, Hitting, Around
<1>4. CASE RecallByScope
  <2>1. PICK j : Listing(j)
    BY <1>4, ScopeAsks
  <2> QED
    BY <2>1, RankedMoves DEF Listing, Hitting
<1> QED
  BY <1>1, <1>2, <1>3, <1>4 DEF Ask

LEMMA FetchRanks ==
    ASSUME Typed, Ranked, job.kind \in Hitting, Fetch PROVE Ranked'
<1> DEFINE rs == IF job.recency > 0 THEN SortByScore(FoundIn(job))
                                    ELSE FoundIn(job)
           m == [job EXCEPT !.ranked = <<>>, !.at = 1, !.results = rs]
<1>1. /\ IsJob(job) /\ DOMAIN job = Fields /\ pc = "fetch"
      /\ Expected("fetch", job) /\ Hits("fetch", job)
  BY Remembered DEF Fetch, Ranked
<1>0. job.recency \in Nat
  <2>1. job.recency \in 0..1000
    BY <1>1 DEF IsJob, Options
  <2> QED
    BY <2>1
<1>2. Goto("enrich", m)
  BY DEF Fetch, FoundIn, Rows
<1>3. Distinct(job.ranked)
  BY <1>1 DEF Hits
<1> DEFINE I == {n \in DOMAIN job.ranked :
                   job.ranked[n] \in {i \in Ids : Kept(job, i)}}
<1>4. PICK f : /\ Picks(Rows(job), job.ranked, I, f)
               /\ \A k, l \in DOMAIN Rows(job) : k < l <=> f[k] < f[l]
  BY <1>1, FetchFacts
<1>5. I \subseteq DOMAIN job.ranked
  OBVIOUS
<1> HIDE DEF I
<1>6. Distinct(Rows(job))
  BY <1>3, <1>4, <1>5, PicksAreDistinct
<1>7. /\ FoundIn(job) \in Seq(Result) /\ DOMAIN FoundIn(job) = DOMAIN Rows(job)
      /\ \A n \in DOMAIN Rows(job) :
           /\ FoundIn(job)[n].id = Rows(job)[n]
           /\ FoundIn(job)[n].score = Score(job, Rows(job)[n])
  BY <1>1, FetchFacts
<1>8. DistinctIds(FoundIn(job))
  BY <1>6, <1>7 DEF Distinct, DistinctIds
<1>9. ASSUME job.kind = "vector", job.recency = 0 PROVE Descending(FoundIn(job))
  <2>1. job.phase = "vector"
    BY <1>1, <1>9 DEF Expected, VectorPhase, TextPhase, Expanding
  <2>2. \A i : Score(job, i) = Similarity[i]
    BY <1>9, <2>1 DEF Score
  <2>3. \A k, l \in DOMAIN Rows(job) :
          k < l => /\ f[k] \in DOMAIN job.ranked /\ f[l] \in DOMAIN job.ranked
                   /\ f[k] < f[l] /\ Rows(job)[k] = job.ranked[f[k]]
                   /\ Rows(job)[l] = job.ranked[f[l]]
    BY <1>4, <1>5 DEF Picks
  <2>4. \A k, l \in DOMAIN Rows(job) :
          k < l => Similarity[Rows(job)[k]] >= Similarity[Rows(job)[l]]
    BY <1>1, <2>1, <2>3 DEF Hits
  <2> QED
    BY <1>7, <2>2, <2>4 DEF Descending
<1>10. DistinctIds(rs) /\ (job.kind = "vector" => Descending(rs))
  BY <1>0, <1>7, <1>8, <1>9, SortKeeps
<1> HIDE DEF rs
<1>11. /\ m.kind = job.kind /\ m.total = job.total /\ m.results = rs
       /\ m.vector = job.vector
  BY <1>1 DEF Fields
<1> HIDE DEF m
<1>12. Hits("enrich", m)
  BY <1>1, <1>10, <1>11 DEF Hits
<1> QED
  BY <1>2, <1>12, RankedMoves

LEMMA MarkedIsRanked ==
    ASSUME Typed, Ranked, job.kind \in Hitting,
           pc \in {"enrich", "supersede"}, NEW rs,
           Goto(pc, [job EXCEPT !.at = @ + 1, !.results = rs]),
           DistinctIds(rs), Descending(job.results) => Descending(rs)
    PROVE  Ranked'
<1> DEFINE m == [job EXCEPT !.at = @ + 1, !.results = rs]
<1>1. /\ IsJob(job) /\ DOMAIN job = Fields /\ Hits(pc, job)
  BY Remembered DEF Ranked
<1>2. /\ m.kind = job.kind /\ m.total = job.total /\ m.results = rs
      /\ m.vector = job.vector /\ m.phase = job.phase
  BY <1>1 DEF Fields
<1>3. Goto(pc, m)
  OBVIOUS
<1> HIDE DEF m
<1>4. Hits(pc, m)
  BY <1>1, <1>2 DEF Hits
<1> QED
  BY <1>3, <1>4, RankedMoves

LEMMA MarksRank ==
    ASSUME Typed, Ranked, job.kind \in Hitting, Enrich \/ Supersede
    PROVE  Ranked'
<1>1. /\ IsJob(job) /\ DOMAIN job = Fields /\ Hits(pc, job)
  BY Remembered DEF Ranked
<1>2. job.results \in Seq(Result) /\ job.at \in Nat \ {0}
  BY <1>1 DEF IsJob, Lists
<1>3. job.at \in DOMAIN job.results
  BY <1>2 DEF Enrich, Supersede
<1>4. DistinctIds(job.results)
  BY <1>1 DEF Hits
<1>6. CASE Enrich
  <2> DEFINE b == \/ job.results[job.at].conflict
                  \/ FindConflicts(db, job.results[job.at].id) # {}
             rs == [job.results EXCEPT ![job.at].conflict = b]
  <2>1. Goto("enrich", [job EXCEPT !.at = @ + 1, !.results = rs])
        /\ pc = "enrich"
    BY <1>6 DEF Enrich
  <2>2. b \in BOOLEAN
    OBVIOUS
  <2> HIDE DEF b
  <2>3. DistinctIds(rs) /\ (Descending(job.results) => Descending(rs))
    BY <1>2, <1>3, <1>4, <2>2, MarkKeeps
  <2> HIDE DEF rs
  <2>4. PICK s : s = rs
    OBVIOUS
  <2>6. Goto(pc, [job EXCEPT !.at = @ + 1, !.results = s])
    BY <2>1, <2>4
  <2>7. pc \in {"enrich", "supersede"}
    BY <2>1
  <2>8. DistinctIds(s)
    BY <2>3, <2>4
  <2>9. Descending(job.results) => Descending(s)
    BY <2>3, <2>4
  <2> QED
    BY <2>6, <2>7, <2>8, <2>9, MarkedIsRanked
<1>7. CASE Supersede
  <2> DEFINE b == \/ job.results[job.at].superseded
                  \/ IsSuperseded(db, job.results[job.at].id)
             rs == [job.results EXCEPT ![job.at].superseded = b]
  <2>1. Goto("supersede", [job EXCEPT !.at = @ + 1, !.results = rs])
        /\ pc = "supersede"
    BY <1>7 DEF Supersede
  <2>2. b \in BOOLEAN
    OBVIOUS
  <2> HIDE DEF b
  <2>3. DistinctIds(rs) /\ (Descending(job.results) => Descending(rs))
    BY <1>2, <1>3, <1>4, <2>2, MarkKeeps
  <2> HIDE DEF rs
  <2>4. PICK s : s = rs
    OBVIOUS
  <2>6. Goto(pc, [job EXCEPT !.at = @ + 1, !.results = s])
    BY <2>1, <2>4
  <2>7. pc \in {"enrich", "supersede"}
    BY <2>1
  <2>8. DistinctIds(s)
    BY <2>3, <2>4
  <2>9. Descending(job.results) => Descending(s)
    BY <2>3, <2>4
  <2> QED
    BY <2>6, <2>7, <2>8, <2>9, MarkedIsRanked
<1> QED
  BY <1>6, <1>7

LEMMA ShowRanks ==
    ASSUME Typed, Ranked, job.kind \in {"vector", "text"},
           job.kind = "vector" => Descending(job.results),
           DistinctIds(job.results), DistinctIds(job.vector),
           Show(job, job.results)
    PROVE  Ranked'
<1> DEFINE rs == Wanted(job, job.results)
           m == [job EXCEPT !.results = rs]
<1>1. DOMAIN job = Fields /\ job.results \in Seq(Result)
  BY Remembered DEF IsJob, Lists
<1>2. DistinctIds(rs) /\ (job.kind = "vector" => Descending(rs))
  BY <1>1, HavingKeeps DEF Wanted
<1>3. Goto("done", m)
  BY DEF Show
<1> HIDE DEF rs
<1>4. m.kind = job.kind /\ m.results = rs /\ m.vector = job.vector
  BY <1>1 DEF Fields
<1> HIDE DEF m
<1>5. Hits("done", m)
  BY <1>2, <1>4 DEF Hits
<1> QED
  BY <1>3, <1>5, RankedMoves

LEMMA ExpandRanks ==
    ASSUME Typed, Ranked, job.kind \in Expanding, pc # "idle",
           NEW rs \in Seq(Result), DistinctIds(rs), Expand(job, rs)
    PROVE  Ranked'
<1> DEFINE m == [job EXCEPT !.phase = "hybrid", !.vector = rs, !.seeds = rs,
                            !.results = rs, !.visited = Listed(rs)]
<1>1. DOMAIN job = Fields /\ Hits(pc, job)
  BY Remembered DEF Ranked, Hitting, Expanding
<1>2. Goto("walk", m)
  BY DEF Expand
<1>3. /\ m.kind = job.kind /\ m.total = job.total /\ m.results = rs
      /\ m.vector = rs /\ m.visited = Listed(rs)
  BY <1>1 DEF Fields
<1> HIDE DEF m
<1>4. Hits("walk", m)
  BY <1>1, <1>3 DEF Hits
<1> QED
  BY <1>2, <1>4, RankedMoves

LEMMA EnrichedRanks ==
    ASSUME Typed, Ranked, job.kind \in Hitting, Enriched PROVE Ranked'
<1>1. /\ IsJob(job) /\ DOMAIN job = Fields /\ pc = "enrich"
      /\ Hits("enrich", job) /\ job.results \in Seq(Result)
  BY Remembered, EnrichedIs DEF Ranked, IsJob, Lists
<1>2. /\ DistinctIds(job.results) /\ DistinctIds(job.vector)
      /\ job.kind = "vector" => Descending(job.results)
  BY <1>1 DEF Hits
<1>3. CASE job.kind = "vector" /\ Show(job, job.results)
  BY <1>2, <1>3, ShowRanks
<1>4. CASE job.kind \in Expanding /\ Expand(job, job.results)
  BY <1>1, <1>2, <1>4, ExpandRanks
<1>5. CASE Goto("match", [job EXCEPT !.vector = job.results])
  <2> DEFINE m == [job EXCEPT !.vector = job.results]
  <2>1. /\ m.kind = job.kind /\ m.total = job.total /\ m.results = job.results
        /\ m.vector = job.results
    BY <1>1 DEF Fields
  <2>2. Goto("match", m)
    BY <1>5
  <2> HIDE DEF m
  <2>3. Hits("match", m)
    BY <1>2, <2>1 DEF Hits
  <2> QED
    BY <2>2, <2>3, RankedMoves
<1>6. CASE TextPhase(job) /\ Goto("supersede", [job EXCEPT !.at = 1])
  <2> DEFINE m == [job EXCEPT !.at = 1]
  <2>1. /\ m.kind = job.kind /\ m.total = job.total /\ m.results = job.results
        /\ m.vector = job.vector /\ m.phase = "text"
    BY <1>1, <1>6 DEF Fields, TextPhase
  <2>2. Goto("supersede", m)
    BY <1>6
  <2> HIDE DEF m
  <2>3. Hits("supersede", m)
    BY <1>2, <2>1 DEF Hits
  <2> QED
    BY <2>2, <2>3, RankedMoves
<1>7. CASE /\ HybridPhase(job)
           /\ Goto("supersede", [job EXCEPT !.at = 1,
                                   !.results = SortByScore(@)])
  <2> DEFINE rs == SortByScore(job.results)
             m == [job EXCEPT !.at = 1, !.results = rs]
  <2>1. DistinctIds(rs) /\ Descending(rs)
    BY <1>1, <1>2, SortKeeps
  <2>2. Goto("supersede", m)
    BY <1>7
  <2> HIDE DEF rs
  <2>3. /\ m.kind = job.kind /\ m.total = job.total /\ m.results = rs
        /\ m.vector = job.vector
    BY <1>1 DEF Fields
  <2> HIDE DEF m
  <2>4. Hits("supersede", m)
    BY <1>2, <2>1, <2>3 DEF Hits
  <2> QED
    BY <2>2, <2>4, RankedMoves
<1> QED
  BY <1>3, <1>4, <1>5, <1>6, <1>7, EnrichedIs DEF Hitting

LEMMA RankKeeps ==
    ASSUME NEW j, IsJob(j), DistinctIds(j.results), Descending(j.results)
    PROVE  /\ DistinctIds(Rank(j)) /\ Descending(Rank(j))
           /\ j.total > 0 => Len(Rank(j)) <= j.total
<1> DEFINE demoted == IF j.keep THEN j.results
                                ELSE SortByScore(Demoted(j.results))
           total == IF j.wanted = Ids THEN j.total ELSE 0
           cut == Cut(demoted, total)
           kept == Wanted(j, cut)
<1>1. j.results \in Seq(Result) /\ j.total \in Nat /\ total \in Nat
  BY DEF IsJob, Lists, Options
<1>2. demoted \in Seq(Result) /\ DistinctIds(demoted) /\ Descending(demoted)
  BY <1>1, DemotedFacts, DemotedKeeps, SortByScoreFacts, SortKeeps
<1> HIDE DEF demoted, total
<1>3. cut \in Seq(Result) /\ DistinctIds(cut) /\ Descending(cut)
  BY <1>1, <1>2, CutFacts, CutKeeps
<1> HIDE DEF cut
<1>4. kept \in Seq(Result) /\ DistinctIds(kept) /\ Descending(kept)
  BY <1>3, HavingFacts, HavingKeeps DEF Wanted
<1> HIDE DEF kept
<1>5. /\ DistinctIds(Cut(kept, j.total)) /\ Descending(Cut(kept, j.total))
      /\ j.total > 0 => Len(Cut(kept, j.total)) <= j.total
  BY <1>1, <1>4, CutFacts, CutKeeps
<1> QED
  BY <1>5 DEF Rank, kept, cut, demoted, total

LEMMA SupersededRanks ==
    ASSUME Typed, Ranked, job.kind \in Hitting, Superseded PROVE Ranked'
<1>1. /\ IsJob(job) /\ DOMAIN job = Fields /\ pc = "supersede"
      /\ Hits("supersede", job) /\ job.results \in Seq(Result)
      /\ job.vector \in Seq(Result) /\ job.limit \in Nat /\ job.total \in Nat
  BY Remembered, SupersededIs DEF Ranked, IsJob, Lists, Options
<1>2. /\ DistinctIds(job.results) /\ DistinctIds(job.vector)
      /\ job.phase = "hybrid" => Descending(job.results)
  BY <1>1 DEF Hits
<1>3. CASE job.kind = "text" /\ Show(job, job.results)
  BY <1>2, <1>3, ShowRanks
<1>4. CASE job.kind = "search" /\ Goto("done", job)
  <2>1. Hits("done", job)
    BY <1>2, <1>4 DEF Hits
  <2> QED
    BY <1>4, <2>1, RankedMoves
<1>5. CASE job.kind \in Expanding /\ Fuse(job)
  <2>1. PICK q \in IF job.results = <<>> THEN {job.vector}
                   ELSE FuseByRRF(job.vector, job.results) :
          Expand(job, Cut(q, job.limit))
    BY <1>5 DEF Fuse
  <2>2. q \in Seq(Result) /\ Cut(q, job.limit) \in Seq(Result)
    BY <1>1, FusedIsAList
  <2>3. DistinctIds(q)
    BY <1>1, <1>2, <2>1, FuseFacts
  <2>4. DistinctIds(Cut(q, job.limit))
    BY <1>1, <2>2, <2>3, CutKeeps
  <2> QED
    BY <1>1, <1>5, <2>1, <2>2, <2>4, ExpandRanks
<1>6. CASE HybridPhase(job) /\ Goto("done", [job EXCEPT !.results = Rank(job)])
  <2> DEFINE rs == Rank(job)
             m == [job EXCEPT !.results = rs]
  <2>1. /\ DistinctIds(rs) /\ Descending(rs)
        /\ job.total > 0 => Len(rs) <= job.total
    BY <1>1, <1>2, <1>6, RankKeeps DEF HybridPhase
  <2>2. Goto("done", m)
    BY <1>6
  <2> HIDE DEF rs
  <2>3. /\ m.kind = job.kind /\ m.total = job.total /\ m.results = rs
        /\ m.vector = job.vector
    BY <1>1 DEF Fields
  <2> HIDE DEF m
  <2>4. Hits("done", m)
    BY <1>2, <2>1, <2>3 DEF Hits
  <2> QED
    BY <2>2, <2>4, RankedMoves
<1> QED
  BY <1>3, <1>4, <1>5, <1>6, SupersededIs

\* What a step does not change about a search.
SameQuery(m, j) ==
    /\ m.kind = j.kind /\ m.since = j.since /\ m.limit = j.limit
    /\ m.total = j.total /\ m.recency = j.recency /\ m.wanted = j.wanted
    /\ m.text = j.text /\ m.strict = j.strict

\* A walk appends what it has not yet seen.
WalkAdds ==
    \E l, m :
      /\ l \in {"walk", "walkIn", "visit", "enrich"}
      /\ Goto(l, m) /\ SameQuery(m, job)
      /\ m.vector = job.vector /\ m.phase = job.phase
      /\ \/ m.results = job.results /\ job.visited \subseteq m.visited
         \/ \E r \in Result :
              /\ r.id \notin job.visited
              /\ m.results = Append(job.results, r)
              /\ m.visited = job.visited \cup {r.id}

LEMMA WalksAdd ==
    ASSUME Typed, job.kind \in Expanding,
           WalkOut \/ WalkIn \/ Visit \/ EndWalk \/ ExpandFromEntry
    PROVE  WalkAdds
<1> DEFINE Keeps(m) == /\ SameQuery(m, job)
                       /\ m.vector = job.vector /\ m.phase = job.phase
<1>1. IsJob(job) /\ DOMAIN job = Fields
  BY Remembered
<1>2. ASSUME NEW l \in {"walk", "walkIn", "visit", "enrich"},
             NEW m, Keeps(m), Goto(l, m),
             \/ m.results = job.results /\ job.visited \subseteq m.visited
             \/ \E r \in Result : /\ r.id \notin job.visited
                                  /\ m.results = Append(job.results, r)
                                  /\ m.visited = job.visited \cup {r.id}
      PROVE  WalkAdds
  BY <1>2 DEF WalkAdds
<1>3. CASE WalkOut
  <2> DEFINE cur == Head(Expandable)
             j == [job EXCEPT !.cur = cur, !.queue = Tail(Expandable)]
  <2>1. \A p : LET m == [j EXCEPT !.pending = p]
               IN  /\ Keeps(m) /\ m.results = job.results
                   /\ m.visited = job.visited
    BY <1>1 DEF Fields, SameQuery
  <2>2. job.dir \in {"out", "in", "both"}
    BY <1>1 DEF IsJob, Options
  <2> HIDE DEF Keeps
  <2>3. \E p : \/ Goto("visit", [j EXCEPT !.pending = p])
               \/ Goto("walkIn", [j EXCEPT !.pending = p])
    <3>1. CASE job.dir = "in"
      BY <1>3, <3>1 DEF WalkOut
    <3>2. CASE job.dir = "out"
      BY <1>3, <3>2 DEF WalkOut
    <3>3. CASE job.dir = "both"
      BY <1>3, <3>3 DEF WalkOut
    <3> QED
      BY <2>2, <3>1, <3>2, <3>3
  <2> HIDE DEF j
  <2> QED
    BY <1>2, <2>1, <2>3
<1>4. CASE WalkIn
  <2> DEFINE p == job.pending \cup OfTypes(EdgesTo(db, job.cur.id), job.types)
             m == [job EXCEPT !.pending = p]
  <2>1. Goto("visit", m)
    BY <1>4 DEF WalkIn
  <2> HIDE DEF p
  <2>2. Keeps(m) /\ m.results = job.results /\ m.visited = job.visited
    BY <1>1 DEF Fields, SameQuery
  <2> HIDE DEF m, Keeps
  <2> QED
    BY <1>2, <2>1, <2>2
<1>5. CASE Visit
  <2>1. CASE Fresh = {} /\ Goto("walk", [job EXCEPT !.pending = {}])
    <3> DEFINE m == [job EXCEPT !.pending = {}]
    <3>1. Keeps(m) /\ m.results = job.results /\ m.visited = job.visited
      BY <1>1 DEF Fields, SameQuery
    <3>2. Goto("walk", m)
      BY <2>1
    <3> HIDE DEF m, Keeps
    <3> QED
      BY <1>2, <3>1, <3>2
  <2>2. ASSUME NEW x \in Fresh,
               Goto("visit", IF Live(db, Other(x, job.cur.id))
                             THEN Reached(Visited(x), Other(x, job.cur.id), x)
                             ELSE Visited(x))
        PROVE  WalkAdds
    <3> DEFINE peer == Other(x, job.cur.id)
               j == Visited(x)
               v == job.visited \cup {peer}
    <3>1. /\ Keeps(j) /\ DOMAIN j = Fields /\ j.results = job.results
          /\ j.visited = v
      BY <1>1 DEF Visited, Fields, SameQuery
    <3>2. /\ peer \in Ids \ job.visited
          /\ job.cur.depth \in Nat /\ job.cur.score \in Nat /\ x \in EdgeCopy
      BY <1>5, VisitedFacts, VisitIs
    <3>3. CASE ~Live(db, peer)
      <4>1. Goto("visit", j)
        BY <2>2, <3>3
      <4> HIDE DEF j, Keeps
      <4> QED
        BY <1>2, <3>1, <4>1
    <3>4. CASE Live(db, peer)
      <4> DEFINE score == ExpansionScore(job.cur.score, x)
                 r == Found(peer, score, job.cur.depth + 1)
                 rs == Append(job.results, r)
                 m == Reached(j, peer, x)
      <4>1. Goto("visit", m)
        BY <2>2, <3>4
      <4>2. Keeps(m) /\ m.results = rs /\ m.visited = v
        BY <3>1 DEF Reached, Fields, SameQuery
      <4>3. r.id = peer
        BY DEF Found
      <4>4. r \in Result
        <5>1. score \in Nat /\ job.cur.depth + 1 \in Nat
          BY <3>2, ExpansionScoreIsSmall
        <5> HIDE DEF score
        <5> QED
          BY <3>2, <5>1, FoundIsAResult
      <4> HIDE DEF r, peer, m, j, Keeps
      <4> QED
        BY <1>2, <3>2, <4>1, <4>2, <4>3, <4>4
    <3> QED
      BY <3>3, <3>4
  <2>3. job.kind # "path"
    BY DEF Expanding
  <2> QED
    BY <1>5, <2>1, <2>2, <2>3, VisitIs
<1>6. CASE EndWalk
  <2> DEFINE m == [job EXCEPT !.at = 1]
  <2>1. Goto("enrich", m)
    BY <1>6 DEF EndWalk, Expanding
  <2>2. Keeps(m) /\ m.results = job.results /\ m.visited = job.visited
    BY <1>1 DEF Fields, SameQuery
  <2> HIDE DEF m, Keeps
  <2> QED
    BY <1>2, <2>1, <2>2
<1>7. CASE ExpandFromEntry
  <2> DEFINE seed == Head(job.seeds)
             rest == Tail(job.seeds)
             j == [job EXCEPT !.seeds = rest]
             m == Walk(j, seed.id, seed.score)
  <2>1. Goto("walk", m)
    BY <1>7 DEF ExpandFromEntry
  <2> HIDE DEF seed, rest
  <2>2. /\ DOMAIN j = Fields /\ Keeps(j) /\ j.results = job.results
        /\ j.visited = job.visited
    BY <1>1 DEF Fields, SameQuery
  <2> HIDE DEF j
  <2>3. /\ Keeps(m) /\ m.results = job.results
        /\ m.visited = job.visited \cup {seed.id}
    BY <2>2 DEF Walk, Fields, SameQuery
  <2> HIDE DEF m, Keeps
  <2> QED
    BY <1>2, <2>1, <2>3
<1> QED
  BY <1>3, <1>4, <1>5, <1>6, <1>7


LEMMA WalksRank ==
    ASSUME Typed, Ranked, job.kind \in Hitting,
           WalkOut \/ WalkIn \/ Visit \/ EndWalk \/ ExpandFromEntry
    PROVE  Ranked'
<1>1. /\ IsJob(job) /\ Expected(pc, job) /\ pc \in {"walk", "walkIn", "visit"}
      /\ job.results \in Seq(Result)
  BY Remembered, VisitIs DEF WalkOut, WalkIn, EndWalk, ExpandFromEntry, IsJob, Lists
<1>2. /\ DistinctIds(job.results) /\ DistinctIds(job.vector)
      /\ Listed(job.results) \subseteq job.visited
  BY <1>1 DEF Ranked, Hits
<1>3. job.kind \in Expanding
  BY <1>1 DEF Expected, Tracks, HybridPhase, Tracing, Hitting
<1>4. WalkAdds
  BY <1>3, WalksAdd
<1>5. PICK l, m :
        /\ l \in {"walk", "walkIn", "visit", "enrich"}
        /\ Goto(l, m) /\ SameQuery(m, job)
        /\ m.vector = job.vector /\ m.phase = job.phase
        /\ \/ m.results = job.results /\ job.visited \subseteq m.visited
           \/ \E r \in Result : /\ r.id \notin job.visited
                                /\ m.results = Append(job.results, r)
                                /\ m.visited = job.visited \cup {r.id}
  BY <1>4 DEF WalkAdds
<1>6. DistinctIds(m.results) /\ Listed(m.results) \subseteq m.visited
  <2>1. ASSUME NEW r \in Result, r.id \notin job.visited,
               m.results = Append(job.results, r),
               m.visited = job.visited \cup {r.id}
        PROVE  DistinctIds(m.results) /\ Listed(m.results) \subseteq m.visited
    <3>1. /\ DOMAIN m.results = 1..(Len(job.results) + 1)
          /\ m.results[Len(job.results) + 1] = r
          /\ \A k \in DOMAIN job.results : m.results[k] = job.results[k]
          /\ DOMAIN job.results = 1..Len(job.results)
          /\ Len(job.results) \in Nat
      BY <1>1, <2>1
    <3>2. \A k \in DOMAIN job.results : job.results[k].id \in job.visited
      BY <1>2 DEF Listed
    <3>3. \A k \in DOMAIN m.results :
            k \in DOMAIN job.results \/ k = Len(job.results) + 1
      BY <3>1
    <3>4. DistinctIds(m.results)
      BY <1>2, <2>1, <3>1, <3>2, <3>3 DEF DistinctIds
    <3>5. Listed(m.results) \subseteq m.visited
      BY <2>1, <3>1, <3>2, <3>3 DEF Listed
    <3> QED
      BY <3>4, <3>5
  <2> QED
    BY <1>2, <1>5, <2>1
<1>7. Hits(l, m)
  BY <1>2, <1>3, <1>5, <1>6 DEF Hits, Expanding, SameQuery
<1> QED
  BY <1>5, <1>7, RankedMoves

LEMMA MatchRanks ==
    ASSUME Typed, Ranked, job.kind \in Hitting, Match PROVE Ranked'
<1>1. IsJob(job) /\ Hits(pc, job) /\ StartText(job)
  BY Remembered DEF Ranked, Match
<1> QED
  BY <1>1, SearchStartsRanked DEF Hits

LEMMA NextRanks == ASSUME Typed, Ranked, [Next]_vars PROVE Ranked'
<1>1. CASE Ask
  BY <1>1, AskRanks
<1>2. CASE Serve /\ job.kind \notin Hitting
  <2>1. job'.kind \notin Hitting
    BY <1>2, KeepsKind DEF NoJob, Hitting
  <2> QED
    BY <2>1 DEF Ranked
<1>3. CASE Serve /\ job.kind \in Hitting
  <2>1. Expected(pc, job)
    BY Remembered
  <2>2. pc \notin {"scan", "scanIn", "conflicts", "peers", "pathTo", "build", "list"}
    BY <1>3, <2>1 DEF Expected, Around, Hitting
  <2>3. \/ WalkOut \/ WalkIn \/ Visit \/ EndWalk \/ ExpandFromEntry
        \/ Fetch \/ Enrich \/ Enriched \/ Match \/ Supersede \/ Superseded
        \/ Finish
    <3>1. ~(\/ Scan \/ ScanIn \/ EntryConflicts \/ ShowEdges \/ MeshEdges
            \/ GraphPeers \/ LookUpPeers \/ PathTo \/ Build \/ SearchByText)
      BY <2>2 DEF Scan, ScanIn, EntryConflicts, ShowEdges, MeshEdges,
         GraphPeers, LookUpPeers, PathTo, Build, SearchByText
    <3> QED
      BY <1>3, <3>1 DEF Serve
  <2>4. CASE Finish
    BY <2>4 DEF Finish, Goto, Ranked, NoJob, Hitting
  <2> QED
    BY <1>3, <2>3, <2>4, WalksRank, FetchRanks, MarksRank, EnrichedRanks,
       MatchRanks, SupersededRanks
<1>4. CASE Delete \/ Link \/ Unlink
  <2>1. pc' = pc /\ job' = job
    BY <1>4 DEF Delete, Link, Unlink, Write
  <2> QED
    BY <2>1 DEF Ranked
<1>5. CASE UNCHANGED vars
  BY <1>5 DEF vars, Ranked
<1> QED
  BY <1>1, <1>2, <1>3, <1>4, <1>5 DEF Next

LEMMA DistinctIsNoDuplicates ==
    ASSUME NEW rs \in Seq(Result), DistinctIds(rs) PROVE NoDuplicates(rs)
<1> DEFINE D == 1..Len(rs)
           f == [n \in D |-> rs[n].id]
<1>1. DOMAIN rs = D /\ Len(rs) \in Nat
  OBVIOUS
<1>2. IsFiniteSet(D) /\ Cardinality(D) = Len(rs)
  BY <1>1, FS_Interval
<1>3. f \in Surjection(D, Listed(rs))
  BY <1>1 DEF Surjection, Listed
<1>4. f \in Injection(D, Listed(rs))
  BY <1>1, <1>3 DEF Surjection, Injection, DistinctIds, IsInjective
<1> QED
  BY <1>2, <1>3, <1>4, FS_Surjection DEF NoDuplicates

\* Every list of hits names an entry once and comes best first, where a list
\* of that kind does; a recall shows no more than it was asked for.
THEOREM AnswersAreRanked == Spec => []HitsAreRanked
<1>1. Init => Typed /\ Ranked
  BY InitTyped DEF Init, NoJob, Ranked, Hitting
<1>2. Typed /\ Ranked /\ [Next]_vars => (Typed /\ Ranked)'
  BY NextTyped, NextRanks
<1>3. Typed /\ Ranked => HitsAreRanked
  <2> SUFFICES ASSUME Typed, Ranked, Answered(Hitting) PROVE HitsAreRanked
    BY DEF HitsAreRanked, Answered, Hitting
  <2>1. Hits("done", job) /\ job.results \in Seq(Result)
    BY Remembered DEF Ranked, Answered, IsJob, Lists
  <2>2. NoDuplicates(job.results)
    BY <2>1, DistinctIsNoDuplicates DEF Hits
  <2> QED
    BY <2>1, <2>2 DEF HitsAreRanked, Hits, Descending
<1> QED
  BY <1>1, <1>2, <1>3, PTL DEF Spec
=============================================================================
