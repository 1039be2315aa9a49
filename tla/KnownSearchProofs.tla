------------------------- MODULE KnownSearchProofs -------------------------
(***************************************************************************)
(* What a search finds: graph expansion stays close to the hits and below  *)
(* their scores, no hit is lost between the two searches and the filters,  *)
(* and an argument resolves to an entry that it can mean.                  *)
(***************************************************************************)
EXTENDS KnownWalksProofs

-----------------------------------------------------------------------------
(***************************************************************************)
(* Lists made from lists.                                                  *)
(***************************************************************************)
\* Every result of rs is one of qs, perhaps with a lower score.
Stems(rs, qs) ==
    \A n \in DOMAIN rs : \E k \in DOMAIN qs :
      /\ rs[n].id = qs[k].id /\ rs[n].depth = qs[k].depth
      /\ rs[n].score <= qs[k].score

LEMMA ScoresAreNatural ==
    ASSUME NEW rs \in Seq(Result)
    PROVE  \A n \in DOMAIN rs : rs[n].score \in Nat /\ rs[n].score <= rs[n].score
<1>1. \A r \in Result : r.score \in Nat
  BY DEF Result
<1>2. \A n \in DOMAIN rs : rs[n] \in Result
  OBVIOUS
<1> QED
  BY <1>1, <1>2

LEMMA PicksStem ==
    ASSUME NEW rs \in Seq(Result), NEW r, NEW I, I \subseteq DOMAIN rs,
           NEW f, Picks(r, rs, I, f)
    PROVE  Stems(r, rs)
<1>1. \A n \in DOMAIN r : f[n] \in DOMAIN rs /\ r[n] = rs[f[n]]
  BY DEF Picks
<1> QED
  BY <1>1, ScoresAreNatural DEF Stems

LEMMA SortStems ==
    ASSUME NEW rs \in Seq(Result) PROVE Stems(SortByScore(rs), rs)
<1>1. DOMAIN rs \subseteq DOMAIN rs
  OBVIOUS
<1> QED
  BY <1>1, SortByScoreFacts, PicksStem

LEMMA HavingStems ==
    ASSUME NEW rs \in Seq(Result), NEW ids PROVE Stems(Having(rs, ids), rs)
<1> DEFINE I == {n \in DOMAIN rs : rs[n].id \in ids}
<1>1. PICK f : Picks(Having(rs, ids), rs, I, f)
  BY HavingFacts
<1>2. I \subseteq DOMAIN rs
  OBVIOUS
<1> HIDE DEF I
<1> QED
  BY <1>1, <1>2, PicksStem

LEMMA CutStems ==
    ASSUME NEW rs \in Seq(Result), NEW n \in Nat PROVE Stems(Cut(rs, n), rs)
<1> DEFINE c == Cut(rs, n)
<1>1. /\ c \in Seq(Result) /\ Len(c) <= Len(rs) /\ Len(c) \in Nat
      /\ \A k \in 1..Len(c) : c[k] = rs[k]
  BY CutFacts
<1> HIDE DEF c
<1>2. \A k \in DOMAIN c : k \in DOMAIN rs /\ c[k] = rs[k]
  BY <1>1
<1> QED
  BY <1>2, ScoresAreNatural DEF Stems, c

LEMMA DemotedStems ==
    ASSUME NEW rs \in Seq(Result) PROVE Stems(Demoted(rs), rs)
<1>1. DOMAIN Demoted(rs) = DOMAIN rs
  BY DEF Demoted
<1> QED
  BY <1>1, DemotedFacts DEF Stems

\* The same hits with the same scores, but for what is marked.
SameHits(ms, rs) ==
    /\ ms \in Seq(Result) /\ DOMAIN ms = DOMAIN rs
    /\ \A k \in DOMAIN rs : /\ ms[k].id = rs[k].id /\ ms[k].depth = rs[k].depth
                            /\ ms[k].score = rs[k].score

LEMMA MarkedTheSame ==
    ASSUME NEW rs \in Seq(Result), NEW n \in DOMAIN rs, NEW b \in BOOLEAN
    PROVE  /\ SameHits([rs EXCEPT ![n].conflict = b], rs)
           /\ SameHits([rs EXCEPT ![n].superseded = b], rs)
<1>1. SameHits([rs EXCEPT ![n].conflict = b], rs)
  <2> DEFINE ms == [rs EXCEPT ![n].conflict = b]
  <2>1. DOMAIN ms = DOMAIN rs
    OBVIOUS
  <2>2. ms \in Seq(Result)
    BY MarkedResults
  <2>3. \A k \in DOMAIN rs : /\ ms[k].id = rs[k].id /\ ms[k].depth = rs[k].depth
                             /\ ms[k].score = rs[k].score
    BY MarkedResults
  <2> HIDE DEF ms
  <2>4. SameHits(ms, rs)
    BY <2>1, <2>2, <2>3 DEF SameHits
  <2> QED
    BY <2>4 DEF ms
<1>2. SameHits([rs EXCEPT ![n].superseded = b], rs)
  <2> DEFINE ms == [rs EXCEPT ![n].superseded = b]
  <2>1. DOMAIN ms = DOMAIN rs
    OBVIOUS
  <2>2. ms \in Seq(Result)
    BY MarkedResults
  <2>3. \A k \in DOMAIN rs : /\ ms[k].id = rs[k].id /\ ms[k].depth = rs[k].depth
                             /\ ms[k].score = rs[k].score
    BY MarkedResults
  <2> HIDE DEF ms
  <2>4. SameHits(ms, rs)
    BY <2>1, <2>2, <2>3 DEF SameHits
  <2> QED
    BY <2>4 DEF ms
<1> QED
  BY <1>1, <1>2

LEMMA MarkStems ==
    ASSUME NEW rs \in Seq(Result), NEW n \in DOMAIN rs, NEW b \in BOOLEAN,
           NEW ms \in {[rs EXCEPT ![n].conflict = b],
                       [rs EXCEPT ![n].superseded = b]}
    PROVE  Stems(ms, rs)
<1>1. SameHits(ms, rs)
  BY MarkedTheSame
<1>2. \A k \in DOMAIN rs : rs[k].score <= rs[k].score
  BY ScoresAreNatural
<1> QED
  BY <1>1, <1>2 DEF Stems, SameHits

LEMMA StemsOfStems ==
    ASSUME NEW rs \in Seq(Result), NEW qs \in Seq(Result), NEW ps \in Seq(Result),
           Stems(rs, qs), Stems(qs, ps)
    PROVE  Stems(rs, ps)
<1>1. /\ \A n \in DOMAIN rs : rs[n].score \in Nat
      /\ \A n \in DOMAIN qs : qs[n].score \in Nat
      /\ \A n \in DOMAIN ps : ps[n].score \in Nat
  BY ScoresAreNatural
<1> SUFFICES ASSUME NEW n \in DOMAIN rs
             PROVE  \E k \in DOMAIN ps :
                      /\ rs[n].id = ps[k].id /\ rs[n].depth = ps[k].depth
                      /\ rs[n].score <= ps[k].score
  BY DEF Stems
<1>2. PICK k \in DOMAIN qs : /\ rs[n].id = qs[k].id /\ rs[n].depth = qs[k].depth
                             /\ rs[n].score <= qs[k].score
  BY DEF Stems
<1>3. PICK l \in DOMAIN ps : /\ qs[k].id = ps[l].id /\ qs[k].depth = ps[l].depth
                             /\ qs[k].score <= ps[l].score
  BY DEF Stems
<1>4. rs[n].score <= ps[l].score
  <2>1. \A a, b, c \in Nat : a <= b /\ b <= c => a <= c
    OBVIOUS
  <2> QED
    BY <1>1, <1>2, <1>3, <2>1
<1> QED
  BY <1>2, <1>3, <1>4

\* Demotion, the sort after it, the filter and the limits only take away.
LEMMA RankStems ==
    ASSUME NEW j, IsJob(j) PROVE Stems(Rank(j), j.results)
<1> DEFINE rs == j.results
           ds == Demoted(rs)
           demoted == IF j.keep THEN rs ELSE SortByScore(ds)
           total == IF j.wanted = Ids THEN j.total ELSE 0
           cut == Cut(demoted, total)
           kept == Wanted(j, cut)
           shown == Cut(kept, j.total)
<1>1. rs \in Seq(Result) /\ j.total \in Nat /\ total \in Nat
  BY DEF IsJob, Lists, Options
<1>2. demoted \in Seq(Result) /\ Stems(demoted, rs)
  <2>1. ds \in Seq(Result) /\ Stems(ds, rs)
    BY <1>1, DemotedFacts, DemotedStems
  <2> HIDE DEF ds
  <2>2. SortByScore(ds) \in Seq(Result) /\ Stems(SortByScore(ds), ds)
    BY <2>1, SortByScoreFacts, SortStems
  <2>3. Stems(SortByScore(ds), rs)
    BY <1>1, <2>1, <2>2, StemsOfStems
  <2>4. Stems(rs, rs)
    BY <1>1, ScoresAreNatural DEF Stems
  <2> QED
    BY <1>1, <2>2, <2>3, <2>4
<1> HIDE DEF rs, demoted, total
<1>3. cut \in Seq(Result) /\ Stems(cut, demoted)
  BY <1>1, <1>2, CutFacts, CutStems
<1>4. Stems(cut, rs)
  BY <1>1, <1>2, <1>3, StemsOfStems
<1> HIDE DEF cut
<1>5. kept \in Seq(Result) /\ Stems(kept, cut)
  <2>1. CASE j.wanted = Ids
    BY <1>3, <2>1, ScoresAreNatural DEF Wanted, Stems
  <2>2. CASE j.wanted # Ids
    BY <1>3, <2>2, HavingFacts, HavingStems DEF Wanted
  <2> QED
    BY <2>1, <2>2
<1>6. Stems(kept, rs)
  BY <1>1, <1>3, <1>4, <1>5, StemsOfStems
<1> HIDE DEF kept
<1>7. shown \in Seq(Result) /\ Stems(shown, kept)
  BY <1>1, <1>5, CutFacts, CutStems
<1>8. Stems(shown, rs)
  BY <1>1, <1>5, <1>6, <1>7, StemsOfStems
<1> QED
  BY <1>8 DEF Rank, shown, kept, cut, demoted, total, rs, ds

-----------------------------------------------------------------------------
(***************************************************************************)
(* Expansion: until it begins the results are hits, at depth 0; from then  *)
(* on every result and every item that waits is anchored in one of them,   *)
(* and the hits whose neighbours were not seen yet are still to be walked  *)
(* from.                                                                   *)
(***************************************************************************)
Beside(d, i) == Adjacent(d, i, "both", {})

\* A result or an item of the queue lies within its depth of the hits, and no
\* hop has raised its score.
Anchored(d, j, r) ==
    /\ r.depth <= j.depth
    /\ r.id \in Within(d, Listed(j.vector), r.depth, "both", {})
    /\ \E k \in DOMAIN j.vector :
         /\ r.score <= j.vector[k].score
         /\ r.depth > 0 => 10 * r.score <= 8 * j.vector[k].score

\* What lies beside a hit has been seen, or will be.
Attended(l, j, d, i) ==
    \/ \E n \in DOMAIN j.seeds : j.seeds[n].id = i
    \/ \E it \in Waiting(l, j) : it.id = i /\ it.depth = 0
    \/ Beside(d, i) \subseteq j.visited

Hitherto(j) ==
    /\ j.queue = <<>>
    /\ \A n \in DOMAIN j.results : j.results[n].depth = 0
    /\ \A n \in DOMAIN j.vector : j.vector[n].depth = 0

Sprouts(l, j, d) ==
    /\ Listed(j.vector) \subseteq j.visited
    /\ \A n \in DOMAIN j.results : Anchored(d, j, j.results[n])
    /\ l \in Walking =>
         /\ \A it \in Waiting(l, j) : Anchored(d, j, it)
         /\ \A n \in DOMAIN j.seeds : \E k \in DOMAIN j.vector : j.seeds[n] = j.vector[k]
         /\ \A i \in Listed(j.vector) : Attended(l, j, d, i)
    /\ l \in {"walkIn", "visit"} => j.cur.depth < j.depth
    /\ l = "walkIn" => j.pending = OfTypes(EdgesFrom(d, j.cur.id), {})
    /\ l = "visit" =>
         /\ j.pending \subseteq Meets(d, j.cur.id, "both", {})
         /\ Beside(d, j.cur.id)
              \subseteq j.visited \cup {Other(x, j.cur.id) : x \in j.pending}
    /\ l \notin Walking => \A i \in Listed(j.vector) : Beside(d, i) \subseteq j.visited

Expansive(l, j, d) ==
    /\ j.dir = "both" /\ j.types = {} /\ j.depth > 0
    /\ l = "done" => j.phase = "hybrid"
    /\ j.phase # "hybrid" => Hitherto(j)
    /\ j.phase = "hybrid" => Sprouts(l, j, d)

Expanded ==
    job.kind \in Expanding /\ job.since = writes => Expansive(pc, job, db)

LEMMA ExpandedMoves ==
    ASSUME NEW l, NEW m, Goto(l, m),
           m.kind \in Expanding /\ m.since = writes => Expansive(l, m, db)
    PROVE  Expanded'
  BY DEF Goto, Expanded

LEMMA AnchoredTheSame ==
    ASSUME NEW d, NEW j, NEW m, m.vector = j.vector, m.depth = j.depth, NEW r
    PROVE  Anchored(d, m, r) <=> Anchored(d, j, r)
  BY DEF Anchored

LEMMA AnchoredStems ==
    ASSUME NEW d, NEW j, IsJob(j), NEW rs \in Seq(Result), NEW qs \in Seq(Result),
           Stems(rs, qs), \A n \in DOMAIN qs : Anchored(d, j, qs[n])
    PROVE  \A n \in DOMAIN rs : Anchored(d, j, rs[n])
<1>1. /\ \A n \in DOMAIN rs : rs[n].score \in Nat
      /\ \A n \in DOMAIN qs : qs[n].score \in Nat
      /\ \A n \in DOMAIN j.vector : j.vector[n].score \in Nat
  BY ScoresAreNatural DEF IsJob, Lists
<1> SUFFICES ASSUME NEW n \in DOMAIN rs PROVE Anchored(d, j, rs[n])
  OBVIOUS
<1>2. PICK k \in DOMAIN qs : /\ rs[n].id = qs[k].id /\ rs[n].depth = qs[k].depth
                             /\ rs[n].score <= qs[k].score
  BY DEF Stems
<1>3. Anchored(d, j, qs[k])
  OBVIOUS
<1>4. PICK v \in DOMAIN j.vector :
        /\ qs[k].score <= j.vector[v].score
        /\ qs[k].depth > 0 => 10 * qs[k].score <= 8 * j.vector[v].score
  BY <1>3 DEF Anchored
<1>5. /\ rs[n].score <= j.vector[v].score
      /\ rs[n].depth > 0 => 10 * rs[n].score <= 8 * j.vector[v].score
  <2>1. \A a, b, c \in Nat :
          /\ a <= b /\ b <= c => a <= c
          /\ a <= b /\ 10 * b <= 8 * c => 10 * a <= 8 * c
    OBVIOUS
  <2> QED
    BY <1>1, <1>2, <1>4, <2>1
<1> QED
  BY <1>2, <1>3, <1>5 DEF Anchored

\* What a hop beyond an anchored entry finds is anchored too.
LEMMA HopIsAnchored ==
    ASSUME NEW d, NEW j, IsJob(j), NEW it \in Item, Anchored(d, j, it),
           it.depth < j.depth, NEW x \in EdgeCopy, NEW i \in Beside(d, it.id),
           NEW r, r.id = i, r.depth = it.depth + 1,
           r.score = ExpansionScore(it.score, x)
    PROVE  Anchored(d, j, r)
<1>1. /\ it.depth \in Nat /\ it.score \in Nat /\ j.depth \in Nat
      /\ \A n \in DOMAIN j.vector : j.vector[n].score \in Nat
  BY ScoresAreNatural DEF IsJob, Lists, Options, Item
<1>2. /\ r.score \in Nat /\ 10 * r.score <= 8 * it.score
  BY <1>1, ExpansionScoreIsSmall
<1>3. PICK v \in DOMAIN j.vector : it.score <= j.vector[v].score
  BY DEF Anchored
<1>4. r.score <= j.vector[v].score /\ 10 * r.score <= 8 * j.vector[v].score
  <2>1. \A a, b, c \in Nat :
          10 * a <= 8 * b /\ b <= c => a <= c /\ 10 * a <= 8 * c
    OBVIOUS
  <2> QED
    BY <1>1, <1>2, <1>3, <2>1
<1>5. r.depth <= j.depth
  BY <1>1
<1>6. r.id \in Within(d, Listed(j.vector), r.depth, "both", {})
  <2>1. it.id \in Within(d, Listed(j.vector), it.depth, "both", {})
    BY DEF Anchored
  <2> QED
    BY <1>1, <2>1, WithinOneMore DEF Further, Beside
<1> QED
  BY <1>4, <1>5, <1>6 DEF Anchored

\* A hit is anchored in itself.
LEMMA HitIsAnchored ==
    ASSUME NEW d, NEW j, IsJob(j), NEW n \in DOMAIN j.vector,
           NEW r, r.id = j.vector[n].id, r.depth = 0, r.score = j.vector[n].score
    PROVE  Anchored(d, j, r)
<1>1. /\ j.depth \in Nat /\ j.vector[n].score \in Nat
      /\ j.vector[n].score <= j.vector[n].score
  BY ScoresAreNatural DEF IsJob, Lists, Options
<1>2. r.id \in Within(d, Listed(j.vector), 0, "both", {})
  BY WithinNone DEF Listed
<1> QED
  BY <1>1, <1>2 DEF Anchored

\* While a search walks, it has begun to expand.
LEMMA SearchWalks ==
    ASSUME Typed, Expanded, pc \in Walking, job.kind \in Expanding,
           job.since = writes
    PROVE  /\ job.phase = "hybrid" /\ Sprouts(pc, job, db)
           /\ job.dir = "both" /\ job.types = {} /\ job.depth \in Nat \ {0}
<1>1. job.phase = "hybrid"
  BY Remembered DEF Expected, Walking, Tracks, HybridPhase, Tracing, Expanding
<1>2. job.depth \in Nat
  BY Remembered DEF IsJob, Options
<1> QED
  BY <1>1, <1>2 DEF Expanded, Expansive

LEMMA WalkOutSprouts ==
    ASSUME Typed, Expanded, WalkOut, job.kind \in Expanding PROVE Expanded'
<1> DEFINE first == Head(Expandable)
           rest == Tail(Expandable)
<1>1. /\ pc = "walk" /\ Expandable # <<>> /\ Asks(job', job)
      /\ UNCHANGED <<db, writes>> /\ job'.results = job.results
      /\ job'.visited = job.visited /\ job'.cur = first /\ job'.queue = rest
      /\ pc' \in {"walkIn", "visit"}
  BY WalkOutMoves
<1> SUFFICES ASSUME job.since = writes PROVE Expanded'
  BY <1>1 DEF Expanded, Asks
<1>2. /\ job.phase = "hybrid" /\ Sprouts(pc, job, db)
      /\ job.dir = "both" /\ job.types = {} /\ job.depth \in Nat \ {0}
  BY <1>1, SearchWalks DEF Walking
<1>3. /\ first.depth < job.depth
      /\ \E n \in DOMAIN job.queue : first = job.queue[n]
      /\ \A k \in DOMAIN rest : \E n \in DOMAIN job.queue : rest[k] = job.queue[n]
      /\ \A n \in DOMAIN job.queue :
           \/ job.queue[n].depth >= job.depth
           \/ job.queue[n] = first
           \/ \E k \in DOMAIN rest : rest[k] = job.queue[n]
  BY <1>1, PoppedFacts
<1> HIDE DEF first, rest
<1>4. /\ Waiting(pc', job') = {rest[k] : k \in DOMAIN rest} \cup {first}
      /\ Waiting(pc, job) = {job.queue[n] : n \in DOMAIN job.queue}
  BY <1>1 DEF Waiting
<1>5. /\ Waiting(pc', job') \subseteq Waiting(pc, job)
      /\ \A it \in Waiting(pc, job) : it.depth = 0 => it \in Waiting(pc', job')
  <2>1. \A it \in Waiting(pc, job) :
          it.depth >= job.depth \/ it \in Waiting(pc', job')
    BY <1>3, <1>4
  <2> QED
    BY <1>2, <1>3, <1>4, <2>1
<1>6. /\ job'.kind = job.kind /\ job'.since = job.since
      /\ job'.vector = job.vector /\ job'.depth = job.depth
      /\ job'.dir = job.dir /\ job'.types = job.types
      /\ job'.phase = job.phase /\ job'.seeds = job.seeds
  BY <1>1 DEF Asks
<1>7. \A r : Anchored(db, job', r) <=> Anchored(db, job, r)
  BY <1>6, AnchoredTheSame
<1>8. /\ Listed(job'.vector) \subseteq job'.visited
      /\ \A n \in DOMAIN job'.results : Anchored(db, job', job'.results[n])
      /\ \A it \in Waiting(pc', job') : Anchored(db, job', it)
      /\ \A n \in DOMAIN job'.seeds : \E k \in DOMAIN job'.vector :
           job'.seeds[n] = job'.vector[k]
  BY <1>1, <1>2, <1>5, <1>6, <1>7 DEF Sprouts, Walking
<1>9. \A i \in Listed(job'.vector) : Attended(pc', job', db, i)
  <2>1. \A i \in Listed(job.vector) : Attended(pc, job, db, i)
    BY <1>1, <1>2 DEF Sprouts, Walking
  <2> QED
    BY <1>1, <1>5, <1>6, <2>1 DEF Attended
<1>10. /\ pc' = "walkIn" /\ job'.cur.depth < job'.depth
       /\ job'.pending = OfTypes(EdgesFrom(db, job'.cur.id), {})
  BY <1>1, <1>2, <1>3, <1>6, WalkOutMoves
<1>11. Sprouts(pc', job', db)
  BY <1>8, <1>9, <1>10 DEF Sprouts, Walking
<1> QED
  BY <1>1, <1>2, <1>6, <1>10, <1>11 DEF Expanded, Expansive

LEMMA WalkInSprouts ==
    ASSUME Typed, Expanded, WalkIn, job.kind \in Expanding PROVE Expanded'
<1>1. /\ pc = "walkIn" /\ pc' = "visit" /\ Asks(job', job)
      /\ UNCHANGED <<db, writes>> /\ job'.results = job.results
      /\ job'.visited = job.visited /\ job'.cur = job.cur
      /\ job'.queue = job.queue
      /\ job'.pending = job.pending
           \cup OfTypes(EdgesTo(db, job.cur.id), job.types)
  BY WalkInMoves
<1> SUFFICES ASSUME job.since = writes PROVE Expanded'
  BY <1>1 DEF Expanded, Asks
<1>2. /\ job.phase = "hybrid" /\ Sprouts(pc, job, db)
      /\ job.dir = "both" /\ job.types = {} /\ job.depth \in Nat \ {0}
  BY <1>1, SearchWalks DEF Walking
<1>3. Waiting(pc', job') = Waiting(pc, job)
  BY <1>1 DEF Waiting
<1>4. /\ job'.kind = job.kind /\ job'.since = job.since
      /\ job'.vector = job.vector /\ job'.depth = job.depth
      /\ job'.dir = job.dir /\ job'.types = job.types
      /\ job'.phase = job.phase /\ job'.seeds = job.seeds
  BY <1>1 DEF Asks
<1>5. \A r : Anchored(db, job', r) <=> Anchored(db, job, r)
  BY <1>4, AnchoredTheSame
<1>6. /\ Listed(job'.vector) \subseteq job'.visited
      /\ \A n \in DOMAIN job'.results : Anchored(db, job', job'.results[n])
      /\ \A it \in Waiting(pc', job') : Anchored(db, job', it)
      /\ \A n \in DOMAIN job'.seeds : \E k \in DOMAIN job'.vector :
           job'.seeds[n] = job'.vector[k]
      /\ job'.cur.depth < job'.depth
  BY <1>1, <1>2, <1>3, <1>4, <1>5 DEF Sprouts, Walking
<1>7. \A i \in Listed(job'.vector) : Attended(pc', job', db, i)
  <2>1. \A i \in Listed(job.vector) : Attended(pc, job, db, i)
    BY <1>1, <1>2 DEF Sprouts, Walking
  <2> QED
    BY <1>1, <1>3, <1>4, <2>1 DEF Attended
<1>8. job'.pending = Meets(db, job'.cur.id, "both", {})
  BY <1>1, <1>2 DEF Sprouts, Meets
<1>9. Beside(db, job'.cur.id)
        = {Other(x, job'.cur.id) : x \in Meets(db, job'.cur.id, "both", {})}
  BY Remembered, MeetsFacts DEF Beside
<1>10. Sprouts(pc', job', db)
  BY <1>1, <1>6, <1>7, <1>8, <1>9 DEF Sprouts, Walking
<1> QED
  BY <1>1, <1>2, <1>4, <1>10 DEF Expanded, Expansive

LEMMA AllSeenSprouts ==
    ASSUME Typed, Expanded, Visit, AllSeen, job.kind \in Expanding PROVE Expanded'
<1>1. /\ pc = "visit" /\ pc' = "walk" /\ Asks(job', job)
      /\ UNCHANGED <<db, writes>> /\ job'.results = job.results
      /\ job'.visited = job.visited /\ job'.queue = job.queue
  BY VisitMoves DEF AllSeen
<1> SUFFICES ASSUME job.since = writes PROVE Expanded'
  BY <1>1 DEF Expanded, Asks
<1>2. /\ job.phase = "hybrid" /\ Sprouts(pc, job, db)
      /\ job.dir = "both" /\ job.types = {} /\ job.depth \in Nat \ {0}
  BY <1>1, SearchWalks DEF Walking
<1>3. Waiting(pc', job') \cup {job.cur} = Waiting(pc, job)
  BY <1>1 DEF Waiting
<1>4. /\ job'.kind = job.kind /\ job'.since = job.since
      /\ job'.vector = job.vector /\ job'.depth = job.depth
      /\ job'.dir = job.dir /\ job'.types = job.types
      /\ job'.phase = job.phase /\ job'.seeds = job.seeds
  BY <1>1 DEF Asks
<1>5. \A r : Anchored(db, job', r) <=> Anchored(db, job, r)
  BY <1>4, AnchoredTheSame
<1>6. /\ Listed(job'.vector) \subseteq job'.visited
      /\ \A n \in DOMAIN job'.results : Anchored(db, job', job'.results[n])
      /\ \A it \in Waiting(pc', job') : Anchored(db, job', it)
      /\ \A n \in DOMAIN job'.seeds : \E k \in DOMAIN job'.vector :
           job'.seeds[n] = job'.vector[k]
  BY <1>1, <1>2, <1>3, <1>4, <1>5 DEF Sprouts, Walking
<1>7. Beside(db, job.cur.id) \subseteq job.visited
  BY <1>1, <1>2 DEF Sprouts, AllSeen, Fresh
<1>8. \A i \in Listed(job'.vector) : Attended(pc', job', db, i)
  <2>1. \A i \in Listed(job.vector) : Attended(pc, job, db, i)
    BY <1>1, <1>2 DEF Sprouts, Walking
  <2> QED
    BY <1>1, <1>3, <1>4, <1>7, <2>1 DEF Attended
<1>9. Sprouts(pc', job', db)
  BY <1>1, <1>6, <1>8 DEF Sprouts, Walking
<1> QED
  BY <1>1, <1>2, <1>4, <1>9 DEF Expanded, Expansive

LEMMA OneSeenSprouts ==
    ASSUME Typed, Expanded, Visit, NEW x \in Fresh, OneSeen(x),
           job.kind \in Expanding
    PROVE  Expanded'
<1> DEFINE peer == Other(x, job.cur.id)
           n == job.cur.depth + 1
           score == ExpansionScore(job.cur.score, x)
           r == Found(peer, score, n)
           it == At(peer, n, score, <<>>)
<1>1. /\ pc = "visit" /\ pc' = "visit" /\ Asks(job', job)
      /\ UNCHANGED <<db, writes>>
      /\ job'.cur = job.cur /\ job'.visited = job.visited \cup {peer}
      /\ job'.pending = Fresh \ {x}
  BY VisitMoves DEF OneSeen
<1>2. \/ /\ job'.results = Append(job.results, r)
         /\ job'.queue = Append(job.queue, it)
      \/ job'.results = job.results /\ job'.queue = job.queue
  BY DEF OneSeen, Expanding
<1> SUFFICES ASSUME job.since = writes PROVE Expanded'
  BY <1>1 DEF Expanded, Asks
<1>3. /\ job.phase = "hybrid" /\ Sprouts(pc, job, db)
      /\ job.dir = "both" /\ job.types = {} /\ job.depth \in Nat \ {0}
  BY <1>1, SearchWalks DEF Walking
<1>4. /\ job'.kind = job.kind /\ job'.since = job.since
      /\ job'.vector = job.vector /\ job'.depth = job.depth
      /\ job'.dir = job.dir /\ job'.types = job.types
      /\ job'.phase = job.phase /\ job'.seeds = job.seeds
  BY <1>1 DEF Asks
<1>5. \A s : Anchored(db, job', s) <=> Anchored(db, job, s)
  BY <1>4, AnchoredTheSame
<1>6. /\ x \in EdgeCopy /\ x \in job.pending /\ job.cur \in Item
      /\ IsJob(job) /\ job.results \in Seq(Result) /\ job.queue \in Seq(Item)
  BY <1>1, Remembered, VisitedFacts DEF IsJob, Lists
<1>7. peer \in Beside(db, job.cur.id)
  <2>1. x \in Meets(db, job.cur.id, "both", {})
    BY <1>1, <1>3, <1>6 DEF Sprouts
  <2> QED
    BY <2>1, Remembered, MeetsFacts DEF Beside
<1>8. Anchored(db, job, r) /\ Anchored(db, job, it)
  <2>1. /\ r.id = peer /\ r.depth = n /\ r.score = score
        /\ it.id = peer /\ it.depth = n /\ it.score = score
    BY DEF Found, At
  <2>2. Anchored(db, job, job.cur) /\ job.cur.depth < job.depth
    BY <1>1, <1>3 DEF Sprouts, Waiting, Walking
  <2> HIDE DEF r, it, peer, n, score
  <2>3. \A s : /\ s.id = peer /\ s.depth = job.cur.depth + 1
               /\ s.score = ExpansionScore(job.cur.score, x)
               => Anchored(db, job, s)
    BY <1>6, <1>7, <2>2, HopIsAnchored
  <2> QED
    BY <2>1, <2>3 DEF n, score
<1> HIDE DEF r, it
<1>9. \A k \in DOMAIN job'.results : Anchored(db, job', job'.results[k])
  <2>1. \A k \in DOMAIN job.results : Anchored(db, job, job.results[k])
    BY <1>3 DEF Sprouts
  <2>2. CASE job'.results = job.results
    BY <1>5, <2>1, <2>2
  <2>3. CASE job'.results = Append(job.results, r)
    <3>1. \A k \in DOMAIN job'.results :
            \/ k \in DOMAIN job.results /\ job'.results[k] = job.results[k]
            \/ job'.results[k] = r
      BY <1>6, <2>3
    <3> QED
      BY <1>5, <1>8, <2>1, <3>1
  <2> QED
    BY <1>2, <2>2, <2>3
<1>10. /\ Waiting(pc, job) \subseteq Waiting(pc', job')
       /\ Waiting(pc', job') \subseteq Waiting(pc, job) \cup {it}
  <2>1. CASE job'.queue = job.queue
    BY <1>1, <2>1 DEF Waiting
  <2>2. CASE job'.queue = Append(job.queue, it)
    <3>1. /\ \A k \in DOMAIN job'.queue :
               \/ k \in DOMAIN job.queue /\ job'.queue[k] = job.queue[k]
               \/ job'.queue[k] = it
          /\ \A k \in DOMAIN job.queue :
               k \in DOMAIN job'.queue /\ job'.queue[k] = job.queue[k]
      BY <1>6, <2>2
    <3> QED
      BY <1>1, <3>1 DEF Waiting
  <2> QED
    BY <1>2, <2>1, <2>2
<1>11. \A w \in Waiting(pc', job') : Anchored(db, job', w)
  BY <1>1, <1>3, <1>5, <1>8, <1>10 DEF Sprouts, Walking
<1>12. /\ Listed(job'.vector) \subseteq job'.visited
       /\ \A k \in DOMAIN job'.seeds : \E l \in DOMAIN job'.vector :
            job'.seeds[k] = job'.vector[l]
       /\ job'.cur.depth < job'.depth
  BY <1>1, <1>3, <1>4 DEF Sprouts, Walking
<1>13. \A i \in Listed(job'.vector) : Attended(pc', job', db, i)
  <2>1. \A i \in Listed(job.vector) : Attended(pc, job, db, i)
    BY <1>1, <1>3 DEF Sprouts, Walking
  <2> QED
    BY <1>1, <1>4, <1>10, <2>1 DEF Attended
<1>14. /\ job'.pending \subseteq Meets(db, job'.cur.id, "both", {})
       /\ Beside(db, job'.cur.id) \subseteq
            job'.visited \cup {Other(y, job'.cur.id) : y \in job'.pending}
  <2>1. /\ job.pending \subseteq Meets(db, job.cur.id, "both", {})
        /\ Beside(db, job.cur.id) \subseteq
             job.visited \cup {Other(y, job.cur.id) : y \in job.pending}
    BY <1>1, <1>3 DEF Sprouts
  <2>2. /\ Fresh \subseteq job.pending
        /\ \A y \in job.pending : \/ Other(y, job.cur.id) \in job'.visited
                                  \/ y \in job'.pending
    BY <1>1 DEF Fresh
  <2> QED
    BY <1>1, <2>1, <2>2
<1>15. Sprouts(pc', job', db)
  BY <1>1, <1>9, <1>11, <1>12, <1>13, <1>14 DEF Sprouts, Walking
<1> QED
  BY <1>1, <1>3, <1>4, <1>15 DEF Expanded, Expansive

\* The next hit is walked from; nothing that still waits is next to one.
LEMMA SeedSprouts ==
    ASSUME Typed, Expanded, ExpandFromEntry, job.kind \in Expanding PROVE Expanded'
<1> DEFINE seed == Head(job.seeds)
           rest == Tail(job.seeds)
           it == At(seed.id, 0, seed.score, <<>>)
           j == [job EXCEPT !.seeds = rest]
<1>1. /\ pc = "walk" /\ Expandable = <<>> /\ job.seeds # <<>>
      /\ Goto("walk", Walk(j, seed.id, seed.score))
  BY DEF ExpandFromEntry
<1>2. /\ IsJob(job) /\ DOMAIN job = Fields /\ job.seeds \in Seq(Result)
      /\ job.queue \in Seq(Item)
  BY Remembered DEF IsJob, Lists
<1>3. /\ DOMAIN j = Fields /\ Asks([j EXCEPT !.seeds = job.seeds], job)
      /\ j.seeds = rest /\ j.results = job.results /\ j.visited = job.visited
      /\ j.kind = job.kind /\ j.since = job.since /\ j.vector = job.vector
      /\ j.depth = job.depth /\ j.dir = job.dir /\ j.types = job.types
      /\ j.phase = job.phase
  BY <1>2 DEF Fields, Asks
<1> HIDE DEF j
<1>4. /\ pc' = "walk" /\ UNCHANGED <<db, writes>>
      /\ job' = Walk(j, seed.id, seed.score)
  BY <1>1 DEF Goto
<1>5. /\ job'.seeds = rest /\ job'.results = job.results
      /\ job'.visited = job.visited \cup {seed.id} /\ job'.queue = <<it>>
      /\ job'.kind = job.kind /\ job'.since = job.since
      /\ job'.vector = job.vector /\ job'.depth = job.depth
      /\ job'.dir = job.dir /\ job'.types = job.types
      /\ job'.phase = job.phase
  BY <1>3, <1>4 DEF Walk, Fields
<1> SUFFICES ASSUME job.since = writes PROVE Expanded'
  BY <1>4, <1>5 DEF Expanded
<1>6. /\ job.phase = "hybrid" /\ Sprouts(pc, job, db)
      /\ job.dir = "both" /\ job.types = {} /\ job.depth \in Nat \ {0}
  BY <1>1, SearchWalks DEF Walking
<1>7. \A r : Anchored(db, job', r) <=> Anchored(db, job, r)
  BY <1>5, AnchoredTheSame
<1>8. /\ 1 \in DOMAIN job.seeds /\ seed = job.seeds[1]
      /\ \A n \in DOMAIN rest : n + 1 \in DOMAIN job.seeds
                                /\ rest[n] = job.seeds[n + 1]
      /\ \A n \in DOMAIN job.seeds :
           n = 1 \/ (n - 1 \in DOMAIN rest /\ rest[n - 1] = job.seeds[n])
  BY <1>1, <1>2
<1>9. it.id = seed.id /\ it.depth = 0 /\ it.score = seed.score
  BY DEF At
<1> HIDE DEF seed, rest, it
<1>10. Waiting(pc', job') = {it}
  <2>1. DOMAIN <<it>> = {1} /\ <<it>>[1] = it
    OBVIOUS
  <2> QED
    BY <1>4, <1>5, <2>1 DEF Waiting
<1>11. Anchored(db, job, it)
  <2>1. PICK k \in DOMAIN job.vector : seed = job.vector[k]
    BY <1>1, <1>6, <1>8 DEF Sprouts, Walking
  <2>2. it.id = job.vector[k].id /\ it.score = job.vector[k].score
    BY <1>9, <2>1
  <2> QED
    BY <1>2, <1>9, <2>2, HitIsAnchored
<1>12. /\ Listed(job'.vector) \subseteq job'.visited
       /\ \A n \in DOMAIN job'.results : Anchored(db, job', job'.results[n])
       /\ \A w \in Waiting(pc', job') : Anchored(db, job', w)
  BY <1>5, <1>6, <1>7, <1>10, <1>11 DEF Sprouts
<1>13. \A n \in DOMAIN job'.seeds : \E k \in DOMAIN job'.vector :
         job'.seeds[n] = job'.vector[k]
  <2>1. \A n \in DOMAIN job.seeds : \E k \in DOMAIN job.vector :
          job.seeds[n] = job.vector[k]
    BY <1>1, <1>6 DEF Sprouts, Walking
  <2> QED
    BY <1>5, <1>8, <2>1
<1>14. ASSUME NEW i \in Listed(job'.vector) PROVE Attended(pc', job', db, i)
  <2>1. Attended(pc, job, db, i)
    BY <1>1, <1>5, <1>6 DEF Sprouts, Walking
  <2>2. ASSUME NEW n \in DOMAIN job.seeds, job.seeds[n].id = i
        PROVE  Attended(pc', job', db, i)
    <3>1. CASE n = 1
      BY <1>8, <1>9, <1>10, <2>2, <3>1 DEF Attended
    <3>2. CASE n - 1 \in DOMAIN rest /\ rest[n - 1] = job.seeds[n]
      BY <1>5, <2>2, <3>2 DEF Attended
    <3> QED
      BY <1>8, <3>1, <3>2
  <2>3. ASSUME NEW w \in Waiting(pc, job) PROVE w.depth # 0
    <3>1. PICK n \in DOMAIN job.queue : w = job.queue[n]
      BY <1>1, <2>3 DEF Waiting
    <3>2. job.queue[n].depth >= job.depth
      BY <1>1, PoppedFacts
    <3> QED
      BY <1>6, <3>1, <3>2
  <2>4. Beside(db, i) \subseteq job.visited => Attended(pc', job', db, i)
    BY <1>5 DEF Attended
  <2> QED
    BY <2>1, <2>2, <2>3, <2>4 DEF Attended
<1>15. Sprouts(pc', job', db)
  BY <1>4, <1>12, <1>13, <1>14 DEF Sprouts, Walking
<1> QED
  BY <1>4, <1>5, <1>6, <1>15 DEF Expanded, Expansive

LEMMA EndWalkSprouts ==
    ASSUME Typed, Expanded, EndWalk, job.kind \in Expanding PROVE Expanded'
<1> DEFINE m == [job EXCEPT !.at = 1]
<1>1. pc = "walk" /\ Expandable = <<>> /\ job.seeds = <<>> /\ Goto("enrich", m)
  BY DEF EndWalk, Expanding
<1>2. /\ m.results = job.results /\ m.visited = job.visited
      /\ m.kind = job.kind /\ m.since = job.since
      /\ m.vector = job.vector /\ m.depth = job.depth
      /\ m.dir = job.dir /\ m.types = job.types /\ m.phase = job.phase
  BY Remembered DEF Fields
<1> HIDE DEF m
<1>3. ASSUME job.since = writes PROVE Expansive("enrich", m, db)
  <2>1. /\ job.phase = "hybrid" /\ Sprouts(pc, job, db)
        /\ job.dir = "both" /\ job.types = {} /\ job.depth \in Nat \ {0}
    BY <1>1, <1>3, SearchWalks DEF Walking
  <2>2. \A r : Anchored(db, m, r) <=> Anchored(db, job, r)
    BY <1>2, AnchoredTheSame
  <2>3. ASSUME NEW i \in Listed(job.vector) PROVE Beside(db, i) \subseteq job.visited
    <3>1. Attended(pc, job, db, i)
      BY <1>1, <2>1 DEF Sprouts, Walking
    <3>2. ASSUME NEW w \in Waiting(pc, job) PROVE w.depth # 0
      <4>1. PICK n \in DOMAIN job.queue : w = job.queue[n]
        BY <1>1, <3>2 DEF Waiting
      <4>2. job.queue[n].depth >= job.depth
        BY <1>1, PoppedFacts
      <4> QED
        BY <2>1, <4>1, <4>2
    <3>3. DOMAIN job.seeds = {}
      BY <1>1
    <3> QED
      BY <3>1, <3>2, <3>3 DEF Attended
  <2>4. Sprouts("enrich", m, db)
    BY <1>2, <2>1, <2>2, <2>3 DEF Sprouts, Walking
  <2> QED
    BY <1>2, <2>1, <2>4 DEF Expansive
<1> QED
  BY <1>1, <1>2, <1>3, ExpandedMoves

LEMMA WalksSprout ==
    ASSUME Typed, Expanded, job.kind \in Expanding,
           WalkOut \/ WalkIn \/ Visit \/ EndWalk \/ ExpandFromEntry
    PROVE  Expanded'
<1>1. CASE Visit
  <2>1. \A x \in Fresh : ~ FoundTarget(x)
    BY DEF FoundTarget, Expanding
  <2> QED
    BY <1>1, <2>1, VisitMoves, AllSeenSprouts, OneSeenSprouts
<1> QED
  BY <1>1, WalkOutSprouts, WalkInSprouts, EndWalkSprouts, SeedSprouts

-----------------------------------------------------------------------------
(***************************************************************************)
(* Expansion: before it and after it.                                      *)
(***************************************************************************)
LEMMA ExpandSprouts ==
    ASSUME Typed, job.kind \in Expanding, NEW rs \in Seq(Result),
           Expand(job, rs),
           job.since = writes =>
             /\ job.dir = "both" /\ job.types = {} /\ job.depth > 0
             /\ job.queue = <<>> /\ \A n \in DOMAIN rs : rs[n].depth = 0
    PROVE  Expanded'
<1> DEFINE m == [job EXCEPT !.phase = "hybrid", !.vector = rs, !.seeds = rs,
                            !.results = rs, !.visited = Listed(rs)]
<1>1. Goto("walk", m)
  BY DEF Expand
<1>2. IsJob(job) /\ DOMAIN job = Fields
  BY Remembered
<1>3. /\ m.kind = job.kind /\ m.since = job.since /\ m.dir = job.dir
      /\ m.types = job.types /\ m.depth = job.depth /\ m.phase = "hybrid"
      /\ m.vector = rs /\ m.seeds = rs /\ m.results = rs
      /\ m.visited = Listed(rs) /\ m.queue = job.queue
  BY <1>2 DEF Fields
<1>4. IsJob(m)
  <2>1. Listed(rs) \in SUBSET Ids
    <3>1. \A n \in DOMAIN rs : rs[n] \in Result
      OBVIOUS
    <3> QED
      BY <3>1 DEF Listed, Result
  <2> QED
    BY <1>2, <2>1 DEF IsJob, Fields, Options, Gathered, Lists
<1> HIDE DEF m
<1>5. ASSUME m.since = writes PROVE Expansive("walk", m, db)
  <2>1. /\ job.dir = "both" /\ job.types = {} /\ job.depth > 0
        /\ job.queue = <<>> /\ \A n \in DOMAIN rs : rs[n].depth = 0
    BY <1>3, <1>5
  <2>2. Waiting("walk", m) = {}
    BY <1>3, <2>1 DEF Waiting
  <2>3. \A n \in DOMAIN rs : Anchored(db, m, rs[n])
    BY <1>3, <1>4, <2>1, HitIsAnchored
  <2>4. \A i \in Listed(m.vector) : Attended("walk", m, db, i)
    BY <1>3 DEF Listed, Attended
  <2>5. Sprouts("walk", m, db)
    BY <1>3, <2>2, <2>3, <2>4 DEF Sprouts, Walking
  <2> QED
    BY <1>3, <2>1, <2>5 DEF Expansive
<1> QED
  BY <1>1, <1>5, ExpandedMoves

\* Between the statements of a search, outside the walk, the results are only
\* picked, sorted, marked and demoted.
LEMMA StemsSprout ==
    ASSUME Typed, Expanded, job.kind \in Expanding, pc \notin Walking,
           NEW l, l \notin Walking, NEW m, IsJob(m), Goto(l, m),
           m.kind = job.kind, m.since = job.since, m.dir = job.dir,
           m.types = job.types, m.depth = job.depth, m.visited = job.visited,
           m.queue = job.queue,
           l = "done" => job.phase = "hybrid",
           m.phase = "hybrid" <=> job.phase = "hybrid",
           job.phase = "hybrid" => m.vector = job.vector,
           Stems(m.results, job.results),
           m.vector = job.vector \/ m.vector = job.results
    PROVE  Expanded'
<1> SUFFICES ASSUME m.since = writes PROVE Expansive(l, m, db)
  BY ExpandedMoves
<1>1. /\ IsJob(job) /\ job.results \in Seq(Result) /\ m.results \in Seq(Result)
  BY Remembered DEF IsJob, Lists
<1>2. Expansive(pc, job, db)
  BY DEF Expanded
<1>3. CASE job.phase = "hybrid"
  <2>1. Sprouts(pc, job, db)
    BY <1>2, <1>3 DEF Expansive
  <2>2. \A r : Anchored(db, m, r) <=> Anchored(db, job, r)
    BY <1>3, AnchoredTheSame
  <2>3. \A n \in DOMAIN m.results : Anchored(db, job, m.results[n])
    BY <1>1, <2>1, AnchoredStems DEF Sprouts
  <2>4. Sprouts(l, m, db)
    BY <1>3, <2>1, <2>2, <2>3 DEF Sprouts, Walking
  <2> QED
    BY <1>2, <1>3, <2>4 DEF Expansive
<1>4. CASE job.phase # "hybrid"
  <2>1. Hitherto(job)
    BY <1>2, <1>4 DEF Expansive
  <2>2. Hitherto(m)
    BY <2>1 DEF Hitherto, Stems
  <2> QED
    BY <1>2, <1>4, <2>2 DEF Expansive
<1> QED
  BY <1>3, <1>4

LEMMA StemsOfItself == ASSUME NEW rs \in Seq(Result) PROVE Stems(rs, rs)
  BY ScoresAreNatural DEF Stems

\* No other request searches.
LEMMA OthersDoNotSearch ==
    ASSUME Typed, Ask,
           ~ (\/ SearchVector \/ SearchText \/ HandleSearch \/ SearchHybrid
              \/ Recall \/ ResolveEntry)
    PROVE  /\ job'.kind \notin Searching
           /\ ~ RecallByScope => job'.kind # "scope"
<1>1. CASE HandleNeighbors \/ Related \/ HandlePath \/ RunPath
  <2>1. PICK j : TracingJob(j)
    BY <1>1, TracingAsks
  <2>2. j.kind \in Tracing /\ IsJob(j) /\ j.start \in Ids
    BY <2>1 DEF TracingJob, Tracks
  <2>3. Walk(j, j.start, 0).kind = j.kind
    BY <2>2, WalkFacts DEF SameRequest
  <2>4. job'.kind \in Tracing
    BY <2>1, <2>2, <2>3 DEF TracingJob, Goto
  <2> QED
    BY <2>4 DEF Tracing, Searching, Expanding
<1>2. CASE \/ HandleGraph \/ DetectAllConflicts \/ HandleEntry
           \/ ShowByID \/ Stats
  <2>1. PICK kind \in Around \ {"neighbors"}, ids \in SUBSET Ids :
          /\ kind \in Kinds
          /\ Goto("scan", [New(kind) EXCEPT !.nodes = ids, !.todo = ids])
    BY <1>2, AroundRequests
  <2>2. DOMAIN New(kind) = Fields /\ New(kind).kind = kind
    BY <2>1, NewIsAJob
  <2>3. job'.kind = kind
    BY <2>1, <2>2 DEF Goto, Fields
  <2> QED
    BY <2>3 DEF Around, Searching, Expanding
<1>3. CASE RecallByScope
  <2>1. PICK j : Listing(j)
    BY <1>3, ScopeAsks
  <2> QED
    BY <1>3, <2>1 DEF Listing, Goto, Searching, Expanding
<1> QED
  BY <1>1, <1>2, <1>3 DEF Ask

\* What serves a search.
LEMMA SearchIsServed ==
    ASSUME Typed, Serve, job.kind \in Searching
    PROVE  \/ Fetch \/ Enrich \/ Enriched \/ Finish
           \/ Match \/ Supersede \/ Superseded
           \/ job.kind = "resolve" /\ SearchByText
           \/ /\ job.kind \in Expanding
              /\ WalkOut \/ WalkIn \/ Visit \/ EndWalk \/ ExpandFromEntry
<1>1. Expected(pc, job)
  BY Remembered
<1>2. pc \notin {"scan", "scanIn", "conflicts", "peers", "pathTo", "build"}
  BY <1>1 DEF Expected, Around, Searching, Expanding
<1>3. ~ (\/ Scan \/ ScanIn \/ EntryConflicts \/ ShowEdges \/ MeshEdges
         \/ GraphPeers \/ LookUpPeers \/ PathTo \/ Build)
  BY <1>2 DEF Scan, ScanIn, EntryConflicts, ShowEdges, MeshEdges,
     GraphPeers, LookUpPeers, PathTo, Build
<1>4. pc = "list" => job.kind = "resolve"
  BY <1>1 DEF Expected
<1>5. pc \in Walking => job.kind \in Expanding
  BY <1>1
  DEF Expected, Walking, Tracks, HybridPhase, Tracing, Searching, Expanding
<1>6. WalkOut \/ WalkIn \/ Visit \/ EndWalk \/ ExpandFromEntry => pc \in Walking
  BY DEF WalkOut, WalkIn, Visit, EndWalk, ExpandFromEntry, Walking
<1>7. SearchByText => pc = "list"
  BY DEF SearchByText
<1> QED
  BY <1>3, <1>4, <1>5, <1>6, <1>7 DEF Serve

\* The first pass of a search: the request with the entries that it ranked.
Searched(m, j) ==
    /\ m.kind = j.kind /\ m.since = j.since /\ m.limit = j.limit
    /\ m.total = j.total /\ m.recency = j.recency /\ m.wanted = j.wanted
    /\ m.text = j.text /\ m.argument = j.argument /\ m.depth = j.depth
    /\ m.dir = j.dir /\ m.types = j.types /\ m.queue = j.queue
    /\ m.results = j.results /\ m.vector = j.vector /\ m.strict = j.strict
    /\ \/ /\ m.kind \in {"vector", "resolve"} \cup Expanding
          /\ m.phase = "vector" /\ m.ranked \in Best(Similarity, OrDefault(m.limit))
       \/ /\ m.kind \in {"text", "search"}
          /\ m.phase = "text" /\ m.ranked \in Best(Relevance, OrDefault(m.limit))

LEMMA SearchBeginsWith ==
    ASSUME NEW j, Asking(j)
    PROVE  \/ \E m : Goto("fetch", m) /\ Searched(m, j)
           \/ j.kind = "resolve" /\ Goto("list", j)
<1>1. DOMAIN j = Fields
  BY DEF Asking, IsJob
<1>2. ASSUME StartVector(j), j.kind \in {"vector", "resolve"} \cup Expanding
      PROVE  \E m : Goto("fetch", m) /\ Searched(m, j)
  <2>1. PICK q \in Best(Similarity, OrDefault(j.limit)) :
          Goto("fetch", [j EXCEPT !.phase = "vector", !.ranked = q])
    BY <1>2 DEF StartVector
  <2> DEFINE m == [j EXCEPT !.phase = "vector", !.ranked = q]
  <2>2. Goto("fetch", m)
    BY <2>1
  <2>3. Searched(m, j)
    BY <1>1, <1>2, <2>1 DEF Fields, Searched
  <2> HIDE DEF m
  <2> QED
    BY <2>2, <2>3
<1>3. ASSUME StartText(j), j.kind \in {"text", "search"}
      PROVE  \E m : Goto("fetch", m) /\ Searched(m, j)
  <2>1. PICK q \in Best(Relevance, OrDefault(j.limit)) :
          Goto("fetch", [j EXCEPT !.phase = "text", !.ranked = q])
    BY <1>3 DEF StartText
  <2> DEFINE m == [j EXCEPT !.phase = "text", !.ranked = q]
  <2>2. Goto("fetch", m)
    BY <2>1
  <2>3. Searched(m, j)
    BY <1>1, <1>3, <2>1 DEF Fields, Searched
  <2> HIDE DEF m
  <2> QED
    BY <2>2, <2>3
<1> QED
  BY <1>2, <1>3 DEF Asking

LEMMA SearchBeginsPlain ==
    ASSUME Typed,
           \/ SearchVector \/ SearchText \/ HandleSearch \/ SearchHybrid
           \/ Recall \/ ResolveEntry
    PROVE  Expanded'
<1>1. PICK j : Asking(j)
  BY SearchesAsk
<1>2. /\ j.results = <<>> /\ j.vector = <<>> /\ j.queue = <<>>
      /\ j.dir = "both" /\ j.types = {}
      /\ j.kind \in Expanding => j.depth > 0
  BY <1>1 DEF Asking
<1>3. ASSUME NEW m, Goto("fetch", m), Searched(m, j) PROVE Expanded'
  <2>1. m.kind \in Expanding => Expansive("fetch", m, db)
    BY <1>2, <1>3 DEF Searched, Expansive, Hitherto, Expanding
  <2> QED
    BY <1>3, <2>1, ExpandedMoves
<1>4. ASSUME j.kind = "resolve", Goto("list", j) PROVE Expanded'
  BY <1>4, ExpandedMoves DEF Expanding
<1> QED
  BY <1>1, <1>3, <1>4, SearchBeginsWith

LEMMA FetchSprouts ==
    ASSUME Typed, Expanded, job.kind \in Expanding, Fetch PROVE Expanded'
<1> DEFINE rs == IF job.recency > 0 THEN SortByScore(FoundIn(job))
                                    ELSE FoundIn(job)
           m == [job EXCEPT !.ranked = <<>>, !.at = 1, !.results = rs]
<1>1. /\ IsJob(job) /\ DOMAIN job = Fields /\ pc = "fetch"
      /\ Expected("fetch", job)
  BY Remembered DEF Fetch
<1>2. Goto("enrich", m)
  BY DEF Fetch, FoundIn, Rows
<1>3. \A n \in DOMAIN rs : rs[n].depth = 0
  <2>1. /\ FoundIn(job) \in Seq(Result)
        /\ \A n \in DOMAIN FoundIn(job) : FoundIn(job)[n].depth = 0
    BY <1>1, FetchFacts
  <2>2. Stems(SortByScore(FoundIn(job)), FoundIn(job))
    BY <2>1, SortStems
  <2> QED
    BY <2>1, <2>2 DEF Stems
<1> HIDE DEF rs
<1>4. /\ m.kind = job.kind /\ m.since = job.since /\ m.dir = job.dir
      /\ m.types = job.types /\ m.depth = job.depth /\ m.queue = job.queue
      /\ m.phase = job.phase /\ m.vector = job.vector /\ m.results = rs
  BY <1>1 DEF Fields
<1> HIDE DEF m
<1>5. job.phase # "hybrid"
  BY <1>1 DEF Expected, VectorPhase, TextPhase
<1>6. ASSUME m.since = writes PROVE Expansive("enrich", m, db)
  <2>1. Expansive(pc, job, db)
    BY <1>4, <1>6 DEF Expanded
  <2> QED
    BY <1>3, <1>4, <1>5, <2>1 DEF Expansive, Hitherto
<1> QED
  BY <1>2, <1>6, ExpandedMoves

LEMMA MarksSprout ==
    ASSUME Typed, Expanded, job.kind \in Expanding, Enrich \/ Supersede
    PROVE  Expanded'
<1>1. /\ IsJob(job) /\ DOMAIN job = Fields /\ job.results \in Seq(Result)
      /\ job.at \in Nat \ {0}
  BY Remembered DEF IsJob, Lists
<1>2. job.at \in DOMAIN job.results /\ job.at + 1 \in Nat \ {0}
  BY <1>1 DEF Enrich, Supersede
<1>3. PICK rs \in Seq(Result) :
        /\ Stems(rs, job.results) /\ pc \in {"enrich", "supersede"}
        /\ Goto(pc, [job EXCEPT !.at = @ + 1, !.results = rs])
  <2>1. CASE Enrich
    <3> DEFINE b == \/ job.results[job.at].conflict
                    \/ FindConflicts(db, job.results[job.at].id) # {}
               rs == [job.results EXCEPT ![job.at].conflict = b]
    <3>1. /\ Goto("enrich", [job EXCEPT !.at = @ + 1, !.results = rs])
          /\ pc = "enrich"
      BY <2>1 DEF Enrich
    <3>2. b \in BOOLEAN
      OBVIOUS
    <3> HIDE DEF b
    <3>3. rs \in Seq(Result) /\ Stems(rs, job.results)
      BY <1>1, <1>2, <3>2, MarkedResults, MarkStems
    <3> HIDE DEF rs
    <3> QED
      BY <3>1, <3>3
  <2>2. CASE Supersede
    <3> DEFINE b == \/ job.results[job.at].superseded
                    \/ IsSuperseded(db, job.results[job.at].id)
               rs == [job.results EXCEPT ![job.at].superseded = b]
    <3>1. /\ Goto("supersede", [job EXCEPT !.at = @ + 1, !.results = rs])
          /\ pc = "supersede"
      BY <2>2 DEF Supersede
    <3>2. b \in BOOLEAN
      OBVIOUS
    <3> HIDE DEF b
    <3>3. rs \in Seq(Result) /\ Stems(rs, job.results)
      BY <1>1, <1>2, <3>2, MarkedResults, MarkStems
    <3> HIDE DEF rs
    <3> QED
      BY <3>1, <3>3
  <2> QED
    BY <2>1, <2>2
<1> DEFINE m == [job EXCEPT !.at = @ + 1, !.results = rs]
<1>4. Goto(pc, m)
  BY <1>3
<1>5. IsJob(m)
  <2>1. DOMAIN m = Fields
    BY <1>1, <1>2, <1>3 DEF IsJob, Fields
  <2>2. Options(m)
    BY <1>1, <1>2, <1>3 DEF IsJob, Fields, Options
  <2>3. Gathered(m)
    BY <1>1, <1>2, <1>3 DEF IsJob, Fields, Gathered
  <2>4. Lists(m)
    BY <1>1, <1>2, <1>3 DEF IsJob, Fields, Lists
  <2> QED
    BY <2>1, <2>2, <2>3, <2>4 DEF IsJob
<1>6. /\ m.kind = job.kind /\ m.since = job.since /\ m.dir = job.dir
      /\ m.types = job.types /\ m.depth = job.depth /\ m.queue = job.queue
      /\ m.phase = job.phase /\ m.vector = job.vector /\ m.results = rs
      /\ m.visited = job.visited
  BY <1>1 DEF Fields
<1> HIDE DEF m
<1>7. pc \notin Walking /\ pc # "done"
  BY <1>3 DEF Walking
<1> QED
  BY <1>3, <1>4, <1>5, <1>6, <1>7, StemsSprout

LEMMA MatchSprouts ==
    ASSUME Typed, Expanded, job.kind \in Expanding, Match PROVE Expanded'
<1>1. /\ IsJob(job) /\ DOMAIN job = Fields /\ pc = "match" /\ StartText(job)
      /\ Expected("match", job) /\ job.results \in Seq(Result)
      /\ OrDefault(job.limit) \in Nat
  BY Remembered, OrDefaultIsPositive DEF Match, IsJob, Lists, Options
<1>2. PICK q \in Best(Relevance, OrDefault(job.limit)) :
        Goto("fetch", [job EXCEPT !.phase = "text", !.ranked = q])
  BY <1>1 DEF StartText
<1> DEFINE m == [job EXCEPT !.phase = "text", !.ranked = q]
<1>3. Goto("fetch", m)
  BY <1>2
<1>4. q \in Seq(Ids)
  BY <1>1, BestFacts
<1>5. IsJob(m)
  <2>1. DOMAIN m = Fields
    BY <1>1, <1>4 DEF IsJob, Fields
  <2>2. Options(m)
    BY <1>1, <1>4 DEF IsJob, Fields, Options
  <2>3. Gathered(m)
    BY <1>1, <1>4 DEF IsJob, Fields, Gathered
  <2>4. Lists(m)
    BY <1>1, <1>4 DEF IsJob, Fields, Lists
  <2> QED
    BY <2>1, <2>2, <2>3, <2>4 DEF IsJob
<1>6. /\ m.kind = job.kind /\ m.since = job.since /\ m.dir = job.dir
      /\ m.types = job.types /\ m.depth = job.depth /\ m.queue = job.queue
      /\ m.phase = "text" /\ m.vector = job.vector /\ m.results = job.results
      /\ m.visited = job.visited
  BY <1>1 DEF Fields
<1> HIDE DEF m
<1>7. job.phase = "vector"
  BY <1>1 DEF Expected, VectorPhase
<1>8. Stems(m.results, job.results)
  BY <1>1, <1>6, StemsOfItself
<1>9. pc \notin Walking /\ "fetch" \notin Walking
  BY <1>1 DEF Walking
<1> QED
  BY <1>3, <1>5, <1>6, <1>7, <1>8, <1>9, StemsSprout

\* Whatever is expanded are hits that nothing has been added to.
LEMMA ExpandsHits ==
    ASSUME Typed, Expanded, job.kind \in Expanding, job.phase # "hybrid",
           NEW rs \in Seq(Result), Expand(job, rs),
           Hitherto(job) => \A n \in DOMAIN rs : rs[n].depth = 0
    PROVE  Expanded'
<1>1. ASSUME job.since = writes
      PROVE  /\ job.dir = "both" /\ job.types = {} /\ job.depth > 0
             /\ job.queue = <<>> /\ \A n \in DOMAIN rs : rs[n].depth = 0
  <2>1. Expansive(pc, job, db)
    BY <1>1 DEF Expanded
  <2>2. Hitherto(job)
    BY <2>1 DEF Expansive
  <2> QED
    BY <2>1, <2>2 DEF Expansive, Hitherto
<1> QED
  BY <1>1, ExpandSprouts

LEMMA EnrichedSprouts ==
    ASSUME Typed, Expanded, job.kind \in Expanding, Enriched PROVE Expanded'
<1>1. /\ IsJob(job) /\ DOMAIN job = Fields /\ pc = "enrich"
      /\ job.results \in Seq(Result)
  BY Remembered, EnrichedIs DEF IsJob, Lists
<1>2. pc \notin Walking /\ "match" \notin Walking /\ "supersede" \notin Walking
  BY <1>1 DEF Walking
<1>3. CASE VectorPhase(job) /\ Goto("match", [job EXCEPT !.vector = job.results])
  <2> DEFINE m == [job EXCEPT !.vector = job.results]
  <2>1. Goto("match", m)
    BY <1>3
  <2>2. IsJob(m)
    <3>1. DOMAIN m = Fields
      BY <1>1 DEF IsJob, Fields
    <3>2. Options(m)
      BY <1>1 DEF IsJob, Fields, Options
    <3>3. Gathered(m)
      BY <1>1 DEF IsJob, Fields, Gathered
    <3>4. Lists(m)
      BY <1>1 DEF IsJob, Fields, Lists
    <3> QED
      BY <3>1, <3>2, <3>3, <3>4 DEF IsJob
  <2>3. /\ m.kind = job.kind /\ m.since = job.since /\ m.dir = job.dir
        /\ m.types = job.types /\ m.depth = job.depth /\ m.queue = job.queue
        /\ m.phase = job.phase /\ m.vector = job.results
        /\ m.results = job.results /\ m.visited = job.visited
    BY <1>1 DEF Fields
  <2> HIDE DEF m
  <2>4. job.phase = "vector"
    BY <1>3 DEF VectorPhase
  <2>5. Stems(m.results, job.results)
    BY <1>1, <2>3, StemsOfItself
  <2> QED
    BY <1>2, <2>1, <2>2, <2>3, <2>4, <2>5, StemsSprout
<1>4. CASE VectorPhase(job) /\ Expand(job, job.results)
  <2>1. job.phase # "hybrid"
    BY <1>4 DEF VectorPhase
  <2>2. Hitherto(job) => \A n \in DOMAIN job.results : job.results[n].depth = 0
    BY DEF Hitherto
  <2> QED
    BY <1>1, <1>4, <2>1, <2>2, ExpandsHits
<1>5. ASSUME NEW rs \in Seq(Result), Stems(rs, job.results),
             Goto("supersede", [job EXCEPT !.at = 1, !.results = rs])
      PROVE  Expanded'
  <2> DEFINE m == [job EXCEPT !.at = 1, !.results = rs]
  <2>1. Goto("supersede", m)
    BY <1>5
  <2>2. IsJob(m)
    <3>1. DOMAIN m = Fields
      BY <1>1 DEF IsJob, Fields
    <3>2. Options(m)
      BY <1>1 DEF IsJob, Fields, Options
    <3>3. Gathered(m)
      BY <1>1 DEF IsJob, Fields, Gathered
    <3>4. Lists(m)
      BY <1>1 DEF IsJob, Fields, Lists
    <3> QED
      BY <3>1, <3>2, <3>3, <3>4 DEF IsJob
  <2>3. /\ m.kind = job.kind /\ m.since = job.since /\ m.dir = job.dir
        /\ m.types = job.types /\ m.depth = job.depth /\ m.queue = job.queue
        /\ m.phase = job.phase /\ m.vector = job.vector
        /\ m.results = rs /\ m.visited = job.visited
    BY <1>1 DEF Fields
  <2> HIDE DEF m
  <2> QED
    BY <1>2, <1>5, <2>1, <2>2, <2>3, StemsSprout
<1>6. CASE TextPhase(job) /\ Goto("supersede", [job EXCEPT !.at = 1])
  <2>1. [job EXCEPT !.at = 1] = [job EXCEPT !.at = 1, !.results = job.results]
    BY <1>1 DEF Fields
  <2> QED
    BY <1>1, <1>5, <1>6, <2>1, StemsOfItself
<1>7. CASE /\ HybridPhase(job)
           /\ Goto("supersede", [job EXCEPT !.at = 1,
                                   !.results = SortByScore(@)])
  <2>1. /\ SortByScore(job.results) \in Seq(Result)
        /\ Stems(SortByScore(job.results), job.results)
    BY <1>1, SortByScoreFacts, SortStems
  <2> QED
    BY <1>5, <1>7, <2>1
<1> QED
  BY <1>3, <1>4, <1>6, <1>7, EnrichedIs DEF Expanding

LEMMA SupersededSprouts ==
    ASSUME Typed, Expanded, job.kind \in Expanding, Superseded PROVE Expanded'
<1>1. /\ IsJob(job) /\ DOMAIN job = Fields /\ pc = "supersede"
      /\ job.results \in Seq(Result) /\ job.vector \in Seq(Result)
      /\ job.limit \in Nat
  BY Remembered, SupersededIs DEF IsJob, Lists, Options
<1>2. CASE TextPhase(job) /\ Fuse(job)
  <2>1. PICK q \in IF job.results = <<>> THEN {job.vector}
                   ELSE FuseByRRF(job.vector, job.results) :
          Expand(job, Cut(q, job.limit))
    BY <1>2 DEF Fuse
  <2>2. q \in Seq(Result) /\ Cut(q, job.limit) \in Seq(Result)
    BY <1>1, FusedIsAList
  <2>3. job.phase # "hybrid"
    BY <1>2 DEF TextPhase
  <2>4. ASSUME Hitherto(job), NEW n \in DOMAIN q PROVE q[n].depth = 0
    <3>1. \/ \E k \in DOMAIN job.vector : q[n].depth = job.vector[k].depth
          \/ \E k \in DOMAIN job.results : q[n].depth = job.results[k].depth
      <4>1. CASE job.results = <<>>
        BY <2>1, <4>1
      <4>2. CASE job.results # <<>>
        BY <1>1, <2>1, <4>2, FuseFacts
      <4> QED
        BY <4>1, <4>2
    <3> QED
      BY <2>4, <3>1 DEF Hitherto
  <2>5. Stems(Cut(q, job.limit), q)
    BY <1>1, <2>2, CutStems
  <2>6. Hitherto(job) => \A n \in DOMAIN Cut(q, job.limit) :
                           Cut(q, job.limit)[n].depth = 0
    BY <2>4, <2>5 DEF Stems
  <2> QED
    BY <2>1, <2>2, <2>3, <2>6, ExpandsHits
<1>3. CASE HybridPhase(job) /\ Goto("done", [job EXCEPT !.results = Rank(job)])
  <2> DEFINE rs == Rank(job)
             m == [job EXCEPT !.results = rs]
  <2>1. Goto("done", m)
    BY <1>3
  <2>2. rs \in Seq(Result) /\ Stems(rs, job.results)
    BY <1>1, RankIsAList, RankStems
  <2> HIDE DEF rs
  <2>3. IsJob(m)
    <3>1. DOMAIN m = Fields
      BY <1>1, <2>2 DEF IsJob, Fields
    <3>2. Options(m)
      BY <1>1, <2>2 DEF IsJob, Fields, Options
    <3>3. Gathered(m)
      BY <1>1, <2>2 DEF IsJob, Fields, Gathered
    <3>4. Lists(m)
      BY <1>1, <2>2 DEF IsJob, Fields, Lists
    <3> QED
      BY <3>1, <3>2, <3>3, <3>4 DEF IsJob
  <2>4. /\ m.kind = job.kind /\ m.since = job.since /\ m.dir = job.dir
        /\ m.types = job.types /\ m.depth = job.depth /\ m.queue = job.queue
        /\ m.phase = job.phase /\ m.vector = job.vector
        /\ m.results = rs /\ m.visited = job.visited
    BY <1>1 DEF Fields
  <2> HIDE DEF m
  <2>5. pc \notin Walking /\ "done" \notin Walking
    BY <1>1 DEF Walking
  <2>6. job.phase = "hybrid"
    BY <1>3 DEF HybridPhase
  <2> QED
    BY <2>1, <2>2, <2>3, <2>4, <2>5, <2>6, StemsSprout
<1> QED
  BY <1>2, <1>3, SupersededIs DEF Expanding

LEMMA NextExpands == ASSUME Typed, Expanded, [Next]_vars PROVE Expanded'
<1>1. CASE Ask
  <2>1. CASE \/ SearchVector \/ SearchText \/ HandleSearch \/ SearchHybrid
             \/ Recall \/ ResolveEntry
    BY <2>1, SearchBeginsPlain
  <2>2. CASE ~ (\/ SearchVector \/ SearchText \/ HandleSearch \/ SearchHybrid
                \/ Recall \/ ResolveEntry)
    <3>1. job'.kind \notin Searching
      BY <1>1, <2>2, OthersDoNotSearch
    <3> QED
      BY <3>1 DEF Expanded, Searching
  <2> QED
    BY <2>1, <2>2
<1>2. CASE Serve /\ job.kind \notin Expanding
  <2>1. job'.kind \notin Expanding
    BY <1>2, KeepsKind DEF NoJob, Expanding
  <2> QED
    BY <2>1 DEF Expanded
<1>3. CASE Serve /\ job.kind \in Expanding
  <2>1. job.kind \in Searching /\ job.kind # "resolve"
    BY <1>3 DEF Searching, Expanding
  <2>2. CASE Finish
    BY <2>2 DEF Finish, Goto, NoJob, Expanded, Expanding
  <2> QED
    BY <1>3, <2>1, <2>2, SearchIsServed, WalksSprout, FetchSprouts, MarksSprout,
       EnrichedSprouts, MatchSprouts, SupersededSprouts
<1>4. CASE Delete \/ Link \/ Unlink
  <2>1. pc' = pc /\ job' = job /\ job'.since # writes'
    BY <1>4, WritesAreHeard
  <2> QED
    BY <2>1 DEF Expanded
<1>5. CASE UNCHANGED vars
  BY <1>5 DEF vars, Expanded
<1> QED
  BY <1>1, <1>2, <1>3, <1>4, <1>5 DEF Next

\* A search that nothing disturbs adds only what lies within its depth of a
\* hit, has seen every neighbour of a hit, and gives what it adds no more
\* than 0.8 of the score of a hit.
THEOREM ExpansionsAreSound == Spec => []ExpansionIsSound
<1>1. Init => Typed /\ Expanded
  BY InitTyped DEF Init, NoJob, Expanded, Expanding
<1>2. Typed /\ Expanded /\ [Next]_vars => (Typed /\ Expanded)'
  BY NextTyped, NextExpands
<1>3. ASSUME Typed, Expanded PROVE ExpansionIsSound
  <2> SUFFICES ASSUME Answered(Expanding), Quiet PROVE ExpansionIsSound
    BY DEF ExpansionIsSound, Answered, Expanding
  <2>1. job.phase = "hybrid" /\ Sprouts("done", job, db)
    BY <1>3 DEF Expanded, Expansive, Answered, Quiet
  <2>2. \A n \in DOMAIN job.results : Anchored(db, job, job.results[n])
    BY <2>1 DEF Sprouts
  <2>3. \A i \in Listed(job.vector) : Beside(db, i) \subseteq job.visited
    BY <2>1 DEF Sprouts, Walking
  <2>4. Within(db, Listed(job.vector), 1, "both", {}) \subseteq job.visited
    <3> DEFINE hits == Listed(job.vector)
    <3>1. Within(db, hits, 0, "both", {}) = hits
      BY WithinNone
    <3>2. Within(db, hits, 0 + 1, "both", {})
            = hits \cup Further(db, hits, "both", {})
      BY <3>1, WithinOneMore DEF Further
    <3>3. hits \subseteq job.visited
      BY <2>1 DEF Sprouts
    <3> QED
      BY <2>3, <3>2, <3>3 DEF Further, Beside
  <2>5. ASSUME NEW n \in DOMAIN job.results
        PROVE  LET r == job.results[n]
               IN  /\ r.id \in Within(db, Listed(job.vector), r.depth, "both", {})
                   /\ r.depth <= job.depth
                   /\ r.depth > 0 =>
                        \E k \in DOMAIN job.vector :
                           10 * r.score <= 8 * job.vector[k].score
    BY <2>2 DEF Anchored
  <2> QED
    BY <2>4, <2>5 DEF ExpansionIsSound
<1> QED
  BY <1>1, <1>2, <1>3, PTL DEF Spec

-----------------------------------------------------------------------------
(***************************************************************************)
(* How many entries a list has.                                            *)
(***************************************************************************)
LEMMA UpTo ==
    ASSUME NEW n \in Nat PROVE IsFiniteSet(1..n) /\ Cardinality(1..n) = n
  BY FS_Interval

LEMMA AtLeastAsMany ==
    ASSUME NEW n \in Nat, NEW S \in SUBSET Ids, NEW f \in [1..n -> S],
           \A k, l \in 1..n : k # l => f[k] # f[l]
    PROVE  n <= Cardinality(S) /\ Cardinality(S) \in Nat
<1>1. IsFiniteSet(S) /\ Cardinality(S) \in Nat
  BY IdsAreFinite
<1>2. IsFiniteSet(1..n) /\ Cardinality(1..n) = n
  BY UpTo
<1>3. ~ Cardinality(S) < n
  BY <1>1, <1>2, FS_PigeonHole
<1> QED
  BY <1>1, <1>3

LEMMA AllArePicked ==
    ASSUME NEW S, NEW r \in Seq(S), NEW q \in Seq(S), NEW f,
           Picks(r, q, DOMAIN q, f)
    PROVE  Len(r) = Len(q)
<1>1. /\ DOMAIN r = 1..Len(r) /\ DOMAIN q = 1..Len(q)
      /\ Len(r) \in Nat /\ Len(q) \in Nat
  OBVIOUS
<1>2. /\ IsFiniteSet(1..Len(r)) /\ Cardinality(1..Len(r)) = Len(r)
      /\ IsFiniteSet(1..Len(q)) /\ Cardinality(1..Len(q)) = Len(q)
  BY <1>1, UpTo
<1>3. f \in Surjection(1..Len(r), 1..Len(q)) /\ f \in Injection(1..Len(r), 1..Len(q))
  BY <1>1 DEF Picks, Surjection, Injection, IsInjective
<1> QED
  BY <1>2, <1>3, FS_Surjection

LEMMA RankingHas ==
    ASSUME NEW ids \in SUBSET Ids, NEW score, NEW q \in Rankings(ids, score),
           NEW i \in ids
    PROVE  \E k \in DOMAIN q : q[k] = i
  BY RankingFacts

NoWorse(scores, i) == {m \in InScope : scores[m] >= scores[i]}

\* A search that looks for the best entries has an entry, or is full of
\* entries that are no worse.
LEMMA BestMissesWorse ==
    ASSUME NEW scores \in [Ids -> Nat], NEW limit \in Nat,
           NEW q \in Best(scores, limit),
           NEW i \in InScope, scores[i] > 0, \A k \in DOMAIN q : q[k] # i
    PROVE  /\ Len(q) = limit
           /\ \A k \in DOMAIN q : scores[q[k]] >= scores[i]
           /\ Cardinality(NoWorse(scores, i)) > limit
<1> DEFINE ids == {m \in InScope : scores[m] > 0}
           S == NoWorse(scores, i)
<1>1. PICK r \in Rankings(ids, scores) : q = Cut(r, limit)
  BY DEF Best
<1>2. ids \in SUBSET Ids /\ i \in ids /\ S \in SUBSET Ids
  BY ScopeIsLive DEF NoWorse
<1>3. \A m \in ids : m \in InScope
  OBVIOUS
<1> HIDE DEF ids
<1>4. /\ r \in Seq(Ids) /\ Distinct(r)
      /\ \A k \in DOMAIN r : r[k] \in ids
      /\ \A k, l \in DOMAIN r : k < l => scores[r[k]] >= scores[r[l]]
      /\ \E k \in DOMAIN r : r[k] = i
      /\ Len(r) \in Nat /\ DOMAIN r = 1..Len(r)
  <2> HIDE DEF S
  <2>1. ids \in SUBSET Ids /\ i \in ids
    BY <1>2
  <2>2. r \in Seq(Ids) /\ Distinct(r) /\ \A k \in DOMAIN r : r[k] \in ids
    BY <2>1, RankingFacts
  <2>3. \A k, l \in DOMAIN r : k < l => scores[r[k]] >= scores[r[l]]
    BY <2>1, RankingFacts
  <2>4. \E k \in DOMAIN r : r[k] = i
    BY <2>1, RankingHas
  <2>5. Len(r) \in Nat /\ DOMAIN r = 1..Len(r)
    BY <2>2
  <2> QED
    BY <2>2, <2>3, <2>4, <2>5
<1>5. /\ q \in Seq(Ids) /\ Len(q) \in Nat /\ DOMAIN q = 1..Len(q)
      /\ Len(q) <= Len(r) /\ \A k \in 1..Len(q) : q[k] = r[k]
      /\ Len(q) = Len(r) \/ Len(q) = limit
  BY <1>1, <1>4, CutFacts
<1>6. PICK n \in DOMAIN r : r[n] = i
  BY <1>4
<1>7. n \in 1..Len(r) /\ Len(q) < n
  <2>1. Len(r) \in Nat /\ Len(q) \in Nat
    BY <1>4, <1>5
  <2>2. n \in 1..Len(r)
    BY <1>4, <1>6
  <2>3. ASSUME n <= Len(q) PROVE FALSE
    <3>1. n \in 1..Len(q)
      BY <2>1, <2>2, <2>3
    <3>2. n \in DOMAIN q /\ q[n] = i
      BY <1>5, <1>6, <3>1
    <3> QED
      BY <3>2
  <2> QED
    BY <2>1, <2>2, <2>3
<1>8. Len(q) = limit /\ limit + 1 <= n
  <2>1. Len(r) \in Nat /\ Len(q) \in Nat /\ n \in 1..Len(r)
    BY <1>4, <1>5, <1>7
  <2>2. Len(q) # Len(r) /\ Len(q) + 1 <= n
    BY <1>7, <2>1
  <2>3. Len(q) = limit
    BY <1>5, <2>2
  <2> QED
    BY <2>2, <2>3
<1>9. \A k \in 1..limit + 1 : k \in DOMAIN r /\ scores[r[k]] >= scores[i]
  <2>1. \A k \in 1..limit + 1 : k \in DOMAIN r /\ (k = n \/ k < n)
    BY <1>4, <1>7, <1>8
  <2>2. scores[i] \in Nat /\ scores[i] >= scores[i]
    BY <1>2
  <2> QED
    BY <1>4, <1>6, <2>1, <2>2
<1>10. Cardinality(S) > limit
  <2> DEFINE f == [k \in 1..limit + 1 |-> r[k]]
  <2>1. f \in [1..limit + 1 -> S]
    BY <1>3, <1>4, <1>9 DEF NoWorse
  <2>2. \A k, l \in 1..limit + 1 : k # l => f[k] # f[l]
    BY <1>4, <1>9 DEF Distinct
  <2> HIDE DEF f, S
  <2>3. limit + 1 \in Nat
    OBVIOUS
  <2>4. limit + 1 <= Cardinality(S) /\ Cardinality(S) \in Nat
    BY <1>2, <2>1, <2>2, <2>3, AtLeastAsMany
  <2> QED
    BY <2>4
<1>11. \A k \in DOMAIN q : k \in 1..limit + 1 /\ q[k] = r[k]
  BY <1>5, <1>8
<1> QED
  BY <1>8, <1>9, <1>10, <1>11

-----------------------------------------------------------------------------
(***************************************************************************)
(* Resolution: the similar entries are the nearest ones there are, and the *)
(* fetch cuts none off that is nearer than one of them.                    *)
(***************************************************************************)
AsSimilar(k) == {m \in InScope : Similarity[m] >= Similarity[k]}

Nearest(rs) ==
    /\ Descending(rs)
    /\ \A n \in DOMAIN rs :
         rs[n].id \in InScope /\ rs[n].score = Similarity[rs[n].id]
    /\ \A i \in InScope :
         Similarity[i] > 0 =>
           \/ i \in Listed(rs)
           \/ /\ Len(rs) = SimilarLimit
              /\ \A n \in DOMAIN rs : rs[n].score >= Similarity[i]
              /\ Cardinality(AsSimilar(i)) > SimilarLimit

Named(j) == j.argument.exact \cap InScope
Holding(j) == j.argument.containing \cap InScope

Justified(j) ==
    /\ j.start # Null =>
         \/ j.start \in Named(j)
         \/ /\ j.phase = "vector" /\ Similarity[j.start] >= 8000
            /\ \A k \in InScope \ {j.start} :
                 Similarity[j.start] >= Similarity[k] + 1000
         \/ /\ j.phase = "list"
            /\ Holding(j) = {j.start} \/ Cardinality(InScope) > ListLimit
    /\ j.start = Null /\ Named(j) # {} =>
         \/ /\ j.phase = "vector"
            /\ \A k \in Named(j) :
                 Similarity[k] > 0 => Cardinality(AsSimilar(k)) > SimilarLimit
         \/ /\ j.phase = "list"
            /\ \/ Cardinality(Holding(j)) > TextLimit
               \/ Cardinality(InScope) > ListLimit

Resolves(l, j) ==
    /\ j.recency = 0 /\ ~j.strict
    /\ j.argument.exact \subseteq j.argument.containing
    /\ l = "fetch" => /\ j.phase = "vector"
                      /\ j.ranked \in Best(Similarity, SimilarLimit)
    /\ l = "enrich" => j.phase = "vector" /\ Nearest(j.results)
    /\ l = "done" => Justified(j)

Resolved == job.kind = "resolve" /\ job.since = writes => Resolves(pc, job)

LEMMA ResolvedMoves ==
    ASSUME NEW l, NEW m, Goto(l, m),
           m.kind = "resolve" /\ m.since = writes => Resolves(l, m)
    PROVE  Resolved'
<1>1. InScope' = InScope
  BY DEF Goto, InScope, ListPrefix, Live, Expired
<1>2. \A scores, n : Best(scores, n)' = Best(scores, n)
  BY <1>1 DEF Best
<1>3. \A k : AsSimilar(k)' = AsSimilar(k)
  BY <1>1 DEF AsSimilar
<1>4. \A rs : Nearest(rs)' <=> Nearest(rs)
  BY <1>1, <1>3 DEF Nearest
<1>5. \A j : Named(j)' = Named(j) /\ Holding(j)' = Holding(j)
  BY <1>1 DEF Named, Holding
<1>6. \A j : Justified(j)' <=> Justified(j)
  BY <1>1, <1>3, <1>5 DEF Justified
<1>7. Resolves(l, m)' <=> Resolves(l, m)
  BY <1>2, <1>4, <1>6 DEF Resolves
<1> QED
  BY <1>7 DEF Goto, Resolved

LEMMA ResolveBegins ==
    ASSUME Typed,
           \/ SearchVector \/ SearchText \/ HandleSearch \/ SearchHybrid
           \/ Recall \/ ResolveEntry
    PROVE  Resolved'
<1>1. PICK j : Asking(j)
  BY SearchesAsk
<1>2. j.kind = "resolve" =>
        /\ j.recency = 0 /\ ~j.strict
        /\ j.argument.exact \subseteq j.argument.containing
        /\ OrDefault(j.limit) = SimilarLimit
  BY <1>1, ReadsAssumption DEF Asking, OrDefault
<1>3. ASSUME NEW m, Goto("fetch", m), Searched(m, j) PROVE Resolved'
  <2>1. m.kind = "resolve" =>
          m.phase = "vector" /\ m.ranked \in Best(Similarity, OrDefault(m.limit))
    BY <1>3 DEF Searched, Expanding
  <2>2. m.kind = "resolve" => Resolves("fetch", m)
    BY <1>2, <1>3, <2>1 DEF Resolves, Searched
  <2> QED
    BY <1>3, <2>2, ResolvedMoves
<1>4. ASSUME Goto("list", j) PROVE Resolved'
  <2>1. j.kind = "resolve" => Resolves("list", j)
    BY <1>2 DEF Resolves
  <2> QED
    BY <1>4, <2>1, ResolvedMoves
<1> QED
  BY <1>1, <1>3, <1>4, SearchBeginsWith

\* What the first pass ranked, the second one finds as long as nothing was
\* written in between.
LEMMA FetchResolves ==
    ASSUME Typed, Resolved, job.kind = "resolve", Fetch PROVE Resolved'
<1> DEFINE rs == FoundIn(job)
           m == [job EXCEPT !.ranked = <<>>, !.at = 1, !.results = rs]
<1>1. IsJob(job) /\ DOMAIN job = Fields /\ pc = "fetch"
  BY Remembered DEF Fetch
<1> SUFFICES ASSUME job.since = writes PROVE Resolved'
  <2>1. writes' = writes
    BY DEF Fetch, Goto
  <2>2. \E r : job' = [job EXCEPT !.ranked = <<>>, !.at = 1, !.results = r]
    BY DEF Fetch, Goto
  <2>3. job'.since = job.since
    BY <1>1, <2>2 DEF Fields
  <2> QED
    BY <2>1, <2>3 DEF Resolved
<1>2. /\ job.phase = "vector" /\ job.recency = 0 /\ ~job.strict
      /\ job.ranked \in Best(Similarity, SimilarLimit)
      /\ job.argument.exact \subseteq job.argument.containing
  BY <1>1 DEF Resolved, Resolves
<1>3. Goto("enrich", m)
  <2>1. Goto("enrich", [job EXCEPT !.ranked = <<>>, !.at = 1,
                          !.results = IF job.recency > 0 THEN SortByScore(rs)
                                                         ELSE rs])
    BY DEF Fetch, FoundIn, Rows
  <2>2. ~ job.recency > 0
    BY <1>2
  <2> QED
    BY <2>1, <2>2
<1> DEFINE q == job.ranked
           I == {n \in DOMAIN q : q[n] \in {i \in Ids : Kept(job, i)}}
<1>4. /\ SimilarLimit \in Nat \ {0, 1} /\ Similarity \in [Ids -> Nat]
      /\ InScope \subseteq Ids
  BY ReadsAssumption, ScopeIsLive
<1>5. /\ q \in Seq(Ids)
      /\ \A k \in DOMAIN q : q[k] \in InScope /\ Similarity[q[k]] > 0
      /\ \A k, l \in DOMAIN q : k < l => Similarity[q[k]] >= Similarity[q[l]]
  BY <1>2, <1>4, BestFacts
<1>6. I = DOMAIN q
  BY <1>1, <1>2, <1>5, ScopeIsLive DEF Kept, Thresholded
<1>7. PICK f : /\ Picks(Rows(job), q, DOMAIN q, f)
               /\ \A k, l \in DOMAIN Rows(job) : k < l <=> f[k] < f[l]
  <2>1. \E f : /\ Picks(Rows(job), q, I, f)
               /\ \A k, l \in DOMAIN Rows(job) : k < l <=> f[k] < f[l]
    BY <1>1, FetchFacts
  <2> HIDE DEF I
  <2> QED
    BY <1>6, <2>1
<1>8. /\ Rows(job) \in Seq(Ids) /\ rs \in Seq(Result)
      /\ DOMAIN rs = DOMAIN Rows(job)
      /\ \A n \in DOMAIN rs : /\ rs[n].id = Rows(job)[n]
                              /\ rs[n].score = Similarity[Rows(job)[n]]
  <2>1. \A i : Score(job, i) = Similarity[i]
    BY <1>2 DEF Score
  <2> QED
    BY <1>1, <2>1, FetchFacts
<1> HIDE DEF rs, q, I
<1>9. /\ \A k \in DOMAIN rs : f[k] \in DOMAIN q /\ rs[k].id = q[f[k]]
                              /\ rs[k].score = Similarity[q[f[k]]]
      /\ \A n \in DOMAIN q : \E k \in DOMAIN rs : rs[k].id = q[n]
      /\ \A k, l \in DOMAIN rs : k < l => f[k] < f[l]
  BY <1>7, <1>8 DEF Picks
<1>10. Len(rs) = Len(q)
  <2>1. Len(Rows(job)) = Len(q)
    BY <1>5, <1>7, <1>8, AllArePicked
  <2> QED
    BY <1>8, <2>1
<1>11. Nearest(rs)
  <2>1. Descending(rs)
    BY <1>5, <1>9 DEF Descending
  <2>2. \A n \in DOMAIN rs :
          rs[n].id \in InScope /\ rs[n].score = Similarity[rs[n].id]
    BY <1>5, <1>9
  <2>3. ASSUME NEW i \in InScope, Similarity[i] > 0, i \notin Listed(rs)
        PROVE  /\ Len(rs) = SimilarLimit
               /\ \A n \in DOMAIN rs : rs[n].score >= Similarity[i]
               /\ Cardinality(AsSimilar(i)) > SimilarLimit
    <3>1. \A n \in DOMAIN job.ranked : job.ranked[n] # i
      BY <1>9, <2>3 DEF Listed, q
    <3>2. /\ Len(job.ranked) = SimilarLimit
          /\ \A k \in DOMAIN job.ranked :
               Similarity[job.ranked[k]] >= Similarity[i]
          /\ Cardinality(NoWorse(Similarity, i)) > SimilarLimit
      BY <1>2, <1>4, <2>3, <3>1, BestMissesWorse
    <3>3. /\ Len(q) = SimilarLimit /\ Cardinality(AsSimilar(i)) > SimilarLimit
          /\ \A k \in DOMAIN q : Similarity[q[k]] >= Similarity[i]
      BY <3>2 DEF q, AsSimilar, NoWorse
    <3> QED
      BY <1>9, <1>10, <3>3
  <2> QED
    BY <2>1, <2>2, <2>3 DEF Nearest
<1>12. /\ m.recency = 0 /\ m.argument = job.argument /\ m.phase = "vector"
       /\ m.results = rs /\ ~m.strict
  BY <1>1, <1>2 DEF Fields
<1> HIDE DEF m
<1>13. Resolves("enrich", m)
  BY <1>2, <1>11, <1>12 DEF Resolves
<1> QED
  BY <1>3, <1>13, ResolvedMoves

LEMMA MarksResolve ==
    ASSUME Typed, Resolved, job.kind = "resolve", Enrich PROVE Resolved'
<1>1. /\ IsJob(job) /\ DOMAIN job = Fields /\ job.results \in Seq(Result)
      /\ job.at \in Nat \ {0} /\ pc = "enrich"
  BY Remembered DEF Enrich, IsJob, Lists
<1>2. job.at \in DOMAIN job.results
  BY <1>1 DEF Enrich
<1> DEFINE b == \/ job.results[job.at].conflict
                \/ FindConflicts(db, job.results[job.at].id) # {}
           rs == [job.results EXCEPT ![job.at].conflict = b]
           m == [job EXCEPT !.at = @ + 1, !.results = rs]
<1>3. Goto("enrich", m)
  BY DEF Enrich
<1>4. b \in BOOLEAN
  OBVIOUS
<1> HIDE DEF b
<1>5. /\ DOMAIN rs = DOMAIN job.results /\ rs \in Seq(Result)
      /\ \A n \in DOMAIN rs : /\ rs[n].id = job.results[n].id
                              /\ rs[n].score = job.results[n].score
  <2>1. SameHits(rs, job.results)
    BY <1>1, <1>2, <1>4, MarkedTheSame
  <2> HIDE DEF rs
  <2> QED
    BY <2>1 DEF SameHits
<1> HIDE DEF rs
<1>6. Len(rs) = Len(job.results)
  BY <1>1, <1>5
<1>7. Nearest(job.results) => Nearest(rs)
  <2>1. Listed(rs) = Listed(job.results)
    BY <1>5 DEF Listed
  <2>2. Descending(job.results) => Descending(rs)
    BY <1>5 DEF Descending
  <2> QED
    BY <1>5, <1>6, <2>1, <2>2 DEF Nearest
<1>8. /\ m.kind = job.kind /\ m.since = job.since
      /\ m.recency = job.recency /\ m.argument = job.argument
      /\ m.phase = job.phase /\ m.results = rs /\ m.strict = job.strict
  BY <1>1 DEF Fields
<1> HIDE DEF m
<1>9. m.since = writes => Resolves("enrich", m)
  BY <1>1, <1>7, <1>8 DEF Resolved, Resolves
<1> QED
  BY <1>3, <1>9, ResolvedMoves

\* A first entry that is good and far ahead of the second one is far ahead of
\* every other entry.
LEMMA FirstIsAlone ==
    ASSUME NEW rs \in Seq(Result), rs # <<>>, Nearest(rs), ClearlyFirst(rs)
    PROVE  /\ Similarity[rs[1].id] >= 8000
           /\ \A k \in InScope \ {rs[1].id} :
                Similarity[rs[1].id] >= Similarity[k] + 1000
<1>1. /\ SimilarLimit \in Nat \ {0, 1} /\ Similarity \in [Ids -> Nat]
      /\ InScope \subseteq Ids
  BY ReadsAssumption, ScopeIsLive
<1>2. /\ Len(rs) \in Nat \ {0} /\ DOMAIN rs = 1..Len(rs)
      /\ 1 \in DOMAIN rs /\ (Len(rs) > 1 => 2 \in DOMAIN rs)
  OBVIOUS
<1>3. /\ \A n \in DOMAIN rs : /\ rs[n].id \in InScope /\ rs[n].score \in Nat
                              /\ rs[n].score = Similarity[rs[n].id]
      /\ Descending(rs)
  BY ScoresAreNatural DEF Nearest
<1>4. /\ rs[1].score >= 8000
      /\ Len(rs) > 1 => rs[1].score - rs[2].score >= 1000
  BY DEF ClearlyFirst
<1>5. ASSUME NEW k \in InScope \ {rs[1].id}
      PROVE  rs[1].score >= Similarity[k] + 1000
  <2>1. Similarity[k] \in Nat
    BY <1>1
  <2>2. CASE Similarity[k] = 0
    BY <1>2, <1>3, <1>4, <2>2
  <2>3. CASE k \in Listed(rs)
    <3>1. PICK n \in DOMAIN rs : rs[n].id = k
      BY <2>3 DEF Listed
    <3>2. n # 1 /\ Len(rs) > 1 /\ 2 \in DOMAIN rs /\ (n = 2 \/ 2 < n)
      BY <1>2, <3>1
    <3>3. rs[2].score >= rs[n].score
      BY <1>3, <3>1, <3>2 DEF Descending
    <3>4. rs[n].score = Similarity[k]
      BY <1>3, <3>1
    <3>5. rs[1].score - rs[2].score >= 1000
      BY <1>4, <3>2
    <3>6. rs[1].score \in Nat /\ rs[2].score \in Nat /\ rs[n].score \in Nat
      BY <1>2, <1>3, <3>1, <3>2
    <3> QED
      BY <3>3, <3>4, <3>5, <3>6
  <2>4. CASE Similarity[k] > 0 /\ k \notin Listed(rs)
    <3>1. Len(rs) = SimilarLimit /\ \A n \in DOMAIN rs : rs[n].score >= Similarity[k]
      BY <2>4 DEF Nearest
    <3>2. Len(rs) > 1 /\ 2 \in DOMAIN rs
      BY <1>1, <1>2, <3>1
    <3>3. rs[2].score >= Similarity[k]
      BY <3>1, <3>2
    <3>4. rs[1].score \in Nat /\ rs[2].score \in Nat
      BY <1>2, <1>3, <3>2
    <3>5. rs[1].score - rs[2].score >= 1000
      BY <1>4, <3>2
    <3> QED
      BY <2>1, <3>3, <3>4, <3>5
  <2> QED
    BY <2>1, <2>2, <2>3, <2>4
<1> QED
  BY <1>2, <1>3, <1>4, <1>5

LEMMA DominantIsJustified ==
    ASSUME NEW j, NEW rs \in Seq(Result), rs # <<>>, Nearest(rs),
           NEW m, m.start = DominantMatch(j, rs), m.phase = "vector",
           m.argument = j.argument
    PROVE  Justified(m)
<1> DEFINE e == Having(rs, j.argument.exact)
<1>1. PICK f : Picks(e, rs, {n \in DOMAIN rs : rs[n].id \in j.argument.exact}, f)
  BY HavingFacts
<1>2. /\ e \in Seq(Result)
      /\ \A k \in DOMAIN e : e[k].id \in j.argument.exact
  BY HavingFacts
<1>3. DominantMatch(j, rs) = CASE e # <<>> -> e[1].id
                               [] e = <<>> /\ ClearlyFirst(rs) -> rs[1].id
                               [] OTHER -> Null
  BY DEF DominantMatch
<1> HIDE DEF e
<1>4. \A n \in DOMAIN rs : rs[n].id \in InScope
  BY DEF Nearest
<1>5. InScope \subseteq Ids /\ Null \notin InScope
  BY NullAssumption, ScopeIsLive
<1>6. CASE e # <<>>
  <2>1. 1 \in DOMAIN e
    BY <1>2, <1>6
  <2>2. e[1].id \in j.argument.exact
    BY <1>2, <2>1
  <2>3. e[1].id \in InScope
    BY <1>1, <1>4, <2>1 DEF Picks
  <2>4. m.start = e[1].id
    BY <1>3, <1>6
  <2> QED
    BY <1>5, <2>2, <2>3, <2>4 DEF Justified, Named
<1>7. CASE e = <<>> /\ ClearlyFirst(rs)
  <2>1. m.start = rs[1].id /\ 1 \in DOMAIN rs
    BY <1>3, <1>7
  <2>2. /\ Similarity[rs[1].id] >= 8000
        /\ \A k \in InScope \ {rs[1].id} :
             Similarity[rs[1].id] >= Similarity[k] + 1000
    BY <1>7, FirstIsAlone
  <2>3. m.start # Null
    BY <1>4, <1>5, <2>1
  <2> QED
    BY <2>1, <2>2, <2>3 DEF Justified
<1>8. CASE e = <<>> /\ ~ ClearlyFirst(rs)
  <2>1. m.start = Null
    BY <1>3, <1>8
  <2>2. \A n \in DOMAIN rs : rs[n].id \notin j.argument.exact
    <3>1. DOMAIN e = {}
      BY <1>8
    <3> QED
      BY <1>1, <3>1 DEF Picks
  <2>3. ASSUME NEW k \in Named(m), Similarity[k] > 0
        PROVE  Cardinality(AsSimilar(k)) > SimilarLimit
    <3>1. k \in InScope /\ k \notin Listed(rs)
      BY <2>2, <2>3 DEF Named, Listed
    <3> QED
      BY <2>3, <3>1 DEF Nearest
  <2> QED
    BY <2>1, <2>3 DEF Justified
<1> QED
  BY <1>6, <1>7, <1>8

LEMMA EnrichedResolves ==
    ASSUME Typed, Resolved, job.kind = "resolve", Enriched PROVE Resolved'
<1>1. /\ IsJob(job) /\ DOMAIN job = Fields /\ job.results \in Seq(Result)
      /\ pc = "enrich"
  BY Remembered, EnrichedIs DEF IsJob, Lists
<1>2. CASE Goto("list", job)
  <2>1. job.since = writes => Resolves("list", job)
    BY DEF Resolved, Resolves
  <2> QED
    BY <1>2, <2>1, ResolvedMoves
<1>3. CASE /\ job.results # <<>>
           /\ Goto("done", [job EXCEPT !.start =
                              DominantMatch(job, job.results)])
  <2> DEFINE i == DominantMatch(job, job.results)
             m == [job EXCEPT !.start = i]
  <2>1. Goto("done", m)
    BY <1>3
  <2>2. i = DominantMatch(job, job.results)
    OBVIOUS
  <2> HIDE DEF i
  <2>3. /\ m.since = job.since /\ m.recency = job.recency /\ m.start = i
        /\ m.argument = job.argument /\ m.phase = job.phase
        /\ m.strict = job.strict
    BY <1>1 DEF Fields
  <2> HIDE DEF m
  <2>4. ASSUME m.since = writes PROVE Resolves("done", m)
    <3>1. /\ job.phase = "vector" /\ Nearest(job.results) /\ job.recency = 0
          /\ ~job.strict
          /\ job.argument.exact \subseteq job.argument.containing
      BY <1>1, <2>3, <2>4 DEF Resolved, Resolves
    <3>2. Justified(m)
      BY <1>1, <1>3, <2>2, <2>3, <3>1, DominantIsJustified
    <3> QED
      BY <2>3, <3>1, <3>2 DEF Resolves
  <2> QED
    BY <2>1, <2>4, ResolvedMoves
<1> QED
  BY <1>2, <1>3, EnrichedIs DEF Expanding, TextPhase, HybridPhase

\* Without embeddings: what is found among the newest entries.
LEMMA OnlyMatchIsJustified ==
    ASSUME NEW j, j.argument.exact \subseteq j.argument.containing,
           NEW listed \in NewestFirst(InScope),
           NEW m, m.start = OnlyMatch(j, TextMatches(j, listed)),
           m.phase = "list", m.argument = j.argument
    PROVE  Justified(m)
<1> DEFINE c == Cut(listed, ListLimit)
           a == Among(c, j.argument.containing)
           found == TextMatches(j, listed)
           e == Among(found, j.argument.exact)
<1>1. /\ ListLimit \in Nat \ {0, 1} /\ TextLimit \in Nat \ {0, 1}
      /\ InScope \in SUBSET Ids /\ Null \notin InScope
      /\ Cardinality(InScope) \in Nat
  BY ReadsAssumption, NullAssumption, IdsAreFinite, ScopeIsLive
<1>2. /\ listed \in Seq(Ids) /\ Len(listed) = Cardinality(InScope)
      /\ Distinct(listed) /\ \A k \in DOMAIN listed : listed[k] \in InScope
      /\ \A i \in InScope : \E k \in DOMAIN listed : listed[k] = i
  BY <1>1, RankingFacts DEF NewestFirst
<1>3. /\ c \in Seq(Ids) /\ Len(c) \in Nat /\ DOMAIN c = 1..Len(c)
      /\ \A k \in DOMAIN c : k \in DOMAIN listed /\ c[k] = listed[k]
      /\ Cardinality(InScope) <= ListLimit => c = listed
  <2>1. ListLimit \in Nat
    BY <1>1
  <2> HIDE DEF c
  <2>2. /\ c \in Seq(Ids) /\ Len(c) <= Len(listed)
        /\ \A k \in 1..Len(c) : c[k] = listed[k]
    BY <1>2, <2>1, CutFacts DEF c
  <2>3. Cardinality(InScope) <= ListLimit => c = listed
    BY <1>1, <1>2 DEF c, Cut
  <2> QED
    BY <1>2, <2>2, <2>3
<1> HIDE DEF c
<1>4. Distinct(c)
  BY <1>2, <1>3 DEF Distinct
<1> DEFINE I == {n \in DOMAIN c : c[n] \in j.argument.containing}
<1>5. PICK f : Picks(a, c, I, f)
  BY <1>3, AmongFacts
<1>6. /\ a \in Seq(Ids) /\ Len(a) \in Nat /\ DOMAIN a = 1..Len(a)
      /\ \A k \in DOMAIN a : a[k] \in j.argument.containing
  BY <1>3, AmongFacts
<1>7. Distinct(a)
  <2>1. I \subseteq DOMAIN c
    OBVIOUS
  <2> HIDE DEF a, I
  <2> QED
    BY <1>4, <1>5, <2>1, PicksAreDistinct
<1>8. /\ \A k \in DOMAIN a : a[k] \in Holding(m)
      /\ Cardinality(InScope) <= ListLimit =>
           \A i \in Holding(m) : \E k \in DOMAIN a : a[k] = i
  <2> HIDE DEF a
  <2>1. \A k \in DOMAIN a : f[k] \in DOMAIN c /\ a[k] = c[f[k]]
    BY <1>5 DEF Picks
  <2>2. \A n \in I : \E k \in DOMAIN a : a[k] = c[n]
    BY <1>5 DEF Picks
  <2>3. ASSUME NEW k \in DOMAIN a PROVE a[k] \in Holding(m)
    <3>1. a[k] \in j.argument.containing /\ f[k] \in DOMAIN c /\ a[k] = c[f[k]]
      BY <1>6, <2>1
    <3>2. c[f[k]] \in InScope
      BY <1>2, <1>3, <3>1
    <3> QED
      BY <3>1, <3>2 DEF Holding
  <2>4. ASSUME Cardinality(InScope) <= ListLimit, NEW i \in Holding(m)
        PROVE  \E k \in DOMAIN a : a[k] = i
    <3>1. c = listed /\ i \in InScope /\ i \in j.argument.containing
      BY <1>3, <2>4 DEF Holding
    <3>2. PICK n \in DOMAIN listed : listed[n] = i
      BY <1>2, <3>1
    <3>3. n \in I /\ c[n] = i
      BY <3>1, <3>2
    <3> QED
      BY <2>2, <3>3
  <2> QED
    BY <2>3, <2>4
<1> HIDE DEF a, I
<1>9. /\ found \in Seq(Ids) /\ Len(found) \in Nat /\ DOMAIN found = 1..Len(found)
      /\ \A k \in DOMAIN found : k \in DOMAIN a /\ found[k] = a[k]
      /\ \/ Len(found) = Len(a) /\ found = a
         \/ Len(found) = TextLimit /\ Len(a) > TextLimit
  <2>1. found = Cut(a, TextLimit) /\ TextLimit \in Nat
    BY <1>1 DEF TextMatches, a, c
  <2> HIDE DEF found
  <2>2. /\ found \in Seq(Ids) /\ Len(found) <= Len(a)
        /\ \A k \in 1..Len(found) : found[k] = a[k]
        /\ Len(found) = Len(a) => found = a
        /\ Len(found) = Len(a) \/ Len(found) = TextLimit
    BY <1>6, <2>1, CutFacts
  <2> QED
    BY <1>6, <2>1, <2>2
<1> HIDE DEF found
<1>10. PICK g : Picks(e, found, {n \in DOMAIN found : found[n] \in j.argument.exact}, g)
  BY <1>9, AmongFacts
<1>11. e \in Seq(Ids) /\ \A k \in DOMAIN e : e[k] \in j.argument.exact
  BY <1>9, AmongFacts
<1>12. OnlyMatch(j, found) = CASE Len(found) = 1 -> found[1]
                               [] Len(found) # 1 /\ e # <<>> -> e[1]
                               [] OTHER -> Null
  BY DEF OnlyMatch
<1>13. m.start = OnlyMatch(j, found)
  BY DEF found
<1> HIDE DEF e
<1>14. CASE Len(found) = 1
  <2>1. m.start = found[1] /\ 1 \in DOMAIN found
    BY <1>9, <1>12, <1>13, <1>14
  <2>2. found[1] = a[1] /\ Len(a) = 1
    BY <1>1, <1>9, <1>14, <2>1
  <2>3. a[1] \in Holding(m) /\ 1 \in DOMAIN a
    BY <1>8, <1>9, <2>1
  <2>4. Cardinality(InScope) <= ListLimit => Holding(m) = {a[1]}
    BY <1>6, <1>8, <2>2, <2>3
  <2>5. m.start # Null
    BY <1>1, <2>1, <2>2, <2>3 DEF Holding
  <2>6. ~ Cardinality(InScope) <= ListLimit => Cardinality(InScope) > ListLimit
    BY <1>1
  <2> QED
    BY <2>1, <2>2, <2>4, <2>5, <2>6 DEF Justified
<1>15. CASE Len(found) # 1 /\ e # <<>>
  <2>1. m.start = e[1] /\ 1 \in DOMAIN e
    BY <1>11, <1>12, <1>13, <1>15
  <2>2. e[1] \in j.argument.exact
    BY <1>11, <2>1
  <2>3. e[1] \in InScope
    <3>1. g[1] \in DOMAIN found /\ e[1] = found[g[1]]
      BY <1>10, <2>1 DEF Picks
    <3> QED
      BY <1>8, <1>9, <3>1 DEF Holding
  <2> QED
    BY <1>1, <2>1, <2>2, <2>3 DEF Justified, Named
<1>16. CASE Len(found) # 1 /\ e = <<>>
  <2>1. m.start = Null
    BY <1>12, <1>13, <1>16
  <2>2. \A n \in DOMAIN found : found[n] \notin j.argument.exact
    <3>1. DOMAIN e = {}
      BY <1>16
    <3> QED
      BY <1>10, <3>1 DEF Picks
  <2>3. ASSUME Named(m) # {}, Cardinality(InScope) <= ListLimit
        PROVE  Cardinality(Holding(m)) > TextLimit
    <3>1. PICK i : i \in Named(m)
      BY <2>3
    <3>2. i \in Holding(m) /\ i \in j.argument.exact
      BY <3>1 DEF Named, Holding
    <3>3. PICK k \in DOMAIN a : a[k] = i
      BY <1>8, <2>3, <3>2
    <3>4. Len(a) > TextLimit
      BY <1>9, <2>2, <3>2, <3>3
    <3>5. Holding(m) \in SUBSET Ids
      BY <1>1 DEF Holding
    <3>6. a \in [1..Len(a) -> Holding(m)]
      BY <1>6, <1>8
    <3>7. Len(a) <= Cardinality(Holding(m)) /\ Cardinality(Holding(m)) \in Nat
      BY <1>6, <1>7, <3>5, <3>6, AtLeastAsMany DEF Distinct
    <3> QED
      BY <1>1, <1>6, <3>4, <3>7
  <2>4. ~ Cardinality(InScope) <= ListLimit => Cardinality(InScope) > ListLimit
    BY <1>1
  <2> QED
    BY <2>1, <2>3, <2>4 DEF Justified
<1> QED
  BY <1>14, <1>15, <1>16

LEMMA ListResolves ==
    ASSUME Typed, Resolved, job.kind = "resolve", SearchByText PROVE Resolved'
<1>1. DOMAIN job = Fields
  BY Remembered
<1>2. PICK listed \in NewestFirst(InScope) :
        Goto("done", [job EXCEPT !.phase = "list",
                        !.start = OnlyMatch(job, TextMatches(job, listed))])
  BY DEF SearchByText
<1> DEFINE i == OnlyMatch(job, TextMatches(job, listed))
           m == [job EXCEPT !.phase = "list", !.start = i]
<1>3. Goto("done", m)
  BY <1>2
<1>4. i = OnlyMatch(job, TextMatches(job, listed))
  OBVIOUS
<1> HIDE DEF i
<1>5. /\ m.since = job.since /\ m.recency = job.recency /\ m.start = i
      /\ m.argument = job.argument /\ m.phase = "list"
      /\ m.strict = job.strict
  BY <1>1 DEF Fields
<1> HIDE DEF m
<1>6. ASSUME m.since = writes PROVE Resolves("done", m)
  <2>1. /\ job.recency = 0 /\ ~job.strict
        /\ job.argument.exact \subseteq job.argument.containing
    BY <1>5, <1>6 DEF Resolved, Resolves
  <2>2. Justified(m)
    BY <1>4, <1>5, <2>1, OnlyMatchIsJustified
  <2> QED
    BY <1>5, <2>1, <2>2 DEF Resolves
<1> QED
  BY <1>3, <1>6, ResolvedMoves

LEMMA NextResolves == ASSUME Typed, Resolved, [Next]_vars PROVE Resolved'
<1>1. CASE Ask
  <2>1. CASE \/ SearchVector \/ SearchText \/ HandleSearch \/ SearchHybrid
             \/ Recall \/ ResolveEntry
    BY <2>1, ResolveBegins
  <2>2. CASE ~ (\/ SearchVector \/ SearchText \/ HandleSearch \/ SearchHybrid
                \/ Recall \/ ResolveEntry)
    <3>1. job'.kind \notin Searching
      BY <1>1, <2>2, OthersDoNotSearch
    <3> QED
      BY <3>1 DEF Resolved, Searching
  <2> QED
    BY <2>1, <2>2
<1>2. CASE Serve /\ job.kind # "resolve"
  <2>1. job'.kind # "resolve"
    BY <1>2, KeepsKind DEF NoJob
  <2> QED
    BY <2>1 DEF Resolved
<1>3. CASE Serve /\ job.kind = "resolve"
  <2>1. job.kind \in Searching /\ job.kind \notin Expanding
    BY <1>3 DEF Searching, Expanding
  <2>2. CASE Finish
    BY <2>2 DEF Finish, Goto, NoJob, Resolved
  <2>3. ~ (Match \/ Supersede \/ Superseded)
    <3>1. Expected(pc, job)
      BY Remembered
    <3>2. pc \notin {"match", "supersede"}
      BY <1>3, <2>1, <3>1 DEF Expected, TextPhase, HybridPhase
    <3> QED
      BY <3>2 DEF Match, Supersede, Superseded
  <2> QED
    BY <1>3, <2>1, <2>2, <2>3, SearchIsServed, FetchResolves, MarksResolve,
       EnrichedResolves, ListResolves
<1>4. CASE Delete \/ Link \/ Unlink
  <2>1. pc' = pc /\ job' = job /\ job'.since # writes'
    BY <1>4, WritesAreHeard
  <2> QED
    BY <2>1 DEF Resolved
<1>5. CASE UNCHANGED vars
  <2>1. pc' = pc /\ job' = job /\ db' = db /\ writes' = writes
    BY <1>5 DEF vars
  <2>2. Goto(pc, job)
    BY <2>1 DEF Goto
  <2> QED
    BY <2>2, ResolvedMoves DEF Resolved
<1> QED
  BY <1>1, <1>2, <1>3, <1>4, <1>5 DEF Next

\* What a resolution that nothing disturbs names is what the argument says,
\* or the only entry that it can mean; it gives up on the content of an entry
\* only when that entry is beyond the limits, or has no embedding.
THEOREM ResolutionsAreJustified == Spec => []ResolutionIsJustified
<1>1. Init => Typed /\ Resolved
  BY InitTyped DEF Init, NoJob, Resolved
<1>2. Typed /\ Resolved /\ [Next]_vars => (Typed /\ Resolved)'
  BY NextTyped, NextResolves
<1>3. ASSUME Resolved PROVE ResolutionIsJustified
  <2> SUFFICES ASSUME Answered({"resolve"}), Quiet PROVE ResolutionIsJustified
    BY DEF ResolutionIsJustified
  <2>1. Justified(job)
    BY <1>3 DEF Resolved, Resolves, Answered, Quiet
  <2> QED
    BY <2>1 DEF ResolutionIsJustified, Justified, Named, Holding, AsSimilar
<1> QED
  BY <1>1, <1>2, <1>3, PTL DEF Spec

-----------------------------------------------------------------------------
(***************************************************************************)
(* Recall.  Each of the two searches finds all that it looks for, or as    *)
(* many entries as the recall asks for; so do their fused hits, and the    *)
(* walk only adds to them.                                                 *)
(***************************************************************************)
Candidates == {i \in InScope : Similarity[i] > 0 \/ Relevance[i] > 0}

SimilarScore(w, i) ==
    IF w = 0 THEN Similarity[i] ELSE BlendScore(Similarity[i], Freshness[i], w)

Similars(w) ==
    {i \in InScope : Similarity[i] > 0 /\ SimilarScore(w, i) >= Threshold}
Relevants == {i \in InScope : Relevance[i] > 0}

Finds(j, rs, S) ==
    \/ S \subseteq Listed(rs)
    \/ /\ Cardinality(Candidates) > OrDefault(j.limit)
       /\ j.recency = 0 => Len(rs) >= OrDefault(j.limit)

\* It shows fewer than its limit, and either there is no more than it asks
\* for, or nothing that could remove a hit.
Short(j) == \/ /\ j.wanted = Ids /\ j.recency = 0
               /\ Len(j.results) < OrDefault(j.total)
            \/ /\ Cardinality(Candidates) <= OrDefault(j.limit)
               /\ j.total = 0 \/ Len(j.results) < j.total

Recalls(l, j) ==
    /\ j.text /\ ~j.strict /\ j.limit = FetchLimit(j.total, j.wanted)
    /\ l = "fetch" =>
         j.ranked \in Best(IF j.phase = "vector" THEN Similarity ELSE Relevance,
                           OrDefault(j.limit))
    /\ j.phase = "vector" /\ l # "fetch" =>
         /\ Finds(j, j.results, Similars(j.recency))
         /\ Listed(j.results) \subseteq Candidates
    /\ l = "match" => j.phase = "vector" /\ j.vector = j.results
    /\ j.phase = "text" => /\ Finds(j, j.vector, Similars(j.recency))
                           /\ Listed(j.vector) \subseteq Candidates
    /\ j.phase = "text" /\ l # "fetch" =>
         Finds(j, j.results, Relevants) /\ Listed(j.results) \subseteq Candidates
    /\ j.phase = "hybrid" /\ l # "done" =>
         Finds(j, j.results, Similars(j.recency) \cup Relevants)
    /\ l = "done" /\ Short(j) =>
         (Similars(j.recency) \cup Relevants) \cap j.wanted
           \subseteq Listed(j.results)

Recalled == job.kind = "recall" /\ job.since = writes => Recalls(pc, job)

LEMMA RecalledMoves ==
    ASSUME NEW l, NEW m, Goto(l, m),
           m.kind = "recall" /\ m.since = writes => Recalls(l, m)
    PROVE  Recalled'
<1>1. InScope' = InScope
  BY DEF Goto, InScope, ListPrefix, Live, Expired
<1>2. \A scores, n : Best(scores, n)' = Best(scores, n)
  BY <1>1 DEF Best
<1>3. /\ Candidates' = Candidates /\ Relevants' = Relevants
      /\ \A w : Similars(w)' = Similars(w)
  BY <1>1 DEF Candidates, Relevants, Similars
<1>4. \A j, rs, S : Finds(j, rs, S)' <=> Finds(j, rs, S)
  BY <1>3 DEF Finds
<1>5. Recalls(l, m)' <=> Recalls(l, m)
  BY <1>2, <1>3, <1>4 DEF Recalls, Short
<1> QED
  BY <1>5 DEF Goto, Recalled

LEMMA FindsTheSame ==
    ASSUME NEW m, NEW j, SameQuery(m, j), NEW rs, NEW S
    PROVE  Finds(m, rs, S) <=> Finds(j, rs, S)
  BY DEF Finds, SameQuery

\* As many as the list that it covers.
LEMMA CoversAsMany ==
    ASSUME NEW rs \in Seq(Result), NEW qs \in Seq(Result), DistinctIds(rs),
           Listed(rs) \subseteq Listed(qs)
    PROVE  Len(rs) <= Len(qs)
<1>1. /\ Len(rs) \in Nat /\ DOMAIN rs = 1..Len(rs)
      /\ Len(qs) \in Nat /\ DOMAIN qs = 1..Len(qs)
  OBVIOUS
<1> DEFINE f == [k \in 1..Len(rs) |-> CHOOSE n \in 1..Len(qs) :
                                         qs[n].id = rs[k].id]
<1>2. \A k \in 1..Len(rs) : f[k] \in 1..Len(qs) /\ qs[f[k]].id = rs[k].id
  <2>1. \A k \in 1..Len(rs) : \E n \in 1..Len(qs) : qs[n].id = rs[k].id
    BY <1>1 DEF Listed
  <2> QED
    BY <2>1
<1>3. f \in [1..Len(rs) -> 1..Len(qs)]
  BY <1>2
<1>4. \A k, l \in 1..Len(rs) : k # l => f[k] # f[l]
  BY <1>1, <1>2 DEF DistinctIds
<1> HIDE DEF f
<1>5. f \in Injection(1..Len(rs), 1..Len(qs))
  BY <1>3, <1>4 DEF Injection, IsInjective
<1>6. /\ IsFiniteSet(1..Len(qs)) /\ Cardinality(1..Len(qs)) = Len(qs)
      /\ Cardinality(1..Len(rs)) = Len(rs)
  BY <1>1, UpTo
<1> QED
  BY <1>5, <1>6, FS_Injection

LEMMA FindsMore ==
    ASSUME NEW j, IsJob(j), NEW rs \in Seq(Result), NEW qs \in Seq(Result),
           DistinctIds(rs), Listed(rs) \subseteq Listed(qs),
           NEW S, Finds(j, rs, S)
    PROVE  Finds(j, qs, S)
<1>1. Len(rs) <= Len(qs)
  BY CoversAsMany
<1>2. Len(rs) \in Nat /\ Len(qs) \in Nat /\ OrDefault(j.limit) \in Nat
  <2>1. j.limit \in Nat
    BY DEF IsJob, Options
  <2>2. OrDefault(j.limit) \in Nat
    BY <2>1, OrDefaultIsPositive
  <2> QED
    BY <2>2
<1>3. Len(rs) >= OrDefault(j.limit) => Len(qs) >= OrDefault(j.limit)
  BY <1>1, <1>2
<1> QED
  BY ONLY <1>3, Listed(rs) \subseteq Listed(qs), Finds(j, rs, S) DEF Finds

LEMMA PicksAllList ==
    ASSUME NEW r, NEW rs, NEW f, Picks(r, rs, DOMAIN rs, f)
    PROVE  Listed(r) = Listed(rs)
<1>1. /\ \A k \in DOMAIN r : f[k] \in DOMAIN rs /\ r[k] = rs[f[k]]
      /\ \A n \in DOMAIN rs : \E k \in DOMAIN r : f[k] = n
  BY DEF Picks
<1> QED
  BY <1>1 DEF Listed

LEMMA SortLists ==
    ASSUME NEW rs \in Seq(Result)
    PROVE  Listed(SortByScore(rs)) = Listed(rs)
  BY SortByScoreFacts, PicksAllList

LEMMA RecallBegins ==
    ASSUME Typed,
           \/ SearchVector \/ SearchText \/ HandleSearch \/ SearchHybrid
           \/ Recall \/ ResolveEntry
    PROVE  Recalled'
<1>1. PICK j : Asking(j)
  BY SearchesAsk
<1>2. j.kind = "recall" =>
        ~j.strict /\ j.text /\ j.limit = FetchLimit(j.total, j.wanted)
  BY <1>1 DEF Asking, Expanding
<1>3. ASSUME NEW m, Goto("fetch", m), Searched(m, j) PROVE Recalled'
  <2>1. m.kind = "recall" =>
          m.phase = "vector" /\ m.ranked \in Best(Similarity, OrDefault(m.limit))
    BY <1>3 DEF Searched, Expanding
  <2>2. m.kind = "recall" => Recalls("fetch", m)
    BY <1>2, <1>3, <2>1 DEF Recalls, Searched
  <2> QED
    BY <1>3, <2>2, RecalledMoves
<1>4. ASSUME j.kind = "resolve", Goto("list", j) PROVE Recalled'
  BY <1>4, RecalledMoves
<1> QED
  BY <1>1, <1>3, <1>4, SearchBeginsWith

\* What of S is missing is beyond the limit, with as many that are no worse.
LEMMA FetchFinds ==
    ASSUME NEW j, IsJob(j), NEW scores \in [Ids -> Nat],
           j.ranked \in Best(scores, OrDefault(j.limit)),
           \A i \in InScope : scores[i] > 0 => i \in Candidates,
           NEW S \in SUBSET InScope,
           \A i \in S : scores[i] > 0 /\ Kept(j, i),
           j.recency = 0 =>
             \A i \in S, k \in InScope : scores[k] >= scores[i] => Kept(j, k)
    PROVE  /\ Finds(j, FoundIn(j), S) /\ Listed(FoundIn(j)) \subseteq Candidates
           /\ DistinctIds(FoundIn(j))
<1> DEFINE L == OrDefault(j.limit)
           q == j.ranked
           I == {n \in DOMAIN q : q[n] \in {i \in Ids : Kept(j, i)}}
<1>1. L \in Nat /\ InScope \subseteq Ids
  BY OrDefaultIsPositive, ScopeIsLive DEF IsJob, Options
<1>2. /\ q \in Seq(Ids) /\ Distinct(q)
      /\ \A k \in DOMAIN q : q[k] \in InScope /\ scores[q[k]] > 0
  BY <1>1, BestFacts
<1>3. PICK f : Picks(Rows(j), q, I, f)
  BY FetchFacts
<1>4. /\ Rows(j) \in Seq(Ids) /\ FoundIn(j) \in Seq(Result)
      /\ DOMAIN FoundIn(j) = DOMAIN Rows(j)
      /\ \A n \in DOMAIN FoundIn(j) : FoundIn(j)[n].id = Rows(j)[n]
  BY FetchFacts
<1>5. /\ \A k \in DOMAIN Rows(j) : f[k] \in I /\ Rows(j)[k] = q[f[k]]
      /\ \A n \in I : \E k \in DOMAIN Rows(j) : f[k] = n
  BY <1>3 DEF Picks
<1>6. /\ \A n \in I : n \in DOMAIN q
      /\ \A n \in DOMAIN q : Kept(j, q[n]) => n \in I
  BY <1>1, <1>2
<1>7. Distinct(Rows(j))
  <2>1. I \subseteq DOMAIN q
    OBVIOUS
  <2> QED
    BY <1>2, <1>3, <2>1, PicksAreDistinct
<1>8. DistinctIds(FoundIn(j))
  BY <1>4, <1>7 DEF Distinct, DistinctIds
<1>9. Listed(FoundIn(j)) \subseteq Candidates
  BY <1>2, <1>4, <1>5, <1>6 DEF Listed
<1>10. ASSUME NEW i \in S, i \notin Listed(FoundIn(j))
       PROVE  /\ Cardinality(Candidates) > L
              /\ j.recency = 0 => Len(FoundIn(j)) >= L
  <2>1. \A k \in DOMAIN q : q[k] # i
    <3> SUFFICES ASSUME NEW k \in DOMAIN q, q[k] = i PROVE FALSE
      OBVIOUS
    <3>1. k \in I
      BY <1>6, <1>10
    <3>2. PICK l \in DOMAIN Rows(j) : Rows(j)[l] = i
      BY <1>5, <3>1
    <3> QED
      BY <1>4, <1>10, <3>2 DEF Listed
  <2> DEFINE E == NoWorse(scores, i)
  <2>2. /\ Len(q) = L
        /\ \A k \in DOMAIN q : scores[q[k]] >= scores[i]
        /\ Cardinality(E) > L
    <3>1. i \in InScope /\ scores[i] > 0
      BY <1>10
    <3> QED
      BY <1>1, <2>1, <3>1, BestMissesWorse
  <2>3. E \subseteq Candidates
    <3>1. ASSUME NEW m \in E PROVE m \in Candidates
      <4>1. /\ scores[m] \in Nat /\ scores[i] \in Nat /\ scores[i] > 0
            /\ m \in InScope /\ scores[m] >= scores[i]
        BY <1>1, <1>10, <3>1 DEF NoWorse
      <4>2. scores[m] > 0
        BY <4>1
      <4> QED
        BY <4>1, <4>2
    <3> QED
      BY <3>1
  <2> HIDE DEF E
  <2>4. Cardinality(Candidates) > L
    <3>1. Candidates \in SUBSET Ids
      BY <1>1 DEF Candidates
    <3>2. IsFiniteSet(Candidates) /\ Cardinality(Candidates) \in Nat
      BY <3>1, IdsAreFinite
    <3>3. /\ IsFiniteSet(E) /\ Cardinality(E) <= Cardinality(Candidates)
      BY <2>3, <3>2, FS_Subset
    <3>4. Cardinality(E) \in Nat
      BY <3>3, FS_CardinalityType
    <3> QED
      BY <1>1, <2>2, <3>2, <3>3, <3>4
  <2>5. ASSUME j.recency = 0 PROVE Len(FoundIn(j)) >= L
    <3>1. \A n \in DOMAIN q : n \in I
      BY <1>2, <1>6, <1>10, <2>2, <2>5
    <3>2. I = DOMAIN q
      BY <1>6, <3>1
    <3>3. Len(Rows(j)) = Len(q)
      <4>1. Picks(Rows(j), q, DOMAIN q, f)
        BY <1>3, <3>2
      <4>2. Rows(j) \in Seq(Ids) /\ q \in Seq(Ids)
        BY <1>2, <1>4
      <4> HIDE DEF q
      <4> QED
        BY ONLY <4>1, <4>2, AllArePicked
    <3> HIDE DEF q
    <3>4. Len(FoundIn(j)) = Len(Rows(j))
      BY <1>4
    <3> QED
      BY <1>1, <2>2, <3>3, <3>4
  <2> QED
    BY <2>4, <2>5
<1> HIDE DEF q, I
<1> QED
  BY <1>8, <1>9, <1>10 DEF Finds

LEMMA FetchRecalls ==
    ASSUME Typed, Recalled, job.kind = "recall", Fetch PROVE Recalled'
<1> DEFINE rs == IF job.recency > 0 THEN SortByScore(FoundIn(job))
                                    ELSE FoundIn(job)
           m == [job EXCEPT !.ranked = <<>>, !.at = 1, !.results = rs]
<1>1. /\ IsJob(job) /\ DOMAIN job = Fields /\ pc = "fetch"
      /\ job.phase \in {"vector", "text"}
      /\ {Similarity, Relevance} \subseteq [Ids -> Nat]
      /\ Threshold \in Nat
  <2>1. /\ IsJob(job) /\ DOMAIN job = Fields /\ Expected(pc, job)
        /\ pc = "fetch"
    BY Remembered DEF Fetch
  <2>2. job.phase \in {"vector", "text"}
    BY <2>1 DEF Expected, VectorPhase, TextPhase
  <2> QED
    BY <2>1, <2>2, ReadsAssumption DEF IsJob, Options
<1>2. Goto("enrich", m)
  BY DEF Fetch, FoundIn, Rows
<1>3. /\ SameQuery(m, job) /\ m.phase = job.phase /\ m.results = rs
      /\ m.vector = job.vector
  BY <1>1 DEF SameQuery, Fields
<1> HIDE DEF m
<1> SUFFICES ASSUME job.since = writes PROVE Recalls("enrich", m)
  BY <1>2, <1>3, RecalledMoves DEF SameQuery
<1>4. Recalls("fetch", job) /\ ~job.strict
  BY <1>1 DEF Recalled, Recalls
<1> DEFINE S == IF job.phase = "vector" THEN Similars(job.recency) ELSE Relevants
<1>5. /\ Finds(job, FoundIn(job), S) /\ Listed(FoundIn(job)) \subseteq Candidates
      /\ DistinctIds(FoundIn(job))
  <2>1. CASE job.phase = "vector"
    <3>1. job.ranked \in Best(Similarity, OrDefault(job.limit))
      BY <1>4, <2>1 DEF Recalls
    <3>2. S \in SUBSET InScope /\ \A i \in S : Similarity[i] > 0
      BY <2>1 DEF Similars
    <3>3. \A i \in InScope : Similarity[i] > 0 => i \in Candidates
      BY DEF Candidates
    <3>4. \A i : Score(job, i) = SimilarScore(job.recency, i)
      BY <2>1 DEF Score, SimilarScore
    <3>5. \A i \in InScope :
            SimilarScore(job.recency, i) >= Threshold => Kept(job, i)
      BY <3>4, ScopeIsLive DEF Kept
    <3>6. \A i \in S : Kept(job, i)
      BY <2>1, <3>5 DEF Similars
    <3>7. job.recency = 0 =>
            \A i \in S, k \in InScope :
              Similarity[k] >= Similarity[i] => Kept(job, k)
      <4> SUFFICES ASSUME job.recency = 0, NEW i \in S, NEW k \in InScope,
                          Similarity[k] >= Similarity[i]
                   PROVE  Kept(job, k)
        OBVIOUS
      <4>1. Similarity[i] >= Threshold /\ i \in Ids /\ k \in Ids
        BY <2>1, ScopeIsLive DEF Similars, SimilarScore
      <4>2. Similarity[k] \in Nat /\ Similarity[i] \in Nat
        BY <1>1, <4>1
      <4>3. Similarity[k] >= Threshold
        BY <1>1, <4>1, <4>2
      <4> QED
        BY <3>5, <4>3 DEF SimilarScore
    <3> HIDE DEF S
    <3> QED
      BY <1>1, <3>1, <3>2, <3>3, <3>6, <3>7, FetchFinds
  <2>2. CASE job.phase = "text"
    <3>1. job.ranked \in Best(Relevance, OrDefault(job.limit))
      BY <1>4, <2>2 DEF Recalls
    <3>2. S \in SUBSET InScope /\ \A i \in S : Relevance[i] > 0
      BY <2>2 DEF Relevants
    <3>3. \A i \in InScope : Relevance[i] > 0 => i \in Candidates
      BY DEF Candidates
    <3>4. \A i \in InScope : Kept(job, i)
      BY <1>4, <2>2, ScopeIsLive DEF Kept, Thresholded
    <3> HIDE DEF S
    <3> QED
      BY <1>1, <3>1, <3>2, <3>3, <3>4, FetchFinds
  <2> QED
    BY <1>1, <2>1, <2>2
<1>6. FoundIn(job) \in Seq(Result)
  BY <1>1, FetchFacts
<1>7. rs \in Seq(Result) /\ Listed(rs) = Listed(FoundIn(job))
  BY <1>6, SortByScoreFacts, SortLists
<1> HIDE DEF rs
<1>8. Finds(job, rs, S) /\ Listed(rs) \subseteq Candidates
  BY <1>1, <1>5, <1>6, <1>7, FindsMore
<1>9. Finds(m, rs, S) /\ \A qs, T : Finds(job, qs, T) => Finds(m, qs, T)
  BY <1>3, <1>8, FindsTheSame
<1> QED
  BY <1>1, <1>3, <1>4, <1>8, <1>9 DEF Recalls, SameQuery

LEMMA RecallIsRanked ==
    ASSUME Typed, Ranked, job.kind = "recall"
    PROVE  /\ IsJob(job) /\ DOMAIN job = Fields
           /\ job.results \in Seq(Result) /\ job.vector \in Seq(Result)
           /\ DistinctIds(job.results) /\ DistinctIds(job.vector)
           /\ job.limit \in Nat /\ job.total \in Nat /\ job.at \in Nat \ {0}
<1>1. Hits(pc, job)
  BY DEF Ranked, Hitting
<1> QED
  BY <1>1, Remembered DEF Hits, IsJob, Lists, Options

\* A step that only adds hits to those at hand.
LEMMA RecallGrows ==
    ASSUME Typed, Ranked, Recalled, job.kind = "recall",
           pc \notin {"fetch", "done"},
           NEW l, l \in {"enrich", "supersede"} \cup Walking, NEW m, Goto(l, m),
           SameQuery(m, job), m.phase = job.phase, m.vector = job.vector,
           m.results \in Seq(Result),
           Listed(job.results) \subseteq Listed(m.results),
           job.phase = "hybrid" \/ Listed(m.results) = Listed(job.results)
    PROVE  Recalled'
<1> SUFFICES ASSUME job.since = writes PROVE Recalls(l, m)
  BY RecalledMoves DEF SameQuery
<1>1. Recalls(pc, job)
  BY DEF Recalled
<1>2. /\ IsJob(job) /\ DistinctIds(job.results) /\ job.results \in Seq(Result)
  BY RecallIsRanked
<1>3. \A S : Finds(job, job.results, S) => Finds(job, m.results, S)
  BY <1>2, FindsMore
<1>4. \A rs, S : Finds(job, rs, S) => Finds(m, rs, S)
  BY FindsTheSame
<1>5. l \notin {"fetch", "match", "done"}
  BY DEF Walking
<1> QED
  BY <1>1, <1>3, <1>4, <1>5 DEF Recalls, SameQuery

LEMMA MarksRecall ==
    ASSUME Typed, Ranked, Recalled, job.kind = "recall", Enrich \/ Supersede
    PROVE  Recalled'
<1>1. /\ IsJob(job) /\ DOMAIN job = Fields /\ job.results \in Seq(Result)
      /\ job.at \in Nat \ {0}
  BY RecallIsRanked
<1>2. job.at \in DOMAIN job.results
  BY <1>1 DEF Enrich, Supersede
<1>3. PICK rs \in Seq(Result) :
        /\ Listed(rs) = Listed(job.results) /\ pc \in {"enrich", "supersede"}
        /\ Goto(pc, [job EXCEPT !.at = @ + 1, !.results = rs])
  <2>1. CASE Enrich
    <3> DEFINE b == \/ job.results[job.at].conflict
                    \/ FindConflicts(db, job.results[job.at].id) # {}
               rs == [job.results EXCEPT ![job.at].conflict = b]
    <3>1. /\ Goto("enrich", [job EXCEPT !.at = @ + 1, !.results = rs])
          /\ pc = "enrich"
      BY <2>1 DEF Enrich
    <3>2. b \in BOOLEAN
      OBVIOUS
    <3> HIDE DEF b
    <3>3. SameHits(rs, job.results)
      BY <1>1, <1>2, <3>2, MarkedTheSame
    <3> HIDE DEF rs
    <3>4. Listed(rs) = Listed(job.results)
      BY <3>3 DEF Listed, SameHits
    <3> QED
      BY <3>1, <3>3, <3>4 DEF SameHits
  <2>2. CASE Supersede
    <3> DEFINE b == \/ job.results[job.at].superseded
                    \/ IsSuperseded(db, job.results[job.at].id)
               rs == [job.results EXCEPT ![job.at].superseded = b]
    <3>1. /\ Goto("supersede", [job EXCEPT !.at = @ + 1, !.results = rs])
          /\ pc = "supersede"
      BY <2>2 DEF Supersede
    <3>2. b \in BOOLEAN
      OBVIOUS
    <3> HIDE DEF b
    <3>3. SameHits(rs, job.results)
      BY <1>1, <1>2, <3>2, MarkedTheSame
    <3> HIDE DEF rs
    <3>4. Listed(rs) = Listed(job.results)
      BY <3>3 DEF Listed, SameHits
    <3> QED
      BY <3>1, <3>3, <3>4 DEF SameHits
  <2> QED
    BY <2>1, <2>2
<1> DEFINE m == [job EXCEPT !.at = @ + 1, !.results = rs]
<1>4. Goto(pc, m)
  BY <1>3
<1>5. /\ SameQuery(m, job) /\ m.phase = job.phase /\ m.results = rs
      /\ m.vector = job.vector
  BY <1>1 DEF SameQuery, Fields
<1> HIDE DEF m
<1> QED
  BY <1>3, <1>4, <1>5, RecallGrows

LEMMA MatchRecalls ==
    ASSUME Typed, Recalled, job.kind = "recall", Match PROVE Recalled'
<1>1. DOMAIN job = Fields /\ pc = "match" /\ StartText(job)
  BY Remembered DEF Match
<1>2. PICK q \in Best(Relevance, OrDefault(job.limit)) :
        Goto("fetch", [job EXCEPT !.phase = "text", !.ranked = q])
  BY <1>1 DEF StartText
<1> DEFINE m == [job EXCEPT !.phase = "text", !.ranked = q]
<1>3. Goto("fetch", m)
  BY <1>2
<1>4. /\ SameQuery(m, job) /\ m.phase = "text" /\ m.ranked = q
      /\ m.vector = job.vector
  BY <1>1 DEF SameQuery, Fields
<1> HIDE DEF m
<1> SUFFICES ASSUME job.since = writes PROVE Recalls("fetch", m)
  BY <1>3, <1>4, RecalledMoves DEF SameQuery
<1>5. Recalls("match", job)
  BY <1>1 DEF Recalled
<1>6. /\ Finds(job, job.vector, Similars(job.recency))
      /\ Listed(job.vector) \subseteq Candidates
  BY <1>5 DEF Recalls
<1>7. Finds(m, job.vector, Similars(job.recency))
  BY <1>4, <1>6, FindsTheSame
<1> QED
  BY <1>2, <1>4, <1>5, <1>6, <1>7 DEF Recalls, SameQuery

LEMMA ExpandRecalls ==
    ASSUME Typed, Recalled, job.kind = "recall", pc # "idle", NEW rs,
           Expand(job, rs),
           job.since = writes =>
             Finds(job, rs, Similars(job.recency) \cup Relevants)
    PROVE  Recalled'
<1> DEFINE m == [job EXCEPT !.phase = "hybrid", !.vector = rs, !.seeds = rs,
                            !.results = rs, !.visited = Listed(rs)]
<1>1. Goto("walk", m)
  BY DEF Expand
<1>2. SameQuery(m, job) /\ m.phase = "hybrid" /\ m.results = rs
  BY Remembered DEF SameQuery, Fields
<1> HIDE DEF m
<1> SUFFICES ASSUME job.since = writes PROVE Recalls("walk", m)
  BY <1>1, <1>2, RecalledMoves DEF SameQuery
<1>3. Recalls(pc, job)
  BY DEF Recalled
<1>4. Finds(m, rs, Similars(job.recency) \cup Relevants)
  BY <1>2, FindsTheSame
<1> QED
  BY <1>2, <1>3, <1>4 DEF Recalls, SameQuery

LEMMA EnrichedRecalls ==
    ASSUME Typed, Ranked, Recalled, job.kind = "recall", Enriched
    PROVE  Recalled'
<1>1. /\ IsJob(job) /\ DOMAIN job = Fields /\ pc = "enrich"
      /\ job.results \in Seq(Result)
  BY RecallIsRanked, EnrichedIs
<1>2. CASE VectorPhase(job) /\ Goto("match", [job EXCEPT !.vector = job.results])
  <2> DEFINE m == [job EXCEPT !.vector = job.results]
  <2>1. Goto("match", m)
    BY <1>2
  <2>2. /\ SameQuery(m, job) /\ m.phase = "vector" /\ m.results = job.results
        /\ m.vector = job.results
    BY <1>1, <1>2 DEF SameQuery, Fields, VectorPhase
  <2> HIDE DEF m
  <2> SUFFICES ASSUME job.since = writes PROVE Recalls("match", m)
    BY <2>1, <2>2, RecalledMoves DEF SameQuery
  <2>3. Recalls("enrich", job) /\ job.phase = "vector"
    BY <1>1, <1>2 DEF Recalled, VectorPhase
  <2>4. Finds(m, job.results, Similars(job.recency))
    BY <2>2, <2>3, FindsTheSame DEF Recalls
  <2> QED
    BY <2>2, <2>3, <2>4 DEF Recalls, SameQuery
<1>3. CASE ~ job.text /\ Expand(job, job.results)
  <2>1. job.since # writes
    BY <1>3 DEF Recalled, Recalls
  <2> QED
    BY <1>1, <1>3, <2>1, ExpandRecalls
<1>4. ASSUME NEW rs \in Seq(Result), Listed(rs) = Listed(job.results),
             Goto("supersede", [job EXCEPT !.at = 1, !.results = rs])
      PROVE  Recalled'
  <2> DEFINE m == [job EXCEPT !.at = 1, !.results = rs]
  <2>1. Goto("supersede", m)
    BY <1>4
  <2>2. /\ SameQuery(m, job) /\ m.phase = job.phase /\ m.results = rs
        /\ m.vector = job.vector
    BY <1>1 DEF SameQuery, Fields
  <2> HIDE DEF m
  <2> QED
    BY <1>1, <1>4, <2>1, <2>2, RecallGrows
<1>5. CASE TextPhase(job) /\ Goto("supersede", [job EXCEPT !.at = 1])
  <2>1. [job EXCEPT !.at = 1] = [job EXCEPT !.at = 1, !.results = job.results]
    BY <1>1 DEF Fields
  <2> QED
    BY <1>1, <1>4, <1>5, <2>1
<1>6. CASE /\ HybridPhase(job)
           /\ Goto("supersede", [job EXCEPT !.at = 1,
                                   !.results = SortByScore(@)])
  BY <1>1, <1>4, <1>6, SortByScoreFacts, SortLists
<1> QED
  BY <1>2, <1>3, <1>5, <1>6, EnrichedIs

\* The fused hits, cut to the limit, are all there are or as many as it.
LEMMA FuseFinds ==
    ASSUME NEW j, IsJob(j), DistinctIds(j.vector),
           DistinctIds(j.results), NEW V \in SUBSET InScope,
           NEW T \in SUBSET InScope,
           Finds(j, j.vector, V), Listed(j.vector) \subseteq Candidates,
           Finds(j, j.results, T), Listed(j.results) \subseteq Candidates,
           NEW q \in IF j.results = <<>> THEN {j.vector}
                                         ELSE FuseByRRF(j.vector, j.results)
    PROVE  Finds(j, Cut(q, j.limit), V \cup T)
<1>1. /\ j.vector \in Seq(Result) /\ j.results \in Seq(Result)
      /\ j.limit \in Nat
  BY DEF IsJob, Lists, Options
<1>2. /\ q \in Seq(Result) /\ DistinctIds(q)
      /\ Listed(q) = Listed(j.vector) \cup Listed(j.results)
  <2>1. CASE j.results = <<>>
    <3>1. Listed(j.results) = {} /\ q = j.vector
      BY <2>1 DEF Listed
    <3> QED
      BY <1>1, <3>1
  <2>2. CASE j.results # <<>>
    BY <1>1, <2>2, FuseFacts
  <2> QED
    BY <2>1, <2>2
<1>3. Finds(j, q, V) /\ Finds(j, q, T)
  BY <1>1, <1>2, FindsMore
<1>4. Finds(j, q, V \cup T)
  BY <1>3 DEF Finds
<1> DEFINE c == Cut(q, j.limit)
<1>5. \/ Len(c) = Len(q) /\ c = q
      \/ /\ Len(c) = j.limit /\ Len(c) # Len(q) /\ Len(c) <= Len(q)
         /\ j.limit = OrDefault(j.limit)
  BY <1>1, <1>2, CutFacts DEF OrDefault
<1>6. Len(c) = j.limit /\ Len(c) <= Len(q) /\ Len(c) # Len(q)
        => Cardinality(Candidates) > j.limit
  <2> DEFINE f == [k \in 1..Len(q) |-> q[k].id]
  <2>1. Len(q) \in Nat /\ DOMAIN q = 1..Len(q)
    BY <1>2
  <2>2. f \in [1..Len(q) -> Candidates]
    BY <1>2, <2>1 DEF Listed
  <2>3. \A k, l \in 1..Len(q) : k # l => f[k] # f[l]
    BY <1>2, <2>1 DEF DistinctIds
  <2>4. Candidates \in SUBSET Ids
    BY ScopeIsLive DEF Candidates
  <2> HIDE DEF f, c
  <2>5. Len(q) <= Cardinality(Candidates) /\ Cardinality(Candidates) \in Nat
    BY <2>1, <2>2, <2>3, <2>4, AtLeastAsMany
  <2> QED
    BY <1>1, <2>1, <2>5
<1> HIDE DEF c
<1>7. CASE Len(c) = Len(q) /\ c = q
  BY <1>4, <1>7 DEF c
<1>8. CASE /\ Len(c) = j.limit /\ Len(c) # Len(q) /\ Len(c) <= Len(q)
           /\ j.limit = OrDefault(j.limit)
  BY <1>1, <1>6, <1>8 DEF Finds, c
<1> QED
  BY <1>5, <1>7, <1>8

LEMMA HavingLists ==
    ASSUME NEW rs \in Seq(Result), NEW ids
    PROVE  Listed(rs) \cap ids \subseteq Listed(Having(rs, ids))
<1> DEFINE I == {n \in DOMAIN rs : rs[n].id \in ids}
<1>1. PICK f : Picks(Having(rs, ids), rs, I, f)
  BY HavingFacts
<1>2. /\ \A k \in DOMAIN Having(rs, ids) : Having(rs, ids)[k] = rs[f[k]]
      /\ \A n \in I : \E k \in DOMAIN Having(rs, ids) : f[k] = n
  BY <1>1 DEF Picks
<1> QED
  BY <1>2 DEF Listed

\* A recall that shows fewer than its limit, or has none, has cut nothing off.
LEMMA RankShowsAll ==
    ASSUME NEW j, IsJob(j), j.total = 0 \/ Len(Rank(j)) < j.total
    PROVE  /\ Listed(j.results) \cap j.wanted \subseteq Listed(Rank(j))
           /\ j.wanted = Ids => Len(j.results) = Len(Rank(j))
<1> DEFINE ds == Demoted(j.results)
           demoted == IF j.keep THEN j.results ELSE SortByScore(ds)
           total == IF j.wanted = Ids THEN j.total ELSE 0
           cut == Cut(demoted, total)
           kept == Wanted(j, cut)
           shown == Cut(kept, j.total)
<1>1. j.results \in Seq(Result) /\ j.total \in Nat /\ total \in Nat
  BY DEF IsJob, Lists, Options
<1>2. /\ demoted \in Seq(Result) /\ Len(demoted) = Len(j.results)
      /\ Listed(demoted) = Listed(j.results)
  <2>1. /\ ds \in Seq(Result) /\ Len(ds) = Len(j.results)
        /\ DOMAIN ds = DOMAIN j.results
        /\ \A n \in DOMAIN j.results : ds[n].id = j.results[n].id
    BY <1>1, DemotedFacts
  <2> HIDE DEF ds
  <2>2. Listed(ds) = Listed(j.results)
    BY <2>1 DEF Listed
  <2>3. /\ SortByScore(ds) \in Seq(Result) /\ Len(SortByScore(ds)) = Len(ds)
        /\ Listed(SortByScore(ds)) = Listed(ds)
    BY <2>1, SortByScoreFacts, SortLists
  <2> QED
    BY <1>1, <2>1, <2>2, <2>3
<1>3. Rank(j) = shown
  BY DEF Rank
<1> HIDE DEF demoted
<1>4. /\ cut \in Seq(Result) /\ Len(cut) \in Nat
      /\ Len(cut) = Len(demoted) \/ (Len(cut) = total /\ total > 0)
      /\ Len(cut) = Len(demoted) => cut = demoted
  BY <1>1, <1>2, CutFacts
<1> HIDE DEF cut
<1>5. /\ kept \in Seq(Result) /\ Listed(cut) \cap j.wanted \subseteq Listed(kept)
      /\ j.wanted = Ids => kept = cut
  BY <1>4, HavingFacts, HavingLists DEF Wanted
<1> HIDE DEF kept
<1>6. /\ Len(shown) = Len(kept) \/ (Len(shown) = j.total /\ j.total > 0)
      /\ Len(shown) = Len(kept) => shown = kept
  BY <1>1, <1>5, CutFacts
<1> HIDE DEF shown
<1>7. shown = kept /\ (j.total = 0 \/ Len(kept) < j.total)
  BY <1>1, <1>3, <1>6
<1>8. cut = demoted
  <2>1. CASE j.wanted = Ids
    <3>1. (j.total = 0 \/ Len(cut) < j.total) /\ total = j.total
      BY <1>5, <1>7, <2>1
    <3> HIDE DEF total
    <3> QED
      BY <1>1, <1>4, <3>1
  <2>2. CASE j.wanted # Ids
    <3>1. total = 0
      BY <2>2
    <3> HIDE DEF total
    <3> QED
      BY <1>4, <3>1
  <2> QED
    BY <2>1, <2>2
<1> QED
  BY <1>2, <1>3, <1>5, <1>7, <1>8

LEMMA SupersededRecalls ==
    ASSUME Typed, Ranked, Recalled, job.kind = "recall", Superseded
    PROVE  Recalled'
<1>1. /\ IsJob(job) /\ DOMAIN job = Fields /\ pc = "supersede"
      /\ DistinctIds(job.results) /\ DistinctIds(job.vector)
      /\ job.limit \in Nat /\ job.total \in Nat
      /\ job.results \in Seq(Result)
  BY RecallIsRanked, SupersededIs
<1>2. CASE TextPhase(job) /\ Fuse(job)
  <2>1. PICK q \in IF job.results = <<>> THEN {job.vector}
                   ELSE FuseByRRF(job.vector, job.results) :
          Expand(job, Cut(q, job.limit))
    BY <1>2 DEF Fuse
  <2>2. Similars(job.recency) \in SUBSET InScope /\ Relevants \in SUBSET InScope
    BY DEF Similars, Relevants
  <2>3. ASSUME job.since = writes
        PROVE  Finds(job, Cut(q, job.limit), Similars(job.recency) \cup Relevants)
    <3>1. Recalls("supersede", job) /\ job.phase = "text"
      BY <1>1, <1>2, <2>3 DEF Recalled, TextPhase
    <3>2. /\ Finds(job, job.vector, Similars(job.recency))
          /\ Listed(job.vector) \subseteq Candidates
          /\ Finds(job, job.results, Relevants)
          /\ Listed(job.results) \subseteq Candidates
      BY <3>1 DEF Recalls
    <3> QED
      BY <1>1, <2>1, <2>2, <3>2, FuseFinds
  <2> QED
    BY <1>1, <2>1, <2>3, ExpandRecalls
<1>3. CASE HybridPhase(job) /\ Goto("done", [job EXCEPT !.results = Rank(job)])
  <2> DEFINE rs == Rank(job)
             m == [job EXCEPT !.results = rs]
  <2>1. Goto("done", m)
    BY <1>3
  <2>2. job.total = 0 \/ Len(rs) < job.total =>
          /\ Listed(job.results) \cap job.wanted \subseteq Listed(rs)
          /\ job.wanted = Ids => Len(job.results) = Len(rs)
    BY <1>1, RankShowsAll
  <2> HIDE DEF rs
  <2>3. SameQuery(m, job) /\ m.phase = "hybrid" /\ m.results = rs
    BY <1>1, <1>3 DEF SameQuery, Fields, HybridPhase
  <2> HIDE DEF m
  <2> SUFFICES ASSUME job.since = writes PROVE Recalls("done", m)
    BY <2>1, <2>3, RecalledMoves DEF SameQuery
  <2>4. Recalls("supersede", job) /\ job.phase = "hybrid"
    BY <1>1, <1>3 DEF Recalled, HybridPhase
  <2> DEFINE S == Similars(job.recency) \cup Relevants
  <2>5. Finds(job, job.results, S) /\ job.limit = FetchLimit(job.total, job.wanted)
    BY <2>4 DEF Recalls
  <2> HIDE DEF S
  <2>6. ASSUME Short(m) PROVE S \cap job.wanted \subseteq Listed(rs)
    <3>1. Cardinality(Candidates) \in Nat /\ OrDefault(job.limit) \in Nat \ {0}
      <4>1. Candidates \in SUBSET Ids
        BY ScopeIsLive DEF Candidates
      <4> QED
        BY <1>1, <4>1, IdsAreFinite, OrDefaultIsPositive
    <3>2. CASE /\ job.wanted = Ids /\ job.recency = 0
               /\ Len(rs) < OrDefault(job.total)
      <4>1. job.limit = job.total
        BY <2>5, <3>2 DEF FetchLimit
      <4>2. job.total = 0 \/ Len(rs) < job.total
        BY <1>1, <3>2 DEF OrDefault
      <4>3. Len(job.results) < OrDefault(job.limit)
        BY <2>2, <3>2, <4>1, <4>2
      <4>4. Len(job.results) \in Nat
        BY <1>1
      <4>5. S \subseteq Listed(job.results)
        BY <2>5, <3>1, <3>2, <4>3, <4>4 DEF Finds
      <4> QED
        BY <2>2, <4>2, <4>5
    <3>3. CASE /\ Cardinality(Candidates) <= OrDefault(job.limit)
               /\ job.total = 0 \/ Len(rs) < job.total
      <4>1. S \subseteq Listed(job.results)
        BY <2>5, <3>1, <3>3 DEF Finds
      <4> QED
        BY <2>2, <3>3, <4>1
    <3> QED
      BY <2>3, <2>6, <3>2, <3>3 DEF Short, SameQuery
  <2> QED
    BY <2>3, <2>4, <2>6 DEF Recalls, SameQuery, S
<1> QED
  BY <1>2, <1>3, SupersededIs

LEMMA WalksRecall ==
    ASSUME Typed, Ranked, Recalled, job.kind = "recall",
           WalkOut \/ WalkIn \/ Visit \/ EndWalk \/ ExpandFromEntry
    PROVE  Recalled'
<1>1. /\ IsJob(job) /\ Expected(pc, job) /\ pc \in Walking
      /\ job.results \in Seq(Result)
  BY Remembered, RecallIsRanked, VisitIs
  DEF WalkOut, WalkIn, EndWalk, ExpandFromEntry, Walking
<1>2. job.phase = "hybrid" /\ pc \notin {"fetch", "done"}
  BY <1>1 DEF Expected, Walking, Tracks, HybridPhase, Tracing
<1>3. WalkAdds
  BY WalksAdd DEF Expanding
<1>4. PICK l, m :
        /\ l \in {"walk", "walkIn", "visit", "enrich"}
        /\ Goto(l, m) /\ SameQuery(m, job)
        /\ m.vector = job.vector /\ m.phase = job.phase
        /\ \/ m.results = job.results /\ job.visited \subseteq m.visited
           \/ \E r \in Result : /\ r.id \notin job.visited
                                /\ m.results = Append(job.results, r)
                                /\ m.visited = job.visited \cup {r.id}
  BY <1>3 DEF WalkAdds
<1>5. m.results \in Seq(Result) /\ Listed(job.results) \subseteq Listed(m.results)
  <2>1. ASSUME NEW r \in Result, m.results = Append(job.results, r)
        PROVE  /\ m.results \in Seq(Result)
               /\ Listed(job.results) \subseteq Listed(m.results)
    <3>1. /\ m.results \in Seq(Result)
          /\ \A k \in DOMAIN job.results :
               k \in DOMAIN m.results /\ m.results[k] = job.results[k]
      BY <1>1, <2>1
    <3> QED
      BY <3>1 DEF Listed
  <2> QED
    BY <1>1, <1>4, <2>1
<1>6. l \in {"enrich", "supersede"} \cup Walking
  BY <1>4 DEF Walking
<1> QED
  BY <1>2, <1>4, <1>5, <1>6, RecallGrows

LEMMA NextRecalls ==
    ASSUME Typed, Ranked, Recalled, [Next]_vars PROVE Recalled'
<1>1. CASE Ask
  <2>1. CASE \/ SearchVector \/ SearchText \/ HandleSearch \/ SearchHybrid
             \/ Recall \/ ResolveEntry
    BY <2>1, RecallBegins
  <2>2. CASE ~ (\/ SearchVector \/ SearchText \/ HandleSearch \/ SearchHybrid
                \/ Recall \/ ResolveEntry)
    <3>1. job'.kind \notin Searching
      BY <1>1, <2>2, OthersDoNotSearch
    <3> QED
      BY <3>1 DEF Recalled, Searching, Expanding
  <2> QED
    BY <2>1, <2>2
<1>2. CASE Serve /\ job.kind # "recall"
  <2>1. job'.kind # "recall"
    BY <1>2, KeepsKind DEF NoJob
  <2> QED
    BY <2>1 DEF Recalled
<1>3. CASE Serve /\ job.kind = "recall"
  <2>1. job.kind \in Searching /\ job.kind # "resolve"
    BY <1>3 DEF Searching, Expanding
  <2>2. CASE Finish
    BY <2>2 DEF Finish, Goto, NoJob, Recalled
  <2> QED
    BY <1>3, <2>1, <2>2, SearchIsServed, WalksRecall, FetchRecalls, MarksRecall,
       EnrichedRecalls, MatchRecalls, SupersededRecalls
<1>4. CASE Delete \/ Link \/ Unlink
  <2>1. pc' = pc /\ job' = job /\ job'.since # writes'
    BY <1>4, WritesAreHeard
  <2> QED
    BY <2>1 DEF Recalled
<1>5. CASE UNCHANGED vars
  <2>1. Goto(pc, job)
    BY <1>5 DEF vars, Goto
  <2> QED
    BY <2>1, RecalledMoves DEF Recalled
<1> QED
  BY <1>1, <1>2, <1>3, <1>4, <1>5 DEF Next

\* The recall of a scope answers at once.
Told ==
    job.kind = "scope" /\ job.since = writes =>
      /\ job.more <=> ~ InScope \cap job.wanted \subseteq Listed(job.results)
      /\ job.total = 0 => ~job.more

LEMMA ListingIsTold ==
    ASSUME NEW j, Goto("done", j),
           j.more <=> ~ InScope \cap j.wanted \subseteq Listed(j.results),
           j.total = 0 => ~j.more
    PROVE  Told'
<1>1. InScope' = InScope
  BY DEF Goto, InScope, ListPrefix, Live, Expired
<1> QED
  BY <1>1 DEF Told, Goto

LEMMA ScopeTells == ASSUME Typed, RecallByScope PROVE Told'
<1>1. PICK j : Listing(j)
  BY ScopeAsks
<1>2. PICK listed \in NewestFirst(InScope \cap j.wanted) :
        LET fetched == Cut(listed, OneMore(j.total))
            shown == Cut(fetched, j.total)
        IN  /\ j.more = (j.total > 0 /\ Len(fetched) > j.total)
            /\ j.results = [n \in DOMAIN shown |-> Found(shown[n], 0, 0)]
  BY <1>1 DEF Listing
<1> DEFINE ids == InScope \cap j.wanted
           fetched == Cut(listed, OneMore(j.total))
           shown == Cut(fetched, j.total)
<1>3. j.total \in Nat /\ OneMore(j.total) \in Nat /\ ids \in SUBSET Ids
  <2>1. j.total \in Nat
    BY <1>1 DEF Listing, IsJob, Options
  <2> QED
    BY <2>1, ScopeIsLive DEF OneMore
<1> HIDE DEF ids
<1>4. /\ listed \in Seq(Ids) /\ Distinct(listed)
      /\ Len(listed) \in Nat /\ DOMAIN listed = 1..Len(listed)
      /\ \A i \in ids : \E k \in DOMAIN listed : listed[k] = i
      /\ \A k \in DOMAIN listed : listed[k] \in ids
  <2> DEFINE created == [i \in ids |-> db.entries[i].created]
  <2>1. listed \in Rankings(ids, created)
    BY <1>2 DEF NewestFirst, ids
  <2> HIDE DEF created
  <2>2. /\ listed \in Seq(Ids) /\ Distinct(listed)
        /\ \A k \in DOMAIN listed : listed[k] \in ids
    BY <1>3, <2>1, RankingFacts
  <2>3. \A i \in ids : \E k \in DOMAIN listed : listed[k] = i
    BY <1>3, <2>1, RankingHas
  <2>4. Len(listed) \in Nat /\ DOMAIN listed = 1..Len(listed)
    BY <2>2
  <2> QED
    BY <2>2, <2>3, <2>4
<1>5. /\ fetched \in Seq(Ids) /\ Len(fetched) \in Nat
      /\ \/ Len(fetched) = Len(listed)
         \/ Len(fetched) = OneMore(j.total) /\ OneMore(j.total) > 0
      /\ Len(fetched) <= Len(listed)
      /\ \A k \in 1..Len(fetched) : fetched[k] = listed[k]
  BY <1>3, <1>4, CutFacts
<1> HIDE DEF fetched
<1>6. /\ shown \in Seq(Ids) /\ Len(shown) \in Nat /\ DOMAIN shown = 1..Len(shown)
      /\ Len(shown) = Len(fetched) \/ (Len(shown) = j.total /\ j.total > 0)
      /\ Len(shown) <= Len(fetched) /\ (j.total > 0 => Len(shown) <= j.total)
      /\ \A k \in 1..Len(shown) : shown[k] = fetched[k]
  BY <1>3, <1>5, CutFacts
<1> HIDE DEF shown
<1>7. /\ j.more = (j.total > 0 /\ Len(fetched) > j.total)
      /\ Listed(j.results) = {listed[k] : k \in 1..Len(shown)}
  <2>1. /\ j.results = [n \in DOMAIN shown |-> Found(shown[n], 0, 0)]
        /\ j.more = (j.total > 0 /\ Len(fetched) > j.total)
    BY <1>2 DEF shown, fetched
  <2>2. \A n \in DOMAIN shown : j.results[n].id = listed[n]
    BY <1>5, <1>6, <2>1 DEF Found
  <2> QED
    BY <1>6, <2>1, <2>2 DEF Listed
<1>8. /\ j.total \in Nat
      /\ Len(listed) \in Nat /\ Len(fetched) \in Nat /\ Len(shown) \in Nat
      /\ Len(fetched) = Len(listed) \/ (j.total > 0 /\ Len(fetched) = j.total + 1)
      /\ Len(fetched) <= Len(listed) /\ Len(shown) <= Len(fetched)
      /\ Len(shown) = Len(fetched) \/ (Len(shown) = j.total /\ j.total > 0)
      /\ j.total > 0 => Len(shown) <= j.total
  BY <1>3, <1>4, <1>5, <1>6 DEF OneMore
<1>9. CASE j.total = 0 \/ Len(listed) <= j.total
  <2>1. /\ Len(fetched) = Len(listed) /\ Len(shown) = Len(listed)
        /\ ~ (j.total > 0 /\ Len(fetched) > j.total)
    BY <1>8, <1>9
  <2>2. ids \subseteq Listed(j.results)
    BY <1>4, <1>7, <2>1
  <2> QED
    BY <1>1, <1>7, <2>1, <2>2, ListingIsTold DEF ids, Listing
<1>10. CASE j.total > 0 /\ Len(listed) > j.total
  <2>1. Len(fetched) > j.total /\ Len(shown) < Len(listed) /\ 0 < Len(listed)
    BY <1>8, <1>10
  <2>2. Len(listed) \in DOMAIN listed /\ listed[Len(listed)] \in ids
    BY <1>4, <2>1
  <2>3. \A k \in 1..Len(shown) : k \in 1..Len(listed) /\ k # Len(listed)
    BY <1>8, <2>1
  <2>4. listed[Len(listed)] \notin Listed(j.results)
    BY <1>4, <1>7, <2>2, <2>3 DEF Distinct
  <2>5. ~ ids \subseteq Listed(j.results) /\ j.more /\ j.total # 0
    <3>1. ~ ids \subseteq Listed(j.results)
      BY <2>2, <2>4
    <3>2. j.more
      BY ONLY <1>7, <1>10, <2>1
    <3>3. j.total # 0
      BY <1>8, <1>10
    <3> QED
      BY <3>1, <3>2, <3>3
  <2>6. j.more <=> ~ InScope \cap j.wanted \subseteq Listed(j.results)
    BY <2>5 DEF ids
  <2>7. j.total = 0 => ~j.more
    BY <2>5
  <2>8. Goto("done", j)
    BY <1>1 DEF Listing
  <2> QED
    BY ONLY <2>6, <2>7, <2>8, ListingIsTold
<1> QED
  BY <1>8, <1>9, <1>10

LEMMA OthersDoNotList ==
    ASSUME Typed, Ask, ~ RecallByScope PROVE job'.kind # "scope"
<1>1. CASE \/ SearchVector \/ SearchText \/ HandleSearch \/ SearchHybrid
           \/ Recall \/ ResolveEntry
  <2>1. PICK j : Asking(j)
    BY <1>1, SearchesAsk
  <2>2. j.kind # "scope"
    BY <2>1 DEF Asking, Expanding
  <2>3. CASE \E m : Goto("fetch", m) /\ Searched(m, j)
    BY <2>2, <2>3 DEF Goto, Searched
  <2>4. CASE Goto("list", j)
    BY <2>2, <2>4 DEF Goto
  <2> QED
    BY <2>1, <2>3, <2>4, SearchBeginsWith
<1> QED
  BY <1>1, OthersDoNotSearch

LEMMA NextTells == ASSUME Typed, Told, [Next]_vars PROVE Told'
<1>1. CASE Ask /\ ~ RecallByScope
  <2>1. job'.kind # "scope"
    BY <1>1, OthersDoNotList
  <2> QED
    BY <2>1 DEF Told
<1>2. CASE Serve
  <2>1. CASE job.kind # "scope"
    <3>1. job'.kind # "scope"
      BY <1>2, <2>1, KeepsKind DEF NoJob
    <3> QED
      BY <3>1 DEF Told
  <2>2. CASE job.kind = "scope"
    <3>1. Expected(pc, job) /\ pc \in Locations
      BY Remembered DEF Typed
    <3>2. job # NoJob
      BY <2>2 DEF NoJob
    <3>3. pc = "done"
      BY <2>2, <3>1, <3>2
      DEF Expected, Locations, Around, Tracing, Expanding, Tracks, HybridPhase,
          VectorPhase, TextPhase
    <3>4. Finish
      BY <1>2, <3>3, VisitIs
      DEF Serve, Scan, ScanIn, EntryConflicts, ShowEdges, MeshEdges, GraphPeers,
          LookUpPeers, PathTo, WalkOut, WalkIn, EndWalk, Build, Fetch, Enrich,
          Enriched, Match, Supersede, Superseded, ExpandFromEntry, SearchByText
    <3> QED
      BY <3>4 DEF Finish, Goto, NoJob, Told
  <2> QED
    BY <2>1, <2>2
<1>3. CASE Delete \/ Link \/ Unlink
  <2>1. job'.since # writes'
    BY <1>3, WritesAreHeard
  <2> QED
    BY <2>1 DEF Told
<1>4. CASE UNCHANGED vars
  <2>1. InScope' = InScope /\ job' = job /\ writes' = writes
    BY <1>4 DEF vars, InScope, ListPrefix, Live, Expired
  <2> QED
    BY <2>1 DEF Told
<1> QED
  BY <1>1, <1>2, <1>3, <1>4, ScopeTells DEF Next, Ask

\* A quiet recall that shows fewer hits than its limit shows every entry of
\* the scope that one of its searches looks for and its filter lets through,
\* unless there is more than it asks for; that of a scope says exactly when
\* there are more, and leaves none out without a limit.
THEOREM RecallsMissNothing == Spec => []RecallMissesNothing
<1>1. Init => Typed /\ Ranked /\ Recalled /\ Told
  BY InitTyped DEF Init, NoJob, Ranked, Hitting, Recalled, Told
<1>2. Typed /\ Ranked /\ Recalled /\ Told /\ [Next]_vars
        => (Typed /\ Ranked /\ Recalled /\ Told)'
  BY NextTyped, NextRanks, NextRecalls, NextTells
<1>3. ASSUME Typed, Recalled, Told PROVE RecallMissesNothing
  <2> DEFINE asked == OrDefault(IF job.wanted = Ids THEN job.total
                                                    ELSE 10 * job.total)
             similar(i) ==
               /\ Similarity[i] > 0
               /\ Score([job EXCEPT !.phase = "vector"], i) >= Threshold
  <2>1. \A i : Score([job EXCEPT !.phase = "vector"], i)
                = SimilarScore(job.recency, i)
    <3>1. DOMAIN job = Fields
      BY <1>3, Remembered
    <3>2. /\ [job EXCEPT !.phase = "vector"].phase = "vector"
          /\ [job EXCEPT !.phase = "vector"].recency = job.recency
      BY <3>1 DEF Fields
    <3> QED
      BY <3>2 DEF Score, SimilarScore
  <2>2. ASSUME Answered({"recall"}), Quiet,
               \/ /\ job.wanted = Ids /\ job.recency = 0
                  /\ Len(job.results) < OrDefault(job.total)
               \/ /\ Cardinality(Candidates) <= asked
                  /\ job.total = 0 \/ Len(job.results) < job.total,
               NEW i \in InScope \cap job.wanted,
               similar(i) \/ Relevance[i] > 0
        PROVE  i \in Listed(job.results)
    <3>1. Recalls("done", job)
      BY <1>3, <2>2 DEF Answered, Quiet, Recalled
    <3>2. OrDefault(job.limit) = asked
      BY <3>1 DEF Recalls, FetchLimit
    <3>3. Short(job)
      BY <2>2, <3>2 DEF Short
    <3>4. i \in Similars(job.recency) \cup Relevants
      BY <2>1, <2>2 DEF Similars, Relevants
    <3> QED
      BY <2>2, <3>1, <3>3, <3>4 DEF Recalls
  <2>3. Answered({"scope"}) /\ Quiet =>
          /\ job.more <=> ~ InScope \cap job.wanted \subseteq Listed(job.results)
          /\ job.total = 0 => ~job.more
    BY <1>3 DEF Told, Answered, Quiet
  <2> QED
    BY <2>2, <2>3 DEF RecallMissesNothing, Candidates
<1> QED
  BY <1>1, <1>2, <1>3, PTL DEF Spec
=============================================================================
