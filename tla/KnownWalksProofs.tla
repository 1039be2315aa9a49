-------------------------- MODULE KnownWalksProofs --------------------------
(***************************************************************************)
(* A breadth-first walk that nothing disturbs reaches every entry within   *)
(* its depth, at its distance from the start, and finds a shortest path.   *)
(***************************************************************************)
EXTENDS KnownReadsProofs, WellFoundedInduction

-----------------------------------------------------------------------------
(***************************************************************************)
(* What lies within so many steps.                                         *)
(***************************************************************************)
LEMMA LeastNatural ==
    ASSUME NEW T \in SUBSET Nat, T # {}
    PROVE  \E m \in T : \A k \in T : m <= k
<1>1. IsWellFoundedOn(OpToRel(<, Nat), Nat)
  BY NatLessThanWellFounded
<1>2. \E x \in T : \A y \in T : ~ (<<y, x>> \in OpToRel(<, Nat))
  BY <1>1, WFMin
<1>3. PICK m \in T : \A y \in T : ~ (<<y, m>> \in OpToRel(<, Nat))
  BY <1>2
<1>4. \A y \in T : ~ (y < m)
  BY <1>3 DEF OpToRel
<1> QED
  BY <1>4
\* One round further out.
Further(d, ids, dir, types) ==
    ids \cup UNION {Adjacent(d, i, dir, types) : i \in ids}

\* The rounds up to the n-th.
Rounds(f, d, starts, n, dir, types) ==
    f = [k \in 0..n |->
           IF k = 0 THEN starts ELSE Further(d, f[k - 1], dir, types)]

LEMMA RoundsExist ==
    ASSUME NEW d, NEW starts, NEW dir, NEW types
    PROVE  \A n \in Nat : \E f : Rounds(f, d, starts, n, dir, types)
<1> DEFINE P(n) == \E f : Rounds(f, d, starts, n, dir, types)
           T == {n \in Nat : ~ P(n)}
<1>1. CASE T = {}
  BY <1>1
<1>2. CASE T # {}
  <2>1. PICK m \in T : \A k \in T : m <= k
    BY <1>2, LeastNatural
  <2>2. m \in Nat /\ ~ P(m)
    OBVIOUS
  <2>3. CASE m = 0
    <3> DEFINE f == [k \in 0..0 |-> starts]
    <3>1. Rounds(f, d, starts, 0, dir, types)
      BY DEF Rounds
    <3> QED
      BY <2>2, <2>3, <3>1
  <2>4. CASE m # 0
    <3>1. m - 1 \in Nat /\ m - 1 \notin T
      BY <2>1, <2>2, <2>4
    <3>2. PICK g : Rounds(g, d, starts, m - 1, dir, types)
      BY <3>1
    <3> DEFINE f == [k \in 0..m |->
                       IF k = m THEN Further(d, g[m - 1], dir, types) ELSE g[k]]
    <3>3. \A k \in 0..m :
            f[k] = IF k = 0 THEN starts ELSE Further(d, f[k - 1], dir, types)
      BY <2>2, <2>4, <3>1, <3>2 DEF Rounds
    <3>4. f = [k \in 0..m |-> f[k]]
      OBVIOUS
    <3> HIDE DEF f
    <3>5. Rounds(f, d, starts, m, dir, types)
      BY <3>3, <3>4 DEF Rounds
    <3> QED
      BY <2>2, <3>5
  <2> QED
    BY <2>3, <2>4
<1> QED
  BY <1>1, <1>2

LEMMA RoundsAgree ==
    ASSUME NEW d, NEW starts, NEW dir, NEW types, NEW n \in Nat, NEW f, NEW g,
           Rounds(f, d, starts, n, dir, types),
           Rounds(g, d, starts, n + 1, dir, types)
    PROVE  \A k \in 0..n : f[k] = g[k]
<1> DEFINE T == {k \in 0..n : f[k] # g[k]}
<1>1. CASE T # {}
  <2>1. T \in SUBSET Nat
    OBVIOUS
  <2>2. PICK m \in T : \A k \in T : m <= k
    BY <1>1, <2>1, LeastNatural
  <2>3. m \in 0..n /\ f[m] # g[m]
    OBVIOUS
  <2>4. m # 0
    BY <2>3 DEF Rounds
  <2>5. m - 1 \in 0..n /\ f[m - 1] = g[m - 1]
    BY <2>2, <2>3, <2>4
  <2>6. f[m] = Further(d, f[m - 1], dir, types)
    BY <2>3, <2>4 DEF Rounds
  <2>7. g[m] = Further(d, g[m - 1], dir, types)
    BY <2>3, <2>4 DEF Rounds
  <2> QED
    BY <2>3, <2>5, <2>6, <2>7
<1> QED
  BY <1>1

LEMMA WithinIsRounds ==
    ASSUME NEW d, NEW starts, NEW dir, NEW types, NEW n \in Nat
    PROVE  \E f : Rounds(f, d, starts, n, dir, types)
                  /\ Within(d, starts, n, dir, types) = f[n]
<1> DEFINE f == CHOOSE g : Rounds(g, d, starts, n, dir, types)
<1>1. Rounds(f, d, starts, n, dir, types)
  BY RoundsExist
<1>2. Within(d, starts, n, dir, types) = f[n]
  BY DEF Within, Rounds, Further
<1> QED
  BY <1>1, <1>2

LEMMA WithinNone ==
    ASSUME NEW d, NEW starts, NEW dir, NEW types
    PROVE  Within(d, starts, 0, dir, types) = starts
<1>1. PICK f : Rounds(f, d, starts, 0, dir, types)
               /\ Within(d, starts, 0, dir, types) = f[0]
  BY WithinIsRounds
<1> QED
  BY <1>1 DEF Rounds

LEMMA WithinOneMore ==
    ASSUME NEW d, NEW starts, NEW dir, NEW types, NEW n \in Nat
    PROVE  Within(d, starts, n + 1, dir, types)
             = Further(d, Within(d, starts, n, dir, types), dir, types)
<1>1. PICK f : Rounds(f, d, starts, n, dir, types)
               /\ Within(d, starts, n, dir, types) = f[n]
  BY WithinIsRounds
<1>2. n + 1 \in Nat
  OBVIOUS
<1>3. PICK g : Rounds(g, d, starts, n + 1, dir, types)
               /\ Within(d, starts, n + 1, dir, types) = g[n + 1]
  BY <1>2, WithinIsRounds
<1>4. f[n] = g[n]
  BY <1>1, <1>3, RoundsAgree
<1>5. g[n + 1] = Further(d, g[n], dir, types)
  BY <1>3 DEF Rounds
<1> QED
  BY <1>1, <1>3, <1>4, <1>5

LEMMA WithinGrows ==
    ASSUME NEW d, NEW starts, NEW dir, NEW types, NEW n \in Nat, NEW m \in 0..n
    PROVE  Within(d, starts, m, dir, types) \subseteq Within(d, starts, n, dir, types)
<1> DEFINE W(k) == Within(d, starts, k, dir, types)
           T == {k \in m..n : ~ (W(m) \subseteq W(k))}
<1>1. ASSUME NEW k \in Nat PROVE W(k) \subseteq W(k + 1)
  BY WithinOneMore DEF Further
<1>2. CASE T # {}
  <2>1. T \in SUBSET Nat
    OBVIOUS
  <2>2. PICK l \in T : \A k \in T : l <= k
    BY <1>2, <2>1, LeastNatural
  <2>3. l \in m..n /\ ~ (W(m) \subseteq W(l))
    OBVIOUS
  <2>4. l # m
    BY <2>3
  <2>5. l - 1 \in m..n /\ l - 1 \notin T /\ l - 1 \in Nat
    BY <2>2, <2>3, <2>4
  <2>6. W(m) \subseteq W(l - 1)
    BY <2>5
  <2>7. (l - 1) + 1 = l
    BY <2>3
  <2> HIDE DEF W
  <2>8. W(l - 1) \subseteq W(l)
    BY <1>1, <2>5, <2>7
  <2> QED
    BY <2>3, <2>6, <2>8
<1>3. CASE T = {}
  <2>1. n \in m..n
    OBVIOUS
  <2> QED
    BY <1>3, <2>1
<1> QED
  BY <1>2, <1>3

\* Every entry of `ids` but those far out has its neighbours there too.
LEMMA WithinIsCovered ==
    ASSUME NEW d, NEW starts, NEW dir, NEW types, NEW n \in Nat, NEW ids,
           starts \subseteq ids,
           \A k \in Nat : \A i \in ids :
             k < n /\ i \in Within(d, starts, k, dir, types)
               => Adjacent(d, i, dir, types) \subseteq ids
    PROVE  \A k \in 0..n : Within(d, starts, k, dir, types) \subseteq ids
<1> DEFINE W(k) == Within(d, starts, k, dir, types)
           T == {k \in 0..n : ~ (W(k) \subseteq ids)}
<1>1. ASSUME NEW k \in Nat PROVE W(k + 1) = Further(d, W(k), dir, types)
  BY WithinOneMore
<1>2. W(0) \subseteq ids
  BY WithinNone
<1>3. \A k \in Nat : \A i \in ids :
        k < n /\ i \in W(k) => Adjacent(d, i, dir, types) \subseteq ids
  OBVIOUS
<1> HIDE DEF W
<1>4. CASE T # {}
  <2>1. T \in SUBSET Nat
    OBVIOUS
  <2>2. PICK l \in T : \A k \in T : l <= k
    BY <1>4, <2>1, LeastNatural
  <2>3. l \in 0..n /\ ~ (W(l) \subseteq ids)
    OBVIOUS
  <2>4. l # 0
    BY <1>2, <2>3
  <2>5. l - 1 \in 0..n /\ l - 1 \notin T /\ l - 1 \in Nat /\ l - 1 < n
    BY <2>2, <2>3, <2>4
  <2>6. W(l - 1) \subseteq ids
    BY <2>5
  <2>7. (l - 1) + 1 = l
    BY <2>3
  <2>8. W(l) = Further(d, W(l - 1), dir, types)
    BY <1>1, <2>5, <2>7
  <2>9. \A i \in W(l - 1) : Adjacent(d, i, dir, types) \subseteq ids
    BY <1>3, <2>5, <2>6
  <2> QED
    BY <2>3, <2>6, <2>8, <2>9 DEF Further
<1>5. CASE T = {}
  BY <1>5 DEF W
<1> QED
  BY <1>4, <1>5

-----------------------------------------------------------------------------
(***************************************************************************)
(* What each step of a walk does to what the request remembers.            *)
(***************************************************************************)
\* What a walk leaves as it is.
Asks(m, j) ==
    /\ m.kind = j.kind /\ m.since = j.since /\ m.start = j.start
    /\ m.target = j.target /\ m.depth = j.depth /\ m.dir = j.dir
    /\ m.types = j.types /\ m.phase = j.phase /\ m.vector = j.vector
    /\ m.seeds = j.seeds

\* The queue goes by depth, and holds no more than two depths.
InLine(q) ==
    \A a, b \in DOMAIN q :
      a < b => q[a].depth <= q[b].depth /\ q[b].depth <= q[a].depth + 1

LEMMA PoppedFacts ==
    ASSUME Typed
    PROVE  LET q == job.queue
               first == Head(Expandable)
               rest == Tail(Expandable)
           IN  /\ Expandable = <<>> =>
                    \A n \in DOMAIN q : q[n].depth >= job.depth
               /\ Expandable # <<>> =>
                    /\ first \in Item /\ rest \in Seq(Item)
                    /\ first.depth < job.depth
                    /\ \E n \in DOMAIN q : first = q[n]
                    /\ \A k \in DOMAIN rest : \E n \in DOMAIN q : rest[k] = q[n]
                    /\ \A n \in DOMAIN q :
                         \/ q[n].depth >= job.depth
                         \/ q[n] = first
                         \/ \E k \in DOMAIN rest : rest[k] = q[n]
                    /\ InLine(q) =>
                         /\ InLine(rest)
                         /\ \A k \in DOMAIN rest :
                              /\ first.depth <= rest[k].depth
                              /\ rest[k].depth <= first.depth + 1
<1> DEFINE q == job.queue
           I == {n \in DOMAIN q : q[n].depth < job.depth}
           e == Expandable
<1>1. q \in Seq(Item) /\ job.depth \in Nat
  BY Remembered DEF IsJob, Lists, Options
<1>2. \A n \in DOMAIN q : q[n] \in Item /\ q[n].depth \in Nat
  <2>1. \A it \in Item : it.depth \in Nat
    BY DEF Item
  <2> HIDE DEF q, I, e
  <2> QED
    BY <1>1, <2>1
<1>3. I \in SUBSET DOMAIN q /\ e = Sublist(q, I)
  BY DEF Expandable
<1>4. e \in Seq(Item)
  BY <1>1, <1>3, SublistFacts
<1>5. PICK f : /\ Picks(e, q, I, f)
               /\ \A k, l \in DOMAIN e : k < l <=> f[k] < f[l]
  <2> HIDE DEF I, q, e
  <2> QED
    BY <1>1, <1>3, SublistFacts
<1>6. /\ \A k \in DOMAIN e : /\ f[k] \in DOMAIN q /\ e[k] = q[f[k]]
                             /\ q[f[k]].depth < job.depth
      /\ \A n \in DOMAIN q : q[n].depth >= job.depth
                               \/ \E k \in DOMAIN e : f[k] = n
  BY <1>1, <1>2, <1>5 DEF Picks
<1> HIDE DEF q, e, I
<1>7. CASE e = <<>>
  <2>1. DOMAIN e = {}
    BY <1>7
  <2> QED
    BY <1>6, <1>7, <2>1 DEF e, q
<1>8. CASE e # <<>>
  <2> DEFINE first == Head(e)
             rest == Tail(e)
  <2>1. /\ Len(e) \in Nat \ {0} /\ DOMAIN e = 1..Len(e)
        /\ first = e[1] /\ rest \in Seq(Item)
        /\ Len(rest) = Len(e) - 1 /\ DOMAIN rest = 1..(Len(e) - 1)
        /\ \A k \in 1..(Len(e) - 1) : rest[k] = e[k + 1]
    BY <1>4, <1>8
  <2>2. first \in Item
    BY <1>4, <2>1
  <2>3. /\ \A k \in DOMAIN rest : k + 1 \in DOMAIN e /\ k + 1 # 1
        /\ 1 \in DOMAIN e
    BY <2>1
  <2>4. \A k \in DOMAIN e : k = 1 \/ (k - 1 \in DOMAIN rest /\ rest[k - 1] = e[k])
    BY <2>1
  <2> HIDE DEF first, rest
  <2>5. first.depth < job.depth /\ \E n \in DOMAIN q : first = q[n]
    BY <1>6, <2>1, <2>3
  <2>6. \A k \in DOMAIN rest : \E n \in DOMAIN q : rest[k] = q[n]
    BY <1>6, <2>1, <2>3
  <2>7. ASSUME NEW n \in DOMAIN q
        PROVE  \/ q[n].depth >= job.depth
               \/ q[n] = first
               \/ \E k \in DOMAIN rest : rest[k] = q[n]
    <3>1. CASE q[n].depth < job.depth
      <4>1. PICK k \in DOMAIN e : f[k] = n
        BY <1>1, <1>2, <1>6, <3>1
      <4>2. e[k] = q[n]
        BY <1>6, <4>1
      <4> QED
        BY <2>1, <2>4, <4>2
    <3> QED
      BY <1>1, <1>2, <3>1
  <2>8. ASSUME InLine(q)
        PROVE  /\ InLine(rest)
               /\ \A k \in DOMAIN rest : /\ first.depth <= rest[k].depth
                                         /\ rest[k].depth <= first.depth + 1
    <3>1. \A k, l \in DOMAIN e :
            k < l => e[k].depth <= e[l].depth /\ e[l].depth <= e[k].depth + 1
      BY <1>5, <1>6, <2>8 DEF InLine
    <3>2. \A k, l \in DOMAIN rest : k < l => k + 1 < l + 1
      BY <2>1
    <3>3. \A k \in DOMAIN rest : 1 < k + 1
      BY <2>1
    <3> QED
      BY <2>1, <2>3, <3>1, <3>2, <3>3 DEF InLine
  <2> QED
    BY <1>8, <2>1, <2>2, <2>5, <2>6, <2>7, <2>8 DEF first, rest, e, q
<1> QED
  BY <1>7, <1>8

LEMMA WalkOutMoves ==
    ASSUME Typed, WalkOut
    PROVE  LET out == OfTypes(EdgesFrom(db, job'.cur.id), job.types)
               in == OfTypes(EdgesTo(db, job'.cur.id), job.types)
           IN  /\ pc = "walk" /\ Expandable # <<>>
               /\ UNCHANGED <<db, writes>> /\ Asks(job', job)
               /\ job'.visited = job.visited /\ job'.results = job.results
               /\ job'.path = job.path /\ job'.cur = Head(Expandable)
               /\ job'.queue = Tail(Expandable)
               /\ \/ pc' = "visit" /\ job.dir = "in" /\ job'.pending = in
                  \/ pc' = "visit" /\ job.dir = "out" /\ job'.pending = out
                  \/ pc' = "walkIn" /\ job.dir = "both" /\ job'.pending = out
<1> DEFINE cur == Head(Expandable)
           j == [job EXCEPT !.cur = cur, !.queue = Tail(Expandable)]
           out == OfTypes(EdgesFrom(db, cur.id), job.types)
           in == OfTypes(EdgesTo(db, cur.id), job.types)
<1>1. /\ DOMAIN job = Fields /\ job.dir \in {"out", "in", "both"}
  BY Remembered DEF IsJob, Options
<1>2. /\ pc = "walk" /\ Expandable # <<>>
      /\ \/ job.dir = "in" /\ Goto("visit", [j EXCEPT !.pending = in])
         \/ job.dir = "out" /\ Goto("visit", [j EXCEPT !.pending = out])
         \/ job.dir = "both" /\ Goto("walkIn", [j EXCEPT !.pending = out])
  BY <1>1 DEF WalkOut
<1>3. /\ DOMAIN j = Fields /\ Asks(j, job) /\ j.visited = job.visited
      /\ j.results = job.results /\ j.path = job.path /\ j.cur = cur
      /\ j.queue = Tail(Expandable)
  BY <1>1 DEF Fields, Asks
<1> HIDE DEF j, cur, out, in
<1>4. \A p : LET m == [j EXCEPT !.pending = p]
             IN  /\ Asks(m, job) /\ m.visited = job.visited
                 /\ m.results = job.results /\ m.path = job.path
                 /\ m.cur = cur /\ m.queue = Tail(Expandable) /\ m.pending = p
  BY <1>3 DEF Fields, Asks
<1>5. PICK p : job' = [j EXCEPT !.pending = p]
  BY <1>2 DEF Goto
<1>6. /\ Asks(job', job) /\ job'.visited = job.visited
      /\ job'.results = job.results /\ job'.path = job.path
      /\ job'.cur = cur /\ job'.queue = Tail(Expandable)
  BY <1>4, <1>5
<1>7. /\ UNCHANGED <<db, writes>>
      /\ \/ pc' = "visit" /\ job.dir = "in" /\ job'.pending = in
         \/ pc' = "visit" /\ job.dir = "out" /\ job'.pending = out
         \/ pc' = "walkIn" /\ job.dir = "both" /\ job'.pending = out
  BY <1>2, <1>4 DEF Goto
<1> QED
  BY <1>2, <1>6, <1>7 DEF cur, out, in

LEMMA WalkInMoves ==
    ASSUME Typed, WalkIn
    PROVE  /\ pc = "walkIn" /\ pc' = "visit" /\ UNCHANGED <<db, writes>>
           /\ Asks(job', job) /\ job'.visited = job.visited
           /\ job'.results = job.results /\ job'.path = job.path
           /\ job'.cur = job.cur /\ job'.queue = job.queue
           /\ job'.pending = job.pending
                \cup OfTypes(EdgesTo(db, job.cur.id), job.types)
<1>1. DOMAIN job = Fields
  BY Remembered
<1> QED
  BY <1>1 DEF WalkIn, Goto, Fields, Asks

\* Its neighbours are all seen; the target is found; or one more is seen.
AllSeen ==
    /\ Fresh = {} /\ pc' = "walk" /\ job'.visited = job.visited
    /\ job'.queue = job.queue /\ job'.results = job.results
    /\ job'.path = job.path

FoundTarget(x) ==
    /\ job.kind = "path" /\ Other(x, job.cur.id) = job.target /\ pc' = "build"
    /\ job'.path = Append(job.cur.path, x) /\ job'.visited = {job.start}

OneSeen(x) ==
    LET peer == Other(x, job.cur.id)
        n == job.cur.depth + 1
        score == ExpansionScore(job.cur.score, x)
    IN  /\ job.kind = "path" => peer # job.target
        /\ pc' = "visit" /\ job'.cur = job.cur /\ job'.path = job.path
        /\ job'.visited = job.visited \cup {peer}
        /\ job'.pending = Fresh \ {x}
        /\ \/ /\ job.kind = "path" /\ job'.results = job.results
              /\ job'.queue = Append(job.queue,
                                     At(peer, n, 0, Append(job.cur.path, x)))
           \/ /\ job.kind # "path" /\ Live(db, peer)
              /\ job'.results = Append(job.results, Found(peer, score, n))
              /\ job'.queue = Append(job.queue, At(peer, n, score, <<>>))
           \/ /\ job.kind # "path" /\ ~ Live(db, peer)
              /\ job'.results = job.results /\ job'.queue = job.queue

LEMMA VisitMoves ==
    ASSUME Typed, Visit
    PROVE  /\ pc = "visit" /\ UNCHANGED <<db, writes>> /\ Asks(job', job)
           /\ AllSeen \/ \E x \in Fresh : FoundTarget(x) \/ OneSeen(x)
<1>1. DOMAIN job = Fields /\ pc = "visit"
  BY Remembered, VisitIs
<1>2. CASE Fresh = {} /\ Goto("walk", [job EXCEPT !.pending = {}])
  BY <1>1, <1>2 DEF Goto, Fields, Asks, AllSeen
<1>3. ASSUME NEW x \in Fresh
      PROVE  LET m == Visited(x)
             IN  /\ DOMAIN m = Fields /\ Asks(m, job) /\ m.cur = job.cur
                 /\ m.path = job.path /\ m.queue = job.queue
                 /\ m.results = job.results /\ m.pending = Fresh \ {x}
                 /\ m.visited = job.visited \cup {Other(x, job.cur.id)}
  BY <1>1 DEF Visited, Fields, Asks
<1>4. ASSUME NEW x \in Fresh, job.kind = "path", Other(x, job.cur.id) = job.target,
             Goto("build", [Visited(x) EXCEPT !.path = Append(job.cur.path, x),
                                              !.visited = {job.start}])
      PROVE  FoundTarget(x) /\ UNCHANGED <<db, writes>> /\ Asks(job', job)
  BY <1>3, <1>4 DEF Goto, Fields, Asks, FoundTarget
<1>5. ASSUME NEW x \in Fresh, job.kind = "path", Other(x, job.cur.id) # job.target,
             Goto("visit", Passed(Visited(x), Other(x, job.cur.id), x))
      PROVE  OneSeen(x) /\ UNCHANGED <<db, writes>> /\ Asks(job', job)
  BY <1>3, <1>5 DEF Goto, Fields, Asks, OneSeen, Passed, Enqueue
<1>6. ASSUME NEW x \in Fresh, job.kind # "path", Live(db, Other(x, job.cur.id)),
             Goto("visit", Reached(Visited(x), Other(x, job.cur.id), x))
      PROVE  OneSeen(x) /\ UNCHANGED <<db, writes>> /\ Asks(job', job)
  BY <1>3, <1>6 DEF Goto, Fields, Asks, OneSeen, Reached, Enqueue
<1>7. ASSUME NEW x \in Fresh, job.kind # "path", ~ Live(db, Other(x, job.cur.id)),
             Goto("visit", Visited(x))
      PROVE  OneSeen(x) /\ UNCHANGED <<db, writes>> /\ Asks(job', job)
  BY <1>3, <1>7 DEF Goto, Asks, OneSeen
<1> QED
  BY <1>1, <1>2, <1>4, <1>5, <1>6, <1>7, VisitIs

LEMMA WalkBeginsWith ==
    ASSUME NEW j, IsJob(j), NEW m, m = Walk(j, j.start, 0), j.visited = {}
    PROVE  /\ Asks(m, j) /\ m.visited = {j.start}
           /\ m.queue = <<At(j.start, 0, 0, <<>>)>>
           /\ m.results = j.results /\ m.path = j.path
  BY DEF IsJob, Fields, Walk, Asks

-----------------------------------------------------------------------------
(***************************************************************************)
(* The walk, while nothing is written: the items that wait are at their    *)
(* distance from the start, and whatever was seen and no longer waits has  *)
(* its neighbours seen, or lies at the depth limit.                        *)
(***************************************************************************)
\* The edges that a walk follows from an entry.
Meets(d, i, dir, types) ==
    OfTypes(IF dir = "in" THEN {} ELSE EdgesFrom(d, i), types)
    \cup OfTypes(IF dir = "out" THEN {} ELSE EdgesTo(d, i), types)

LEMMA MeetsFacts ==
    ASSUME NEW d \in Database, Consistent(d), NEW i, NEW dir, NEW types
    PROVE  /\ Adjacent(d, i, dir, types) = {Other(x, i) : x \in Meets(d, i, dir, types)}
           /\ \A x \in Meets(d, i, dir, types) :
                Live(d, Other(x, i)) /\ i \in {x.from, x.to}
<1> DEFINE out == OfTypes(IF dir = "in" THEN {} ELSE EdgesFrom(d, i), types)
           in == OfTypes(IF dir = "out" THEN {} ELSE EdgesTo(d, i), types)
<1>1. /\ \A x \in out : x.from = i /\ x.to # i /\ Live(d, x.to)
      /\ \A x \in in : x.to = i /\ x.from # i /\ Live(d, x.from)
  BY CopiesAreEdges, PresentEnds DEF OfTypes
<1>2. /\ Meets(d, i, dir, types) = out \cup in
      /\ Adjacent(d, i, dir, types) = {x.to : x \in out} \cup {x.from : x \in in}
  BY DEF Meets, Adjacent
<1> HIDE DEF out, in
<1> QED
  BY <1>1, <1>2 DEF Other

Reach(d, j, n) == Within(d, {j.start}, n, j.dir, j.types)

Near(d, j, i) == Adjacent(d, i, j.dir, j.types)

AtDistance(d, j, i, n) ==
    i \in Reach(d, j, n) /\ \A k \in 0..(n - 1) : i \notin Reach(d, j, k)

Waiting(l, j) ==
    {j.queue[n] : n \in DOMAIN j.queue} \cup (IF l = "walk" THEN {} ELSE {j.cur})

Walking == {"walk", "walkIn", "visit"}

\* The queue, whatever is written.
Frontier(l, j) ==
    /\ j.depth > 0 /\ InLine(j.queue)
    /\ \A it \in Waiting(l, j) : it.depth <= j.depth
    /\ l # "walk" => /\ j.cur.depth < j.depth
                     /\ \A n \in DOMAIN j.queue :
                          /\ j.cur.depth <= j.queue[n].depth
                          /\ j.queue[n].depth <= j.cur.depth + 1

Settled(l, j, d, i) ==
    \/ \E it \in Waiting(l, j) : it.id = i
    \/ i \notin Reach(d, j, j.depth - 1)
    \/ Near(d, j, i) \subseteq j.visited

Sweep(l, j, d) ==
    /\ j.start \in j.visited /\ j.visited \subseteq Reach(d, j, j.depth)
    /\ \A it \in Waiting(l, j) : AtDistance(d, j, it.id, it.depth)
    /\ \A i \in j.visited : Settled(l, j, d, i)
    /\ l = "walkIn" =>
         j.dir = "both" /\ j.pending = OfTypes(EdgesFrom(d, j.cur.id), j.types)
    /\ l = "visit" =>
         /\ j.pending \subseteq Meets(d, j.cur.id, j.dir, j.types)
         /\ Near(d, j, j.cur.id)
              \subseteq j.visited \cup {Other(x, j.cur.id) : x \in j.pending}

LEMMA AsksTheSame ==
    ASSUME NEW d, NEW j, NEW m, Asks(m, j)
    PROVE  /\ \A n : Reach(d, m, n) = Reach(d, j, n)
           /\ \A i : Near(d, m, i) = Near(d, j, i)
           /\ \A i, n : AtDistance(d, m, i, n) <=> AtDistance(d, j, i, n)
  BY DEF Asks, Reach, Near, AtDistance

LEMMA ReachGrows ==
    ASSUME NEW d, NEW j, NEW n \in Nat, NEW m \in 0..n
    PROVE  Reach(d, j, m) \subseteq Reach(d, j, n)
  BY WithinGrows DEF Reach

LEMMA ReachOneMore ==
    ASSUME NEW d, NEW j, NEW n \in Nat, NEW i \in Reach(d, j, n),
           NEW a \in Near(d, j, i)
    PROVE  a \in Reach(d, j, n + 1)
  BY WithinOneMore DEF Reach, Near, Further

\* What is nearer than all that wait was seen.
LEMMA NearerIsSeen ==
    ASSUME NEW l, NEW j, NEW d, Sweep(l, j, d), j.depth \in Nat \ {0},
           NEW n \in 0..j.depth,
           \A it \in Waiting(l, j) : it.depth \in Nat /\ it.depth >= n
    PROVE  \A k \in 0..n : Reach(d, j, k) \subseteq j.visited
<1>1. ASSUME NEW k \in Nat, NEW i \in j.visited, k < n, i \in Reach(d, j, k)
      PROVE  Near(d, j, i) \subseteq j.visited
  <2>1. Settled(l, j, d, i)
    BY DEF Sweep
  <2>2. ASSUME NEW it \in Waiting(l, j), it.id = i PROVE FALSE
    <3>1. AtDistance(d, j, i, it.depth)
      BY <2>2 DEF Sweep
    <3>2. k \in 0..(it.depth - 1)
      BY <1>1
    <3> QED
      BY <1>1, <3>1, <3>2 DEF AtDistance
  <2>3. i \in Reach(d, j, j.depth - 1)
    <3>1. j.depth - 1 \in Nat /\ k \in 0..(j.depth - 1)
      BY <1>1
    <3> QED
      BY <1>1, <3>1, ReachGrows
  <2> QED
    BY <2>1, <2>2, <2>3 DEF Settled
<1>2. {j.start} \subseteq j.visited
  BY DEF Sweep
<1>3. n \in Nat
  OBVIOUS
<1>4. \A k \in Nat : \A i \in j.visited :
        k < n /\ i \in Within(d, {j.start}, k, j.dir, j.types)
          => Adjacent(d, i, j.dir, j.types) \subseteq j.visited
  BY <1>1 DEF Reach, Near
<1> QED
  BY <1>2, <1>3, <1>4, WithinIsCovered DEF Reach

LEMMA WaitingFacts ==
    ASSUME Typed, pc \in Walking
    PROVE  /\ job.queue \in Seq(Item) /\ job.depth \in Nat
           /\ pc # "walk" => job.cur \in Item
           /\ \A it \in Waiting(pc, job) : it \in Item /\ it.depth \in Nat
<1>1. job.queue \in Seq(Item) /\ Expected(pc, job) /\ job.depth \in Nat
  BY Remembered DEF IsJob, Lists, Options
<1>2. pc # "walk" => job.cur \in Item
  BY <1>1 DEF Expected, Walking
<1>3. \A n \in DOMAIN job.queue : job.queue[n] \in Item
  BY <1>1
<1>4. \A it \in Item : it.depth \in Nat
  BY DEF Item
<1> QED
  BY <1>1, <1>2, <1>3, <1>4 DEF Waiting

LEMMA WalkBeginsSweep ==
    ASSUME NEW m, NEW d, m.start \in Ids, m.depth \in Nat \ {0},
           m.visited = {m.start}, m.queue = <<At(m.start, 0, 0, <<>>)>>
    PROVE  Frontier("walk", m) /\ Sweep("walk", m, d)
<1> DEFINE it == At(m.start, 0, 0, <<>>)
<1>1. it.id = m.start /\ it.depth = 0
  BY DEF At
<1>2. m.queue = <<it>>
  OBVIOUS
<1> HIDE DEF it
<1>3. Waiting("walk", m) = {it} /\ DOMAIN m.queue = {1} /\ m.queue[1] = it
  BY <1>2 DEF Waiting
<1>4. Frontier("walk", m)
  BY <1>1, <1>3 DEF Frontier, InLine
<1>5. Reach(d, m, 0) = {m.start} /\ Reach(d, m, 0) \subseteq Reach(d, m, m.depth)
  <2>1. 0 \in 0..m.depth /\ m.depth \in Nat
    OBVIOUS
  <2>2. Reach(d, m, 0) = {m.start}
    BY WithinNone DEF Reach
  <2>3. Reach(d, m, 0) \subseteq Reach(d, m, m.depth)
    BY <2>1, ReachGrows
  <2> QED
    BY <2>2, <2>3
<1>6. AtDistance(d, m, m.start, 0)
  BY <1>5 DEF AtDistance
<1> QED
  BY <1>1, <1>3, <1>4, <1>5, <1>6 DEF Sweep, Settled

LEMMA WalkOutSweeps ==
    ASSUME Typed, WalkOut, Frontier(pc, job)
    PROVE  /\ Frontier(pc', job')
           /\ Sweep(pc, job, db) => Sweep(pc', job', db)
<1> DEFINE first == Head(Expandable)
           rest == Tail(Expandable)
<1>1. /\ pc = "walk" /\ Expandable # <<>> /\ Asks(job', job)
      /\ job'.visited = job.visited /\ job'.cur = first /\ job'.queue = rest
      /\ pc' \in {"walkIn", "visit"}
  BY WalkOutMoves
<1>2. /\ first \in Item /\ rest \in Seq(Item) /\ first.depth < job.depth
      /\ \E n \in DOMAIN job.queue : first = job.queue[n]
      /\ \A k \in DOMAIN rest : \E n \in DOMAIN job.queue : rest[k] = job.queue[n]
      /\ \A n \in DOMAIN job.queue :
           \/ job.queue[n].depth >= job.depth
           \/ job.queue[n] = first
           \/ \E k \in DOMAIN rest : rest[k] = job.queue[n]
      /\ InLine(rest)
      /\ \A k \in DOMAIN rest : /\ first.depth <= rest[k].depth
                                /\ rest[k].depth <= first.depth + 1
  BY <1>1, PoppedFacts DEF Frontier
<1>3. /\ job.depth \in Nat /\ \A it \in Waiting(pc, job) : it.depth \in Nat
  BY <1>1, WaitingFacts DEF Walking
<1> HIDE DEF first, rest
<1>4. /\ Waiting(pc', job') = {rest[k] : k \in DOMAIN rest} \cup {first}
      /\ Waiting(pc, job) = {job.queue[n] : n \in DOMAIN job.queue}
  BY <1>1 DEF Waiting
<1>5. /\ Waiting(pc', job') \subseteq Waiting(pc, job)
      /\ \A it \in Waiting(pc, job) :
           it.depth >= job.depth \/ it \in Waiting(pc', job')
  BY <1>2, <1>4
<1>6. job'.depth = job.depth
  BY <1>1 DEF Asks
<1>7. Frontier(pc', job')
  BY <1>1, <1>2, <1>5, <1>6 DEF Frontier
<1>8. ASSUME Sweep(pc, job, db) PROVE Sweep(pc', job', db)
  <2>1. \A it \in Waiting(pc', job') : AtDistance(db, job', it.id, it.depth)
    BY <1>1, <1>5, <1>8, AsksTheSame DEF Sweep
  <2>2. ASSUME NEW i \in job.visited PROVE Settled(pc', job', db, i)
    <3>1. Settled(pc, job, db, i)
      BY <1>8 DEF Sweep
    <3>2. ASSUME NEW it \in Waiting(pc, job), it.id = i, it.depth >= job.depth
          PROVE  i \notin Reach(db, job, job.depth - 1)
      <4>1. AtDistance(db, job, i, it.depth)
        BY <1>8, <3>2 DEF Sweep
      <4>2. job.depth - 1 \in 0..(it.depth - 1)
        BY <1>3, <3>2 DEF Frontier
      <4> QED
        BY <4>1, <4>2 DEF AtDistance
    <3>3. \/ \E it \in Waiting(pc', job') : it.id = i
          \/ i \notin Reach(db, job, job.depth - 1)
          \/ Near(db, job, i) \subseteq job.visited
      BY <1>5, <3>1, <3>2 DEF Settled
    <3> QED
      BY <1>1, <1>6, <3>3, AsksTheSame DEF Settled
  <2>3. /\ job'.start \in job'.visited
        /\ job'.visited \subseteq Reach(db, job', job'.depth)
    BY <1>1, <1>6, <1>8, AsksTheSame DEF Sweep, Asks
  <2>4. pc' = "walkIn" =>
          /\ job'.dir = "both"
          /\ job'.pending = OfTypes(EdgesFrom(db, job'.cur.id), job'.types)
    BY <1>1, WalkOutMoves DEF Asks
  <2>5. pc' = "visit" =>
          job'.pending = Meets(db, job'.cur.id, job'.dir, job'.types)
    <3>1. job'.dir = job.dir /\ job'.types = job.types
      BY <1>1 DEF Asks
    <3> DEFINE out == OfTypes(EdgesFrom(db, job'.cur.id), job.types)
               in == OfTypes(EdgesTo(db, job'.cur.id), job.types)
    <3>2. /\ OfTypes({}, job.types) = {}
          /\ pc' = "visit" => \/ job.dir = "in" /\ job'.pending = in
                              \/ job.dir = "out" /\ job'.pending = out
      BY WalkOutMoves DEF OfTypes
    <3>3. CASE job.dir = "in"
      BY <3>1, <3>2, <3>3 DEF Meets
    <3>4. CASE job.dir = "out"
      BY <3>1, <3>2, <3>4 DEF Meets
    <3> QED
      BY <3>2, <3>3, <3>4
  <2>6. db \in Database /\ Consistent(db)
    BY Remembered
  <2>7. Near(db, job', job'.cur.id)
          = {Other(x, job'.cur.id) : x \in Meets(db, job'.cur.id, job'.dir, job'.types)}
    BY <2>6, MeetsFacts DEF Near
  <2> QED
    BY <1>1, <2>1, <2>2, <2>3, <2>4, <2>5, <2>7 DEF Sweep
<1> QED
  BY <1>7, <1>8

LEMMA WalkInSweeps ==
    ASSUME Typed, WalkIn, Frontier(pc, job)
    PROVE  /\ Frontier(pc', job')
           /\ Sweep(pc, job, db) => Sweep(pc', job', db)
<1>1. /\ pc = "walkIn" /\ pc' = "visit" /\ Asks(job', job)
      /\ job'.visited = job.visited /\ job'.cur = job.cur
      /\ job'.queue = job.queue
      /\ job'.pending = job.pending
           \cup OfTypes(EdgesTo(db, job.cur.id), job.types)
  BY WalkInMoves
<1>2. Waiting(pc', job') = Waiting(pc, job) /\ job'.depth = job.depth
  BY <1>1 DEF Waiting, Asks
<1>3. Frontier(pc', job')
  BY <1>1, <1>2 DEF Frontier
<1>4. ASSUME Sweep(pc, job, db) PROVE Sweep(pc', job', db)
  <2>1. \A it \in Waiting(pc', job') : AtDistance(db, job', it.id, it.depth)
    BY <1>1, <1>2, <1>4, AsksTheSame DEF Sweep
  <2>2. \A i \in job'.visited : Settled(pc', job', db, i)
    BY <1>1, <1>2, <1>4, AsksTheSame DEF Sweep, Settled
  <2>3. /\ job'.start \in job'.visited
        /\ job'.visited \subseteq Reach(db, job', job'.depth)
    BY <1>1, <1>2, <1>4, AsksTheSame DEF Sweep, Asks
  <2>4. job'.pending = Meets(db, job'.cur.id, job'.dir, job'.types)
    BY <1>1, <1>4 DEF Sweep, Asks, Meets
  <2>5. db \in Database /\ Consistent(db)
    BY Remembered
  <2>6. Near(db, job', job'.cur.id)
          = {Other(x, job'.cur.id) : x \in Meets(db, job'.cur.id, job'.dir, job'.types)}
    BY <2>5, MeetsFacts DEF Near
  <2> QED
    BY <1>1, <2>1, <2>2, <2>3, <2>4, <2>6 DEF Sweep
<1> QED
  BY <1>3, <1>4

LEMMA AllSeenSweeps ==
    ASSUME Typed, Visit, AllSeen, Frontier(pc, job)
    PROVE  /\ Frontier(pc', job')
           /\ Sweep(pc, job, db) => Sweep(pc', job', db)
<1>1. /\ pc = "visit" /\ pc' = "walk" /\ Asks(job', job)
      /\ job'.visited = job.visited /\ job'.queue = job.queue
  BY VisitMoves DEF AllSeen
<1>2. /\ Waiting(pc', job') \cup {job.cur} = Waiting(pc, job)
      /\ job'.depth = job.depth
  BY <1>1 DEF Waiting, Asks
<1>3. Frontier(pc', job')
  BY <1>1, <1>2 DEF Frontier
<1>4. ASSUME Sweep(pc, job, db) PROVE Sweep(pc', job', db)
  <2>1. \A it \in Waiting(pc', job') : AtDistance(db, job', it.id, it.depth)
    BY <1>1, <1>2, <1>4, AsksTheSame DEF Sweep
  <2>2. Near(db, job, job.cur.id) \subseteq job.visited
    BY <1>1, <1>4 DEF Sweep, AllSeen, Fresh
  <2>3. \A i \in job'.visited : Settled(pc', job', db, i)
    BY <1>1, <1>2, <1>4, <2>2, AsksTheSame DEF Sweep, Settled
  <2>4. /\ job'.start \in job'.visited
        /\ job'.visited \subseteq Reach(db, job', job'.depth)
    BY <1>1, <1>2, <1>4, AsksTheSame DEF Sweep, Asks
  <2> QED
    BY <1>1, <2>1, <2>3, <2>4 DEF Sweep
<1> QED
  BY <1>3, <1>4

\* An entry of the depth after the current one's joins the queue, or none.
LEMMA QueueGrows ==
    ASSUME NEW j, NEW m, NEW n, Frontier("visit", j), Asks(m, j),
           j.queue \in Seq(Item), j.cur \in Item, j.depth \in Nat,
           n = j.cur.depth + 1, m.cur = j.cur, NEW it, it.depth = n,
           m.queue = j.queue \/ m.queue = Append(j.queue, it)
    PROVE  /\ Frontier("visit", m)
           /\ Waiting("visit", j) \subseteq Waiting("visit", m)
           /\ Waiting("visit", m) \subseteq Waiting("visit", j) \cup {it}
           /\ m.queue = Append(j.queue, it) => it \in Waiting("visit", m)
<1> DEFINE q == j.queue
<1>1. /\ q \in Seq(Item) /\ InLine(q) /\ j.depth > 0
      /\ j.cur.depth \in Nat /\ j.cur.depth < j.depth /\ m.depth = j.depth
      /\ \A it2 \in Waiting("visit", j) : it2.depth <= j.depth
      /\ \A a \in DOMAIN q : /\ j.cur.depth <= q[a].depth
                             /\ q[a].depth <= j.cur.depth + 1
  BY DEF Frontier, Item, Asks
<1>2. \A a \in DOMAIN q : q[a].depth \in Nat
  <2>1. \A i \in Item : i.depth \in Nat
    BY DEF Item
  <2> HIDE DEF q
  <2> QED
    BY <1>1, <2>1
<1>3. CASE m.queue = q
  BY <1>1, <1>3 DEF Frontier, Waiting, q
<1>4. CASE m.queue = Append(q, it)
  <2> DEFINE r == m.queue
  <2>1. /\ DOMAIN r = 1..(Len(q) + 1) /\ DOMAIN q = 1..Len(q) /\ Len(q) \in Nat
        /\ r[Len(q) + 1] = it /\ \A a \in DOMAIN q : r[a] = q[a]
    BY <1>1, <1>4
  <2>2. \A a \in DOMAIN r : a \in DOMAIN q \/ a = Len(q) + 1
    BY <2>1
  <2>3. DOMAIN q \subseteq DOMAIN r /\ Len(q) + 1 \in DOMAIN r
    BY <2>1
  <2>4. Waiting("visit", m) = Waiting("visit", j) \cup {it}
    BY <2>1, <2>2, <2>3 DEF Waiting
  <2> HIDE DEF r, q
  <2>5. ASSUME NEW a \in DOMAIN r, NEW b \in DOMAIN r, a < b
        PROVE  r[a].depth <= r[b].depth /\ r[b].depth <= r[a].depth + 1
    <3>1. a \in DOMAIN q
      BY <2>1, <2>2, <2>5
    <3>2. CASE b \in DOMAIN q
      BY <1>1, <2>1, <2>5, <3>1, <3>2 DEF InLine
    <3>3. CASE b = Len(q) + 1
      BY <1>1, <1>2, <2>1, <3>1, <3>3
    <3> QED
      BY <2>2, <3>2, <3>3
  <2>6. \A a \in DOMAIN r : /\ j.cur.depth <= r[a].depth
                            /\ r[a].depth <= j.cur.depth + 1
    BY <1>1, <2>1, <2>2
  <2>7. it.depth <= j.depth
    BY <1>1
  <2>8. InLine(r)
    BY <2>5 DEF InLine
  <2>9. Frontier("visit", m)
    BY <1>1, <2>4, <2>6, <2>7, <2>8 DEF Frontier, r
  <2> QED
    BY <1>4, <2>4, <2>9 DEF q
<1> QED
  BY <1>3, <1>4

\* An entry first seen now is one step further from the start.
LEMMA FreshIsNext ==
    ASSUME Typed, Visit, NEW x \in Fresh, Frontier(pc, job), Sweep(pc, job, db)
    PROVE  /\ Live(db, Other(x, job.cur.id))
           /\ AtDistance(db, job, Other(x, job.cur.id), job.cur.depth + 1)
<1> DEFINE peer == Other(x, job.cur.id)
           n == job.cur.depth + 1
<1>1. /\ pc = "visit" /\ x \in job.pending /\ peer \notin job.visited
  BY VisitMoves DEF Fresh
<1>2. db \in Database /\ Consistent(db)
  BY Remembered
<1>3. job.pending \subseteq Meets(db, job.cur.id, job.dir, job.types)
  BY <1>1 DEF Sweep
<1>4. Live(db, peer) /\ peer \in Near(db, job, job.cur.id)
  BY <1>1, <1>2, <1>3, MeetsFacts DEF Near
<1>5. /\ job.cur \in Waiting(pc, job) /\ job.cur.depth \in Nat
      /\ job.cur.depth < job.depth /\ job.depth \in Nat \ {0}
      /\ \A w \in Waiting(pc, job) : /\ w.depth \in Nat
                                     /\ w.depth >= job.cur.depth
  <2>1. /\ job.cur \in Waiting(pc, job) /\ job.depth \in Nat
        /\ \A w \in Waiting(pc, job) : w.depth \in Nat
    BY <1>1, WaitingFacts DEF Walking, Waiting
  <2> QED
    BY <1>1, <2>1 DEF Waiting, Frontier
<1>6. AtDistance(db, job, job.cur.id, job.cur.depth)
  BY <1>5 DEF Sweep
<1>7. peer \in Reach(db, job, n)
  BY <1>4, <1>5, <1>6, ReachOneMore DEF AtDistance
<1>8. \A k \in 0..job.cur.depth : Reach(db, job, k) \subseteq job.visited
  <2>1. job.cur.depth \in 0..job.depth
    BY <1>5
  <2> QED
    BY <1>5, <2>1, NearerIsSeen
<1>9. 0..(n - 1) = 0..job.cur.depth
  BY <1>5
<1> QED
  BY <1>1, <1>4, <1>7, <1>8, <1>9 DEF AtDistance

LEMMA OneSeenSweeps ==
    ASSUME Typed, Visit, NEW x \in Fresh, OneSeen(x), Frontier(pc, job)
    PROVE  /\ Frontier(pc', job')
           /\ Sweep(pc, job, db) => Sweep(pc', job', db)
<1> DEFINE peer == Other(x, job.cur.id)
           n == job.cur.depth + 1
<1>1. /\ pc = "visit" /\ pc' = "visit" /\ Asks(job', job)
      /\ job'.cur = job.cur /\ job'.visited = job.visited \cup {peer}
      /\ job'.pending = Fresh \ {x}
  BY VisitMoves DEF OneSeen
<1>2. \E it : /\ it.depth = n /\ it.id = peer
              /\ job'.queue = job.queue \/ job'.queue = Append(job.queue, it)
              /\ Live(db, peer) => job'.queue = Append(job.queue, it)
  <2>1. \A s, p : LET it == At(peer, n, s, p) IN it.depth = n /\ it.id = peer
    BY DEF At
  <2> QED
    BY <2>1 DEF OneSeen
<1>3. PICK it : /\ it.depth = n /\ it.id = peer
                /\ job'.queue = job.queue \/ job'.queue = Append(job.queue, it)
                /\ Live(db, peer) => job'.queue = Append(job.queue, it)
  BY <1>2
<1>4. /\ job.queue \in Seq(Item) /\ job.cur \in Item /\ job.depth \in Nat
      /\ \A w \in Waiting(pc, job) : w.depth \in Nat
  BY <1>1, WaitingFacts DEF Walking
<1>5. /\ Frontier(pc', job') /\ Waiting(pc, job) \subseteq Waiting(pc', job')
      /\ Waiting(pc', job') \subseteq Waiting(pc, job) \cup {it}
      /\ job'.queue = Append(job.queue, it) => it \in Waiting(pc', job')
  <2>1. /\ Frontier("visit", job) /\ Asks(job', job) /\ job'.cur = job.cur
        /\ it.depth = job.cur.depth + 1
        /\ job'.queue = job.queue \/ job'.queue = Append(job.queue, it)
    BY <1>1, <1>3
  <2>2. /\ Frontier("visit", job')
        /\ Waiting("visit", job) \subseteq Waiting("visit", job')
        /\ Waiting("visit", job') \subseteq Waiting("visit", job) \cup {it}
        /\ job'.queue = Append(job.queue, it) => it \in Waiting("visit", job')
    BY <1>4, <2>1, QueueGrows
  <2> QED
    BY <1>1, <2>2
<1>6. job'.depth = job.depth
  BY <1>1 DEF Asks
<1>7. ASSUME Sweep(pc, job, db) PROVE Sweep(pc', job', db)
  <2>1. /\ x \in job.pending /\ peer \notin job.visited
        /\ \A y \in job.pending \ Fresh : Other(y, job.cur.id) \in job.visited
        /\ Fresh \subseteq job.pending
    BY DEF Fresh
  <2>2. job.pending \subseteq Meets(db, job.cur.id, job.dir, job.types)
    BY <1>1, <1>7 DEF Sweep
  <2>3. Live(db, peer) /\ AtDistance(db, job, peer, n)
    BY <1>7, FreshIsNext
  <2>4. Waiting(pc', job') = Waiting(pc, job) \cup {it}
    BY <1>3, <1>5, <2>3
  <2>5. \A w \in Waiting(pc', job') : AtDistance(db, job', w.id, w.depth)
    BY <1>1, <1>3, <1>7, <2>3, <2>4, AsksTheSame DEF Sweep
  <2>6. peer \in Reach(db, job, job.depth)
    <3>1. job.cur.depth \in Nat /\ job.cur.depth < job.depth
      BY <1>1, <1>4 DEF Frontier, Item
    <3>2. n \in 0..job.depth
      BY <1>4, <3>1
    <3> QED
      BY <1>4, <2>3, <3>2, ReachGrows DEF AtDistance
  <2>7. /\ job'.start \in job'.visited
         /\ job'.visited \subseteq Reach(db, job', job'.depth)
    BY <1>1, <1>6, <1>7, <2>6, AsksTheSame DEF Sweep, Asks
  <2>8. \A i \in job'.visited : Settled(pc', job', db, i)
    <3>1. Settled(pc', job', db, peer)
      BY <1>3, <2>4 DEF Settled
    <3>2. ASSUME NEW i \in job.visited PROVE Settled(pc', job', db, i)
      <4>1. Settled(pc, job, db, i)
        BY <1>7 DEF Sweep
      <4> QED
        BY <1>1, <1>5, <1>6, <4>1, AsksTheSame DEF Settled
    <3> QED
      BY <1>1, <3>1, <3>2
  <2>9. /\ job'.pending \subseteq Meets(db, job'.cur.id, job'.dir, job'.types)
         /\ Near(db, job', job'.cur.id) \subseteq
              job'.visited \cup {Other(y, job'.cur.id) : y \in job'.pending}
    <3>1. job'.pending \subseteq Meets(db, job'.cur.id, job'.dir, job'.types)
      BY <1>1, <2>1, <2>2 DEF Asks
    <3>2. Near(db, job, job.cur.id) \subseteq
            job.visited \cup {Other(y, job.cur.id) : y \in job.pending}
      BY <1>1, <1>7 DEF Sweep
    <3>3. \A y \in job.pending : \/ Other(y, job.cur.id) \in job'.visited
                                 \/ y \in job'.pending
      BY <1>1, <2>1
    <3> QED
      BY <1>1, <3>1, <3>2, <3>3, AsksTheSame
  <2> QED
    BY <1>1, <2>5, <2>7, <2>8, <2>9 DEF Sweep
<1> QED
  BY <1>5, <1>7

-----------------------------------------------------------------------------
(***************************************************************************)
(* Traverse: what is reported.                                             *)
(***************************************************************************)
Traversing == {"neighbors", "related"}

\* Whatever is written, an entry is reported once.
Reports(l, j) ==
    /\ DistinctIds(j.results)
    /\ l \in Walking => /\ Frontier(l, j)
                        /\ Listed(j.results) \cup {j.start} \subseteq j.visited

\* While nothing is, all that is seen is reported, at its distance.
ReportsAll(l, j, d) ==
    /\ \A n \in DOMAIN j.results :
         AtDistance(d, j, j.results[n].id, j.results[n].depth)
    /\ l \in Walking => /\ Sweep(l, j, d)
                        /\ j.visited = Listed(j.results) \cup {j.start}
    /\ l \notin Walking => Listed(j.results) \cup {j.start} = Reach(d, j, j.depth)

Traversed ==
    job.kind \in Traversing =>
      Reports(pc, job) /\ (job.since = writes => ReportsAll(pc, job, db))

LEMMA TraversalBegins ==
    ASSUME Typed, HandleNeighbors \/ Related \/ HandlePath \/ RunPath
    PROVE  Traversed'
<1>1. PICK j : TracingJob(j)
  BY TracingAsks
<1>2. CASE job'.kind \notin Traversing
  BY <1>2 DEF Traversed
<1>3. CASE job'.kind \in Traversing
  <2> DEFINE m == Walk(j, j.start, 0)
  <2>1. IsJob(j) /\ j.start \in Ids /\ j.depth \in Nat \ {0} /\ j.visited = {}
    BY <1>1 DEF TracingJob, IsJob, Options
  <2>2. /\ Asks(m, j) /\ m.visited = {j.start} /\ m.results = j.results
        /\ m.queue = <<At(j.start, 0, 0, <<>>)>>
    BY <2>1, WalkBeginsWith
  <2>3. Goto("walk", m) /\ j.kind \in Traversing
    <3>1. j.kind \in Traversing
      BY <1>1, <1>3, <2>2 DEF TracingJob, Goto, Asks
    <3> QED
      BY <1>1, <3>1 DEF TracingJob, Traversing
  <2>4. j.results = <<>> \/ j.results = <<Found(j.start, 0, 0)>>
    BY <1>1, <2>3 DEF TracingJob, Traversing
  <2> HIDE DEF m
  <2>5. m.start = j.start /\ m.depth = j.depth
    BY <2>2 DEF Asks
  <2>6. \A d : Frontier("walk", m) /\ Sweep("walk", m, d)
    BY <2>1, <2>2, <2>5, WalkBeginsSweep
  <2>7. /\ DistinctIds(m.results)
        /\ \A n \in DOMAIN m.results :
             m.results[n].id = j.start /\ m.results[n].depth = 0
    <3>1. CASE j.results = <<>>
      BY <2>2, <3>1 DEF DistinctIds
    <3>2. CASE j.results = <<Found(j.start, 0, 0)>>
      <4>1. \A n \in DOMAIN m.results : n = 1 /\ m.results[n] = Found(j.start, 0, 0)
        BY <2>2, <3>2
      <4> QED
        BY <4>1 DEF DistinctIds, Found
    <3> QED
      BY <2>4, <3>1, <3>2
  <2>8. Listed(m.results) \cup {m.start} = m.visited
    BY <2>2, <2>5, <2>7 DEF Listed
  <2>9. \A d : AtDistance(d, m, j.start, 0)
    <3>1. \A d : Reach(d, m, 0) = {j.start}
      BY <2>5, WithinNone DEF Reach
    <3> QED
      BY <3>1 DEF AtDistance
  <2>10. Reports("walk", m) /\ \A d : ReportsAll("walk", m, d)
    BY <2>6, <2>7, <2>8, <2>9 DEF Reports, ReportsAll, Walking
  <2> QED
    BY <2>3, <2>10 DEF Goto, Traversed
<1> QED
  BY <1>2, <1>3

\* A step of a walk that reports nothing.
LEMMA ReportsAsBefore ==
    ASSUME Traversed, pc \in Walking, pc' \in Walking, UNCHANGED <<db, writes>>,
           Asks(job', job), job'.visited = job.visited, job'.results = job.results,
           Frontier(pc, job) => /\ Frontier(pc', job')
                                /\ Sweep(pc, job, db) => Sweep(pc', job', db)
    PROVE  Traversed'
<1> SUFFICES ASSUME job.kind \in Traversing PROVE Traversed'
  BY DEF Traversed, Asks
<1>1. Reports(pc, job)
  BY DEF Traversed
<1>2. Reports(pc', job')
  BY <1>1 DEF Reports, Asks
<1>3. ASSUME job'.since = writes' PROVE ReportsAll(pc', job', db)
  <2>1. ReportsAll(pc, job, db)
    BY <1>3 DEF Traversed, Asks
  <2>2. Sweep(pc', job', db)
    BY <1>1, <2>1 DEF ReportsAll, Reports
  <2>3. \A n \in DOMAIN job'.results :
          AtDistance(db, job', job'.results[n].id, job'.results[n].depth)
    BY <2>1, AsksTheSame DEF ReportsAll
  <2>4. job'.visited = Listed(job'.results) \cup {job'.start}
    BY <2>1 DEF ReportsAll, Asks
  <2> QED
    BY <2>2, <2>3, <2>4 DEF ReportsAll
<1> QED
  BY <1>2, <1>3 DEF Traversed

LEMMA AppendIsReported ==
    ASSUME NEW rs \in Seq(Result), NEW r \in Result, r.id \notin Listed(rs),
           DistinctIds(rs)
    PROVE  /\ DistinctIds(Append(rs, r))
           /\ Listed(Append(rs, r)) = Listed(rs) \cup {r.id}
           /\ \A n \in DOMAIN Append(rs, r) :
                Append(rs, r)[n] = r
                \/ (n \in DOMAIN rs /\ Append(rs, r)[n] = rs[n])
<1> DEFINE q == Append(rs, r)
<1>1. /\ DOMAIN q = 1..(Len(rs) + 1) /\ DOMAIN rs = 1..Len(rs)
      /\ Len(rs) \in Nat /\ q[Len(rs) + 1] = r
      /\ \A n \in DOMAIN rs : q[n] = rs[n]
  OBVIOUS
<1>2. /\ \A n \in DOMAIN q : n \in DOMAIN rs \/ n = Len(rs) + 1
      /\ DOMAIN rs \subseteq DOMAIN q /\ Len(rs) + 1 \in DOMAIN q
  BY <1>1
<1> HIDE DEF q
<1>3. Listed(q) = Listed(rs) \cup {r.id}
  BY <1>1, <1>2 DEF Listed
<1>4. \A n \in DOMAIN rs : rs[n].id # r.id
  BY DEF Listed
<1>5. DistinctIds(q)
  BY <1>1, <1>2, <1>4 DEF DistinctIds
<1> QED
  BY <1>1, <1>2, <1>3, <1>5 DEF q

LEMMA OneSeenReports ==
    ASSUME Typed, Traversed, Visit, NEW x \in Fresh, OneSeen(x),
           job.kind \in Traversing
    PROVE  Traversed'
<1> DEFINE peer == Other(x, job.cur.id)
           n == job.cur.depth + 1
           score == ExpansionScore(job.cur.score, x)
           r == Found(peer, score, n)
<1>1. /\ pc = "visit" /\ pc' = "visit" /\ UNCHANGED <<db, writes>>
      /\ Asks(job', job) /\ job'.visited = job.visited \cup {peer}
      /\ job.kind # "path" /\ peer \notin job.visited
      /\ \/ /\ Live(db, peer) /\ job'.results = Append(job.results, r)
            /\ job'.queue = Append(job.queue, At(peer, n, score, <<>>))
         \/ ~ Live(db, peer) /\ job'.results = job.results
  BY VisitMoves DEF OneSeen, Fresh, Traversing
<1>2. Reports(pc, job)
  BY DEF Traversed
<1>3. /\ Frontier(pc', job')
      /\ Sweep(pc, job, db) => Sweep(pc', job', db)
  BY <1>1, <1>2, OneSeenSweeps DEF Reports, Walking
<1>4. job.results \in Seq(Result) /\ job.cur \in Item
  BY <1>1, Remembered, WaitingFacts DEF IsJob, Lists, Walking
<1>5. x \in EdgeCopy /\ peer \in Ids
  BY Remembered, OtherIsAnId DEF Fresh, IsJob, Gathered
<1>6. r \in Result /\ r.id = peer /\ r.depth = n
  <2>1. score \in Nat /\ n \in Nat
    <3>1. job.cur.score \in Nat /\ job.cur.depth \in Nat
      BY <1>4 DEF Item
    <3> QED
      BY <1>5, <3>1, ExpansionScoreIsSmall
  <2> HIDE DEF score, n
  <2> QED
    BY <1>5, <2>1, FoundIsAResult DEF Found
<1> HIDE DEF r, score
<1>7. job'.results = job.results \/ job'.results = Append(job.results, r)
  BY <1>1
<1>8. peer \notin Listed(job.results)
  BY <1>1, <1>2 DEF Reports, Walking
<1>9. /\ DistinctIds(job'.results)
      /\ Listed(job'.results) \subseteq Listed(job.results) \cup {peer}
      /\ job'.results = Append(job.results, r) =>
           Listed(job'.results) = Listed(job.results) \cup {peer}
      /\ \A k \in DOMAIN job'.results :
           job'.results[k] = r
           \/ (k \in DOMAIN job.results /\ job'.results[k] = job.results[k])
  <2> DEFINE q == Append(job.results, r)
  <2>1. DistinctIds(job.results) /\ r.id \notin Listed(job.results)
    BY <1>2, <1>6, <1>8 DEF Reports
  <2>2. /\ DistinctIds(q) /\ Listed(q) = Listed(job.results) \cup {r.id}
        /\ \A k \in DOMAIN q :
             q[k] = r \/ (k \in DOMAIN job.results /\ q[k] = job.results[k])
    BY <1>4, <1>6, <2>1, AppendIsReported
  <2> HIDE DEF q
  <2>3. job'.results = job.results \/ job'.results = q
    BY <1>7 DEF q
  <2>4. Listed(q) = Listed(job.results) \cup {peer}
    BY <1>6, <2>2
  <2> QED
    BY <2>1, <2>2, <2>3, <2>4 DEF q
<1>10. Reports(pc', job')
  BY <1>1, <1>2, <1>3, <1>9 DEF Reports, Asks, Walking
<1>11. ASSUME job'.since = writes' PROVE ReportsAll(pc', job', db)
  <2>1. ReportsAll(pc, job, db)
    BY <1>1, <1>11 DEF Traversed, Asks
  <2>2. Sweep(pc, job, db) /\ job.visited = Listed(job.results) \cup {job.start}
    BY <1>1, <2>1 DEF ReportsAll, Walking
  <2>3. Live(db, peer) /\ AtDistance(db, job, peer, n)
    BY <1>1, <1>2, <2>2, FreshIsNext DEF Reports, Walking
  <2>4. job'.visited = Listed(job'.results) \cup {job'.start}
    BY <1>1, <1>9, <2>2, <2>3 DEF Asks
  <2>5. \A k \in DOMAIN job'.results :
          AtDistance(db, job, job'.results[k].id, job'.results[k].depth)
    BY <1>6, <1>9, <2>1, <2>3 DEF ReportsAll
  <2>6. \A k \in DOMAIN job'.results :
          AtDistance(db, job', job'.results[k].id, job'.results[k].depth)
    BY <1>1, <2>5, AsksTheSame
  <2> QED
    BY <1>1, <1>3, <2>2, <2>4, <2>6 DEF ReportsAll, Walking
<1> QED
  BY <1>1, <1>10, <1>11 DEF Traversed

\* What waits at the end lies at the depth limit: all nearer was seen.
LEMMA EndIsReached ==
    ASSUME Typed, pc = "walk", Expandable = <<>>, Frontier(pc, job),
           Sweep(pc, job, db)
    PROVE  job.visited = Reach(db, job, job.depth)
<1>1. /\ job.depth \in Nat /\ \A w \in Waiting(pc, job) : w.depth \in Nat
  BY WaitingFacts DEF Walking
<1>2. \A w \in Waiting(pc, job) : w.depth >= job.depth
  BY PoppedFacts DEF Waiting
<1>3. job.depth \in Nat \ {0} /\ job.depth \in 0..job.depth
  BY <1>1 DEF Frontier
<1>4. Reach(db, job, job.depth) \subseteq job.visited
  BY <1>1, <1>2, <1>3, NearerIsSeen
<1> QED
  BY <1>4 DEF Sweep

LEMMA WalksReport ==
    ASSUME Typed, Traversed, WalkOut \/ WalkIn \/ Visit \/ EndWalk,
           job.kind \in Traversing
    PROVE  Traversed'
<1>1. CASE WalkOut
  <2>1. /\ pc = "walk" /\ pc' \in Walking /\ UNCHANGED <<db, writes>>
        /\ Asks(job', job) /\ job'.visited = job.visited
        /\ job'.results = job.results
    BY <1>1, WalkOutMoves DEF Walking
  <2>2. Frontier(pc, job) => /\ Frontier(pc', job')
                             /\ Sweep(pc, job, db) => Sweep(pc', job', db)
    BY <1>1, WalkOutSweeps
  <2>3. pc \in Walking
    BY <2>1 DEF Walking
  <2> QED
    BY <2>1, <2>2, <2>3, ReportsAsBefore
<1>2. CASE WalkIn
  <2>1. /\ pc \in Walking /\ pc' \in Walking /\ UNCHANGED <<db, writes>>
        /\ Asks(job', job) /\ job'.visited = job.visited
        /\ job'.results = job.results
    BY <1>2, WalkInMoves DEF Walking
  <2>2. Frontier(pc, job) => /\ Frontier(pc', job')
                             /\ Sweep(pc, job, db) => Sweep(pc', job', db)
    BY <1>2, WalkInSweeps
  <2> QED
    BY <2>1, <2>2, ReportsAsBefore
<1>3. CASE Visit
  <2>1. /\ pc = "visit" /\ UNCHANGED <<db, writes>> /\ Asks(job', job)
        /\ AllSeen \/ \E x \in Fresh : FoundTarget(x) \/ OneSeen(x)
    BY <1>3, VisitMoves
  <2>2. CASE AllSeen
    <3>1. /\ pc \in Walking /\ pc' \in Walking
          /\ job'.visited = job.visited /\ job'.results = job.results
      BY <2>1, <2>2 DEF AllSeen, Walking
    <3>2. Frontier(pc, job) => /\ Frontier(pc', job')
                               /\ Sweep(pc, job, db) => Sweep(pc', job', db)
      BY <1>3, <2>2, AllSeenSweeps
    <3> QED
      BY <2>1, <3>1, <3>2, ReportsAsBefore
  <2>3. \A x \in Fresh : ~ FoundTarget(x)
    BY DEF FoundTarget, Traversing
  <2> QED
    BY <1>3, <2>1, <2>2, <2>3, OneSeenReports
<1>4. CASE EndWalk
  <2> DEFINE m == [job EXCEPT !.at = 1]
  <2>1. /\ pc = "walk" /\ Expandable = <<>> /\ Goto("enrich", m)
    BY <1>4 DEF EndWalk, Traversing
  <2>2. Asks(m, job) /\ m.results = job.results
    BY Remembered DEF Asks, Fields
  <2> HIDE DEF m
  <2>3. Reports(pc, job) /\ Frontier(pc, job)
    BY <2>1 DEF Traversed, Reports, Walking
  <2>4. Reports("enrich", m)
    BY <2>2, <2>3 DEF Reports, Walking
  <2>5. ASSUME job.since = writes PROVE ReportsAll("enrich", m, db)
    <3>1. ReportsAll(pc, job, db)
      BY <2>5 DEF Traversed
    <3>2. Sweep(pc, job, db) /\ job.visited = Listed(job.results) \cup {job.start}
      BY <2>1, <3>1 DEF ReportsAll, Walking
    <3>3. job.visited = Reach(db, job, job.depth)
      BY <2>1, <2>3, <3>2, EndIsReached
    <3>4. /\ Listed(m.results) \cup {m.start} = Reach(db, m, m.depth)
      BY <2>2, <3>2, <3>3, AsksTheSame DEF Asks
    <3>5. \A n \in DOMAIN m.results :
            AtDistance(db, m, m.results[n].id, m.results[n].depth)
      BY <2>2, <3>1, AsksTheSame DEF ReportsAll
    <3> QED
      BY <3>4, <3>5 DEF ReportsAll, Walking
  <2>6. m.since = job.since /\ m.kind = job.kind
    BY <2>2 DEF Asks
  <2> QED
    BY <2>1, <2>4, <2>5, <2>6 DEF Goto, Traversed
<1> QED
  BY <1>1, <1>2, <1>3, <1>4

\* After the walk the report stays, but for the marks.
SameReport(m, j) ==
    /\ Asks(m, j) /\ DOMAIN m.results = DOMAIN j.results
    /\ \A n \in DOMAIN j.results : /\ m.results[n].id = j.results[n].id
                                   /\ m.results[n].depth = j.results[n].depth

LEMMA ReportStays ==
    ASSUME Traversed, pc \notin Walking, pc' \notin Walking,
           UNCHANGED <<db, writes>>, SameReport(job', job)
    PROVE  Traversed'
<1>1. Listed(job'.results) = Listed(job.results)
  BY DEF SameReport, Listed
<1>2. Asks(job', job)
  BY DEF SameReport
<1> SUFFICES ASSUME job.kind \in Traversing PROVE Traversed'
  BY <1>2 DEF Traversed, Asks
<1>3. Reports(pc', job')
  BY DEF Traversed, Reports, SameReport, DistinctIds
<1>4. ASSUME job.since = writes PROVE ReportsAll(pc', job', db)
  <2>1. ReportsAll(pc, job, db)
    BY <1>4 DEF Traversed
  <2>2. \A n \in DOMAIN job'.results :
          AtDistance(db, job, job'.results[n].id, job'.results[n].depth)
    BY <2>1 DEF ReportsAll, SameReport
  <2>3. \A n \in DOMAIN job'.results :
          AtDistance(db, job', job'.results[n].id, job'.results[n].depth)
    BY <1>2, <2>2, AsksTheSame
  <2>4. Listed(job'.results) \cup {job'.start} = Reach(db, job', job'.depth)
    BY <1>1, <1>2, <2>1, AsksTheSame DEF ReportsAll, Asks
  <2> QED
    BY <2>3, <2>4 DEF ReportsAll
<1> QED
  BY <1>2, <1>3, <1>4 DEF Traversed, Asks

LEMMA AnsweringReports ==
    ASSUME Typed, Traversed, job.kind \in Traversing,
           Enrich \/ Enriched \/ Scan \/ ScanIn \/ MeshEdges
    PROVE  Traversed'
<1>1. /\ DOMAIN job = Fields /\ job.results \in Seq(Result)
      /\ job.at \in Nat \ {0}
  BY Remembered DEF IsJob, Lists
<1> DEFINE Stays(m) == Asks(m, job) /\ m.results = job.results
<1>2. \A m : Stays(m) => SameReport(m, job)
  BY DEF SameReport
<1>3. CASE Enrich
  <2> DEFINE b == \/ job.results[job.at].conflict
                  \/ FindConflicts(db, job.results[job.at].id) # {}
             rs == [job.results EXCEPT ![job.at].conflict = b]
             m == [job EXCEPT !.at = @ + 1, !.results = rs]
  <2>1. Goto("enrich", m) /\ pc = "enrich"
    BY <1>3 DEF Enrich
  <2>2. b \in BOOLEAN
    OBVIOUS
  <2>3. job.at \in DOMAIN job.results
    BY <1>1, <1>3 DEF Enrich
  <2> HIDE DEF b
  <2>4. /\ \A n \in DOMAIN job.results : /\ rs[n].id = job.results[n].id
                                         /\ rs[n].depth = job.results[n].depth
        /\ DOMAIN rs = DOMAIN job.results
    BY <1>1, <2>2, <2>3, MarkedResults
  <2> HIDE DEF rs
  <2>5. Asks(m, job) /\ m.results = rs
    BY <1>1 DEF Fields, Asks
  <2> HIDE DEF m
  <2>6. SameReport(m, job)
    BY <2>4, <2>5 DEF SameReport
  <2> QED
    BY <2>1, <2>6, ReportStays DEF Goto, Walking
<1>4. CASE Enriched
  <2>1. /\ pc = "enrich" /\ UNCHANGED <<db, writes>> /\ pc' \in {"done", "scan"}
        /\ job' = job \/ job' = [job EXCEPT !.todo = job.nodes]
    BY <1>4, EnrichedIs DEF Goto, Traversing, Expanding, TextPhase, HybridPhase
  <2>2. Stays(job')
    BY <1>1, <2>1 DEF Fields, Asks
  <2> HIDE DEF Stays
  <2>3. pc \notin Walking /\ pc' \notin Walking
    BY <2>1 DEF Walking
  <2> QED
    BY <1>2, <2>1, <2>2, <2>3, ReportStays
<1>5. CASE Scan
  <2>1. CASE job.todo = {} /\ Goto("done", job)
    <3>1. Stays(job')
      BY <2>1 DEF Goto, Asks
    <3> HIDE DEF Stays
    <3> QED
      BY <1>2, <1>5, <2>1, <3>1, ReportStays DEF Goto, Walking, Scan
  <2>2. ASSUME NEW i \in job.todo,
               Goto("scanIn", [[job EXCEPT !.cur = At(i, 0, 0, <<>>),
                                           !.todo = @ \ {i}]
                               EXCEPT !.pending = EdgesFrom(db, i)])
        PROVE  Traversed'
    <3> DEFINE j == [job EXCEPT !.cur = At(i, 0, 0, <<>>), !.todo = @ \ {i}]
               m == [j EXCEPT !.pending = EdgesFrom(db, i)]
    <3>1. Goto("scanIn", m)
      BY <2>2
    <3>2. DOMAIN j = Fields /\ Stays(j)
      BY <1>1 DEF Fields, Asks
    <3> HIDE DEF j
    <3>3. Stays(m)
      BY <3>2 DEF Fields, Asks
    <3> HIDE DEF m, Stays
    <3>4. SameReport(m, job)
      BY <1>2, <3>3
    <3> QED
      BY <1>5, <3>1, <3>4, ReportStays DEF Goto, Walking, Scan
  <2>3. job.kind \notin {"conflicts", "stats"}
    BY DEF Traversing
  <2> QED
    BY <1>5, <2>1, <2>2, <2>3 DEF Scan
<1>6. CASE ScanIn
  <2>1. /\ pc = "scanIn" /\ pc' \in {"conflicts", "peers"}
        /\ UNCHANGED <<db, writes>>
        /\ job' = [job EXCEPT !.pending = @ \cup EdgesTo(db, job.cur.id)]
    BY <1>6 DEF ScanIn, Goto
  <2>2. Stays(job')
    BY <1>1, <2>1 DEF Fields, Asks
  <2> HIDE DEF Stays
  <2>3. pc \notin Walking /\ pc' \notin Walking
    BY <2>1 DEF Walking
  <2> QED
    BY <1>2, <2>1, <2>2, <2>3, ReportStays
<1>7. CASE MeshEdges
  <2> DEFINE es == job.edges \cup {x \in job.pending :
                                     {x.from, x.to} \subseteq job.nodes}
  <2>1. /\ pc = "peers" /\ pc' = "scan" /\ UNCHANGED <<db, writes>>
        /\ job' = [job EXCEPT !.pending = {}, !.edges = es]
    BY <1>7 DEF MeshEdges, Goto
  <2> HIDE DEF es
  <2>2. Stays(job')
    BY <1>1, <2>1 DEF Fields, Asks
  <2> HIDE DEF Stays
  <2>3. pc \notin Walking /\ pc' \notin Walking
    BY <2>1 DEF Walking
  <2> QED
    BY <1>2, <2>1, <2>2, <2>3, ReportStays
<1> QED
  BY <1>3, <1>4, <1>5, <1>6, <1>7

\* No other request walks from one entry.
LEMMA OthersAsk ==
    ASSUME Typed, Ask, ~ (HandleNeighbors \/ Related \/ HandlePath \/ RunPath)
    PROVE  job'.kind \notin Tracing
<1>1. CASE \/ SearchVector \/ SearchText \/ HandleSearch \/ SearchHybrid
           \/ Recall \/ ResolveEntry
  <2>1. PICK j : Asking(j)
    BY <1>1, SearchesAsk
  <2>2. DOMAIN j = Fields /\ j.kind \in Searching
    BY <2>1 DEF Asking, IsJob, Searching, Expanding
  <2>3. \A l, q : [j EXCEPT !.phase = l, !.ranked = q].kind = j.kind
    BY <2>2 DEF Fields
  <2>4. job' = j \/ \E l, q : job' = [j EXCEPT !.phase = l, !.ranked = q]
    <3>1. CASE StartVector(j)
      BY <3>1 DEF StartVector, Goto
    <3>2. CASE StartText(j)
      BY <3>2 DEF StartText, Goto
    <3> QED
      BY <2>1, <3>1, <3>2 DEF Asking, Goto
  <2> QED
    BY <2>2, <2>3, <2>4 DEF Searching, Expanding, Tracing
<1>2. CASE \/ HandleGraph \/ DetectAllConflicts \/ HandleEntry
           \/ ShowByID \/ Stats
  <2>1. PICK kind \in Around \ {"neighbors"}, ids \in SUBSET Ids :
          /\ kind \in Kinds
          /\ Goto("scan", [New(kind) EXCEPT !.nodes = ids, !.todo = ids])
    BY <1>2, AroundRequests
  <2>2. DOMAIN New(kind) = Fields /\ New(kind).kind = kind
    BY <2>1, NewIsAJob
  <2>3. job'.kind = kind
    BY <2>1, <2>2 DEF Goto, Fields
  <2> QED
    BY <2>3 DEF Around, Tracing
<1>3. CASE RecallByScope
  <2>1. PICK j : Listing(j)
    BY <1>3, ScopeAsks
  <2> QED
    BY <2>1 DEF Listing, Goto, Tracing
<1> QED
  BY <1>1, <1>2, <1>3 DEF Ask

\* What serves a request that walks from one entry.
LEMMA TracingIsServed ==
    ASSUME Typed, Serve, job.kind \in Tracing
    PROVE  \/ WalkOut \/ WalkIn \/ Visit \/ EndWalk \/ Finish
           \/ /\ job.kind \in Traversing
              /\ Enrich \/ Enriched \/ Scan \/ ScanIn \/ MeshEdges
           \/ job.kind = "path" /\ (PathTo \/ Build)
<1>1. Expected(pc, job)
  BY Remembered
<1>2. pc \notin {"conflicts", "fetch", "supersede", "match", "list"}
  BY <1>1 DEF Expected, VectorPhase, TextPhase, HybridPhase, Tracing, Expanding
<1>3. ~ (EntryConflicts \/ Fetch \/ Match \/ Supersede \/ Superseded \/ SearchByText)
  BY <1>2 DEF EntryConflicts, Fetch, Match, Supersede, Superseded, SearchByText
<1>4. ~ (ShowEdges \/ GraphPeers \/ LookUpPeers)
  BY DEF ShowEdges, GraphPeers, LookUpPeers, Tracing
<1>5. ~ ExpandFromEntry
  <2>1. pc = "walk" => job.seeds = <<>>
    BY <1>1 DEF Expected, Tracks, HybridPhase, Tracing, Expanding
  <2> QED
    BY <2>1 DEF ExpandFromEntry
<1>6. CASE job.kind \in Traversing
  <2>1. pc \notin {"pathTo", "build"}
    BY <1>1, <1>6 DEF Expected, Traversing
  <2> QED
    BY <1>3, <1>4, <1>5, <1>6, <2>1 DEF Serve, PathTo, Build
<1>7. CASE job.kind = "path"
  <2>1. pc \notin {"scan", "scanIn", "peers", "enrich"}
    BY <1>1, <1>7
    DEF Expected, Around, VectorPhase, TextPhase, HybridPhase, Expanding
  <2>2. ~ (Enrich \/ Enriched \/ Scan \/ ScanIn \/ MeshEdges)
    BY <2>1 DEF Enrich, Enriched, Scan, ScanIn, MeshEdges
  <2> QED
    BY <1>3, <1>4, <1>5, <1>7, <2>2 DEF Serve
<1> QED
  BY <1>6, <1>7 DEF Tracing, Traversing

LEMMA WritesAreHeard ==
    ASSUME Typed, Delete \/ Link \/ Unlink
    PROVE  pc' = pc /\ job' = job /\ job'.since # writes'
<1>1. writes' = writes + 1 /\ pc' = pc /\ job' = job
  BY DEF Delete, Link, Unlink, Write
<1>2. job.since <= writes /\ job.since \in Nat /\ writes \in Nat
  BY Remembered, WritesAreCounted DEF IsJob, Options
<1> QED
  BY <1>1, <1>2

LEMMA NextTraverses == ASSUME Typed, Traversed, [Next]_vars PROVE Traversed'
<1>1. CASE HandleNeighbors \/ Related \/ HandlePath \/ RunPath
  BY <1>1, TraversalBegins
<1>2. CASE Ask /\ ~ (HandleNeighbors \/ Related \/ HandlePath \/ RunPath)
  BY <1>2, OthersAsk DEF Traversed, Tracing, Traversing
<1>3. CASE Serve /\ job.kind \notin Traversing
  BY <1>3, KeepsKind DEF NoJob, Traversed, Traversing
<1>4. CASE Serve /\ job.kind \in Traversing
  <2>1. CASE Finish
    BY <2>1 DEF Finish, Goto, NoJob, Traversed, Traversing
  <2>2. job.kind \in Tracing /\ job.kind # "path"
    BY <1>4 DEF Tracing, Traversing
  <2> QED
    BY <1>4, <2>1, <2>2, TracingIsServed, WalksReport, AnsweringReports
<1>5. CASE Delete \/ Link \/ Unlink
  <2>1. pc' = pc /\ job' = job /\ job'.since # writes'
    BY <1>5, WritesAreHeard
  <2> QED
    BY <2>1 DEF Traversed
<1>6. CASE UNCHANGED vars
  BY <1>6 DEF vars, Traversed
<1> QED
  BY <1>1, <1>2, <1>3, <1>4, <1>5, <1>6 DEF Next

\* Traverse reports each entry once; one that nothing disturbs reports what
\* lies within the depth, each at its distance from the start.
THEOREM TraversalsAreExact == Spec => []TraversalIsExact
<1>1. Init => Typed /\ Traversed
  BY InitTyped DEF Init, NoJob, Traversed, Traversing
<1>2. Typed /\ Traversed /\ [Next]_vars => (Typed /\ Traversed)'
  BY NextTyped, NextTraverses
<1>3. ASSUME Typed, Traversed PROVE TraversalIsExact
  <2> SUFFICES ASSUME Answered(Traversing) PROVE TraversalIsExact
    BY DEF TraversalIsExact, Answered, Traversing
  <2>1. Reports("done", job) /\ (Quiet => ReportsAll("done", job, db))
    BY <1>3 DEF Traversed, Answered, Quiet
  <2>2. job.results \in Seq(Result)
    BY <1>3, Remembered DEF IsJob, Lists
  <2>3. NoDuplicates(job.results)
    BY <2>1, <2>2, DistinctIsNoDuplicates DEF Reports
  <2>4. Quiet => Listed(job.results) \cup {job.start} = Reach(db, job, job.depth)
    BY <2>1 DEF ReportsAll, Walking
  <2>5. ASSUME Quiet, NEW n \in DOMAIN job.results,
               job.results[n].id # job.start
        PROVE  job.results[n].id \notin Reach(db, job, job.results[n].depth - 1)
    <3> DEFINE r == job.results[n]
    <3>1. AtDistance(db, job, r.id, r.depth)
      BY <2>1, <2>5 DEF ReportsAll
    <3>2. r.depth \in Nat
      <4>1. r \in Result
        BY <2>2
      <4> QED
        BY <4>1 DEF Result
    <3> HIDE DEF r
    <3>3. Reach(db, job, 0) = {job.start}
      BY WithinNone DEF Reach
    <3>4. r.depth # 0
      BY <2>5, <3>1, <3>3 DEF AtDistance, r
    <3>5. r.depth - 1 \in 0..(r.depth - 1)
      BY <3>2, <3>4
    <3> QED
      BY <3>1, <3>5 DEF AtDistance, r
  <2> QED
    BY <2>3, <2>4, <2>5 DEF TraversalIsExact, Reach
<1> QED
  BY <1>1, <1>2, <1>3, PTL DEF Spec

-----------------------------------------------------------------------------
(***************************************************************************)
(* FindPath: where the edges lead.                                         *)
(***************************************************************************)
\* Along these edges from i to k, in whichever direction each of them goes.
Leads(path, i, k) ==
    \E p \in [0..Len(path) -> Ids] :
      /\ p[0] = i /\ p[Len(path)] = k
      /\ \A n \in 1..Len(path) : {p[n - 1], p[n]} = {path[n].from, path[n].to}

LEMMA LeadsNowhere == ASSUME NEW i \in Ids PROVE Leads(<<>>, i, i)
<1> DEFINE p == [n \in 0..0 |-> i]
<1>1. p \in [0..0 -> Ids] /\ p[0] = i /\ 1..0 = {}
  OBVIOUS
<1> QED
  BY <1>1 DEF Leads

LEMMA LeadsOn ==
    ASSUME NEW path \in Seq(EdgeCopy), NEW i, NEW k, NEW x \in EdgeCopy,
           Leads(path, i, k), k \in {x.from, x.to}
    PROVE  /\ Leads(Append(path, x), i, Other(x, k))
           /\ Len(Append(path, x)) = Len(path) + 1
<1> DEFINE L == Len(path)
           q == Append(path, x)
           peer == Other(x, k)
<1>1. /\ L \in Nat /\ Len(q) = L + 1 /\ q[L + 1] = x
      /\ \A n \in 1..L : q[n] = path[n]
  OBVIOUS
<1>2. peer \in Ids /\ {k, peer} = {x.from, x.to}
  BY OtherIsAnId DEF Other
<1>3. PICK p \in [0..L -> Ids] :
        /\ p[0] = i /\ p[L] = k
        /\ \A n \in 1..L : {p[n - 1], p[n]} = {path[n].from, path[n].to}
  BY DEF Leads
<1> DEFINE r == [n \in 0..(L + 1) |-> IF n = L + 1 THEN peer ELSE p[n]]
<1> HIDE DEF q, peer
<1>4. /\ r \in [0..(L + 1) -> Ids] /\ r[0] = i /\ r[L + 1] = peer /\ r[L] = k
      /\ \A n \in 0..L : r[n] = p[n]
  BY <1>1, <1>2, <1>3
<1>5. ASSUME NEW n \in 1..(L + 1)
      PROVE  {r[n - 1], r[n]} = {q[n].from, q[n].to}
  <2>1. CASE n = L + 1
    <3>1. n - 1 = L
      BY <1>1, <2>1
    <3> HIDE DEF r
    <3> QED
      BY <1>1, <1>2, <1>4, <2>1, <3>1
  <2>2. CASE n # L + 1
    <3>1. n \in 1..L /\ n \in 0..L /\ n - 1 \in 0..L
      BY <1>1, <2>2
    <3> HIDE DEF r
    <3> QED
      BY <1>1, <1>3, <1>4, <3>1
  <2> QED
    BY <2>1, <2>2
<1> HIDE DEF r
<1>6. Leads(q, i, peer)
  BY <1>1, <1>4, <1>5 DEF Leads
<1> QED
  BY <1>1, <1>6 DEF q, peer

\* The places that PathIsShortest follows are those.
Follows(f, path, i) ==
    f = [n \in 0..Len(path) |-> IF n = 0 THEN i ELSE Other(path[n], f[n - 1])]

LEMMA LeadsAlong ==
    ASSUME NEW path \in Seq(EdgeCopy), NEW i, NEW k, Leads(path, i, k)
    PROVE  /\ \E f : Follows(f, path, i)
           /\ \A f : Follows(f, path, i) =>
                /\ f[Len(path)] = k
                /\ \A n \in 1..Len(path) :
                     f[n - 1] \in {path[n].from, path[n].to}
<1> DEFINE L == Len(path)
<1>1. L \in Nat
  OBVIOUS
<1>2. PICK p \in [0..L -> Ids] :
        /\ p[0] = i /\ p[L] = k
        /\ \A n \in 1..L : {p[n - 1], p[n]} = {path[n].from, path[n].to}
  BY DEF Leads
<1>3. \A n \in 1..L : p[n] = Other(path[n], p[n - 1])
  BY <1>2 DEF Other
<1>4. Follows(p, path, i)
  <2>1. \A n \in 0..L : p[n] = IF n = 0 THEN i ELSE Other(path[n], p[n - 1])
    BY <1>1, <1>2, <1>3
  <2>2. p = [n \in 0..L |-> p[n]]
    BY <1>2
  <2> QED
    BY <2>1, <2>2 DEF Follows
<1>5. ASSUME NEW f, Follows(f, path, i)
      PROVE  /\ f[L] = k
             /\ \A n \in 1..L : f[n - 1] \in {path[n].from, path[n].to}
  <2>1. f[0] = i /\ \A n \in 1..L : f[n] = Other(path[n], f[n - 1])
    BY <1>1, <1>5 DEF Follows
  <2> DEFINE T == {n \in 0..L : f[n] # p[n]}
  <2>2. CASE T # {}
    <3>1. T \in SUBSET Nat
      OBVIOUS
    <3>2. PICK m \in T : \A n \in T : m <= n
      BY <2>2, <3>1, LeastNatural
    <3>3. m \in 0..L /\ f[m] # p[m] /\ m # 0
      BY <1>2, <2>1
    <3>4. m \in 1..L /\ m - 1 \in 0..L /\ m - 1 \notin T
      BY <1>1, <3>2, <3>3
    <3>5. f[m - 1] = p[m - 1]
      BY <3>4
    <3> QED
      BY <1>3, <2>1, <3>3, <3>4, <3>5
  <2>3. CASE T = {}
    <3>1. \A n \in 0..L : f[n] = p[n]
      BY <2>3
    <3>2. L \in 0..L /\ \A n \in 1..L : n - 1 \in 0..L
      BY <1>1
    <3> QED
      BY <1>2, <3>1, <3>2
  <2> QED
    BY <2>2, <2>3
<1> QED
  BY <1>4, <1>5

\* Whatever is written, a path leads from the start on.
Searches(l, j) ==
    /\ j.dir = "both" /\ j.types = {} /\ j.depth > 0
    /\ l = "pathTo" => j.visited = {}
    /\ l \in {"pathTo"} \cup Walking => j.path = <<>>
    /\ l \in Walking =>
         /\ Frontier(l, j)
         /\ \A it \in Waiting(l, j) : /\ Len(it.path) = it.depth
                                      /\ Leads(it.path, j.start, it.id)
    /\ l \in {"walkIn", "visit"} => \A x \in j.pending : j.cur.id \in {x.from, x.to}
    /\ l = "build" => j.path # <<>>
    /\ j.path # <<>> => /\ Leads(j.path, j.start, j.target)
                        /\ Len(j.path) <= j.depth

\* While nothing is, no other one is shorter, and the target is not passed.
FindsNearest(l, j, d) ==
    /\ l \in Walking => /\ Sweep(l, j, d)
                        /\ j.target \in j.visited => j.target = j.start
    /\ j.path # <<>> => AtDistance(d, j, j.target, Len(j.path))
    /\ l = "done" /\ j.path = <<>> =>
         j.target = j.start \/ j.target \notin Reach(d, j, j.depth)

Sought ==
    job.kind = "path" =>
      Searches(pc, job) /\ (job.since = writes => FindsNearest(pc, job, db))

LEMMA WalkBeginsSearch ==
    ASSUME NEW m, NEW d, m.start \in Ids, m.depth \in Nat \ {0},
           m.visited = {m.start}, m.queue = <<At(m.start, 0, 0, <<>>)>>,
           m.dir = "both", m.types = {}, m.path = <<>>
    PROVE  Searches("walk", m) /\ FindsNearest("walk", m, d)
<1> DEFINE it == At(m.start, 0, 0, <<>>)
<1>1. it.id = m.start /\ it.depth = 0 /\ it.path = <<>>
  BY DEF At
<1>2. m.queue = <<it>>
  OBVIOUS
<1> HIDE DEF it
<1>3. Waiting("walk", m) = {it}
  BY <1>2 DEF Waiting
<1>4. Frontier("walk", m) /\ Sweep("walk", m, d)
  BY WalkBeginsSweep
<1>5. Len(it.path) = it.depth /\ Leads(it.path, m.start, it.id)
  BY <1>1, LeadsNowhere
<1> QED
  BY <1>3, <1>4, <1>5 DEF Searches, FindsNearest, Walking

LEMMA SearchForPathBegins ==
    ASSUME Typed, HandleNeighbors \/ Related \/ HandlePath \/ RunPath
    PROVE  Sought'
<1>1. PICK j : TracingJob(j)
  BY TracingAsks
<1>2. CASE job'.kind # "path"
  BY <1>2 DEF Sought
<1>3. CASE Goto("walk", Walk(j, j.start, 0)) /\ job'.kind = "path"
  <2> DEFINE m == Walk(j, j.start, 0)
  <2>1. /\ IsJob(j) /\ j.start \in Ids /\ j.depth \in Nat \ {0}
        /\ j.visited = {} /\ j.path = <<>>
    BY <1>1 DEF TracingJob, IsJob, Options
  <2>2. /\ Asks(m, j) /\ m.visited = {j.start} /\ m.path = j.path
        /\ m.queue = <<At(j.start, 0, 0, <<>>)>>
    BY <2>1, WalkBeginsWith
  <2>3. Goto("walk", m)
    BY <1>3
  <2> HIDE DEF m
  <2>4. j.kind = "path"
    BY <1>3, <2>2, <2>3 DEF Goto, Asks
  <2>5. /\ m.start = j.start /\ m.depth = j.depth /\ m.dir = "both"
        /\ m.types = {} /\ m.path = <<>>
    BY <1>1, <2>1, <2>2, <2>4 DEF Asks, TracingJob
  <2>6. Searches("walk", m) /\ \A d : FindsNearest("walk", m, d)
    BY <2>1, <2>2, <2>5, WalkBeginsSearch
  <2> QED
    BY <2>3, <2>6 DEF Goto, Sought
<1>4. CASE j.kind = "path" /\ Goto("pathTo", j)
  <2>1. Searches("pathTo", j)
    BY <1>1, <1>4 DEF TracingJob, Searches, Walking
  <2>2. \A d : FindsNearest("pathTo", j, d)
    BY <1>1 DEF TracingJob, FindsNearest, Walking
  <2> QED
    BY <1>4, <2>1, <2>2 DEF Goto, Sought
<1> QED
  BY <1>1, <1>2, <1>3, <1>4 DEF TracingJob

\* What a walk follows touches the entry that it is at.
LEMMA PendingTouches ==
    ASSUME Typed, WalkOut \/ WalkIn,
           pc = "walkIn" => \A x \in job.pending : job.cur.id \in {x.from, x.to}
    PROVE  \A x \in job'.pending : job'.cur.id \in {x.from, x.to}
<1>1. db \in Database
  BY Remembered
<1>2. \A i : /\ \A x \in OfTypes(EdgesFrom(db, i), job.types) : x.from = i
             /\ \A x \in OfTypes(EdgesTo(db, i), job.types) : x.to = i
  BY <1>1, CopiesAreEdges DEF OfTypes
<1>3. CASE WalkOut
  <2>1. \/ job'.pending = OfTypes(EdgesFrom(db, job'.cur.id), job.types)
        \/ job'.pending = OfTypes(EdgesTo(db, job'.cur.id), job.types)
    BY <1>3, WalkOutMoves
  <2> QED
    BY <1>2, <2>1
<1>4. CASE WalkIn
  <2>1. /\ pc = "walkIn" /\ job'.cur = job.cur
        /\ job'.pending = job.pending
             \cup OfTypes(EdgesTo(db, job.cur.id), job.types)
    BY <1>4, WalkInMoves
  <2> QED
    BY <1>2, <2>1
<1> QED
  BY <1>3, <1>4

\* A step of a walk that sees nothing new.
LEMMA SearchesAsBefore ==
    ASSUME Sought, pc \in Walking, pc' \in Walking, UNCHANGED <<db, writes>>,
           Asks(job', job), job'.visited = job.visited, job'.path = job.path,
           Waiting(pc', job') \subseteq Waiting(pc, job),
           pc' \in {"walkIn", "visit"} =>
             \A x \in job'.pending : job'.cur.id \in {x.from, x.to},
           Frontier(pc, job) => /\ Frontier(pc', job')
                                /\ Sweep(pc, job, db) => Sweep(pc', job', db)
    PROVE  Sought'
<1> SUFFICES ASSUME job.kind = "path" PROVE Sought'
  BY DEF Sought, Asks
<1>1. /\ Searches(pc, job) /\ Frontier(pc, job) /\ job.path = <<>>
      /\ \A it \in Waiting(pc, job) : /\ Len(it.path) = it.depth
                                      /\ Leads(it.path, job.start, it.id)
  BY DEF Sought, Searches
<1>2. pc' \notin {"pathTo", "build"}
  BY DEF Walking
<1>3. Searches(pc', job')
  <2>1. /\ job'.dir = "both" /\ job'.types = {} /\ job'.depth > 0
        /\ job'.start = job.start
    BY <1>1 DEF Searches, Asks
  <2> QED
    BY <1>1, <1>2, <2>1 DEF Searches
<1>4. ASSUME job.since = writes PROVE FindsNearest(pc', job', db)
  <2>1. FindsNearest(pc, job, db)
    BY <1>4 DEF Sought
  <2> QED
    BY <1>1, <2>1 DEF FindsNearest, Asks, Walking
<1> QED
  BY <1>3, <1>4 DEF Sought, Asks

\* The entry that is seen now, and the path to it.
LEMMA NextIsLed ==
    ASSUME Typed, Sought, Visit, job.kind = "path", NEW x \in Fresh
    PROVE  LET path == Append(job.cur.path, x)
           IN  /\ Leads(path, job.start, Other(x, job.cur.id))
               /\ Len(path) = job.cur.depth + 1 /\ path # <<>>
               /\ job.cur.depth \in Nat /\ job.cur.depth + 1 <= job.depth
               /\ path \in Seq(EdgeCopy)
<1>1. pc = "visit"
  BY VisitMoves
<1>2. job.cur \in Item /\ job.cur \in Waiting(pc, job) /\ job.depth \in Nat
  BY <1>1, WaitingFacts DEF Walking, Waiting
<1>3. job.cur.path \in Seq(EdgeCopy) /\ job.cur.depth \in Nat
  BY <1>2 DEF Item
<1>4. /\ Len(job.cur.path) = job.cur.depth
      /\ Leads(job.cur.path, job.start, job.cur.id)
      /\ job.cur.depth < job.depth
      /\ \A y \in job.pending : job.cur.id \in {y.from, y.to}
  BY <1>1, <1>2 DEF Sought, Searches, Frontier, Walking
<1>5. x \in EdgeCopy /\ job.cur.id \in {x.from, x.to}
  BY <1>4, Remembered DEF Fresh, IsJob, Gathered
<1> DEFINE path == Append(job.cur.path, x)
<1>6. path \in Seq(EdgeCopy)
  BY <1>3, <1>5
<1>7. /\ Leads(path, job.start, Other(x, job.cur.id))
      /\ Len(path) = Len(job.cur.path) + 1
  BY <1>3, <1>4, <1>5, LeadsOn
<1> HIDE DEF path
<1>8. path # <<>>
  <2>1. Len(path) # 0
    BY <1>3, <1>4, <1>7
  <2> QED
    BY <2>1
<1> QED
  BY <1>2, <1>3, <1>4, <1>6, <1>7, <1>8 DEF path

LEMMA OneSeenSearches ==
    ASSUME Typed, Sought, Visit, NEW x \in Fresh, OneSeen(x), job.kind = "path"
    PROVE  Sought'
<1> DEFINE peer == Other(x, job.cur.id)
           n == job.cur.depth + 1
           path == Append(job.cur.path, x)
           it == At(peer, n, 0, path)
<1>1. /\ pc = "visit" /\ pc' = "visit" /\ UNCHANGED <<db, writes>>
      /\ Asks(job', job) /\ job'.visited = job.visited \cup {peer}
      /\ job'.cur = job.cur /\ job'.path = job.path
      /\ peer # job.target /\ job'.pending \subseteq job.pending
      /\ job'.queue = Append(job.queue, it)
  BY VisitMoves DEF OneSeen, Fresh
<1>2. it.id = peer /\ it.depth = n /\ it.path = path
  BY DEF At
<1>3. Leads(path, job.start, peer) /\ Len(path) = n
  BY NextIsLed
<1> HIDE DEF it, path, peer
<1>4. /\ Searches(pc, job) /\ Frontier(pc, job) /\ job.path = <<>>
      /\ \A w \in Waiting(pc, job) : /\ Len(w.path) = w.depth
                                     /\ Leads(w.path, job.start, w.id)
      /\ \A y \in job.pending : job.cur.id \in {y.from, y.to}
  BY <1>1 DEF Sought, Searches, Walking
<1>5. /\ Frontier(pc', job')
      /\ Sweep(pc, job, db) => Sweep(pc', job', db)
  BY <1>4, OneSeenSweeps
<1>6. Waiting(pc', job') \subseteq Waiting(pc, job) \cup {it}
  <2>1. job.queue \in Seq(Item) /\ job.cur \in Item /\ job.depth \in Nat
    BY <1>1, WaitingFacts DEF Walking
  <2>2. Frontier("visit", job)
    BY <1>1, <1>4
  <2>3. Waiting("visit", job') \subseteq Waiting("visit", job) \cup {it}
    BY <1>1, <1>2, <2>1, <2>2, QueueGrows
  <2> QED
    BY <1>1, <2>3
<1>7. /\ job'.dir = "both" /\ job'.types = {} /\ job'.depth > 0
      /\ job'.start = job.start /\ job'.target = job.target
      /\ job'.kind = "path" /\ job'.since = job.since
  BY <1>1, <1>4 DEF Searches, Asks
<1>8. \A w \in Waiting(pc', job') : /\ Len(w.path) = w.depth
                                    /\ Leads(w.path, job'.start, w.id)
  BY <1>2, <1>3, <1>4, <1>6, <1>7
<1>9. Searches(pc', job')
  BY <1>1, <1>4, <1>5, <1>7, <1>8 DEF Searches
<1>10. ASSUME job.since = writes PROVE FindsNearest(pc', job', db)
  <2>1. FindsNearest(pc, job, db)
    BY <1>10 DEF Sought
  <2>2. Sweep(pc, job, db) /\ (job.target \in job.visited => job.target = job.start)
    BY <1>1, <2>1 DEF FindsNearest, Walking
  <2>3. job'.target \in job'.visited => job'.target = job'.start
    BY <1>1, <1>7, <2>2
  <2> QED
    BY <1>1, <1>4, <1>5, <2>2, <2>3 DEF FindsNearest
<1> QED
  BY <1>1, <1>7, <1>9, <1>10 DEF Sought

LEMMA TargetIsFound ==
    ASSUME Typed, Sought, Visit, NEW x \in Fresh, FoundTarget(x)
    PROVE  Sought'
<1> DEFINE path == Append(job.cur.path, x)
<1>1. /\ pc = "visit" /\ pc' = "build" /\ UNCHANGED <<db, writes>>
      /\ Asks(job', job) /\ job.kind = "path" /\ job'.path = path
      /\ Other(x, job.cur.id) = job.target
  BY VisitMoves DEF FoundTarget
<1>2. /\ Leads(path, job.start, job.target) /\ path # <<>>
      /\ Len(path) = job.cur.depth + 1 /\ Len(path) <= job.depth
  BY <1>1, NextIsLed
<1> HIDE DEF path
<1>3. Searches(pc, job) /\ Frontier(pc, job)
  BY <1>1 DEF Sought, Searches, Walking
<1>4. Searches(pc', job')
  BY <1>1, <1>2, <1>3 DEF Searches, Asks, Walking
<1>5. ASSUME job.since = writes PROVE FindsNearest(pc', job', db)
  <2>1. Sweep(pc, job, db)
    BY <1>1, <1>5 DEF Sought, FindsNearest, Walking
  <2>2. AtDistance(db, job, job.target, Len(path))
    BY <1>1, <1>2, <1>3, <2>1, FreshIsNext
  <2>3. AtDistance(db, job', job'.target, Len(job'.path))
    BY <1>1, <2>2, AsksTheSame DEF Asks
  <2> QED
    BY <1>1, <2>3 DEF FindsNearest, Walking
<1> QED
  BY <1>1, <1>4, <1>5 DEF Sought, Asks

LEMMA WalksSearch ==
    ASSUME Typed, Sought, WalkOut \/ WalkIn \/ Visit \/ EndWalk,
           job.kind = "path"
    PROVE  Sought'
<1>1. CASE WalkOut
  <2>1. /\ pc = "walk" /\ pc' \in Walking /\ UNCHANGED <<db, writes>>
        /\ Asks(job', job) /\ job'.visited = job.visited
        /\ job'.path = job.path /\ pc' # "walk" /\ Expandable # <<>>
        /\ job'.cur = Head(Expandable) /\ job'.queue = Tail(Expandable)
    BY <1>1, WalkOutMoves DEF Walking
  <2>2. Waiting(pc', job') \subseteq Waiting(pc, job)
    <3> DEFINE first == Head(Expandable)
               rest == Tail(Expandable)
    <3>1. /\ \E n \in DOMAIN job.queue : first = job.queue[n]
          /\ \A k \in DOMAIN rest : \E n \in DOMAIN job.queue :
               rest[k] = job.queue[n]
      BY <2>1, PoppedFacts
    <3> HIDE DEF first, rest
    <3> QED
      BY <2>1, <3>1 DEF Waiting, first, rest
  <2>3. Frontier(pc, job) => /\ Frontier(pc', job')
                             /\ Sweep(pc, job, db) => Sweep(pc', job', db)
    BY <1>1, WalkOutSweeps
  <2>4. \A x \in job'.pending : job'.cur.id \in {x.from, x.to}
    BY <1>1, <2>1, PendingTouches
  <2>5. pc \in Walking
    BY <2>1 DEF Walking
  <2> QED
    BY <2>1, <2>2, <2>3, <2>4, <2>5, SearchesAsBefore
<1>2. CASE WalkIn
  <2>1. /\ pc = "walkIn" /\ pc \in Walking /\ pc' \in Walking
        /\ UNCHANGED <<db, writes>> /\ Asks(job', job)
        /\ job'.visited = job.visited /\ job'.path = job.path
        /\ Waiting(pc', job') = Waiting(pc, job)
    BY <1>2, WalkInMoves DEF Walking, Waiting
  <2>2. Frontier(pc, job) => /\ Frontier(pc', job')
                             /\ Sweep(pc, job, db) => Sweep(pc', job', db)
    BY <1>2, WalkInSweeps
  <2>3. \A x \in job.pending : job.cur.id \in {x.from, x.to}
    BY <2>1 DEF Sought, Searches
  <2>4. \A x \in job'.pending : job'.cur.id \in {x.from, x.to}
    BY <1>2, <2>3, PendingTouches
  <2> QED
    BY <2>1, <2>2, <2>4, SearchesAsBefore
<1>3. CASE Visit
  <2>1. /\ pc = "visit" /\ UNCHANGED <<db, writes>> /\ Asks(job', job)
        /\ AllSeen \/ \E x \in Fresh : FoundTarget(x) \/ OneSeen(x)
    BY <1>3, VisitMoves
  <2>2. CASE AllSeen
    <3>1. /\ pc \in Walking /\ pc' \in Walking /\ pc' = "walk"
          /\ job'.visited = job.visited /\ job'.path = job.path
          /\ Waiting(pc', job') \subseteq Waiting(pc, job)
      BY <2>1, <2>2 DEF AllSeen, Walking, Waiting
    <3>2. Frontier(pc, job) => /\ Frontier(pc', job')
                               /\ Sweep(pc, job, db) => Sweep(pc', job', db)
      BY <1>3, <2>2, AllSeenSweeps
    <3> QED
      BY <2>1, <3>1, <3>2, SearchesAsBefore
  <2> QED
    BY <1>3, <2>1, <2>2, OneSeenSearches, TargetIsFound
<1>4. CASE EndWalk
  <2>1. /\ pc = "walk" /\ Expandable = <<>> /\ Goto("done", job)
    BY <1>4 DEF EndWalk
  <2>2. Searches("walk", job) /\ Frontier(pc, job) /\ job.path = <<>>
    BY <2>1 DEF Sought, Searches, Walking
  <2>3. Searches("done", job)
    BY <2>2 DEF Searches, Walking
  <2>4. ASSUME job.since = writes PROVE FindsNearest("done", job, db)
    <3>1. Sweep(pc, job, db) /\ (job.target \in job.visited => job.target = job.start)
      BY <2>1, <2>4 DEF Sought, FindsNearest, Walking
    <3>2. job.visited = Reach(db, job, job.depth)
      BY <2>1, <2>2, <3>1, EndIsReached
    <3> QED
      BY <2>2, <3>1, <3>2 DEF FindsNearest, Walking
  <2> QED
    BY <2>1, <2>3, <2>4 DEF Goto, Sought
<1> QED
  BY <1>1, <1>2, <1>3, <1>4

LEMMA PathToSearches ==
    ASSUME Typed, Sought, PathTo PROVE Sought'
<1>1. pc = "pathTo" /\ IsJob(job) /\ job.kind = "path" /\ job.start \in Ids
      /\ job.depth \in Nat
  BY Remembered DEF PathTo, Expected, Tracing, IsJob, Options
<1>2. CASE ~ Live(db, job.target)
  BY <1>2 DEF PathTo, Goto, NoJob, Sought
<1>3. CASE Live(db, job.target)
  <2> DEFINE m == Walk(job, job.start, 0)
  <2>1. Goto("walk", m)
    BY <1>3 DEF PathTo
  <2>2. Searches("pathTo", job)
    BY <1>1 DEF Sought
  <2>3. /\ job.visited = {} /\ job.path = <<>> /\ job.depth > 0
        /\ job.dir = "both" /\ job.types = {}
    BY <2>2 DEF Searches
  <2>4. /\ Asks(m, job) /\ m.visited = {job.start} /\ m.path = job.path
        /\ m.queue = <<At(job.start, 0, 0, <<>>)>>
    BY <1>1, <2>3, WalkBeginsWith
  <2> HIDE DEF m
  <2>5. /\ m.start = job.start /\ m.depth = job.depth /\ m.dir = "both"
        /\ m.types = {} /\ m.path = <<>>
    BY <2>3, <2>4 DEF Asks
  <2>6. m.depth \in Nat \ {0}
    BY <1>1, <2>3, <2>5
  <2>7. Searches("walk", m) /\ \A d : FindsNearest("walk", m, d)
    BY <1>1, <2>4, <2>5, <2>6, WalkBeginsSearch
  <2> QED
    BY <2>1, <2>7 DEF Goto, Sought
<1> QED
  BY <1>2, <1>3

LEMMA BuildSearches ==
    ASSUME Typed, Sought, Build PROVE Sought'
<1>1. /\ DOMAIN job = Fields /\ pc = "build" /\ job.kind = "path"
  BY Remembered DEF Build, Expected
<1>2. /\ pc' \in {"done", "build"} /\ UNCHANGED <<db, writes>>
      /\ Asks(job', job) /\ job'.path = job.path
  <2> DEFINE hop == job.path[job.at]
             peer == IF hop.from \notin job.visited THEN hop.from ELSE hop.to
             j == [job EXCEPT !.at = @ + 1, !.visited = @ \cup {peer}]
             m == [j EXCEPT !.nodes = @ \cup {peer},
                        !.results = Append(@, Found(peer, 0, job.at)),
                        !.edges = @ \cup {job.path[n] : n \in 1..job.at}]
  <2>1. /\ pc' \in {"done", "build"} /\ UNCHANGED <<db, writes>>
        /\ job' = j \/ job' = m
    BY DEF Build, Goto
  <2>2. DOMAIN j = Fields /\ Asks(j, job) /\ j.path = job.path
    BY <1>1 DEF Fields, Asks
  <2> HIDE DEF j
  <2>3. Asks(m, job) /\ m.path = job.path
    BY <2>2 DEF Fields, Asks
  <2> HIDE DEF m
  <2> QED
    BY <2>1, <2>2, <2>3
<1>3. Searches("build", job)
  BY <1>1 DEF Sought
<1>4. Searches(pc', job')
  BY <1>2, <1>3 DEF Searches, Asks, Walking
<1>5. ASSUME job.since = writes PROVE FindsNearest(pc', job', db)
  <2>1. AtDistance(db, job, job.target, Len(job.path)) /\ job.path # <<>>
    BY <1>1, <1>3, <1>5 DEF Sought, FindsNearest, Searches
  <2>2. AtDistance(db, job', job'.target, Len(job'.path))
    BY <1>2, <2>1, AsksTheSame DEF Asks
  <2> QED
    BY <1>2, <2>1, <2>2 DEF FindsNearest, Walking
<1> QED
  BY <1>2, <1>4, <1>5 DEF Sought, Asks

LEMMA NextSearches == ASSUME Typed, Sought, [Next]_vars PROVE Sought'
<1>1. CASE HandleNeighbors \/ Related \/ HandlePath \/ RunPath
  BY <1>1, SearchForPathBegins
<1>2. CASE Ask /\ ~ (HandleNeighbors \/ Related \/ HandlePath \/ RunPath)
  BY <1>2, OthersAsk DEF Sought, Tracing
<1>3. CASE Serve /\ job.kind # "path"
  BY <1>3, KeepsKind DEF NoJob, Sought
<1>4. CASE Serve /\ job.kind = "path"
  <2>1. CASE Finish
    BY <2>1 DEF Finish, Goto, NoJob, Sought
  <2>2. job.kind \in Tracing /\ job.kind \notin Traversing
    BY <1>4 DEF Tracing, Traversing
  <2> QED
    BY <1>4, <2>1, <2>2, TracingIsServed, WalksSearch, PathToSearches,
       BuildSearches
<1>5. CASE Delete \/ Link \/ Unlink
  <2>1. pc' = pc /\ job' = job /\ job'.since # writes'
    BY <1>5, WritesAreHeard
  <2> QED
    BY <2>1 DEF Sought
<1>6. CASE UNCHANGED vars
  BY <1>6 DEF vars, Sought
<1> QED
  BY <1>1, <1>2, <1>3, <1>4, <1>5, <1>6 DEF Next

\* A path leads to the target whatever is written meanwhile; a search that
\* nothing disturbs finds one if there is one, and none is shorter.
THEOREM PathsAreShortest == Spec => []PathIsShortest
<1>1. Init => Typed /\ Sought
  BY InitTyped DEF Init, NoJob, Sought
<1>2. Typed /\ Sought /\ [Next]_vars => (Typed /\ Sought)'
  BY NextTyped, NextSearches
<1>3. ASSUME Typed, Sought PROVE PathIsShortest
  <2> SUFFICES ASSUME Answered({"path"}) PROVE PathIsShortest
    BY DEF PathIsShortest
  <2>1. /\ Searches("done", job) /\ (Quiet => FindsNearest("done", job, db))
    BY <1>3 DEF Sought, Answered, Quiet
  <2>2. job.path \in Seq(EdgeCopy) /\ job.depth \in Nat
    BY <1>3, Remembered DEF IsJob, Lists, Options
  <2>3. job.dir = "both" /\ job.types = {}
    BY <2>1 DEF Searches
  <2>4. ASSUME job.path # <<>>
        PROVE  LET place[n \in 0..Len(job.path)] ==
                     IF n = 0 THEN job.start
                     ELSE Other(job.path[n], place[n - 1])
               IN  /\ place[Len(job.path)] = job.target
                   /\ Len(job.path) <= job.depth
                   /\ \A n \in 1..Len(job.path) :
                        place[n - 1] \in {job.path[n].from, job.path[n].to}
    <3>1. /\ Leads(job.path, job.start, job.target)
          /\ Len(job.path) <= job.depth
      BY <2>1, <2>4 DEF Searches
    <3> DEFINE f == CHOOSE g : Follows(g, job.path, job.start)
    <3>2. Follows(f, job.path, job.start)
      BY <2>2, <3>1, LeadsAlong
    <3> HIDE DEF f
    <3>3. /\ f[Len(job.path)] = job.target
          /\ \A n \in 1..Len(job.path) :
               f[n - 1] \in {job.path[n].from, job.path[n].to}
      BY <2>2, <3>1, <3>2, LeadsAlong
    <3> QED
      BY <3>1, <3>3 DEF f, Follows
  <2>5. ASSUME Quiet, job.path # <<>>
        PROVE  /\ job.start # job.target
               /\ job.target \in Reach(db, job, job.depth)
               /\ job.target \notin Reach(db, job, Len(job.path) - 1)
    <3> DEFINE L == Len(job.path)
    <3>1. AtDistance(db, job, job.target, L) /\ L <= job.depth
      BY <2>1, <2>5 DEF FindsNearest, Searches
    <3>2. L \in Nat \ {0}
      BY <2>2, <2>5
    <3> HIDE DEF L
    <3>3. L \in 0..job.depth /\ 0 \in 0..(L - 1) /\ L - 1 \in 0..(L - 1)
      BY <2>2, <3>1, <3>2
    <3>4. Reach(db, job, 0) = {job.start}
      BY WithinNone DEF Reach
    <3>5. Reach(db, job, L) \subseteq Reach(db, job, job.depth)
      BY <2>2, <3>3, ReachGrows
    <3> QED
      BY <3>1, <3>3, <3>4, <3>5 DEF AtDistance, L
  <2>6. ASSUME Quiet, job.path = <<>>
        PROVE  job.start = job.target
               \/ job.target \notin Reach(db, job, job.depth)
    BY <2>1, <2>6 DEF FindsNearest
  <2>7. \A n : Reach(db, job, n) = Within(db, {job.start}, n, "both", {})
    BY <2>3 DEF Reach
  <2> QED
    BY <2>4, <2>5, <2>6, <2>7 DEF PathIsShortest
<1> QED
  BY <1>1, <1>2, <1>3, PTL DEF Spec
=============================================================================
