------------------------ MODULE KnownSessionsProofs ------------------------
(***************************************************************************)
(* Theorems about KnownSessions, for any number of processes, sessions,    *)
(* events, entries and edges.                                              *)
(*                                                                         *)
(* IInv adds to the invariants what a process knows of its session at each *)
(* location (Holds): a session named by a process that is about to write   *)
(* the file has a row, and the sessions a process has still to work off    *)
(* have ended.  Both last because a row only ever advances.                *)
(***************************************************************************)
EXTENDS KnownSessions, KnownDBProofs, FiniteSetTheorems, SequenceTheorems

Holds(r, loc, j) ==
    /\ loc \in {"startReuse", "startTruncate", "startWrite", "command", "log",
                "endUpdate"} => j.session \in Sessions
    /\ loc \in {"startTruncate", "startWrite"} => r[j.session] # "none"
    /\ \A s \in j.todo : r[s] = "ended"

TablesOK == /\ db \in Database /\ Consistent(db)
            /\ row \in [Sessions -> {"none", "open", "ended"}]
            /\ events \in [Sessions -> Seq(Event)]
            /\ processed \in SUBSET Sessions
            /\ ProcessedAreEnded

FileOK == /\ file \in Sessions \cup {Null}
          /\ stale \in BOOLEAN
          /\ FileNamesASession

JobsOK == /\ pc \in [Procs -> Locations]
          /\ job \in [Procs -> Job]
          /\ \A p \in Procs : Holds(row, pc[p], job[p])

IInv == TablesOK /\ FileOK /\ JobsOK

\* A row comes into being and ends; it never goes back.
Advances(r, q) == \A s \in Sessions : /\ r[s] # "none" => q[s] # "none"
                                      /\ r[s] = "ended" => q[s] = "ended"

-----------------------------------------------------------------------------
(***************************************************************************)
(* The arithmetic of reinforcement.                                        *)
(***************************************************************************)
\* A reinforced weight is a weight, and no action pushes one past 0.5.
LEMMA ReweighBounds ==
    ASSUME NEW w \in Weights, NEW b \in 0..50
    PROVE  /\ Reweigh(w, b) \in Weights
           /\ Reweigh(w, b) # Null
           /\ Reweigh(w, b) <= EffectiveWeight(w) \/ Reweigh(w, b) <= 500
<1> DEFINE x == EffectiveWeight(w)
           y == (x * 9) \div 10 + b
<1>1. x \in 0..1000
  BY WeightsAssumption DEF EffectiveWeight, DefaultWeight
<1>2. /\ y \in Nat /\ 10 * y <= 9 * x + 10 * b
  <2> HIDE DEF x
  <2> QED
    BY <1>1
<1>3. Reweigh(w, b) = Clamp(y)
  BY DEF Reweigh
<1> HIDE DEF x, y
<1>4. /\ Clamp(y) \in 0..1000
      /\ Clamp(y) <= x \/ Clamp(y) <= 500
  BY <1>1, <1>2 DEF Clamp, MinWeight, MaxWeight
<1>5. Null \notin 0..1000
  BY NullAssumption
<1> QED
  BY <1>3, <1>4, <1>5, WeightsAssumption DEF x

\* The strongest action on an acted entry is an action, with a boost of at
\* most 0.05: there are three strengths, so one of them is the greatest.
LEMMA BestActionIsAnAction ==
    ASSUME NEW evs \in Seq(Event), NEW i \in ActedIds(evs)
    PROVE  Boost[BestAction(evs, i)] \in 0..50
<1> DEFINE on == {n \in Acted(evs) : i \in evs[n].ids}
           S(n) == Strength[evs[n].type]
<1>1. \A n \in on : evs[n].type \in Actions
  BY DEF Acted
<1>2. \A n \in on : S(n) \in 0..2
  BY <1>1 DEF Strength, Actions
<1>3. \E n \in on : TRUE
  BY DEF ActedIds
<1>4. \E n \in on : \A m \in on : S(m) <= S(n)
  <2> HIDE DEF on, S
  <2>1. CASE \E n \in on : S(n) = 2
    BY <1>2, <2>1
  <2>2. CASE (\A n \in on : S(n) # 2) /\ \E n \in on : S(n) = 1
    BY <1>2, <2>2
  <2>3. CASE \A n \in on : S(n) # 2 /\ S(n) # 1
    BY <1>2, <1>3, <2>3
  <2> QED
    BY <2>1, <2>2, <2>3
<1>5. \E n \in on : BestAction(evs, i) = evs[n].type
  BY <1>4 DEF BestAction
<1> HIDE DEF on, S
<1>6. /\ Boost["show"] \in 0..50 /\ Boost["update"] \in 0..50
      /\ Boost["link"] \in 0..50 /\ Boost["delete"] \in 0..50
  BY DEF Boost
<1>7. BestAction(evs, i) \in Actions
  BY <1>1, <1>5
<1> QED
  BY ONLY <1>6, <1>7, Zenon DEF Actions

\* Of the ends of an edge that were acted on, the iteration meets one first.
LEMMA FirstEnd ==
    ASSUME NEW d, NEW evs, NEW rank \in Orders, NEW e,
           d.edges[e].from \in Ids, d.edges[e].to \in Ids,
           ActedEnds(d, evs, e) # {}
    PROVE  FirstActed(d, evs, rank, e) \in ActedEnds(d, evs, e)
<1> DEFINE f == d.edges[e].from
           t == d.edges[e].to
           N == ActedEnds(d, evs, e)
<1>1. Cardinality(Ids) \in Nat
  BY IdsAssumption, FS_CardinalityType
<1>2. rank[f] \in Nat /\ rank[t] \in Nat
  BY <1>1 DEF Orders
<1>3. N \subseteq {f, t}
  BY DEF ActedEnds
<1> HIDE DEF f, t, N
<1>4. N # {} => \E i \in N : \A j \in N : rank[i] <= rank[j]
  BY <1>2, <1>3
<1> QED
  BY <1>4 DEF N, FirstActed

\* What one boost makes of an edge.
Moved(x, b) == [x EXCEPT !.weight = Reweigh(@, b)]

\* Reinforcement changes weights only, of edges at acted entries, by Reweigh
\* with one of the boosts.
LEMMA ReinforcedEdgeFacts ==
    ASSUME NEW d \in Database, NEW evs \in Seq(Event), NEW rank \in Orders,
           NEW e \in EdgeIds,
           ReinforcedEdge(d, evs, rank, e) # d.edges[e]
    PROVE  /\ d.edges[e] # Null
           /\ ActedEnds(d, evs, e) # {}
           /\ \E b \in 0..50 :
                 ReinforcedEdge(d, evs, rank, e) = Moved(d.edges[e], b)
<1> DEFINE i == FirstActed(d, evs, rank, e)
           b == Boost[BestAction(evs, i)]
<1>1. /\ d.edges[e] # Null
      /\ ActedEnds(d, evs, e) # {}
      /\ ReinforcedEdge(d, evs, rank, e) = Moved(d.edges[e], b)
  BY DEF ReinforcedEdge, Moved
<1>2. d.edges[e].from \in Ids /\ d.edges[e].to \in Ids
  BY <1>1 DEF Database, Edge
<1>3. i \in ActedIds(evs)
  BY <1>1, <1>2, FirstEnd DEF ActedEnds
<1> HIDE DEF i
<1>4. b \in 0..50
  BY <1>3, BestActionIsAnAction
<1> QED
  BY <1>1, <1>4

\* A reinforced edge is an edge between the same entries.
LEMMA ReinforcedEdgeSound ==
    ASSUME NEW d \in Database, NEW evs \in Seq(Event), NEW rank \in Orders,
           NEW e \in EdgeIds, ReinforcedEdge(d, evs, rank, e) # Null
    PROVE  /\ d.edges[e] # Null
           /\ ReinforcedEdge(d, evs, rank, e) \in Edge
           /\ ReinforcedEdge(d, evs, rank, e).from = d.edges[e].from
           /\ ReinforcedEdge(d, evs, rank, e).to = d.edges[e].to
<1> DEFINE x == ReinforcedEdge(d, evs, rank, e)
           y == d.edges[e]
<1>1. y # Null => y \in Edge
  BY DEF Database
<1>2. CASE x = y
  BY <1>1, <1>2
<1>3. CASE x # y
  <2>1. y # Null /\ \E b \in 0..50 : x = Moved(y, b)
    BY <1>3, ReinforcedEdgeFacts
  <2> HIDE DEF x, y
  <2>2. PICK b \in 0..50 : x = Moved(y, b)
    BY <2>1
  <2>3. y \in Edge
    BY <1>1, <2>1
  <2>4. Reweigh(y.weight, b) \in Weights
    BY <2>3, ReweighBounds DEF Edge
  <2>5. x \in Edge /\ x.from = y.from /\ x.to = y.to
    BY <2>2, <2>3, <2>4 DEF Edge, Moved
  <2> QED
    BY <2>1, <2>5 DEF x, y
<1> QED
  BY <1>2, <1>3

\* Reinforcement keeps the knowledge base whole.
LEMMA ReinforcedSound ==
    ASSUME NEW d \in Database, Consistent(d), NEW evs \in Seq(Event),
           NEW rank \in Orders
    PROVE  /\ Sound(Reinforced(d, evs, rank))
           /\ \A e \in EdgeIds : Reinforced(d, evs, rank).edges[e] =
                                 ReinforcedEdge(d, evs, rank, e)
<1> DEFINE E == [e \in EdgeIds |-> ReinforcedEdge(d, evs, rank, e)]
<1>1. \A e \in EdgeIds : E[e] = ReinforcedEdge(d, evs, rank, e)
  OBVIOUS
<1>2. \A e \in EdgeIds : E[e] # Null =>
        /\ d.edges[e] # Null /\ E[e] \in Edge
        /\ E[e].from = d.edges[e].from /\ E[e].to = d.edges[e].to
  BY <1>1, ReinforcedEdgeSound
<1>3. E = [e \in EdgeIds |-> E[e]]
  OBVIOUS
<1>4. Reinforced(d, evs, rank) = [d EXCEPT !.edges = E]
  BY DEF Reinforced
<1> HIDE DEF E
<1>5. E \in [EdgeIds -> Edge \cup {Null}]
  <2>1. \A e \in EdgeIds : E[e] \in Edge \cup {Null}
    BY <1>2
  <2> QED
    BY <1>3, <2>1
<1>6. \A e \in EdgeIds : E[e] # Null =>
        Live(d, E[e].from) /\ Live(d, E[e].to) /\ E[e].from # E[e].to
  BY <1>2 DEF Consistent, EdgesAnchored, Present
<1>7. Sound([d EXCEPT !.edges = E])
  BY <1>5, <1>6, SetEdges
<1>8. [d EXCEPT !.edges = E].edges = E
  BY DEF Database
<1> QED
  BY <1>1, <1>4, <1>7, <1>8

-----------------------------------------------------------------------------
(***************************************************************************)
(* The inductive invariant.                                                *)
(***************************************************************************)
\* A process that has just started, or is gone, remembers nothing.
LEMMA NoJobIsAJob ==
    /\ NoJob \in Job
    /\ NoJob.todo = {}
    /\ \A s \in Sessions \cup {Null} :
         /\ [NoJob EXCEPT !.session = s] \in Job
         /\ [NoJob EXCEPT !.session = s].session = s
         /\ [NoJob EXCEPT !.session = s].todo = {}
    /\ \A S \in SUBSET Sessions :
         /\ [NoJob EXCEPT !.todo = S] \in Job
         /\ [NoJob EXCEPT !.todo = S].todo = S
<1>1. NoEvent \in Event
  BY DEF NoEvent, Event
<1> QED
  BY <1>1 DEF NoJob, Job

\* A process moves on with a memory that fits; those of the others still
\* fit, because rows only advance.
LEMMA GotoOK ==
    ASSUME JobsOK, NEW p \in Procs, NEW loc \in Locations, NEW j \in Job,
           Holds(row', loc, j), Goto(p, loc, j), Advances(row, row')
    PROVE  JobsOK'
<1>1. /\ pc' \in [Procs -> Locations]
      /\ job' \in [Procs -> Job]
      /\ \A q \in Procs : /\ pc'[q] = IF q = p THEN loc ELSE pc[q]
                          /\ job'[q] = IF q = p THEN j ELSE job[q]
  BY DEF JobsOK, Goto
<1>2. ASSUME NEW q \in Procs PROVE Holds(row', pc'[q], job'[q])
  <2>1. CASE q = p
    BY <1>1, <2>1
  <2>2. CASE q # p
    <3>1. pc'[q] = pc[q] /\ job'[q] = job[q] /\ job[q] \in Job
      BY <1>1, <2>2 DEF JobsOK
    <3>2. Holds(row, pc[q], job[q])
      BY DEF JobsOK
    <3>3. job[q].todo \subseteq Sessions
      BY <3>1 DEF Job
    <3>4. Holds(row', pc[q], job[q])
      BY <3>2, <3>3 DEF Holds, Advances
    <3> QED
      BY <3>1, <3>4
  <2> QED
    BY <2>1, <2>2
<1> QED
  BY <1>1, <1>2 DEF JobsOK

\* The same for a step that leaves the rows alone.
LEMMA GotoSameRows ==
    ASSUME JobsOK, NEW p \in Procs, NEW loc \in Locations, NEW j \in Job,
           Holds(row, loc, j), Goto(p, loc, j), UNCHANGED row
    PROVE  JobsOK'
BY GotoOK DEF Advances

\* A command that ends, in success, error or death, forgets everything.
LEMMA ExitOK ==
    ASSUME JobsOK, NEW p \in Procs, Exit(p), UNCHANGED row
    PROVE  JobsOK'
<1>1. Holds(row, "idle", NoJob) /\ "idle" \in Locations
  BY NoJobIsAJob DEF Holds, Locations
<1> QED
  BY <1>1, NoJobIsAJob, GotoSameRows DEF Exit

\* A step that changes no table, and one that leaves the file alone.
LEMMA TablesStay == TablesOK /\ UNCHANGED tables => TablesOK'
BY DEF TablesOK, tables, ProcessedAreEnded

LEMMA FileStays ==
    ASSUME FileOK, UNCHANGED sessionFile, Advances(row, row')
    PROVE  FileOK'
<1>1. file' = file /\ stale' = stale
  BY DEF sessionFile
<1>2. file # Null => file \in Sessions
  BY DEF FileOK
<1> QED
  BY <1>1, <1>2 DEF FileOK, FileNamesASession, Advances

LEMMA SameRowsAdvance == UNCHANGED row => Advances(row, row')
BY DEF Advances

\* A step that writes the database only, and leaves it sound.
LEMMA WriteDB ==
    ASSUME TablesOK, Sound(db'), UNCHANGED <<row, events, processed>>
    PROVE  TablesOK'
BY DEF TablesOK, Sound, ProcessedAreEnded

\* What a process reads of the file, or of KNOWN_SESSION, has a row.
LEMMA SeenHasARow ==
    ASSUME IInv, NEW s \in Seen, s # Null
    PROVE  s \in Sessions /\ row[s] # "none"
BY DEF IInv, FileOK, FileNamesASession, Seen

LEMMA InitOK == Init => IInv
<1> SUFFICES ASSUME Init PROVE IInv
  OBVIOUS
<1>1. TablesOK
  BY InitialAssumption DEF Init, TablesOK, ProcessedAreEnded
<1>2. FileOK
  BY DEF Init, FileOK, FileNamesASession
<1>3. JobsOK
  BY NoJobIsAJob DEF Init, JobsOK, Locations, Holds
<1> QED
  BY <1>1, <1>2, <1>3 DEF IInv

-----------------------------------------------------------------------------
(***************************************************************************)
(* session start.                                                          *)
(***************************************************************************)
LEMMA StartReadOK ==
    ASSUME IInv, NEW p \in Procs, StartRead(p) PROVE IInv'
<1>1. PICK s \in Seen :
        Goto(p, IF s = Null THEN "startCreate" ELSE "startReuse",
             [NoJob EXCEPT !.session = s])
  BY DEF StartRead
<1>2. UNCHANGED tables /\ UNCHANGED sessionFile /\ UNCHANGED row
  BY DEF StartRead, tables
<1>3. TablesOK' /\ FileOK'
  BY <1>2, TablesStay, FileStays, SameRowsAdvance DEF IInv
<1> DEFINE j == [NoJob EXCEPT !.session = s]
           loc == IF s = Null THEN "startCreate" ELSE "startReuse"
<1>4. s # Null => s \in Sessions
  BY SeenHasARow
<1>5. j \in Job /\ j.session = s /\ j.todo = {}
  BY <1>4, NoJobIsAJob
<1>6. loc \in Locations
  BY DEF Locations
<1>7. Goto(p, loc, j)
  BY <1>1
<1>8. Holds(row, loc, j)
  <2> HIDE DEF j
  <2> QED
    BY <1>4, <1>5 DEF Holds
<1> HIDE DEF j, loc
<1>9. JobsOK'
  BY <1>2, <1>5, <1>6, <1>7, <1>8, GotoSameRows DEF IInv
<1> QED
  BY <1>3, <1>9 DEF IInv

\* The row is there before the file names it.
LEMMA StartCreateOK ==
    ASSUME IInv, NEW p \in Procs, StartCreate(p) PROVE IInv'
<1>1. PICK s \in Sessions :
        /\ row[s] = "none"
        /\ row' = [row EXCEPT ![s] = "open"]
        /\ Goto(p, "startTruncate", [NoJob EXCEPT !.session = s])
  BY DEF StartCreate
<1>2. UNCHANGED <<db, events, processed, sessionFile>>
  BY DEF StartCreate
<1>3. /\ row' \in [Sessions -> {"none", "open", "ended"}]
      /\ row'[s] = "open"
      /\ Advances(row, row')
  BY <1>1 DEF IInv, TablesOK, Advances
<1>4. TablesOK'
  BY <1>2, <1>3 DEF IInv, TablesOK, ProcessedAreEnded, Advances
<1>5. FileOK'
  BY <1>2, <1>3, FileStays DEF IInv
<1> DEFINE j == [NoJob EXCEPT !.session = s]
<1>6. j \in Job /\ j.session = s /\ j.todo = {}
  BY NoJobIsAJob
<1>7. Goto(p, "startTruncate", j)
  BY <1>1
<1> HIDE DEF j
<1>8. Holds(row', "startTruncate", j) /\ "startTruncate" \in Locations
  BY <1>3, <1>6 DEF Holds, Locations
<1>9. JobsOK'
  BY <1>3, <1>6, <1>7, <1>8, GotoOK DEF IInv
<1> QED
  BY <1>4, <1>5, <1>9 DEF IInv

LEMMA StartTruncateOK ==
    ASSUME IInv, NEW p \in Procs, StartTruncate(p) PROVE IInv'
<1>1. UNCHANGED tables /\ UNCHANGED row
  BY DEF StartTruncate, tables
<1>2. FileOK'
  BY DEF StartTruncate, FileOK, FileNamesASession
<1>3. job[p] \in Job /\ Holds(row, "startTruncate", job[p])
  BY DEF IInv, JobsOK, StartTruncate
<1>4. Holds(row, "startWrite", job[p]) /\ "startWrite" \in Locations
  BY <1>3 DEF Holds, Locations
<1>5. JobsOK'
  BY <1>1, <1>3, <1>4, GotoSameRows DEF IInv, StartTruncate
<1> QED
  BY <1>1, <1>2, <1>5, TablesStay DEF IInv

LEMMA StartWriteOK ==
    ASSUME IInv, NEW p \in Procs, StartWrite(p) PROVE IInv'
<1>1. UNCHANGED tables /\ UNCHANGED row
  BY DEF StartWrite, tables
<1>2. Holds(row, "startWrite", job[p])
  BY DEF IInv, JobsOK, StartWrite
<1>3. job[p].session \in Sessions /\ row[job[p].session] # "none"
  BY <1>2 DEF Holds
<1>4. FileOK'
  BY <1>1, <1>3 DEF StartWrite, FileOK, FileNamesASession
<1> QED
  BY <1>1, <1>4, TablesStay, ExitOK DEF IInv, StartWrite

-----------------------------------------------------------------------------
(***************************************************************************)
(* A command under a session.                                              *)
(***************************************************************************)
LEMMA CommandStartOK ==
    ASSUME IInv, NEW p \in Procs, CommandStart(p) PROVE IInv'
<1>1. PICK s \in Seen \ {Null} :
        Goto(p, "command", [NoJob EXCEPT !.session = s])
  BY DEF CommandStart
<1>2. UNCHANGED tables /\ UNCHANGED sessionFile /\ UNCHANGED row
  BY DEF CommandStart, tables
<1>3. TablesOK' /\ FileOK'
  BY <1>2, TablesStay, FileStays, SameRowsAdvance DEF IInv
<1> DEFINE j == [NoJob EXCEPT !.session = s]
<1>4. s \in Sessions
  BY SeenHasARow
<1>5. j \in Job /\ j.session = s /\ j.todo = {}
  BY <1>4, NoJobIsAJob
<1>6. Goto(p, "command", j)
  BY <1>1
<1> HIDE DEF j
<1>7. Holds(row, "command", j) /\ "command" \in Locations
  BY <1>4, <1>5 DEF Holds, Locations
<1>8. JobsOK'
  BY <1>2, <1>5, <1>6, <1>7, GotoSameRows DEF IInv
<1> QED
  BY <1>3, <1>8 DEF IInv

\* A command that has done its work goes on to log it.
LEMMA LogNextOK ==
    ASSUME IInv, NEW p \in Procs, pc[p] = "command", UNCHANGED row,
           NEW type \in Actions \cup {"recall"}, NEW args \in SUBSET Ids,
           LogNext(p, type, args)
    PROVE  JobsOK'
<1>1. PICK ids \in SUBSET args :
        Goto(p, "log", [job[p] EXCEPT !.event = [type |-> type, ids |-> ids],
                                      !.after = Len(events[job[p].session])])
  BY DEF LogNext
<1> DEFINE j == [job[p] EXCEPT !.event = [type |-> type, ids |-> ids],
                               !.after = Len(events[job[p].session])]
<1>2. job[p] \in Job /\ Holds(row, "command", job[p])
  BY DEF IInv, JobsOK
<1>3. job[p].session \in Sessions
  BY <1>2 DEF Holds
<1>4. Len(events[job[p].session]) \in Nat
  BY <1>3, LenProperties DEF IInv, TablesOK
<1>5. [type |-> type, ids |-> ids] \in Event
  BY DEF Event
<1>6. j \in Job /\ j.session = job[p].session /\ j.todo = job[p].todo
  BY <1>2, <1>4, <1>5 DEF Job
<1>7. Goto(p, "log", j)
  BY <1>1
<1> HIDE DEF j
<1>8. Holds(row, "log", j) /\ "log" \in Locations
  BY <1>2, <1>3, <1>6 DEF Holds, Locations
<1> QED
  BY <1>6, <1>7, <1>8, GotoSameRows DEF IInv

LEMMA CommandReadsOK ==
    ASSUME IInv, NEW p \in Procs, CommandReads(p) PROVE IInv'
<1>1. UNCHANGED tables /\ UNCHANGED sessionFile /\ UNCHANGED row
  BY DEF CommandReads, tables
<1>2. TablesOK' /\ FileOK'
  BY <1>1, TablesStay, FileStays, SameRowsAdvance DEF IInv
<1>3. \E type \in Actions \cup {"recall"}, args \in SUBSET Ids :
          LogNext(p, type, args)
  BY Zenon DEF CommandReads, Actions
<1>4. pc[p] = "command"
  BY DEF CommandReads
<1>5. JobsOK'
  BY <1>1, <1>3, <1>4, LogNextOK
<1> QED
  BY <1>2, <1>5 DEF IInv

LEMMA CommandLinksOK ==
    ASSUME IInv, NEW p \in Procs, CommandLinks(p) PROVE IInv'
<1>1. PICK i \in Ids, j \in Ids, type \in EdgeTypes, w \in LinkWeights :
        \E name \in [{<<j, type>>} -> EdgeIds] :
           /\ CanInsertEdges(db, i, name)
           /\ db' = InsertEdges(db, i, name, w)
           /\ LogNext(p, "link", {i, j})
  BY DEF CommandLinks
<1>2. UNCHANGED sessionFile /\ UNCHANGED <<row, events, processed>>
  BY DEF CommandLinks
<1>3. {<<j, type>>} \in SUBSET (Ids \X EdgeTypes) /\ w \in Weights
  BY ParametersAssumption
<1>4. Sound(db')
  BY <1>1, <1>3, InsertEdgesSound DEF IInv, TablesOK
<1>5. TablesOK' /\ FileOK'
  BY <1>2, <1>4, WriteDB, FileStays, SameRowsAdvance DEF IInv
<1>6. JobsOK'
  BY <1>1, <1>2, LogNextOK DEF CommandLinks, Actions
<1> QED
  BY <1>5, <1>6 DEF IInv

LEMMA CommandDeletesOK ==
    ASSUME IInv, NEW p \in Procs, CommandDeletes(p) PROVE IInv'
<1>1. PICK i \in Ids : /\ db' = DeleteEntries(db, {i}) \/ db' = db
                      /\ LogNext(p, "delete", {i})
  BY DEF CommandDeletes
<1>2. UNCHANGED sessionFile /\ UNCHANGED <<row, events, processed>>
  BY DEF CommandDeletes
<1>3. Sound(db')
  <2>1. Sound(db) /\ Sound(DeleteEntries(db, {i}))
    BY DeleteEntriesSound DEF IInv, TablesOK, Sound
  <2> QED
    BY <1>1, <2>1, Zenon
<1>4. TablesOK' /\ FileOK'
  BY <1>2, <1>3, WriteDB, FileStays, SameRowsAdvance DEF IInv
<1>5. JobsOK'
  BY <1>1, <1>2, LogNextOK DEF CommandDeletes, Actions
<1> QED
  BY <1>4, <1>5 DEF IInv

\* An event goes in at one place among those already there.
LEMMA LogEventOK ==
    ASSUME IInv, NEW p \in Procs, LogEvent(p) PROVE IInv'
<1>1. UNCHANGED sessionFile /\ UNCHANGED <<db, row, processed>>
  BY DEF LogEvent
<1>2. job[p] \in Job /\ Holds(row, "log", job[p])
  BY DEF IInv, JobsOK, LogEvent
<1> DEFINE s == job[p].session
           evs == events[s]
           new(n) == SubSeq(evs, 1, n) \o <<job[p].event>>
                                       \o SubSeq(evs, n + 1, Len(evs))
<1>3. s \in Sessions /\ job[p].event \in Event /\ job[p].after \in Nat
  BY <1>2 DEF Holds, Job
<1>4. evs \in Seq(Event)
  BY <1>3 DEF IInv, TablesOK
<1>5. ASSUME NEW n \in job[p].after..Len(evs) PROVE new(n) \in Seq(Event)
  <2> HIDE DEF evs, s
  <2>1. /\ Len(evs) \in Nat
        /\ \A k \in 1..Len(evs) : evs[k] \in Event
    BY <1>4, LenProperties, ElementOfSeq
  <2>2. n \in Nat /\ n <= Len(evs)
    BY <1>3, <2>1
  <2>3. SubSeq(evs, 1, n) \in Seq(Event)
    BY <2>1, <2>2, SubSeqProperties
  <2>4. SubSeq(evs, n + 1, Len(evs)) \in Seq(Event)
    BY <2>1, <2>2, SubSeqProperties
  <2>5. <<job[p].event>> \in Seq(Event)
    BY <1>3
  <2> QED
    BY <2>3, <2>4, <2>5, ConcatProperties
<1>6. \/ UNCHANGED events
      \/ \E n \in job[p].after..Len(evs) :
            events' = [events EXCEPT ![s] = new(n)]
  BY DEF LogEvent
<1> HIDE DEF new, evs
<1>7. events' \in [Sessions -> Seq(Event)]
  BY <1>3, <1>5, <1>6 DEF IInv, TablesOK
<1>8. TablesOK'
  BY <1>1, <1>7 DEF IInv, TablesOK, ProcessedAreEnded
<1>9. FileOK'
  BY <1>1, FileStays, SameRowsAdvance DEF IInv
<1>10. Holds(row, "touch", NoJob) /\ "touch" \in Locations
  BY NoJobIsAJob DEF Holds, Locations
<1>11. JobsOK'
  BY <1>1, <1>10, NoJobIsAJob, GotoSameRows DEF IInv, LogEvent
<1> QED
  BY <1>8, <1>9, <1>11 DEF IInv

LEMMA TouchFileOK ==
    ASSUME IInv, NEW p \in Procs, TouchFile(p) PROVE IInv'
<1>1. UNCHANGED tables /\ UNCHANGED row
  BY DEF TouchFile, tables
<1>2. FileOK'
  BY <1>1 DEF TouchFile, IInv, FileOK, FileNamesASession
<1> QED
  BY <1>1, <1>2, TablesStay, ExitOK DEF IInv, TouchFile

-----------------------------------------------------------------------------
(***************************************************************************)
(* session end and gc.                                                     *)
(***************************************************************************)
LEMMA EndReadOK ==
    ASSUME IInv, NEW p \in Procs, EndRead(p) PROVE IInv'
<1>1. PICK s \in Seen \ {Null} :
        Goto(p, "endUpdate", [NoJob EXCEPT !.session = s])
  BY DEF EndRead
<1>2. UNCHANGED tables /\ UNCHANGED sessionFile /\ UNCHANGED row
  BY DEF EndRead, tables
<1>3. TablesOK' /\ FileOK'
  BY <1>2, TablesStay, FileStays, SameRowsAdvance DEF IInv
<1> DEFINE j == [NoJob EXCEPT !.session = s]
<1>4. s \in Sessions
  BY SeenHasARow
<1>5. j \in Job /\ j.session = s /\ j.todo = {}
  BY <1>4, NoJobIsAJob
<1>6. Goto(p, "endUpdate", j)
  BY <1>1
<1> HIDE DEF j
<1>7. Holds(row, "endUpdate", j) /\ "endUpdate" \in Locations
  BY <1>4, <1>5 DEF Holds, Locations
<1>8. JobsOK'
  BY <1>2, <1>5, <1>6, <1>7, GotoSameRows DEF IInv
<1> QED
  BY <1>3, <1>8 DEF IInv

\* Ending a session a second time changes nothing: a row only advances.
LEMMA EndUpdateOK ==
    ASSUME IInv, NEW p \in Procs, EndUpdate(p) PROVE IInv'
<1>1. /\ row' = [row EXCEPT ![job[p].session] = "ended"]
      /\ Goto(p, "endRemove", NoJob)
      /\ UNCHANGED <<db, events, processed>> /\ UNCHANGED sessionFile
  BY DEF EndUpdate
<1>2. Holds(row, "endUpdate", job[p])
  BY DEF IInv, JobsOK, EndUpdate
<1>3. job[p].session \in Sessions
  BY <1>2 DEF Holds
<1>4. /\ row' \in [Sessions -> {"none", "open", "ended"}]
      /\ Advances(row, row')
  BY <1>1, <1>3 DEF IInv, TablesOK, Advances
<1>5. TablesOK'
  BY <1>1, <1>4 DEF IInv, TablesOK, ProcessedAreEnded, Advances
<1>6. FileOK'
  BY <1>1, <1>4, FileStays DEF IInv
<1>7. Holds(row', "endRemove", NoJob) /\ "endRemove" \in Locations
  BY NoJobIsAJob DEF Holds, Locations
<1>8. JobsOK'
  BY <1>1, <1>4, <1>7, NoJobIsAJob, GotoOK DEF IInv
<1> QED
  BY <1>5, <1>6, <1>8 DEF IInv

LEMMA EndRemoveOK ==
    ASSUME IInv, NEW p \in Procs, EndRemove(p) PROVE IInv'
<1>1. UNCHANGED tables /\ UNCHANGED row
  BY DEF EndRemove, tables
<1>2. FileOK'
  BY DEF EndRemove, FileOK, FileNamesASession
<1>3. Holds(row, "endReinforce", NoJob) /\ "endReinforce" \in Locations
  BY NoJobIsAJob DEF Holds, Locations
<1>4. JobsOK'
  BY <1>1, <1>3, NoJobIsAJob, GotoSameRows DEF IInv, EndRemove
<1> QED
  BY <1>1, <1>2, <1>4, TablesStay DEF IInv

LEMMA ReinforceListOK ==
    ASSUME IInv, NEW p \in Procs, ReinforceList(p) PROVE IInv'
<1>1. UNCHANGED tables /\ UNCHANGED sessionFile /\ UNCHANGED row
  BY DEF ReinforceList, tables
<1>2. TablesOK' /\ FileOK'
  BY <1>1, TablesStay, FileStays, SameRowsAdvance DEF IInv
<1>3. CASE Exit(p)
  BY <1>1, <1>2, <1>3, ExitOK DEF IInv
<1>4. CASE Goto(p, "reinforce", [NoJob EXCEPT !.todo = Unprocessed])
  <2> DEFINE j == [NoJob EXCEPT !.todo = Unprocessed]
  <2>1. Unprocessed \in SUBSET Sessions /\ \A s \in Unprocessed : row[s] = "ended"
    BY DEF Unprocessed
  <2>2. j \in Job /\ j.todo = Unprocessed
    BY <2>1, NoJobIsAJob
  <2>3. Goto(p, "reinforce", j)
    BY <1>4
  <2> HIDE DEF j
  <2>4. Holds(row, "reinforce", j) /\ "reinforce" \in Locations
    BY <2>1, <2>2 DEF Holds, Locations
  <2>5. JobsOK'
    BY <1>1, <2>2, <2>3, <2>4, GotoSameRows DEF IInv
  <2> QED
    BY <1>2, <2>5 DEF IInv
<1> QED
  BY <1>3, <1>4 DEF ReinforceList

\* What one transaction of the reinforcement is.
LEMMA ReinforceSessionFacts ==
    ASSUME IInv, NEW p \in Procs, ReinforceSession(p)
    PROVE  \E s \in Sessions, rank \in Orders :
             /\ row[s] = "ended"
             /\ events[s] \in Seq(Event)
             /\ db' = Reinforced(db, events[s], rank)
             /\ Sound(db')
             /\ processed' = processed \cup {s}
             /\ s \in job[p].todo
             /\ NextSession(p, s)
<1>1. PICK s \in job[p].todo, rank \in Orders :
        /\ db' = Reinforced(db, events[s], rank)
        /\ processed' = processed \cup {s}
        /\ NextSession(p, s)
  BY DEF ReinforceSession
<1>2. job[p] \in Job /\ Holds(row, pc[p], job[p])
  BY DEF IInv, JobsOK
<1>3. s \in Sessions /\ row[s] = "ended"
  BY <1>2 DEF Holds, Job
<1>4. events[s] \in Seq(Event)
  BY <1>3 DEF IInv, TablesOK
<1>5. Sound(db')
  BY <1>1, <1>4, ReinforcedSound DEF IInv, TablesOK
<1> QED
  BY <1>1, <1>3, <1>4, <1>5

LEMMA ReinforceSessionOK ==
    ASSUME IInv, NEW p \in Procs, ReinforceSession(p) PROVE IInv'
<1>1. PICK s \in Sessions :
        /\ row[s] = "ended" /\ Sound(db')
        /\ processed' = processed \cup {s}
        /\ NextSession(p, s)
  BY ReinforceSessionFacts
<1>2. UNCHANGED <<row, events>> /\ UNCHANGED sessionFile /\ UNCHANGED row
  BY DEF ReinforceSession
<1>3. TablesOK'
  BY <1>1, <1>2 DEF IInv, TablesOK, Sound, ProcessedAreEnded
<1>4. FileOK'
  BY <1>2, FileStays, SameRowsAdvance DEF IInv
<1>5. CASE Exit(p)
  BY <1>2, <1>3, <1>4, <1>5, ExitOK DEF IInv
<1>6. CASE Goto(p, "reinforce", [job[p] EXCEPT !.todo = @ \ {s}])
  <2> DEFINE j == [job[p] EXCEPT !.todo = @ \ {s}]
  <2>1. job[p] \in Job /\ Holds(row, "reinforce", job[p])
    BY DEF IInv, JobsOK, ReinforceSession
  <2>2. j \in Job /\ j.todo = job[p].todo \ {s}
    BY <2>1 DEF Job
  <2>3. Goto(p, "reinforce", j)
    BY <1>6
  <2> HIDE DEF j
  <2>4. Holds(row, "reinforce", j) /\ "reinforce" \in Locations
    BY <2>1, <2>2 DEF Holds, Locations
  <2>5. JobsOK'
    BY <1>2, <2>2, <2>3, <2>4, GotoSameRows DEF IInv
  <2> QED
    BY <1>3, <1>4, <2>5 DEF IInv
<1> QED
  BY <1>1, <1>5, <1>6 DEF NextSession

-----------------------------------------------------------------------------
LEMMA StaysOK ==
    ASSUME IInv, NEW p \in Procs, StartReuse(p) \/ Crash(p) PROVE IInv'
<1>1. Exit(p) /\ UNCHANGED tables /\ UNCHANGED sessionFile /\ UNCHANGED row
  BY DEF StartReuse, Crash, tables
<1> QED
  BY <1>1, ExitOK, TablesStay, FileStays, SameRowsAdvance DEF IInv

LEMMA FileExpiresOK == ASSUME IInv, FileExpires PROVE IInv'
<1>1. UNCHANGED tables /\ UNCHANGED <<row, file, pc, job>> /\ stale' = TRUE
  BY DEF FileExpires, tables
<1>2. FileOK'
  BY <1>1 DEF IInv, FileOK, FileNamesASession
<1>3. JobsOK'
  BY <1>1 DEF IInv, JobsOK
<1> QED
  BY <1>1, <1>2, <1>3, TablesStay DEF IInv

LEMMA StepOK == IInv /\ [Next]_vars => IInv'
<1> SUFFICES ASSUME IInv, [Next]_vars PROVE IInv'
  OBVIOUS
<1>1. CASE UNCHANGED vars
  BY <1>1 DEF vars, IInv, TablesOK, FileOK, JobsOK, ProcessedAreEnded,
              FileNamesASession
<1> QED
  BY <1>1, StartReadOK, StaysOK, StartCreateOK, StartTruncateOK, StartWriteOK,
     CommandStartOK, CommandReadsOK, CommandLinksOK, CommandDeletesOK,
     LogEventOK, TouchFileOK, EndReadOK, EndUpdateOK, EndRemoveOK,
     ReinforceListOK, ReinforceSessionOK, FileExpiresOK
  DEF Next

\* The invariant holds of every reachable state.
LEMMA InvariantHolds == Spec => []IInv
BY InitOK, StepOK, PTL DEF Spec

\* Every variable keeps its type; with it, a process that logs an event or
\* writes the session file always knows its session.
THEOREM TypeCorrect == Spec => []TypeOK
<1>1. IInv => TypeOK
  BY DEF IInv, TablesOK, FileOK, JobsOK, TypeOK
<1> QED
  BY <1>1, InvariantHolds, PTL

\* Only sessions that have ended are worked off, although the list of them is
\* read outside the transactions that mark them (query/reinforce.go).
THEOREM ProcessedCorrect == Spec => []ProcessedAreEnded
<1>1. IInv => ProcessedAreEnded
  BY DEF IInv, TablesOK
<1> QED
  BY <1>1, InvariantHolds, PTL

\* Whoever wrote the session file last, and whoever was killed before it
\* could, the session the file names is in the database (cmd/session.go).
THEOREM FileCorrect == Spec => []FileNamesASession
<1>1. IInv => FileNamesASession
  BY DEF IInv, FileOK
<1> QED
  BY <1>1, InvariantHolds, PTL

-----------------------------------------------------------------------------
(***************************************************************************)
(* What moves a weight.                                                    *)
(***************************************************************************)
\* Three actions write the knowledge base.
LEMMA OthersKeepTheDatabase ==
    ASSUME [Next]_vars, db' # db
    PROVE  \E p \in Procs :
             CommandLinks(p) \/ CommandDeletes(p) \/ ReinforceSession(p)
BY DEF Next, vars, tables, StartRead, StartReuse, StartCreate,
       StartTruncate, StartWrite, CommandStart, CommandReads, LogEvent,
       TouchFile, EndRead, EndUpdate, EndRemove, ReinforceList, Crash,
       FileExpires

\* Links and deletions leave the weight of an edge that stays alone.
LEMMA LinksKeepWeights ==
    ASSUME NEW d, NEW from, NEW name, NEW w, CanInsertEdges(d, from, name),
           NEW e \in EdgeIds, d.edges[e] # Null, d \in Database
    PROVE  InsertEdges(d, from, name, w).edges[e] = d.edges[e]
<1>1. ~\E l \in DOMAIN name : name[l] = e
  BY DEF CanInsertEdges, Present
<1> QED
  BY <1>1 DEF InsertEdges, Database

LEMMA DeletionsKeepWeights ==
    ASSUME NEW d \in Database, NEW gone, NEW e \in EdgeIds,
           DeleteEntries(d, gone).edges[e] # Null
    PROVE  DeleteEntries(d, gone).edges[e] = d.edges[e]
BY DEF DeleteEntries, Database

\* So a weight moves in the transaction that works off a session ...
LEMMA WeightsMoveInReinforcement ==
    ASSUME IInv, [Next]_vars, NEW e \in EdgeIds, Reweighed(e)
    PROVE  \E p \in Procs : ReinforceSession(p)
<1>1. /\ db.edges[e] # Null /\ db'.edges[e] # Null
      /\ db'.edges[e] # db.edges[e]
  BY DEF Reweighed
<1>2. db \in Database
  BY DEF IInv, TablesOK
<1>3. ASSUME NEW p \in Procs, CommandLinks(p) PROVE FALSE
  <2>1. PICK i \in Ids, j \in Ids, type \in EdgeTypes, w \in LinkWeights :
          \E name \in [{<<j, type>>} -> EdgeIds] :
             CanInsertEdges(db, i, name) /\ db' = InsertEdges(db, i, name, w)
    BY <1>3 DEF CommandLinks
  <2> QED
    BY <1>1, <1>2, <2>1, LinksKeepWeights
<1>4. ASSUME NEW p \in Procs, CommandDeletes(p) PROVE FALSE
  <2>1. \E i \in Ids : db' = DeleteEntries(db, {i}) \/ db' = db
    BY <1>4 DEF CommandDeletes
  <2> QED
    BY <1>1, <1>2, <2>1, DeletionsKeepWeights
<1>5. db' # db
  BY <1>1
<1> QED
  BY <1>3, <1>4, <1>5, OthersKeepTheDatabase

\* ... and there it moves by one of the boosts, at an entry that session
\* acted on.
LEMMA ReweighedFacts ==
    ASSUME IInv, [Next]_vars, NEW e \in EdgeIds, Reweighed(e)
    PROVE  \E s \in Sessions :
             /\ processed' = processed \cup {s}
             /\ events[s] \in Seq(Event)
             /\ ActedEnds(db, events[s], e) # {}
             /\ \E b \in 0..50 : db'.edges[e] = Moved(db.edges[e], b)
<1>1. /\ db.edges[e] # Null /\ db'.edges[e] # Null
      /\ db'.edges[e] # db.edges[e]
  BY DEF Reweighed
<1>2. db \in Database
  BY DEF IInv, TablesOK
<1>3. PICK s \in Sessions, rank \in Orders :
        /\ events[s] \in Seq(Event)
        /\ db' = Reinforced(db, events[s], rank)
        /\ processed' = processed \cup {s}
  BY WeightsMoveInReinforcement, ReinforceSessionFacts
<1>4. db'.edges[e] = ReinforcedEdge(db, events[s], rank, e)
  BY <1>2, <1>3, ReinforcedSound DEF IInv, TablesOK
<1>5. /\ ActedEnds(db, events[s], e) # {}
      /\ \E b \in 0..50 : db'.edges[e] = Moved(db.edges[e], b)
  BY <1>1, <1>2, <1>3, <1>4, ReinforcedEdgeFacts
<1> QED
  BY <1>3, <1>5

\* No session raises a weight past 0.5, whatever was logged to it and in
\* whatever order its entries are visited (query/reinforce.go).
THEOREM WeightsNeverSaturate == Spec => NeverSaturates
<1>1. IInv /\ [Next]_vars =>
        [\A e \in EdgeIds :
           Reweighed(e) =>
              \/ db'.edges[e].weight <= EffectiveWeight(db.edges[e].weight)
              \/ db'.edges[e].weight <= 500]_vars
  <2> SUFFICES ASSUME IInv, [Next]_vars, NEW e \in EdgeIds, Reweighed(e)
               PROVE  \/ db'.edges[e].weight
                            <= EffectiveWeight(db.edges[e].weight)
                      \/ db'.edges[e].weight <= 500
    OBVIOUS
  <2>1. PICK b \in 0..50 : db'.edges[e] = Moved(db.edges[e], b)
    BY ReweighedFacts
  <2>2. db.edges[e] \in Edge
    BY DEF Reweighed, IInv, TablesOK, Database
  <2>3. db.edges[e].weight \in Weights
    BY <2>2 DEF Edge
  <2>4. db'.edges[e].weight = Reweigh(db.edges[e].weight, b)
    BY <2>1, <2>2 DEF Moved, Edge
  <2> QED
    BY <2>3, <2>4, ReweighBounds
<1> QED
  BY <1>1, InvariantHolds, PTL DEF Spec, NeverSaturates

\* A weight moves only for an action that came after a recall in the same
\* session, on one of the ends of the edge (query/reinforce.go).
THEOREM BoostsAreEarned == Spec => RecallEarnsTheBoost
<1>1. IInv /\ [Next]_vars =>
        [\A s \in processed' \ processed, e \in EdgeIds :
           Reweighed(e) =>
              \E m, n \in DOMAIN events[s] :
                 /\ m < n
                 /\ events[s][m].type = "recall"
                 /\ events[s][n].ids
                       \cap {db.edges[e].from, db.edges[e].to} # {}]_vars
  <2> SUFFICES ASSUME IInv, [Next]_vars, NEW s \in processed' \ processed,
                      NEW e \in EdgeIds, Reweighed(e)
               PROVE  \E m, n \in DOMAIN events[s] :
                         /\ m < n
                         /\ events[s][m].type = "recall"
                         /\ events[s][n].ids
                               \cap {db.edges[e].from, db.edges[e].to} # {}
    OBVIOUS
  <2>1. ActedEnds(db, events[s], e) # {}
    BY ReweighedFacts
  <2>2. PICK n \in Acted(events[s]) :
          events[s][n].ids \cap {db.edges[e].from, db.edges[e].to} # {}
    BY <2>1 DEF ActedEnds, ActedIds
  <2> QED
    BY <2>2 DEF Acted
<1> QED
  BY <1>1, InvariantHolds, PTL DEF Spec, RecallEarnsTheBoost

-----------------------------------------------------------------------------
(***************************************************************************)
(* A session counts once.  Two reinforcers may hold the same list and work *)
(* it off twice; with only one of them, what is on its list has not been   *)
(* worked off, however often it was killed and started again.              *)
(***************************************************************************)
Ending == {"endUpdate", "endRemove", "endReinforce", "reinforce"}

Undone(p) == /\ pc[p] \in Ending => p \in Reinforcers
             /\ pc[p] = "reinforce" => job[p].todo \cap processed = {}

AllUndone == \A p \in Procs : Undone(p)

\* A step of p that marks no session.
LEMMA UndoneStays ==
    ASSUME IInv, AllUndone, NEW p \in Procs, NEW loc, NEW j, Goto(p, loc, j),
           UNCHANGED processed,
           loc \in Ending => p \in Reinforcers,
           loc = "reinforce" => j.todo \cap processed = {}
    PROVE  AllUndone'
<1>1. /\ pc'[p] = loc /\ job'[p] = j
      /\ \A q \in Procs \ {p} : pc'[q] = pc[q] /\ job'[q] = job[q]
  BY DEF IInv, JobsOK, Goto
<1> QED
  BY <1>1 DEF AllUndone, Undone

LEMMA UndoneAtExit ==
    ASSUME IInv, AllUndone, NEW p \in Procs, Exit(p), UNCHANGED processed
    PROVE  AllUndone'
BY UndoneStays DEF Exit, Ending

\* The only one that marks a session takes it off its list.
LEMMA ReinforceSessionUndone ==
    ASSUME IInv, AllUndone, \A p, q \in Reinforcers : p = q,
           NEW p \in Procs, ReinforceSession(p)
    PROVE  AllUndone'
<1>1. PICK s \in Sessions : processed' = processed \cup {s} /\ NextSession(p, s)
  BY ReinforceSessionFacts
<1>2. pc[p] = "reinforce" /\ p \in Reinforcers /\ job[p] \in Job
      /\ job[p].todo \cap processed = {}
  BY DEF ReinforceSession, AllUndone, Undone, Ending, IInv, JobsOK
<1>3. PICK loc, j : /\ Goto(p, loc, j)
                    /\ loc \in {"idle", "reinforce"}
                    /\ loc = "reinforce" => j.todo = job[p].todo \ {s}
  <2>1. CASE Exit(p)
    BY <2>1 DEF Exit
  <2>2. CASE Goto(p, "reinforce", [job[p] EXCEPT !.todo = @ \ {s}])
    <3>1. [job[p] EXCEPT !.todo = @ \ {s}].todo = job[p].todo \ {s}
      BY <1>2 DEF Job
    <3> QED
      BY <2>2, <3>1
  <2> QED
    BY <1>1, <2>1, <2>2 DEF NextSession
<1>4. /\ pc'[p] = loc /\ job'[p] = j
      /\ \A q \in Procs \ {p} : pc'[q] = pc[q] /\ job'[q] = job[q]
  BY <1>3 DEF IInv, JobsOK, Goto
<1>5. Undone(p)'
  BY <1>1, <1>2, <1>3, <1>4 DEF Undone, Ending
<1>6. ASSUME NEW q \in Procs, q # p PROVE Undone(q)'
  <2>1. pc[q] \notin Ending
    BY <1>2, <1>6 DEF AllUndone, Undone
  <2> QED
    BY <1>4, <1>6, <2>1 DEF Undone, Ending
<1> QED
  BY <1>5, <1>6 DEF AllUndone

LEMMA ReinforceListUndone ==
    ASSUME IInv, AllUndone, NEW p \in Procs, ReinforceList(p)
    PROVE  AllUndone'
<1>1. UNCHANGED processed /\ p \in Reinforcers
  BY DEF ReinforceList, tables, AllUndone, Undone, Ending
<1>2. CASE Exit(p)
  BY <1>1, <1>2, UndoneAtExit
<1>3. CASE Goto(p, "reinforce", [NoJob EXCEPT !.todo = Unprocessed])
  <2>1. Unprocessed \in SUBSET Sessions /\ Unprocessed \cap processed = {}
    BY DEF Unprocessed
  <2>2. [NoJob EXCEPT !.todo = Unprocessed].todo = Unprocessed
    BY <2>1, NoJobIsAJob
  <2> QED
    BY <1>1, <1>3, <2>1, <2>2, UndoneStays
<1> QED
  BY <1>2, <1>3 DEF ReinforceList

LEMMA UndoneStep ==
    ASSUME IInv, AllUndone, \A p, q \in Reinforcers : p = q, [Next]_vars
    PROVE  AllUndone'
<1>1. CASE UNCHANGED vars \/ FileExpires
  BY <1>1 DEF vars, tables, FileExpires, AllUndone, Undone
<1>2. ASSUME NEW p \in Procs,
             \/ StartRead(p) \/ StartCreate(p) \/ StartTruncate(p)
             \/ CommandStart(p) \/ CommandReads(p) \/ CommandLinks(p)
             \/ CommandDeletes(p) \/ LogEvent(p)
      PROVE  AllUndone'
  <2>1. UNCHANGED processed
    BY <1>2 DEF tables, StartRead, StartCreate, StartTruncate, CommandStart,
                CommandReads, CommandLinks, CommandDeletes, LogEvent
  <2>2. \E loc, j : Goto(p, loc, j) /\ loc \notin Ending
    <3>1. CASE StartRead(p)
      <4>1. PICK s \in Seen : \E j :
              Goto(p, IF s = Null THEN "startCreate" ELSE "startReuse", j)
        BY <3>1 DEF StartRead
      <4>2. (IF s = Null THEN "startCreate" ELSE "startReuse") \notin Ending
        BY DEF Ending
      <4> QED
        BY <4>1, <4>2
    <3>2. CASE StartCreate(p) \/ StartTruncate(p)
      <4>1. \E j : Goto(p, "startTruncate", j) \/ Goto(p, "startWrite", j)
        BY <3>2 DEF StartCreate, StartTruncate
      <4> QED
        BY <4>1 DEF Ending
    <3>3. CASE CommandStart(p) \/ LogEvent(p)
      <4>1. \E j : Goto(p, "command", j) \/ Goto(p, "touch", j)
        BY <3>3 DEF CommandStart, LogEvent
      <4> QED
        BY <4>1 DEF Ending
    <3>4. CASE CommandReads(p) \/ CommandLinks(p) \/ CommandDeletes(p)
      <4>1. \E type, args : LogNext(p, type, args)
        BY <3>4, Zenon DEF CommandReads, CommandLinks, CommandDeletes
      <4> QED
        BY <4>1 DEF LogNext, Ending
    <3> QED
      BY <1>2, <3>1, <3>2, <3>3, <3>4
  <2>3. PICK loc, j : Goto(p, loc, j) /\ loc \notin Ending
    BY <2>2
  <2> QED
    BY <2>1, <2>3, UndoneStays DEF Ending
<1>3. ASSUME NEW p \in Procs,
             StartReuse(p) \/ StartWrite(p) \/ TouchFile(p) \/ Crash(p)
      PROVE  AllUndone'
  BY <1>3, UndoneAtExit DEF tables, StartReuse, StartWrite, TouchFile, Crash
<1>4. ASSUME NEW p \in Procs, EndRead(p) \/ EndUpdate(p) \/ EndRemove(p)
      PROVE  AllUndone'
  <2>1. UNCHANGED processed /\ p \in Reinforcers
    BY <1>4 DEF tables, EndRead, EndUpdate, EndRemove, AllUndone, Undone, Ending
  <2>2. \E j : \/ Goto(p, "endUpdate", j) \/ Goto(p, "endRemove", j)
              \/ Goto(p, "endReinforce", j)
    BY <1>4 DEF EndRead, EndUpdate, EndRemove
  <2>3. PICK loc, j : loc \in Ending \ {"reinforce"} /\ Goto(p, loc, j)
    BY <2>2 DEF Ending
  <2> QED
    BY <2>1, <2>3, UndoneStays
<1> QED
  BY <1>1, <1>2, <1>3, <1>4, ReinforceListUndone, ReinforceSessionUndone
     DEF Next

\* As long as one process at most runs `session end` or gc, a weight moves
\* only together with the mark of a session that had none, across kills and
\* repeats (query/reinforce.go Reinforce: sessions "are idempotent"; that two
\* such processes break this is the run doubleboost).
THEOREM OneReinforcerBoostsOnce ==
    ASSUME \A p, q \in Reinforcers : p = q
    PROVE  Spec => OneBoostPerSession
<1>1. Init => AllUndone
  BY DEF Init, AllUndone, Undone, Ending
<1>2. IInv /\ AllUndone /\ [Next]_vars => AllUndone'
  BY UndoneStep
<1>3. IInv /\ AllUndone /\ [Next]_vars =>
        [(\E e \in EdgeIds : Reweighed(e)) => processed' # processed]_vars
  <2> SUFFICES ASSUME IInv, AllUndone, [Next]_vars,
                      NEW e \in EdgeIds, Reweighed(e)
               PROVE  processed' # processed
    OBVIOUS
  <2>1. PICK p \in Procs : ReinforceSession(p)
    BY WeightsMoveInReinforcement
  <2>2. PICK s \in job[p].todo : processed' = processed \cup {s}
    BY <2>1 DEF ReinforceSession
  <2>3. job[p].todo \cap processed = {}
    BY <2>1 DEF ReinforceSession, AllUndone, Undone
  <2> QED
    BY <2>2, <2>3
<1> QED
  BY <1>1, <1>2, <1>3, InvariantHolds, PTL DEF Spec, OneBoostPerSession

-----------------------------------------------------------------------------
(***************************************************************************)
(* What happens under sessions keeps the storage contract (KnownStore).    *)
(***************************************************************************)
\* The instance reads a database as KnownSessions does.
LEMMA ContractReadings ==
    /\ \A i : Store!Untouched(i) <=> SameEntry(db, db', i)
    /\ \A d, e : Store!Present(d, e) <=> Present(d, e)
    /\ \A d, i : Store!Live(d, i) <=> Live(d, i)
    /\ Store!Consistent(db') <=> Consistent(db')
<1>1. /\ \A i : Store!LabelsOf(db, i) = LabelsOf(db, i)
      /\ \A i : Store!LabelsOf(db', i) = LabelsOf(db', i)
  BY DEF LabelsOf, Store!LabelsOf
<1>2. \A i : Store!Untouched(i) <=> SameEntry(db, db', i)
  BY <1>1 DEF Store!Untouched, SameEntry
<1>3. Store!Consistent(db') <=> Consistent(db')
  BY DEF Consistent, ScopesExist, ContentUnique, LabelsOwned, EdgesAnchored,
         Live, Present,
         Store!Consistent, Store!ScopesExist, Store!ContentUnique,
         Store!LabelsOwned, Store!EdgesAnchored, Store!Live, Store!Present
<1>4. \A d, e : Store!Present(d, e) <=> Present(d, e)
  BY DEF Present, Store!Present
<1>5. \A d, i : Store!Live(d, i) <=> Live(d, i)
  BY DEF Live, Store!Live
<1> QED
  BY <1>2, <1>3, <1>4, <1>5

\* New edges and new weights: no edge becomes another one.
LEMMA EdgesKeepTheContract ==
    ASSUME db \in Database, Consistent(db'),
           db'.entries = db.entries, db'.labels = db.labels,
           db'.scopes = db.scopes,
           \A e \in EdgeIds : Present(db, e) /\ Present(db', e) =>
             db'.edges[e] = [db.edges[e] EXCEPT !.weight = db'.edges[e].weight]
    PROVE  Store!Next
<1>1. \A i : SameEntry(db, db', i)
  BY DEF SameEntry, LabelsOf
<1>2. Store!ChangeEdges
  BY <1>1, ContractReadings DEF Store!ChangeEdges
<1> QED
  BY <1>2, ContractReadings DEF Store!Next

LEMMA LinksKeepTheContract ==
    ASSUME IInv, NEW p \in Procs, CommandLinks(p), Consistent(db')
    PROVE  Store!Next
<1>1. PICK i \in Ids, j \in Ids, type \in EdgeTypes, w \in LinkWeights :
        \E name \in [{<<j, type>>} -> EdgeIds] :
           CanInsertEdges(db, i, name) /\ db' = InsertEdges(db, i, name, w)
  BY DEF CommandLinks
<1>2. db \in Database
  BY DEF IInv, TablesOK
<1>3. /\ db'.entries = db.entries /\ db'.labels = db.labels
      /\ db'.scopes = db.scopes
      /\ \A e \in EdgeIds : db'.edges[e] = db.edges[e] \/ ~Present(db, e)
  BY <1>1, <1>2, InsertEdgesShape
<1>4. ASSUME NEW e \in EdgeIds, Present(db, e)
      PROVE  db'.edges[e] = [db.edges[e] EXCEPT !.weight = db'.edges[e].weight]
  <2>1. db'.edges[e] = db.edges[e] /\ db.edges[e] \in Edge
    BY <1>2, <1>3, <1>4 DEF Present, Database
  <2> QED
    BY <2>1 DEF Edge
<1> QED
  BY <1>2, <1>3, <1>4, EdgesKeepTheContract

LEMMA DeletesKeepTheContract ==
    ASSUME IInv, NEW p \in Procs, CommandDeletes(p), db' # db, Consistent(db')
    PROVE  Store!Next
<1>1. PICK i \in Ids : db' = DeleteEntries(db, {i})
  BY DEF CommandDeletes
<1>2. db \in Database /\ {i} \in SUBSET Ids
  BY DEF IInv, TablesOK
<1>3. Removes(db, db', {i})
  BY <1>1, <1>2, DeleteEntriesShape DEF Removes, SameEntry
<1>4. Store!Remove({i})
  BY <1>3, ContractReadings DEF Removes, Store!Remove
<1> QED
  BY <1>2, <1>4, ContractReadings DEF Store!Next

LEMMA ReinforcementKeepsTheContract ==
    ASSUME IInv, NEW p \in Procs, ReinforceSession(p), Consistent(db')
    PROVE  Store!Next
<1>1. PICK s \in Sessions, rank \in Orders :
        events[s] \in Seq(Event) /\ db' = Reinforced(db, events[s], rank)
  BY ReinforceSessionFacts
<1>2. db \in Database /\ Consistent(db)
  BY DEF IInv, TablesOK
<1>3. /\ db'.entries = db.entries /\ db'.labels = db.labels
      /\ db'.scopes = db.scopes
  BY <1>1, <1>2 DEF Reinforced, Database
<1>4. ASSUME NEW e \in EdgeIds, Present(db, e)
      PROVE  db'.edges[e] = [db.edges[e] EXCEPT !.weight = db'.edges[e].weight]
  <2>1. db'.edges[e] = ReinforcedEdge(db, events[s], rank, e)
    BY <1>1, <1>2, ReinforcedSound
  <2>2. db.edges[e] \in Edge
    BY <1>2, <1>4 DEF Present, Database
  <2>3. CASE db'.edges[e] = db.edges[e]
    BY <2>2, <2>3 DEF Edge
  <2>4. CASE db'.edges[e] # db.edges[e]
    <3>1. ReinforcedEdge(db, events[s], rank, e) # db.edges[e]
      BY <2>1, <2>4
    <3>2. \E b \in 0..50 :
            ReinforcedEdge(db, events[s], rank, e) = Moved(db.edges[e], b)
      BY ONLY <3>1, <1>1, <1>2, e \in EdgeIds, rank \in Orders,
              ReinforcedEdgeFacts
    <3>3. PICK b \in 0..50 : db'.edges[e] = Moved(db.edges[e], b)
      BY ONLY <2>1, <3>2
    <3>4. db'.edges[e].weight = Reweigh(db.edges[e].weight, b)
      BY <2>2, <3>3 DEF Moved, Edge
    <3> QED
      BY <3>3, <3>4 DEF Moved
  <2> QED
    BY <2>3, <2>4
<1> QED
  BY <1>2, <1>3, <1>4, EdgesKeepTheContract

\* Commands under a session and the reinforcement commit only what the
\* storage contract allows: no weight change turns an edge into another one,
\* and a deleted entry takes its edges with it (storage/storage.go; query/reinforce.go).
THEOREM SessionsKeepTheContract == Spec => CommitsKeepTheContract
<1>1. IInv /\ [Next]_vars => [db' # db => Store!Next]_vars
  <2> SUFFICES ASSUME IInv, [Next]_vars, db' # db PROVE Store!Next
    OBVIOUS
  <2>1. Consistent(db')
    BY StepOK DEF IInv, TablesOK
  <2> QED
    BY <2>1, OthersKeepTheDatabase, LinksKeepTheContract,
       DeletesKeepTheContract, ReinforcementKeepsTheContract
<1> QED
  BY <1>1, InvariantHolds, PTL DEF Spec, CommitsKeepTheContract
=============================================================================
