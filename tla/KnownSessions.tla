--------------------------- MODULE KnownSessions ---------------------------
(***************************************************************************)
(* Agent sessions and the reinforcement of edge weights.                   *)
(*                                                                         *)
(* A session is a row of the database and, while it is the current one,    *)
(* the content of the file ~/.known/session.  Commands read the file when  *)
(* they start and, when they have succeeded, log an event to the session   *)
(* they found there.  `session end` and `gc` turn the events of the ended  *)
(* sessions into weight changes, one transaction per session.  All of this *)
(* is done by short-lived processes that run concurrently and may be       *)
(* killed between any two steps.                                           *)
(*                                                                         *)
(* A weight w in [0, 1] is the integer 1000 * w, rounded down.             *)
(***************************************************************************)
EXTENDS KnownDB, FiniteSets

CONSTANTS
    Sessions,     \* session identifiers
    Procs,        \* processes that may run at the same time
    Agents,       \* those that run `session start` and ordinary commands
    Reinforcers,  \* those that run `session end` or `gc`
    InitialDB,    \* the knowledge base the sessions work on
    Exported,     \* whether a process may have KNOWN_SESSION set
    LinkWeights,  \* values of `known link --weight`, Null for none
    MaxEvents     \* bound: events logged to all sessions together

ASSUME SessionsAssumption == Null \notin Sessions

ASSUME WeightsAssumption == Weights = 0..1000 \cup {Null}

ASSUME InitialAssumption == InitialDB \in Database /\ Consistent(InitialDB)

ASSUME IdsAssumption == IsFiniteSet(Ids)

ASSUME ParametersAssumption == /\ Agents \subseteq Procs
                               /\ Reinforcers \subseteq Procs
                               /\ Exported \in BOOLEAN
                               /\ LinkWeights \subseteq Weights
                               /\ MaxEvents \in Nat

(***************************************************************************)
(* Reinforcement.  "recall" stands for recall and search alike.            *)
(***************************************************************************)
Actions == {"show", "update", "link", "delete"}

Event == [type : Actions \cup {"recall"}, ids : SUBSET Ids]

DefaultWeight == 500
MinWeight     == 10
MaxWeight     == 1000

Boost == [show |-> 20, update |-> 50, link |-> 50, delete |-> 0]

Strength == [show |-> 1, update |-> 2, link |-> 2, delete |-> 0]

\* The positions of the events that act on an entry after a recall.
ActedAnytime(evs) == {n \in DOMAIN evs : evs[n].type \in Actions}
Acted(evs) ==
    {n \in DOMAIN evs :
        /\ evs[n].type \in Actions
        /\ \E m \in DOMAIN evs : m < n /\ evs[m].type = "recall"}

ActedIds(evs) == UNION {evs[n].ids : n \in Acted(evs)}

\* The strongest action on an entry; equal strengths have equal boosts.
BestAction(evs, i) ==
    LET on == {n \in Acted(evs) : i \in evs[n].ids}
    IN  evs[CHOOSE n \in on : \A m \in on :
                Strength[evs[m].type] <= Strength[evs[n].type]].type

EffectiveWeight(w) == IF w = Null THEN DefaultWeight ELSE w

Clamp(w) == IF w > MaxWeight THEN MaxWeight
            ELSE IF w < MinWeight THEN MinWeight ELSE w

\* Decay first, then boost, then the bounds.
ReweighWithoutDecay(w, boost) == Clamp(EffectiveWeight(w) + boost)
ReweighUnbounded(w, boost) == EffectiveWeight(w) + boost
Reweigh(w, boost) == Clamp((EffectiveWeight(w) * 9) \div 10 + boost)

\* The orders in which the map of acted entries may be iterated.
Orders == {r \in [Ids -> 1..Cardinality(Ids)] :
             \A i, j \in Ids : r[i] = r[j] => i = j}

\* Each edge at an acted entry moves once, by the boost of the end that the
\* iteration meets first.
ActedEnds(d, evs, e) == {d.edges[e].from, d.edges[e].to} \cap ActedIds(evs)

FirstActed(d, evs, rank, e) ==
    CHOOSE i \in ActedEnds(d, evs, e) :
        \A j \in ActedEnds(d, evs, e) : rank[i] <= rank[j]

ReinforcedEdge(d, evs, rank, e) ==
    IF d.edges[e] # Null /\ ActedEnds(d, evs, e) # {}
    THEN [d.edges[e] EXCEPT !.weight =
            Reweigh(@, Boost[BestAction(evs, FirstActed(d, evs, rank, e))])]
    ELSE d.edges[e]

Reinforced(d, evs, rank) ==
    [d EXCEPT !.edges = [e \in EdgeIds |-> ReinforcedEdge(d, evs, rank, e)]]

-----------------------------------------------------------------------------
VARIABLES
    db,         \* the knowledge base
    row,        \* row[s]: the row of session s
    events,     \* events[s]: its events, ordered by created_at
    processed,  \* the sessions in session_reinforcements
    file,       \* the session the session file names, Null if none
    stale,      \* the file is older than sessionExpiry
    pc,         \* pc[p]: where process p is in its command
    job         \* job[p]: what process p remembers between two steps

vars == <<db, row, events, processed, file, stale, pc, job>>
tables == <<db, row, events, processed>>
sessionFile == <<file, stale>>

NoEvent == [type |-> "recall", ids |-> {}]

Job == [session : Sessions \cup {Null}, event : Event, after : Nat,
        todo : SUBSET Sessions]

NoJob == [session |-> Null, event |-> NoEvent, after |-> 0, todo |-> {}]

Locations == {"idle", "startReuse", "startCreate", "startTruncate",
              "startWrite", "command", "log", "touch",
              "endUpdate", "endRemove", "endReinforce", "reinforce"}

TypeOK == /\ db \in Database
          /\ row \in [Sessions -> {"none", "open", "ended"}]
          /\ events \in [Sessions -> Seq(Event)]
          /\ processed \in SUBSET Sessions
          /\ file \in Sessions \cup {Null}
          /\ stale \in BOOLEAN
          /\ pc \in [Procs -> Locations]
          /\ job \in [Procs -> Job]

Init == /\ db = InitialDB
        /\ row = [s \in Sessions |-> "none"]
        /\ events = [s \in Sessions |-> <<>>]
        /\ processed = {}
        /\ file = Null
        /\ stale = FALSE
        /\ pc = [p \in Procs |-> "idle"]
        /\ job = [p \in Procs |-> NoJob]

Goto(p, loc, j) == /\ pc' = [pc EXCEPT ![p] = loc]
                   /\ job' = [job EXCEPT ![p] = j]

Exit(p) == Goto(p, "idle", NoJob)

\* readSessionID: KNOWN_SESSION if it is set, else the file unless it is
\* missing, empty or too old.
Seen == {IF stale THEN Null ELSE file}
          \cup (IF Exported THEN {s \in Sessions : row[s] # "none"} ELSE {})

-----------------------------------------------------------------------------
(***************************************************************************)
(* known session start.  WriteFile truncates the file, then fills it.      *)
(***************************************************************************)
StartRead(p) ==
    /\ pc[p] = "idle" /\ p \in Agents
    /\ \E s \in Seen :
         Goto(p, IF s = Null THEN "startCreate" ELSE "startReuse",
              [NoJob EXCEPT !.session = s])
    /\ UNCHANGED <<tables, sessionFile>>

StartReuse(p) ==
    pc[p] = "startReuse" /\ Exit(p) /\ UNCHANGED <<tables, sessionFile>>

StartCreateUnchecked(p) ==
    /\ pc[p] = "startCreate"
    /\ \E s \in Sessions :
         /\ row[s] = "none"
         /\ \/ row' = [row EXCEPT ![s] = "open"]
            \/ UNCHANGED row
         /\ Goto(p, "startTruncate", [NoJob EXCEPT !.session = s])
    /\ UNCHANGED <<db, events, processed, sessionFile>>
StartCreate(p) ==
    /\ pc[p] = "startCreate"
    /\ \E s \in Sessions :
         /\ row[s] = "none"
         /\ row' = [row EXCEPT ![s] = "open"]
         /\ Goto(p, "startTruncate", [NoJob EXCEPT !.session = s])
    /\ UNCHANGED <<db, events, processed, sessionFile>>

StartTruncate(p) ==
    /\ pc[p] = "startTruncate"
    /\ file' = Null /\ stale' = FALSE
    /\ Goto(p, "startWrite", job[p])
    /\ UNCHANGED tables

StartWrite(p) ==
    /\ pc[p] = "startWrite"
    /\ file' = job[p].session /\ stale' = FALSE
    /\ Exit(p)
    /\ UNCHANGED tables

-----------------------------------------------------------------------------
(***************************************************************************)
(* A command under a session: initApp reads the session, the command does  *)
(* its work (here: what it does to the edges), and logSessionEvent logs it *)
(* with those of its arguments that are identifiers, then touches the file.*)
(***************************************************************************)
CommandStart(p) ==
    /\ pc[p] = "idle" /\ p \in Agents
    /\ \E s \in Seen \ {Null} :
         Goto(p, "command", [NoJob EXCEPT !.session = s])
    /\ UNCHANGED <<tables, sessionFile>>

LogNext(p, type, args) ==
    \E ids \in SUBSET args :
        Goto(p, "log", [job[p] EXCEPT !.event = [type |-> type, ids |-> ids],
                                      !.after = Len(events[job[p].session])])

CommandReads(p) ==
    /\ pc[p] = "command"
    /\ \/ LogNext(p, "recall", {})
       \/ \E i \in Ids, type \in {"show", "update"} :
             Live(db, i) /\ LogNext(p, type, {i})
    /\ UNCHANGED <<tables, sessionFile>>

CommandLinks(p) ==
    /\ pc[p] = "command"
    /\ \E i, j \in Ids, type \in EdgeTypes, w \in LinkWeights :
         \E name \in [{<<j, type>>} -> EdgeIds] :
            /\ CanInsertEdges(db, i, name)
            /\ db' = InsertEdges(db, i, name, w)
            /\ LogNext(p, "link", {i, j})
    /\ UNCHANGED <<row, events, processed, sessionFile>>

\* A delete that is not confirmed returns no error, and is logged like one
\* that took place.
CommandDeletesRowOnly(p) ==
    /\ pc[p] = "command"
    /\ \E i \in Ids : /\ Live(db, i)
                      /\ db' \in {[db EXCEPT !.entries[i] = Null], db}
                      /\ LogNext(p, "delete", {i})
    /\ UNCHANGED <<row, events, processed, sessionFile>>
CommandDeletes(p) ==
    /\ pc[p] = "command"
    /\ \E i \in Ids : /\ Live(db, i)
                      /\ db' \in {DeleteEntries(db, {i}), db}
                      /\ LogNext(p, "delete", {i})
    /\ UNCHANGED <<row, events, processed, sessionFile>>

Logged == Cardinality(UNION {{s} \X DOMAIN events[s] : s \in Sessions})

\* The session may have ended, or have been processed, since it was read.
\* created_at is read before the INSERT, so an event another process logged
\* in between may come before this one or after it.  An error is ignored.
LogEvent(p) ==
    /\ pc[p] = "log"
    /\ \/ /\ Logged < MaxEvents
          /\ \E n \in job[p].after..Len(events[job[p].session]) :
                events' = [events EXCEPT ![job[p].session] =
                    SubSeq(@, 1, n) \o <<job[p].event>>
                                    \o SubSeq(@, n + 1, Len(@))]
       \/ UNCHANGED events
    /\ Goto(p, "touch", NoJob)
    /\ UNCHANGED <<db, row, processed, sessionFile>>

\* Whatever session the file names by now.
TouchFile(p) ==
    /\ pc[p] = "touch"
    /\ stale' = FALSE
    /\ Exit(p)
    /\ UNCHANGED <<tables, file>>

-----------------------------------------------------------------------------
(***************************************************************************)
(* known session end, and the reinforcement that it and gc run.            *)
(***************************************************************************)
EndRead(p) ==
    /\ pc[p] = "idle" /\ p \in Reinforcers
    /\ \E s \in Seen \ {Null} :
         Goto(p, "endUpdate", [NoJob EXCEPT !.session = s])
    /\ UNCHANGED <<tables, sessionFile>>

EndUpdate(p) ==
    /\ pc[p] = "endUpdate"
    /\ row' = [row EXCEPT ![job[p].session] = "ended"]
    /\ Goto(p, "endRemove", NoJob)
    /\ UNCHANGED <<db, events, processed, sessionFile>>

\* Whatever session the file names by now.
EndRemove(p) ==
    /\ pc[p] = "endRemove"
    /\ file' = Null /\ stale' = FALSE
    /\ Goto(p, "endReinforce", NoJob)
    /\ UNCHANGED tables

UnprocessedEvenOpen == {s \in Sessions : row[s] # "none"} \ processed
Unprocessed == {s \in Sessions : row[s] = "ended"} \ processed

\* The list is read outside the transactions that work it off.
ReinforceList(p) ==
    /\ \/ pc[p] = "endReinforce"
       \/ pc[p] = "idle" /\ p \in Reinforcers   \* gc
    /\ IF Unprocessed = {}
       THEN Exit(p)
       ELSE Goto(p, "reinforce", [NoJob EXCEPT !.todo = Unprocessed])
    /\ UNCHANGED <<tables, sessionFile>>

NextSession(p, s) == IF job[p].todo = {s}
                     THEN Exit(p)
                     ELSE Goto(p, "reinforce", [job[p] EXCEPT !.todo = @ \ {s}])

\* One transaction: the events, the weights and the mark, which is an INSERT
\* that does nothing when the session is marked already.
ReinforceForgetsMark(p) ==
    /\ pc[p] = "reinforce"
    /\ \E s \in job[p].todo, rank \in Orders :
         /\ db' = Reinforced(db, events[s], rank)
         /\ UNCHANGED processed
         /\ NextSession(p, s)
    /\ UNCHANGED <<row, events, sessionFile>>
ReinforceSession(p) ==
    /\ pc[p] = "reinforce"
    /\ \E s \in job[p].todo, rank \in Orders :
         /\ db' = Reinforced(db, events[s], rank)
         /\ processed' = processed \cup {s}
         /\ NextSession(p, s)
    /\ UNCHANGED <<row, events, sessionFile>>

-----------------------------------------------------------------------------
\* A process is killed, or stops on an error (a busy database rolls the
\* transaction of ReinforceSession back, and the command goes no further).
Crash(p) ==
    pc[p] # "idle" /\ Exit(p) /\ UNCHANGED <<tables, sessionFile>>

FileExpires ==
    /\ file # Null /\ ~stale
    /\ stale' = TRUE
    /\ UNCHANGED <<tables, file, pc, job>>

Next ==
    \/ \E p \in Procs :
         \/ StartRead(p) \/ StartReuse(p) \/ StartCreate(p)
         \/ StartTruncate(p) \/ StartWrite(p)
         \/ CommandStart(p) \/ CommandReads(p) \/ CommandLinks(p)
         \/ CommandDeletes(p) \/ LogEvent(p) \/ TouchFile(p)
         \/ EndRead(p) \/ EndUpdate(p) \/ EndRemove(p)
         \/ ReinforceList(p) \/ ReinforceSession(p)
         \/ Crash(p)
    \/ FileExpires

Spec == Init /\ [][Next]_vars

(***************************************************************************)
(* What a knowledge base that is looked after can rely on: a `session end` *)
(* that runs gets on, `gc` is run again and again, and it is not killed in *)
(* every run before it has committed a session.  Nothing is assumed of the *)
(* agents: they may stop, or leave a session open for ever.                *)
(***************************************************************************)
Fairness ==
    \A p \in Reinforcers : /\ WF_vars(EndUpdate(p) \/ EndRemove(p))
                           /\ SF_vars(ReinforceList(p))
                           /\ SF_vars(ReinforceSession(p))

FairSpec == Spec /\ Fairness

-----------------------------------------------------------------------------
(***************************************************************************)
(* Properties.                                                             *)
(***************************************************************************)

\* Only a session that has ended is worked off, whatever crashed in between
\* (storage/sqlite/session.go ListUnprocessedSessions).
ProcessedAreEnded == \A s \in processed : row[s] = "ended"

\* The session file never names a session the database does not have: the
\* events of an agent that follows it would all be refused.
FileNamesASession == file # Null => row[file] # "none"

Reweighed(e) == /\ db.edges[e] # Null /\ db'.edges[e] # Null
                /\ db'.edges[e].weight # db.edges[e].weight

\* A session moves weights at most once: no weight changes without the mark
\* of a session that was not marked before, across crashes and repeats
\* (query/reinforce.go Reinforce: one transaction "to prevent
\* double-boosting", and sessions "are idempotent").
OneBoostPerSession ==
    [][(\E e \in EdgeIds : Reweighed(e)) => processed' # processed]_vars

\* Signal only from action after recall: the edge a session moves has an end
\* on which the session acted later than it had recalled something
\* (query/reinforce.go findActedEvents).
RecallEarnsTheBoost ==
    [][\A s \in processed' \ processed, e \in EdgeIds :
         Reweighed(e) =>
            \E m, n \in DOMAIN events[s] :
               /\ m < n
               /\ events[s][m].type = "recall"
               /\ events[s][n].ids
                     \cap {db.edges[e].from, db.edges[e].to} # {}]_vars

\* Reinforcement raises no weight past 0.5, the equilibrium of the strongest
\* boost, which keeps weights meaningful (query/reinforce.go
\* DefaultReinforceConfig: "the default cycle will not saturate it").
NeverSaturates ==
    [][\A e \in EdgeIds :
         Reweighed(e) =>
            \/ db'.edges[e].weight <= EffectiveWeight(db.edges[e].weight)
            \/ db'.edges[e].weight <= 500]_vars

\* What was learnt in a session that has ended reaches the weights: however
\* often processes are killed between the two, the session is worked off
\* (storage/sqlite/session.go ListUnprocessedSessions, cmd/gc.go).
EndedIsReinforced ==
    \A s \in Sessions : row[s] = "ended" ~> s \in processed

Store == INSTANCE KnownStore WITH store <- db

\* Whatever commands do under a session, and whatever reinforcement does to
\* the weights, each commit is one that the storage contract allows: an edge
\* may come, go or get another weight, but is never turned into another
\* edge, and deleting an entry leaves nothing that hangs on it
\* (storage/storage.go EdgeRepo, EntryRepo; query/reinforce.go Reinforce).
CommitsKeepTheContract == [][db' # db => Store!Next]_vars

\* `session start` resumes a session only while it is open ("Start or resume
\* an agent session", cmd/session.go).
ResumesOpenSession ==
    [][\A p \in Procs :
         pc[p] = "idle" /\ pc'[p] = "startReuse"
           => row[job'[p].session] = "open"]_vars
=============================================================================
