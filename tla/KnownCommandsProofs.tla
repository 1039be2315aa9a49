------------------------ MODULE KnownCommandsProofs ------------------------
(***************************************************************************)
(* Theorems about KnownCommands, for any number of processes, entries,     *)
(* scopes and labels.                                                      *)
(*                                                                         *)
(* The type invariant and the schema are not inductive by themselves: a    *)
(* statement is sound because of what its process remembers, so IInv adds  *)
(* what a process holds at each location (Fits), and that every live entry *)
(* has been given an identifier that is never given again.                 *)
(***************************************************************************)
EXTENDS KnownCommands, KnownDBProofs

\* What the memory j of a process holds at location loc.
Fits(loc, j) ==
    /\ loc \in {"updateRead", "updateScope", "updateRow", "updateClear",
                "updateLabels", "delete", "link", "accept", "acceptLink"}
         => j.id \in Ids
    /\ loc \in {"updateRead", "updateScope", "updateRow"} => j.base \in Row
    /\ loc \in {"updateScope", "updateRow"} =>
         /\ j.want \in Row
         /\ j.want.version = j.base.version
         /\ j.want.created = j.base.created
    /\ loc \in {"updateScope", "scopeCreate"} =>
         j.path \in Paths /\ j.done < Len(j.path)
    /\ loc \in {"scopeDelete", "scopeDeleteTree"} => j.path \in Paths
    /\ loc = "acceptLink" => j.link \in Links

LiveAreUsed == \A i \in Ids : Live(db, i) => i \in used

DatabaseOK == /\ db \in Database
              /\ Consistent(db)
              /\ now \in Nat
              /\ used \in SUBSET Ids
              /\ LiveAreUsed

JobsOK == /\ pc \in [Procs -> Locations]
          /\ job \in [Procs -> Job]
          /\ \A p \in Procs : Fits(pc[p], job[p])

IInv == DatabaseOK /\ JobsOK

-----------------------------------------------------------------------------
\* The memory of an idle process is well formed.
LEMMA NoJobIsAJob == NoJob \in Job
BY DEF NoJob, Job

\* A process may move to a location with a memory that fits it; the
\* memories of the others still fit theirs.
LEMMA GotoOK ==
    ASSUME JobsOK, NEW p \in Procs, NEW loc \in Locations, NEW j \in Job,
           Fits(loc, j), Goto(p, loc, j)
    PROVE  JobsOK'
<1>1. /\ pc' \in [Procs -> Locations]
      /\ job' \in [Procs -> Job]
      /\ \A q \in Procs : /\ pc'[q] = IF q = p THEN loc ELSE pc[q]
                          /\ job'[q] = IF q = p THEN j ELSE job[q]
  BY DEF JobsOK, Goto
<1>2. \A q \in Procs : Fits(pc'[q], job'[q])
  BY <1>1 DEF JobsOK
<1> QED
  BY <1>1, <1>2 DEF JobsOK

\* A command that ends, in success, error or death, forgets everything.
LEMMA ExitOK ==
    ASSUME JobsOK, NEW p \in Procs, Exit(p)
    PROVE  JobsOK'
<1>1. Fits("idle", NoJob) /\ "idle" \in Locations
  BY DEF Fits, Locations
<1> QED
  BY <1>1, NoJobIsAJob, GotoOK DEF Exit

\* A read leaves a sound database sound.
LEMMA ReadsOnlyOK ==
    ASSUME DatabaseOK, ReadsOnly
    PROVE  DatabaseOK'
BY DEF DatabaseOK, ReadsOnly, LiveAreUsed, Live

\* A statement that leaves a sound database with no new entry.
LEMMA WritesOK ==
    ASSUME DatabaseOK, NEW d, Writes(d), Sound(d),
           \A i \in Ids : Live(d, i) => Live(db, i)
    PROVE  DatabaseOK'
BY DEF DatabaseOK, Writes, Sound, LiveAreUsed, Live

\* The same for a statement that touches scopes, labels or edges only.
LEMMA WritesSameEntriesOK ==
    ASSUME DatabaseOK, NEW d, Writes(d), Sound(d), d.entries = db.entries
    PROVE  DatabaseOK'
BY WritesOK DEF Live

-----------------------------------------------------------------------------
\* The migrations leave an empty, and therefore sound, database.
LEMMA InitOK == Init => IInv
<1> SUFFICES ASSUME Init PROVE IInv
  OBVIOUS
<1>1. EmptyDatabase \in Database
  BY DEF EmptyDatabase, Database
<1>2. \A i \in Ids : ~Live(EmptyDatabase, i)
  BY DEF EmptyDatabase, Live
<1>3. Consistent(EmptyDatabase)
  BY <1>2 DEF EmptyDatabase, Consistent, ScopesExist, ContentUnique,
              LabelsOwned, EdgesAnchored, Present
<1>4. DatabaseOK
  BY <1>1, <1>2, <1>3 DEF Init, DatabaseOK, LiveAreUsed
<1>5. JobsOK
  BY NoJobIsAJob DEF Init, JobsOK, Locations, Fits
<1> QED
  BY <1>4, <1>5 DEF IInv

-----------------------------------------------------------------------------
(***************************************************************************)
(* Every action preserves the invariant.                                   *)
(***************************************************************************)
LEMMA AddResolveOK ==
    ASSUME IInv, NEW p \in Procs, AddResolve(p) PROVE IInv'
<1>1. DatabaseOK'
  BY ReadsOnlyOK DEF IInv, AddResolve
<1>2. PICK links \in SUBSET (LiveIds \X EdgeTypes) :
        Goto(p, "addTx", [NoJob EXCEPT !.at = now, !.links = links])
  BY DEF AddResolve
<1> DEFINE j == [NoJob EXCEPT !.at = now, !.links = links]
<1>3. links \in SUBSET Links /\ now \in Nat
  BY DEF LiveIds, Links, IInv, DatabaseOK
<1>4. j \in Job
  BY <1>3, NoJobIsAJob DEF Job
<1>5. Fits("addTx", j) /\ "addTx" \in Locations
  BY DEF Fits, Locations
<1> HIDE DEF j
<1>6. JobsOK'
  BY <1>2, <1>4, <1>5, GotoOK DEF IInv, j
<1> QED
  BY <1>1, <1>6 DEF IInv

\* The transaction of add: what it commits is an upsert followed by edges
\* from its row, or nothing.
LEMMA AddTxOK ==
    ASSUME IInv, NEW p \in Procs, AddTx(p) PROVE IInv'
<1>1. JobsOK'
  BY ExitOK DEF IInv, AddTx
<1>2. PICK i \in Ids, c \in Contents, s \in Paths, t \in Titles,
           ls \in SUBSET Labels, ttl \in TTLs \cup {Null} :
        LET row == [content |-> c, scope |-> s, title |-> t,
                    created |-> job[p].at,
                    expires |-> ExpiresAt(job[p].at, ttl), version |-> 1]
            r   == UpsertTarget(db, i, row)
            w   == CreateOrUpdate(db, i, row, ls)
        IN  /\ CanUpsert(db, i, row)
            /\ \/ \E name \in [job[p].links -> EdgeIds] :
                     /\ CanInsertEdges(w, r, name)
                     /\ db' = InsertEdges(w, r, name, Null)
                     /\ used' = used \cup {r}
               \/ UNCHANGED <<db, used>>
  BY DEF AddTx
<1> DEFINE row == [content |-> c, scope |-> s, title |-> t,
                   created |-> job[p].at,
                   expires |-> ExpiresAt(job[p].at, ttl), version |-> 1]
           r == UpsertTarget(db, i, row)
           w == CreateOrUpdate(db, i, row, ls)
<1>3. now' = now
  BY DEF AddTx
<1>4. job[p] \in Job
  BY DEF IInv, JobsOK
<1>5. job[p].at \in Nat /\ job[p].links \in SUBSET Links
  BY <1>4 DEF Job
<1>6. row \in Row
  <2>1. ExpiresAt(job[p].at, ttl) \in Nat \cup {Null}
    BY <1>5, BoundsAssumption DEF ExpiresAt
  <2> QED
    BY <1>5, <2>1 DEF Row
<1>7. CanUpsert(db, i, row)
  BY <1>2
<1> HIDE DEF row
<1>8. db \in Database /\ Consistent(db)
  BY DEF IInv, DatabaseOK
<1>9. /\ Sound(w)
      /\ w.entries = [db.entries EXCEPT ![r] = UpsertRow(db, i, row)]
      /\ r \in Ids
  BY <1>6, <1>7, <1>8, CreateOrUpdateSound, UpsertTargetFacts
<1>10. \/ \E name \in [job[p].links -> EdgeIds] :
            /\ CanInsertEdges(w, r, name)
            /\ db' = InsertEdges(w, r, name, Null)
            /\ used' = used \cup {r}
       \/ UNCHANGED <<db, used>>
  BY <1>2 DEF row
<1> HIDE DEF r, w
<1>11. CASE UNCHANGED <<db, used>>
  BY <1>1, <1>3, <1>11 DEF IInv, DatabaseOK, LiveAreUsed, Live
<1>12. ASSUME NEW name \in [job[p].links -> EdgeIds],
              CanInsertEdges(w, r, name),
              db' = InsertEdges(w, r, name, Null),
              used' = used \cup {r}
       PROVE  IInv'
  <2>1. Sound(db') /\ db'.entries = w.entries
    BY <1>5, <1>9, <1>12, InsertEdgesSound, WeightsAllowNull DEF Sound, Links
  <2>2. LiveAreUsed'
    BY <1>8, <1>9, <1>12, <2>1 DEF IInv, DatabaseOK, LiveAreUsed, Live, Database
  <2>3. used' \in SUBSET Ids
    BY <1>9, <1>12 DEF IInv, DatabaseOK
  <2>4. now' \in Nat
    BY <1>3 DEF IInv, DatabaseOK
  <2>5. DatabaseOK'
    BY <2>1, <2>2, <2>3, <2>4 DEF DatabaseOK, Sound
  <2> QED
    BY <1>1, <2>5 DEF IInv
<1> QED
  BY <1>10, <1>11, <1>12

-----------------------------------------------------------------------------
\* The row Get returns is a row, so the memory of update fits.
LEMMA UpdateGetOK ==
    ASSUME IInv, NEW p \in Procs, UpdateGet(p) PROVE IInv'
<1>1. DatabaseOK'
  BY ReadsOnlyOK DEF IInv, UpdateGet
<1>2. PICK i \in Ids :
        /\ Live(db, i)
        /\ Goto(p, "updateRead", [NoJob EXCEPT !.id = i, !.base = db.entries[i]])
  BY DEF UpdateGet
<1> DEFINE j == [NoJob EXCEPT !.id = i, !.base = db.entries[i]]
<1>3. db.entries[i] \in Row
  BY <1>2 DEF IInv, DatabaseOK, Database, Live
<1>4. j \in Job /\ j.id \in Ids /\ j.base \in Row
  BY <1>3, NoJobIsAJob DEF Job
<1> HIDE DEF j
<1>5. Fits("updateRead", j) /\ "updateRead" \in Locations
  BY <1>4 DEF Fits, Locations
<1>6. JobsOK'
  BY <1>2, <1>4, <1>5, GotoOK DEF IInv, j
<1> QED
  BY <1>1, <1>6 DEF IInv

\* Every expiry update can write is a time or none.
LEMMA ExpiriesAreTimes ==
    ASSUME NEW base \in Row, NEW x \in Expiries(base)
    PROVE  x \in Nat \cup {Null}
<1>1. base.expires \in Nat \cup {Null} /\ base.created \in Nat
  BY DEF Row
<1>2. CASE x \in {base.expires, Null}
  BY <1>1, <1>2
<1>3. CASE x \in {base.created + ttl : ttl \in TTLs}
  <2>1. PICK ttl \in TTLs : x = base.created + ttl
    BY <1>3
  <2> QED
    BY <1>1, <2>1, BoundsAssumption
<1> QED
  BY <1>2, <1>3 DEF Expiries

\* The flags of update turn the row read into a row of the same version.
LEMMA UpdateReadOK ==
    ASSUME IInv, NEW p \in Procs, UpdateRead(p) PROVE IInv'
<1>1. DatabaseOK'
  BY ReadsOnlyOK DEF IInv, UpdateRead
<1>2. PICK c \in Contents, s \in Paths, t \in Titles,
           x \in Expiries(job[p].base),
           ls \in {LabelsOf(db, job[p].id)} \cup SUBSET Labels :
        Goto(p, "updateScope",
             [job[p] EXCEPT
                !.want = [job[p].base EXCEPT !.content = c, !.scope = s,
                                             !.title = t, !.expires = x],
                !.labels = ls, !.todo = ls, !.path = s, !.done = 0])
  BY DEF UpdateRead
<1> DEFINE k == job[p]
           base == k.base
           want == [base EXCEPT !.content = c, !.scope = s,
                                !.title = t, !.expires = x]
           j == [k EXCEPT !.want = want, !.labels = ls, !.todo = ls,
                          !.path = s, !.done = 0]
<1>3. k \in Job /\ k.id \in Ids /\ base \in Row
  BY DEF IInv, JobsOK, UpdateRead, Fits
<1>4. /\ want \in Row
      /\ want.version = base.version /\ want.created = base.created
  <2> HIDE DEF base
  <2>1. x \in Nat \cup {Null}
    BY <1>3, ExpiriesAreTimes DEF base
  <2> QED
    BY <1>3, <2>1 DEF Row
<1>5. ls \in SUBSET Labels
  BY DEF LabelsOf
<1>6. 0 < Len(s)
  BY PathsAssumption
<1> HIDE DEF want
<1>7. /\ j \in Job
      /\ j.id = k.id /\ j.base = k.base /\ j.want = want
      /\ j.path = s /\ j.done = 0
  <2> HIDE DEF k
  <2> QED
    BY <1>3, <1>4, <1>5 DEF Job
<1> HIDE DEF j
<1>8. Fits("updateScope", j) /\ "updateScope" \in Locations
  BY <1>3, <1>4, <1>6, <1>7 DEF Fits, Locations
<1>9. JobsOK'
  BY <1>2, <1>7, <1>8, GotoOK DEF IInv, j, want
<1> QED
  BY <1>1, <1>9 DEF IInv

\* One prefix of the hierarchy, for update and scope create alike.
LEMMA NextPrefix ==
    ASSUME NEW s \in Paths, NEW done \in Nat, done < Len(s)
    PROVE  /\ SubSeq(s, 1, done + 1) \in Paths
           /\ done + 1 # Len(s) => done + 1 < Len(s)
BY PathsAssumption

\* update inserts the next prefix of its path and moves on, to the next
\* prefix or, past the last, to the UPDATE.
LEMMA UpdateScopeOK ==
    ASSUME IInv, NEW p \in Procs, UpdateScope(p) PROVE IInv'
<1> DEFINE k == job[p]
           n == k.done + 1
           loc == IF n = Len(k.path) THEN "updateRow" ELSE "updateScope"
           j == [k EXCEPT !.done = n]
<1>1. /\ k \in Job /\ k.id \in Ids /\ k.base \in Row
      /\ k.want \in Row /\ k.want.version = k.base.version
      /\ k.want.created = k.base.created
      /\ k.path \in Paths /\ k.done \in Nat /\ k.done < Len(k.path)
  BY DEF IInv, JobsOK, UpdateScope, Fits, Job
<1>2. /\ Writes(InsertScope(db, SubSeq(k.path, 1, n)))
      /\ Goto(p, loc, j)
  BY DEF UpdateScope
<1>3. SubSeq(k.path, 1, n) \in Paths /\ (n # Len(k.path) => n < Len(k.path))
  BY <1>1, NextPrefix
<1>4. DatabaseOK'
  BY <1>2, <1>3, InsertScopeSound, WritesSameEntriesOK
     DEF IInv, DatabaseOK, InsertScope, Database
<1> HIDE DEF k
<1>5. /\ j \in Job /\ j.id = k.id /\ j.base = k.base /\ j.want = k.want
      /\ j.path = k.path /\ j.done = n
  BY <1>1 DEF Job
<1> HIDE DEF j
<1>6. Fits(loc, j) /\ loc \in Locations
  BY <1>1, <1>3, <1>5 DEF Fits, Locations
<1>7. JobsOK'
  BY <1>2, <1>5, <1>6, GotoOK DEF IInv
<1> QED
  BY <1>4, <1>7 DEF IInv

\* The guarded UPDATE is sound where SQLite accepts it: the foreign key has
\* its scope and the UNIQUE index no other holder.
LEMMA UpdateCommitOK ==
    ASSUME IInv, NEW p \in Procs, UpdateCommit(p) PROVE IInv'
<1> DEFINE k == job[p]
<1>1. k \in Job /\ k.id \in Ids /\ k.want \in Row
  BY DEF IInv, JobsOK, UpdateCommit, Fits
<1>2. CASE CanUpdate(db, k.id, k.want) /\ Writes(UpdateRow(db, k.id, k.want))
             /\ Goto(p, "updateClear", k)
  <2>1. Fits("updateClear", k) /\ "updateClear" \in Locations
    BY <1>1 DEF Fits, Locations
  <2>2. JobsOK'
    BY <1>1, <1>2, <2>1, GotoOK DEF IInv
  <2>3. db \in Database /\ Consistent(db)
    BY DEF IInv, DatabaseOK
  <2> HIDE DEF k
  <2>4. Sound(UpdateRow(db, k.id, k.want))
    BY <1>1, <1>2, <2>3, UpdateRowSound
  <2>5. \A i \in Ids : Live(UpdateRow(db, k.id, k.want), i) => Live(db, i)
    BY <1>1, <1>2, <2>3
       DEF UpdateRow, CanUpdate, UpdateMatches, Live, Database
  <2>6. DatabaseOK'
    BY <1>2, <2>4, <2>5, WritesOK DEF IInv
  <2> QED
    BY <2>2, <2>6 DEF IInv
<1>3. CASE ReadsOnly /\ Exit(p)
  BY <1>3, ReadsOnlyOK, ExitOK DEF IInv
<1> QED
  BY <1>2, <1>3 DEF UpdateCommit

\* Clearing the labels of an entry, live or gone by now, is sound.
LEMMA UpdateClearOK ==
    ASSUME IInv, NEW p \in Procs, UpdateClear(p) PROVE IInv'
<1> DEFINE k == job[p]
           loc == IF k.todo = {} THEN "updateReturn" ELSE "updateLabels"
<1>1. k \in Job /\ k.id \in Ids
  BY DEF IInv, JobsOK, UpdateClear, Fits
<1>2. Writes(DeleteLabels(db, k.id)) /\ Goto(p, loc, k)
  BY DEF UpdateClear
<1>3. Fits(loc, k) /\ loc \in Locations
  BY <1>1 DEF Fits, Locations
<1>4. JobsOK'
  BY <1>1, <1>2, <1>3, GotoOK DEF IInv
<1>5. DatabaseOK'
  BY <1>1, <1>2, DeleteLabelsSound, WritesSameEntriesOK
     DEF IInv, DatabaseOK, DeleteLabels, Database
<1> QED
  BY <1>4, <1>5 DEF IInv

\* Inserting a label is sound: the foreign key refuses it once the entry is
\* gone.
LEMMA UpdateLabelsOK ==
    ASSUME IInv, NEW p \in Procs, UpdateLabels(p) PROVE IInv'
<1> DEFINE k == job[p]
<1>1. k \in Job /\ k.id \in Ids /\ k.todo \in SUBSET Labels
  BY DEF IInv, JobsOK, UpdateLabels, Fits, Job
<1>2. PICK l \in k.todo :
        \/ /\ CanInsertLabel(db, k.id, l)
           /\ Writes(InsertLabel(db, k.id, l))
           /\ Goto(p, IF k.todo = {l} THEN "updateReturn" ELSE "updateLabels",
                   [k EXCEPT !.todo = @ \ {l}])
        \/ ReadsOnly /\ Exit(p)
  BY DEF UpdateLabels
<1> DEFINE loc == IF k.todo = {l} THEN "updateReturn" ELSE "updateLabels"
           j == [k EXCEPT !.todo = @ \ {l}]
<1>3. CASE CanInsertLabel(db, k.id, l) /\ Writes(InsertLabel(db, k.id, l))
             /\ Goto(p, loc, j)
  <2>1. DatabaseOK'
    BY <1>1, <1>3, InsertLabelSound, WritesSameEntriesOK
       DEF IInv, DatabaseOK, InsertLabel, Database
  <2> HIDE DEF k
  <2>2. j \in Job /\ j.id \in Ids
    BY <1>1 DEF Job
  <2> HIDE DEF j
  <2>3. Fits(loc, j) /\ loc \in Locations
    BY <2>2 DEF Fits, Locations
  <2>4. JobsOK'
    BY <1>3, <2>2, <2>3, GotoOK DEF IInv
  <2> QED
    BY <2>1, <2>4 DEF IInv
<1>4. CASE ReadsOnly /\ Exit(p)
  BY <1>4, ReadsOnlyOK, ExitOK DEF IInv
<1> QED
  BY <1>2, <1>3, <1>4

-----------------------------------------------------------------------------
\* delete remembers an entry that exists.
LEMMA DeleteGetOK ==
    ASSUME IInv, NEW p \in Procs, DeleteGet(p) PROVE IInv'
<1>1. DatabaseOK'
  BY ReadsOnlyOK DEF IInv, DeleteGet
<1>2. PICK i \in Ids : Goto(p, "delete", [NoJob EXCEPT !.id = i])
  BY DEF DeleteGet
<1> DEFINE j == [NoJob EXCEPT !.id = i]
<1>3. j \in Job /\ j.id \in Ids
  BY NoJobIsAJob DEF Job
<1> HIDE DEF j
<1>4. Fits("delete", j) /\ "delete" \in Locations
  BY <1>3 DEF Fits, Locations
<1>5. JobsOK'
  BY <1>2, <1>3, <1>4, GotoOK DEF IInv, j
<1> QED
  BY <1>1, <1>5 DEF IInv

\* Deleting rows is sound, whichever they are.
LEMMA WritesDeleteOK ==
    ASSUME DatabaseOK, NEW gone \in SUBSET Ids, Writes(DeleteEntries(db, gone))
    PROVE  DatabaseOK'
<1>1. db \in Database /\ Consistent(db)
  BY DEF DatabaseOK
<1>2. Sound(DeleteEntries(db, gone))
  BY <1>1, DeleteEntriesSound
<1>3. \A i \in Ids : Live(DeleteEntries(db, gone), i) => Live(db, i)
  BY <1>1 DEF DeleteEntries, Live, Database
<1> QED
  BY <1>2, <1>3, WritesOK

\* The DELETE is sound, whether the entry is still there or not.
LEMMA DeleteRowOK ==
    ASSUME IInv, NEW p \in Procs, DeleteRow(p) PROVE IInv'
<1>1. JobsOK'
  BY ExitOK DEF IInv, DeleteRow
<1>2. {job[p].id} \in SUBSET Ids
  BY DEF IInv, JobsOK, DeleteRow, Fits
<1>3. DatabaseOK'
  BY <1>2, WritesDeleteOK, ReadsOnlyOK DEF IInv, DeleteRow
<1> QED
  BY <1>1, <1>3 DEF IInv

\* link remembers two entries that exist and a type.
LEMMA LinkGetOK ==
    ASSUME IInv, NEW p \in Procs, LinkGet(p) PROVE IInv'
<1>1. DatabaseOK'
  BY ReadsOnlyOK DEF IInv, LinkGet
<1>2. PICK i \in LiveIds, l \in LiveIds \X EdgeTypes :
        Goto(p, "link", [NoJob EXCEPT !.id = i, !.links = {l}])
  BY DEF LinkGet
<1> DEFINE j == [NoJob EXCEPT !.id = i, !.links = {l}]
<1>3. i \in Ids /\ {l} \in SUBSET Links
  BY DEF LiveIds, Links
<1>4. j \in Job /\ j.id \in Ids
  BY <1>3, NoJobIsAJob DEF Job
<1> HIDE DEF j
<1>5. Fits("link", j) /\ "link" \in Locations
  BY <1>4 DEF Fits, Locations
<1>6. JobsOK'
  BY <1>2, <1>4, <1>5, GotoOK DEF IInv, j
<1> QED
  BY <1>1, <1>6 DEF IInv

\* Creating edges is sound where the foreign keys and the CHECK allow it.
LEMMA WritesEdgesOK ==
    ASSUME DatabaseOK, NEW from \in Ids, NEW links \in SUBSET Links,
           NEW name \in [links -> EdgeIds], NEW w \in Weights,
           CanInsertEdges(db, from, name),
           Writes(InsertEdges(db, from, name, w))
    PROVE  DatabaseOK'
<1>1. db \in Database /\ Consistent(db) /\ links \in SUBSET (Ids \X EdgeTypes)
  BY DEF DatabaseOK, Links
<1>2. /\ Sound(InsertEdges(db, from, name, w))
      /\ InsertEdges(db, from, name, w).entries = db.entries
  BY <1>1, InsertEdgesSound
<1> QED
  BY <1>2, WritesSameEntriesOK

\* link creates its edge where both ends still exist.
LEMMA LinkCreateOK ==
    ASSUME IInv, NEW p \in Procs, LinkCreate(p) PROVE IInv'
<1>1. JobsOK'
  BY ExitOK DEF IInv, LinkCreate
<1>2. job[p].id \in Ids /\ job[p].links \in SUBSET Links
  BY DEF IInv, JobsOK, LinkCreate, Fits, Job
<1>3. DatabaseOK'
  BY <1>2, WritesEdgesOK, ReadsOnlyOK DEF IInv, LinkCreate
<1> QED
  BY <1>1, <1>3 DEF IInv

\* link accept remembers links to entries that exist.
LEMMA AcceptSuggestOK ==
    ASSUME IInv, NEW p \in Procs, AcceptSuggest(p) PROVE IInv'
<1>1. DatabaseOK'
  BY ReadsOnlyOK DEF IInv, AcceptSuggest
<1>2. PICK i \in LiveIds :
        \E to \in SUBSET Suggested(i) \ {{}}, type \in EdgeTypes :
          Goto(p, "accept", [NoJob EXCEPT !.id = i, !.links = to \X {type}])
  BY DEF AcceptSuggest
<1>3. PICK to \in SUBSET Suggested(i) \ {{}}, type \in EdgeTypes :
        Goto(p, "accept", [NoJob EXCEPT !.id = i, !.links = to \X {type}])
  BY <1>2
<1> DEFINE links == to \X {type}
           k == [NoJob EXCEPT !.id = i, !.links = links]
<1>4. i \in Ids /\ to \in SUBSET Ids
  BY DEF LiveIds, Suggested
<1>5. links \in SUBSET Links
  BY <1>4 DEF Links
<1> HIDE DEF links
<1>6. k \in Job /\ k.id \in Ids
  BY <1>4, <1>5, NoJobIsAJob DEF Job
<1> HIDE DEF k
<1>7. Fits("accept", k) /\ "accept" \in Locations
  BY <1>6 DEF Fits, Locations
<1>8. JobsOK'
  BY <1>3, <1>6, <1>7, GotoOK DEF IInv, k, links
<1> QED
  BY <1>1, <1>8 DEF IInv

\* Passing to the next accepted link keeps the memory of the loop.
LEMMA NextLinkOK ==
    ASSUME JobsOK, NEW p \in Procs, NEW l, job[p].id \in Ids, NextLink(p, l)
    PROVE  JobsOK'
<1> DEFINE k == job[p]
           j == [k EXCEPT !.links = @ \ {l}, !.link = Null]
<1>1. k \in Job /\ k.id \in Ids
  BY DEF JobsOK
<1>2. k.links \ {l} \in SUBSET Links
  BY <1>1 DEF Job
<1>3. CASE Exit(p)
  BY <1>3, ExitOK
<1>4. CASE Goto(p, "accept", j)
  <2> HIDE DEF k
  <2>1. j \in Job /\ j.id \in Ids
    BY <1>1, <1>2 DEF Job
  <2> HIDE DEF j
  <2>2. Fits("accept", j) /\ "accept" \in Locations
    BY <2>1 DEF Fits, Locations
  <2> QED
    BY <1>4, <2>1, <2>2, GotoOK
<1> QED
  BY <1>3, <1>4 DEF NextLink

\* The check before an accepted link reads only.
LEMMA AcceptCheckOK ==
    ASSUME IInv, NEW p \in Procs, AcceptCheck(p) PROVE IInv'
<1>1. DatabaseOK'
  BY ReadsOnlyOK DEF IInv, AcceptCheck
<1> DEFINE k == job[p]
<1>2. k \in Job /\ k.id \in Ids /\ k.links \in SUBSET Links
  BY DEF IInv, JobsOK, AcceptCheck, Fits, Job
<1>3. PICK l \in k.links :
        NextLink(p, l) \/ Goto(p, "acceptLink", [k EXCEPT !.link = l])
  BY DEF AcceptCheck
<1>4. CASE NextLink(p, l)
  BY <1>1, <1>2, <1>4, NextLinkOK DEF IInv
<1>5. CASE Goto(p, "acceptLink", [k EXCEPT !.link = l])
  <2> DEFINE j == [k EXCEPT !.link = l]
  <2> HIDE DEF k
  <2>1. j \in Job /\ j.id \in Ids /\ j.link \in Links
    BY <1>2 DEF Job
  <2> HIDE DEF j
  <2>2. Fits("acceptLink", j) /\ "acceptLink" \in Locations
    BY <2>1 DEF Fits, Locations
  <2>3. JobsOK'
    BY <1>5, <2>1, <2>2, GotoOK DEF IInv, j
  <2> QED
    BY <1>1, <2>3 DEF IInv
<1> QED
  BY <1>3, <1>4, <1>5

\* link accept creates its edge where both ends still exist.
LEMMA AcceptCreateOK ==
    ASSUME IInv, NEW p \in Procs, AcceptCreate(p) PROVE IInv'
<1> DEFINE l == job[p].link
<1>1. job[p].id \in Ids /\ l \in Links
  BY DEF IInv, JobsOK, AcceptCreate, Fits
<1>2. JobsOK'
  BY <1>1, NextLinkOK DEF IInv, AcceptCreate
<1>3. {l} \in SUBSET Links
  BY <1>1
<1>4. DatabaseOK'
  BY <1>1, <1>3, WritesEdgesOK, ReadsOnlyOK, WeightsAllowNull
     DEF IInv, AcceptCreate
<1> QED
  BY <1>2, <1>4 DEF IInv

\* Removing an edge is sound.
LEMMA UnlinkOK ==
    ASSUME IInv, NEW p \in Procs, Unlink(p) PROVE IInv'
<1>1. JobsOK'
  BY DEF IInv, JobsOK, Unlink
<1>2. PICK e \in EdgeIds : Writes(DeleteEdge(db, e))
  BY DEF Unlink
<1>3. DatabaseOK'
  BY <1>2, DeleteEdgeSound, WritesSameEntriesOK
     DEF IInv, DatabaseOK, DeleteEdge, Database
<1> QED
  BY <1>1, <1>3 DEF IInv

-----------------------------------------------------------------------------
\* gc deletes expired entries with their labels and edges.
LEMMA GcExpiredOK ==
    ASSUME IInv, NEW p \in Procs, GcExpired(p) PROVE IInv'
<1>1. Fits("gcScopes", NoJob) /\ "gcScopes" \in Locations
  BY DEF Fits, Locations
<1>2. JobsOK'
  BY <1>1, NoJobIsAJob, GotoOK DEF IInv, GcExpired
<1>3. Expired(db, now) \in SUBSET Ids
  BY DEF Expired
<1>4. DatabaseOK'
  BY <1>3, WritesDeleteOK DEF IInv, GcExpired, DeleteExpired
<1> QED
  BY <1>2, <1>4 DEF IInv

\* gc prunes no scope an entry refers to.
LEMMA GcScopesOK ==
    ASSUME IInv, NEW p \in Procs, GcScopes(p) PROVE IInv'
<1>1. JobsOK'
  BY ExitOK DEF IInv, GcScopes
<1>2. DatabaseOK'
  BY DeleteEmptySound, WritesSameEntriesOK
     DEF IInv, DatabaseOK, GcScopes, DeleteEmpty, Database
<1> QED
  BY <1>1, <1>2 DEF IInv

\* scope create starts before the first prefix of a path, which has one.
LEMMA ScopeCreateStartOK ==
    ASSUME IInv, NEW p \in Procs, ScopeCreateStart(p) PROVE IInv'
<1>1. DatabaseOK'
  BY ReadsOnlyOK DEF IInv, ScopeCreateStart
<1>2. PICK s \in Paths : Goto(p, "scopeCreate", [NoJob EXCEPT !.path = s])
  BY DEF ScopeCreateStart
<1> DEFINE j == [NoJob EXCEPT !.path = s]
<1>3. j \in Job /\ j.path = s /\ j.done = 0
  BY NoJobIsAJob DEF Job, NoJob
<1> HIDE DEF j
<1>4. Len(s) > 0 /\ Len(s) \in Nat
  BY PathsAssumption
<1>5. Fits("scopeCreate", j) /\ "scopeCreate" \in Locations
  BY <1>3, <1>4 DEF Fits, Locations
<1>6. JobsOK'
  BY <1>2, <1>3, <1>5, GotoOK DEF IInv, j
<1> QED
  BY <1>1, <1>6 DEF IInv

\* scope create inserts the next prefix of its path.
LEMMA ScopeCreateStepOK ==
    ASSUME IInv, NEW p \in Procs, ScopeCreateStep(p) PROVE IInv'
<1> DEFINE k == job[p]
           n == k.done + 1
           j == [k EXCEPT !.done = n]
<1>1. /\ k \in Job
      /\ k.path \in Paths /\ k.done \in Nat /\ k.done < Len(k.path)
  BY DEF IInv, JobsOK, ScopeCreateStep, Fits, Job
<1>2. /\ Writes(InsertScope(db, SubSeq(k.path, 1, n)))
      /\ IF n = Len(k.path) THEN Exit(p) ELSE Goto(p, "scopeCreate", j)
  BY DEF ScopeCreateStep
<1>3. SubSeq(k.path, 1, n) \in Paths /\ (n # Len(k.path) => n < Len(k.path))
  BY <1>1, NextPrefix
<1>4. DatabaseOK'
  BY <1>2, <1>3, InsertScopeSound, WritesSameEntriesOK
     DEF IInv, DatabaseOK, InsertScope, Database
<1>5. CASE n = Len(k.path)
  BY <1>2, <1>4, <1>5, ExitOK DEF IInv
<1>6. CASE n # Len(k.path)
  <2> HIDE DEF k
  <2>1. j \in Job /\ j.path = k.path /\ j.done = n
    BY <1>1 DEF Job
  <2> HIDE DEF j
  <2>2. Fits("scopeCreate", j) /\ "scopeCreate" \in Locations
    BY <1>1, <1>3, <1>6, <2>1 DEF Fits, Locations
  <2>3. JobsOK'
    BY <1>2, <1>6, <2>1, <2>2, GotoOK DEF IInv
  <2> QED
    BY <1>4, <2>3 DEF IInv
<1> QED
  BY <1>5, <1>6

\* scope delete remembers a path that has a scope row.
LEMMA ScopeDeleteCheckOK ==
    ASSUME IInv, NEW p \in Procs, ScopeDeleteCheck(p) PROVE IInv'
<1>1. DatabaseOK'
  BY ReadsOnlyOK DEF IInv, ScopeDeleteCheck
<1>2. PICK s \in db.scopes, loc \in {"scopeDelete", "scopeDeleteTree"} :
        Goto(p, loc, [NoJob EXCEPT !.path = s])
  BY DEF ScopeDeleteCheck
<1> DEFINE j == [NoJob EXCEPT !.path = s]
<1>3. s \in Paths
  BY DEF IInv, DatabaseOK, Database
<1>4. j \in Job /\ j.path = s
  BY <1>3, NoJobIsAJob DEF Job
<1> HIDE DEF j
<1>5. Fits(loc, j) /\ loc \in Locations
  BY <1>3, <1>4 DEF Fits, Locations
<1>6. JobsOK'
  BY <1>2, <1>4, <1>5, GotoOK DEF IInv, j
<1> QED
  BY <1>1, <1>6 DEF IInv

\* The plain deletion is sound: the foreign key refuses it while an entry
\* is in the scope.
LEMMA ScopeDeleteOneOK ==
    ASSUME IInv, NEW p \in Procs, ScopeDeleteOne(p) PROVE IInv'
<1> DEFINE s == job[p].path
<1>1. JobsOK'
  BY ExitOK DEF IInv, ScopeDeleteOne
<1>2. CASE CanDeleteScope(db, s) /\ Writes(DeleteScope(db, s))
  BY <1>1, <1>2, DeleteScopeSound, WritesSameEntriesOK
     DEF IInv, DatabaseOK, DeleteScope, Database
<1>3. CASE ReadsOnly
  BY <1>1, <1>3, ReadsOnlyOK DEF IInv
<1> QED
  BY <1>2, <1>3 DEF ScopeDeleteOne

\* The recursive deletion commits only where no row it leaves refers to a
\* scope it removes, so the schema survives it.
LEMMA ScopeDeleteTreeOK ==
    ASSUME IInv, NEW p \in Procs, ScopeDeleteTree(p) PROVE IInv'
<1> DEFINE s    == job[p].path
           gone == {s} \cup ListDescendants(db, s)
           rows == ListPrefix(db, s, now)
           w    == DeleteEntries(db, rows)
<1>1. JobsOK'
  BY ExitOK DEF IInv, ScopeDeleteTree
<1>2. CASE /\ \A x \in gone : ~Referenced(w, x)
           /\ Writes([w EXCEPT !.scopes = @ \ gone])
  <2>1. db \in Database /\ Consistent(db) /\ rows \in SUBSET Ids
    BY DEF IInv, DatabaseOK, ListPrefix
  <2> HIDE DEF gone, rows
  <2>2. Sound(w) /\ w.entries = [i \in Ids |-> IF i \in rows THEN Null
                                               ELSE db.entries[i]]
    BY <2>1, DeleteEntriesSound DEF DeleteEntries, Database
  <2> HIDE DEF w
  <2> DEFINE v == [w EXCEPT !.scopes = @ \ gone]
  <2>3. Sound(v)
    BY <1>2, <2>2, RemoveScopes DEF Sound
  <2>4. v.entries = w.entries
    BY <2>2 DEF Sound, Database
  <2> HIDE DEF v
  <2>5. \A i \in Ids : Live(v, i) => Live(db, i)
    BY <2>2, <2>4 DEF Live
  <2>6. DatabaseOK'
    BY <1>2, <2>3, <2>5, WritesOK DEF IInv, v
  <2> QED
    BY <1>1, <2>6 DEF IInv
<1>3. CASE ReadsOnly
  BY <1>1, <1>3, ReadsOnlyOK DEF IInv
<1> QED
  BY <1>2, <1>3 DEF ScopeDeleteTree

-----------------------------------------------------------------------------
\* Every step of every command preserves the invariant.
LEMMA ProcessStepOK ==
    ASSUME IInv, NEW p \in Procs, ProcessStep(p) PROVE IInv'
<1>1. CASE UpdateReturn(p) \/ Crash(p)
  BY <1>1, ReadsOnlyOK, ExitOK DEF IInv, UpdateReturn, Crash
<1> QED
  BY <1>1, AddResolveOK, AddTxOK, UpdateGetOK, UpdateReadOK, UpdateScopeOK,
     UpdateCommitOK, UpdateClearOK, UpdateLabelsOK, DeleteGetOK, DeleteRowOK,
     LinkGetOK, LinkCreateOK, AcceptSuggestOK, AcceptCheckOK, AcceptCreateOK,
     UnlinkOK, GcExpiredOK, GcScopesOK, ScopeCreateStartOK, ScopeCreateStepOK,
     ScopeDeleteCheckOK, ScopeDeleteOneOK, ScopeDeleteTreeOK
  DEF ProcessStep

\* So does the clock, and a step that changes nothing.
LEMMA StepOK == IInv /\ [Next]_vars => IInv'
<1> SUFFICES ASSUME IInv, [Next]_vars PROVE IInv'
  OBVIOUS
<1>1. ASSUME NEW p \in Procs, ProcessStep(p) PROVE IInv'
  BY <1>1, ProcessStepOK
<1>2. CASE Tick
  <2>1. now' \in Nat
    BY <1>2 DEF Tick, IInv, DatabaseOK
  <2> QED
    BY <1>2, <2>1
       DEF Tick, IInv, DatabaseOK, JobsOK, LiveAreUsed, Live
<1>3. CASE UNCHANGED vars
  BY <1>3 DEF vars, IInv, DatabaseOK, JobsOK, LiveAreUsed, Live
<1> QED
  BY <1>1, <1>2, <1>3 DEF Next

\* The invariant holds of every reachable state.
LEMMA InvariantHolds == Spec => []IInv
BY InitOK, StepOK, PTL DEF Spec

\* Every variable keeps its type: no process ever loses track of the entry,
\* the row or the path it works on.
THEOREM TypeCorrect == Spec => []TypeOK
<1>1. IInv => TypeOK
  BY DEF IInv, DatabaseOK, JobsOK, TypeOK
<1> QED
  BY <1>1, InvariantHolds, PTL

\* The schema holds between any two statements of any number of processes:
\* no command, complete or killed half-way, leaves a dangling reference or
\* the same text twice in a scope.
THEOREM SchemaCorrect == Spec => []SchemaHolds
<1>1. IInv => SchemaHolds
  BY DEF IInv, DatabaseOK, SchemaHolds
<1> QED
  BY <1>1, InvariantHolds, PTL

-----------------------------------------------------------------------------
(***************************************************************************)
(* What optimistic locking rests on, what the two scope deletions promise, *)
(* and that the commands keep the contract of KnownStore.                  *)
(*                                                                         *)
(* The argument about versions has two halves.  RowStep says what any step *)
(* of any process can do to one row; Watched, the strengthening of         *)
(* VersionIdentifiesRow, adds that an update in flight works on an         *)
(* identifier already given, which an insert can therefore not give again. *)
(***************************************************************************)
\* A step leaves a row alone, deletes it, moves its version by one, or gives
\* it a fresh identifier.
RowStep(i) ==
    \/ db'.entries[i] = db.entries[i]
    \/ db'.entries[i] = Null
    \/ /\ Live(db, i) /\ db'.entries[i] # Null
       /\ db'.entries[i].version = db.entries[i].version + 1
    \/ i \notin used

RowsStep == \A i \in Ids : RowStep(i)

\* An update in flight knows its row at the version it read.
Knows(d, j) == /\ j.id \in used
               /\ Live(d, j.id) =>
                    /\ d.entries[j.id].version >= j.base.version
                    /\ d.entries[j.id].version = j.base.version
                         => d.entries[j.id] = j.base

Watched == \A p \in Procs : Rereading(p) => Knows(db, job[p])

VInv == IInv /\ Watched

-----------------------------------------------------------------------------
\* A statement that writes no entry is a step of every row.
LEMMA SameEntriesStep ==
    ASSUME db'.entries = db.entries PROVE RowsStep
BY DEF RowsStep, RowStep

\* So is a statement that deletes entries.
LEMMA DeleteStep ==
    ASSUME IInv, NEW gone \in SUBSET Ids,
           db'.entries = DeleteEntries(db, gone).entries
    PROVE  RowsStep
BY DEF RowsStep, RowStep, DeleteEntries, IInv, DatabaseOK, Database

\* The upsert of add moves the version of the row it absorbs, or takes an
\* identifier that was never used.
LEMMA AddTxStep ==
    ASSUME IInv, NEW p \in Procs, AddTx(p) PROVE RowsStep /\ used \subseteq used'
<1>2. PICK i \in Ids, c \in Contents, s \in Paths, t \in Titles,
           ls \in SUBSET Labels, ttl \in TTLs \cup {Null} :
        LET row == [content |-> c, scope |-> s, title |-> t,
                    created |-> job[p].at,
                    expires |-> ExpiresAt(job[p].at, ttl), version |-> 1]
            r   == UpsertTarget(db, i, row)
            w   == CreateOrUpdate(db, i, row, ls)
        IN  /\ i \in used => Holders(db, c, s) # {}
            /\ CanUpsert(db, i, row)
            /\ \/ \E name \in [job[p].links -> EdgeIds] :
                     /\ CanInsertEdges(w, r, name)
                     /\ db' = InsertEdges(w, r, name, Null)
                     /\ used' = used \cup {r}
               \/ UNCHANGED <<db, used>>
  BY DEF AddTx
<1> DEFINE row == [content |-> c, scope |-> s, title |-> t,
                   created |-> job[p].at,
                   expires |-> ExpiresAt(job[p].at, ttl), version |-> 1]
           r == UpsertTarget(db, i, row)
           w == CreateOrUpdate(db, i, row, ls)
<1>3. job[p] \in Job /\ db \in Database /\ Consistent(db)
  BY DEF IInv, JobsOK, DatabaseOK
<1>4. job[p].at \in Nat /\ job[p].links \in SUBSET Links
  BY <1>3 DEF Job
<1>5. row \in Row /\ row.content = c /\ row.scope = s
  <2>1. ExpiresAt(job[p].at, ttl) \in Nat \cup {Null}
    BY <1>4, BoundsAssumption DEF ExpiresAt
  <2> QED
    BY <1>4, <2>1 DEF Row
<1>6. CanUpsert(db, i, row) /\ (i \in used => Holders(db, c, s) # {})
  BY <1>2
<1> HIDE DEF row
<1>7. /\ Sound(w)
      /\ w.entries = [db.entries EXCEPT ![r] = UpsertRow(db, i, row)]
      /\ r \in Ids
  BY <1>3, <1>5, <1>6, CreateOrUpdateSound, UpsertTargetFacts
<1>8. /\ UpsertRow(db, i, row) \in Row
      /\ Live(db, r) \/ r \notin used
      /\ Live(db, r) => UpsertRow(db, i, row).version
                          = db.entries[r].version + 1
  <2>1. CASE Holders(db, c, s) = {}
    <3>1. r = i
      BY <1>5, <2>1 DEF UpsertTarget
    <3> QED
      BY <1>3, <1>5, <1>6, <2>1, <3>1, UpsertTargetFacts
  <2>2. CASE Holders(db, c, s) # {}
    <3>1. r \in Holders(db, c, s)
      BY <1>5, <2>2 DEF UpsertTarget
    <3>2. Live(db, r)
      BY <3>1 DEF Holders
    <3> QED
      BY <1>3, <1>5, <1>6, <3>2, UpsertTargetFacts
  <2> QED
    BY <2>1, <2>2
<1>9. \/ \E name \in [job[p].links -> EdgeIds] :
           /\ CanInsertEdges(w, r, name)
           /\ db' = InsertEdges(w, r, name, Null)
           /\ used' = used \cup {r}
      \/ UNCHANGED <<db, used>>
  BY <1>2 DEF row
<1> HIDE DEF r, w
<1>10. CASE UNCHANGED <<db, used>>
  BY <1>10, SameEntriesStep
<1>11. ASSUME NEW name \in [job[p].links -> EdgeIds],
              CanInsertEdges(w, r, name),
              db' = InsertEdges(w, r, name, Null),
              used' = used \cup {r}
       PROVE  RowsStep /\ used \subseteq used'
  <2>1. db'.entries = w.entries
    BY <1>4, <1>7, <1>11, InsertEdgesSound, WeightsAllowNull DEF Sound, Links
  <2>2. db'.entries = [db.entries EXCEPT ![r] = UpsertRow(db, i, row)]
    BY <1>7, <2>1
  <2>3. UpsertRow(db, i, row) # Null
    BY <1>8, NullRowAssumption
  <2>4. RowsStep
    BY <1>3, <1>7, <1>8, <2>2, <2>3 DEF RowsStep, RowStep, Database
  <2> QED
    BY <1>11, <2>4
<1> QED
  BY <1>9, <1>10, <1>11

\* The guarded UPDATE moves the version of the row it matched.
LEMMA UpdateCommitStep ==
    ASSUME IInv, NEW p \in Procs, UpdateCommit(p) PROVE RowsStep
<1> DEFINE i == job[p].id
           row == job[p].want
           new == [row EXCEPT !.version = @ + 1]
<1>1. i \in Ids /\ row \in Row /\ db \in Database
  BY DEF IInv, JobsOK, DatabaseOK, UpdateCommit, Fits
<1>2. CASE CanUpdate(db, i, row) /\ Writes(UpdateRow(db, i, row))
  <2> HIDE DEF i, row
  <2>1. new \in Row /\ new.version = row.version + 1
    BY <1>1 DEF Row
  <2>2. db' = [db EXCEPT !.entries[i] = new]
    BY <1>2 DEF Writes, UpdateRow
  <2> HIDE DEF new
  <2>3. db'.entries = [db.entries EXCEPT ![i] = new]
    BY <1>1, <2>2 DEF Database
  <2>4. Live(db, i) /\ db.entries[i].version = row.version
    BY <1>2 DEF CanUpdate, UpdateMatches
  <2> QED
    BY <1>1, <2>1, <2>3, <2>4, NullRowAssumption
       DEF RowsStep, RowStep, Database
<1>3. CASE ReadsOnly
  BY <1>3, SameEntriesStep DEF ReadsOnly
<1> QED
  BY <1>2, <1>3 DEF UpdateCommit

-----------------------------------------------------------------------------
\* Whatever a process does, it does to each row what RowStep allows, and an
\* identifier once used stays used.
LEMMA ProcessRowsStep ==
    ASSUME IInv, NEW p \in Procs, ProcessStep(p)
    PROVE  RowsStep /\ used \subseteq used'
<1>1. ASSUME ReadsOnly PROVE RowsStep /\ used \subseteq used'
  BY <1>1, SameEntriesStep DEF ReadsOnly
<1>2. ASSUME NEW d, Writes(d), d.entries = db.entries
      PROVE  RowsStep /\ used \subseteq used'
  BY <1>2, SameEntriesStep DEF Writes
<1>3. ASSUME NEW gone \in SUBSET Ids, NEW d, Writes(d),
             d.entries = DeleteEntries(db, gone).entries
      PROVE  RowsStep /\ used \subseteq used'
  BY <1>3, DeleteStep DEF Writes
<1>4. db \in Database /\ Consistent(db)
  BY DEF IInv, DatabaseOK
<1>5. CASE AddTx(p)
  BY <1>5, AddTxStep
<1>6. CASE UpdateCommit(p)
  BY <1>6, UpdateCommitStep DEF UpdateCommit, Writes, ReadsOnly
<1>7. CASE \/ AddResolve(p) \/ UpdateGet(p) \/ UpdateRead(p) \/ UpdateReturn(p)
           \/ DeleteGet(p) \/ LinkGet(p) \/ AcceptSuggest(p) \/ AcceptCheck(p)
           \/ ScopeCreateStart(p) \/ ScopeDeleteCheck(p) \/ Crash(p)
  BY <1>1, <1>7 DEF AddResolve, UpdateGet, UpdateRead, UpdateReturn, DeleteGet,
     LinkGet, AcceptSuggest, AcceptCheck, ScopeCreateStart, ScopeDeleteCheck,
     Crash
<1>8. CASE UpdateScope(p) \/ ScopeCreateStep(p)
  BY <1>2, <1>4, <1>8
     DEF UpdateScope, ScopeCreateStep, InsertScope, Database
<1>9. CASE UpdateClear(p) \/ UpdateLabels(p)
  BY <1>1, <1>2, <1>4, <1>9
     DEF UpdateClear, UpdateLabels, DeleteLabels, InsertLabel, Database
<1>10. CASE Unlink(p)
  BY <1>2, <1>4, <1>10 DEF Unlink, DeleteEdge, Database
<1>11. CASE GcScopes(p) \/ ScopeDeleteOne(p)
  BY <1>1, <1>2, <1>4, <1>11
     DEF GcScopes, DeleteEmpty, ScopeDeleteOne, DeleteScope, Database
<1>12. CASE GcExpired(p)
  <2>1. Expired(db, now) \in SUBSET Ids
    BY DEF Expired
  <2> QED
    BY <1>3, <1>12, <2>1 DEF GcExpired, DeleteExpired
<1>13. CASE DeleteRow(p)
  <2>1. {job[p].id} \in SUBSET Ids
    BY <1>13 DEF IInv, JobsOK, DeleteRow, Fits
  <2> QED
    BY <1>1, <1>3, <1>13, <2>1 DEF DeleteRow
<1>14. CASE ScopeDeleteTree(p)
  <2> DEFINE rows == ListPrefix(db, job[p].path, now)
             w == DeleteEntries(db, rows)
             gone == {job[p].path} \cup ListDescendants(db, job[p].path)
  <2>1. Writes([w EXCEPT !.scopes = @ \ gone]) \/ ReadsOnly
    BY <1>14 DEF ScopeDeleteTree
  <2>2. rows \in SUBSET Ids
    BY DEF ListPrefix
  <2> HIDE DEF rows, gone
  <2>3. w \in Database
    BY <1>4, <2>2, DeleteEntriesSound DEF Sound
  <2> HIDE DEF w
  <2>4. [w EXCEPT !.scopes = @ \ gone].entries = w.entries
    BY <2>3 DEF Database
  <2> QED
    BY <1>1, <1>3, <2>1, <2>2, <2>4 DEF w
<1>15. CASE LinkCreate(p)
  <2>1. job[p].id \in Ids /\ job[p].links \in SUBSET (Ids \X EdgeTypes)
    BY <1>15 DEF IInv, JobsOK, LinkCreate, Fits, Job, Links
  <2>2. CASE ReadsOnly
    BY <1>1, <2>2
  <2>3. ASSUME NEW name \in [job[p].links -> EdgeIds], NEW w \in Weights,
               CanInsertEdges(db, job[p].id, name),
               Writes(InsertEdges(db, job[p].id, name, w))
        PROVE  RowsStep /\ used \subseteq used'
    BY <1>2, <1>4, <2>1, <2>3, InsertEdgesSound
  <2> QED
    BY <1>15, <2>2, <2>3 DEF LinkCreate
<1>16. CASE AcceptCreate(p)
  <2> DEFINE l == job[p].link
  <2>1. job[p].id \in Ids /\ {l} \in SUBSET (Ids \X EdgeTypes)
    BY <1>16 DEF IInv, JobsOK, AcceptCreate, Fits, Links
  <2>2. CASE ReadsOnly
    BY <1>1, <2>2
  <2>3. ASSUME NEW name \in [{l} -> EdgeIds],
               CanInsertEdges(db, job[p].id, name),
               Writes(InsertEdges(db, job[p].id, name, Null))
        PROVE  RowsStep /\ used \subseteq used'
    BY <1>2, <1>4, <2>1, <2>3, InsertEdgesSound, WeightsAllowNull
  <2> QED
    BY <1>16, <2>2, <2>3 DEF AcceptCreate
<1> QED
  BY <1>5, <1>6, <1>7, <1>8, <1>9, <1>10, <1>11, <1>12, <1>13, <1>14, <1>15,
     <1>16 DEF ProcessStep

\* The same of every step, the clock's included.
LEMMA NextRowsStep ==
    ASSUME IInv, [Next]_vars PROVE RowsStep /\ used \subseteq used'
<1>1. CASE Tick \/ UNCHANGED vars
  BY <1>1, SameEntriesStep DEF Tick, vars
<1> QED
  BY <1>1, ProcessRowsStep DEF Next

\* A step that changes a row and leaves it in place moves its version by
\* exactly one: the only other way to fill a row is a fresh identifier, and
\* an identifier with a row is not fresh.
THEOREM VersionsCountWrites == Spec => VersionCountsWrites
<1>1. ASSUME IInv, [Next]_vars
      PROVE  \A i \in Ids :
               /\ db.entries[i] # Null /\ db'.entries[i] # Null
               /\ db'.entries[i] # db.entries[i]
               => db'.entries[i].version = db.entries[i].version + 1
  <2>1. RowsStep
    BY <1>1, NextRowsStep
  <2> QED
    BY <1>1, <2>1 DEF RowsStep, RowStep, IInv, DatabaseOK, LiveAreUsed, Live
<1> QED
  BY <1>1, InvariantHolds, PTL DEF Spec, VersionCountsWrites

\* No command brings a deleted entry back, however long ago it read it.
THEOREM DeletedStayDeleted == Spec => NoResurrection
<1>1. ASSUME IInv, [Next]_vars
      PROVE  \A i \in used : db.entries[i] = Null => db'.entries[i] = Null
  <2>1. RowsStep /\ used \subseteq Ids
    BY <1>1, NextRowsStep DEF IInv, DatabaseOK
  <2> QED
    BY <1>1, <2>1 DEF RowsStep, RowStep, Live
<1> QED
  BY <1>1, InvariantHolds, PTL DEF Spec, NoResurrection

-----------------------------------------------------------------------------
(***************************************************************************)
(* Optimistic locking.                                                     *)
(***************************************************************************)

\* A step of a process moves that process, and only the memory of that one.
LEMMA MovesOneProcess ==
    ASSUME NEW q \in Procs, ProcessStep(q)
    PROVE  (\E loc, j : Goto(q, loc, j)) \/ UNCHANGED <<pc, job>>
<1>1. ASSUME NEW loc, NEW j, Goto(q, loc, j)
      PROVE  \E x, y : Goto(q, x, y)
  BY <1>1
<1>2. Exit(q) => \E x, y : Goto(q, x, y)
  BY DEF Exit
<1>3. CASE \/ AddResolve(q) \/ AddTx(q) \/ UpdateGet(q) \/ UpdateRead(q)
           \/ UpdateScope(q) \/ UpdateCommit(q) \/ UpdateClear(q)
           \/ UpdateLabels(q) \/ UpdateReturn(q)
  BY <1>1, <1>2, <1>3 DEF AddResolve, AddTx, UpdateGet, UpdateRead,
     UpdateScope, UpdateCommit, UpdateClear, UpdateLabels, UpdateReturn
<1>4. CASE \/ DeleteGet(q) \/ DeleteRow(q) \/ LinkGet(q) \/ LinkCreate(q)
           \/ AcceptSuggest(q) \/ AcceptCheck(q) \/ AcceptCreate(q)
  BY <1>1, <1>2, <1>4 DEF DeleteGet, DeleteRow, LinkGet, LinkCreate,
     AcceptSuggest, AcceptCheck, AcceptCreate, NextLink
<1>5. CASE \/ GcExpired(q) \/ GcScopes(q) \/ ScopeCreateStart(q)
           \/ ScopeCreateStep(q) \/ ScopeDeleteCheck(q)
           \/ ScopeDeleteOne(q) \/ ScopeDeleteTree(q) \/ Crash(q)
  BY <1>1, <1>2, <1>5 DEF GcExpired, GcScopes, ScopeCreateStart,
     ScopeCreateStep, ScopeDeleteCheck, ScopeDeleteOne, ScopeDeleteTree, Crash
<1>6. CASE Unlink(q)
  BY <1>6 DEF Unlink
<1> QED
  BY <1>3, <1>4, <1>5, <1>6 DEF ProcessStep

\* While an update is in flight its process keeps the entry and the row it
\* read, and no step takes either from it; or it has just read them.
LEMMA RereadingStep ==
    ASSUME IInv, [Next]_vars, NEW p \in Procs, Rereading(p)'
    PROVE  \/ /\ Rereading(p)
              /\ job'[p].id = job[p].id
              /\ job'[p].base = job[p].base
           \/ /\ db' = db
              /\ job'[p].id \in Ids /\ Live(db, job'[p].id)
              /\ job'[p].base = db.entries[job'[p].id]
<1> DEFINE Kept == /\ Rereading(p)
                   /\ job'[p].id = job[p].id
                   /\ job'[p].base = job[p].base
<1>1. /\ pc \in [Procs -> Locations] /\ job \in [Procs -> Job]
      /\ pc'[p] \in {"updateRead", "updateScope", "updateRow"}
  BY DEF IInv, JobsOK, Rereading
<1>2. CASE pc'[p] = pc[p] /\ job'[p] = job[p]
  BY <1>1, <1>2 DEF Rereading
<1>3. ASSUME NEW q \in Procs, q # p, NEW loc, NEW j, Goto(q, loc, j)
      PROVE  pc'[p] = pc[p] /\ job'[p] = job[p]
  BY <1>1, <1>3 DEF Goto
<1>4. ASSUME NEW loc, NEW j, Goto(p, loc, j)
      PROVE  pc'[p] = loc /\ job'[p] = j
  BY <1>1, <1>4 DEF Goto
<1>5. CASE UpdateGet(p)
  <2>1. PICK i \in Ids :
          /\ Live(db, i)
          /\ Goto(p, "updateRead",
                  [NoJob EXCEPT !.id = i, !.base = db.entries[i]])
    BY <1>5 DEF UpdateGet
  <2>2. job'[p] = [NoJob EXCEPT !.id = i, !.base = db.entries[i]]
    BY <1>4, <2>1
  <2> QED
    BY <1>5, <2>1, <2>2 DEF UpdateGet, ReadsOnly, NoJob
<1>6. CASE UpdateRead(p)
  <2>1. PICK want, ls, s : Goto(p, "updateScope",
               [job[p] EXCEPT !.want = want, !.labels = ls, !.todo = ls,
                              !.path = s, !.done = 0])
    BY <1>6 DEF UpdateRead
  <2>2. job'[p] = [job[p] EXCEPT !.want = want, !.labels = ls, !.todo = ls,
                                 !.path = s, !.done = 0]
    BY <1>4, <2>1
  <2> QED
    BY <1>1, <1>6, <2>2 DEF UpdateRead, Rereading, Job
<1>7. CASE UpdateScope(p)
  <2>1. job'[p] = [job[p] EXCEPT !.done = job[p].done + 1]
    BY <1>4, <1>7 DEF UpdateScope
  <2> QED
    BY <1>1, <1>7, <2>1 DEF UpdateScope, Rereading, Job
<1>8. ASSUME ProcessStep(p), ~UpdateGet(p), ~UpdateRead(p), ~UpdateScope(p),
             ~(pc'[p] = pc[p] /\ job'[p] = job[p])
      PROVE  FALSE
  <2>1. ASSUME NEW loc, NEW j, Goto(p, loc, j)
        PROVE  loc \in {"updateRead", "updateScope", "updateRow"}
    BY <1>1, <1>4, <2>1
  <2>2. ~Exit(p)
    BY <2>1 DEF Exit
  <2>3. ~Unlink(p)
    BY <1>8 DEF Unlink
  <2> DEFINE Never(loc) == \A j : ~Goto(p, loc, j)
  <2>a. /\ Never("addTx") /\ Never("updateClear") /\ Never("updateLabels")
        /\ Never("updateReturn") /\ Never("delete") /\ Never("link")
        /\ Never("accept") /\ Never("acceptLink") /\ Never("scopeCreate")
        /\ Never("scopeDelete") /\ Never("scopeDeleteTree")
    BY <2>1
  <2>4. ~AddResolve(p)
    BY <2>2, <2>a, Zenon DEF AddResolve
  <2>5. ~AddTx(p)
    BY <2>1, <2>2 DEF AddTx
  <2>6. ~UpdateCommit(p)
    BY <2>1, <2>2 DEF UpdateCommit
  <2>7. ~UpdateClear(p)
    BY <2>1, <2>2 DEF UpdateClear
  <2>8. ~UpdateLabels(p)
    <3> SUFFICES ASSUME UpdateLabels(p) PROVE FALSE
      OBVIOUS
    <3>1. PICK l \in job[p].todo :
            Goto(p, IF job[p].todo = {l} THEN "updateReturn"
                                         ELSE "updateLabels",
                 [job[p] EXCEPT !.todo = @ \ {l}])
      BY <2>2, Zenon DEF UpdateLabels
    <3> QED
      BY <2>1, <3>1
  <2>9. ~UpdateReturn(p)
    BY <2>1, <2>2 DEF UpdateReturn
  <2>10. ~DeleteGet(p)
    BY <2>2, <2>a, Zenon DEF DeleteGet
  <2>11. ~DeleteRow(p)
    BY <2>1, <2>2 DEF DeleteRow
  <2>12. ~LinkGet(p)
    BY <2>2, <2>a, Zenon DEF LinkGet
  <2>13. ~LinkCreate(p)
    BY <2>1, <2>2 DEF LinkCreate
  <2>14. ~AcceptSuggest(p)
    BY <2>2, <2>a, Zenon DEF AcceptSuggest
  <2>15. ~AcceptCheck(p)
    BY <2>2, <2>a, Zenon DEF AcceptCheck, NextLink
  <2>16. ~AcceptCreate(p)
    BY <2>1, <2>2 DEF AcceptCreate, NextLink
  <2>17. ~GcExpired(p)
    BY <2>1, <2>2 DEF GcExpired
  <2>18. ~GcScopes(p)
    BY <2>1, <2>2 DEF GcScopes
  <2>19. ~ScopeCreateStart(p)
    BY <2>2, <2>a, Zenon DEF ScopeCreateStart
  <2>20. ~ScopeCreateStep(p)
    BY <2>1, <2>2 DEF ScopeCreateStep
  <2>21. ~ScopeDeleteCheck(p)
    BY <2>2, <2>a, Zenon DEF ScopeDeleteCheck
  <2>22. ~ScopeDeleteOne(p)
    BY <2>1, <2>2 DEF ScopeDeleteOne
  <2>23. ~ScopeDeleteTree(p)
    BY <2>1, <2>2 DEF ScopeDeleteTree
  <2>24. ~Crash(p)
    BY <2>1, <2>2 DEF Crash
  <2> QED
    BY <1>8, <2>3, <2>4, <2>5, <2>6, <2>7, <2>8, <2>9, <2>10, <2>11, <2>12, <2>13, <2>14, <2>15, <2>16, <2>17, <2>18, <2>19, <2>20, <2>21, <2>22, <2>23, <2>24
       DEF ProcessStep
<1>9. ASSUME NEW q \in Procs, q # p, ProcessStep(q)
      PROVE  pc'[p] = pc[p] /\ job'[p] = job[p]
  BY <1>3, <1>9, MovesOneProcess
<1>10. CASE Tick \/ UNCHANGED vars
  BY <1>2, <1>10 DEF Tick, vars
<1> QED
  BY <1>2, <1>5, <1>6, <1>7, <1>8, <1>9, <1>10 DEF Next

\* No update is in flight at first.
LEMMA VInvInit == Init => VInv
BY InitOK DEF Init, VInv, Watched, Rereading

\* No step takes a row back behind an update in flight, or to another row
\* of the same version.
LEMMA VInvStep == VInv /\ [Next]_vars => VInv'
<1> SUFFICES ASSUME VInv, [Next]_vars PROVE VInv'
  OBVIOUS
<1>1. IInv /\ IInv' /\ RowsStep /\ used \subseteq used' /\ used \subseteq Ids
  BY StepOK, NextRowsStep DEF VInv, IInv, DatabaseOK
<1>2. ASSUME NEW p \in Procs, Rereading(p)' PROVE Knows(db, job[p])'
  <2> DEFINE j == job'[p]
  <2>1. CASE Rereading(p) /\ j.id = job[p].id /\ j.base = job[p].base
    <3>1. Knows(db, job[p]) /\ job[p].base.version \in Nat
      BY <1>1, <2>1 DEF VInv, Watched, Rereading, IInv, JobsOK, Fits, Row
    <3>2. j.id \in used /\ j.id \in Ids
      BY <1>1, <2>1, <3>1 DEF Knows
    <3>3. RowStep(j.id)
      BY <1>1, <3>2 DEF RowsStep
    <3>4. Live(db, j.id) => db.entries[j.id].version \in Nat
      BY <1>1, <3>2 DEF Live, IInv, DatabaseOK, Database, Row
    <3>5. Live(db, j.id) =>
            /\ db.entries[j.id].version >= j.base.version
            /\ db.entries[j.id].version = j.base.version
                 => db.entries[j.id] = j.base
      BY <2>1, <3>1 DEF Knows
    <3> HIDE DEF j
    <3>6. ASSUME db'.entries[j.id] # Null
          PROVE  /\ db'.entries[j.id].version >= j.base.version
                 /\ db'.entries[j.id].version = j.base.version
                      => db'.entries[j.id] = j.base
      BY <2>1, <3>1, <3>2, <3>3, <3>4, <3>5, <3>6 DEF RowStep, Live
    <3> QED
      BY <1>1, <3>2, <3>6 DEF Knows, Live, j
  <2>2. CASE db' = db /\ j.id \in Ids /\ Live(db, j.id)
             /\ j.base = db.entries[j.id]
    <3>1. j.id \in used /\ db.entries[j.id].version \in Nat
      BY <1>1, <2>2
         DEF IInv, DatabaseOK, LiveAreUsed, Live, Database, Row
    <3> QED
      BY <1>1, <2>2, <3>1 DEF Knows, Live
  <2> QED
    BY <1>1, <1>2, <2>1, <2>2, RereadingStep
<1> QED
  BY <1>1, <1>2 DEF VInv, Watched

\* The strengthened invariant holds of every reachable state.
LEMMA VInvHolds == Spec => []VInv
BY VInvInit, VInvStep, PTL DEF Spec

\* Whatever other processes do between an update's Get and its UPDATE, an
\* entry at the version the update read is the entry the update read.
THEOREM VersionsIdentifyRows == Spec => []VersionIdentifiesRow
<1>1. VInv => VersionIdentifiesRow
  BY DEF VInv, Watched, Knows, VersionIdentifiesRow
<1> QED
  BY <1>1, VInvHolds, PTL

\* Only UPDATE takes a process from updateRow to updateClear.
LEMMA LandingIsCommit ==
    ASSUME IInv, [Next]_vars, NEW p \in Procs, UpdateLands(p)
    PROVE  CanUpdate(db, job[p].id, job[p].want)
<1>1. /\ pc \in [Procs -> Locations] /\ job \in [Procs -> Job]
      /\ pc[p] = "updateRow" /\ pc'[p] = "updateClear"
  BY DEF IInv, JobsOK, UpdateLands
<1>2. ASSUME NEW q \in Procs, q # p, NEW loc, NEW j, Goto(q, loc, j)
      PROVE  FALSE
  BY <1>1, <1>2 DEF Goto
<1>3. ~(\E loc, j : loc # "updateClear" /\ Goto(p, loc, j))
  BY <1>1 DEF Goto
<1>4. ~UNCHANGED <<pc, job>>
  BY <1>1
<1>5. PICK q \in Procs : ProcessStep(q)
  BY <1>4 DEF Next, Tick, vars
<1>6. q = p
  BY <1>2, <1>4, <1>5, MovesOneProcess
<1>7. ~Exit(p)
  BY <1>3 DEF Exit
<1>8. UpdateCommit(p)
  BY <1>1, <1>4, <1>5, <1>6, <1>7 DEF ProcessStep, Starts, AddResolve, AddTx,
     UpdateGet, UpdateRead, UpdateScope, UpdateClear, UpdateLabels,
     UpdateReturn, DeleteGet, DeleteRow, LinkGet, LinkCreate, AcceptSuggest,
     AcceptCheck, AcceptCreate, Unlink, GcExpired, GcScopes,
     ScopeCreateStart, ScopeCreateStep, ScopeDeleteCheck, ScopeDeleteOne,
     ScopeDeleteTree, Crash
<1> QED
  BY <1>7, <1>8 DEF UpdateCommit

\* No lost update: the row an UPDATE overwrites is the row the command read,
\* so no column another process wrote in between is dropped (labels are not
\* columns: see UpdateSetsLabels).
THEOREM NoLostUpdate == Spec => UpdateReplacesWhatItRead
<1>1. ASSUME VInv, [Next]_vars, NEW p \in Procs, UpdateLands(p)
      PROVE  db.entries[job[p].id] = job[p].base
  <2>1. CanUpdate(db, job[p].id, job[p].want)
    BY <1>1, LandingIsCommit DEF VInv
  <2>2. /\ job[p].want.version = job[p].base.version
        /\ Knows(db, job[p])
    BY <1>1 DEF VInv, Watched, Rereading, UpdateLands, IInv, JobsOK, Fits
  <2> QED
    BY <2>1, <2>2 DEF CanUpdate, UpdateMatches, Knows
<1>2. VInv /\ [Next]_vars =>
        \A p \in Procs : UpdateLands(p) => db.entries[job[p].id] = job[p].base
  BY <1>1
<1> QED
  BY <1>2, VInvHolds, PTL DEF Spec, UpdateReplacesWhatItRead

-----------------------------------------------------------------------------
(***************************************************************************)
(* The two deletions of scopes.                                            *)
(***************************************************************************)

\* A LIKE pattern matches what lies below its path, and maybe more.
LEMMA BelowIsLikeBelow ==
    ASSUME NEW x \in Paths, NEW s \in Paths, Below(x, s)
    PROVE  LikeBelow(x, s)
BY LikeAssumption

\* A proper prefix of a path lies above it.
LEMMA PrefixIsAbove ==
    ASSUME NEW s \in Paths, NEW x \in Prefixes(s), x # s
    PROVE  x \in Paths /\ Below(x, s)
<1>1. PICK i \in 1..Len(s) : x = SubSeq(s, 1, i)
  BY DEF Prefixes
<1>2. s \in Seq(Segments) /\ x \in Paths
  <2>1. s \in Seq(Segments)
    BY PathsAssumption
  <2>2. SubSeq(s, 1, i) \in Paths
    BY ONLY PathsAssumption, s \in Paths, i \in 1..Len(s)
  <2> QED
    BY <1>1, <2>1, <2>2
<1>3. i # Len(s)
  <2>1. SubSeq(s, 1, Len(s)) = s
    BY <1>2
  <2> QED
    BY <1>1, <2>1
<1>4. Len(x) = i /\ \A k \in 1..i : x[k] = s[k]
  BY <1>1, <1>2
<1> QED
  BY <1>2, <1>3, <1>4 DEF Below

\* A prune keeps every scope above an entry, because the pattern of a scope
\* above matches the entry's own.
LEMMA DeleteEmptyKeepsHierarchy ==
    ASSUME IInv, EntryHierarchy, db' = DeleteEmpty(db)
    PROVE  EntryHierarchy'
<1>1. db \in Database /\ db'.entries = db.entries
  BY DEF IInv, DatabaseOK, DeleteEmpty, Database
<1>2. ASSUME NEW i \in Ids, Live(db, i), NEW x \in Prefixes(db.entries[i].scope)
      PROVE  x \in db'.scopes
  <2> DEFINE s == db.entries[i].scope
  <2>1. x \in db.scopes /\ s \in Paths
    BY <1>1, <1>2 DEF EntryHierarchy, Database, Live, Row
  <2>2. x = s \/ LikeBelow(x, s)
    BY <2>1, <1>2, PrefixIsAbove, BelowIsLikeBelow
  <2>3. Referenced(db, x) \/ \E k \in Ids : Live(db, k)
                                /\ LikeBelow(x, db.entries[k].scope)
    BY <1>2, <2>2 DEF Referenced
  <2> QED
    BY <1>1, <2>1, <2>3 DEF DeleteEmpty, Database
<1> QED
  BY <1>1, <1>2 DEF EntryHierarchy, Live

\* A prune leaves a complete hierarchy complete, whatever ran before it and
\* whatever characters the segments hold.
THEOREM PruneIsSafe == Spec => PruneKeepsHierarchy
<1>1. ASSUME IInv, [Next]_vars, NEW p \in Procs,
             pc[p] = "gcScopes", pc'[p] = "idle", EntryHierarchy
      PROVE  EntryHierarchy'
  <2>1. pc \in [Procs -> Locations] /\ job \in [Procs -> Job]
    BY <1>1 DEF IInv, JobsOK
  <2>2. ASSUME NEW q \in Procs, q # p, NEW loc, NEW j, Goto(q, loc, j)
        PROVE  FALSE
    BY <1>1, <2>1, <2>2 DEF Goto
  <2>3. PICK q \in Procs : ProcessStep(q)
    BY <1>1 DEF Next, Tick, vars
  <2>4. q = p
    BY <1>1, <2>2, <2>3, MovesOneProcess
  <2>5. GcScopes(p) \/ Crash(p)
    BY <1>1, <2>3, <2>4 DEF ProcessStep, Starts, AddResolve, AddTx, UpdateGet,
       UpdateRead, UpdateScope, UpdateCommit, UpdateClear, UpdateLabels,
       UpdateReturn, DeleteGet, DeleteRow, LinkGet, LinkCreate, AcceptSuggest,
       AcceptCheck, AcceptCreate, Unlink, GcExpired, ScopeCreateStart,
       ScopeCreateStep, ScopeDeleteCheck, ScopeDeleteOne, ScopeDeleteTree
  <2>6. CASE GcScopes(p)
    BY <1>1, <2>6, DeleteEmptyKeepsHierarchy DEF GcScopes, Writes
  <2>7. CASE Crash(p)
    BY <1>1, <2>7 DEF Crash, ReadsOnly, EntryHierarchy, Live
  <2> QED
    BY <2>5, <2>6, <2>7
<1>2. IInv /\ [Next]_vars =>
        \A p \in Procs : pc[p] = "gcScopes" /\ pc'[p] = "idle"
                           /\ EntryHierarchy => EntryHierarchy'
  BY <1>1
<1> QED
  BY <1>2, InvariantHolds, PTL DEF Spec, PruneKeepsHierarchy

\* What the recursive deletion commits: nothing below the scope stays.
LEMMA TreeCommit ==
    ASSUME IInv, NEW p \in Procs, ScopeDeleteTree(p), TreeDeleted(p)
    PROVE  /\ \A s \in db'.scopes : ~Below(job[p].path, s)
           /\ \A i \in Ids : db'.entries[i] # Null =>
                                ~Below(job[p].path, db'.entries[i].scope)
<1> DEFINE s    == job[p].path
           gone == {s} \cup ListDescendants(db, s)
           rows == ListPrefix(db, s, now)
           w    == DeleteEntries(db, rows)
<1>1. /\ db \in Database /\ Consistent(db) /\ s \in Paths
      /\ rows \in SUBSET Ids
  BY DEF IInv, DatabaseOK, JobsOK, TreeDeleted, Fits, ListPrefix
<1>2. /\ \A x \in gone : ~Referenced(w, x)
      /\ Writes([w EXCEPT !.scopes = @ \ gone])
  BY DEF ScopeDeleteTree, TreeDeleted, ReadsOnly
<1>3. /\ w \in Database /\ w.scopes = db.scopes
      /\ \A i \in Ids : w.entries[i] # Null => w.entries[i] = db.entries[i]
  BY <1>1, DeleteEntriesSound DEF Sound, DeleteEntries, Database
<1>4. \A x \in db.scopes : Below(s, x) => x \in gone
  BY <1>1, BelowIsLikeBelow DEF ListDescendants, Database
<1> HIDE DEF gone, rows, w
<1>5. db'.scopes = db.scopes \ gone /\ db'.entries = w.entries
  BY <1>2, <1>3 DEF Writes, Database
<1>6. ASSUME NEW i \in Ids, db'.entries[i] # Null,
             Below(s, db'.entries[i].scope)
      PROVE  FALSE
  <2>1. w.entries[i] = db.entries[i] /\ Live(w, i) /\ Live(db, i)
    BY <1>3, <1>5, <1>6 DEF Live
  <2>2. db.entries[i].scope \in db.scopes
    BY <1>1, <2>1 DEF Consistent, ScopesExist
  <2>3. w.entries[i].scope \in gone
    BY <1>4, <1>5, <1>6, <2>1, <2>2
  <2> QED
    BY <1>2, <2>1, <2>3 DEF Referenced
<1> QED
  BY <1>4, <1>5, <1>6

\* Only the transaction of scope delete --recursive takes a scope away.
LEMMA TreeDeletedIs ==
    ASSUME IInv, [Next]_vars, NEW p \in Procs, TreeDeleted(p)
    PROVE  ScopeDeleteTree(p)
<1>1. /\ pc \in [Procs -> Locations] /\ job \in [Procs -> Job]
      /\ pc[p] = "scopeDeleteTree" /\ pc'[p] = "idle" /\ db' # db
  BY DEF IInv, JobsOK, TreeDeleted
<1>2. ASSUME NEW q \in Procs, q # p, NEW loc, NEW j, Goto(q, loc, j)
      PROVE  FALSE
  BY <1>1, <1>2 DEF Goto
<1>3. PICK q \in Procs : ProcessStep(q)
  BY <1>1 DEF Next, Tick, vars
<1>4. q = p
  BY <1>1, <1>2, <1>3, MovesOneProcess
<1> QED
  BY <1>1, <1>3, <1>4 DEF ProcessStep, Starts, AddResolve, AddTx, UpdateGet,
     UpdateRead, UpdateScope, UpdateCommit, UpdateClear, UpdateLabels,
     UpdateReturn, DeleteGet, DeleteRow, LinkGet, LinkCreate, AcceptSuggest,
     AcceptCheck, AcceptCreate, Unlink, GcExpired, GcScopes, Crash,
     ScopeCreateStart, ScopeCreateStep, ScopeDeleteCheck, ScopeDeleteOne,
     ReadsOnly

\* scope delete --recursive leaves no scope and no entry below the scope it
\* deletes, however many appeared after its check.
THEOREM TreeDeletesAll == Spec => TreeDeleteIsComplete
<1>1. IInv /\ [Next]_vars =>
        \A p \in Procs : TreeDeleted(p) =>
          /\ \A s \in db'.scopes : ~Below(job[p].path, s)
          /\ \A i \in Ids : db'.entries[i] # Null =>
                               ~Below(job[p].path, db'.entries[i].scope)
  BY TreeDeletedIs, TreeCommit
<1> QED
  BY <1>1, InvariantHolds, PTL DEF Spec, TreeDeleteIsComplete

-----------------------------------------------------------------------------
(***************************************************************************)
(* The commands of KnownCommands implement the storage contract of         *)
(* KnownStore, for every value of the constants.                           *)
(*                                                                         *)
(* The mapping is the identity on the database.  Every statement is one    *)
(* step of the contract or a stutter; the one statement for which this is  *)
(* not local is the guarded UPDATE: that it writes the next version of the *)
(* row that is there, and not of an older one, is optimistic locking       *)
(* (VInv), and that it keeps created_at follows from it.                   *)
(***************************************************************************)
\* The instance reads a database as KnownCommands does.
LEMMA SameReadings ==
    ASSUME NEW d
    PROVE  /\ \A i : Store!Live(d, i) <=> Live(d, i)
           /\ \A e : Store!Present(d, e) <=> Present(d, e)
           /\ \A i : Store!LabelsOf(d, i) = LabelsOf(d, i)
           /\ \A s : Store!Prefixes(s) = Prefixes(s)
           /\ Store!Consistent(d) <=> Consistent(d)
           /\ Store!EmptyDatabase = EmptyDatabase
<1>1. \A i : Store!Live(d, i) <=> Live(d, i)
  BY DEF Live, Store!Live
<1>2. \A e : Store!Present(d, e) <=> Present(d, e)
  BY DEF Present, Store!Present
<1>3. \A i : Store!LabelsOf(d, i) = LabelsOf(d, i)
  BY DEF LabelsOf, Store!LabelsOf
<1>4. \A s : Store!Prefixes(s) = Prefixes(s)
  BY DEF Prefixes, Store!Prefixes
<1>5. Store!Consistent(d) <=> Consistent(d)
  BY DEF Consistent, ScopesExist, ContentUnique, LabelsOwned, EdgesAnchored,
         Live, Present,
         Store!Consistent, Store!ScopesExist, Store!ContentUnique,
         Store!LabelsOwned, Store!EdgesAnchored, Store!Live, Store!Present
<1>6. Store!EmptyDatabase = EmptyDatabase
  BY DEF EmptyDatabase, Store!EmptyDatabase
<1> QED
  BY <1>1, <1>2, <1>3, <1>4, <1>5, <1>6

LEMMA UntouchedIsSame ==
    ASSUME NEW i PROVE Store!Untouched(i) <=> SameEntry(db, db', i)
<1>1. /\ Store!LabelsOf(db, i) = LabelsOf(db, i)
      /\ Store!LabelsOf(db', i) = LabelsOf(db', i)
  BY DEF LabelsOf, Store!LabelsOf
<1> QED
  BY <1>1 DEF Store!Untouched, SameEntry

-----------------------------------------------------------------------------
\* A consistent database that differs by one of these is a step of the
\* contract.
LEMMA CommitsAreSteps ==
    ASSUME db \in Database, Consistent(db'), Commits(db, db')
    PROVE  Store!Next
<1>1. Store!Consistent(db')
  BY SameReadings
<1>2. ASSUME NEW i \in Ids, Puts(db, db', i) PROVE Store!Put(i)
  BY <1>2, UntouchedIsSame
     DEF Puts, Store!Put, Live, Store!Live, Present, Store!Present,
         Prefixes, Store!Prefixes
<1>3. ASSUME NEW gone \in SUBSET Ids, Removes(db, db', gone)
      PROVE  Store!Remove(gone)
  BY <1>3, UntouchedIsSame
     DEF Removes, Store!Remove, Live, Store!Live, Present, Store!Present
<1>4. ASSUME Relinks(db, db') PROVE Store!ChangeEdges
  <2>1. ASSUME NEW e \in EdgeIds, Present(db, e), Present(db', e)
        PROVE  db'.edges[e] =
                 [db.edges[e] EXCEPT !.weight = db'.edges[e].weight]
    <3>1. db'.edges[e] = db.edges[e] /\ db.edges[e] \in Edge
      BY <1>4, <2>1 DEF Relinks, Present, Database
    <3> QED
      BY <3>1 DEF Edge
  <2> QED
    BY <1>4, <2>1, UntouchedIsSame
       DEF Relinks, Store!ChangeEdges, Present, Store!Present
<1>5. ASSUME Rescopes(db, db') PROVE Store!ChangeScopes
  BY <1>5, UntouchedIsSame DEF Rescopes, Store!ChangeScopes
<1> QED
  BY <1>1, <1>2, <1>3, <1>4, <1>5 DEF Commits, Store!Next

-----------------------------------------------------------------------------
(***************************************************************************)
(* Commands.                                                               *)
(***************************************************************************)
\* add: the transaction puts one entry, with its edges and the scopes above.
LEMMA AddTxPuts ==
    ASSUME IInv, NEW p \in Procs, AddTx(p)
    PROVE  \/ db' = db
           \/ \E i \in Ids : /\ Puts(db, db', i)
                             /\ Prefixes(db'.entries[i].scope) \subseteq db'.scopes
<1>1. PICK i \in Ids, c \in Contents, s \in Paths, t \in Titles,
           ls \in SUBSET Labels, ttl \in TTLs \cup {Null} :
        LET row == [content |-> c, scope |-> s, title |-> t,
                    created |-> job[p].at,
                    expires |-> ExpiresAt(job[p].at, ttl), version |-> 1]
            r   == UpsertTarget(db, i, row)
            w   == CreateOrUpdate(db, i, row, ls)
        IN  /\ CanUpsert(db, i, row)
            /\ \/ \E name \in [job[p].links -> EdgeIds] :
                     /\ CanInsertEdges(w, r, name)
                     /\ db' = InsertEdges(w, r, name, Null)
               \/ UNCHANGED db
  BY DEF AddTx
<1> DEFINE row == [content |-> c, scope |-> s, title |-> t,
                   created |-> job[p].at,
                   expires |-> ExpiresAt(job[p].at, ttl), version |-> 1]
           r == UpsertTarget(db, i, row)
           w == CreateOrUpdate(db, i, row, ls)
           u == UpsertRow(db, i, row)
<1>2. job[p] \in Job /\ db \in Database /\ Consistent(db)
  BY DEF IInv, JobsOK, DatabaseOK
<1>3. row \in Row /\ row.scope = s
  <2>1. job[p].at \in Nat
    BY <1>2 DEF Job
  <2>2. ExpiresAt(job[p].at, ttl) \in Nat \cup {Null}
    BY <2>1, BoundsAssumption DEF ExpiresAt
  <2> QED
    BY <2>1, <2>2 DEF Row
<1>4. CanUpsert(db, i, row)
  BY <1>1
<1>5. \/ \E name \in [job[p].links -> EdgeIds] :
           /\ CanInsertEdges(w, r, name)
           /\ db' = InsertEdges(w, r, name, Null)
      \/ UNCHANGED db
  BY <1>1
<1> HIDE DEF row
<1>6. /\ w \in Database
      /\ w.entries = [db.entries EXCEPT ![r] = u]
      /\ w.edges = db.edges
      /\ r \in Ids
  BY <1>2, <1>3, <1>4, CreateOrUpdateSound, UpsertTargetFacts DEF Sound
<1>7. /\ w.scopes = db.scopes \cup Prefixes(s)
      /\ \A j \in Ids \ {r} : LabelsOf(w, j) = LabelsOf(db, j)
  BY <1>2, <1>3, <1>4, CreateOrUpdateShape
<1>8. /\ u # Null /\ u.scope = s
      /\ Live(db, r) => /\ u.version = db.entries[r].version + 1
                        /\ u.created = db.entries[r].created
  <2>1. /\ u \in Row /\ u.scope = s
        /\ Live(db, r) => u.version = db.entries[r].version + 1
    BY <1>2, <1>3, <1>4, UpsertTargetFacts
  <2>2. ASSUME Live(db, r) PROVE u.created = db.entries[r].created
    <3>1. u = [row EXCEPT !.created = db.entries[r].created,
                          !.version = db.entries[r].version + 1]
      BY <2>2 DEF UpsertRow
    <3> HIDE DEF u, r
    <3> QED
      BY <1>3, <3>1 DEF Row
  <2> QED
    BY <2>1, <2>2, NullRowAssumption
<1> HIDE DEF r, w, u
<1>9. ASSUME NEW name \in [job[p].links -> EdgeIds],
             CanInsertEdges(w, r, name), db' = InsertEdges(w, r, name, Null)
      PROVE  /\ Puts(db, db', r)
             /\ Prefixes(db'.entries[r].scope) \subseteq db'.scopes
  <2>1. /\ db'.entries = w.entries /\ db'.labels = w.labels
        /\ db'.scopes = w.scopes
        /\ \A e \in EdgeIds : \/ db'.edges[e] = w.edges[e]
                              \/ ~Present(w, e) /\ db'.edges[e].from = r
    BY <1>6, <1>9, InsertEdgesShape
  <2>2. db'.entries[r] = u /\ \A j \in Ids \ {r} : db'.entries[j] = db.entries[j]
    BY <1>2, <1>6, <2>1 DEF Database
  <2>3. \A j \in Ids \ {r} : SameEntry(db, db', j)
    BY <1>7, <2>1, <2>2 DEF SameEntry, LabelsOf
  <2>4. \A e \in EdgeIds :
          \/ db'.edges[e] = db.edges[e]
          \/ ~Present(db, e) /\ db'.edges[e].from = r
    BY <1>6, <2>1 DEF Present
  <2>5. Prefixes(db'.entries[r].scope) \subseteq db'.scopes
    BY <1>7, <1>8, <2>1, <2>2
  <2> QED
    BY <1>7, <1>8, <2>1, <2>2, <2>3, <2>4, <2>5 DEF Puts, Live
<1> QED
  BY <1>5, <1>6, <1>9

LEMMA AddTxCommits ==
    ASSUME IInv, NEW p \in Procs, AddTx(p) PROVE Commits(db, db')
BY AddTxPuts, SameCommits DEF Commits

\* update: the UPDATE writes the next version of the row that is there,
\* because at that version the row is the one the update read.
LEMMA UpdateCommitCommits ==
    ASSUME VInv, NEW p \in Procs, UpdateCommit(p)
    PROVE  Commits(db, db')
<1> DEFINE i == job[p].id
           row == job[p].want
<1>1. /\ i \in Ids /\ row \in Row /\ job[p].base \in Row
      /\ row.version = job[p].base.version
      /\ row.created = job[p].base.created
      /\ db \in Database
  BY DEF VInv, IInv, JobsOK, DatabaseOK, UpdateCommit, Fits
<1>2. CASE CanUpdate(db, i, row) /\ Writes(UpdateRow(db, i, row))
  <2>1. Knows(db, job[p])
    BY DEF VInv, Watched, Rereading, UpdateCommit
  <2>2. Live(db, i) /\ db.entries[i].version = row.version
    BY <1>2 DEF CanUpdate, UpdateMatches
  <2>3. db.entries[i] = job[p].base
    BY <1>1, <2>1, <2>2 DEF Knows
  <2> QED
    BY <1>1, <1>2, <2>3, UpdateRowCommits DEF Writes
<1>3. CASE ReadsOnly
  BY <1>3, SameCommits DEF ReadsOnly
<1> QED
  BY <1>2, <1>3 DEF UpdateCommit

\* ... and the statements on its labels put an entry, if it is still there.
LEMMA UpdateLabelsCommits ==
    ASSUME IInv, NEW p \in Procs, UpdateClear(p) \/ UpdateLabels(p)
    PROVE  Commits(db, db')
<1> DEFINE i == job[p].id
<1>1. i \in Ids /\ db \in Database /\ Consistent(db)
  BY DEF IInv, JobsOK, DatabaseOK, UpdateClear, UpdateLabels, Fits
<1>2. Commits(db, DeleteLabels(db, i))
  BY <1>1, DeleteLabelsCommits
<1>3. ASSUME NEW l, CanInsertLabel(db, i, l)
      PROVE  Commits(db, InsertLabel(db, i, l))
  BY <1>1, <1>3, InsertLabelCommits
<1> QED
  BY <1>2, <1>3, SameCommits
     DEF UpdateClear, UpdateLabels, Writes, ReadsOnly

\* link, link accept and unlink change edges only.
LEMMA LinksCommit ==
    ASSUME IInv, NEW p \in Procs, LinkCreate(p) \/ AcceptCreate(p) \/ Unlink(p)
    PROVE  Commits(db, db')
<1>1. db \in Database
  BY DEF IInv, DatabaseOK
<1>2. \A from, name, w : CanInsertEdges(db, from, name) =>
        Commits(db, InsertEdges(db, from, name, w))
  BY <1>1, InsertEdgesCommits
<1>3. \A e \in EdgeIds : Commits(db, DeleteEdge(db, e))
  BY <1>1, DeleteEdgeCommits
<1>4. CASE LinkCreate(p)
  BY <1>2, <1>4, SameCommits DEF LinkCreate, ReadsOnly, Writes
<1>5. CASE AcceptCreate(p)
  BY <1>2, <1>5, SameCommits DEF AcceptCreate, ReadsOnly, Writes
<1>6. CASE Unlink(p)
  BY <1>3, <1>6 DEF Unlink, Writes
<1> QED
  BY <1>4, <1>5, <1>6

\* gc, delete and scope delete --recursive remove entries, with what hangs
\* on them; the last removes scopes as well.
LEMMA DeletionsCommit ==
    ASSUME IInv, NEW p \in Procs,
           GcExpired(p) \/ DeleteRow(p) \/ ScopeDeleteTree(p)
    PROVE  Commits(db, db')
<1>1. db \in Database
  BY DEF IInv, DatabaseOK
<1>2. \A gone \in SUBSET Ids : Commits(db, DeleteEntries(db, gone))
  BY <1>1, DeleteEntriesCommits
<1>3. CASE GcExpired(p)
  <2>1. Expired(db, now) \in SUBSET Ids
    BY DEF Expired
  <2> QED
    BY <1>2, <1>3, <2>1 DEF GcExpired, DeleteExpired, Writes
<1>4. CASE DeleteRow(p)
  <2>1. {job[p].id} \in SUBSET Ids
    BY <1>4 DEF IInv, JobsOK, DeleteRow, Fits
  <2> QED
    BY <1>2, <1>4, <2>1, SameCommits DEF DeleteRow, ReadsOnly, Writes
<1>5. CASE ScopeDeleteTree(p)
  <2> DEFINE rows == ListPrefix(db, job[p].path, now)
             w == DeleteEntries(db, rows)
             gone == {job[p].path} \cup ListDescendants(db, job[p].path)
             v == [w EXCEPT !.scopes = @ \ gone]
  <2>1. Writes(v) \/ ReadsOnly
    BY <1>5 DEF ScopeDeleteTree
  <2>2. rows \in SUBSET Ids
    BY DEF ListPrefix
  <2> HIDE DEF rows, gone
  <2>3. w \in Database /\ w.scopes = db.scopes
    BY <1>1, <2>2, DeleteEntriesSound, DeleteEntriesShape
       DEF IInv, DatabaseOK, Sound
  <2> HIDE DEF w
  <2>4. /\ v.entries = w.entries /\ v.labels = w.labels /\ v.edges = w.edges
        /\ v.scopes = w.scopes \ gone
    BY <2>3 DEF Database
  <2> HIDE DEF v
  <2>5. CASE Writes(v)
    BY <1>1, <2>2, <2>3, <2>4, <2>5, DeletesCommit DEF w, Writes
  <2> QED
    BY <2>1, <2>5, SameCommits DEF ReadsOnly
<1> QED
  BY <1>3, <1>4, <1>5

\* The scope commands, the scope chain of an update and the pruning of gc
\* change scopes only.
LEMMA ScopeRowsCommit ==
    ASSUME IInv, NEW p \in Procs,
           \/ UpdateScope(p) \/ ScopeCreateStep(p)
           \/ GcScopes(p) \/ ScopeDeleteOne(p)
    PROVE  Commits(db, db')
<1>1. db \in Database
  BY DEF IInv, DatabaseOK
<1>2. ASSUME NEW S, Writes([db EXCEPT !.scopes = S]) PROVE Commits(db, db')
  BY <1>1, <1>2, SetScopesCommits DEF Writes
<1>3. CASE UpdateScope(p) \/ ScopeCreateStep(p)
  BY <1>2, <1>3 DEF UpdateScope, ScopeCreateStep, InsertScope
<1>4. CASE GcScopes(p)
  BY <1>2, <1>4 DEF GcScopes, DeleteEmpty
<1>5. CASE ScopeDeleteOne(p)
  BY <1>2, <1>5, SameCommits DEF ScopeDeleteOne, DeleteScope, ReadsOnly
<1> QED
  BY <1>3, <1>4, <1>5

\* A step of any process is a commit of the contract, or changes nothing.
LEMMA NextCommits ==
    ASSUME VInv, [Next]_vars PROVE Commits(db, db')
<1>1. CASE Tick \/ UNCHANGED vars
  BY <1>1, SameCommits DEF Tick, vars
<1>2. ASSUME NEW p \in Procs, ProcessStep(p) PROVE Commits(db, db')
  <2>1. CASE \/ AddResolve(p) \/ UpdateGet(p) \/ UpdateRead(p)
             \/ UpdateReturn(p) \/ DeleteGet(p) \/ LinkGet(p)
             \/ AcceptSuggest(p) \/ AcceptCheck(p) \/ ScopeCreateStart(p)
             \/ ScopeDeleteCheck(p) \/ Crash(p)
    BY <2>1, SameCommits DEF AddResolve, UpdateGet, UpdateRead, UpdateReturn, DeleteGet,
       LinkGet, AcceptSuggest, AcceptCheck, ScopeCreateStart,
       ScopeDeleteCheck, Crash, ReadsOnly
  <2> QED
    BY <1>2, <2>1, AddTxCommits, UpdateCommitCommits, UpdateLabelsCommits,
       LinksCommit, DeletionsCommit, ScopeRowsCommit DEF ProcessStep, VInv
<1> QED
  BY <1>1, <1>2 DEF Next

-----------------------------------------------------------------------------
\* Any number of commands on SQLite, interleaved statement by statement and
\* killed anywhere, do to the knowledge base only what the storage contract
\* allows (storage/storage.go Backend).
THEOREM CommandsImplementStore == Spec => ImplementsStore
<1>1. Init => Store!Init
  BY SameReadings DEF Init, Store!Init
<1>2. VInv /\ [Next]_vars => [Store!Next]_db
  <2> SUFFICES ASSUME VInv, [Next]_vars PROVE [Store!Next]_db
    OBVIOUS
  <2>1. db \in Database /\ Consistent(db')
    BY StepOK DEF VInv, IInv, DatabaseOK
  <2> QED
    BY <2>1, NextCommits, CommitsAreSteps
<1> QED
  BY <1>1, <1>2, VInvHolds, PTL DEF Spec, ImplementsStore, Store!Spec

-----------------------------------------------------------------------------
(***************************************************************************)
(* One command at a time.  With several, an entry can end under a scope    *)
(* whose ancestor was pruned, and with the labels of two updates; with one *)
(* it cannot, wherever commands are killed.                                *)
(***************************************************************************)
\* What a command at location loc with memory j has put in order so far.
InHand(d, loc, j) ==
    /\ loc = "updateScope" => \A k \in 1..j.done : SubSeq(j.path, 1, k) \in d.scopes
    /\ loc = "updateRow" => Prefixes(j.path) \subseteq d.scopes
    /\ loc \in {"updateScope", "updateRow"} => j.want.scope = j.path
    /\ loc \in {"updateScope", "updateRow", "updateClear"} => j.todo = j.labels
    /\ loc = "updateLabels" => /\ j.todo \subseteq j.labels
                               /\ LabelsOf(d, j.id) = j.labels \ j.todo
    /\ loc = "scopeDelete" => \A s \in d.scopes : ~Below(j.path, s)

Orderly == /\ EntryHierarchy
           /\ \A p \in Procs : InHand(db, pc[p], job[p])

OneAtATime == \A p, q \in Procs : p = q

\* What some command has in hand; the others end or hold nothing.
Handling == {"updateScope", "updateRow", "updateClear", "updateLabels",
             "scopeDelete"}

\* The only process moves, with what it has in hand.
LEMMA OrderlyStays ==
    ASSUME IInv, OneAtATime, EntryHierarchy', NEW p \in Procs, NEW loc, NEW j,
           Goto(p, loc, j), InHand(db', loc, j)
    PROVE  Orderly'
<1>1. pc'[p] = loc /\ job'[p] = j
  BY DEF IInv, JobsOK, Goto
<1>2. \A q \in Procs : q = p
  BY DEF OneAtATime
<1>3. \A q \in Procs : InHand(db', pc'[q], job'[q])
  BY <1>1, <1>2
<1> QED
  BY <1>3 DEF Orderly, InHand, LabelsOf

LEMMA OrderlyWithNothing ==
    ASSUME IInv, OneAtATime, EntryHierarchy', NEW p \in Procs, NEW loc, NEW j,
           Goto(p, loc, j), loc \notin Handling
    PROVE  Orderly'
<1>1. InHand(db', loc, j)
  BY DEF InHand, Handling
<1> QED
  BY <1>1, OrderlyStays

LEMMA OrderlyAtExit ==
    ASSUME IInv, OneAtATime, EntryHierarchy', NEW p \in Procs, Exit(p)
    PROVE  Orderly'
BY OrderlyWithNothing DEF Exit, Handling

\* What may disappear are entries, and what may come are scopes.
LEMMA HierarchyStays ==
    ASSUME EntryHierarchy, db.scopes \subseteq db'.scopes,
           \A i \in Ids : Live(db', i) => db'.entries[i] = db.entries[i]
    PROVE  EntryHierarchy'
<1>1. ASSUME NEW i \in Ids, Live(db', i)
      PROVE  Prefixes(db'.entries[i].scope) \subseteq db'.scopes
  <2>1. Live(db, i) /\ db'.entries[i] = db.entries[i]
    BY <1>1 DEF Live
  <2> QED
    BY <2>1 DEF EntryHierarchy
<1> QED
  BY <1>1 DEF EntryHierarchy, Live

\* A statement that neither gives an entry a scope nor takes a scope away.
LEMMA QuietStep ==
    ASSUME IInv, OneAtATime, Orderly, NEW p \in Procs,
           \/ AddResolve(p) \/ UpdateGet(p) \/ UpdateReturn(p) \/ DeleteGet(p)
           \/ LinkGet(p) \/ AcceptSuggest(p) \/ AcceptCheck(p)
           \/ ScopeCreateStart(p) \/ Crash(p)
    PROVE  Orderly'
<1>1. ReadsOnly
  BY DEF AddResolve, UpdateGet, UpdateReturn, DeleteGet, LinkGet,
     AcceptSuggest, AcceptCheck, ScopeCreateStart, Crash
<1>2. EntryHierarchy'
  BY <1>1, HierarchyStays DEF Orderly, ReadsOnly
<1>3. /\ {"addTx", "updateRead", "delete", "link", "accept", "acceptLink",
          "scopeCreate"} \cap Handling = {}
      /\ \A l : NextLink(p, l) => Exit(p) \/ \E j : Goto(p, "accept", j)
  BY DEF Handling, NextLink
<1>4. \/ Exit(p)
      \/ \E loc \in {"addTx", "updateRead", "delete", "link", "accept",
                     "acceptLink", "scopeCreate"} : \E j : Goto(p, loc, j)
  <2>1. CASE AcceptCheck(p)
    BY <1>3, <2>1 DEF AcceptCheck
  <2>2. CASE UpdateReturn(p) \/ Crash(p)
    BY <2>2 DEF UpdateReturn, Crash
  <2>3. CASE AddResolve(p) \/ UpdateGet(p) \/ DeleteGet(p) \/ LinkGet(p)
    BY <2>3 DEF AddResolve, UpdateGet, DeleteGet, LinkGet
  <2>4. CASE AcceptSuggest(p) \/ ScopeCreateStart(p)
    BY <2>4 DEF AcceptSuggest, ScopeCreateStart
  <2> QED
    BY <2>1, <2>2, <2>3, <2>4
<1> QED
  BY <1>2, <1>3, <1>4, OrderlyWithNothing, OrderlyAtExit

\* DELETE of entries takes them out of scopes that stay.
LEMMA DeletionKeepsHierarchy ==
    ASSUME IInv, EntryHierarchy, NEW gone \in SUBSET Ids,
           db' = DeleteEntries(db, gone)
    PROVE  EntryHierarchy'
<1>1. db \in Database
  BY DEF IInv, DatabaseOK
<1>2. /\ db'.scopes = db.scopes
      /\ \A i \in Ids :
            db'.entries[i] = IF i \in gone THEN Null ELSE db.entries[i]
  BY <1>1, DeleteEntriesShape
<1> QED
  BY <1>2, HierarchyStays DEF Live

LEMMA DeleteRowStays ==
    ASSUME IInv, OneAtATime, Orderly, NEW p \in Procs,
           DeleteRow(p) \/ GcExpired(p)
    PROVE  Orderly'
<1>1. CASE DeleteRow(p)
  <2>1. {job[p].id} \in SUBSET Ids
    BY <1>1 DEF IInv, JobsOK, DeleteRow, Fits
  <2>2. db' = DeleteEntries(db, {job[p].id}) \/ db' = db
    BY <1>1 DEF DeleteRow, Writes, ReadsOnly
  <2>3. EntryHierarchy'
    BY <2>1, <2>2, DeletionKeepsHierarchy, HierarchyStays DEF Orderly
  <2> QED
    BY <1>1, <2>3, OrderlyAtExit DEF DeleteRow
<1>2. CASE GcExpired(p)
  <2>1. Expired(db, now) \in SUBSET Ids
    BY DEF Expired
  <2>2. db' = DeleteEntries(db, Expired(db, now))
    BY <1>2 DEF GcExpired, Writes, DeleteExpired
  <2>3. EntryHierarchy'
    BY <2>1, <2>2, DeletionKeepsHierarchy DEF Orderly
  <2>4. Goto(p, "gcScopes", NoJob) /\ "gcScopes" \notin Handling
    BY <1>2 DEF GcExpired, Handling
  <2> QED
    BY <2>3, <2>4, OrderlyWithNothing
<1> QED
  BY <1>1, <1>2

\* Edges hang on entries and not on scopes.
LEMMA LinksStay ==
    ASSUME IInv, OneAtATime, Orderly, NEW p \in Procs,
           LinkCreate(p) \/ AcceptCreate(p) \/ Unlink(p)
    PROVE  Orderly'
<1>1. db \in Database
  BY DEF IInv, DatabaseOK
<1>2. \/ db' = db
      \/ \E from, name, w : /\ CanInsertEdges(db, from, name)
                            /\ db' = InsertEdges(db, from, name, w)
      \/ \E e \in EdgeIds : db' = DeleteEdge(db, e)
  BY DEF LinkCreate, AcceptCreate, Unlink, Writes, ReadsOnly
<1>3. db'.scopes = db.scopes /\ db'.entries = db.entries
  <2>1. \A from, name, w :
          CanInsertEdges(db, from, name) =>
            /\ InsertEdges(db, from, name, w).scopes = db.scopes
            /\ InsertEdges(db, from, name, w).entries = db.entries
    BY <1>1, InsertEdgesShape
  <2>2. \A e \in EdgeIds : /\ DeleteEdge(db, e).scopes = db.scopes
                           /\ DeleteEdge(db, e).entries = db.entries
    BY <1>1 DEF DeleteEdge, Database
  <2> QED
    BY <1>2, <2>1, <2>2
<1>4. EntryHierarchy'
  BY <1>3, HierarchyStays DEF Orderly
<1>5. CASE LinkCreate(p) \/ AcceptCreate(p)
  <2>1. \E loc, j : Goto(p, loc, j) /\ loc \notin Handling
    BY <1>5 DEF LinkCreate, AcceptCreate, NextLink, Exit, Handling
  <2> QED
    BY <1>4, <2>1, OrderlyWithNothing
<1>6. CASE Unlink(p)
  <2>1. pc' = pc /\ pc[p] = "idle" /\ \A q \in Procs : q = p
    BY <1>6 DEF Unlink, Starts, OneAtATime
  <2> QED
    BY <1>4, <2>1 DEF Orderly, InHand
<1> QED
  BY <1>5, <1>6

\* add puts its entry under the scopes it has just ensured.
LEMMA AddTxStays ==
    ASSUME IInv, OneAtATime, Orderly, NEW p \in Procs, AddTx(p)
    PROVE  Orderly'
<1>1. ASSUME NEW i \in Ids, Puts(db, db', i),
             Prefixes(db'.entries[i].scope) \subseteq db'.scopes
      PROVE  EntryHierarchy'
  <2>1. ASSUME NEW k \in Ids, Live(db', k)
        PROVE  Prefixes(db'.entries[k].scope) \subseteq db'.scopes
    <3>1. CASE k = i
      BY <1>1, <3>1
    <3>2. CASE k # i
      <4>1. db'.entries[k] = db.entries[k] /\ db.scopes \subseteq db'.scopes
        BY <1>1, <3>2 DEF Puts, SameEntry
      <4> QED
        BY <2>1, <4>1 DEF Orderly, EntryHierarchy, Live
    <3> QED
      BY <3>1, <3>2
  <2> QED
    BY <2>1 DEF EntryHierarchy, Live
<1>2. EntryHierarchy'
  BY <1>1, AddTxPuts, HierarchyStays DEF Orderly
<1> QED
  BY <1>2, OrderlyAtExit DEF AddTx

-----------------------------------------------------------------------------
\* The row update will write has the scope whose chain it will insert.
LEMMA UpdateReadStays ==
    ASSUME IInv, OneAtATime, Orderly, NEW p \in Procs, UpdateRead(p)
    PROVE  Orderly'
<1>1. PICK c \in Contents, s \in Paths, t \in Titles,
           x \in Expiries(job[p].base),
           ls \in {LabelsOf(db, job[p].id)} \cup SUBSET Labels :
        Goto(p, "updateScope",
             [job[p] EXCEPT
                !.want = [job[p].base EXCEPT !.content = c, !.scope = s,
                                             !.title = t, !.expires = x],
                !.labels = ls, !.todo = ls, !.path = s, !.done = 0])
  BY DEF UpdateRead
<1> DEFINE k == job[p]
           base == k.base
           want == [base EXCEPT !.content = c, !.scope = s,
                                !.title = t, !.expires = x]
           j == [k EXCEPT !.want = want, !.labels = ls, !.todo = ls,
                          !.path = s, !.done = 0]
<1>2. k \in Job /\ base \in Row
  BY DEF IInv, JobsOK, UpdateRead, Fits
<1>3. want.scope = s
  <2> HIDE DEF base
  <2> QED
    BY <1>2 DEF Row
<1> HIDE DEF want
<1>4. j.want = want /\ j.path = s /\ j.done = 0 /\ j.todo = j.labels
  <2> HIDE DEF k
  <2> QED
    BY <1>2 DEF Job
<1>5. Goto(p, "updateScope", j)
  BY <1>1 DEF want
<1> HIDE DEF j
<1>6. InHand(db', "updateScope", j)
  BY <1>3, <1>4 DEF InHand
<1>7. EntryHierarchy'
  BY HierarchyStays DEF Orderly, UpdateRead, ReadsOnly
<1> QED
  BY <1>5, <1>6, <1>7, OrderlyStays

\* The prefixes inserted so far and the next one; past the last they are the
\* whole chain.
LEMMA UpdateScopeStays ==
    ASSUME IInv, OneAtATime, Orderly, NEW p \in Procs, UpdateScope(p)
    PROVE  Orderly'
<1> DEFINE k == job[p]
           n == k.done + 1
           loc == IF n = Len(k.path) THEN "updateRow" ELSE "updateScope"
           j == [k EXCEPT !.done = n]
<1>1. /\ k \in Job /\ k.path \in Paths /\ k.done \in Nat
      /\ db \in Database
  BY DEF IInv, JobsOK, DatabaseOK, UpdateScope, Fits, Job
<1>2. /\ db' = InsertScope(db, SubSeq(k.path, 1, n))
      /\ Goto(p, loc, j)
  BY DEF UpdateScope, Writes
<1>3. /\ \A m \in 1..k.done : SubSeq(k.path, 1, m) \in db.scopes
      /\ k.want.scope = k.path /\ k.todo = k.labels
  BY DEF Orderly, InHand, UpdateScope
<1> HIDE DEF k
<1>4. /\ db'.scopes = db.scopes \cup {SubSeq(k.path, 1, n)}
      /\ db'.entries = db.entries
  BY <1>1, <1>2 DEF InsertScope, Database
<1>5. /\ j.want = k.want /\ j.path = k.path /\ j.done = n
      /\ j.todo = k.todo /\ j.labels = k.labels
  BY <1>1 DEF Job
<1> HIDE DEF j
<1>6. ASSUME NEW m \in 1..n PROVE SubSeq(k.path, 1, m) \in db'.scopes
  <2>1. m \in 1..k.done \/ m = n
    BY <1>1
  <2> QED
    BY <1>3, <1>4, <2>1
<1>7. CASE n = Len(k.path)
  <2>1. Prefixes(k.path) \subseteq db'.scopes
    BY <1>6, <1>7 DEF Prefixes
  <2> QED
    BY <1>2, <1>3, <1>4, <1>5, <1>7, <2>1, HierarchyStays, OrderlyStays
       DEF Orderly, InHand
<1>8. CASE n # Len(k.path)
  <2>1. InHand(db', "updateScope", j)
    BY <1>3, <1>5, <1>6 DEF InHand
  <2> QED
    BY <1>2, <1>4, <1>8, <2>1, HierarchyStays, OrderlyStays DEF Orderly
<1> QED
  BY <1>7, <1>8

\* The UPDATE moves its row to a scope whose chain is complete.
LEMMA UpdateCommitStays ==
    ASSUME IInv, OneAtATime, Orderly, NEW p \in Procs, UpdateCommit(p)
    PROVE  Orderly'
<1> DEFINE i == job[p].id
           row == job[p].want
           new == [row EXCEPT !.version = @ + 1]
<1>1. row \in Row /\ db \in Database
  BY DEF IInv, JobsOK, DatabaseOK, UpdateCommit, Fits
<1>2. Prefixes(row.scope) \subseteq db.scopes
  BY DEF Orderly, InHand, UpdateCommit
<1>3. CASE Writes(UpdateRow(db, i, row)) /\ Goto(p, "updateClear", job[p])
  <2> HIDE DEF row
  <2>1. new.scope = row.scope
    BY <1>1 DEF Row
  <2>2. db' = [db EXCEPT !.entries[i] = new]
    BY <1>3 DEF Writes, UpdateRow
  <2> HIDE DEF new
  <2>3. /\ db'.scopes = db.scopes
        /\ \A k \in Ids :
              db'.entries[k] = IF k = i THEN new ELSE db.entries[k]
    BY <1>1, <2>2 DEF Database
  <2>4. EntryHierarchy'
    BY <1>2, <2>1, <2>3 DEF Orderly, EntryHierarchy, Live
  <2>5. InHand(db', "updateClear", job[p])
    BY DEF Orderly, InHand, UpdateCommit
  <2> QED
    BY <1>3, <2>4, <2>5, OrderlyStays
<1>4. CASE ReadsOnly /\ Exit(p)
  BY <1>4, HierarchyStays, OrderlyAtExit DEF Orderly, ReadsOnly
<1> QED
  BY <1>3, <1>4 DEF UpdateCommit

\* Once they are cleared the entry has none of the labels still to insert.
LEMMA UpdateClearStays ==
    ASSUME IInv, OneAtATime, Orderly, NEW p \in Procs, UpdateClear(p)
    PROVE  Orderly'
<1> DEFINE k == job[p]
           loc == IF k.todo = {} THEN "updateReturn" ELSE "updateLabels"
<1>1. /\ db' = DeleteLabels(db, k.id) /\ Goto(p, loc, k)
      /\ k.todo = k.labels /\ db \in Database
  BY DEF UpdateClear, Writes, Orderly, InHand, IInv, DatabaseOK
<1> HIDE DEF k
<1>2. /\ db'.scopes = db.scopes /\ db'.entries = db.entries
      /\ db'.labels = {x \in db.labels : x[1] # k.id}
  BY <1>1 DEF DeleteLabels, Database
<1>3. LabelsOf(db', k.id) = {}
  BY <1>2 DEF LabelsOf
<1>4. InHand(db', loc, k)
  BY <1>1, <1>3 DEF InHand
<1>5. EntryHierarchy'
  BY <1>2, HierarchyStays DEF Orderly
<1> QED
  BY <1>1, <1>4, <1>5, OrderlyStays

\* What an INSERT of a label that is still to insert leaves.
LEMMA LabelInserted ==
    ASSUME IInv, Orderly, NEW p \in Procs, pc[p] = "updateLabels",
           NEW l \in job[p].todo, db' = InsertLabel(db, job[p].id, l)
    PROVE  /\ LabelsOf(db', job[p].id) = job[p].labels \ (job[p].todo \ {l})
           /\ db'.scopes = db.scopes /\ db'.entries = db.entries
<1> DEFINE k == job[p]
<1>1. /\ k.todo \subseteq k.labels /\ LabelsOf(db, k.id) = k.labels \ k.todo
      /\ db \in Database /\ k.labels \subseteq Labels
  BY DEF Orderly, InHand, IInv, DatabaseOK, JobsOK, Job
<1> HIDE DEF k
<1>2. /\ db'.scopes = db.scopes /\ db'.entries = db.entries
      /\ db'.labels = db.labels \cup {<<k.id, l>>}
  BY <1>1 DEF InsertLabel, Database, k
<1>3. l \in k.labels /\ l \in k.todo
  BY <1>1 DEF k
<1>4. LabelsOf(db', k.id) = LabelsOf(db, k.id) \cup {l}
  BY <1>1, <1>2, <1>3 DEF LabelsOf
<1>5. LabelsOf(db', k.id) = k.labels \ (k.todo \ {l})
  BY <1>1, <1>3, <1>4
<1> QED
  BY <1>2, <1>5 DEF k

LEMMA UpdateLabelsStays ==
    ASSUME IInv, OneAtATime, Orderly, NEW p \in Procs, UpdateLabels(p)
    PROVE  Orderly'
<1> DEFINE k == job[p]
<1>1. /\ k \in Job /\ pc[p] = "updateLabels"
      /\ k.todo \subseteq k.labels
  BY DEF IInv, JobsOK, UpdateLabels, Orderly, InHand
<1>2. PICK l \in k.todo :
        \/ /\ Writes(InsertLabel(db, k.id, l))
           /\ Goto(p, IF k.todo = {l} THEN "updateReturn" ELSE "updateLabels",
                   [k EXCEPT !.todo = @ \ {l}])
        \/ ReadsOnly /\ Exit(p)
  BY DEF UpdateLabels
<1> DEFINE loc == IF k.todo = {l} THEN "updateReturn" ELSE "updateLabels"
           j == [k EXCEPT !.todo = @ \ {l}]
<1>3. CASE Writes(InsertLabel(db, k.id, l)) /\ Goto(p, loc, j)
  <2>1. /\ LabelsOf(db', k.id) = k.labels \ (k.todo \ {l})
        /\ db'.scopes = db.scopes /\ db'.entries = db.entries
    BY <1>1, <1>3, LabelInserted DEF Writes
  <2>2. EntryHierarchy'
    BY <2>1, HierarchyStays DEF Orderly
  <2> HIDE DEF k
  <2>3. j.id = k.id /\ j.labels = k.labels /\ j.todo = k.todo \ {l}
    BY <1>1 DEF Job
  <2> HIDE DEF j
  <2>4. InHand(db', loc, j)
    BY <1>1, <2>1, <2>3 DEF InHand
  <2> QED
    BY <1>3, <2>2, <2>4, OrderlyStays
<1>4. CASE ReadsOnly /\ Exit(p)
  BY <1>4, HierarchyStays, OrderlyAtExit DEF Orderly, ReadsOnly
<1> QED
  BY <1>2, <1>3, <1>4

-----------------------------------------------------------------------------
\* scope create and the pruning of gc.
LEMMA ScopeCreateStays ==
    ASSUME IInv, OneAtATime, Orderly, NEW p \in Procs, ScopeCreateStep(p)
    PROVE  Orderly'
<1>1. /\ db \in Database
      /\ \E s : db' = InsertScope(db, s)
  BY DEF IInv, DatabaseOK, ScopeCreateStep, Writes
<1>2. db.scopes \subseteq db'.scopes /\ db'.entries = db.entries
  BY <1>1 DEF InsertScope, Database
<1>3. EntryHierarchy'
  BY <1>2, HierarchyStays DEF Orderly
<1>4. Exit(p) \/ \E j : Goto(p, "scopeCreate", j)
  BY DEF ScopeCreateStep
<1>5. "scopeCreate" \notin Handling
  BY DEF Handling
<1> QED
  BY <1>3, <1>4, <1>5, OrderlyAtExit, OrderlyWithNothing

LEMMA GcScopesStays ==
    ASSUME IInv, OneAtATime, Orderly, NEW p \in Procs, GcScopes(p)
    PROVE  Orderly'
<1>1. db' = DeleteEmpty(db) /\ Exit(p)
  BY DEF GcScopes, Writes
<1> QED
  BY <1>1, DeleteEmptyKeepsHierarchy, OrderlyAtExit DEF Orderly

\* A scope without content has no scope below it: an entry or a scope there
\* would have been found.
LEMMA ScopeDeleteCheckStays ==
    ASSUME IInv, OneAtATime, Orderly, NEW p \in Procs, ScopeDeleteCheck(p)
    PROVE  Orderly'
<1>1. PICK s \in db.scopes :
        \/ ~HasContent(s) /\ Goto(p, "scopeDelete", [NoJob EXCEPT !.path = s])
        \/ Goto(p, "scopeDeleteTree", [NoJob EXCEPT !.path = s])
  BY DEF ScopeDeleteCheck
<1> DEFINE j == [NoJob EXCEPT !.path = s]
<1>2. j.path = s /\ db' = db
  BY DEF NoJob, ScopeDeleteCheck, ReadsOnly
<1> HIDE DEF j
<1>3. EntryHierarchy'
  BY <1>2, HierarchyStays DEF Orderly
<1>4. CASE ~HasContent(s) /\ Goto(p, "scopeDelete", j)
  <2>1. \A x \in db.scopes : ~LikeBelow(s, x)
    BY <1>4 DEF HasContent, ListDescendants
  <2>2. db.scopes \subseteq Paths
    BY DEF IInv, DatabaseOK, Database
  <2>3. \A x \in db'.scopes : ~Below(j.path, x)
    BY <1>2, <2>1, <2>2, BelowIsLikeBelow
  <2>4. InHand(db', "scopeDelete", j)
    BY <2>3 DEF InHand
  <2> QED
    BY <1>3, <1>4, <2>4, OrderlyStays
<1>5. CASE Goto(p, "scopeDeleteTree", j)
  <2>1. "scopeDeleteTree" \notin Handling
    BY DEF Handling
  <2> QED
    BY <1>3, <1>5, <2>1, OrderlyWithNothing
<1> QED
  BY <1>1, <1>4, <1>5 DEF j

\* ... and it is still without, so no chain runs through it.
LEMMA ScopeDeleteOneStays ==
    ASSUME IInv, OneAtATime, Orderly, NEW p \in Procs, ScopeDeleteOne(p)
    PROVE  Orderly'
<1> DEFINE s == job[p].path
<1>1. /\ db \in Database /\ s \in Paths /\ Consistent(db)
      /\ \A x \in db.scopes : ~Below(s, x)
  BY DEF IInv, DatabaseOK, JobsOK, ScopeDeleteOne, Fits, Orderly, InHand
<1>2. CASE CanDeleteScope(db, s) /\ Writes(DeleteScope(db, s))
  <2>1. db'.scopes = db.scopes \ {s} /\ db'.entries = db.entries
    BY <1>1, <1>2 DEF Writes, DeleteScope, Database
  <2>2. ASSUME NEW i \in Ids, Live(db, i),
               s \in Prefixes(db.entries[i].scope)
        PROVE  FALSE
    <3>1. db.entries[i].scope \in Paths /\ db.entries[i].scope \in db.scopes
      BY <1>1, <2>2 DEF Database, Row, Live, Consistent, ScopesExist
    <3>2. s # db.entries[i].scope
      BY <1>2, <2>2 DEF CanDeleteScope, Referenced
    <3>3. Below(s, db.entries[i].scope)
      BY <2>2, <3>1, <3>2, PrefixIsAbove
    <3> QED
      BY <1>1, <3>1, <3>3
  <2>3. EntryHierarchy'
    BY <2>1, <2>2 DEF Orderly, EntryHierarchy, Live
  <2> QED
    BY <2>3, OrderlyAtExit DEF ScopeDeleteOne
<1>3. CASE ReadsOnly
  BY <1>3, HierarchyStays, OrderlyAtExit DEF Orderly, ReadsOnly, ScopeDeleteOne
<1> QED
  BY <1>2, <1>3 DEF ScopeDeleteOne

\* The recursive deletion takes no scope above an entry that survives it: the
\* pattern that matched such a scope matches the entry's own as well, and the
\* reference would have stopped it.
LEMMA TreeKeepsHierarchy ==
    ASSUME IInv, EntryHierarchy, NEW p \in Procs, ScopeDeleteTree(p)
    PROVE  EntryHierarchy'
<1> DEFINE s    == job[p].path
           gone == {s} \cup ListDescendants(db, s)
           rows == ListPrefix(db, s, now)
           w    == DeleteEntries(db, rows)
<1>1. /\ db \in Database /\ Consistent(db) /\ s \in Paths
      /\ rows \in SUBSET Ids
  BY DEF IInv, DatabaseOK, JobsOK, ScopeDeleteTree, Fits, ListPrefix
<1>2. \/ /\ \A x \in gone : ~Referenced(w, x)
         /\ Writes([w EXCEPT !.scopes = @ \ gone])
      \/ ReadsOnly
  BY DEF ScopeDeleteTree
<1>3. /\ w \in Database /\ w.scopes = db.scopes
      /\ \A i \in Ids : w.entries[i] # Null => w.entries[i] = db.entries[i]
  BY <1>1, DeleteEntriesSound DEF Sound, DeleteEntries, Database
<1>4. ASSUME NEW q \in gone, NEW x \in db.scopes, Below(q, x)
      PROVE  x \in gone
  <2>1. q \in Paths /\ x \in Paths
    BY <1>1 DEF ListDescendants, Database
  <2>2. q = s \/ LikeBelow(s, q)
    BY DEF ListDescendants
  <2>3. LikeBelow(s, x)
    BY <1>1, <1>4, <2>1, <2>2, BelowIsLikeBelow, LikeReachesDown
  <2> QED
    BY <2>3 DEF ListDescendants
<1> HIDE DEF gone, rows, w
<1>5. CASE /\ \A x \in gone : ~Referenced(w, x)
           /\ Writes([w EXCEPT !.scopes = @ \ gone])
  <2>1. db'.scopes = db.scopes \ gone /\ db'.entries = w.entries
    BY <1>3, <1>5 DEF Writes, Database
  <2>2. ASSUME NEW i \in Ids, Live(db', i),
               NEW q \in Prefixes(db'.entries[i].scope)
        PROVE  q \in db'.scopes
    <3> DEFINE x == db.entries[i].scope
    <3>1. /\ Live(w, i) /\ Live(db, i) /\ db'.entries[i] = db.entries[i]
          /\ w.entries[i] = db.entries[i]
      BY <1>3, <2>1, <2>2 DEF Live
    <3>2. x \in Paths /\ x \in db.scopes /\ q \in db.scopes
      BY <1>1, <2>2, <3>1
         DEF Database, Row, Live, Consistent, ScopesExist, EntryHierarchy
    <3>3. x \notin gone
      BY <1>5, <3>1 DEF Referenced
    <3>4. q = x \/ Below(q, x)
      BY <2>2, <3>1, <3>2, PrefixIsAbove
    <3>5. q \notin gone
      BY <1>4, <3>2, <3>3, <3>4
    <3> QED
      BY <2>1, <3>2, <3>5
  <2> QED
    BY <2>2 DEF EntryHierarchy, Live
<1>6. CASE ReadsOnly
  BY <1>6, HierarchyStays DEF ReadsOnly
<1> QED
  BY <1>2, <1>5, <1>6

-----------------------------------------------------------------------------
LEMMA OrderlyInit == Init => Orderly
BY DEF Init, Orderly, EntryHierarchy, Live, EmptyDatabase, InHand

LEMMA OrderlyStep ==
    ASSUME IInv, OneAtATime, Orderly, [Next]_vars PROVE Orderly'
<1>1. CASE Tick \/ UNCHANGED vars
  BY <1>1 DEF Tick, vars, Orderly, EntryHierarchy, Live, InHand, LabelsOf
<1>2. ASSUME NEW p \in Procs, ScopeDeleteTree(p) PROVE Orderly'
  BY <1>2, TreeKeepsHierarchy, OrderlyAtExit DEF Orderly, ScopeDeleteTree
<1>3. ASSUME NEW p \in Procs, ProcessStep(p) PROVE Orderly'
  BY <1>2, <1>3, QuietStep, DeleteRowStays, LinksStay, AddTxStays,
     UpdateReadStays, UpdateScopeStays, UpdateCommitStays, UpdateClearStays,
     UpdateLabelsStays, ScopeCreateStays, GcScopesStays,
     ScopeDeleteCheckStays, ScopeDeleteOneStays DEF ProcessStep
<1> QED
  BY <1>1, <1>3 DEF Next

LEMMA OrderlyHolds == ASSUME OneAtATime PROVE Spec => [](IInv /\ Orderly)
<1>1. IInv /\ Orderly /\ [Next]_vars => IInv' /\ Orderly'
  BY StepOK, OrderlyStep
<1>2. Init => IInv /\ Orderly
  BY InitOK, OrderlyInit
<1> QED
  BY <1>1, <1>2, PTL DEF Spec

\* Where commands come one at a time, whatever they are and wherever they are
\* killed, every entry sits under a complete chain of scope rows: an update
\* inserts the chain before it moves the row, scope delete checks before it
\* deletes, and a failed deletion takes nothing (storage/sqlite/scope.go
\* EnsureHierarchy, cmd/scope.go runScopeDelete).  Two commands at a time can
\* break it.
THEOREM AloneKeepsHierarchy ==
    ASSUME \A p, q \in Procs : p = q
    PROVE  Spec => []EntryHierarchy
<1>1. OneAtATime
  BY DEF OneAtATime
<1>2. Orderly => EntryHierarchy
  BY DEF Orderly
<1> QED
  BY <1>1, <1>2, OrderlyHolds, PTL

\* ... and an update that returns has replaced all labels of its entry by the
\* ones it reports (cmd/update.go runUpdate, storage/sqlite/entry.go
\* saveLabels).  Two updates at a time can leave the labels of both.
THEOREM AloneSetsLabels ==
    ASSUME \A p, q \in Procs : p = q
    PROVE  Spec => UpdateSetsLabels
<1>1. OneAtATime
  BY DEF OneAtATime
<1>2. ASSUME IInv, Orderly, [Next]_vars, NEW p \in Procs,
             pc[p] \in {"updateClear", "updateLabels"},
             pc'[p] = "updateReturn"
      PROVE  LabelsOf(db', job[p].id) = job[p].labels
  <2>1. pc' # pc /\ \A q \in Procs : q = p
    BY <1>1, <1>2 DEF OneAtATime
  <2>2. ProcessStep(p)
    BY <1>2, <2>1 DEF Next, Tick, vars
  <2>3. UpdateClear(p) \/ UpdateLabels(p) \/ Crash(p)
    BY <1>2, <2>2 DEF ProcessStep, Starts, AddResolve, AddTx, UpdateGet,
       UpdateRead, UpdateScope, UpdateCommit, UpdateReturn, DeleteGet,
       DeleteRow, LinkGet, LinkCreate, AcceptSuggest, AcceptCheck,
       AcceptCreate, Unlink, GcExpired, GcScopes, ScopeCreateStart,
       ScopeCreateStep, ScopeDeleteCheck, ScopeDeleteOne, ScopeDeleteTree
  <2>4. pc \in [Procs -> Locations] /\ ~Exit(p)
    BY <1>2 DEF IInv, JobsOK, Exit, Goto
  <2>5. CASE UpdateClear(p)
    <3>1. job[p].todo = {}
      BY <1>2, <2>4, <2>5 DEF UpdateClear, Goto
    <3>2. job[p].labels = {} /\ db \in Database
      BY <1>2, <2>5, <3>1 DEF UpdateClear, Orderly, InHand, IInv, DatabaseOK
    <3>3. db'.labels = {x \in db.labels : x[1] # job[p].id}
      BY <2>5, <3>2 DEF UpdateClear, Writes, DeleteLabels, Database
    <3> QED
      BY <3>2, <3>3 DEF LabelsOf
  <2>6. CASE UpdateLabels(p)
    <3>1. PICK l \in job[p].todo :
            /\ db' = InsertLabel(db, job[p].id, l)
            /\ Goto(p, IF job[p].todo = {l} THEN "updateReturn"
                                            ELSE "updateLabels",
                    [job[p] EXCEPT !.todo = @ \ {l}])
      BY <2>4, <2>6 DEF UpdateLabels, Writes
    <3>2. job[p].todo = {l}
      BY <1>2, <2>4, <3>1 DEF Goto
    <3>3. LabelsOf(db', job[p].id) = job[p].labels \ (job[p].todo \ {l})
      BY <1>2, <2>6, <3>1, LabelInserted DEF UpdateLabels
    <3> QED
      BY <3>2, <3>3
  <2> QED
    BY <2>3, <2>4, <2>5, <2>6 DEF Crash
<1>3. IInv /\ Orderly /\ [Next]_vars =>
        \A p \in Procs :
          /\ pc[p] \in {"updateClear", "updateLabels"}
          /\ pc'[p] = "updateReturn"
          => LabelsOf(db', job[p].id) = job[p].labels
  BY <1>2
<1> QED
  BY <1>1, <1>3, OrderlyHolds, PTL DEF Spec, UpdateSetsLabels
=============================================================================
