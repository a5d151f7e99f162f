-------------------------- MODULE TaskStoreProofs ---------------------------
(***************************************************************************)
(* Proofs about TaskStore, for any tasks, hosts, arrivals, times and       *)
(* bound, and about OrphanDetection, whose threads write to the store, for *)
(* any workers.                                                            *)
(***************************************************************************)
EXTENDS OrphanDetection, TLAPS

-----------------------------------------------------------------------------
(* Type correctness. *)

\* What a new row inherits is of the right type.
LEMMA InheritedTypes ==
    ASSUME TypeOK, NEW t \in Tasks, NEW e \in Arrivals
    PROVE  /\ InheritArgs(t, e) \subseteq MaybeArgs
           /\ InheritRouting(t, e) \subseteq [queue : Queues, routing_key : RoutingKeys]
<1>1. e \in Arrival
  BY ArrivalsAssumption
<1>2. \A r \in rows : r \in EventRow
  BY DEF TypeOK
<1>3. InheritArgs(t, e) \subseteq MaybeArgs
  BY <1>1, <1>2 DEF InheritArgs, PayloadRows, RowsOf, Arrival, EventRow
<1>4. InheritRouting(t, e) \subseteq [queue : Queues, routing_key : RoutingKeys]
  BY <1>1, <1>2 DEF InheritRouting, RoutingSource, NewestIn, RoutingRows, RowsOf,
                    Arrival, EventRow
<1> QED BY <1>3, <1>4

\* An id handed out is a positive bounded integer.
LEMMA FreshIdsAreNat == FreshIds \subseteq Nat /\ (lastId \in Nat => lastId + 1 \in Nat)
<1>1. 1..MaxId \subseteq Nat
  BY MaxIdAssumption
<1> QED BY <1>1 DEF FreshIds

\* The values offered to task_latest by a row make a snapshot.
LEMMA OfferedType ==
    ASSUME TypeOK, NEW r \in EventRow
    PROVE  Offered(r) \in Snapshot
<1>1. latest[r.task] # None => latest[r.task] \in Snapshot
  BY DEF TypeOK, EventRow
<1>2. (IF r.args = None /\ latest[r.task] # None THEN latest[r.task].args ELSE r.args)
         \in MaybeArgs
  BY <1>1 DEF Snapshot, EventRow
<1> QED BY <1>2 DEF Offered, Snapshot, EventRow

\* Whatever the dialect merges, the result is a snapshot.
LEMMA UpsertType ==
    ASSUME NEW new \in Snapshot, NEW old \in Snapshot \cup {None}
    PROVE  Upsert(new, old) \in Snapshot
<1>1. CASE old = None
  BY <1>1 DEF Upsert
<1>2. CASE old # None /\ Dialect = "mysql"
  <2>1. old \in Snapshot
    BY <1>2
  <2>2. ColumnwiseUpsert(new, old) \in Snapshot
    BY <2>1 DEF ColumnwiseUpsert, Snapshot
  <2> QED BY <1>2, <2>2 DEF Upsert
<1>3. CASE old # None /\ Dialect # "mysql"
  <2>1. Upsert(new, old) = WholeRowUpsert(new, old)
    BY <1>3 DEF Upsert
  <2> QED BY <2>1, <1>3 DEF WholeRowUpsert
<1> QED BY <1>1, <1>2, <1>3

\* The row SaveTaskEvent inserts.
LEMMA NewRowType ==
    ASSUME TypeOK, NEW t \in Tasks, NEW e \in Arrivals, NEW ts \in Times,
           NEW id \in FreshIds, NEW routing \in InheritRouting(t, e),
           NEW args \in InheritArgs(t, e)
    PROVE  NewRow(id, t, e, ts, routing, args) \in EventRow
<1>1. id \in Nat /\ args \in MaybeArgs
      /\ routing \in [queue : Queues, routing_key : RoutingKeys]
  BY FreshIdsAreNat, InheritedTypes
<1>2. e \in Arrival
  BY ArrivalsAssumption
<1> QED BY <1>1, <1>2 DEF NewRow, EventRow, Arrival, MaybeTime

\* Every action keeps the tables' schema, on every dialect.
LEMMA TypeStep == TypeOK /\ [Next]_storeVars => TypeOK'
<1> SUFFICES ASSUME TypeOK, [Next]_storeVars PROVE TypeOK'
  OBVIOUS
<1>1. ASSUME NEW t \in Tasks, NEW e \in Arrivals, NEW ts \in Times,
             SaveTaskEvent(t, e, ts)
      PROVE TypeOK'
  <2>1. PICK id \in FreshIds, routing \in InheritRouting(t, e),
             args \in InheritArgs(t, e) :
           /\ rows' = rows \cup {NewRow(id, t, e, ts, routing, args)}
           /\ lastId' = id
           /\ latest' = [latest EXCEPT ![t] =
                 Upsert(Offered(NewRow(id, t, e, ts, routing, args)), latest[t])]
           /\ UNCHANGED resolutions
    BY <1>1 DEF SaveTaskEvent
  <2> DEFINE row == NewRow(id, t, e, ts, routing, args)
  <2>2. row \in EventRow
    BY NewRowType
  <2>3. latest[t] \in Snapshot \cup {None}
    BY DEF TypeOK
  <2>4. Upsert(Offered(row), latest[t]) \in Snapshot
    BY <2>2, <2>3, OfferedType, UpsertType
  <2>5. rows' \subseteq EventRow
    BY <2>1, <2>2 DEF TypeOK
  <2>6. lastId' \in Nat
    BY <2>1, FreshIdsAreNat
  <2>7. latest' \in [Tasks -> Snapshot \cup {None}]
    BY <2>1, <2>4 DEF TypeOK
  <2> QED BY <2>1, <2>5, <2>6, <2>7 DEF TypeOK
<1>2. ASSUME NEW T \in SUBSET Tasks, NEW at \in Times, MarkOrphans(T, at)
      PROVE TypeOK'
  <2>1. \A r \in EventRow : [r EXCEPT !.orphaned_at = at] \in EventRow
    BY DEF EventRow, MaybeTime
  <2>2. rows' \subseteq EventRow
    BY <1>2, <2>1 DEF MarkOrphans, Marked, MarkRow, TypeOK
  <2> QED BY <1>2, <2>2 DEF MarkOrphans, TypeOK
<1>3. ASSUME NEW t \in Tasks, NEW b \in BOOLEAN
      PROVE ResolutionOfLatest(t, b) \in [Tasks -> Snapshot \cup {None}]
  <2>1. CASE latest[t] = None
    BY <2>1 DEF ResolutionOfLatest, TypeOK
  <2>2. CASE latest[t] # None
    <3>1. latest[t] \in Snapshot
      BY <2>2 DEF TypeOK
    <3>2. [latest[t] EXCEPT !.resolved = b] \in Snapshot
      BY <3>1 DEF Snapshot
    <3> QED BY <2>2, <3>2 DEF ResolutionOfLatest, TypeOK
  <2> QED BY <2>1, <2>2
<1>4. ASSUME NEW t \in Tasks, SetResolution(t) PROVE TypeOK'
  BY <1>3, <1>4 DEF SetResolution, TypeOK
<1>5. ASSUME NEW t \in Tasks, ClearResolution(t) PROVE TypeOK'
  BY <1>3, <1>5 DEF ClearResolution, TypeOK
<1>6. ASSUME NEW c \in Times, NEW d \in Times, Cleanup(c, d) PROVE TypeOK'
  <2>1. rows' \subseteq rows
    BY <1>6 DEF Cleanup
  <2>2. latest' \in [Tasks -> Snapshot \cup {None}]
    BY <1>6 DEF Cleanup, TypeOK
  <2> QED BY <1>6, <2>1, <2>2 DEF Cleanup, TypeOK
<1>7. CASE UNCHANGED storeVars
  BY <1>7 DEF storeVars, TypeOK
<1> QED BY <1>1, <1>2, <1>4, <1>5, <1>6, <1>7 DEF Next

\* The tables keep their schema, on every dialect.
THEOREM TypeCorrect == Spec => []TypeOK
<1>1. Init => TypeOK
  BY DEF Init, TypeOK
<1>2. TypeOK /\ [Next]_storeVars => TypeOK'
  BY TypeStep
<1> QED BY <1>1, <1>2, PTL DEF Spec

-----------------------------------------------------------------------------
(* The inductive invariant. *)

\* Ids are below the counter and name one row.
IdsOK == /\ \A r \in rows : r.id <= lastId
         /\ \A r, s \in rows : r.id = s.id => r = s

\* PayloadKept makes SnapshotMirrorsNewest inductive: empty args in a new row
\* mean that the snapshot has none to lend.  IdsOK makes both inductive: the
\* new row is the newest of its task unless the clock says otherwise.
RowsInv  == TypeOK /\ IdsOK /\ PayloadKept
StoreInv == RowsInv /\ SnapshotMirrorsNewest

\* Every id handed out is above all stored ones, reused or not.
LEMMA FreshIdsAbove ==
    ASSUME TypeOK, IdsOK, NEW id \in FreshIds
    PROVE  id \in Nat /\ \A r \in rows : r.id < id
<1>1. \A r \in rows : r.id \in Nat
  BY DEF TypeOK, EventRow
<1>2. id \in Nat
  BY FreshIdsAreNat
<1>3. CASE Dialect = "sqlite"
  BY <1>2, <1>3 DEF FreshIds
<1>4. CASE Dialect # "sqlite"
  <2>1. id = lastId + 1 /\ lastId \in Nat
    BY <1>4 DEF FreshIds, TypeOK
  <2>2. \A r \in rows : r.id < id
    BY <1>1, <2>1 DEF IdsOK
  <2> QED BY <1>2, <2>2
<1> QED BY <1>3, <1>4

\* A row saved without args means no row of the task has any.
LEMMA EmptyArgsMeansNone ==
    ASSUME TypeOK, NEW t \in Tasks, NEW e \in Arrivals, None \in InheritArgs(t, e)
    PROVE  \A r \in RowsOf(t) : r.args = None
<1>1. PayloadRows(t) = {}
  BY DEF InheritArgs, PayloadRows, RowsOf
<1> QED BY <1>1 DEF PayloadRows

\* The order is total on rows with different ids, and transitive.
LEMMA NewerOrder ==
    ASSUME NEW r \in EventRow, NEW s \in EventRow, NEW p \in EventRow
    PROVE  /\ ~Newer(r.ts, r.id, r.ts, r.id)
           /\ Newer(r.ts, r.id, s.ts, s.id) => ~Newer(s.ts, s.id, r.ts, r.id)
           /\ Newer(r.ts, r.id, s.ts, s.id) /\ ~Newer(p.ts, p.id, s.ts, s.id)
                => ~Newer(p.ts, p.id, r.ts, r.id)
<1>1. /\ r.ts \in Nat /\ s.ts \in Nat /\ p.ts \in Nat
      /\ r.id \in Nat /\ s.id \in Nat /\ p.id \in Nat
  BY TimesAssumption DEF EventRow
<1> QED BY <1>1 DEF Newer

\* The snapshot never has args to lend that the new row lacks.
LEMMA OfferedArgs ==
    ASSUME StoreInv, NEW t \in Tasks, NEW e \in Arrivals, NEW args \in InheritArgs(t, e),
           NEW row, row.task = t, row.args = args
    PROVE  Offered(row).args = row.args
<1>1. CASE row.args = None /\ latest[t] # None
  <2>1. PICK r \in NewestIn(RowsOf(t)) : Mirrors(latest[t], r)
    BY <1>1 DEF StoreInv, SnapshotMirrorsNewest
  <2>2. r.args = None
    BY <1>1, <2>1, EmptyArgsMeansNone DEF NewestIn, StoreInv, RowsInv
  <2>3. latest[t].args = None
    BY <2>1, <2>2 DEF Mirrors
  <2> QED BY <1>1, <2>3 DEF Offered
<1>2. CASE ~(row.args = None /\ latest[t] # None)
  BY <1>2 DEF Offered
<1> QED BY <1>1, <1>2

\* After a save, the snapshot of the saved task mirrors its newest row.
LEMMA SaveMirrors ==
    ASSUME Dialect # "mysql", StoreInv,
           NEW t \in Tasks, NEW e \in Arrivals, NEW ts \in Times,
           NEW id \in FreshIds, NEW routing \in InheritRouting(t, e),
           NEW args \in InheritArgs(t, e),
           NEW row, row = NewRow(id, t, e, ts, routing, args)
    PROVE  LET new == Upsert(Offered(row), latest[t])
               R   == RowsOf(t) \cup {row}
           IN  /\ new # None
               /\ \E r \in NewestIn(R) : Mirrors(new, r)
<1> DEFINE new == Upsert(Offered(row), latest[t])
           R   == RowsOf(t) \cup {row}
<1>1. row \in EventRow /\ row.task = t /\ row.args = args
  BY NewRowType DEF StoreInv, RowsInv, NewRow
<1>2. RowsOf(t) \subseteq EventRow
  BY DEF StoreInv, RowsInv, TypeOK, RowsOf
<1>3. Offered(row) \in Snapshot
  BY <1>1, OfferedType DEF StoreInv, RowsInv
<1>4. latest[t] \in Snapshot \cup {None}
  BY DEF StoreInv, RowsInv, TypeOK
<1>5. new # None
  BY <1>3, <1>4, UpsertType, NoneAssumption
<1>6. CASE latest[t] = None
  <2>1. RowsOf(t) = {}
    BY <1>6 DEF StoreInv, SnapshotMirrorsNewest
  <2>2. new = Offered(row)
    BY <1>6 DEF Upsert
  <2>3. Mirrors(new, row)
    BY <1>1, <1>6, <2>2 DEF Offered, Mirrors
  <2>4. row \in NewestIn(R)
    BY <1>1, <2>1, NewerOrder DEF NewestIn
  <2> QED BY <1>5, <2>3, <2>4
<1>7. CASE latest[t] # None
  <2>1. PICK r \in NewestIn(RowsOf(t)) : Mirrors(latest[t], r)
    BY <1>7 DEF StoreInv, SnapshotMirrorsNewest
  <2>2. r \in RowsOf(t) /\ r \in EventRow
    BY <1>2, <2>1 DEF NewestIn
  <2>3. new = WholeRowUpsert(Offered(row), latest[t])
    BY <1>7 DEF Upsert
  <2>4. Offered(row).ts = row.ts /\ Offered(row).event_id = row.id
    BY DEF Offered
  <2>5. CASE Newer(row.ts, row.id, r.ts, r.id)
    <3>1. new = Offered(row)
      BY <2>1, <2>3, <2>4, <2>5 DEF WholeRowUpsert, Mirrors
    <3>2. Offered(row).args = row.args
      BY <1>1, OfferedArgs
    <3>3. Mirrors(new, row)
      BY <3>1, <3>2 DEF Offered, Mirrors
    <3>4. \A s \in RowsOf(t) : ~Newer(s.ts, s.id, row.ts, row.id)
      BY <1>1, <1>2, <2>1, <2>2, <2>5, NewerOrder DEF NewestIn
    <3>5. row \in NewestIn(R)
      BY <1>1, <3>4, NewerOrder DEF NewestIn
    <3> QED BY <1>5, <3>3, <3>5
  <2>6. CASE ~Newer(row.ts, row.id, r.ts, r.id)
    <3>1. new = latest[t]
      BY <2>1, <2>3, <2>4, <2>6 DEF WholeRowUpsert, Mirrors
    <3>2. r \in NewestIn(R)
      BY <2>1, <2>2, <2>6 DEF NewestIn
    <3> QED BY <1>5, <2>1, <3>1, <3>2
  <2> QED BY <2>5, <2>6
<1> QED BY <1>6, <1>7

\* m and r record the same event, whether it is an orphan or not.
SameEvent(m, r) ==
    /\ m.id = r.id
    /\ m.task = r.task
    /\ m.type = r.type
    /\ m.ts = r.ts
    /\ m.host = r.host
    /\ m.args = r.args
    /\ m.queue = r.queue
    /\ m.routing_key = r.routing_key

\* What MarkOrphans leaves of a row: everything but orphaned_at.
LEMMA MarkedRows ==
    ASSUME TypeOK, NEW T, NEW at
    PROVE  /\ \A m \in Marked(T, at) : \E r \in rows :
                 SameEvent(m, r) /\ m = MarkRow(r, T, at)
           /\ \A r \in rows : \E m \in Marked(T, at) : SameEvent(m, r)
<1>1. ASSUME NEW r \in rows PROVE SameEvent(MarkRow(r, T, at), r)
  BY DEF TypeOK, EventRow, MarkRow, SameEvent
<1> QED BY <1>1 DEF Marked

\* SaveTaskEvent, on any dialect: ids stay unique and payloads are inherited.
LEMMA SaveKeepsRows ==
    ASSUME RowsInv, TypeOK',
           NEW t \in Tasks, NEW e \in Arrivals, NEW ts \in Times,
           SaveTaskEvent(t, e, ts)
    PROVE  RowsInv'
<1>1. PICK id \in FreshIds, routing \in InheritRouting(t, e), args \in InheritArgs(t, e) :
         /\ rows' = rows \cup {NewRow(id, t, e, ts, routing, args)}
         /\ lastId' = id
         /\ latest' = [latest EXCEPT ![t] =
               Upsert(Offered(NewRow(id, t, e, ts, routing, args)), latest[t])]
  BY DEF SaveTaskEvent
<1> DEFINE row == NewRow(id, t, e, ts, routing, args)
<1>2. row.id = id /\ row.task = t /\ row.args = args
  BY DEF NewRow
<1>3. id \in Nat /\ \A r \in rows : r.id < id /\ r.id \in Nat
  BY FreshIdsAbove DEF RowsInv, TypeOK, EventRow
<1>4. IdsOK'
  BY <1>1, <1>2, <1>3 DEF RowsInv, IdsOK
<1>5. PayloadKept'
  <2> SUFFICES ASSUME NEW r \in rows', NEW s \in rows',
                      r.task = s.task, r.id < s.id, r.args # None
               PROVE  s.args # None
    BY DEF PayloadKept
  <2>1. CASE s \in rows
    <3>1. r \in rows
      BY <1>1, <1>2, <1>3, <2>1
    <3> QED BY <2>1, <3>1 DEF RowsInv, PayloadKept
  <2>2. CASE s = row
    <3>1. r \in RowsOf(t)
      BY <1>1, <1>2, <1>3, <2>2 DEF RowsOf
    <3> QED BY <1>2, <2>2, <3>1, EmptyArgsMeansNone DEF RowsInv
  <2> QED BY <1>1, <2>1, <2>2
<1> QED BY <1>4, <1>5 DEF RowsInv

\* SaveTaskEvent, where a row is upserted as a whole.
LEMMA SaveKeepsSnapshots ==
    ASSUME Dialect # "mysql", StoreInv,
           NEW t \in Tasks, NEW e \in Arrivals, NEW ts \in Times,
           SaveTaskEvent(t, e, ts)
    PROVE  SnapshotMirrorsNewest'
<1>1. PICK id \in FreshIds, routing \in InheritRouting(t, e), args \in InheritArgs(t, e) :
         /\ rows' = rows \cup {NewRow(id, t, e, ts, routing, args)}
         /\ lastId' = id
         /\ latest' = [latest EXCEPT ![t] =
               Upsert(Offered(NewRow(id, t, e, ts, routing, args)), latest[t])]
  BY DEF SaveTaskEvent
<1> DEFINE row == NewRow(id, t, e, ts, routing, args)
<1>2. row.id = id /\ row.task = t /\ row.args = args
  BY DEF NewRow
<1>3. SnapshotMirrorsNewest'
  <2> SUFFICES ASSUME NEW u \in Tasks
               PROVE  \/ latest'[u] = None /\ RowsOf(u)' = {}
                      \/ /\ latest'[u] # None
                         /\ \E r \in NewestIn(RowsOf(u)') : Mirrors(latest'[u], r)
    BY DEF SnapshotMirrorsNewest, NewestIn, Newer, Mirrors
  <2>1. CASE u = t
    <3>1. RowsOf(t)' = RowsOf(t) \cup {row}
      BY <1>1, <1>2 DEF RowsOf
    <3>2. latest'[t] = Upsert(Offered(row), latest[t])
      BY <1>1 DEF StoreInv, RowsInv, TypeOK
    <3>3. /\ Upsert(Offered(row), latest[t]) # None
          /\ \E r \in NewestIn(RowsOf(t) \cup {row}) :
                Mirrors(Upsert(Offered(row), latest[t]), r)
      BY SaveMirrors
    <3> QED BY <2>1, <3>1, <3>2, <3>3
  <2>2. CASE u # t
    <3>1. RowsOf(u)' = RowsOf(u)
      BY <1>1, <1>2, <2>2 DEF RowsOf
    <3>2. latest'[u] = latest[u]
      BY <1>1, <2>2 DEF StoreInv, RowsInv, TypeOK
    <3> QED BY <3>1, <3>2 DEF StoreInv, SnapshotMirrorsNewest
  <2> QED BY <2>1, <2>2
<1> QED BY <1>3

\* MarkOrphans changes no column the invariant speaks of.
LEMMA MarkKeeps ==
    ASSUME RowsInv, TypeOK', NEW T \in SUBSET Tasks, NEW at \in Times, MarkOrphans(T, at)
    PROVE  RowsInv' /\ (SnapshotMirrorsNewest => SnapshotMirrorsNewest')
<1>1. rows' = Marked(T, at) /\ lastId' = lastId /\ latest' = latest
  BY DEF MarkOrphans
<1>2. \A m \in rows' : \E r \in rows : SameEvent(m, r) /\ m = MarkRow(r, T, at)
  BY <1>1, MarkedRows DEF RowsInv
<1>3. \A r \in rows : \E m \in rows' : SameEvent(m, r)
  BY <1>1, MarkedRows DEF RowsInv
<1>4. IdsOK'
  <2>1. \A m \in rows' : m.id <= lastId
    BY <1>2 DEF RowsInv, IdsOK, SameEvent
  <2>2. ASSUME NEW m \in rows', NEW n \in rows', m.id = n.id PROVE m = n
    <3>1. PICK r \in rows : SameEvent(m, r) /\ m = MarkRow(r, T, at)
      BY <1>2
    <3>2. PICK s \in rows : SameEvent(n, s) /\ n = MarkRow(s, T, at)
      BY <1>2
    <3>3. r = s
      BY <2>2, <3>1, <3>2 DEF RowsInv, IdsOK, SameEvent
    <3> QED BY <3>1, <3>2, <3>3
  <2> QED BY <1>1, <2>1, <2>2 DEF IdsOK
<1>5. PayloadKept'
  <2> SUFFICES ASSUME NEW m \in rows', NEW n \in rows',
                      m.task = n.task, m.id < n.id, m.args # None
               PROVE  n.args # None
    BY DEF PayloadKept
  <2>1. PICK r \in rows : SameEvent(m, r)
    BY <1>2
  <2>2. PICK s \in rows : SameEvent(n, s)
    BY <1>2
  <2> QED BY <2>1, <2>2 DEF RowsInv, PayloadKept, SameEvent
<1>6. ASSUME SnapshotMirrorsNewest PROVE SnapshotMirrorsNewest'
  <2> SUFFICES ASSUME NEW t \in Tasks
               PROVE  \/ latest[t] = None /\ RowsOf(t)' = {}
                      \/ /\ latest[t] # None
                         /\ \E m \in NewestIn(RowsOf(t)') : Mirrors(latest[t], m)
    BY <1>1 DEF SnapshotMirrorsNewest, NewestIn, Newer, Mirrors
  <2>1. CASE latest[t] = None
    <3>1. RowsOf(t) = {}
      BY <1>6, <2>1 DEF SnapshotMirrorsNewest
    <3>2. RowsOf(t)' = {}
      BY <1>2, <3>1 DEF RowsOf, SameEvent
    <3> QED BY <2>1, <3>2
  <2>2. CASE latest[t] # None
    <3>1. PICK r \in NewestIn(RowsOf(t)) : Mirrors(latest[t], r)
      BY <1>6, <2>2 DEF SnapshotMirrorsNewest
    <3>2. r \in rows /\ r.task = t /\ \A s \in RowsOf(t) : ~Newer(s.ts, s.id, r.ts, r.id)
      BY <3>1 DEF NewestIn, RowsOf
    <3>3. PICK m \in rows' : SameEvent(m, r)
      BY <1>3, <3>2
    <3>4. Mirrors(latest[t], m)
      BY <3>1, <3>3 DEF Mirrors, SameEvent
    <3>5. ASSUME NEW n \in RowsOf(t)' PROVE ~Newer(n.ts, n.id, m.ts, m.id)
      <4>1. PICK s \in rows : SameEvent(n, s)
        BY <1>2, <3>5 DEF RowsOf
      <4>2. s \in RowsOf(t)
        BY <3>5, <4>1 DEF RowsOf, SameEvent
      <4> QED BY <3>2, <3>3, <4>1, <4>2 DEF SameEvent
    <3>6. m \in NewestIn(RowsOf(t)')
      BY <3>2, <3>3, <3>5 DEF NewestIn, RowsOf, SameEvent
    <3> QED BY <2>2, <3>4, <3>6
  <2> QED BY <2>1, <2>2
<1> QED BY <1>4, <1>5, <1>6 DEF RowsInv

\* The two resolution actions change only the resolved column.
LEMMA ResolutionKeeps ==
    ASSUME RowsInv, TypeOK', NEW t \in Tasks, NEW b \in BOOLEAN,
           rows' = rows, lastId' = lastId, latest' = ResolutionOfLatest(t, b)
    PROVE  RowsInv' /\ (SnapshotMirrorsNewest => SnapshotMirrorsNewest')
<1>1. IdsOK' /\ PayloadKept'
  BY DEF RowsInv, IdsOK, PayloadKept
<1>2. ASSUME NEW u \in Tasks
      PROVE  /\ latest[u] = None => latest'[u] = None
             /\ latest[u] # None =>
                  /\ latest'[u] # None
                  /\ \A r : Mirrors(latest[u], r) => Mirrors(latest'[u], r)
  <2>1. CASE latest'[u] = latest[u]
    BY <2>1
  <2>2. CASE latest'[u] # latest[u]
    <3>1. u = t /\ latest[t] # None /\ latest' = [latest EXCEPT ![t].resolved = b]
      BY <2>2 DEF ResolutionOfLatest, RowsInv, TypeOK
    <3>2. latest[t] \in Snapshot
      BY <3>1 DEF RowsInv, TypeOK
    <3>3. latest'[t] = [latest[t] EXCEPT !.resolved = b]
      BY <3>1 DEF RowsInv, TypeOK
    <3>4. [latest[t] EXCEPT !.resolved = b] \in Snapshot
      BY <3>2 DEF Snapshot
    <3>5. latest'[t] # None
      BY <3>3, <3>4, NoneAssumption
    <3>6. \A r : Mirrors(latest[t], r) => Mirrors([latest[t] EXCEPT !.resolved = b], r)
      BY <3>2 DEF Mirrors, Snapshot
    <3> QED BY <3>1, <3>3, <3>5, <3>6
  <2> QED BY <2>1, <2>2
<1>3. ASSUME SnapshotMirrorsNewest PROVE SnapshotMirrorsNewest'
  <2> SUFFICES ASSUME NEW u \in Tasks
               PROVE  \/ latest'[u] = None /\ RowsOf(u) = {}
                      \/ /\ latest'[u] # None
                         /\ \E r \in NewestIn(RowsOf(u)) : Mirrors(latest'[u], r)
    BY DEF SnapshotMirrorsNewest, NewestIn, Newer, Mirrors, RowsOf
  <2> QED BY <1>2, <1>3 DEF SnapshotMirrorsNewest
<1> QED BY <1>1, <1>3 DEF RowsInv

\* The rows of an expired task are all older than its cutoff, because its
\* snapshot is as new as any of them: retention removes every one of them.
LEMMA CleanupForgets ==
    ASSUME StoreInv, NEW c \in Times, NEW d \in Times, Cleanup(c, d)
    PROVE  \E expired \in SUBSET Tasks :
              /\ \A t \in Tasks : RowsOf(t)' = IF t \in expired THEN {} ELSE RowsOf(t)
              /\ latest' = [t \in Tasks |-> IF t \in expired THEN None ELSE latest[t]]
              /\ rows' = {r \in rows : r.task \notin expired}
<1> DEFINE cutoff(t) == CutoffOf(latest[t], c, d)
           expired   == {t \in Tasks : latest[t] # None /\ latest[t].ts < cutoff(t)}
<1>1. /\ rows' = {r \in rows : r.task \notin expired \/ r.ts >= cutoff(r.task)}
      /\ latest' = [t \in Tasks |-> IF t \in expired THEN None ELSE latest[t]]
      /\ lastId' = lastId
  BY DEF Cleanup
<1>2. ASSUME NEW t \in Tasks
      PROVE  RowsOf(t)' = IF t \in expired THEN {} ELSE RowsOf(t)
  <2>1. CASE t \notin expired
    BY <1>1, <2>1 DEF RowsOf
  <2>2. CASE t \in expired
    <3>1. PICK r \in NewestIn(RowsOf(t)) : Mirrors(latest[t], r)
      BY <2>2 DEF StoreInv, SnapshotMirrorsNewest
    <3>2. r.ts < cutoff(t) /\ r.ts \in Nat
      BY <2>2, <3>1, TimesAssumption
         DEF Mirrors, NewestIn, RowsOf, StoreInv, RowsInv, TypeOK, EventRow
    <3>3. cutoff(t) \in Nat
      BY TimesAssumption DEF CutoffOf
    <3>4. ASSUME NEW s \in RowsOf(t) PROVE ~(s.ts >= cutoff(t))
      <4>1. s.ts \in Nat /\ ~Newer(s.ts, s.id, r.ts, r.id)
        BY <3>1, TimesAssumption DEF NewestIn, RowsOf, StoreInv, RowsInv, TypeOK, EventRow
      <4>2. s.ts <= r.ts
        BY <3>2, <4>1 DEF Newer
      <4> QED BY <3>2, <3>3, <4>1, <4>2
    <3> QED BY <1>1, <2>2, <3>4 DEF RowsOf
  <2> QED BY <2>1, <2>2
<1>3. rows' = {r \in rows : r.task \notin expired}
  <2>1. ASSUME NEW r \in rows, r.task \in expired PROVE r \notin rows'
    <3>1. RowsOf(r.task)' = {}
      BY <1>2, <2>1
    <3> QED BY <3>1 DEF RowsOf
  <2> QED BY <1>1, <2>1
<1> QED BY <1>1, <1>2, <1>3

\* So retention leaves every other snapshot and its rows alone.
LEMMA CleanupKeepsSnapshots ==
    ASSUME StoreInv, NEW c \in Times, NEW d \in Times, Cleanup(c, d)
    PROVE  SnapshotMirrorsNewest'
<1>1. PICK expired \in SUBSET Tasks :
         /\ \A t \in Tasks : RowsOf(t)' = IF t \in expired THEN {} ELSE RowsOf(t)
         /\ latest' = [t \in Tasks |-> IF t \in expired THEN None ELSE latest[t]]
  BY CleanupForgets
<1>2. SnapshotMirrorsNewest'
  <2> SUFFICES ASSUME NEW t \in Tasks
               PROVE  \/ latest'[t] = None /\ RowsOf(t)' = {}
                      \/ /\ latest'[t] # None
                         /\ \E r \in NewestIn(RowsOf(t)') : Mirrors(latest'[t], r)
    BY DEF SnapshotMirrorsNewest, NewestIn, Newer, Mirrors
  <2>1. CASE t \in expired
    BY <1>1, <2>1
  <2>2. CASE t \notin expired
    BY <1>1, <2>2 DEF StoreInv, SnapshotMirrorsNewest
  <2> QED BY <2>1, <2>2
<1> QED BY <1>2

\* Every step keeps ids unique and payloads inherited, on any dialect.
LEMMA RowsStep == RowsInv /\ [Next]_storeVars => RowsInv'
<1> SUFFICES ASSUME RowsInv, [Next]_storeVars PROVE RowsInv'
  OBVIOUS
<1>1. TypeOK'
  BY TypeStep DEF RowsInv
<1>2. ASSUME NEW t \in Tasks, NEW e \in Arrivals, NEW ts \in Times, SaveTaskEvent(t, e, ts)
      PROVE  RowsInv'
  BY <1>1, <1>2, SaveKeepsRows
<1>3. ASSUME NEW T \in SUBSET Tasks, NEW at \in Times, MarkOrphans(T, at) PROVE RowsInv'
  BY <1>1, <1>3, MarkKeeps
<1>4. ASSUME NEW t \in Tasks, SetResolution(t) \/ ClearResolution(t) PROVE RowsInv'
  BY <1>1, <1>4, ResolutionKeeps DEF SetResolution, ClearResolution
<1>5. ASSUME NEW c \in Times, NEW d \in Times, Cleanup(c, d) PROVE RowsInv'
  BY <1>1, <1>5 DEF Cleanup, RowsInv, IdsOK, PayloadKept
<1>6. CASE UNCHANGED storeVars
  BY <1>1, <1>6 DEF storeVars, RowsInv, IdsOK, PayloadKept
<1> QED BY <1>2, <1>3, <1>4, <1>5, <1>6 DEF Next

\* Every step keeps the snapshots, except on MySQL.
LEMMA StoreStep ==
    ASSUME Dialect # "mysql", StoreInv, [Next]_storeVars
    PROVE  StoreInv'
<1>1. RowsInv' /\ TypeOK'
  BY RowsStep DEF StoreInv, RowsInv
<1>2. ASSUME NEW t \in Tasks, NEW e \in Arrivals, NEW ts \in Times, SaveTaskEvent(t, e, ts)
      PROVE  SnapshotMirrorsNewest'
  BY <1>2, SaveKeepsSnapshots
<1>3. ASSUME NEW T \in SUBSET Tasks, NEW at \in Times, MarkOrphans(T, at)
      PROVE  SnapshotMirrorsNewest'
  BY <1>1, <1>3, MarkKeeps DEF StoreInv
<1>4. ASSUME NEW t \in Tasks, SetResolution(t) \/ ClearResolution(t)
      PROVE  SnapshotMirrorsNewest'
  BY <1>1, <1>4, ResolutionKeeps DEF SetResolution, ClearResolution, StoreInv
<1>5. ASSUME NEW c \in Times, NEW d \in Times, Cleanup(c, d) PROVE SnapshotMirrorsNewest'
  BY <1>5, CleanupKeepsSnapshots
<1>6. CASE UNCHANGED storeVars
  <2>1. \A t \in Tasks : latest'[t] = latest[t] /\ RowsOf(t)' = RowsOf(t)
    BY <1>6 DEF storeVars, RowsOf
  <2> QED BY <1>1, <2>1 DEF StoreInv, SnapshotMirrorsNewest, NewestIn, Newer, Mirrors
<1> QED BY <1>1, <1>2, <1>3, <1>4, <1>5, <1>6 DEF Next, StoreInv

-----------------------------------------------------------------------------
(* The theorems. *)

\* On every dialect, arguments once seen are in every later row of the task.
THEOREM PayloadNeverLost == Spec => []PayloadKept
<1>1. Init => RowsInv
  BY DEF Init, RowsInv, TypeOK, IdsOK, PayloadKept
<1>2. RowsInv /\ [Next]_storeVars => RowsInv'
  BY RowsStep
<1>3. RowsInv => PayloadKept
  BY DEF RowsInv
<1> QED BY <1>1, <1>2, <1>3, PTL DEF Spec

\* StoreInv is an invariant wherever the upsert takes a row as a whole.
LEMMA StoreInvariant == ASSUME Dialect # "mysql" PROVE Spec => []StoreInv
<1>1. Init => StoreInv
  BY DEF Init, StoreInv, RowsInv, TypeOK, IdsOK, PayloadKept, SnapshotMirrorsNewest, RowsOf
<1>2. StoreInv /\ [Next]_storeVars => StoreInv'
  BY StoreStep
<1> QED BY <1>1, <1>2, PTL DEF Spec

\* Except on MySQL, task_latest always shows, of each task that has events and
\* of no other, exactly the newest event, in every column.
THEOREM SnapshotAlwaysNewest ==
    ASSUME Dialect # "mysql" PROVE Spec => []SnapshotMirrorsNewest
<1>1. StoreInv => SnapshotMirrorsNewest
  BY DEF StoreInv
<1> QED BY <1>1, StoreInvariant, PTL

\* A snapshot never shows a resolution that is not on record.
THEOREM ResolvedAlwaysBacked == Spec => []ResolvedIsBacked
<1> DEFINE I == TypeOK /\ ResolvedIsBacked
<1>1. Init => I
  BY DEF Init, TypeOK, ResolvedIsBacked
<1>2. I /\ [Next]_storeVars => I'
  <2> SUFFICES ASSUME I, [Next]_storeVars PROVE ResolvedIsBacked'
    BY TypeStep
  <2>1. ASSUME NEW t \in Tasks, NEW e \in Arrivals, NEW ts \in Times, SaveTaskEvent(t, e, ts)
        PROVE  ResolvedIsBacked'
    <3>1. PICK id \in FreshIds, routing \in InheritRouting(t, e),
               args \in InheritArgs(t, e) :
             /\ latest' = [latest EXCEPT ![t] =
                   Upsert(Offered(NewRow(id, t, e, ts, routing, args)), latest[t])]
             /\ UNCHANGED resolutions
      BY <2>1 DEF SaveTaskEvent
    <3> DEFINE new == Offered(NewRow(id, t, e, ts, routing, args))
    <3>2. new \in Snapshot /\ new.resolved = FALSE
      BY NewRowType, OfferedType DEF Offered
    <3>3. latest[t] \in Snapshot \cup {None}
      BY DEF TypeOK
    <3>4. CASE latest[t] = None
      <4>1. Upsert(new, latest[t]) = new
        BY <3>4 DEF Upsert
      <4> QED BY <3>1, <3>2, <4>1 DEF TypeOK, ResolvedIsBacked
    <3>5. CASE latest[t] # None
      <4> DEFINE old == latest[t]
      <4>1. old \in Snapshot
        BY <3>3, <3>5
      <4>2. Upsert(new, old) \in {ColumnwiseUpsert(new, old), WholeRowUpsert(new, old)}
        BY <3>5 DEF Upsert
      <4>3. ColumnwiseUpsert(new, old).resolved \in {FALSE, old.resolved}
        BY <3>2, <4>1 DEF ColumnwiseUpsert, Snapshot
      <4>4. WholeRowUpsert(new, old).resolved \in {FALSE, old.resolved}
        BY <3>2 DEF WholeRowUpsert
      <4>5. Upsert(new, old).resolved \in {FALSE, old.resolved}
        BY <4>2, <4>3, <4>4
      <4>6. latest' = [latest EXCEPT ![t] = Upsert(new, old)]
        BY <3>1
      <4> HIDE DEF new
      <4> QED BY <3>1, <3>5, <4>5, <4>6 DEF TypeOK, ResolvedIsBacked
    <3> QED BY <3>4, <3>5
  <2>2. ASSUME NEW T \in SUBSET Tasks, NEW at \in Times, MarkOrphans(T, at)
        PROVE  ResolvedIsBacked'
    BY <2>2 DEF MarkOrphans, ResolvedIsBacked
  <2>3. ASSUME NEW t \in Tasks, NEW b \in BOOLEAN, NEW u \in Tasks,
               ResolutionOfLatest(t, b)[u] # None, ResolutionOfLatest(t, b)[u].resolved
        PROVE  /\ latest[u] # None
               /\ IF u = t THEN b ELSE latest[u].resolved
    <3>1. CASE latest[t] = None
      <4>1. ResolutionOfLatest(t, b) = latest
        BY <3>1 DEF ResolutionOfLatest
      <4> QED BY <2>3, <3>1, <4>1
    <3>2. CASE latest[t] # None
      <4>1. latest[t] \in Snapshot /\ latest \in [Tasks -> Snapshot \cup {None}]
        BY <3>2 DEF TypeOK
      <4>2. ResolutionOfLatest(t, b) = [latest EXCEPT ![t].resolved = b]
        BY <3>2 DEF ResolutionOfLatest
      <4>3. CASE u = t
        <5>1. ResolutionOfLatest(t, b)[u].resolved = b
          BY <4>1, <4>2, <4>3 DEF Snapshot
        <5> QED BY <2>3, <3>2, <4>3, <5>1
      <4>4. CASE u # t
        <5>1. ResolutionOfLatest(t, b)[u] = latest[u]
          BY <4>1, <4>2, <4>4
        <5> QED BY <2>3, <4>4, <5>1
      <4> QED BY <4>3, <4>4
    <3> QED BY <3>1, <3>2
  <2>4. ASSUME NEW t \in Tasks, SetResolution(t) PROVE ResolvedIsBacked'
    BY <2>3, <2>4 DEF SetResolution, ResolvedIsBacked
  <2>5. ASSUME NEW t \in Tasks, ClearResolution(t) PROVE ResolvedIsBacked'
    BY <2>3, <2>5 DEF ClearResolution, ResolvedIsBacked
  <2>6. ASSUME NEW c \in Times, NEW d \in Times, Cleanup(c, d) PROVE ResolvedIsBacked'
    BY <2>6 DEF Cleanup, ResolvedIsBacked
  <2>7. CASE UNCHANGED storeVars
    BY <2>7 DEF storeVars, ResolvedIsBacked
  <2> QED BY <2>1, <2>2, <2>4, <2>5, <2>6, <2>7 DEF Next
<1>3. I => ResolvedIsBacked
  OBVIOUS
<1> QED BY <1>1, <1>2, <1>3, PTL DEF Spec

\* Whatever the dialect, a snapshot loses its mark only to a row that is not older.
LEMMA UpsertUnmarks ==
    ASSUME NEW new \in Snapshot, NEW old \in Snapshot,
           old.resolved, ~Upsert(new, old).resolved
    PROVE  new.ts >= old.ts
<1>1. old # None
  BY NoneAssumption DEF Snapshot
<1> SUFFICES ASSUME ~Newer(new.ts, new.event_id, old.ts, old.event_id) PROVE FALSE
  <2>1. new.ts \in Nat /\ old.ts \in Nat
    BY TimesAssumption DEF Snapshot
  <2> QED BY <2>1 DEF Newer
<1>2. WholeRowUpsert(new, old).resolved
  BY DEF WholeRowUpsert
<1>3. ColumnwiseUpsert(new, old).resolved
  BY DEF ColumnwiseUpsert, Snapshot
<1> QED BY <1>1, <1>2, <1>3 DEF Upsert

\* A snapshot loses the mark of a resolution on record, or is made without it, only by an
\* event of the task that is not older than the snapshot it replaces.
THEOREM MarksFallToNewerEvents == Spec => InSyncUntilNewerEvent
<1>1. RowsInv /\ [Next]_storeVars =>
        [\A t \in Tasks :
           OutOfSync(t)' /\ ~OutOfSync(t) =>
              \E r \in rows' \ rows : /\ r.task = t
                                     /\ latest[t] # None => r.ts >= latest[t].ts]_storeVars
  <2> DEFINE Came(t) == \E r \in rows' \ rows :
                           r.task = t /\ (latest[t] # None => r.ts >= latest[t].ts)
  <2> SUFFICES ASSUME RowsInv, Next, NEW u \in Tasks, OutOfSync(u)', ~OutOfSync(u)
               PROVE  Came(u)
    OBVIOUS
  <2>1. TypeOK
    BY DEF RowsInv
  <2>2. ASSUME NEW t \in Tasks, NEW e \in Arrivals, NEW ts \in Times, SaveTaskEvent(t, e, ts)
        PROVE  Came(u)
    <3>1. PICK id \in FreshIds, routing \in InheritRouting(t, e),
               args \in InheritArgs(t, e) :
             /\ rows' = rows \cup {NewRow(id, t, e, ts, routing, args)}
             /\ latest' = [latest EXCEPT ![t] =
                   Upsert(Offered(NewRow(id, t, e, ts, routing, args)), latest[t])]
             /\ UNCHANGED resolutions
      BY <2>2 DEF SaveTaskEvent
    <3> DEFINE row == NewRow(id, t, e, ts, routing, args)
    <3>2. row \in EventRow /\ row.task = t /\ row.ts = ts /\ row.id = id
      BY <2>1, NewRowType DEF NewRow
    <3>3. row \in rows' \ rows
      BY <2>1, <3>1, <3>2, FreshIdsAbove DEF RowsInv
    <3>4. Offered(row) \in Snapshot /\ Offered(row).ts = ts
      BY <2>1, <3>2, OfferedType DEF Offered
    <3> HIDE DEF row
    <3>5. u = t
      <4> SUFFICES ASSUME u # t PROVE FALSE
        OBVIOUS
      <4>1. latest'[u] = latest[u]
        BY <2>1, <3>1 DEF TypeOK
      <4> QED BY <3>1, <4>1 DEF OutOfSync
    <3>6. latest[t] # None => ts >= latest[t].ts
      <4> SUFFICES ASSUME latest[t] # None PROVE ts >= latest[t].ts
        OBVIOUS
      <4>1. latest[t] \in Snapshot
        BY <2>1 DEF TypeOK
      <4>2. latest'[t] = Upsert(Offered(row), latest[t])
        BY <2>1, <3>1 DEF TypeOK, row
      <4>3. latest[t].resolved /\ ~Upsert(Offered(row), latest[t]).resolved
        BY <3>1, <3>5, <4>2 DEF OutOfSync
      <4> QED BY <3>4, <4>1, <4>3, UpsertUnmarks
    <3> QED BY <3>2, <3>3, <3>5, <3>6
  <2>3. ASSUME NEW T \in SUBSET Tasks, NEW at \in Times, MarkOrphans(T, at) PROVE FALSE
    BY <2>3 DEF MarkOrphans, OutOfSync
  <2>4. ASSUME NEW t \in Tasks, NEW b \in BOOLEAN, latest' = ResolutionOfLatest(t, b),
               latest'[u] # None
        PROVE  latest[u] # None /\ latest'[u].resolved = IF u = t THEN b ELSE latest[u].resolved
    <3>1. CASE latest[t] = None
      BY <2>4, <3>1 DEF ResolutionOfLatest
    <3>2. CASE latest[t] # None
      <4>1. latest[t] \in Snapshot /\ latest \in [Tasks -> Snapshot \cup {None}]
        BY <2>1, <3>2 DEF TypeOK
      <4>2. latest' = [latest EXCEPT ![t].resolved = b]
        BY <2>4, <3>2 DEF ResolutionOfLatest
      <4>3. CASE u = t
        BY <3>2, <4>1, <4>2, <4>3 DEF Snapshot
      <4>4. CASE u # t
        BY <2>4, <4>1, <4>2, <4>4
      <4> QED BY <4>3, <4>4
    <3> QED BY <3>1, <3>2
  <2>5. ASSUME NEW t \in Tasks, SetResolution(t) PROVE FALSE
    BY <2>4, <2>5 DEF SetResolution, OutOfSync
  <2>6. ASSUME NEW t \in Tasks, ClearResolution(t) PROVE FALSE
    BY <2>4, <2>6 DEF ClearResolution, OutOfSync
  <2>7. ASSUME NEW c \in Times, NEW d \in Times, Cleanup(c, d) PROVE FALSE
    BY <2>7 DEF Cleanup, OutOfSync
  <2> QED BY <2>2, <2>3, <2>5, <2>6, <2>7 DEF Next
<1>2. Init => RowsInv
  BY DEF Init, RowsInv, TypeOK, IdsOK, PayloadKept
<1>3. RowsInv /\ [Next]_storeVars => RowsInv'
  BY RowsStep
<1> QED BY <1>1, <1>2, <1>3, PTL DEF Spec, InSyncUntilNewerEvent

-----------------------------------------------------------------------------
(* The store implements LatestView. *)

\* A save is an observation.
LEMMA SaveObserves ==
    ASSUME Dialect # "mysql", StoreInv,
           NEW t \in Tasks, NEW e \in Arrivals, NEW ts \in Times,
           SaveTaskEvent(t, e, ts)
    PROVE  LV!Next
<1>1. PICK id \in FreshIds, routing \in InheritRouting(t, e), args \in InheritArgs(t, e) :
         /\ rows' = rows \cup {NewRow(id, t, e, ts, routing, args)}
         /\ latest' = [latest EXCEPT ![t] =
               Upsert(Offered(NewRow(id, t, e, ts, routing, args)), latest[t])]
  BY DEF SaveTaskEvent
<1> DEFINE row == NewRow(id, t, e, ts, routing, args)
           o   == ObservationOf(t, id, row)
           lg  == {ObservationOf(r.task, r.id, r) : r \in rows}
           vw  == [u \in Tasks |-> ViewOf(u)]
           new == Upsert(Offered(row), latest[t])
<1>2. /\ row \in EventRow /\ row.id = id /\ row.task = t /\ row.args = args
      /\ row.ts = ts
  BY NewRowType DEF StoreInv, RowsInv, NewRow
<1>3. o \in LV!Observation
  BY <1>2, TimesAssumption DEF LV!Observation, ObservationOf, BodyOf, EventRow, Arrival
<1>4. \A p \in lg : p.number < o.number
  BY FreshIdsAbove DEF StoreInv, RowsInv, ObservationOf
<1>5. lg' = lg \cup {o}
  BY <1>1, <1>2
<1>6. /\ Offered(row).event_id = id /\ Offered(row).ts = ts
      /\ ObservationOf(t, Offered(row).event_id, Offered(row)) = o
  BY <1>2, OfferedArgs DEF Offered, ObservationOf, BodyOf
<1>7. latest' = [latest EXCEPT ![t] = new] /\ latest \in [Tasks -> Snapshot \cup {None}]
  BY <1>1 DEF StoreInv, RowsInv, TypeOK
<1>8. Offered(row) # None
  BY <1>2, OfferedType, NoneAssumption DEF StoreInv, RowsInv
<1>9. vw' = IF vw[t] = None \/ LV!IsLater(o, vw[t]) THEN [vw EXCEPT ![t] = o] ELSE vw
  <2>0. vw' = [vw EXCEPT ![t] = IF new = None THEN None
                                 ELSE ObservationOf(t, new.event_id, new)]
    <3> HIDE DEF new
    <3>1. \A u \in Tasks : latest'[u] = IF u = t THEN new ELSE latest[u]
      BY <1>7
    <3> QED BY <3>1 DEF ViewOf
  <2>1. CASE latest[t] = None
    <3>1. new = Offered(row)
      BY <2>1 DEF Upsert
    <3>2. vw[t] = None
      BY <2>1 DEF ViewOf
    <3> QED BY <2>0, <3>1, <3>2, <1>6, <1>8
  <2>2. CASE latest[t] # None
    <3>1. new = WholeRowUpsert(Offered(row), latest[t])
      BY <2>2 DEF Upsert
    <3>2. vw[t] = ObservationOf(t, latest[t].event_id, latest[t])
      BY <2>2 DEF ViewOf
    <3>3. vw[t].ts = latest[t].ts /\ vw[t].number = latest[t].event_id
      BY <3>2 DEF ObservationOf
    <3>4. o.ts = ts /\ o.number = id
      BY <1>2 DEF ObservationOf
    <3>5. LV!IsLater(o, vw[t])
            <=> Newer(Offered(row).ts, Offered(row).event_id, latest[t].ts, latest[t].event_id)
      BY <1>6, <3>3, <3>4 DEF LV!IsLater, Newer
    <3>6. vw[t] # None
      <4>1. latest[t] \in Snapshot
        BY <1>7, <2>2
      <4>2. vw[t] \in [key : Tasks, number : Nat, ts : Times, body : Arrival]
        BY <3>2, <4>1 DEF ObservationOf, BodyOf, Snapshot, Arrival
      <4> QED BY <4>2, NoneAssumption
    <3>7. CASE LV!IsLater(o, vw[t])
      <4>1. new = Offered(row)
        BY <3>1, <3>5, <3>7 DEF WholeRowUpsert
      <4> QED BY <2>0, <4>1, <3>7, <1>6, <1>8
    <3>8. CASE ~LV!IsLater(o, vw[t])
      <4>1. new = latest[t]
        BY <3>1, <3>5, <3>8 DEF WholeRowUpsert
      <4>2. vw' = [vw EXCEPT ![t] = vw[t]]
        BY <2>0, <4>1, <2>2, <3>2
      <4>3. vw' = vw
        BY <4>2
      <4> QED BY <3>6, <3>8, <4>3
    <3> QED BY <3>7, <3>8
  <2> QED BY <2>1, <2>2
<1>10. LV!Observe(o)
  BY <1>2, <1>3, <1>4, <1>5, <1>9 DEF LV!Observe, ObservationOf
<1>11. o \in lg'
  BY <1>5
<1> QED BY <1>10, <1>11 DEF LV!Next
\* Retention is a forgetting.
LEMMA CleanupIsForget ==
    ASSUME StoreInv, NEW c \in Times, NEW d \in Times, Cleanup(c, d)
    PROVE  LV!Next
<1>1. PICK expired \in SUBSET Tasks :
         /\ latest' = [t \in Tasks |-> IF t \in expired THEN None ELSE latest[t]]
         /\ rows' = {r \in rows : r.task \notin expired}
  BY CleanupForgets
<1> DEFINE lg == {ObservationOf(r.task, r.id, r) : r \in rows}
           vw == [u \in Tasks |-> ViewOf(u)]
<1>2. lg' = {o \in lg : o.key \notin expired}
  BY <1>1 DEF ObservationOf
<1>3. vw' = [u \in Tasks |-> IF u \in expired THEN None ELSE vw[u]]
  BY <1>1 DEF ViewOf
<1>4. LV!Forget(expired)
  BY <1>2, <1>3 DEF LV!Forget
<1> QED BY <1>4 DEF LV!Next

\* Marks and resolutions are invisible to the view.
LEMMA MarkStutters ==
    ASSUME TypeOK, NEW T \in SUBSET Tasks, NEW at \in Times, MarkOrphans(T, at)
    PROVE  UNCHANGED LV!lvVars
<1>1. rows' = Marked(T, at) /\ latest' = latest
  BY DEF MarkOrphans
<1>2. /\ \A m \in rows' : \E r \in rows : SameEvent(m, r)
      /\ \A r \in rows : \E m \in rows' : SameEvent(m, r)
  BY <1>1, MarkedRows
<1>3. \A m, r : SameEvent(m, r) =>
         ObservationOf(m.task, m.id, m) = ObservationOf(r.task, r.id, r)
  BY DEF SameEvent, ObservationOf, BodyOf
<1>4. {ObservationOf(m.task, m.id, m) : m \in rows'}
        = {ObservationOf(r.task, r.id, r) : r \in rows}
  BY <1>2, <1>3
<1>5. [u \in Tasks |-> ViewOf(u)]' = [u \in Tasks |-> ViewOf(u)]
  BY <1>1 DEF ViewOf
<1> QED BY <1>4, <1>5 DEF LV!lvVars

LEMMA ResolutionStutters ==
    ASSUME TypeOK, NEW t \in Tasks, NEW b \in BOOLEAN,
           rows' = rows, latest' = ResolutionOfLatest(t, b)
    PROVE  UNCHANGED LV!lvVars
<1>1. ASSUME NEW u \in Tasks PROVE ViewOf(u)' = ViewOf(u)
  <2>1. CASE latest'[u] = latest[u]
    BY <2>1 DEF ViewOf
  <2>2. CASE latest'[u] # latest[u]
    <3>1. u = t /\ latest[t] # None /\ latest' = [latest EXCEPT ![t].resolved = b]
      BY <2>2 DEF ResolutionOfLatest, TypeOK
    <3>2. latest[t] \in Snapshot /\ latest'[t] = [latest[t] EXCEPT !.resolved = b]
      BY <3>1 DEF TypeOK
    <3>3. latest'[t] \in Snapshot
      BY <3>2 DEF Snapshot
    <3>4. latest'[t] # None
      BY <3>3, NoneAssumption
    <3>5. ObservationOf(t, latest'[t].event_id, latest'[t])
            = ObservationOf(t, latest[t].event_id, latest[t])
      BY <3>2 DEF Snapshot, ObservationOf, BodyOf
    <3> QED BY <3>1, <3>4, <3>5 DEF ViewOf
  <2> QED BY <2>1, <2>2
<1>2. [u \in Tasks |-> ViewOf(u)]' = [u \in Tasks |-> ViewOf(u)]
  BY <1>1
<1> QED BY <1>2 DEF LV!lvVars

\* Except on MySQL, task_events and task_latest implement a log and the view
\* of its latest entries: no save, mark, resolution or retention run ever makes
\* the view show anything else.
THEOREM StoreImplementsLatestView ==
    ASSUME Dialect # "mysql" PROVE Spec => ImplementsLatestView
<1>1. Init => LV!Init
  BY DEF Init, LV!Init, ViewOf
<1>2. ASSUME StoreInv, [Next]_storeVars PROVE [LV!Next]_(LV!lvVars)
  <2>1. ASSUME NEW t \in Tasks, NEW e \in Arrivals, NEW ts \in Times, SaveTaskEvent(t, e, ts)
        PROVE  LV!Next
    BY <1>2, <2>1, SaveObserves
  <2>2. ASSUME NEW T \in SUBSET Tasks, NEW at \in Times, MarkOrphans(T, at)
        PROVE  UNCHANGED LV!lvVars
    BY <1>2, <2>2, MarkStutters DEF StoreInv, RowsInv
  <2>3. ASSUME NEW t \in Tasks, SetResolution(t) \/ ClearResolution(t)
        PROVE  UNCHANGED LV!lvVars
    BY <1>2, <2>3, ResolutionStutters DEF SetResolution, ClearResolution, StoreInv, RowsInv
  <2>4. ASSUME NEW c \in Times, NEW d \in Times, Cleanup(c, d) PROVE LV!Next
    BY <1>2, <2>4, CleanupIsForget
  <2>5. CASE UNCHANGED storeVars
    <3>1. UNCHANGED LV!lvVars
      BY <2>5 DEF storeVars, LV!lvVars, ViewOf
    <3> QED BY <3>1
  <2> QED BY <1>2, <2>1, <2>2, <2>3, <2>4, <2>5 DEF Next
<1> QED BY <1>1, <1>2, StoreInvariant, PTL DEF Spec, LV!Spec, ImplementsLatestView

-----------------------------------------------------------------------------
(* Routing. *)

\* The routing known in row r is missing in row s, ...
Loses(r, s) ==
    \/ ~Missing(r.queue) /\ Missing(s.queue)
    \/ ~Missing(r.routing_key) /\ Missing(s.routing_key)

\* ... and between them the clock stepped back, to no earlier than the time of r.
StepsBack(r, s) ==
    \E p, q \in RowsOf(r.task) : p.id < q.id /\ q.id <= s.id /\ r.ts <= q.ts /\ q.ts < p.ts

\* RoutingKept is not inductive: retention could remove the rows that show the step of the
\* clock and leave those that suffer from it.  It does not, for these are older.
RoutingInv == \A r, s \in rows : r.task = s.task /\ r.id < s.id /\ Loses(r, s) => StepsBack(r, s)

\* What a new row lacks, the row it inherits from lacks, too, and that one is the newest
\* of those with any routing.
LEMMA InheritedFrom ==
    ASSUME TypeOK, NEW t \in Tasks, NEW e \in Arrivals, NEW routing \in InheritRouting(t, e),
           NEW r \in RowsOf(t), Loses(r, routing)
    PROVE  \E q \in RowsOf(t) : Loses(r, q) /\ ~Newer(r.ts, r.id, q.ts, q.id)
<1>1. r \in RoutingRows(t)
  <2>1. r.routing_key # None \/ ~Missing(r.queue)
    BY DEF Loses, Missing
  <2> QED BY <2>1 DEF Loses, Missing, RoutingRows
<1>2. PICK q \in RoutingSource(t) :
        routing = [queue |-> IF Missing(e.queue) /\ q.queue # None THEN q.queue ELSE e.queue,
                   routing_key |-> IF Missing(e.routing_key) THEN q.routing_key
                                   ELSE e.routing_key]
  <2>1. Missing(e.routing_key) \/ Missing(e.queue)
    BY <1>1 DEF InheritRouting, Loses
  <2> QED BY <1>1, <2>1 DEF InheritRouting
<1>3. q \in RowsOf(t) /\ ~Newer(r.ts, r.id, q.ts, q.id)
  BY <1>1, <1>2 DEF RoutingSource, NewestIn, RoutingRows
<1>4. Missing(routing.queue) => Missing(q.queue)
  BY <1>2 DEF Missing
<1>5. Missing(routing.routing_key) => Missing(q.routing_key)
  BY <1>2 DEF Missing
<1> QED BY <1>3, <1>4, <1>5 DEF Loses

LEMMA SaveKeepsRouting ==
    ASSUME RowsInv, RoutingInv, NEW t \in Tasks, NEW e \in Arrivals, NEW ts \in Times,
           SaveTaskEvent(t, e, ts)
    PROVE  RoutingInv'
<1>1. PICK id \in FreshIds, routing \in InheritRouting(t, e), args \in InheritArgs(t, e) :
        rows' = rows \cup {NewRow(id, t, e, ts, routing, args)}
  BY DEF SaveTaskEvent
<1> DEFINE row == NewRow(id, t, e, ts, routing, args)
<1>2. /\ row.id = id /\ row.task = t
      /\ row.queue = routing.queue /\ row.routing_key = routing.routing_key
  BY DEF NewRow
<1>3. id \in Nat /\ \A r \in rows : r.id < id /\ r.id \in Nat /\ r.ts \in Nat
  BY FreshIdsAbove, TimesAssumption DEF RowsInv, TypeOK, EventRow
<1>4. \A u : RowsOf(u) \subseteq RowsOf(u)'
  BY <1>1 DEF RowsOf
<1> HIDE DEF row
<1> SUFFICES ASSUME NEW r \in rows', NEW s \in rows', r.task = s.task, r.id < s.id, Loses(r, s)
             PROVE  StepsBack(r, s)'
  BY DEF RoutingInv, Loses
<1>5. r \in rows
  BY <1>1, <1>2, <1>3 DEF row
<1>6. CASE s \in rows
  BY <1>4, <1>5, <1>6 DEF RoutingInv, StepsBack
<1>7. CASE s \notin rows
  <2>1. s.id = id /\ r \in RowsOf(t) /\ Loses(r, routing)
    BY <1>1, <1>2, <1>5, <1>7 DEF row, RowsOf, Loses
  <2>2. PICK q \in RowsOf(t) : Loses(r, q) /\ ~Newer(r.ts, r.id, q.ts, q.id)
    BY <2>1, InheritedFrom DEF RowsInv
  <2>3. q \in rows /\ q.task = t /\ r.task = t /\ q.id < id
    BY <1>3, <2>1, <2>2 DEF RowsOf
  <2>4. q # r
    BY <2>2 DEF Loses
  <2>5. r.id # q.id
    BY <1>5, <2>3, <2>4 DEF RowsInv, IdsOK
  <2>6. CASE r.id < q.id
    <3>1. PICK x, y \in RowsOf(r.task) : x.id < y.id /\ y.id <= q.id /\ r.ts <= y.ts /\ y.ts < x.ts
      BY <1>5, <2>2, <2>3, <2>6 DEF RoutingInv, StepsBack
    <3>2. y.id <= s.id
      <4>1. y.id \in Nat /\ q.id \in Nat
        BY <1>3, <2>3, <3>1 DEF RowsOf
      <4> QED BY <1>3, <2>1, <2>3, <3>1, <4>1
    <3> QED BY <1>4, <3>1, <3>2 DEF StepsBack
  <2>7. CASE q.id < r.id
    <3>1. r.ts < q.ts
      <4>1. /\ r.ts \in Nat /\ q.ts \in Nat /\ r.id \in Nat /\ q.id \in Nat
        BY <1>3, <1>5, <2>3
      <4> QED BY <2>2, <2>7, <4>1 DEF Newer
    <3>2. q \in RowsOf(t)' /\ r \in RowsOf(t)' /\ r.id <= s.id /\ r.ts <= r.ts
      BY <1>3, <1>4, <1>5, <2>1, <2>2
    <3> QED BY <2>3, <2>7, <3>1, <3>2 DEF StepsBack
  <2> QED
    <3>1. r.id \in Nat /\ q.id \in Nat
      BY <1>3, <1>5, <2>3
    <3> QED BY <2>5, <2>6, <2>7, <3>1
<1> QED BY <1>6, <1>7

LEMMA MarkKeepsRouting ==
    ASSUME RowsInv, RoutingInv, NEW T \in SUBSET Tasks, NEW at \in Times, MarkOrphans(T, at)
    PROVE  RoutingInv'
<1>1. /\ \A m \in rows' : \E r \in rows : SameEvent(m, r)
      /\ \A r \in rows : \E m \in rows' : SameEvent(m, r)
  BY MarkedRows DEF MarkOrphans, RowsInv
<1> SUFFICES ASSUME NEW m \in rows', NEW n \in rows', m.task = n.task, m.id < n.id, Loses(m, n)
             PROVE  StepsBack(m, n)'
  BY DEF RoutingInv, Loses
<1>2. PICK r \in rows, s \in rows : SameEvent(m, r) /\ SameEvent(n, s)
  BY <1>1
<1>3. StepsBack(r, s)
  BY <1>2 DEF RoutingInv, SameEvent, Loses
<1>4. PICK p, q \in RowsOf(r.task) : p.id < q.id /\ q.id <= s.id /\ r.ts <= q.ts /\ q.ts < p.ts
  BY <1>3 DEF StepsBack
<1>5. PICK x \in rows', y \in rows' : SameEvent(x, p) /\ SameEvent(y, q)
  BY <1>1, <1>4 DEF RowsOf
<1>6. x \in RowsOf(m.task)' /\ y \in RowsOf(m.task)'
  BY <1>2, <1>4, <1>5 DEF RowsOf, SameEvent
<1> QED BY <1>2, <1>4, <1>5, <1>6 DEF StepsBack, SameEvent

\* Of an expired task, retention removes what is older than a cutoff.
LEMMA CleanupKeepsRouting ==
    ASSUME RowsInv, RoutingInv, NEW c \in Times, NEW d \in Times, Cleanup(c, d)
    PROVE  RoutingInv'
<1> DEFINE cutoff(t) == CutoffOf(latest[t], c, d)
           expired   == {t \in Tasks : latest[t] # None /\ latest[t].ts < cutoff(t)}
<1>1. rows' = {r \in rows : r.task \notin expired \/ r.ts >= cutoff(r.task)}
  BY DEF Cleanup
<1>2. \A t : cutoff(t) \in Nat
  BY TimesAssumption DEF CutoffOf
<1>3. \A r \in rows : r.ts \in Nat
  BY TimesAssumption DEF RowsInv, TypeOK, EventRow
<1> HIDE DEF cutoff, expired
<1> SUFFICES ASSUME NEW r \in rows', NEW s \in rows', r.task = s.task, r.id < s.id, Loses(r, s)
             PROVE  StepsBack(r, s)'
  BY DEF RoutingInv, Loses
<1>4. PICK p, q \in RowsOf(r.task) : p.id < q.id /\ q.id <= s.id /\ r.ts <= q.ts /\ q.ts < p.ts
  BY <1>1 DEF RoutingInv, StepsBack
<1>5. p \in RowsOf(r.task)' /\ q \in RowsOf(r.task)'
  <2>1. p \in rows /\ q \in rows /\ p.task = r.task /\ q.task = r.task /\ r \in rows
    BY <1>1, <1>4 DEF RowsOf
  <2>2. p.ts \in Nat /\ q.ts \in Nat /\ r.ts \in Nat /\ cutoff(r.task) \in Nat
    BY <1>2, <1>3, <2>1
  <2>3. r.task \notin expired \/ (q.ts >= cutoff(r.task) /\ p.ts >= cutoff(r.task))
    BY <1>1, <1>4, <2>2
  <2> QED BY <1>1, <2>1, <2>3 DEF RowsOf
<1> QED BY <1>4, <1>5 DEF StepsBack

\* On every dialect, a queue or routing key once seen is in every later row of the task,
\* unless the clock has stepped back in between (_inherit_queue_info).
THEOREM RoutingNeverLost == Spec => []RoutingKept
<1> DEFINE I == RowsInv /\ RoutingInv
<1>1. Init => I
  BY DEF Init, RowsInv, RoutingInv, TypeOK, IdsOK, PayloadKept
<1>2. I /\ [Next]_storeVars => I'
  <2> SUFFICES ASSUME I, [Next]_storeVars PROVE RoutingInv'
    BY RowsStep
  <2>1. CASE UNCHANGED rows
    BY <2>1 DEF RoutingInv, StepsBack, RowsOf
  <2>2. ASSUME NEW t \in Tasks, SetResolution(t) \/ ClearResolution(t)
        PROVE  UNCHANGED rows
    BY <2>2 DEF SetResolution, ClearResolution
  <2>3. UNCHANGED storeVars => UNCHANGED rows
    BY DEF storeVars
  <2> QED BY <2>1, <2>2, <2>3, SaveKeepsRouting, MarkKeepsRouting, CleanupKeepsRouting DEF Next
<1>3. I => RoutingKept
  <2> SUFFICES ASSUME I, NEW r \in rows, NEW s \in rows, r.task = s.task, r.id < s.id,
                      \A p, q \in RowsOf(r.task) : p.id < q.id /\ q.id <= s.id => p.ts <= q.ts
               PROVE  ~Loses(r, s)
    BY DEF RoutingKept, Loses
  <2>1. ASSUME StepsBack(r, s) PROVE FALSE
    <3>1. PICK p, q \in RowsOf(r.task) : p.id < q.id /\ q.id <= s.id /\ q.ts < p.ts
      BY <2>1 DEF StepsBack
    <3>2. p.ts \in Nat /\ q.ts \in Nat
      BY <3>1, TimesAssumption DEF RowsOf, RowsInv, TypeOK, EventRow
    <3> QED BY <3>1, <3>2
  <2> QED BY <2>1 DEF RoutingInv
<1> QED BY <1>1, <1>2, <1>3, PTL DEF Spec

-----------------------------------------------------------------------------
(* The threads: type correctness, and their steps seen from the store. *)

\* A thread that marks knows the worker and the time.
JobsOK == \A th \in Threads :
             job[th].pc # "idle" => job[th].host \in Workers /\ job[th].at \in Times

\* A scan under way knows its time, and which worker it is about to declare,
\* and then the thread has no marking to finish.
ScanOK == /\ scan.pc # "sleep" => scan.at \in Times
          /\ scan.pc \in {"status", "declare"} => scan.host \in Workers /\ job["health"].pc = "idle"

ThreadsInv == OrphanTypeOK /\ JobsOK /\ ScanOK

\* Every step of the threads is a step of the store or leaves it alone.
LEMMA StoreStepOrStutter ==
    ASSUME ThreadsInv, [OrphanNext]_orphanVars
    PROVE  [Next]_storeVars
<1>1. ASSUME NEW t \in Tasks, NEW e \in Arrivals, TaskEvent(t, e) PROVE Next
  <2>1. clock \in Times
    BY DEF ThreadsInv, OrphanTypeOK
  <2> QED BY <1>1, <2>1 DEF TaskEvent, Next
<1>2. ASSUME NEW th \in Threads, Mark(th) PROVE Next
  <2>1. job[th].found \in SUBSET Tasks
    BY DEF ThreadsInv, OrphanTypeOK, Job
  <2>2. job[th].at \in Times
    BY <1>2 DEF ThreadsInv, JobsOK, Mark
  <2>3. MarkOrphans(job[th].found, job[th].at)
    BY <1>2 DEF Mark
  <2> QED BY <2>1, <2>2, <2>3 DEF Next
<1>3. ASSUME NEW h \in Workers,
             Heartbeat(h) \/ WorkerOffline(h) \/ Visit(h) \/ GoStale(h) \/ Crash(h) \/ Return(h)
      PROVE  UNCHANGED storeVars
  BY <1>3 DEF Heartbeat, WorkerOffline, Visit, GoStale, Crash, Return
<1>4. ASSUME BeginScan \/ ReadStatus \/ Declare \/ EndScan \/ Tick \/ Restart PROVE UNCHANGED storeVars
  BY <1>4 DEF BeginScan, ReadStatus, Declare, EndScan, Tick, Restart
<1>5. ASSUME NEW th \in Threads, Find(th) \/ MarkFails(th) \/ Tell(th) \/ TellFails(th)
      PROVE  UNCHANGED storeVars
  BY <1>5 DEF Find, MarkFails, Tell, TellFails
<1>6. CASE UNCHANGED orphanVars
  BY <1>6 DEF orphanVars, storeVars
<1> QED BY <1>1, <1>2, <1>3, <1>4, <1>5, <1>6 DEF OrphanNext

\* What a search finds are tasks, and each has rows.
LEMMA FoundTasks ==
    ASSUME TypeOK, NEW h
    PROVE  /\ FoundOn(h) \subseteq Tasks
           /\ \A t \in FoundOn(h) : RowsOf(t) # {}
BY DEF FoundOn, TypeOK, EventRow, RowsOf

LEMMA ThreadsStep == ThreadsInv /\ [OrphanNext]_orphanVars => ThreadsInv'
<1> SUFFICES ASSUME ThreadsInv, [OrphanNext]_orphanVars PROVE ThreadsInv'
  OBVIOUS
<1>1. TypeOK'
  BY StoreStepOrStutter, TypeStep DEF ThreadsInv, OrphanTypeOK
<1> USE <1>1 DEF ThreadsInv, OrphanTypeOK, JobsOK, ScanOK
<1>2. ASSUME NEW t \in Tasks, NEW e \in Arrivals, TaskEvent(t, e) PROVE ThreadsInv'
  BY <1>2 DEF TaskEvent, workerVars
<1>3. ASSUME NEW h \in Workers, Heartbeat(h) PROVE ThreadsInv'
  BY <1>3 DEF Heartbeat, BeatStatus, Statuses, Scan
<1>4. ASSUME NEW h \in Workers, WorkerOffline(h) PROVE ThreadsInv'
  <2>1. Marking(h, clock) \in Job
    BY DEF Marking, Job, MaybeTime
  <2>2. job' \in [Threads -> Job] /\ JobsOK'
    BY <1>4, <2>1 DEF WorkerOffline, Marking
  <2>3. scan' \in Scan /\ ScanOK'
    BY <1>4 DEF WorkerOffline, Scan
  <2> QED BY <1>4, <2>2, <2>3 DEF WorkerOffline, SetOffline, Statuses, TypeOK
<1>5. ASSUME BeginScan PROVE ThreadsInv'
  BY <1>5 DEF BeginScan, Scan, MaybeTime
<1>6. ASSUME NEW h \in Workers, Visit(h) PROVE ThreadsInv'
  BY <1>6 DEF Visit, Scan
<1>19. ASSUME ReadStatus PROVE ThreadsInv'
  BY <1>19 DEF ReadStatus, Scan
<1>7. ASSUME Declare PROVE ThreadsInv'
  <2>1. scan.host \in Workers /\ scan.at \in Times
    BY <1>7 DEF Declare
  <2>2. Marking(scan.host, scan.at) \in Job
    BY <2>1 DEF Marking, Job, MaybeTime
  <2>3. job' \in [Threads -> Job] /\ JobsOK'
    BY <1>7, <2>1, <2>2 DEF Declare, Marking
  <2>4. scan' \in Scan /\ ScanOK'
    BY <1>7, <2>1 DEF Declare, Scan
  <2> QED BY <1>7, <2>1, <2>3, <2>4 DEF Declare, SetOffline, Statuses, TypeOK
<1>8. ASSUME EndScan PROVE ThreadsInv'
  BY <1>8 DEF EndScan, Asleep, Scan, MaybeTime
<1>9. ASSUME NEW th \in Threads, Find(th) PROVE ThreadsInv'
  <2>1. FoundOn(job[th].host) \subseteq Tasks
    BY FoundTasks
  <2>2. Idle \in Job
    BY DEF Idle, Job, MaybeTime
  <2>3. [job[th] EXCEPT !.pc = "mark", !.found = FoundOn(job[th].host)] \in Job
    BY <2>1 DEF Job
  <2>4. job' \in [Threads -> Job]
    BY <1>9, <2>2, <2>3 DEF Find
  <2>5. JobsOK'
    BY <1>9 DEF Find, Idle, Job
  <2> QED BY <1>9, <2>4, <2>5 DEF Find, workerVars
<1>10. ASSUME NEW th \in Threads, Mark(th) PROVE ThreadsInv'
  BY <1>10 DEF Mark, workerVars, Job
<1>11. ASSUME NEW th \in Threads, MarkFails(th) PROVE ThreadsInv'
  BY <1>11 DEF MarkFails, workerVars, Job, Idle, MaybeTime
<1>12. ASSUME NEW th \in Threads PROVE ToTell(th) \subseteq Tasks \X Times
  BY DEF ToTell, Job
<1>13. ASSUME NEW th \in Threads, Tell(th) PROVE ThreadsInv'
  <2>1. told' \subseteq Tasks \X Times
    BY <1>12, <1>13 DEF Tell
  <2> QED BY <1>13, <2>1 DEF Tell, workerVars, Job, Idle, MaybeTime
<1>18. ASSUME NEW th \in Threads, TellFails(th) PROVE ThreadsInv'
  <2>1. dropped' \subseteq Tasks \X Times
    BY <1>12, <1>18 DEF TellFails
  <2> QED BY <1>18, <2>1 DEF TellFails, workerVars, Job, Idle, MaybeTime
<1>14. ASSUME Tick PROVE ThreadsInv'
  BY <1>14 DEF Tick
<1>15. ASSUME NEW h \in Workers, GoStale(h) \/ Crash(h) \/ Return(h) PROVE ThreadsInv'
  BY <1>15 DEF GoStale, Crash, Return
<1>16. ASSUME Restart PROVE ThreadsInv'
  <2>1. dropped' \subseteq Tasks \X Times
    BY <1>12, <1>16 DEF Restart
  <2> QED BY <1>16, <2>1 DEF Restart, Statuses, Asleep, Scan, Idle, Job, MaybeTime
<1>17. CASE UNCHANGED orphanVars
  BY <1>17 DEF orphanVars
<1> QED BY <1>2, <1>3, <1>4, <1>5, <1>6, <1>7, <1>8, <1>9, <1>10, <1>11, <1>13, <1>14,
           <1>15, <1>16, <1>17, <1>18, <1>19 DEF OrphanNext

LEMMA ThreadsStart == OrphanInit => ThreadsInv
BY DEF OrphanInit, Init, ThreadsInv, OrphanTypeOK, TypeOK, JobsOK, ScanOK, Statuses,
       Asleep, Scan, Idle, Job, MaybeTime

\* Threads, dictionary and tables keep their types under every interleaving.
THEOREM OrphanTypeCorrect == OrphanSpec => []OrphanTypeOK
<1>1. ThreadsInv => OrphanTypeOK
  BY DEF ThreadsInv
<1> QED BY <1>1, ThreadsStart, ThreadsStep, PTL DEF OrphanSpec, OrphanSafetySpec

-----------------------------------------------------------------------------
(* What a step does to the rows: no row goes, and a mark stays. *)

\* Nothing is deleted here, so the last id given is the largest one stored.
LastIdStored == lastId = 0 \/ \E r \in rows : r.id = lastId

OrphanRowsInv == ThreadsInv /\ RowsInv /\ LastIdStored

\* The row a task event adds.
LEMMA SavedRow ==
    ASSUME OrphanRowsInv, NEW t \in Tasks, NEW e \in Arrivals, NEW ts \in Times,
           SaveTaskEvent(t, e, ts)
    PROVE  \E row : /\ rows' = rows \cup {row}
                    /\ row.orphaned_at = None
                    /\ row.id = lastId'
                    /\ lastId' \in Nat /\ lastId < lastId'
                    /\ \A r \in rows : r.id < row.id
<1>1. PICK id \in FreshIds, routing \in InheritRouting(t, e), args \in InheritArgs(t, e) :
         /\ rows' = rows \cup {NewRow(id, t, e, ts, routing, args)}
         /\ lastId' = id
  BY DEF SaveTaskEvent
<1> DEFINE row == NewRow(id, t, e, ts, routing, args)
<1>2. row.id = id /\ row.orphaned_at = None
  BY DEF NewRow
<1>3. id \in Nat /\ \A r \in rows : r.id < id
  BY FreshIdsAbove DEF OrphanRowsInv, RowsInv
<1>4. lastId < id
  <2>1. CASE \E r \in rows : r.id = lastId
    BY <1>3, <2>1
  <2>2. CASE lastId = 0
    <3>1. id \in 1..MaxId
      BY DEF FreshIds
    <3> QED BY <2>2, <3>1, MaxIdAssumption
  <2> QED BY <2>1, <2>2 DEF OrphanRowsInv, LastIdStored
<1> QED BY <1>1, <1>2, <1>3, <1>4

\* What marking leaves of a row.
LEMMA MarkedRow ==
    ASSUME TypeOK, NEW T, NEW at \in Times, NEW r \in rows
    PROVE  /\ SameEvent(MarkRow(r, T, at), r)
           /\ r.task \in T => MarkRow(r, T, at).orphaned_at = at
           /\ r.task \notin T => MarkRow(r, T, at) = r
           /\ r.orphaned_at # None => MarkRow(r, T, at).orphaned_at # None
<1>1. r \in EventRow
  BY DEF TypeOK
<1> QED BY <1>1, NoneAssumption DEF MarkRow, SameEvent, EventRow

\* Every step that is not an event or a marking leaves rows and ids alone.
LEMMA OtherSteps ==
    ASSUME [OrphanNext]_orphanVars,
           \A t \in Tasks, e \in Arrivals : ~TaskEvent(t, e),
           \A th \in Threads : ~Mark(th)
    PROVE  rows' = rows /\ lastId' = lastId
<1> USE DEF storeVars
<1>1. ASSUME NEW h \in Workers,
             Heartbeat(h) \/ WorkerOffline(h) \/ Visit(h) \/ GoStale(h) \/ Crash(h) \/ Return(h)
      PROVE  UNCHANGED <<rows, lastId>>
  BY <1>1 DEF Heartbeat, WorkerOffline, Visit, GoStale, Crash, Return
<1>2. ASSUME BeginScan \/ ReadStatus \/ Declare \/ EndScan \/ Tick \/ Restart
      PROVE  UNCHANGED <<rows, lastId>>
  BY <1>2 DEF BeginScan, ReadStatus, Declare, EndScan, Tick, Restart
<1>3. ASSUME NEW th \in Threads, Find(th) \/ MarkFails(th) \/ Tell(th) \/ TellFails(th)
      PROVE  UNCHANGED <<rows, lastId>>
  BY <1>3 DEF Find, MarkFails, Tell, TellFails
<1>4. CASE UNCHANGED orphanVars
  BY <1>4 DEF orphanVars
<1> QED BY <1>1, <1>2, <1>3, <1>4 DEF OrphanNext

LEMMA OrphanRowsStep == OrphanRowsInv /\ [OrphanNext]_orphanVars => OrphanRowsInv'
<1> SUFFICES ASSUME OrphanRowsInv, [OrphanNext]_orphanVars PROVE OrphanRowsInv'
  OBVIOUS
<1>1. ThreadsInv' /\ RowsInv'
  BY ThreadsStep, StoreStepOrStutter, RowsStep DEF OrphanRowsInv
<1>2. ASSUME NEW t \in Tasks, NEW e \in Arrivals, TaskEvent(t, e) PROVE LastIdStored'
  <2>1. SaveTaskEvent(t, e, clock) /\ clock \in Times
    BY <1>2 DEF TaskEvent, OrphanRowsInv, ThreadsInv, OrphanTypeOK
  <2> QED BY <2>1, SavedRow DEF LastIdStored
<1>3. ASSUME NEW th \in Threads, Mark(th) PROVE LastIdStored'
  <2>1. rows' = Marked(job[th].found, job[th].at) /\ lastId' = lastId
    BY <1>3 DEF Mark, MarkOrphans
  <2>2. \A r \in rows : MarkRow(r, job[th].found, job[th].at).id = r.id
    BY DEF MarkRow, OrphanRowsInv, RowsInv, TypeOK, EventRow
  <2> QED BY <2>1, <2>2 DEF LastIdStored, OrphanRowsInv, Marked
<1>4. ASSUME rows' = rows, lastId' = lastId PROVE LastIdStored'
  BY <1>4 DEF LastIdStored, OrphanRowsInv
<1>5. LastIdStored'
  BY <1>2, <1>3, <1>4, OtherSteps
<1> QED BY <1>1, <1>5 DEF OrphanRowsInv

LEMMA OrphanRowsStart == OrphanInit => OrphanRowsInv
BY ThreadsStart DEF OrphanInit, Init, OrphanRowsInv, RowsInv, IdsOK, PayloadKept, LastIdStored,
                    ThreadsInv, OrphanTypeOK

-----------------------------------------------------------------------------
(* Orphan rows come first. *)

LEMMA PrefixStep ==
    OrphanRowsInv /\ OrphanRowsArePrefix /\ [OrphanNext]_orphanVars => OrphanRowsArePrefix'
<1> SUFFICES ASSUME OrphanRowsInv, OrphanRowsArePrefix, [OrphanNext]_orphanVars
             PROVE  OrphanRowsArePrefix'
  OBVIOUS
<1>1. ASSUME NEW t \in Tasks, NEW e \in Arrivals, TaskEvent(t, e) PROVE OrphanRowsArePrefix'
  <2>1. SaveTaskEvent(t, e, clock) /\ clock \in Times
    BY <1>1 DEF TaskEvent, OrphanRowsInv, ThreadsInv, OrphanTypeOK
  <2>2. PICK row : /\ rows' = rows \cup {row}
                   /\ row.orphaned_at = None
                   /\ row.id \in Nat
                   /\ \A r \in rows : r.id < row.id
    BY <2>1, SavedRow
  <2>3. \A r \in rows : r.id \in Nat
    BY DEF OrphanRowsInv, RowsInv, TypeOK, EventRow
  <2> QED BY <2>2, <2>3 DEF OrphanRowsArePrefix
<1>2. ASSUME NEW th \in Threads, Mark(th) PROVE OrphanRowsArePrefix'
  <2> DEFINE marked(r) == MarkRow(r, job[th].found, job[th].at)
  <2>1. rows' = {marked(r) : r \in rows} /\ job[th].at \in Times
    BY <1>2 DEF Mark, MarkOrphans, Marked, OrphanRowsInv, ThreadsInv, JobsOK
  <2> SUFFICES ASSUME NEW r \in rows, NEW s \in rows,
                      marked(r).task = marked(s).task, marked(r).id < marked(s).id,
                      marked(s).orphaned_at # None
               PROVE  marked(r).orphaned_at # None
    BY <2>1 DEF OrphanRowsArePrefix
  <2>2. r.task = s.task /\ r.id < s.id
    BY <2>1, MarkedRow DEF OrphanRowsInv, RowsInv, SameEvent
  <2>3. CASE r.task \in job[th].found
    BY <2>1, <2>3, MarkedRow, NoneAssumption DEF OrphanRowsInv, RowsInv
  <2>4. CASE r.task \notin job[th].found
    BY <2>1, <2>2, <2>4, MarkedRow DEF OrphanRowsInv, RowsInv, OrphanRowsArePrefix
  <2> QED BY <2>3, <2>4
<1>3. CASE rows' = rows
  BY <1>3 DEF OrphanRowsArePrefix
<1> QED BY <1>1, <1>2, <1>3, OtherSteps

\* A marking takes in the whole history of a task, under every interleaving.
THEOREM OrphansArePrefix == OrphanSpec => []OrphanRowsArePrefix
<1>1. OrphanInit => OrphanRowsArePrefix
  BY DEF OrphanInit, Init, OrphanRowsArePrefix
<1> QED BY <1>1, OrphanRowsStart, OrphanRowsStep, PrefixStep, PTL
        DEF OrphanSpec, OrphanSafetySpec

-----------------------------------------------------------------------------
(* What is told is stored. *)

HasOrphanRow(t) == \E r \in RowsOf(t) : r.orphaned_at # None

\* What a thread has found it can mark, and what it is about to tell is marked.
FoundHaveRows ==
    \A th \in Threads : job[th].pc = "mark" => \A t \in job[th].found : RowsOf(t) # {}
ToBeToldIsStored ==
    \A th \in Threads : job[th].pc = "tell" => \A t \in job[th].found : HasOrphanRow(t)

ToldInv == ToldIsStored /\ FoundHaveRows /\ ToBeToldIsStored

\* Rows and marks stay; a marking marks all it found.
LEMMA MarksStay ==
    ASSUME OrphanRowsInv, [OrphanNext]_orphanVars, NEW t
    PROVE  /\ RowsOf(t) # {} => RowsOf(t)' # {}
           /\ HasOrphanRow(t) => HasOrphanRow(t)'
<1> DEFINE Kept == /\ RowsOf(t) # {} => RowsOf(t)' # {}
                   /\ HasOrphanRow(t) => HasOrphanRow(t)'
<1>1. ASSUME NEW u \in Tasks, NEW e \in Arrivals, TaskEvent(u, e) PROVE Kept
  <2>1. SaveTaskEvent(u, e, clock) /\ clock \in Times
    BY <1>1 DEF TaskEvent, OrphanRowsInv, ThreadsInv, OrphanTypeOK
  <2>2. rows \subseteq rows'
    BY <2>1, SavedRow
  <2> QED BY <2>2 DEF RowsOf, HasOrphanRow
<1>2. ASSUME NEW th \in Threads, Mark(th) PROVE Kept
  <2> DEFINE marked(r) == MarkRow(r, job[th].found, job[th].at)
  <2>1. rows' = {marked(r) : r \in rows} /\ job[th].at \in Times
    BY <1>2 DEF Mark, MarkOrphans, Marked, OrphanRowsInv, ThreadsInv, JobsOK
  <2>2. ASSUME NEW r \in rows
        PROVE  /\ marked(r) \in rows'
               /\ marked(r).task = r.task
               /\ r.orphaned_at # None => marked(r).orphaned_at # None
    BY <2>1, MarkedRow DEF OrphanRowsInv, RowsInv, SameEvent
  <2> HIDE DEF marked
  <2> QED BY <2>2 DEF RowsOf, HasOrphanRow
<1>3. ASSUME rows' = rows PROVE Kept
  BY <1>3 DEF RowsOf, HasOrphanRow
<1> QED BY <1>1, <1>2, <1>3, OtherSteps

LEMMA ToldStep == OrphanRowsInv /\ ToldInv /\ [OrphanNext]_orphanVars => ToldInv'
<1> SUFFICES ASSUME OrphanRowsInv, ToldInv, [OrphanNext]_orphanVars PROVE ToldInv'
  OBVIOUS
<1> USE DEF ToldInv, ToldIsStored, FoundHaveRows, ToBeToldIsStored
<1>0. job \in [Threads -> Job]
  BY DEF OrphanRowsInv, ThreadsInv, OrphanTypeOK
\* Of the jobs no more need be known than that each is as before or idle.
<1>1. ASSUME told' = told, \A th \in Threads : job'[th] = job[th] \/ job'[th].pc \in {"idle", "find"}
      PROVE  ToldInv'
  <2>1. ToldIsStored'
    BY <1>1, MarksStay DEF HasOrphanRow
  <2>2. FoundHaveRows' /\ ToBeToldIsStored'
    BY <1>1, MarksStay
  <2> QED BY <2>1, <2>2
<1>2. ASSUME NEW th \in Threads, Find(th) PROVE ToldInv'
  <2>1. CASE FoundOn(job[th].host) = {}
    <3>1. told' = told /\ \A x \in Threads : job'[x] = job[x] \/ job'[x].pc \in {"idle", "find"}
      BY <1>0, <1>2, <2>1 DEF Find, Idle
    <3> QED BY <3>1, <1>1
  <2>2. CASE FoundOn(job[th].host) # {}
    <3>1. job' = [job EXCEPT ![th] = [job[th] EXCEPT !.pc = "mark", !.found = FoundOn(job[th].host)]]
          /\ told' = told /\ rows' = rows
      BY <1>2, <2>2 DEF Find, storeVars
    <3>2. \A t \in FoundOn(job[th].host) : RowsOf(t) # {}
      BY FoundTasks DEF OrphanRowsInv, RowsInv
    <3>3. ToldIsStored'
      BY <3>1, MarksStay DEF HasOrphanRow
    <3>4. FoundHaveRows' /\ ToBeToldIsStored'
      BY <1>0, <3>1, <3>2, MarksStay DEF Job
    <3> QED BY <3>3, <3>4
  <2> QED BY <2>1, <2>2
<1>3. ASSUME NEW th \in Threads, Mark(th) PROVE ToldInv'
  <2> DEFINE marked(r) == MarkRow(r, job[th].found, job[th].at)
  <2>1. /\ rows' = {marked(r) : r \in rows}
        /\ job[th].at \in Times
        /\ job' = [job EXCEPT ![th].pc = "tell"]
        /\ told' = told
        /\ job[th].pc = "mark"
    BY <1>3 DEF Mark, MarkOrphans, Marked, OrphanRowsInv, ThreadsInv, JobsOK
  <2>2. ASSUME NEW t \in job[th].found PROVE HasOrphanRow(t)'
    <3>1. PICK r \in rows : r.task = t
      BY <2>1, <2>2 DEF RowsOf
    <3>2. marked(r) \in rows' /\ marked(r).task = t /\ marked(r).orphaned_at # None
      BY <2>1, <2>2, <3>1, MarkedRow, NoneAssumption DEF OrphanRowsInv, RowsInv, SameEvent
    <3> QED BY <3>2 DEF HasOrphanRow, RowsOf
  <2>3. ToldIsStored'
    BY <2>1, MarksStay DEF HasOrphanRow
  <2>4. job'[th].found = job[th].found /\ job'[th].pc = "tell"
        /\ \A x \in Threads : x # th => job'[x] = job[x]
    BY <1>0, <2>1 DEF Job
  <2>5. FoundHaveRows'
    BY <2>4, MarksStay
  <2>6. ToBeToldIsStored'
    BY <2>2, <2>4, MarksStay
  <2> QED BY <2>3, <2>5, <2>6
<1>4. ASSUME NEW th \in Threads, Tell(th) PROVE ToldInv'
  <2>1. told' = told \cup (job[th].found \X {job[th].at}) /\ job[th].pc = "tell"
    BY <1>4 DEF Tell, ToTell
  <2>2. \A x \in Threads : job'[x] = job[x] \/ job'[x].pc = "idle"
    BY <1>0, <1>4 DEF Tell, Idle
  <2>3. FoundHaveRows' /\ ToBeToldIsStored'
    BY <2>2, MarksStay
  <2>4. ASSUME NEW t \in Tasks, NEW at \in Times, <<t, at>> \in told' PROVE HasOrphanRow(t)'
    <3>1. HasOrphanRow(t)
      BY <2>1, <2>4 DEF HasOrphanRow
    <3> QED BY <3>1, MarksStay
  <2>5. ToldIsStored'
    BY <2>4 DEF HasOrphanRow
  <2> QED BY <2>3, <2>5
<1>5. ASSUME NEW h \in Workers,
             Heartbeat(h) \/ WorkerOffline(h) \/ Visit(h) \/ GoStale(h) \/ Crash(h) \/ Return(h)
      PROVE  ToldInv'
  <2>1. told' = told /\ \A x \in Threads : job'[x] = job[x] \/ job'[x].pc \in {"idle", "find"}
    BY <1>0, <1>5 DEF Heartbeat, WorkerOffline, Visit, GoStale, Crash, Return, Marking
  <2> QED BY <2>1, <1>1
<1>6. ASSUME BeginScan \/ ReadStatus \/ Declare \/ EndScan \/ Tick \/ Restart PROVE ToldInv'
  <2>1. told' = told /\ \A x \in Threads : job'[x] = job[x] \/ job'[x].pc \in {"idle", "find"}
    BY <1>0, <1>6 DEF BeginScan, ReadStatus, Declare, EndScan, Tick, Restart, Marking, Idle
  <2> QED BY <2>1, <1>1
<1>7. ASSUME NEW th \in Threads, MarkFails(th) \/ TellFails(th) PROVE ToldInv'
  <2>1. told' = told /\ \A x \in Threads : job'[x] = job[x] \/ job'[x].pc \in {"idle", "find"}
    BY <1>0, <1>7 DEF MarkFails, TellFails, Idle
  <2> QED BY <2>1, <1>1
<1>8. ASSUME NEW t \in Tasks, NEW e \in Arrivals, TaskEvent(t, e) PROVE ToldInv'
  <2>1. told' = told /\ job' = job
    BY <1>8 DEF TaskEvent
  <2> QED BY <2>1, <1>1
<1>9. CASE UNCHANGED orphanVars
  <2>1. told' = told /\ job' = job
    BY <1>9 DEF orphanVars
  <2> QED BY <2>1, <1>1
<1> QED BY <1>2, <1>3, <1>4, <1>5, <1>6, <1>7, <1>8, <1>9 DEF OrphanNext

\* No orphan is broadcast that the database does not know.
THEOREM OnlyStoredOrphansAreTold == OrphanSpec => []ToldIsStored
<1>1. OrphanInit => ToldInv
  BY DEF OrphanInit, ToldInv, ToldIsStored, FoundHaveRows, ToBeToldIsStored, Idle
<1>2. ToldInv => ToldIsStored
  BY DEF ToldInv
<1> QED BY <1>1, <1>2, OrphanRowsStart, OrphanRowsStep, ToldStep, PTL
        DEF OrphanSpec, OrphanSafetySpec

-----------------------------------------------------------------------------
(* What is stored is told. *)

\* Announcements there are, made, kept from being made, or still to make.
Announcements == told \cup dropped \cup UNION {ToTell(th) : th \in Threads}

LEMMA AnnouncedStep ==
    OrphanRowsInv /\ OrphansAreAnnounced /\ [OrphanNext]_orphanVars => OrphansAreAnnounced'
<1> SUFFICES ASSUME OrphanRowsInv, OrphansAreAnnounced, [OrphanNext]_orphanVars
             PROVE  OrphansAreAnnounced'
  OBVIOUS
<1>0. job \in [Threads -> Job]
  BY DEF OrphanRowsInv, ThreadsInv, OrphanTypeOK
<1>1. ASSUME rows' = rows, Announcements \subseteq Announcements' PROVE OrphansAreAnnounced'
  BY <1>1 DEF OrphansAreAnnounced, Announcements
\* It is enough that no thread gives up what it has to tell.
<1>2. ASSUME told' = told, dropped' = dropped,
             \A th \in Threads : job'[th] = job[th] \/ job[th].pc # "tell"
      PROVE  Announcements \subseteq Announcements'
  BY <1>2 DEF Announcements, ToTell
<1>3. ASSUME NEW t \in Tasks, NEW e \in Arrivals, TaskEvent(t, e) PROVE OrphansAreAnnounced'
  <2>1. SaveTaskEvent(t, e, clock) /\ clock \in Times /\ told' = told /\ dropped' = dropped
        /\ job' = job
    BY <1>3 DEF TaskEvent, OrphanRowsInv, ThreadsInv, OrphanTypeOK
  <2>2. PICK row : rows' = rows \cup {row} /\ row.orphaned_at = None
    BY <2>1, SavedRow
  <2>3. Announcements \subseteq Announcements'
    BY <2>1, <1>2
  <2> QED BY <2>2, <2>3 DEF OrphansAreAnnounced, Announcements
<1>4. ASSUME NEW th \in Threads, Mark(th) PROVE OrphansAreAnnounced'
  <2> DEFINE marked(r) == MarkRow(r, job[th].found, job[th].at)
  <2>1. /\ rows' = {marked(r) : r \in rows}
        /\ job[th].at \in Times
        /\ job' = [job EXCEPT ![th].pc = "tell"]
        /\ told' = told /\ dropped' = dropped
        /\ job[th].pc = "mark"
    BY <1>4 DEF Mark, MarkOrphans, Marked, OrphanRowsInv, ThreadsInv, JobsOK
  <2>2. \A x \in Threads : job'[x] = job[x] \/ job[x].pc # "tell"
    BY <1>0, <2>1
  <2>3. Announcements \subseteq Announcements'
    BY <2>1, <2>2, <1>2
  <2>4. ToTell(th)' = job[th].found \X {job[th].at}
    BY <1>0, <2>1 DEF ToTell, Job
  <2>5. ASSUME NEW r \in rows, marked(r).orphaned_at # None
        PROVE  <<marked(r).task, marked(r).orphaned_at>> \in Announcements'
    <3>1. CASE r.task \in job[th].found
      <4>1. marked(r).task = r.task /\ marked(r).orphaned_at = job[th].at
        BY <2>1, <3>1, MarkedRow DEF OrphanRowsInv, RowsInv, SameEvent
      <4> QED BY <2>4, <3>1, <4>1 DEF Announcements
    <3>2. CASE r.task \notin job[th].found
      <4>1. marked(r) = r
        BY <2>1, <3>2, MarkedRow DEF OrphanRowsInv, RowsInv
      <4>2. <<r.task, r.orphaned_at>> \in Announcements
        BY <2>5, <4>1 DEF OrphansAreAnnounced, Announcements
      <4> QED BY <2>3, <4>1, <4>2
    <3> QED BY <3>1, <3>2
  <2> HIDE DEF marked
  <2> QED BY <2>1, <2>5 DEF OrphansAreAnnounced, Announcements
<1>5. ASSUME NEW th \in Threads, Tell(th) \/ TellFails(th) PROVE OrphansAreAnnounced'
  <2>1. rows' = rows /\ told \subseteq told' /\ dropped \subseteq dropped'
        /\ ToTell(th) \subseteq told' \cup dropped'
    BY <1>5 DEF Tell, TellFails, storeVars
  <2>2. \A x \in Threads : x # th => job'[x] = job[x]
    BY <1>0, <1>5 DEF Tell, TellFails
  <2>3. \A x \in Threads : x # th => ToTell(x)' = ToTell(x)
    BY <2>2 DEF ToTell
  <2>4. Announcements \subseteq Announcements'
    BY <2>1, <2>3 DEF Announcements
  <2> QED BY <2>1, <2>4, <1>1
<1>6. ASSUME Restart PROVE OrphansAreAnnounced'
  <2>1. rows' = rows /\ told' = told /\ dropped' = dropped \cup UNION {ToTell(th) : th \in Threads}
    BY <1>6 DEF Restart, storeVars
  <2>2. Announcements \subseteq Announcements'
    BY <2>1 DEF Announcements
  <2> QED BY <2>1, <2>2, <1>1
<1>7. ASSUME NEW h \in Workers,
             Heartbeat(h) \/ WorkerOffline(h) \/ Visit(h) \/ GoStale(h) \/ Crash(h) \/ Return(h)
      PROVE  OrphansAreAnnounced'
  <2>1. /\ rows' = rows /\ told' = told /\ dropped' = dropped
        /\ \A x \in Threads : job'[x] = job[x] \/ job[x].pc # "tell"
    BY <1>0, <1>7 DEF Heartbeat, WorkerOffline, Visit, GoStale, Crash, Return, MonitorIdle, storeVars
  <2> QED BY <2>1, <1>1, <1>2
<1>8. ASSUME Declare PROVE OrphansAreAnnounced'
  <2>1. job["health"].pc # "tell"
    BY <1>8 DEF Declare, OrphanRowsInv, ThreadsInv, ScanOK
  <2>2. /\ rows' = rows /\ told' = told /\ dropped' = dropped
        /\ \A x \in Threads : job'[x] = job[x] \/ job[x].pc # "tell"
    BY <1>0, <1>8, <2>1 DEF Declare, storeVars
  <2> QED BY <2>2, <1>1, <1>2
<1>9. ASSUME BeginScan \/ ReadStatus \/ EndScan \/ Tick PROVE OrphansAreAnnounced'
  <2>1. rows' = rows /\ told' = told /\ dropped' = dropped /\ job' = job
    BY <1>9 DEF BeginScan, ReadStatus, EndScan, Tick, storeVars
  <2> QED BY <2>1, <1>1, <1>2
<1>10. ASSUME NEW th \in Threads, Find(th) \/ MarkFails(th) PROVE OrphansAreAnnounced'
  <2>1. /\ rows' = rows /\ told' = told /\ dropped' = dropped
        /\ \A x \in Threads : job'[x] = job[x] \/ job[x].pc # "tell"
    BY <1>0, <1>10 DEF Find, MarkFails, storeVars
  <2> QED BY <2>1, <1>1, <1>2
<1>11. CASE UNCHANGED orphanVars
  <2>1. rows' = rows /\ told' = told /\ dropped' = dropped /\ job' = job
    BY <1>11 DEF orphanVars
  <2> QED BY <2>1, <1>1, <1>2
<1> QED BY <1>3, <1>4, <1>5, <1>6, <1>7, <1>8, <1>9, <1>10, <1>11 DEF OrphanNext

\* Every orphan is told, or an error or a restart kept it from being told.
THEOREM StoredOrphansAreTold == OrphanSpec => []OrphansAreAnnounced
<1>1. OrphanInit => OrphansAreAnnounced
  BY DEF OrphanInit, Init, OrphansAreAnnounced
<1> QED BY <1>1, OrphanRowsStart, OrphanRowsStep, AnnouncedStep, PTL
        DEF OrphanSpec, OrphanSafetySpec

-----------------------------------------------------------------------------
(* The work of an offline worker is accounted for. *)

Searching(h) == \E th \in Threads : job[th].pc = "find" /\ job[th].host = h

\* Some thread is about to mark task t as an orphan of host h.
AboutToMark(t, h) == \E th \in Threads : /\ job[th].pc = "mark"
                                         /\ job[th].host = h
                                         /\ t \in job[th].found

\* Once every search for a worker's tasks is done, each of its unfinished tasks
\* is an orphan or has been found.
AccountedFor(h) ==
    \A r \in UnfinishedRowsOn(h) :
        r.id <= declaredId[h] => r.orphaned_at # None \/ AboutToMark(r.task, h)

AccountInv ==
    /\ \A h \in Workers : declaredId[h] <= lastId
    /\ \A h \in Workers :
          workers[h] = "offline" /\ h \notin lost /\ ~Searching(h) => AccountedFor(h)

\* What was not marked when it was searched for was found.
LEMMA SearchFinds ==
    ASSUME NEW h, NEW r \in UnfinishedRowsOn(h), r.orphaned_at = None
    PROVE  r.task \in FoundOn(h)
BY DEF UnfinishedRowsOn, FoundOn, RowsOf

LEMMA AccountStep == OrphanRowsInv /\ AccountInv /\ [OrphanNext]_orphanVars => AccountInv'
<1> SUFFICES ASSUME OrphanRowsInv, AccountInv, [OrphanNext]_orphanVars PROVE AccountInv'
  OBVIOUS
<1>0. /\ job \in [Threads -> Job]
      /\ workers \in [Workers -> Statuses]
      /\ declaredId \in [Workers -> Nat]
      /\ lastId \in Nat
      /\ \A r \in rows : r.id \in Nat
  BY DEF OrphanRowsInv, ThreadsInv, OrphanTypeOK, TypeOK, EventRow
\* Steps that take no job of a search or a marking away, set nobody offline and
\* leave the rows.
<1>1. ASSUME rows' = rows, lastId' = lastId, declaredId' = declaredId,
             \A h \in Workers : workers'[h] = "offline" /\ h \notin lost'
                                   => workers[h] = "offline" /\ h \notin lost,
             \A th \in Threads : job'[th] = job[th] \/ job[th].pc \notin {"find", "mark"}
      PROVE  AccountInv'
  <2> SUFFICES ASSUME NEW h \in Workers, workers'[h] = "offline", h \notin lost',
                      ~Searching(h)'
               PROVE  AccountedFor(h)'
    BY <1>1 DEF AccountInv
  <2>1. AccountedFor(h)
    BY <1>1 DEF AccountInv, Searching
  <2>2. \A t : AboutToMark(t, h) => AboutToMark(t, h)'
    BY <1>1 DEF AboutToMark
  <2> QED BY <1>1, <2>1, <2>2 DEF AccountedFor, UnfinishedRowsOn, RowsOf
<1>2. ASSUME NEW t \in Tasks, NEW e \in Arrivals, TaskEvent(t, e) PROVE AccountInv'
  <2>1. SaveTaskEvent(t, e, clock) /\ clock \in Times
        /\ UNCHANGED <<workers, lost, job, declaredId>>
    BY <1>2 DEF TaskEvent, OrphanRowsInv, ThreadsInv, OrphanTypeOK, workerVars
  <2>2. PICK row : /\ rows' = rows \cup {row}
                   /\ row.id = lastId'
                   /\ lastId' \in Nat /\ lastId < lastId'
    BY <2>1, SavedRow
  <2>3. \A h \in Workers : declaredId'[h] <= lastId /\ declaredId'[h] <= lastId'
    BY <1>0, <2>1, <2>2 DEF AccountInv
  <2> SUFFICES ASSUME NEW h \in Workers, workers'[h] = "offline", h \notin lost',
                      ~Searching(h)'
               PROVE  AccountedFor(h)'
    BY <2>3 DEF AccountInv
  <2>4. AccountedFor(h)
    BY <2>1 DEF AccountInv, Searching
  <2>5. \A u : AboutToMark(u, h) => AboutToMark(u, h)'
    BY <2>1 DEF AboutToMark
  <2> SUFFICES ASSUME NEW r \in UnfinishedRowsOn(h)', r.id <= declaredId'[h]
               PROVE  r.orphaned_at # None \/ AboutToMark(r.task, h)'
    BY DEF AccountedFor
  <2>6. r # row
    BY <1>0, <2>1, <2>2, <2>3
  <2>7. r \in UnfinishedRowsOn(h)
    BY <2>2, <2>6 DEF UnfinishedRowsOn, RowsOf
  <2> QED BY <2>1, <2>4, <2>5, <2>7 DEF AccountedFor
<1>3. ASSUME NEW th \in Threads, Mark(th) PROVE AccountInv'
  <2> DEFINE marked(r) == MarkRow(r, job[th].found, job[th].at)
  <2>1. /\ rows' = {marked(r) : r \in rows}
        /\ job[th].at \in Times
        /\ job' = [job EXCEPT ![th].pc = "tell"]
        /\ UNCHANGED <<workers, lost, declaredId, lastId>>
        /\ job[th].pc = "mark"
    BY <1>3 DEF Mark, MarkOrphans, Marked, OrphanRowsInv, ThreadsInv, JobsOK, workerVars
  <2>2. ASSUME NEW r \in rows
        PROVE  /\ SameEvent(marked(r), r)
               /\ r.task \in job[th].found => marked(r).orphaned_at # None
               /\ r.orphaned_at # None => marked(r).orphaned_at # None
    BY <2>1, MarkedRow, NoneAssumption DEF OrphanRowsInv, RowsInv
  <2> HIDE DEF marked
  <2> SUFFICES ASSUME NEW h \in Workers, workers'[h] = "offline", h \notin lost',
                      ~Searching(h)'
               PROVE  AccountedFor(h)'
    BY <2>1 DEF AccountInv
  <2>3. AccountedFor(h)
    BY <1>0, <2>1 DEF AccountInv, Searching
  <2> SUFFICES ASSUME NEW q \in UnfinishedRowsOn(h)', q.id <= declaredId'[h]
               PROVE  q.orphaned_at # None \/ AboutToMark(q.task, h)'
    BY DEF AccountedFor
  <2>4. PICK r \in rows : q = marked(r)
    BY <2>1 DEF UnfinishedRowsOn
  <2>5. r \in UnfinishedRowsOn(h)
    <3>1. ASSUME NEW s \in RowsOf(r.task), s.host = h PROVE s.ts <= r.ts
      <4>1. PICK m \in rows' : m = marked(s)
        BY <2>1, <3>1 DEF RowsOf
      <4>2. m \in RowsOf(q.task)' /\ m.host = h
        BY <2>2, <2>4, <3>1, <4>1 DEF RowsOf, SameEvent
      <4>3. m.ts <= q.ts
        BY <4>2 DEF UnfinishedRowsOn
      <4> QED BY <2>2, <2>4, <4>1, <4>3 DEF SameEvent, RowsOf
    <3>2. r.host = h /\ r.type \in NonTerminalEventTypes
      BY <2>2, <2>4 DEF UnfinishedRowsOn, SameEvent
    <3> QED BY <3>1, <3>2 DEF UnfinishedRowsOn
  <2>6. r.orphaned_at # None \/ AboutToMark(r.task, h)
    BY <2>1, <2>2, <2>3, <2>4, <2>5 DEF AccountedFor, SameEvent
  <2>7. CASE AboutToMark(r.task, h) /\ r.task \notin job[th].found
    <3>1. PICK x \in Threads : job[x].pc = "mark" /\ job[x].host = h /\ r.task \in job[x].found
      BY <2>7 DEF AboutToMark
    <3>2. job'[x] = job[x]
      BY <1>0, <2>1, <2>7, <3>1
    <3>3. q.task = r.task
      BY <2>2, <2>4 DEF SameEvent
    <3> QED BY <3>1, <3>2, <3>3 DEF AboutToMark
  <2> QED BY <2>2, <2>4, <2>6, <2>7
<1>4. ASSUME NEW th \in Threads, Find(th) PROVE AccountInv'
  <2>1. /\ UNCHANGED <<rows, lastId, workers, lost, declaredId>>
        /\ job[th].pc = "find"
        /\ \A x \in Threads : x # th => job'[x] = job[x]
        /\ IF FoundOn(job[th].host) = {} THEN job'[th] = Idle
             ELSE job'[th] = [job[th] EXCEPT !.pc = "mark", !.found = FoundOn(job[th].host)]
    BY <1>0, <1>4 DEF Find, storeVars, workerVars
  <2>2. job[th] \in Job
    BY <1>0
  <2> SUFFICES ASSUME NEW h \in Workers, workers'[h] = "offline", h \notin lost',
                      ~Searching(h)'
               PROVE  AccountedFor(h)'
    BY <2>1 DEF AccountInv
  <2>3. UnfinishedRowsOn(h)' = UnfinishedRowsOn(h)
    BY <2>1 DEF UnfinishedRowsOn, RowsOf
  <2>4. CASE h = job[th].host
    <3>1. ASSUME NEW r \in UnfinishedRowsOn(h), r.orphaned_at = None
          PROVE  AboutToMark(r.task, h)'
      <4>1. r.task \in FoundOn(job[th].host)
        BY <2>4, <3>1, SearchFinds
      <4>2. job'[th].pc = "mark" /\ job'[th].host = h /\ r.task \in job'[th].found
        BY <2>1, <2>2, <2>4, <4>1 DEF Job
      <4> QED BY <4>2 DEF AboutToMark
    <3> QED BY <2>3, <3>1 DEF AccountedFor
  <2>5. CASE h # job[th].host
    <3>1. AccountedFor(h)
      BY <2>1, <2>5 DEF AccountInv, Searching
    <3>2. \A t : AboutToMark(t, h) => AboutToMark(t, h)'
      BY <2>1 DEF AboutToMark
    <3> QED BY <2>1, <2>3, <3>1, <3>2 DEF AccountedFor
  <2> QED BY <2>4, <2>5
<1>5. ASSUME NEW th \in Threads, MarkFails(th) PROVE AccountInv'
  <2>1. /\ UNCHANGED <<rows, lastId, workers, declaredId>>
        /\ lost' = lost \cup {job[th].host}
        /\ \A x \in Threads : x # th => job'[x] = job[x]
    BY <1>0, <1>5 DEF MarkFails, storeVars, workerVars
  <2> SUFFICES ASSUME NEW h \in Workers, workers'[h] = "offline", h \notin lost',
                      ~Searching(h)'
               PROVE  AccountedFor(h)'
    BY <2>1 DEF AccountInv
  <2>2. h # job[th].host /\ h \notin lost
    BY <2>1
  <2>3. AccountedFor(h)
    BY <2>1, <2>2 DEF AccountInv, Searching
  <2>4. \A t : AboutToMark(t, h) => AboutToMark(t, h)'
    BY <2>1, <2>2 DEF AboutToMark
  <2> QED BY <2>1, <2>3, <2>4 DEF AccountedFor, UnfinishedRowsOn, RowsOf
\* Both ways of setting a worker offline begin a search.
<1>6. ASSUME NEW th \in Threads, NEW g \in Workers, NEW at,
             job[th].pc = "idle", job' = [job EXCEPT ![th] = Marking(g, at)],
             SetOffline(g), UNCHANGED storeVars
      PROVE  AccountInv'
  <2>1. /\ UNCHANGED <<rows, lastId>>
        /\ \A x \in Threads : x # th => job'[x] = job[x]
        /\ job'[th].pc = "find" /\ job'[th].host = g
        /\ declaredId' = [declaredId EXCEPT ![g] = lastId]
        /\ \A h \in Workers : h # g => workers'[h] = workers[h] /\ (h \in lost' <=> h \in lost)
    BY <1>0, <1>6 DEF SetOffline, Marking, storeVars
  <2>2. \A h \in Workers : declaredId'[h] <= lastId'
    BY <1>0, <2>1 DEF AccountInv
  <2> SUFFICES ASSUME NEW h \in Workers, workers'[h] = "offline", h \notin lost',
                      ~Searching(h)'
               PROVE  AccountedFor(h)'
    BY <2>2 DEF AccountInv
  <2>3. h # g
    BY <2>1 DEF Searching
  <2>4. AccountedFor(h)
    BY <1>6, <2>1, <2>3 DEF AccountInv, Searching
  <2>5. \A t : AboutToMark(t, h) => AboutToMark(t, h)'
    BY <1>6, <2>1 DEF AboutToMark
  <2>6. declaredId'[h] = declaredId[h]
    BY <1>0, <2>1, <2>3
  <2> QED BY <2>1, <2>4, <2>5, <2>6 DEF AccountedFor, UnfinishedRowsOn, RowsOf
<1>7. ASSUME NEW h \in Workers, WorkerOffline(h) PROVE AccountInv'
  BY <1>6, <1>7 DEF WorkerOffline, MonitorIdle, Threads
<1>8. ASSUME Declare PROVE AccountInv'
  <2>1. scan.host \in Workers /\ job["health"].pc = "idle"
    BY <1>8 DEF Declare, OrphanRowsInv, ThreadsInv, ScanOK
  <2> QED BY <1>6, <1>8, <2>1 DEF Declare, Threads
<1>9. ASSUME NEW h \in Workers, Heartbeat(h) PROVE AccountInv'
  BY <1>0, <1>1, <1>9 DEF Heartbeat, BeatStatus, storeVars
<1>10. ASSUME NEW h \in Workers, Visit(h) \/ GoStale(h) \/ Crash(h) \/ Return(h)
       PROVE  AccountInv'
  BY <1>1, <1>10 DEF Visit, GoStale, Crash, Return, storeVars
<1>11. ASSUME BeginScan \/ ReadStatus \/ EndScan \/ Tick PROVE AccountInv'
  BY <1>1, <1>11 DEF BeginScan, ReadStatus, EndScan, Tick, storeVars
<1>12. ASSUME NEW th \in Threads, Tell(th) \/ TellFails(th) PROVE AccountInv'
  BY <1>0, <1>1, <1>12 DEF Tell, TellFails, storeVars, workerVars
<1>13. ASSUME Restart PROVE AccountInv'
  <2>1. \A h \in Workers : workers'[h] # "offline"
    BY <1>13 DEF Restart
  <2>2. lastId' = lastId /\ declaredId' = declaredId
    BY <1>13 DEF Restart, storeVars
  <2> QED BY <2>1, <2>2 DEF AccountInv
<1>14. CASE UNCHANGED orphanVars
  BY <1>1, <1>14 DEF orphanVars
<1> QED BY <1>2, <1>3, <1>4, <1>5, <1>7, <1>8, <1>9, <1>10, <1>11, <1>12, <1>13, <1>14
        DEF OrphanNext

\* A worker shown offline has no unfinished task left that is not an orphan.
THEOREM OfflineWorkersAreAccountedFor == OrphanSpec => []OfflineIsAccountedFor
<1>1. OrphanInit => AccountInv
  BY DEF OrphanInit, Init, AccountInv, Searching
<1>2. AccountInv => OfflineIsAccountedFor
  BY DEF AccountInv, OfflineIsAccountedFor, BeingMarked, Searching, AccountedFor, AboutToMark
<1> QED BY <1>1, <1>2, OrphanRowsStart, OrphanRowsStep, AccountStep, PTL
        DEF OrphanSpec, OrphanSafetySpec
=============================================================================
