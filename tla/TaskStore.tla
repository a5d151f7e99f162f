----------------------------- MODULE TaskStore ------------------------------
(***************************************************************************)
(* The persisted record of Celery task events: the append-mostly table     *)
(* task_events, the one-row-per-task table task_latest that the dashboard  *)
(* reads, and the table task_resolutions (src/agent/database.py), with     *)
(* every operation that writes them: TaskService.save_task_event,          *)
(* OrphanDetectionService.find_and_mark_orphaned_tasks, TaskService        *)
(* .set_task_resolution and .clear_task_resolution, and the task families  *)
(* of RetentionService.cleanup.  Each is one database transaction, so each *)
(* is one action; which tasks are marked, and when, is OrphanDetection.tla. *)
(*                                                                         *)
(* Only one thread (the Celery monitor) saves events.  The timestamp of a  *)
(* row is the wall clock at arrival, never the event's own, and may repeat *)
(* (MySQL DATETIME keeps seconds) or step back, so it is any value here.   *)
(***************************************************************************)
EXTENDS Integers, FiniteSets

CONSTANTS
    Tasks,          \* Celery task ids
    Hosts,          \* worker hostnames
    Arrivals,       \* task events as Celery delivers them, see Arrival
    Times,          \* wall-clock readings
    Payloads,       \* non-empty args (kwargs are handled the same way)
    Names,          \* queue names and routing keys other than "default"
    None,           \* Python's None, SQL's NULL, a missing row
    Dialect,        \* "sqlite", "postgresql", "mysql" or another one
    MaxId           \* bound of the model: largest id of task_events

\* The Celery event types monitor.py subscribes to (constants.py EventType).
NonTerminalEventTypes == {"task-sent", "task-received", "task-started"}
CompletedEventTypes   == {"task-succeeded", "task-failed", "task-revoked"}
TaskEventTypes == NonTerminalEventTypes \cup CompletedEventTypes \cup {"task-retried"}

Queues      == Names \cup {"default", None}
RoutingKeys == Names \cup {"default"}
MaybeArgs   == Payloads \cup {None}
MaybeTime   == Times \cup {None}

\* A task event off the wire: from_celery_event fills in routing_key.
Arrival == [type : TaskEventTypes, host : Hosts, args : MaybeArgs,
            queue : Queues, routing_key : RoutingKeys]

\* task_events.  A row is an orphan (is_orphan) exactly when it has an
\* orphaned_at: the code always writes the two columns together.
EventRow == [id : Nat, task : Tasks, type : TaskEventTypes, ts : Times,
             host : Hosts, args : MaybeArgs, queue : Queues,
             routing_key : RoutingKeys, orphaned_at : MaybeTime]

\* task_latest.
Snapshot == [event_id : Nat, type : TaskEventTypes, ts : Times, host : Hosts,
             args : MaybeArgs, queue : Queues, routing_key : RoutingKeys,
             orphaned_at : MaybeTime, resolved : BOOLEAN]

ASSUME TimesAssumption    == Times \subseteq Nat
ASSUME MaxIdAssumption    == MaxId \in Nat
ASSUME ArrivalsAssumption == Arrivals \subseteq Arrival
ASSUME NoneAssumption     == /\ None \notin Times
                             /\ None \notin Payloads
                             /\ None \notin Snapshot
                             /\ None \notin [key : Tasks, number : Nat,
                                             ts : Times, body : Arrival]

VARIABLES
    rows,           \* table task_events, a set of EventRow
    lastId,         \* the id given last
    latest,         \* table task_latest, [Tasks -> Snapshot or None]
    resolutions     \* table task_resolutions, the set of resolved tasks

storeVars == <<rows, lastId, latest, resolutions>>

Init == /\ rows = {}
        /\ lastId = 0
        /\ latest = [t \in Tasks |-> None]
        /\ resolutions = {}

-----------------------------------------------------------------------------
(* The order that decides which event of a task is its latest. *)
Newer(ts1, id1, ts2, id2) == ts1 > ts2 \/ (ts1 = ts2 /\ id1 > id2)

RowsOf(t) == {r \in rows : r.task = t}

NewestIn(S) == {r \in S : \A s \in S : ~Newer(s.ts, s.id, r.ts, r.id)}

(***************************************************************************)
(* Ids: SQLite gives a plain INTEGER PRIMARY KEY one more than the largest *)
(* id stored, so retention can make it reuse ids; a sequence never goes    *)
(* back.                                                                   *)
(***************************************************************************)
FreshIds ==
    IF Dialect = "sqlite"
      THEN {n \in 1..MaxId : /\ \A r \in rows : r.id < n
                             /\ n = 1 \/ \E r \in rows : r.id = n - 1}
      ELSE {lastId + 1} \cap (1..MaxId)

-----------------------------------------------------------------------------
(* SaveTaskEvent: what the new row inherits from the task's earlier rows. *)

Missing(name) == name \in {None, "default"}

RoutingRows(t) == {r \in RowsOf(t) : r.queue # None \/ r.routing_key # "default"}

\* The row routing is inherited from.
MutRoutingSource(t) ==
    {r \in RoutingRows(t) : \A s \in RoutingRows(t) : ~Newer(r.ts, r.id, s.ts, s.id)}

RoutingSource(t) == NewestIn(RoutingRows(t))

\* _inherit_queue_info: the routing the row of event e will carry.  A set
\* with one member, since Newer is a total order on the rows of a task.
InheritRouting(t, e) ==
    IF RoutingRows(t) = {} \/ ~(Missing(e.routing_key) \/ Missing(e.queue))
      THEN {[queue |-> e.queue, routing_key |-> e.routing_key]}
      ELSE {[queue |-> IF Missing(e.queue) /\ r.queue # None THEN r.queue ELSE e.queue,
             routing_key |-> IF Missing(e.routing_key) THEN r.routing_key ELSE e.routing_key] :
                r \in RoutingSource(t)}

\* _find_prior_argument_values: task-received rows first, then the oldest.
PriorTo(r, s) ==
    LET late(x) == IF x.type = "task-received" THEN 0 ELSE 1
    IN  \/ late(r) < late(s)
        \/ late(r) = late(s) /\ Newer(s.ts, s.id, r.ts, r.id)

MutPayloadRows(t) == {r \in NewestIn(RowsOf(t)) : r.args # None}

PayloadRows(t) == {r \in RowsOf(t) : r.args # None}

\* _parse_task_arguments: the args the row of event e will carry.
InheritArgs(t, e) ==
    IF e.args # None \/ PayloadRows(t) = {}
      THEN {e.args}
      ELSE {r.args : r \in {p \in PayloadRows(t) :
                              \A s \in PayloadRows(t) : s = p \/ PriorTo(p, s)}}

\* _create_task_event_db: a new row is never an orphan.
NewRow(id, t, e, ts, routing, args) ==
    [id |-> id, task |-> t, type |-> e.type, ts |-> ts, host |-> e.host,
     args |-> args, queue |-> routing.queue, routing_key |-> routing.routing_key,
     orphaned_at |-> None]

-----------------------------------------------------------------------------
(* SaveTaskEvent: _upsert_task_latest. *)

\* The values offered to task_latest; empty args are taken from the snapshot.
Offered(r) ==
    [event_id |-> r.id, type |-> r.type, ts |-> r.ts, host |-> r.host,
     args |-> IF r.args = None /\ latest[r.task] # None
                THEN latest[r.task].args ELSE r.args,
     queue |-> r.queue, routing_key |-> r.routing_key,
     orphaned_at |-> r.orphaned_at, resolved |-> FALSE]

MutWholeRowUpsert(new, old) == IF new.ts > old.ts THEN new ELSE old
MutBareResolvedUpsert(new, old) ==
    IF Newer(new.ts, new.event_id, old.ts, old.event_id)
      THEN new ELSE [old EXCEPT !.resolved = new.resolved]

\* ON CONFLICT ... DO UPDATE SET ... WHERE, and the generic fallback: the
\* whole row or nothing.
WholeRowUpsert(new, old) ==
    IF Newer(new.ts, new.event_id, old.ts, old.event_id) THEN new ELSE old

\* ON DUPLICATE KEY UPDATE: one CASE per column, in the table's column order,
\* and MySQL evaluates each against the columns already assigned.  event_id
\* comes first, then event_type, then timestamp, then all the others.
ColumnwiseUpsert(new, old) ==
    LET event_id == IF Newer(new.ts, new.event_id, old.ts, old.event_id)
                      THEN new.event_id ELSE old.event_id
        wins(ts)  == Newer(new.ts, new.event_id, ts, event_id)
        ts        == IF wins(old.ts) THEN new.ts ELSE old.ts
    IN  [IF wins(ts) THEN new ELSE old
           EXCEPT !.event_id = event_id,
                  !.type = IF wins(old.ts) THEN new.type ELSE old.type,
                  !.ts = ts]

Upsert(new, old) ==
    CASE old = None        -> new
      [] Dialect = "mysql" /\ old # None -> ColumnwiseUpsert(new, old)
      [] OTHER             -> WholeRowUpsert(new, old)

\* TaskService.save_task_event, called by EventHandler.handle_task_event.
SaveTaskEvent(t, e, ts) ==
    \E id \in FreshIds, routing \in InheritRouting(t, e), args \in InheritArgs(t, e) :
        LET row == NewRow(id, t, e, ts, routing, args)
        IN  /\ rows' = rows \cup {row}
            /\ lastId' = id
            /\ latest' = [latest EXCEPT ![t] = Upsert(Offered(row), latest[t])]
            /\ UNCHANGED resolutions

-----------------------------------------------------------------------------
(* Orphans. *)

\* _mark_tasks_as_orphaned: every row of the tasks, and only task_events.
MutMarkRow(r, T, at) ==
    IF r.task \in T /\ r.type \in NonTerminalEventTypes THEN [r EXCEPT !.orphaned_at = at] ELSE r

MarkRow(r, T, at) == IF r.task \in T THEN [r EXCEPT !.orphaned_at = at] ELSE r

Marked(T, at) == {MarkRow(r, T, at) : r \in rows}

\* The transaction of find_and_mark_orphaned_tasks that marks the tasks T its
\* query found; OrphanDetection says which tasks those are.
MarkOrphans(T, at) ==
    /\ rows' = Marked(T, at)
    /\ UNCHANGED <<lastId, latest, resolutions>>

-----------------------------------------------------------------------------
(* Manual resolution, and retention. *)

MutBareSnapshot(t, resolved) == [latest EXCEPT ![t] = [resolved |-> resolved]]

MutNeverUnresolved(t, resolved) ==
    IF latest[t] = None \/ ~resolved THEN latest ELSE [latest EXCEPT ![t].resolved = TRUE]

\* _update_task_latest_resolution: only if the task has a snapshot.
ResolutionOfLatest(t, resolved) ==
    IF latest[t] = None THEN latest ELSE [latest EXCEPT ![t].resolved = resolved]

\* TaskService.set_task_resolution.  The route has checked, in a read of its own,
\* that the task has events; retention may have removed them since.
SetResolution(t) ==
    /\ resolutions' = resolutions \cup {t}
    /\ latest' = ResolutionOfLatest(t, TRUE)
    /\ UNCHANGED <<rows, lastId>>

\* TaskService.clear_task_resolution.
ClearResolution(t) ==
    /\ resolutions' = resolutions \ {t}
    /\ latest' = ResolutionOfLatest(t, FALSE)
    /\ UNCHANGED <<rows, lastId>>

\* _successful_task_filter, on the snapshot.
Successful(s) == s.type = "task-succeeded" /\ s.orphaned_at = None

\* The cutoff that applies to a task with snapshot s.
CutoffOf(s, successfulCutoff, unsuccessfulCutoff) ==
    IF Successful(s) THEN successfulCutoff ELSE unsuccessfulCutoff

MutCleanup(successfulCutoff, unsuccessfulCutoff) ==
    /\ rows' = {r \in rows : r.ts >= unsuccessfulCutoff}
    /\ latest' = [t \in Tasks |->
                    IF latest[t] # None /\ latest[t].ts < unsuccessfulCutoff
                      THEN None ELSE latest[t]]
    /\ UNCHANGED <<lastId, resolutions>>

\* RetentionService.cleanup, targets task_events_* and task_latest_*: of the
\* tasks whose snapshot is older than their cutoff, the events older than it,
\* then the snapshots.  Resolutions are never cleaned up.
Cleanup(successfulCutoff, unsuccessfulCutoff) ==
    LET cutoff(t) == CutoffOf(latest[t], successfulCutoff, unsuccessfulCutoff)
        expired   == {t \in Tasks : latest[t] # None /\ latest[t].ts < cutoff(t)}
    IN  /\ rows' = {r \in rows : r.task \notin expired \/ r.ts >= cutoff(r.task)}
        /\ latest' = [t \in Tasks |-> IF t \in expired THEN None ELSE latest[t]]
        /\ UNCHANGED <<lastId, resolutions>>

-----------------------------------------------------------------------------
Next ==
    \/ \E t \in Tasks, e \in Arrivals, ts \in Times : SaveTaskEvent(t, e, ts)
    \/ \E T \in SUBSET Tasks, at \in Times : MarkOrphans(T, at)
    \/ \E t \in Tasks : SetResolution(t) \/ ClearResolution(t)
    \/ \E c \in Times, d \in Times : Cleanup(c, d)

Spec == Init /\ [][Next]_storeVars

-----------------------------------------------------------------------------
(* Properties. *)

\* Every table holds rows of its schema.
TypeOK ==
    /\ rows \subseteq EventRow
    /\ lastId \in Nat
    /\ latest \in [Tasks -> Snapshot \cup {None}]
    /\ resolutions \subseteq Tasks

\* Snapshot s shows what row r recorded when it was saved.
Mirrors(s, r) ==
    /\ s.event_id = r.id
    /\ s.type = r.type
    /\ s.ts = r.ts
    /\ s.host = r.host
    /\ s.args = r.args
    /\ s.queue = r.queue
    /\ s.routing_key = r.routing_key

\* task_latest has a row for exactly the tasks that have events, and it shows,
\* in every column, ONE event: the newest by timestamp and id.  This must
\* survive clocks that repeat or step back, retention that drops part of the
\* history, and ids that SQLite hands out again (_upsert_task_latest against
\* RetentionService.cleanup).
SnapshotMirrorsNewest ==
    \A t \in Tasks :
        \/ latest[t] = None /\ RowsOf(t) = {}
        \/ /\ latest[t] # None
           /\ \E r \in NewestIn(RowsOf(t)) : Mirrors(latest[t], r)

\* Call arguments seen once are never lost: every later row of the task has
\* arguments, whatever Celery left out of the later events, so a rerun of the
\* task can be offered its inputs (_parse_task_arguments).
PayloadKept ==
    \A r, s \in rows :
        r.task = s.task /\ r.id < s.id /\ r.args # None => s.args # None

\* As long as the clock does not step back within a task, a queue or routing
\* key learnt from one event stays known in every later row, and so in the
\* snapshot (_inherit_queue_info: "keep the most recent meaningful routing
\* metadata already seen for that task").
RoutingKept ==
    \A r, s \in rows :
        (/\ r.task = s.task
         /\ r.id < s.id
         /\ \A p, q \in RowsOf(r.task) : p.id < q.id /\ q.id <= s.id => p.ts <= q.ts)
        => /\ ~Missing(r.queue) => ~Missing(s.queue)
           /\ ~Missing(r.routing_key) => ~Missing(s.routing_key)

\* A snapshot shows a task as resolved only while the resolution is on record:
\* clearing, re-arrival of the task after retention and new events never leave
\* a stale mark (set_task_resolution, clear_task_resolution).
ResolvedIsBacked ==
    \A t \in Tasks : latest[t] # None /\ latest[t].resolved => t \in resolutions

\* The snapshot of t lacks the mark of a resolution that is on record.
OutOfSync(t) == t \in resolutions /\ latest[t] # None /\ ~latest[t].resolved

\* "Keep resolution fields in the task_latest snapshot in sync."
\* (_update_task_latest_resolution): the two part in one way only, which is by an event
\* of the task that is not older than the snapshot, whose upsert clears the mark.  A late
\* event, marks, retention and requests on any task leave them as they agree.
InSyncUntilNewerEvent ==
    [][\A t \in Tasks :
         OutOfSync(t)' /\ ~OutOfSync(t) =>
            \E r \in rows' \ rows : /\ r.task = t
                                   /\ latest[t] # None => r.ts >= latest[t].ts]_storeVars

-----------------------------------------------------------------------------
(* task_events and task_latest implement a log and its latest view. *)

BodyOf(r) == [type |-> r.type, host |-> r.host, args |-> r.args,
              queue |-> r.queue, routing_key |-> r.routing_key]

ObservationOf(t, number, r) ==
    [key |-> t, number |-> number, ts |-> r.ts, body |-> BodyOf(r)]

ViewOf(t) ==
    IF latest[t] = None THEN None ELSE ObservationOf(t, latest[t].event_id, latest[t])

LV == INSTANCE LatestView WITH
        Keys   <- Tasks,
        Bodies <- Arrival,
        Absent <- None,
        log    <- {ObservationOf(r.task, r.id, r) : r \in rows},
        view   <- [t \in Tasks |-> ViewOf(t)]

\* Saving, marking, resolving and cleaning up are each a step of LatestView or
\* leave it alone: in particular orphan marks and resolutions never disturb
\* what the view shows, and retention removes a task from both or neither.
ImplementsLatestView == LV!Spec
=============================================================================
