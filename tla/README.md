# Kanchi in TLA+

Kanchi watches a Celery installation: it records every task event, shows the
latest state of each task, notices dead workers and marks their tasks as
orphans, runs user-defined workflows on events, and lets a user retry or
resolve tasks. This directory models its backend (`src/agent`) in TLA+. The
modules are checked with TLC on small instances; what matters most is proved
with TLAPS for every instance.

`PROJECT.json` holds the machine-readable side: the components, the runs and
their properties, the source lines each definition stands for, a mutation of
the code each property detects, the hazards, the findings and the theorems.

## The system

One process runs FastAPI (one asyncio loop, request handlers in a thread pool)
and several threads: the *monitor* thread that receives Celery events one after
the other, the *health* thread that scans for silent workers, the retention
scheduler, and one short-lived thread per event that triggers workflows. They
share one database (SQLite, PostgreSQL or MySQL) through short sessions and a
few dictionaries in memory, without locks around either.

| Component | Source (`src/agent/`) | State | Operations | What makes it correct |
|---|---|---|---|---|
| Task event store | `services/task_service.py`, `database.py` | `task_events`, `task_latest`, `task_resolutions` | save event, mark orphans, resolve, clear, clean up | the snapshot is the newest event, in all its columns; arguments and routing once known stay known; a resolved mark has its record |
| Orphan detection, worker health | `services/orphan_detection_service.py`, `worker_health_monitor.py`, `event_handler.py`, `monitor.py` | dictionary of workers, orphan columns | heartbeat, offline, scan, mark, broadcast | a dead worker's tasks become orphans; marks cover whole histories; announcements agree with the database |
| Workflow engine | `services/workflow_engine.py`, `workflow_service.py`, `workflow_executor.py` | `workflows`, `workflow_executions` | evaluate, check limits, record, act, close, edit | limits and breaker; each running record has its runner; statistics do not invent executions |
| Retry relationships, retry action | `services/task_service.py`, `services/actions/`, `api/task_routes.py` | `retry_relationships`, marks on events | retry, link, count, send | what was sent is recorded; chain, total and marks name recorded retries only |
| Task actions | `services/task_action_service.py` | action and item rows | preflight, rerun, resolve | what was published is recorded, once, for the state that was reviewed |
| WebSocket fan-out | `connection_manager.py`, `api/websocket_routes.py` | connections, filters, queue | connect, subscribe, broadcast | a connected client gets the events that pass its filter, in order; what it may miss |
| Retention and its scheduler | `services/retention_service.py`, `retention_scheduler_service.py`, `app_config_service.py` | all tables, last-run record, a lock | clean up, run when due | related rows go together; each due time is served once |
| Event pipeline | `event_handler.py`, `services/task_registry_service.py`, `daily_stats_service.py`, `progress_service.py`, Airflow enrichment | two caches, counters, progress rows | handle task event, report progress | one failing step does not silently lose the others; names agree |
| Broker connection, metrics | `monitor.py`, `metrics.py` | connection, delay, gauges | connect, break, close, stop, receive | it comes back; gauges never show what is not there |
| Authentication, user sessions | `services/auth_service.py`, `session_service.py` | `users`, `user_sessions` | sign in, renew, use, sign out, configure | the tokens of a session are those of one answer; a revoked session stays revoked |
| Others | environments, action configurations, Airflow's own routes, queries, frontend | rows | create, read, update, delete | see `PROJECT.json` |

The pieces meet in three places. `EventHandler` passes each event from the
monitor to the store, the connection manager and the workflow engine. The
dictionary `CeleryEventMonitor.workers` is written by the monitor thread and by
the health thread. And every component reads tables another one writes: the
snapshot by the dashboard, orphan columns by retention, executions by the
breaker.

What is hard here: two threads that do the same marking; statements that read
in one commit and write in the next; clocks that repeat within a second or step
back, since arrival time orders the events of a task; ids that SQLite reuses;
three dialects of one upsert; failures between two steps that nobody retries;
restarts that forget what was in memory. The hazards of `PROJECT.json` name
each at its line.

## Modules

| Module | Stands for |
|---|---|
| `LatestView` | the abstract specification of `task_latest`: a log, and a view showing the newest observation of each key |
| `TaskStore` | the three tables of tasks and every operation that writes them, each one transaction and one action; implements `LatestView` |
| `OrphanDetection` | extends `TaskStore` with the monitor and health threads; composes with it by using its actions |
| `WorkflowEngine` | evaluation threads over the workflow tables |
| `ConnectionManager` | the WebSocket clients, their handlers, the queue and the broadcaster |
| `TaskActions` | bulk rerun (reviewed or not), resolve and unresolve, against the broker, the event thread and retention |
| `RetryChain` | the retry action, the retry request and the relationship rows both write |
| `Retention` | a cleanup statement by statement, its two callers, the schedule and the settings |
| `Monitor` | the loop around the broker connection, and the gauges that events move |
| `EventPipeline` | `handle_task_event` commit by commit, and progress reports |
| `UserSessions` | requests that read a session, decide, and commit later |
| `MC...` | small instances of these for TLC |
| `...Proofs` | the theorems about the module of that name; those of `OrphanDetection` are in `TaskStoreProofs`, those of `ConnectionManager` and `Monitor` in `ConnectionProofs` |

Operators named `Mut...` are the definitions as a plausible bug would have
them. No behaviour of a module uses them: they stand beside the definition they
would replace, so that each property can be seen to fail without it.

Where a component is its own module, what it needs of another is a plain action
of its own (`Observe` and `Forget` of `TaskActions`, `SaveEvent` of
`Retention`): the module about that other one says in detail what happens there.

### TaskStore

`rows` is `task_events`, a set of records keyed by `id`; `latest` is
`task_latest`; `resolutions` is `task_resolutions`.

- `SaveTaskEvent` is `save_task_event` whole: routing inherited from the newest
  row that has any (`InheritRouting`), arguments recovered from earlier rows
  (`InheritArgs`), the row, and the upsert of the snapshot. `Upsert` chooses
  by dialect: PostgreSQL, SQLite and the generic fallback replace the whole row
  or nothing (`WholeRowUpsert`); MySQL assigns column by column, in the table's
  order, and each assignment sees those before it (`ColumnwiseUpsert`).
- `MarkOrphans(T, at)` is the UPDATE of all rows of the tasks `T`.
- `SetResolution`, `ClearResolution` write both the resolution and the
  snapshot's copy of it. An event has no such copy to offer, so the upsert of a newer
  one clears the snapshot's (`Offered`, finding 5). The transaction is atomic to others: an UPDATE that
  finds its row gone raises and is rolled back, and an unchanged column is not
  written.
- `Cleanup` is retention of the two task families: events first, then
  snapshots, as one step. That is exact where no other session commits between the
  statements (SQLite); `Retention` takes them apart (finding 30).
- Ids are the database's: SQLite hands out the largest id stored plus one, the
  others never go back. Time is any value of `Times` for each event, since the
  timestamp is the wall clock at arrival.
- Payloads, names and hosts are model values. `kwargs` are treated like `args`;
  columns that are copied and never read back by the store are left out.

### OrphanDetection

`workers` is the dictionary. A worker's timestamp is abstracted to membership in
`fresh`: `GoStale` is the passing of 30 s without an event. `job[th]` is where a
thread is in `find_and_mark_orphaned_tasks`: the SELECT (`Find`), the UPDATE and
commit (`Mark`), and the broadcast (`Tell`), each of which may fail
(`MarkFails`, `TellFails`). `scan` is the health thread inside
`_check_worker_health`: threshold and copy of the dictionary at the start, then
per host a read of the timestamp (`Visit`), one of the status (`ReadStatus`) and the
overwriting of the status (`Declare`). The copy is shallow, so both read what the
monitor thread has written since.
The monitor thread handles nothing else while it marks, its two seconds of
grace included, and `orphaned_at` is read before them. `FoundOn` is the query
as written: the greatest timestamp among the rows of that host, then all
unfinished rows of that task and timestamp, of whatever host. `told` is what was
handed to the connection manager.

`Restart` loses the dictionary and both threads, and keeps the database.
`lost`, `dropped` and `declaredId` are history variables: no action reads them.

### WorkflowEngine

`eval[th]` is one evaluation thread: its event, the workflows still to come, and
where it is with the current one. `Pick` (leave and conditions), `CheckBreaker`,
`Skip` or `Start` (a commit each), `Act` (the actions, then the SELECT of the
statistics), `WriteStats`, `Finish` are the statements between which other
threads run. `WriteFails` is a failed flush: the session refuses all work until
a rollback that nobody asks for, so the thread is done, and its execution stays
open. `Restart` ends all threads. A failing condition, cooldown or limit passes
the workflow over. Conditions are the set `accepts` of each workflow's
settings, actions succeed or fail. Statements see what others have committed
(SQLite, PostgreSQL READ COMMITTED); MySQL's REPEATABLE READ is not modelled.

### ConnectionManager

Everything here but `QueueEvent` runs in one event loop, so an action is what
happens between two awaits. `active`, `filters` and `modes` are the list and the
two dictionaries; `handler[c]` is the coroutine that serves a client, and `open`
the sockets not yet closed. `cast` is the broadcaster: `Take` gets an event off
the queue, `Send` and `SendFails` move the list iterator (`at`) past the clients
that do not want it to the next that does, and `Finish` unregisters those that
failed; a filter that cannot be applied fails like a send. `DropEvent` is an event that
cannot be written as JSON: the broadcaster logs it and goes on. As in Python the iterator is an index into a list that changes under it.
`Crash` is a handler that ends by any exception but `WebSocketDisconnect`, such
as a failing query: nothing unregisters its client. Clients are numbered as they
connect. `Without` is the list after a removal, the others in their order. A message whose answer fails is one step, since nothing is awaited between
its effect and the answer, and leaves nothing but the removal (`AnswerFails`); the check of `_queue_event` and the callback it schedules
are one, too: an event queued with nobody left is dropped by `Take`. Left
out: the handshake's authentication, what answers say, the replay of stored events
beyond its failure, and the stop at shutdown.

### TaskActions

A request has one session and one commit, at its end: `requests[r]` holds what
it has written so far (`items`, `rowWrite`, `flagWrite`), while `published`,
what the broker accepted, changes at once. `ReviewRerun` is the preflight, whose
answer the client keeps and sends back; `SubmitReview` compares it with a
preflight of its own (the fingerprint is a hash of the fields of `Review`) and
admits decisions by `Permitted`. Two refusals that depend on nothing here are left out:
no monitor, and a task of another environment. `CreateAction` is the unreviewed way. `OpenAction`
is the INSERT of the action; `SubmittedItem` and `RerunItem` send one task,
`LoadItem` and `DecideItem` are the two reads of a resolution, between which
others commit. A send may reach the broker, raise, or both (`Send`). `Commit`
applies what is pending and fails on a resolution that is there by now;
`RollBack` and `Restart` undo everything but what was published.

Arguments are what the checks tell apart. Kanchi does not see a task's arguments
but what Celery's event shows of them (`Captured`): a credential is redacted, a
long one cut short, one that cannot be parsed ends as an empty list, and of an
Airflow workload the identity stays. `NeedsInput` is the search for
placeholders. `SerialWriters` is SQLite's write lock, taken with the first
INSERT; without it other sessions commit between a request's statements. A new event clears the
snapshot's mark (`Observe`), as in the store. A free task id is one of `given` `"unsent"`; ids are drawn in order.
`menu` bounds which types of action meet in a behaviour.

### RetryChain

A handler is one run of the retry action or of `POST /tasks/{task_id}/retry`.
`Decide` reads the task and counts how deep it is in its chain (a count that
fails is taken as 0, and the request does not count); `ReadParent`,
`ReadEvents` and `Record` are `create_retry_relationship`: two reads, then a
flush and a commit that writes values computed from the reads (`CountedParent`,
`Marked`). `Commits` says when they go through. `Send` comes last, as in the
code. `SaveEvent` enriches a new event with the retries the chain lists and that
have events, and carries a root id only for the event types that have one.
`broker` is the broker's side: who sent a task, for which one, with which root.

The interleavings are those of PostgreSQL and MySQL; those of SQLite are among them.

### Retention

`Apply` is one DELETE of a cleanup. The six `Targets` keep the order of
`RETENTION_TARGETS`; `gone` is what the open transaction has deleted, which
its own later statements do not see (`Live`, `EmptyActions`) and others do until
`Commit`. A snapshot deleted but not committed is locked (`Locked`): the upsert
of a save waits for it. `started` is the time all cutoffs are counted from.
`Policies` are the settings as they may be stored, and `Bounded` what the
cleanup makes of them. The scheduler goes `Poll`, `RecordStart`, `Begin`,
`Commit` or `Abort`, `RecordSuccess` or `RecordError`, and each record may fail;
`Request` is the other caller. `DueSlots` is `is_due` and `_is_after_last_run`: a
time of the schedule counts as served by any last run after it, whatever came
of it. The schedule is fixed and the clock never steps back; the record of the last run
is the scheduler's own: the configuration routes, which could change the one and rewrite
the other, are left out. `slots` and `runs` are history variables.

### Monitor

`conn`, `delay` and `stop` are the loop of `start_monitoring`; the end of the
sleep is `ConnectBroker` or another error (`Breaks`). `known` is the state of Celery's
receiver, which learns a task's name from `task-sent` and `task-received`, keeps a
limited number of tasks (`Evict`) and begins anew with each connection. One worker takes tasks through their phases; each step emits an
event that is received (`RecordTaskEvent` moves the gauges) or lost. A
`Heartbeat` sets the active gauge to what the worker says, `Offline` sets all to
0. `missed` is history: the gauges an event has passed by.

### EventPipeline

`job` is the event the monitor's thread handles, with the next commit it is at.
`Identify` or `LeaveName` is the Airflow enrichment, which takes the identity
from the arguments (which `task-sent` and `task-received` bear, `Naming`), the bounded cache (`identity`, least recently used first) or
a stored event; `Register` the task registry with its process-wide cache; `Save`,
`Count` and `Announce` the store, the daily statistics, and broadcast and
workflows, which let no exception through. `Fail` ends the handling at any
commit, `Restart` at any point and clears both caches; the registry's is loaded
from the table with the first session, or stays empty if that fails. `Report` is
a progress report, one transaction, stamped by a worker whose clock may be any.
`shown` and `blind` are history variables.

What `save_task_event` does to the snapshot is in `TaskStore`, what the events do
to the gauges in `Monitor`, what becomes of a broadcast in `ConnectionManager`,
what workflows do in `WorkflowEngine`.

### UserSessions

A request reads its row and makes its checks (`Begin`), and commits later
(`Commit`): an ORM writes the columns that differ from those it read (`Written`),
so two requests on one row mix. An expiry has fractions of a second and is
always written by those that compute it (`Forced`); the expiry of a token in use
is a whole second and may or may not equal the stored one. A token is its user, the
second of its issue and whether it carries scopes; which scopes is left out. The two
tokens of an answer read the clock apart, so a renewal may make one of them again, in the
same second, and the other anew (`Issued`, `Reissues`). `Merged` is the
in-place update of preferences. `Fail` stands for every failed commit, two
INSERTs of one session among them, and `Remove` for retention. `ended`, `excused`,
`answer` and `reissued` are history variables.

## Runs

| Run | Instance | Shows |
|---|---|---|
| `events_store` | 2 tasks, 3 ids, 2 clock readings, SQLite | all properties of the store and its refinement of `LatestView` |
| `orphan_detection` | 1 task, a worker and a second host, 2 ids, 2 clock readings | all properties of orphan detection, and liveness |
| `workflow_engine` | 2 threads, 2 workflows, 3 executions, 2 hours, one edit, PostgreSQL | all properties of the engine |
| `workflow_cooldown` | the same, SQLite | **violated**: `CooldownEnds` |
| `connection_manager` | 3 clients, 2 events, 2 topics, one filter, one request | all properties of the fan-out, and that the queue drains |
| `task_actions` | 1 task of the application, 2 reruns, 2 requests, selections of 2, 2 events a task, SQLite | all properties of task actions |
| `retry_chain` | 1 task of the application, 3 retries, 2 handlers, a limit of 1, 2 events at a time | all properties of retries |
| `retry_chain_lost` | the same with a limit of 2 | **violated**: `ChainListsEveryRetry` |
| `retention` | 2 tasks, 1 action, 3 rows, days of 0 or 2, one time of the schedule, a clock of 3 readings | all properties of retention |
| `monitor` | 2 tasks, each retried once, delays from 1 to 3 | the gauges, and that the monitor comes back |
| `event_pipeline` | 2 tasks of Airflow with a cache of 1, 1 that reports progress, 3 events, 2 stamps | all properties of the pipeline |
| `user_sessions` | 1 user, 1 session, 2 requests at a time, 1 preference, lifetimes of 1 and 2, 3 seconds | all properties of sessions |

**Why the bounds are enough.** The store's properties relate at most three rows
of one task (a source of inheritance, a row that shadows it, the heir), and two
clock readings give equal, rising and falling timestamps; a second task shows
that tasks do not disturb each other and lets retention free an id that the
other one takes. Orphan detection needs two events of one task (a row of the
dead worker, and one that supersedes it on either host) and two clock readings
to tell two marks apart; the second host is one kanchi hears of only through
task events. The engine needs two threads for every race, two workflows for
the order of priorities and for a failure that spills over, and three
executions to exceed a limit of one by more than the threads could. The
fan-out needs three clients, one that leaves behind the iterator, one that is
passed over and one more to tell "one for each departure" from "one", and two
events for their order.

Task actions need one original and two free ids for a rerun of a rerun and for
two items of one action; every kind of captured argument is there but the
workload, which only blocks a rerun; two requests and the actions of single tasks
meet at every statement. Menus keep rerunning and resolving apart, as they share
no data but the snapshot's existence. Retries need two handlers on the same task
and a retry of a retry that is over the limit. A cleanup needs a task that is
expired beside one that is not, and an action whose original and rerun are the
two; with days of 0 (brought to 1) and 2 and a clock up to 2 a row is too young,
old enough for one category, or for both; one time of the schedule is enough for
"at most once", and the window outlasts the clock. Gauges need one task running
and one waiting. The pipeline needs two identities that do not fit the cache
together and three events, so that the third of a task comes after an eviction;
statistics need an event at work beside a stored one. Sessions
need two requests for every race, and a third second for a renewal between a sign-in
and another renewal; with lifetimes of 1 and 2 a token is valid, expired but renewable,
or neither. The user of a session plays no part in its two properties, so one is enough.

No bound appears in a theorem's assumptions beyond being a number: `MaxId`,
`MaxExecs`, `MaxEdits`, `MaxTime`, `MaxEvents`, `MaxRows`,
`MaxStamp`, `MaxClock` and the `MaxRetries` of `Monitor` have any natural value there.

`events_store`, `orphan_detection` and the engine's runs check for deadlock.
The others really come to rest: when all clients have gone, all ids are used
up, the clock or a counter is at its bound, or the monitor was stopped.
Symmetry is used for tasks, threads, requests, handlers and users where no
definition tells them apart, and never in a run with a liveness property.

### Properties

*Store.* `SnapshotMirrorsNewest`: a snapshot exists exactly for tasks with
events and equals, column by column, the newest. `PayloadKept`: arguments seen
once are in every later row. `RoutingKept`: with a clock that does not step
back within the task, a queue once known stays known (a clock that steps back
can let a literal `default` row shadow it). `ResolvedIsBacked`, and
`InSyncUntilNewerEvent`: a resolution and the snapshot's mark of it part only by a newer
event, which clears the mark (finding 5).
`ImplementsLatestView`: marks and resolutions never disturb the view, retention
removes a task from events and snapshot or from neither.

*Orphan detection.* `OrphanRowsArePrefix`: the marked rows of a task come before
all its others. `ToldIsStored` and `OrphansAreAnnounced`: broadcasts and
database agree, with the exact time, except for broadcasts an error or restart
dropped. `OfflineIsAccountedFor`: a worker shown offline, with no marking under
way or failed, has no unfinished task left from before it was declared.
`DeadWorkersTasksAreOrphaned` (liveness). Nothing is said of which tasks a search finds:
a task that has ended elsewhere is found, too (finding 4).

*Workflow engine.* `RateLimitExceededByThreadsOnly`,
`BreakerExceededByThreadsOnly`: the checks are not atomic with the records, and
the excess is at most the number of threads less one. `RunningIsOwned`: an
execution shown as running has exactly one thread, or its thread died.
`StatisticsNeverOvercount`: the race on the counters loses executions and never
invents any.

*Fan-out.* `ReceivedInOrder`: no client gets an event twice or late, however the
list shifts. `MissedForADepartureOnly`: a client is passed over only when one
behind the iterator left by itself, one for one; removals by the broadcaster
cost nobody an event. `RegistryFollowsHandlers`: nothing of a client outlasts an
orderly end of its handler. `QueueDrains` (liveness).

*Task actions.* `PublishedIsAccountedFor`: an action that commits names every
task it published with the inputs sent, even one whose send raised after all, and
names no other as created; what a rolled-back action published is on no record,
which the order of the code cannot avoid. `ReplayRepeatsOriginal`: what is
recorded as a replay ran with the arguments of its original, through reruns of
reruns and changes after the review, or with none. `CommittedActionsAreWhole`: an
item for each selected task, and a status that follows from them.
`MarksAreBacked`: no order of bulk and single requests, events and deletions leaves a
mark whose resolution is gone, on SQLite. `ResolutionsTakeEffect`: what the items of a
resolve or unresolve say of a task's resolution and mark holds when the action is
committed, though each item was decided by earlier reads.

*Retries.* `RetriedIsKnown`: chain, total and marks on events name recorded
retries only, and chain and total show that there is one whenever there is;
concurrent writes lose the number, not the fact. `SentIsRecorded`: nothing is
sent that is not on record before.

*Retention.* `TasksGoWhole`: no events without a snapshot, and no snapshot without
the event it shows. `HistoryIsKept`: a snapshot or an event goes only when it is older
than the shortest period, an action's item only when neither of its tasks is left.
`RunsOncePerSlot`: a time of the schedule gets at most one committed cleanup.

*Monitor.* `GaugesNeverOver`: a gauge no event has passed by shows at most what
the worker runs, or has reserved. `Reconnects` (liveness).

*Pipeline.* `NamesAgree`: every stored event is of a registered name, and a task
of Airflow that has shown its identity keeps it while lookups succeed.
`CountedBetween`: for every name and type, the statistics count at least what was
broadcast and at most what is stored. `ProgressIsNewest`.

*Sessions.* `TokensOfOneAnswer`: the two tokens of a session are both those of its last
answer, unless an answer repeated one of the row it had read (finding 29).
`SignedOutStaysOut`: a session signed out with both its tokens knows none until the next sign-in,
except through a renewal that had passed its checks before.

### Fairness

`OrphanSpec` assumes weak fairness of the health thread's steps, of each
thread's marking steps (a step or its failure), and of `GoStale` (time passes).
The code justifies it: both are plain loops that sleep for fixed times and
catch their exceptions, without locks they could wait for. Nothing is assumed
of heartbeats, workers, restarts or the database; the liveness property names
as outcomes what these may do instead. `LiveSpec` assumes weak fairness of the
broadcaster alone: the event loop resumes it, and a send ends because the server
(uvicorn) pings its clients and closes a socket that does not answer.
`MonitorSpec` assumes strong fairness of `ConnectBroker`: the loop always makes another
attempt, and the broker accepts one of infinitely many. The other specifications
need no fairness, as their properties are safety.

## Proofs

All theorems hold for any sets of tasks, hosts, workers, events, payloads,
handlers, requests and clock readings, any bound and, unless stated, any dialect.
They use the named assumptions on the constants and nothing else: that bounds and
times are naturals, that sets which are counted are finite, that `None` is none
of the values, that settings lie where the code keeps them (a retry limit from 1
to 100, a delay at most its maximum, a default within its bounds), that arrivals
are well-formed, and that worker hosts are hosts.

`TaskStoreProofs`
- `TypeCorrect`; the lemmas before it say what inheritance, upsert and marks
  return.
- `PayloadNeverLost`. `PayloadKept` speaks of ids as an order of arrival, and is
  inductive together with the fact that every fresh id exceeds all stored ones.
- `RoutingNeverLost`. `RoutingKept` alone is not inductive: retention may delete
  the row that shows the clock stepped back. `RoutingInv` says of every
  row whose routing a later one lacks that the clock stepped back among the rows no
  older than it, which deleting older rows does not change.
- `SnapshotAlwaysNewest` and `StoreImplementsLatestView`, for dialects other
  than MySQL, whose upsert tears the snapshot (finding 1). Needed besides the
  property itself: ids are unique, and a fresh id is greater than all stored ones on
  SQLite by the way it is chosen and on others because `lastId` bounds them.
- `ResolvedAlwaysBacked`, and `MarksFallToNewerEvents`: whatever the dialect merges, a
  mark is lost to a row that is not older (`UpsertUnmarks`).

`TaskStoreProofs`, second half (`OrphanDetection`)
- `OrphanTypeCorrect`. Every step is one of `TaskStore` or leaves its variables alone
  (`StoreStepOrStutter`), so the store's lemmas carry over.
- `OrphansArePrefix`: marks change all rows of a task, and a new row has the
  greatest id.
- `OnlyStoredOrphansAreTold`, `StoredOrphansAreTold`: the invariants say for each
  thread what a job between commit and broadcast still owes.
- `OfflineWorkersAreAccountedFor`: the strengthening relates a job that has
  found its tasks to the unfinished rows of its host up to `declaredId`. It is
  needed because the other thread may declare the same worker, mark, and end
  while this one stands between its SELECT and UPDATE.

`WorkflowEngineProofs`
- `EngineTypeCorrect`, and `RunningAlwaysOwned` from the fact that no two threads
  hold one execution and an abandoned one is held by none.
- `RateLimitNeverFarExceeded` and `BreakerNeverFarExceeded`. Neither bound is
  inductive: the invariant counts the executions of the window together with the
  threads that have leave for one more, and keeps the sum within the limit plus
  all threads but one. Leave is given only below the limit, and recording turns
  a thread's leave into an execution. Marks, the clock and the API only shrink
  both sides.
- `StatisticsNeverInvent`. A thread writes both counters from what it has
  read, so the two may come from different threads. `CountsFit` says that any
  success count known to one, stored or read, and any failure count known to
  another fit together into the executions that ended.

`RetryChainProofs`
- `RetryTypeCorrect`, `RetriedAlwaysKnown`, `SentAlwaysRecorded`, from one
  invariant. What a handler has read is older than what it overwrites, and harmless
  because retries are only ever added: `AtWork` says what each handler is sure of
  where it stands, `StillSo` that its reads name recorded retries only and will
  until it commits. No two handlers have one new task (`HandlersInv`), and only
  what was sent has events (`BrokerInv`).

`RetentionProofs`
- `RetentionTypeCorrect`, with the lock: at most one caller is in a cleanup.
- `TasksAlwaysWhole` and `HistoryAlwaysKept`. `CleanerOK` says of an open
  transaction, target by target, that a snapshot in `gone` was expired and leaves
  no event behind (`EventsGone`, `SnapshotsGone`), and that an action's items go
  with both their tasks (`HistoryGone`). It holds although others commit in
  between: they add younger rows only (`TimesInv`), and not to a locked task.
- `AlwaysOncePerSlot`: once a time was served, the last run is after it
  (`SlotsInv`), through every failing record and restart.

`EventPipelineProofs`
- `PipelineTypeCorrect`, `NamesAlwaysAgree`, `CountedAlwaysBetween`,
  `ProgressAlwaysNewest`. The conjuncts of the invariant say how far the event at
  work has come: there is room for its row (`RoomInv`), its name is registered
  from `Save` on (`RegistryInv`), it has the identity its task has shown
  (`IdentityInv`), and it is stored but not counted, or counted but not broadcast
  (`CountInv`), which leaves exactly one of slack on either side.

`UserSessionsProofs`
- `SessionsTypeCorrect`, `TokensAlwaysOfOneAnswer`, `SignedOutForGood`. A commit writes
  only what changed. An answer that repeats no token of the row read writes both; a
  sign-out writes both or neither, because the row read had both tokens or none
  (`RequestInv`), as answers have (`AnswerInv`). `OutInv` adds that no renewal is at work on a session that was signed out,
  unless it is excused.

`ConnectionProofs`, first half (`ConnectionManager`)
- `OrderTheorem`, `MissedTheorem`, `RegistryTheorem`, from `LiveInvariant`.
  `RegistryFollowsHandlers` is inductive once no client is listed twice
  (`ListedOnce`). Order needs that the queue and the event at work rise (`QueueInv`),
  and that nobody at or behind the iterator, towards the end of the list, was sent the
  event at work yet (`SentInv`): a removal moves clients only towards the front.
  `MissedForADepartureOnly` alone is not inductive, because a list that shrinks and
  grows again would bring places behind the iterator back: `Behind` counts those beyond
  the end of the list too (`BehindInv`). When a client behind the iterator leaves,
  those after it move one place towards the front, and `Behind` gains one at most. The lemmas about `Without`
  say that it keeps the order, and which place a client moves to.

`ConnectionProofs`, second half (`Monitor`)
- `MonitorTypeCorrect`, `GaugesAreNeverOver`. The strengthening `NamesKnown` says
  that while no event has passed the prefetch gauge by, the state of the connection
  knows the name of every task the worker holds; what `Forget` takes from it is counted
  as passed by (`ForgetKeeps`).

`TaskActionsProofs`
- `ActionTypesTheorem`, `PublishedTheorem`, `ReplayTheorem`, `WholeTheorem`, from
  `ActionInvariant`, for both kinds of database. All a request does is in its own record
  until the commit, so the invariant says of that record what the commit will make true
  of the tables. `PendingInv`: the items of a request under way name all it has
  published; the item of a task is written in the step that publishes it and never
  again, as it leaves `todo` then (`ItemsInv`). `SentInv`: an id drawn by a send was
  free and is taken for good, so no later send changes what a task ran with. `SeenInv`
  and `PlanInv` follow arguments from the call through the capture, the baseline and the
  plan; `CapturedReadable` is the reason why a capture without placeholders is the
  original or nothing, and `BaselineRepeats` carries it through reruns of reruns.
- `RecordSteps` sorts the actions by what they do to a record (it begins, is submitted,
  proceeds, gets an item, sends, or ends): each invariant is then preserved by six cases
  in place of twelve actions.
- `MarksTheorem` and `EffectTheorem`, under `SerialWriters`: the holder of the lock is the
  only one that writes, so what it has loaded is still so when it decides, and its pending
  rows and flags are what its items say of the tables (`EffectInv`). Only a commit commits
  an action (`CommitsByCommit`). Without the assumption `MarksAreBacked` is false: at READ COMMITTED
  a single resolution commits between the two reads (finding 28).

Only model-checked: the liveness properties `DeadWorkersTasksAreOrphaned`,
`QueueDrains` and `Reconnects` (liveness under fairness is beyond the prover). Every
other property of a passing run is a theorem.

## Findings

Findings 7 and 14 are the violated runs. Of the others many show in a property that is
weaker than what the code's documentation says, and holds.

1. On MySQL the snapshot is torn between two events (`task_service.py:874`).
2. Orphan marks never reach `task_latest` (`orphan_detection_service.py:64`).
3. An orphan's time can be overwritten by the other thread, and the orphan
   announced twice (`orphan_detection_service.py:64`).
4. A task redelivered and finished elsewhere is still declared an orphan
   (`orphan_detection_service.py:36`).
5. The next event of a resolved task clears `task_latest.resolved`; the resolution stays
   (`task_service.py:817`).
6. The circuit breaker admits one more execution per concurrent thread
   (`workflow_service.py:157`).
7. On SQLite and MySQL a cooldown never ends (`workflow_service.py:386`).
8. Skipped executions count as executions, so an open breaker stays open under
   a steady stream of events (`workflow_service.py:157`).
9. Status `rate_limited` is documented and never written (`database.py:735`).
10. Workflow statistics lose executions that end together (`workflow_service.py:475`).
11. The trigger `task.orphaned` is offered and never fires (`workflow_catalog.py:47`).
12. A client that leaves during a broadcast makes another one miss the event
    (`connection_manager.py:124`).
13. A client in static mode whose handler fails stays registered for ever
    (`websocket_routes.py:131`).
14. From the second retry of a task on, its chain lacks the new one: the JSON list is
    appended to in place (`task_service.py:425`).
15. The retry of a failed retry gets that one as its root, and a breaker on `root_id`
    a new key (`retry_action.py:111`).
16. When the send of a retry fails, its orphan is hidden all the same
    (`task_service.py:236`).
17. The reason `UNPARSEABLE_PAYLOAD` is unreachable: such a task is rerun without
    arguments (`task_action_service.py:622`).
18. The running average of runtimes weighs each runtime by one too many
    (`daily_stats_service.py:117`).
19. The prefetch gauge is decremented twice for each task (`metrics.py:96`).
20. The reconnect delay is reset by a clean close only (`monitor.py:253`).
21. Progress and steps written after the newest event of a task outlive its
    retention (`retention_service.py:143`).
22. A scheduled cleanup that is refused, or fails at once, skips its day
    (`retention_scheduler_service.py:86`).
23. A setting sent with another `value_type` evades its bounds
    (`app_config_service.py:257`).
24. Updates of preferences after the first are lost, changed in place
    (`session_service.py:97`).
25. A request that overlaps a renewal writes the old expiry back
    (`auth_service.py:78`).
26. On PostgreSQL two default environments can be created at once
    (`environment_service.py:69`).
27. Sessions keep the id of an environment that was deleted (`database.py:621`).
28. At READ COMMITTED a single resolution that commits between the two reads of a bulk
    unresolve leaves a snapshot that says resolved without a record of it
    (`task_action_service.py:309`): TLC finds `MarksAreBacked` violated in 8 states with
    `SerialWriters = FALSE`.
29. The two tokens of an answer read the clock apart. When one of them equals the row's own,
    of the same second, its column is not written, and a sign-out or renewal in between
    leaves one token of each answer, or one alone (`auth_service.py:228`): TLC finds
    `TokensOfOneAnswer` violated without its exception.
30. On PostgreSQL and MySQL an event saved between the DELETE of a task's events and
    that of its snapshot keeps the task, without its earlier events
    (`retention_service.py:143`): in `Retention`, TLC finds a task with a snapshot that
    loses events in 13 states. `TasksGoWhole` holds all the same, since the event that
    the snapshot shows is the new one.

## Plan

All modules that were planned are written and every safety property of a run is proved:
the store, orphan detection, workflow engine and fan-out first, then `RetryChain`,
`TaskActions`, `Retention`, `Monitor`, `EventPipeline` and `UserSessions`.

What is left, in this order:

1. A composition of `EventPipeline` with `TaskStore`, the row of the one being the row
   of the other; today they share the meaning of a save, not its text.
2. `Retention` as an implementation of `LatestView`'s removal, its statements mapped to
   the one step there, for one writer at a time (finding 30).
3. `WorkflowEngine` at MySQL's REPEATABLE READ.
4. The frontend's stores: reconnects of the WebSocket client, and the merge of pushed
   with fetched events.

## Not modelled

- *Environments and action configurations*: rows that are created, read, updated and
  deleted, without a protocol but for the default environment, whose one UPDATE is
  a finding.
- *Read queries*: filters, paging, enrichment of answers and reports change no state.
- *Database manager, migrations, demo data, deployment*: set-up. The schema as it
  stands is in the row types of the modules; that one process runs is taken from the
  deployment files.
- *Libraries*: hashing, signing, the OAuth exchange, HTTP, Slack and the broker are
  success or failure where a component depends on them.
- *Pure conversions*: redaction, parsing of captured arguments and of Airflow's
  workloads are modelled by the kinds of value the checks tell apart, not character by
  character.
- *Counters and histograms* of Prometheus only grow or need real time; steps of a task
  are replaced whole with each definition.
- *The frontend*: a later candidate (see the plan).
