------------------------------ MODULE Retention ------------------------------
(***************************************************************************)
(* Retention: the cleanup (src/agent/services/retention_service.py), its   *)
(* two callers, the scheduler thread                                       *)
(* (src/agent/services/retention_scheduler_service.py) and the request     *)
(* POST /api/config/retention/cleanup, and the settings they read and      *)
(* write (src/agent/services/app_config_service.py).                       *)
(*                                                                         *)
(* A cleanup is one transaction of a DELETE for each target.  A statement  *)
(* sees what is committed when it runs, and its deletions are committed    *)
(* with the last; meanwhile events and actions of other sessions are       *)
(* committed (on SQLite only before the first DELETE, which is a part of   *)
(* the behaviours here).                                                   *)
(***************************************************************************)
EXTENDS Naturals, FiniteSets, Sequences, FiniteSetsExt

CONSTANTS
    Tasks,      \* task ids
    Actions,    \* ids of task_actions
    None,       \* no task, no snapshot, nobody
    Values,     \* numbers that may be stored for days, out of bounds or not
    Default,    \* the default number of days
    MaxDays,    \* "max" of the settings; "min" is 1
    Slots,      \* times at which the schedule asks for a cleanup
    Window,     \* how long such a time is caught up with (the rest of the hour or day)
    MaxTime,    \* bound: the clock
    MaxRows     \* bound: the rows of task_events and task_actions

ASSUME SettingsAssumption ==
    /\ MaxDays \in Nat \ {0} /\ Default \in 1..MaxDays /\ Values \subseteq Nat
ASSUME TimeAssumption == MaxTime \in Nat /\ MaxRows \in Nat /\ Window \in Nat \ {0} /\ Slots \subseteq Nat

VARIABLES
    clock,
    latest,    \* task_latest: [at, good] by task
    events,    \* task_events: timestamps by task
    actions,   \* task_actions with the task_action_items: [at, items] by id
    lastRun,   \* data_retention.last_run: finished_at or started_at, whatever came of it
    lock,      \* _cleanup_lock: who holds it
    cleaners,  \* the scheduler thread and a request
    runs       \* history: the automatic cleanups of each slot that were committed

tableVars     == <<latest, events, actions>>
retentionVars == <<clock, latest, events, actions, lastRun, lock, cleaners, runs>>

-----------------------------------------------------------------------------
Time == 0..MaxTime
Keys == {"successful", "unsuccessful"}

\* What may be stored for a number of days: a value sent as of another type evades the
\* bounds.  What is no number counts as the default.
Stored == Values \cup {Default}

\* _get_bounded_number_setting: brought between the bounds when it is read.
Bounded(value) ==
    IF value = 0 THEN 1 ELSE IF value > MaxDays THEN MaxDays ELSE value

Snapshot == [at : Time, good : BOOLEAN]
Item     == [original : Tasks, rerun : Tasks \cup {None}]
Action   == [at : Time, items : SUBSET Item]

\* RETENTION_TARGETS.  Progress and steps of a task go the way of its events, and the
\* tables with nothing but a date are left out.
MutTargets ==
    << [table |-> "latest", good |-> TRUE], [table |-> "latest", good |-> FALSE],
       [table |-> "events", good |-> TRUE], [table |-> "events", good |-> FALSE],
       [table |-> "items", good |-> FALSE], [table |-> "actions", good |-> FALSE] >>
Targets ==
    << [table |-> "events", good |-> TRUE], [table |-> "events", good |-> FALSE],
       [table |-> "latest", good |-> TRUE], [table |-> "latest", good |-> FALSE],
       [table |-> "items", good |-> FALSE], [table |-> "actions", good |-> FALSE] >>

\* What a cleanup has deleted so far: times of rows, tasks, items and actions.
Deletions ==
    [events : [Tasks -> SUBSET Time], latest : SUBSET Tasks,
     items : [Actions -> SUBSET Item], actions : SUBSET Actions]
Nothing ==
    [events |-> [t \in Tasks |-> {}], latest |-> {},
     items |-> [a \in Actions |-> {}], actions |-> {}]

Callers == {"scheduler", "request"}

ASSUME NoneAssumption ==
    /\ None \notin Tasks /\ None \notin Callers /\ None \notin Time
    /\ None \notin Snapshot /\ None \notin Action

Cleaner ==
    [pc : {"idle", "due", "recorded", "cleaning", "cleaned", "failed"},
     slots : SUBSET Slots,                 \* history: the slots the run is for
     started : Time,                       \* when run_cleanup or cleanup began
     days : [Keys -> 1..MaxDays],          \* the policy the cleanup read
     target : 1..Len(Targets) + 1,         \* the next target
     gone : Deletions]
Idle == [pc |-> "idle", slots |-> {}, started |-> 0, days |-> [k \in Keys |-> 1], target |-> 1,
         gone |-> Nothing]

Init ==
    /\ clock = 0
    /\ latest = [t \in Tasks |-> None]
    /\ events = [t \in Tasks |-> {}]
    /\ actions = [a \in Actions |-> None]
    /\ lastRun = None
    /\ lock = None
    /\ cleaners = [c \in Callers |-> Idle]
    /\ runs = [s \in Slots |-> 0]

-----------------------------------------------------------------------------
(* The rest of the application.                                            *)

Rows == MapThenSumSet(LAMBDA t : Cardinality(events[t]), Tasks)
          + Cardinality({a \in Actions : actions[a] # None})

\* A snapshot that a cleanup has deleted cannot be written until it commits.
Locked(t) == \E c \in Callers : t \in cleaners[c].gone.latest

\* TaskService.save_task_event.
SaveEvent(t, good) ==
    /\ ~Locked(t) /\ Rows < MaxRows
    /\ latest' = [latest EXCEPT ![t] = [at |-> clock, good |-> good]]
    /\ events' = [events EXCEPT ![t] = @ \cup {clock}]
    /\ UNCHANGED <<clock, actions, lastRun, lock, cleaners, runs>>

\* A task action is committed with its items.
SaveAction(a, items) ==
    /\ Rows < MaxRows /\ actions[a] = None /\ items # {}
    /\ \A i \in items : latest[i.original] # None
    /\ actions' = [actions EXCEPT ![a] = [at |-> clock, items |-> items]]
    /\ UNCHANGED <<clock, latest, events, lastRun, lock, cleaners, runs>>

Tick ==
    /\ clock < MaxTime
    /\ clock' = clock + 1
    /\ UNCHANGED <<tableVars, lastRun, lock, cleaners, runs>>

-----------------------------------------------------------------------------
(* The cleanup.                                                            *)

\* The settings of days as they may be stored: anyone may have changed them since.
Policies == [Keys -> Stored]

\* The lock is taken or the cleanup refused; then the policy is read.
Acquire(c) ==
    /\ lock = None
    /\ lock' = c
    /\ \E policy \in Policies : cleaners' = [cleaners EXCEPT ![c] =
                      [@ EXCEPT !.pc = "cleaning", !.target = 1, !.gone = Nothing,
                         !.started = clock, !.days = [k \in Keys |-> Bounded(policy[k])]]]

\* A row is too old for a target of so many days.
Expired(at, q, days) == at + days < q.started

\* _successful_task_filter of a snapshot older than the cutoff.
ExpiredTasks(q, good) ==
    {t \in Tasks \ q.gone.latest :
       /\ latest[t] # None /\ latest[t].good = good
       /\ Expired(latest[t].at, q, q.days[IF good THEN "successful" ELSE "unsuccessful"])}

\* The rows of a history that _expired_task_family_cleanup deletes.
Old(rows, q, good) ==
    [t \in Tasks |->
       IF t \in ExpiredTasks(q, good)
         THEN {at \in rows[t] :
                 Expired(at, q, q.days[IF good THEN "successful" ELSE "unsuccessful"])}
         ELSE {}]
With(f, g) == [x \in DOMAIN f |-> f[x] \cup g[x]]

\* task_latest as the cleanup sees it.
Live(q) == {t \in Tasks : latest[t] # None} \ q.gone.latest

\* _orphaned_task_action_items_cleanup.
MutOrphanedItems(q, a) ==
    IF actions[a] # None /\ Expired(actions[a].at, q, q.days["unsuccessful"])
      THEN {i \in actions[a].items : i.original \notin Live(q)}
      ELSE {}
OrphanedItems(q, a) ==
    IF actions[a] # None /\ Expired(actions[a].at, q, q.days["unsuccessful"])
      THEN {i \in actions[a].items : i.original \notin Live(q) /\ i.rerun \notin Live(q)}
      ELSE {}

\* _empty_task_actions_cleanup.
EmptyActions(q) ==
    {a \in Actions : /\ actions[a] # None
                     /\ Expired(actions[a].at, q, q.days["unsuccessful"])
                     /\ actions[a].items \subseteq q.gone.items[a]}

\* The deletions after one more target.
AfterTarget(q, target) ==
    LET gone == q.gone
    IN  CASE target.table = "events" ->
               [gone EXCEPT !.events = With(@, Old(events, q, target.good))]
          [] target.table = "latest" ->
               [gone EXCEPT !.latest = @ \cup ExpiredTasks(q, target.good)]
          [] target.table = "items" ->
               [gone EXCEPT !.items = [a \in Actions |-> OrphanedItems(q, a)]]
          [] OTHER ->
               [gone EXCEPT !.actions = EmptyActions(q)]

\* One target of a cleanup.
Apply(c) ==
    LET q == cleaners[c]
    IN  /\ q.pc = "cleaning" /\ q.target <= Len(Targets)
        /\ cleaners' = [cleaners EXCEPT ![c].gone = AfterTarget(q, Targets[q.target]),
                                        ![c].target = q.target + 1]
        /\ UNCHANGED <<clock, tableVars, lastRun, lock, runs>>

\* The commit, and the release of the lock.
Commit(c) ==
    LET q == cleaners[c]  gone == q.gone
    IN  /\ q.pc = "cleaning" /\ q.target > Len(Targets)
        /\ latest' = [t \in Tasks |-> IF t \in gone.latest THEN None ELSE latest[t]]
        /\ events' = [t \in Tasks |-> events[t] \ gone.events[t]]
        /\ actions' = [a \in Actions |->
                         IF a \in gone.actions THEN None
                         ELSE IF actions[a] = None THEN None
                         ELSE [actions[a] EXCEPT !.items = @ \ gone.items[a]]]
        /\ lock' = None
        /\ cleaners' = [cleaners EXCEPT ![c] =
                          IF c = "scheduler" THEN [Idle EXCEPT !.pc = "cleaned"] ELSE Idle]
        /\ runs' = IF c = "scheduler"
                     THEN [s \in Slots |-> IF s \in q.slots THEN runs[s] + 1 ELSE runs[s]]
                     ELSE runs
        /\ UNCHANGED <<clock, lastRun>>

\* A statement fails, or it was a dry run: everything is rolled back.
Abort(c) ==
    /\ cleaners[c].pc = "cleaning"
    /\ lock' = None
    /\ cleaners' = [cleaners EXCEPT ![c] =
                      IF c = "scheduler" THEN [Idle EXCEPT !.pc = "failed"] ELSE Idle]
    /\ UNCHANGED <<clock, tableVars, lastRun, runs>>

-----------------------------------------------------------------------------
(* The callers.                                                            *)

\* POST /api/config/retention/cleanup; with the lock taken it answers 409.
Request ==
    /\ cleaners["request"].pc = "idle"
    /\ Acquire("request")
    /\ UNCHANGED <<clock, tableVars, lastRun, runs>>

\* is_due and _is_after_last_run: the times of the schedule that now is after, in the
\* same hour or day, while the last run, whatever came of it, is before.
\* The schedule is fixed, the clock goes forward only and nobody else writes the record of
\* the last run: the routes that change the settings (app_config_service.py) are left out.
DueSlots ==
    {s \in Slots : s <= clock /\ clock < s + Window /\ (lastRun # None => lastRun < s)}

SetLastRun == lastRun' = clock

\* run_once_if_due of an enabled schedule.
Poll ==
    /\ cleaners["scheduler"].pc = "idle"
    /\ DueSlots # {}
    /\ cleaners' = [cleaners EXCEPT !["scheduler"].pc = "due", !["scheduler"].slots = DueSlots]
    /\ UNCHANGED <<clock, tableVars, lastRun, lock, runs>>

\* run_cleanup: the run is recorded first, or that fails.
MutRecordStart ==
    /\ cleaners["scheduler"].pc = "due"
    /\ cleaners' = [cleaners EXCEPT !["scheduler"].pc = "recorded"]
    /\ UNCHANGED <<clock, tableVars, lastRun, lock, runs>>
RecordStart ==
    /\ cleaners["scheduler"].pc = "due"
    /\ \/ /\ SetLastRun
          /\ cleaners' = [cleaners EXCEPT !["scheduler"].pc = "recorded"]
       \/ /\ cleaners' = [cleaners EXCEPT !["scheduler"].pc = "failed"]
          /\ UNCHANGED lastRun
    /\ UNCHANGED <<clock, tableVars, lock, runs>>

\* RetentionService.cleanup is refused if the request's cleanup runs.
Begin ==
    /\ cleaners["scheduler"].pc = "recorded"
    /\ \/ Acquire("scheduler")
       \/ /\ lock # None
          /\ cleaners' = [cleaners EXCEPT !["scheduler"].pc = "failed"]
          /\ UNCHANGED lock
    /\ UNCHANGED <<clock, tableVars, lastRun, runs>>

\* The result is recorded, or that fails.
RecordSuccess ==
    /\ cleaners["scheduler"].pc = "cleaned"
    /\ \/ /\ SetLastRun
          /\ cleaners' = [cleaners EXCEPT !["scheduler"] = Idle]
       \/ /\ cleaners' = [cleaners EXCEPT !["scheduler"].pc = "failed"]
          /\ UNCHANGED lastRun
    /\ UNCHANGED <<clock, tableVars, lock, runs>>

\* So is the error; if that fails, too, _run_loop logs it.
RecordError ==
    /\ cleaners["scheduler"].pc = "failed"
    /\ cleaners' = [cleaners EXCEPT !["scheduler"] = Idle]
    /\ SetLastRun \/ UNCHANGED lastRun
    /\ UNCHANGED <<clock, tableVars, lock, runs>>

\* The process ends and starts again.
Restart ==
    /\ cleaners' = [c \in Callers |-> Idle]
    /\ lock' = None
    /\ UNCHANGED <<clock, tableVars, lastRun, runs>>

-----------------------------------------------------------------------------
Others ==
    \/ \E t \in Tasks, good \in BOOLEAN : SaveEvent(t, good)
    \/ \E a \in Actions, i \in Item : SaveAction(a, {i})
    \/ Tick

Next ==
    \/ Others
    \/ Request \/ Poll \/ RecordStart \/ Begin \/ RecordSuccess \/ RecordError \/ Restart
    \/ \E c \in Callers : Apply(c) \/ Commit(c) \/ Abort(c)

RetentionSpec == Init /\ [][Next]_retentionVars

-----------------------------------------------------------------------------
(* Properties.                                                             *)

\* The tables hold what their columns allow, and the lock is held by the one cleanup
\* that runs: an error does not leave it locked.
RetentionTypeOK ==
    /\ clock \in Time
    /\ latest \in [Tasks -> Snapshot \cup {None}]
    /\ events \in [Tasks -> SUBSET Time]
    /\ actions \in [Actions -> Action \cup {None}]
    /\ lastRun \in Time \cup {None}
    /\ lock \in Callers \cup {None}
    /\ cleaners \in [Callers -> Cleaner]
    /\ \A c \in Callers : cleaners[c].pc = "cleaning" <=> lock = c
    /\ runs \in [Slots -> Nat]

\* A task and its events go together: a task without a snapshot has no events left (no
\* cleanup would find them again), and one with a snapshot has the event it shows,
\* whichever events come between the statements of a cleanup.
TasksGoWhole ==
    \A t \in Tasks :
        IF latest[t] = None THEN events[t] = {} ELSE latest[t].at \in events[t]

\* A snapshot or an event goes only when it is older than the shortest period the
\* settings allow, and the history of an action is kept as long as a task of it is: an
\* item stays while its original or its rerun has a snapshot, if that is older than the
\* cleanup.
HistoryIsKept ==
    [][/\ \A t \in Tasks :
            /\ latest[t] # None /\ latest'[t] = None => latest[t].at + 1 < clock
            /\ \A at \in events[t] \ events'[t] : at + 1 < clock
       /\ \A a \in Actions : actions[a] # None =>
            \A i \in actions[a].items :
              (\E t \in {i.original, i.rerun} \cap Tasks :
                 /\ latest[t] # None /\ latest'[t] # None
                 /\ \A c \in Callers : cleaners[c].pc = "cleaning"
                                        => latest[t].at < cleaners[c].started)
                => actions'[a] # None /\ i \in actions'[a].items]_retentionVars

\* The scheduler commits at most one cleanup for each time of its schedule, whatever
\* fails or crashes on the way: the run is recorded before it begins.
\* That is for one schedule, as long as no request rewrites data_retention.last_run.
RunsOncePerSlot == \A s \in Slots : runs[s] <= 1
=============================================================================
