------------------------------- MODULE Monitor -------------------------------
(***************************************************************************)
(* The monitor's broker connection (src/agent/monitor.py) and the gauges   *)
(* its events move (src/agent/metrics.py).                                 *)
(*                                                                         *)
(* One worker runs the tasks.  The monitor's thread takes one event at a   *)
(* time; what the worker emits while the connection is down is lost, and   *)
(* the state that knows the names of tasks begins anew with a connection.  *)
(* What the handlers store of an event is in EventPipeline.                *)
(***************************************************************************)
EXTENDS Naturals, FiniteSets

CONSTANTS
    Tasks,
    BaseDelay,   \* _RECONNECT_BASE_DELAY
    MaxDelay,    \* _RECONNECT_MAX_DELAY
    MaxRetries   \* bound: retries of a task by its worker

ASSUME DelayAssumption == BaseDelay \in Nat \ {0} /\ MaxDelay \in Nat /\ BaseDelay <= MaxDelay
ASSUME BoundAssumption == MaxRetries \in Nat
ASSUME TasksAssumption == IsFiniteSet(Tasks)

VARIABLES
    phase,       \* what the worker does with each task
    retries,     \* the retries of each task
    conn,        \* start_monitoring: "up", "sleeping" before the next attempt, "exited"
    delay,       \* seconds the next sleep after an error takes
    stop,        \* CeleryEventMonitor._stop
    known,       \* the tasks whose names the state of this connection holds
    activeCount, \* _active_counts of the worker
    prefetch,    \* _prefetched_counts of the worker by task name
    missed       \* history: the gauges an event has passed by, or reached under another name

worldVars   == <<phase, retries>>
loopVars    == <<conn, delay, stop>>
gaugeVars   == <<activeCount, prefetch, missed>>
monitorVars == <<worldVars, loopVars, known, gaugeVars>>

-----------------------------------------------------------------------------
\* What the worker tells of a task; task-sent comes from who publishes it (TaskSent).
Types == {"received", "started", "completed", "retried", "revoked"}
Phases == {"new", "received", "started", "ended"}

\* A task goes by the name of its function, or by none.
Names == {"named", "unknown"}
Gauges == {"active", "prefetch"}

MonitorInit ==
    /\ phase = [t \in Tasks |-> "new"] /\ retries = [t \in Tasks |-> 0]
    /\ conn = "sleeping" /\ delay = BaseDelay /\ stop = FALSE
    /\ known = {}
    /\ activeCount = 0 /\ prefetch = [n \in Names |-> 0] /\ missed = {}

Holding(state) == {t \in Tasks : phase[t] = state}
Held == Holding("received") \cup Holding("started")

-----------------------------------------------------------------------------
(* start_monitoring.                                                       *)

\* The state loses the names of some tasks: the next events of those the worker holds
\* reach the gauges under another name.
Forget(tasks) ==
    /\ known' = known \ tasks
    /\ missed' = IF known \cap tasks \cap Held = {} THEN missed ELSE missed \cup {"prefetch"}

\* It connects, with a fresh state, unless it was told to stop.
ConnectBroker ==
    /\ conn = "sleeping" /\ ~stop
    /\ conn' = "up" /\ Forget(known)
    /\ UNCHANGED <<worldVars, delay, stop, activeCount, prefetch>>

Doubled == IF 2 * delay > MaxDelay THEN MaxDelay ELSE 2 * delay

\* An attempt, or a connection in use, ends in an error: the delay doubles.
MutBreaks ==
    /\ conn \in {"sleeping", "up"} /\ ~stop
    /\ conn' = IF delay = MaxDelay THEN "exited" ELSE "sleeping"
    /\ delay' = Doubled
    /\ UNCHANGED <<worldVars, stop, known, gaugeVars>>
Breaks ==
    /\ conn \in {"sleeping", "up"} /\ ~stop
    /\ conn' = "sleeping" /\ delay' = Doubled
    /\ UNCHANGED <<worldVars, stop, known, gaugeVars>>

\* The broker closes the connection: the delay begins anew.
Closes ==
    /\ conn = "up" /\ ~stop
    /\ conn' = "sleeping" /\ delay' = BaseDelay
    /\ UNCHANGED <<worldVars, stop, known, gaugeVars>>

Stop ==
    /\ ~stop /\ stop' = TRUE
    /\ UNCHANGED <<worldVars, conn, delay, known, gaugeVars>>

\* The loop looks at _stop again when the connection, or the sleep, has ended.
Exit ==
    /\ stop /\ conn # "exited"
    /\ conn' = "exited"
    /\ UNCHANGED <<worldVars, delay, stop, known, gaugeVars>>

\* The process ends and starts again.
Restart ==
    /\ conn' = "sleeping" /\ delay' = BaseDelay /\ stop' = FALSE /\ known' = {}
    /\ activeCount' = 0 /\ prefetch' = [n \in Names |-> 0] /\ missed' = Gauges
    /\ UNCHANGED worldVars

-----------------------------------------------------------------------------
(* The gauges.                                                             *)

\* _update_active and _update_prefetch never go below 0.
Less(count) == IF count = 0 THEN 0 ELSE count - 1
MoreOf(name) == prefetch' = [prefetch EXCEPT ![name] = @ + 1]
LessOf(name) == prefetch' = [prefetch EXCEPT ![name] = Less(@)]

\* MetricsCollector.record_task_event.
MutRecordTaskEvent(type, name) ==
    CASE type = "received" -> MoreOf(name) /\ UNCHANGED activeCount
      [] type = "started"  -> LessOf(name) /\ activeCount' = activeCount + 1
      [] type = "retried"  -> UNCHANGED <<prefetch, activeCount>>
      [] OTHER             -> LessOf(name) /\ activeCount' = Less(activeCount)
RecordTaskEvent(type, name) ==
    CASE type = "received" -> MoreOf(name) /\ UNCHANGED activeCount
      [] type = "started"  -> LessOf(name) /\ activeCount' = activeCount + 1
      [] OTHER             -> LessOf(name) /\ activeCount' = Less(activeCount)

\* What the worker does with a task, and the event it emits.
Work(t, type) ==
    /\ phase[t] \in CASE type = "received" -> {"new"}
                      [] type = "started"  -> {"received"}
                      [] type = "revoked"  -> {"received", "started"}
                      [] OTHER             -> {"started"}
    /\ phase' = [phase EXCEPT ![t] = CASE type = "received" -> "received"
                                       [] type = "started"  -> "started"
                                       [] type = "retried"  -> "new"
                                       [] OTHER             -> "ended"]
    /\ type = "retried" => retries[t] < MaxRetries
    /\ retries' = IF type = "retried" THEN [retries EXCEPT ![t] = @ + 1] ELSE retries

\* _handle_task_event: of the worker's events task-received alone bears the name, which the
\* state knows afterwards.
NameOf(t, type) == IF type = "received" \/ t \in known THEN "named" ELSE "unknown"

Receive(t, type) ==
    /\ conn = "up"
    /\ Work(t, type)
    /\ known' = IF type = "received" THEN known \cup {t} ELSE known
    /\ RecordTaskEvent(type, NameOf(t, type))
    /\ UNCHANGED <<loopVars, missed>>

\* task-sent bears the name, too, and moves no gauge.
TaskSent(t) ==
    /\ conn = "up"
    /\ known' = known \cup {t}
    /\ UNCHANGED <<worldVars, loopVars, gaugeVars>>

\* Celery's State keeps a limited number of tasks, here any: the oldest makes room.
Evict(t) ==
    /\ conn = "up" /\ t \in known
    /\ Forget({t})
    /\ UNCHANGED <<worldVars, loopVars, activeCount, prefetch>>

Lose(t, type) ==
    /\ conn # "up"
    /\ Work(t, type)
    /\ missed' = Gauges
    /\ UNCHANGED <<loopVars, known, activeCount, prefetch>>

\* record_worker_event of a heartbeat, which tells how many tasks the worker runs.
Heartbeat ==
    /\ conn = "up"
    /\ activeCount' = Cardinality(Holding("started"))
    /\ missed' = missed \ {"active"}
    /\ UNCHANGED <<worldVars, loopVars, known, prefetch>>

\* The worker goes offline, and the tasks it holds with it; the event arrives or is lost.
Offline ==
    /\ Held # {}
    /\ phase' = [t \in Tasks |-> IF phase[t] = "new" THEN "new" ELSE "ended"]
    /\ IF conn = "up"
         THEN activeCount' = 0 /\ prefetch' = [n \in Names |-> 0] /\ missed' = {}
         ELSE missed' = Gauges /\ UNCHANGED <<activeCount, prefetch>>
    /\ UNCHANGED <<retries, loopVars, known>>

-----------------------------------------------------------------------------
MonitorNext ==
    \/ ConnectBroker \/ Breaks \/ Closes \/ Stop \/ Exit \/ Restart
    \/ \E t \in Tasks, type \in Types : Receive(t, type) \/ Lose(t, type)
    \/ \E t \in Tasks : TaskSent(t) \/ Evict(t)
    \/ Heartbeat \/ Offline

\* The broker takes one of infinitely many attempts to connect.
MonitorSpec == MonitorInit /\ [][MonitorNext]_monitorVars /\ SF_monitorVars(ConnectBroker)

-----------------------------------------------------------------------------
(* Properties.                                                             *)

MonitorTypeOK ==
    /\ phase \in [Tasks -> Phases] /\ retries \in [Tasks -> 0..MaxRetries]
    /\ conn \in {"up", "sleeping", "exited"} /\ delay \in BaseDelay..MaxDelay
    /\ stop \in BOOLEAN /\ known \subseteq Tasks
    /\ activeCount \in Nat /\ prefetch \in [Names -> Nat] /\ missed \subseteq Gauges

Prefetched == prefetch["named"] + prefetch["unknown"]

\* The gauges never show more tasks than the worker holds, unless an event did not reach
\* them since the last heartbeat (the tasks it runs) or the last worker-offline.
GaugesNeverOver ==
    /\ "active" \notin missed => activeCount <= Cardinality(Holding("started"))
    /\ "prefetch" \notin missed => Prefetched <= Cardinality(Holding("received"))

\* Until it is told to stop, the monitor keeps coming back to the broker: no error ends
\* start_monitoring.
Reconnects == []<>(conn = "up" \/ stop)
=============================================================================
