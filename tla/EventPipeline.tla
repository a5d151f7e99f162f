---------------------------- MODULE EventPipeline ----------------------------
(***************************************************************************)
(* The way of a task event through EventHandler.handle_task_event          *)
(* (src/agent/event_handler.py): the Airflow identity, the task registry,  *)
(* the store and the daily statistics (src/agent/services/), each          *)
(* committed for itself, and the broadcast; and the way of a progress      *)
(* report.                                                                 *)
(*                                                                         *)
(* The monitor's thread handles one event at a time (Monitor is about its  *)
(* connection, and about the gauges, which come first).  Every commit may  *)
(* fail, and the process may end at every point.                           *)
(***************************************************************************)
EXTENDS Naturals, FiniteSets, Sequences, FiniteSetsExt, SequencesExt

CONSTANTS
    Tasks, None,
    Workloads,  \* the tasks of Airflow's executor
    Reporters,  \* the tasks that report progress
    CacheSize,  \* _CACHE_MAX_ENTRIES
    MaxEvents,  \* bound: the task events
    MaxStamp    \* bound: the timestamps of progress reports

ASSUME TaskAssumption  == IsFiniteSet(Tasks) /\ Workloads \subseteq Tasks /\ Reporters \subseteq Tasks
ASSUME CacheAssumption == CacheSize \in Nat \ {0}
ASSUME BoundAssumption == MaxEvents \in Nat /\ MaxStamp \in Nat

VARIABLES
    phase,      \* what the worker does with each task
    emitted,    \* the task events so far
    identity,   \* _identity_cache, least recently used first
    cached,     \* TaskRegistryService._cache
    registered, \* task_registry
    rows,       \* task_events by task
    stats,      \* task_daily_stats of the day by task name
    job,        \* the event the monitor's thread handles, if any
    reports,    \* task_progress_events: timestamps by task
    latest,     \* task_progress_latest: timestamp by task, 0 for no row
    shown,      \* history: the events broadcast and offered to workflows, by place in rows
    blind       \* history: the tasks whose identity could not be looked up

worldVars    == <<phase, emitted>>
progressVars == <<reports, latest>>
storeVars    == <<rows, stats, shown>>
pipelineVars == <<worldVars, identity, cached, registered, storeVars, job, progressVars, blind>>

-----------------------------------------------------------------------------
Types == {"sent", "received", "started", "succeeded", "failed", "retried", "revoked"}
Naming == {"sent", "received"}     \* these bear the name and the arguments
Uncounted == {"sent", "started"}   \* these leave the daily statistics alone
Phases == {"new", "received", "started", "ended"}

\* The names a task goes by: that of its function, none at all, Airflow's display name.
CeleryName(t) == IF t \in Workloads THEN "execute_workload" ELSE "plain"
Names == {"execute_workload", "plain", "unknown", "dag"}

Row == [type : Types, name : Names]
Job == [task : Tasks, type : Types, name : Names,
        step : {"enrich", "register", "save", "count", "announce"}]
Counters == (Types \ (Naming \cup Uncounted)) \cup {"total", "pending"}

Init ==
    /\ phase = [t \in Tasks |-> "new"] /\ emitted = 0
    /\ identity = <<>> /\ cached = {} /\ registered = {}
    /\ rows = [t \in Tasks |-> <<>>]
    /\ stats = [n \in Names |-> [c \in Counters |-> 0]]
    /\ shown = [t \in Tasks |-> {}] /\ blind = {}
    /\ reports = [t \in Tasks |-> {}] /\ latest = [t \in Tasks |-> 0]
    /\ job = None

-----------------------------------------------------------------------------
(* Events come, and the process comes and goes.                            *)

\* What the worker does with a task; task-sent comes from who publishes it, at any time.
Work(t, type) ==
    /\ emitted < MaxEvents /\ emitted' = emitted + 1
    /\ phase[t] \in CASE type = "sent"     -> Phases
                      [] type = "received" -> {"new"}
                      [] type = "started"  -> {"received"}
                      [] type = "revoked"  -> {"received", "started"}
                      [] OTHER             -> {"started"}
    /\ phase' = [phase EXCEPT ![t] = CASE type = "sent"     -> @
                                       [] type = "received" -> "received"
                                       [] type = "started"  -> "started"
                                       [] type = "retried"  -> "new"
                                       [] OTHER             -> "ended"]

\* The monitor hands the event over.  An event that does not bear the name has it if the
\* state of the connection knows it from one that does.
Receive(t, type) ==
    /\ job = None
    /\ Work(t, type)
    /\ \E name \in IF type \in Naming THEN {CeleryName(t)} ELSE {CeleryName(t), "unknown"} :
         job' = [task |-> t, type |-> type, name |-> name, step |-> "enrich"]
    /\ UNCHANGED <<identity, cached, registered, storeVars, progressVars, blind>>

\* The monitor is not connected.
Lose(t, type) ==
    /\ job = None
    /\ Work(t, type)
    /\ UNCHANGED <<identity, cached, registered, storeVars, job, progressVars, blind>>

\* The process ends and starts again: what was in memory is gone, and the cache of the
\* registry is loaded, or not, with the first session.
Restart ==
    /\ identity' = <<>> /\ cached' \in {registered, {}} /\ job' = None
    /\ UNCHANGED <<worldVars, registered, storeVars, progressVars, blind>>

-----------------------------------------------------------------------------
(* handle_task_event, from the session on.                                 *)

At(step) == job # None /\ job.step = step
Go(step) == job' = [job EXCEPT !.step = step]

\* An exception ends the handling of the event, and is logged.
Fail ==
    /\ job # None /\ job.step \in {"register", "save", "count"}
    /\ job' = None
    /\ UNCHANGED <<worldVars, identity, cached, registered, storeVars, progressVars, blind>>

\* _cache_put: t is used most recently, the least recently used makes room.
Others(t) ==
    IF t \in ToSet(identity)
      THEN RemoveAt(identity, CHOOSE i \in DOMAIN identity : identity[i] = t)
      ELSE identity
Put(t) ==
    LET entries == Append(Others(t), t)
    IN  IF Len(entries) > CacheSize THEN Tail(entries) ELSE entries

\* _recover_identity looks the identity up in the store for events with these names.
MutLookedUp == {"execute_workload"}
LookedUp == {"execute_workload", "unknown"}
Decoded == job.type \in Naming /\ job.task \in Workloads
Stored(t) == \E i \in DOMAIN rows[t] : rows[t][i].name = "dag"

\* AirflowEnrichmentService.enrich knows the identity from the arguments, the cache or
\* the store.
Identify ==
    /\ At("enrich")
    /\ \/ Decoded
       \/ job.task \in ToSet(identity)
       \/ job.name \in LookedUp /\ Stored(job.task)
    /\ identity' = Put(job.task)
    /\ job' = [job EXCEPT !.name = "dag", !.step = "register"]
    /\ UNCHANGED <<worldVars, cached, registered, storeVars, progressVars, blind>>

\* It does not, or the lookup fails: that never drops an event.
LeaveName ==
    /\ At("enrich")
    /\ ~Decoded /\ job.task \notin ToSet(identity)
    /\ \/ ~(job.name \in LookedUp /\ Stored(job.task)) /\ UNCHANGED blind
       \/ job.name \in LookedUp /\ blind' = blind \cup {job.task}
    /\ Go("register")
    /\ UNCHANGED <<worldVars, identity, cached, registered, storeVars, progressVars>>

\* ensure_task_registered: a new name is committed before it is cached.
Register ==
    /\ At("register")
    /\ cached' = cached \cup {job.name}
    /\ registered' = IF job.name \in cached THEN registered ELSE registered \cup {job.name}
    /\ Go("save")
    /\ UNCHANGED <<worldVars, identity, storeVars, progressVars, blind>>

\* save_task_event.
MutSave ==
    /\ At("save")
    /\ \/ rows' = [rows EXCEPT ![job.task] = Append(@, [type |-> job.type, name |-> job.name])]
       \/ UNCHANGED rows
    /\ Go("count")
    /\ UNCHANGED <<worldVars, identity, cached, registered, stats, shown, progressVars, blind>>
Save ==
    /\ At("save")
    /\ rows' = [rows EXCEPT ![job.task] = Append(@, [type |-> job.type, name |-> job.name])]
    /\ Go("count")
    /\ UNCHANGED <<worldVars, identity, cached, registered, stats, shown, progressVars, blind>>

\* update_daily_stats; "pending" never goes below 0.
Less(count) == IF count = 0 THEN 0 ELSE count - 1
Counted(s, type) ==
    CASE type = "received" -> [s EXCEPT !.total = @ + 1, !.pending = @ + 1]
      [] type \in Uncounted -> s
      [] type = "retried"  -> [s EXCEPT !.retried = @ + 1]
      [] OTHER             -> [s EXCEPT ![type] = @ + 1, !.pending = Less(@)]
Count ==
    /\ At("count")
    /\ stats' = [stats EXCEPT ![job.name] = Counted(@, job.type)]
    /\ Go("announce")
    /\ UNCHANGED <<worldVars, identity, cached, registered, rows, shown, progressVars, blind>>

\* queue_broadcast and process_event, which let no exception through.
Announce ==
    /\ At("announce")
    /\ shown' = [shown EXCEPT ![job.task] = @ \cup {Len(rows[job.task])}]
    /\ job' = None
    /\ UNCHANGED <<worldVars, identity, cached, registered, rows, stats, progressVars, blind>>

-----------------------------------------------------------------------------
(* Progress.                                                               *)

\* _upsert_latest leaves a snapshot that is as new as the report.
MutSupersedes(stamp, t) == TRUE
Supersedes(stamp, t) == stamp > latest[t]

\* handle_progress_event: the report, stamped by the worker, and the snapshot are one
\* transaction; if it fails the report is lost.
Report(t, stamp) ==
    /\ job = None
    /\ reports' = [reports EXCEPT ![t] = @ \cup {stamp}]
    /\ latest' = IF Supersedes(stamp, t) THEN [latest EXCEPT ![t] = stamp] ELSE latest
    /\ UNCHANGED <<worldVars, identity, cached, registered, storeVars, job, blind>>

-----------------------------------------------------------------------------
Next ==
    \/ \E t \in Tasks, type \in Types : Receive(t, type) \/ Lose(t, type)
    \/ Restart \/ Fail
    \/ Identify \/ LeaveName \/ Register \/ Save \/ Count \/ Announce
    \/ \E t \in Reporters, stamp \in 1..MaxStamp : Report(t, stamp)

PipelineSpec == Init /\ [][Next]_pipelineVars

-----------------------------------------------------------------------------
(* Properties.                                                             *)

PipelineTypeOK ==
    /\ phase \in [Tasks -> Phases] /\ emitted \in 0..MaxEvents
    /\ identity \in Seq(Workloads) /\ IsInjective(identity) /\ Len(identity) <= CacheSize
    /\ cached \subseteq Names /\ registered \subseteq Names
    /\ rows \in [Tasks -> Seq(Row)] /\ shown \in [Tasks -> SUBSET Nat]
    /\ \A t \in Tasks : shown[t] \subseteq DOMAIN rows[t]
    /\ stats \in [Names -> [Counters -> Nat]]
    /\ job = None \/ job \in Job
    /\ reports \in [Tasks -> SUBSET (1..MaxStamp)] /\ latest \in [Tasks -> 0..MaxStamp]
    /\ blind \subseteq Tasks

\* "The registry, daily statistics and the stored event all agree on one identity"
\* (event_handler.py:41): every stored event is of a registered name, and a task of
\* Airflow that has once shown its identity keeps it, through reconnects, restarts and
\* the eviction of its entry, as long as no lookup fails.
NamesAgree ==
    \A t \in Tasks : \A i \in DOMAIN rows[t] :
        /\ rows[t][i].name \in registered
        /\ t \notin blind => \A j \in 1..i : rows[t][j].name = "dag" => rows[t][i].name = "dag"

\* Whatever fails in between, an event is broadcast only after it is stored and counted:
\* the statistics of a day count at least what was broadcast and at most what is stored.
Events(type, name) ==
    {e \in Tasks \X (1..MaxEvents) :
       e[2] \in DOMAIN rows[e[1]] /\ rows[e[1]][e[2]] = [type |-> type, name |-> name]}
CountedBetween ==
    \A type \in Types \ Uncounted, name \in Names :
        LET stored  == Events(type, name)
            counted == stats[name][IF type = "received" THEN "total" ELSE type]
        IN  /\ Cardinality({e \in stored : e[2] \in shown[e[1]]}) <= counted
            /\ counted <= Cardinality(stored)

\* The progress a task shows is the newest it has reported, in whichever order the
\* reports arrive.
ProgressIsNewest ==
    \A t \in Tasks : latest[t] = (IF reports[t] = {} THEN 0 ELSE Max(reports[t]))
=============================================================================
