-------------------------- MODULE OrphanDetection ---------------------------
(***************************************************************************)
(* How kanchi notices dead workers and marks their tasks as orphans.       *)
(*                                                                         *)
(* Two threads share the dictionary CeleryEventMonitor.workers and write   *)
(* the same tables.  The monitor thread (src/agent/monitor.py and           *)
(* event_handler.py) handles one Celery event after the other; on a        *)
(* worker-offline event it waits out a grace period and marks.  The health *)
(* thread (worker_health_monitor.py) scans the dictionary every 15 s and    *)
(* declares offline, and marks, each worker that has been online and not   *)
(* heard of for 30 s.  Marking is OrphanDetectionService: a SELECT, then   *)
(* an UPDATE and a commit, then a broadcast; between them the other thread *)
(* runs.                                                                   *)
(*                                                                         *)
(* The store is TaskStore; retention and resolutions do not act here.      *)
(* The 30 s timeout is abstracted to the set fresh of workers heard of     *)
(* within it.  The clock only moves forward.                               *)
(***************************************************************************)
EXTENDS TaskStore

\* The hosts that send worker events.  Task events also name other hosts: the
\* publisher of a task-sent, or a worker started without heartbeats.
CONSTANT Workers
ASSUME WorkersAssumption == Workers \subseteq Hosts

VARIABLES
    workers,    \* CeleryEventMonitor.workers: status by host, "unknown" when absent
    fresh,      \* hosts whose last worker event is not older than the timeout
    alive,      \* hosts whose worker process runs and sends events
    clock,      \* the wall clock
    scan,       \* where the health thread is in _check_worker_health
    job,        \* where each thread is in marking a host's tasks
    told,       \* orphan events broadcast so far, <<task, orphaned_at>>
    lost,       \* history: hosts whose last marking failed
    dropped,    \* history: orphan events an error or a restart kept from being broadcast
    declaredId  \* history: by host, lastId when it was last set offline

orphanVars == <<rows, lastId, latest, resolutions, workers, fresh, alive, clock,
                scan, job, told, lost, dropped, declaredId>>
workerVars == <<workers, fresh, alive, clock, scan, declaredId>>

Threads  == {"monitor", "health"}
Statuses == {"unknown", "online", "offline"}

\* A marking job: pc is the next thing to do, found the tasks the SELECT gave.
Job == [pc : {"idle", "find", "mark", "tell"}, host : Workers \cup {None},
        at : MaybeTime, found : SUBSET Tasks]
Idle == [pc |-> "idle", host |-> None, at |-> None, found |-> {}]
Marking(h, at) == [pc |-> "find", host |-> h, at |-> at, found |-> {}]

\* A scan: the hosts still to look at, those of them last heard of before the
\* threshold fixed when it began, and the one found late and being looked at.
Scan == [pc : {"sleep", "scan", "status", "declare"}, todo : SUBSET Workers,
         stale : SUBSET Workers, host : Workers \cup {None}, at : MaybeTime]
Asleep == [pc |-> "sleep", todo |-> {}, stale |-> {}, host |-> None, at |-> None]

OrphanInit ==
    /\ Init
    /\ workers = [h \in Workers |-> "unknown"]
    /\ fresh = {}
    /\ alive = Workers
    /\ clock \in Times
    /\ scan = Asleep
    /\ job = [th \in Threads |-> Idle]
    /\ told = {}
    /\ lost = {}
    /\ dropped = {}
    /\ declaredId = [h \in Workers |-> 0]

-----------------------------------------------------------------------------
(* What find_and_mark_orphaned_tasks finds. *)

MutFoundOn(h) ==
    {r.task : r \in {q \in rows : /\ q.host = h
                                  /\ q.type = "task-started"
                                  /\ q.orphaned_at = None
                                  /\ \A s \in RowsOf(q.task) : s.host = h => s.ts <= q.ts}}

\* _build_latest_events_subquery: per task, the greatest timestamp among its
\* rows of host h.  _find_non_terminal_tasks: the rows with that task and that
\* timestamp, of WHATEVER host, that are not terminal and not orphans yet.
FoundOn(h) ==
    {r.task : r \in {q \in rows :
        /\ \E s \in RowsOf(q.task) : s.host = h /\ s.ts = q.ts
        /\ \A s \in RowsOf(q.task) : s.host = h => s.ts <= q.ts
        /\ q.type \in NonTerminalEventTypes
        /\ q.orphaned_at = None}}

-----------------------------------------------------------------------------
(* The monitor thread: one event at a time. *)

MonitorIdle == job["monitor"].pc = "idle"

\* handle_task_event: the store's part of it.
TaskEvent(t, e) ==
    /\ MonitorIdle
    /\ e.host \in Workers => e.host \in alive
    /\ SaveTaskEvent(t, e, clock)
    /\ UNCHANGED <<workerVars, job, told, lost, dropped>>

MutBeatStatus == "active"
BeatStatus == "online"

\* _handle_worker_event for worker-online and worker-heartbeat: the timestamp
\* renews, also for a scan under way, which reads it when it comes to the host.
Heartbeat(h) ==
    /\ MonitorIdle
    /\ h \in alive
    /\ workers' = [workers EXCEPT ![h] = BeatStatus]
    /\ fresh' = fresh \cup {h}
    /\ scan' = [scan EXCEPT !.stale = @ \ {h}]
    /\ UNCHANGED <<storeVars, alive, clock, job, told, lost, dropped, declaredId>>

\* Both threads write status "offline" first and mark afterwards.
SetOffline(h) ==
    /\ workers' = [workers EXCEPT ![h] = "offline"]
    /\ declaredId' = [declaredId EXCEPT ![h] = lastId]
    /\ lost' = lost \ {h}

\* _handle_worker_event and handle_worker_event for worker-offline: orphaned_at
\* is read before the grace period is slept out.
WorkerOffline(h) ==
    /\ MonitorIdle
    /\ h \in alive
    /\ SetOffline(h)
    /\ fresh' = fresh \cup {h}
    /\ scan' = [scan EXCEPT !.stale = @ \ {h}]
    /\ job' = [job EXCEPT !["monitor"] = Marking(h, clock)]
    /\ UNCHANGED <<storeVars, alive, clock, told, dropped>>

-----------------------------------------------------------------------------
(* The health thread: _check_worker_health. *)

\* Timeout threshold and the copy of the dictionary are taken once per scan.
BeginScan ==
    /\ scan.pc = "sleep"
    /\ LET known == {h \in Workers : workers[h] # "unknown"}
       IN  scan' = [pc |-> "scan", todo |-> known, stale |-> known \ fresh,
                    host |-> None, at |-> clock]
    /\ UNCHANGED <<storeVars, workers, fresh, alive, clock, job, told, lost, dropped, declaredId>>

\* The timestamp of one host is read (the copy is shallow, so it is the current one) ...
Visit(h) ==
    /\ scan.pc = "scan"
    /\ job["health"].pc = "idle"
    /\ h \in scan.todo
    /\ scan' = IF h \in scan.stale
                 THEN [scan EXCEPT !.pc = "status", !.host = h, !.todo = @ \ {h}]
                 ELSE [scan EXCEPT !.todo = @ \ {h}]
    /\ UNCHANGED <<storeVars, workers, fresh, alive, clock, job, told, lost, dropped, declaredId>>

\* ... then its status ...
ReadStatus ==
    /\ scan.pc = "status"
    /\ scan' = IF workers[scan.host] = "online"
                 THEN [scan EXCEPT !.pc = "declare"]
                 ELSE [scan EXCEPT !.pc = "scan", !.host = None]
    /\ UNCHANGED <<storeVars, workers, fresh, alive, clock, job, told, lost, dropped, declaredId>>

\* ... and then the status is overwritten, whatever it has become, and
\* _mark_worker_tasks_as_orphaned is called.
Declare ==
    /\ scan.pc = "declare"
    /\ SetOffline(scan.host)
    /\ scan' = [scan EXCEPT !.pc = "scan", !.host = None]
    /\ job' = [job EXCEPT !["health"] = Marking(scan.host, scan.at)]
    /\ UNCHANGED <<storeVars, fresh, alive, clock, told, dropped>>

EndScan ==
    /\ scan.pc = "scan"
    /\ scan.todo = {}
    /\ job["health"].pc = "idle"
    /\ scan' = Asleep
    /\ UNCHANGED <<storeVars, workers, fresh, alive, clock, job, told, lost, dropped, declaredId>>

-----------------------------------------------------------------------------
(* Marking, in either thread: OrphanDetectionService. *)

\* The orphan events a thread has yet to broadcast.
ToTell(th) == IF job[th].pc = "tell" THEN job[th].found \X {job[th].at} ELSE {}

\* The SELECT; without a result there is nothing to do.
Find(th) ==
    /\ job[th].pc = "find"
    /\ LET found == FoundOn(job[th].host)
       IN  job' = [job EXCEPT ![th] =
                     IF found = {} THEN Idle ELSE [@ EXCEPT !.pc = "mark", !.found = found]]
    /\ UNCHANGED <<storeVars, workerVars, told, lost, dropped>>

MutMark(th) ==
    /\ job[th].pc = "mark"
    /\ MarkOrphans(job[th].found, job[th].at)
    /\ job' = [job EXCEPT ![th] = Idle]
    /\ UNCHANGED <<workerVars, told, lost, dropped>>

\* The UPDATE of all rows of the tasks found, and the commit.
Mark(th) ==
    /\ job[th].pc = "mark"
    /\ MarkOrphans(job[th].found, job[th].at)
    /\ job' = [job EXCEPT ![th].pc = "tell"]
    /\ UNCHANGED <<workerVars, told, lost, dropped>>

MutMarkFails(th) ==
    /\ job[th].pc = "mark"
    /\ job' = [job EXCEPT ![th].pc = "tell"]
    /\ lost' = lost \cup {job[th].host}
    /\ UNCHANGED <<storeVars, workerVars, told, dropped>>

\* The database refuses either statement: rolled back, logged, never retried
\* (the worker stays "offline", so no later scan comes back to it).
MarkFails(th) ==
    /\ job[th].pc \in {"find", "mark"}
    /\ job' = [job EXCEPT ![th] = Idle]
    /\ lost' = lost \cup {job[th].host}
    /\ UNCHANGED <<storeVars, workerVars, told, dropped>>

\* broadcast_orphan_events.
Tell(th) ==
    /\ job[th].pc = "tell"
    /\ told' = told \cup ToTell(th)
    /\ job' = [job EXCEPT ![th] = Idle]
    /\ UNCHANGED <<storeVars, workerVars, lost, dropped>>

\* After the commit the tasks are read again for the broadcast, and that SELECT
\* fails: the marks stand, and nobody is told.
TellFails(th) ==
    /\ job[th].pc = "tell"
    /\ dropped' = dropped \cup ToTell(th)
    /\ job' = [job EXCEPT ![th] = Idle]
    /\ UNCHANGED <<storeVars, workerVars, told, lost>>

-----------------------------------------------------------------------------
(* Surroundings. *)

Tick == /\ clock + 1 \in Times
        /\ clock' = clock + 1
        /\ UNCHANGED <<storeVars, workers, fresh, alive, scan, job, told, lost, dropped, declaredId>>

\* The timeout passes without a worker event of host h.
GoStale(h) ==
    /\ h \in fresh
    /\ fresh' = fresh \ {h}
    /\ UNCHANGED <<storeVars, workers, alive, clock, scan, job, told, lost, dropped, declaredId>>

\* A worker process dies without a word, or comes back.
Crash(h) ==
    /\ h \in alive
    /\ alive' = alive \ {h}
    /\ UNCHANGED <<storeVars, workers, fresh, clock, scan, job, told, lost, dropped, declaredId>>

Return(h) ==
    /\ h \notin alive
    /\ alive' = alive \cup {h}
    /\ UNCHANGED <<storeVars, workers, fresh, clock, scan, job, told, lost, dropped, declaredId>>

\* kanchi is restarted: what it knew of the workers, and the threads' work, is
\* gone; the database is not.
Restart ==
    /\ workers' = [h \in Workers |-> "unknown"]
    /\ fresh' = {}
    /\ scan' = Asleep
    /\ job' = [th \in Threads |-> Idle]
    /\ dropped' = dropped \cup UNION {ToTell(th) : th \in Threads}
    /\ UNCHANGED <<storeVars, alive, clock, told, lost, declaredId>>

-----------------------------------------------------------------------------
OrphanNext ==
    \/ \E t \in Tasks, e \in Arrivals : TaskEvent(t, e)
    \/ \E h \in Workers : Heartbeat(h) \/ WorkerOffline(h)
    \/ BeginScan \/ ReadStatus \/ Declare \/ EndScan
    \/ \E h \in Workers : Visit(h)
    \/ \E th \in Threads : Find(th) \/ Mark(th) \/ MarkFails(th)
                           \/ Tell(th) \/ TellFails(th)
    \/ Tick
    \/ \E h \in Workers : GoStale(h) \/ Crash(h) \/ Return(h)
    \/ Restart

\* Both threads keep running, and time passes for a worker that is silent.
\* Nothing is assumed of workers, of the database or of restarts.
Fairness ==
    /\ WF_orphanVars(BeginScan) /\ WF_orphanVars(ReadStatus)
    /\ WF_orphanVars(Declare) /\ WF_orphanVars(EndScan)
    /\ \A h \in Workers : WF_orphanVars(Visit(h)) /\ WF_orphanVars(GoStale(h))
    /\ \A th \in Threads : /\ WF_orphanVars(Find(th) \/ MarkFails(th))
                           /\ WF_orphanVars(Mark(th) \/ MarkFails(th))
                           /\ WF_orphanVars(Tell(th) \/ TellFails(th))

OrphanSafetySpec == OrphanInit /\ [][OrphanNext]_orphanVars
OrphanSpec == OrphanSafetySpec /\ Fairness

-----------------------------------------------------------------------------
(* Properties. *)

OrphanTypeOK ==
    /\ TypeOK
    /\ workers \in [Workers -> Statuses]
    /\ fresh \subseteq Workers
    /\ alive \subseteq Workers
    /\ clock \in Times
    /\ scan \in Scan
    /\ job \in [Threads -> Job]
    /\ told \subseteq Tasks \X Times
    /\ lost \subseteq Workers
    /\ dropped \subseteq Tasks \X Times
    /\ declaredId \in [Workers -> Nat]

\* A marking covers the whole history of a task as it is when it commits: the
\* orphan rows of a task come before all its other rows, however the two
\* threads and the arriving events interleave with SELECT and UPDATE.
OrphanRowsArePrefix ==
    \A r, s \in rows :
        r.task = s.task /\ r.id < s.id /\ s.orphaned_at # None => r.orphaned_at # None

\* Nothing is announced that did not happen: a broadcast orphan is an orphan
\* in the database, though the marking of either thread may fail.
ToldIsStored ==
    \A t \in Tasks : (\E at \in Times : <<t, at>> \in told)
                       => \E r \in RowsOf(t) : r.orphaned_at # None

\* Every orphan in the database is announced with the time it carries, or is
\* about to be, or an error or a restart came between commit and broadcast: a second marking
\* that overwrites the time of the first announces it again.
OrphansAreAnnounced ==
    \A r \in rows : r.orphaned_at # None =>
        <<r.task, r.orphaned_at>> \in told \cup dropped \cup UNION {ToTell(th) : th \in Threads}

\* The unfinished tasks of host h: those whose newest row of h is not terminal.
UnfinishedRowsOn(h) ==
    {r \in rows : /\ r.host = h
                  /\ r.type \in NonTerminalEventTypes
                  /\ \A s \in RowsOf(r.task) : s.host = h => s.ts <= r.ts}

BeingMarked(h) == \E th \in Threads : job[th].pc \in {"find", "mark"} /\ job[th].host = h

\* A worker is shown offline only with its work accounted for: once no marking
\* of it is under way (and none has been abandoned), every task that was
\* unfinished on it when it was set offline is an orphan.  The two threads may
\* set it offline in turn, and heartbeats may come in between.
OfflineIsAccountedFor ==
    \A h \in Workers :
        workers[h] = "offline" /\ ~BeingMarked(h) /\ h \notin lost
            => \A r \in UnfinishedRowsOn(h) :
                  r.id <= declaredId[h] => r.orphaned_at # None

\* The unfinished tasks of a worker that dies while it is known to be online
\* become orphans, unless it returns, kanchi restarts, or the marking fails.
DeadWorkersTasksAreOrphaned ==
    \A h \in Workers, t \in Tasks :
        (/\ h \notin alive
         /\ workers[h] = "online"
         /\ \E r \in UnfinishedRowsOn(h) : r.task = t)
        ~> \/ \E r \in RowsOf(t) : r.orphaned_at # None
           \/ h \in alive
           \/ workers[h] = "unknown"
           \/ h \in lost
=============================================================================
