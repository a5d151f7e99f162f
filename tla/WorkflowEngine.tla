--------------------------- MODULE WorkflowEngine ---------------------------
(***************************************************************************)
(* How kanchi runs workflows.  For every event with a trigger the engine   *)
(* starts a daemon thread with a database session of its own               *)
(* (src/agent/services/workflow_engine.py).  The thread takes the enabled  *)
(* workflows of the trigger by falling priority and, for each of them,     *)
(* asks for leave (enabled, cooldown, executions per hour, circuit         *)
(* breaker), records the execution, runs the actions, updates the          *)
(* workflow's statistics and closes the record.  No lock covers these      *)
(* steps: each is a statement or a commit, and other threads run between   *)
(* them.                                                                   *)
(*                                                                         *)
(* Statements see what other threads have committed, as in SQLite and in   *)
(* PostgreSQL's default isolation.  What the actions do is left out: they  *)
(* succeed or fail.  A thread slot is used again when its event is done.   *)
(***************************************************************************)
EXTENDS Integers, Sequences, FiniteSets

CONSTANTS
    Workflows,  \* workflow ids
    Evals,      \* slots for the evaluation threads: how many run at once
    Events,     \* what may happen: [trigger, context]; context maps Fields to values
    Settings,   \* by workflow: trigger, priority, limits, breaker, conditions
    Fields,     \* names of event fields
    Keys,       \* values of event fields
    None,       \* Python's None
    Dialect,    \* the database product
    Hour,       \* the rate limit's window, on the model's clock
    MaxTime,    \* bound: the clock's last value
    MaxExecs,   \* bound: executions recorded
    MaxEdits    \* bound: changes through the API

TaskTriggers   == {"task.sent", "task.received", "task.started", "task.succeeded",
                   "task.failed", "task.retried", "task.revoked", "task.orphaned"}
WorkerTriggers == {"worker.online", "worker.offline", "worker.heartbeat"}
Triggers       == TaskTriggers \cup WorkerTriggers

Breaker == [max : Nat \ {0}, window : Nat, field : Fields \cup {None}]

ASSUME EngineAssumption ==
    /\ IsFiniteSet(Evals)
    /\ Evals # {}
    /\ Hour \in Nat /\ MaxTime \in Nat /\ MaxExecs \in Nat /\ MaxEdits \in Nat
    /\ {"root_id", "task_id", "hostname", "worker_name"} \subseteq Fields
    /\ None \notin Keys /\ None \notin Workflows
    /\ Events \subseteq [trigger : Triggers, context : [Fields -> Keys \cup {None}]]
    /\ Settings \in [Workflows -> [trigger : Triggers, priority : Nat, perHour : Nat,
                                   cooldown : Nat, breaker : Breaker \cup {None},
                                   accepts : SUBSET Events]]

VARIABLES
    defs,       \* table workflows: state and statistics, by id
    execs,      \* table workflow_executions, by id
    eval,       \* the evaluation threads
    now,        \* the wall clock
    edits,      \* changes through the API so far
    abandoned   \* history: executions whose thread died before closing them

engineVars == <<defs, execs, eval, now, edits, abandoned>>

Stats == [execution_count : Nat, success_count : Nat, failure_count : Nat]
Def   == [state : {"absent", "enabled", "disabled", "deleted"}, stats : Stats,
          last_executed_at : Nat \cup {None}]
Exec  == [workflow : Workflows, key : Keys \cup {None}, triggered_at : Nat,
          status : {"running", "completed", "failed", "circuit_open"}]

\* A thread: what it does next, its event, the workflows still to come, the one
\* it is at and its breaker key, its execution, whether the actions succeeded,
\* and the workflow's statistics that it read to update them.
Steps == {"idle", "pick", "breaker", "skip", "start", "act", "write", "finish"}
Eval == [pc : Steps, event : Events \cup {None}, todo : SUBSET Workflows,
         workflow : Workflows \cup {None}, key : Keys \cup {None}, id : Nat,
         ok : BOOLEAN, seen : Stats \cup {None}]
Done == [pc |-> "idle", event |-> None, todo |-> {}, workflow |-> None,
         key |-> None, id |-> 0, ok |-> TRUE, seen |-> None]

NoStats == [execution_count |-> 0, success_count |-> 0, failure_count |-> 0]
NewDef(state) == [state |-> state, stats |-> NoStats, last_executed_at |-> None]

EngineInit ==
    /\ defs \in [Workflows -> {NewDef(state) : state \in {"absent", "enabled", "disabled"}}]
    /\ execs = <<>>
    /\ eval = [th \in Evals |-> Done]
    /\ now = 0
    /\ edits = 0
    /\ abandoned = {}

-----------------------------------------------------------------------------
(* Leave to run. *)

Since(w, window) ==
    {i \in DOMAIN execs : execs[i].workflow = w /\ execs[i].triggered_at >= now - window}

MutRateLimited(w) ==
    Settings[w].perHour # 0 /\ Cardinality(Since(w, Hour)) > Settings[w].perHour

\* Rows of skipped executions count, too.
RateLimited(w) ==
    Settings[w].perHour # 0 /\ Cardinality(Since(w, Hour)) >= Settings[w].perHour

\* The column is DateTime(timezone=True), but only PostgreSQL gives an aware
\* datetime back.  Compared with an aware now a naive one raises TypeError,
\* which the engine logs before it goes on to the next workflow.
CoolingDown(w) ==
    /\ Settings[w].cooldown > 0
    /\ defs[w].last_executed_at # None
    /\ Dialect = "postgresql" => now < defs[w].last_executed_at + Settings[w].cooldown

\* can_execute_workflow.
CanExecute(w) == defs[w].state = "enabled" /\ ~CoolingDown(w) /\ ~RateLimited(w)

\* _circuit_candidate_fields and resolve_circuit_breaker_key: the first of these
\* fields that the event has.
CandidateFields(w) ==
    (IF Settings[w].breaker.field = None THEN <<>> ELSE <<Settings[w].breaker.field>>)
    \o (IF Settings[w].trigger \in WorkerTriggers THEN <<"hostname", "worker_name">> ELSE <<>>)
    \o <<"root_id", "task_id">>

KeyOf(w, e) ==
    LET fields  == CandidateFields(w)
        present == {i \in DOMAIN fields : e.context[fields[i]] # None}
    IN  IF Settings[w].breaker = None \/ present = {} THEN None
        ELSE e.context[fields[CHOOSE i \in present : \A j \in present : i <= j]]

OfKey(w, k, window) == {i \in Since(w, window) : execs[i].key = k}

MutBreakerOpen(w, k) ==
    /\ Settings[w].breaker # None
    /\ k # None
    /\ Cardinality(OfKey(w, k, Settings[w].breaker.window)) > Settings[w].breaker.max

\* is_circuit_breaker_open.
BreakerOpen(w, k) ==
    /\ Settings[w].breaker # None
    /\ k # None
    /\ Cardinality(OfKey(w, k, Settings[w].breaker.window)) >= Settings[w].breaker.max

-----------------------------------------------------------------------------
(* One evaluation thread. *)

At(th, pc) == eval[th].pc = pc
Goto(th, pc) == eval' = [eval EXCEPT ![th].pc = pc]

MutNextWorkflow(th) == [eval[th] EXCEPT !.pc = "pick", !.workflow = None, !.key = None,
                                        !.ok = TRUE, !.seen = None]

\* The thread has the workflow behind it, and takes the next one.
NextWorkflow(th) == [eval[th] EXCEPT !.pc = "pick", !.workflow = None, !.key = None,
                                     !.id = 0, !.ok = TRUE, !.seen = None]

\* process_event starts the thread, which selects the enabled workflows.
Arrive(th, e) ==
    /\ At(th, "idle")
    /\ eval' = [eval EXCEPT ![th] = [Done EXCEPT !.pc = "pick", !.event = e,
            !.todo = {w \in Workflows : /\ defs[w].state = "enabled"
                                        /\ Settings[w].trigger = e.trigger}]]
    /\ UNCHANGED <<defs, execs, now, edits, abandoned>>

\* Leave and conditions of the next workflow by priority.
Pick(th, w) ==
    /\ At(th, "pick")
    /\ w \in eval[th].todo
    /\ \A v \in eval[th].todo : Settings[v].priority <= Settings[w].priority
    /\ eval' = [eval EXCEPT ![th] =
          IF CanExecute(w) /\ eval[th].event \in Settings[w].accepts
            THEN [eval[th] EXCEPT !.pc = "breaker", !.todo = @ \ {w}, !.workflow = w,
                                  !.key = KeyOf(w, eval[th].event)]
            ELSE [eval[th] EXCEPT !.todo = @ \ {w}]]
    /\ UNCHANGED <<defs, execs, now, edits, abandoned>>

CheckBreaker(th) ==
    /\ At(th, "breaker")
    /\ Goto(th, IF BreakerOpen(eval[th].workflow, eval[th].key) THEN "skip" ELSE "start")
    /\ UNCHANGED <<defs, execs, now, edits, abandoned>>

Record(th, status) ==
    /\ Len(execs) < MaxExecs
    /\ execs' = Append(execs, [workflow |-> eval[th].workflow, key |-> eval[th].key,
                               triggered_at |-> now, status |-> status])

\* record_circuit_breaker_skip.
Skip(th) ==
    /\ At(th, "skip")
    /\ Record(th, "circuit_open")
    /\ eval' = [eval EXCEPT ![th] = NextWorkflow(th)]
    /\ UNCHANGED <<defs, now, edits, abandoned>>

MutStart(th) ==
    /\ At(th, "start")
    /\ Record(th, "running")
    /\ defs' = [defs EXCEPT ![eval[th].workflow].stats.execution_count = @ + 1]
    /\ eval' = [eval EXCEPT ![th].pc = "act", ![th].id = Len(execs')]
    /\ UNCHANGED <<now, edits, abandoned>>

\* record_workflow_execution_start.
Start(th) ==
    /\ At(th, "start")
    /\ Record(th, "running")
    /\ eval' = [eval EXCEPT ![th].pc = "act", ![th].id = Len(execs')]
    /\ UNCHANGED <<defs, now, edits, abandoned>>

\* The actions run; the first failing one without continue_on_failure ends
\* them.  Then update_workflow_stats reads the row, and leaves a missing one
\* alone ...
Act(th) ==
    /\ At(th, "act")
    /\ \E ok \in BOOLEAN : eval' = [eval EXCEPT ![th] =
          IF defs[eval[th].workflow].state = "deleted"
            THEN [@ EXCEPT !.pc = "finish", !.ok = ok]
            ELSE [@ EXCEPT !.pc = "write", !.ok = ok, !.seen = defs[eval[th].workflow].stats]]
    /\ UNCHANGED <<defs, execs, now, edits, abandoned>>

\* ... or the SELECT fails, and then so does the execution ...
ReadFails(th) ==
    /\ At(th, "act")
    /\ eval' = [eval EXCEPT ![th].pc = "finish", ![th].ok = FALSE]
    /\ UNCHANGED <<defs, execs, now, edits, abandoned>>

\* ... and the changed columns are written, counted up from what was read.  An
\* UPDATE that matches no row, the workflow deleted meanwhile, is an error.
Changed(stats, seen, ok) ==
    [stats EXCEPT !.execution_count = seen.execution_count + 1,
                  !.success_count = IF ok THEN seen.success_count + 1 ELSE @,
                  !.failure_count = IF ok THEN @ ELSE seen.failure_count + 1]

WriteStats(th) ==
    /\ At(th, "write")
    /\ LET w == eval[th].workflow
       IN  /\ defs[w].state # "deleted"
           /\ defs' = [defs EXCEPT ![w].stats = Changed(@, eval[th].seen, eval[th].ok),
                                   ![w].last_executed_at = now]
    /\ Goto(th, "finish")
    /\ UNCHANGED <<execs, now, edits, abandoned>>

MutFinish(th) ==
    /\ At(th, "finish")
    /\ execs' = [execs EXCEPT ![eval[th].id].status = IF eval[th].ok THEN "completed" ELSE @]
    /\ eval' = [eval EXCEPT ![th] = NextWorkflow(th)]
    /\ UNCHANGED <<defs, now, edits, abandoned>>

\* update_workflow_execution.
Finish(th) ==
    /\ At(th, "finish")
    /\ execs' = [execs EXCEPT ![eval[th].id].status =
                                 IF eval[th].ok THEN "completed" ELSE "failed"]
    /\ eval' = [eval EXCEPT ![th] = NextWorkflow(th)]
    /\ UNCHANGED <<defs, now, edits, abandoned>>

\* A write fails.  SQLAlchemy then refuses the session until a rollback, which
\* nobody asks for: closing the record and all the workflows to come fail, too,
\* each caught and logged.
WriteFails(th) ==
    /\ eval[th].pc \in {"skip", "start", "write", "finish"}
    /\ eval' = [eval EXCEPT ![th] = Done]
    /\ abandoned' = abandoned \cup ({eval[th].id} \ {0})
    /\ UNCHANGED <<defs, execs, now, edits>>

EndEval(th) ==
    /\ At(th, "pick")
    /\ eval[th].todo = {}
    /\ eval' = [eval EXCEPT ![th] = Done]
    /\ UNCHANGED <<defs, execs, now, edits, abandoned>>

-----------------------------------------------------------------------------
(* The API, the clock and the process. *)

Edit(w, from, to) ==
    /\ edits < MaxEdits
    /\ edits' = edits + 1
    /\ defs[w].state \in from
    /\ defs' = [defs EXCEPT ![w].state = to]
    /\ UNCHANGED <<execs, eval, now, abandoned>>

\* create_workflow, under a fresh id.
Create(w) == Edit(w, {"absent"}, "enabled")

\* update_workflow, as far as the switch "enabled" goes.
Update(w) == Edit(w, {"enabled"}, "disabled") \/ Edit(w, {"disabled"}, "enabled")

\* delete_workflow: the executions stay.
Delete(w) == Edit(w, {"enabled", "disabled"}, "deleted")

Tick ==
    /\ now < MaxTime
    /\ now' = now + 1
    /\ UNCHANGED <<defs, execs, eval, edits, abandoned>>

\* The process ends and starts again; no code looks at executions left running.
Restart ==
    /\ eval' = [th \in Evals |-> Done]
    /\ abandoned' = abandoned \cup ({eval[th].id : th \in Evals} \ {0})
    /\ UNCHANGED <<defs, execs, now, edits>>

EvalStep(th) ==
    \/ \E w \in Workflows : Pick(th, w)
    \/ CheckBreaker(th) \/ Skip(th) \/ Start(th) \/ Act(th) \/ ReadFails(th)
    \/ WriteStats(th) \/ Finish(th) \/ WriteFails(th) \/ EndEval(th)

EngineNext ==
    \/ \E th \in Evals : EvalStep(th) \/ \E e \in Events : Arrive(th, e)
    \/ \E w \in Workflows : Create(w) \/ Update(w) \/ Delete(w)
    \/ Tick
    \/ Restart

EngineSpec == EngineInit /\ [][EngineNext]_engineVars

-----------------------------------------------------------------------------
(* Properties. *)

\* Rows and threads are well-formed: a thread holds a workflow, an execution
\* and the row it read exactly while it needs them.
EngineTypeOK ==
    /\ defs \in [Workflows -> Def]
    /\ execs \in Seq(Exec)
    /\ eval \in [Evals -> Eval]
    /\ now \in Nat
    /\ abandoned \subseteq DOMAIN execs
    /\ \A th \in Evals :
          /\ eval[th].workflow = None <=> eval[th].pc \in {"idle", "pick"}
          /\ eval[th].id \in DOMAIN execs <=> eval[th].pc \in {"act", "write", "finish"}

\* max_executions_per_hour is exceeded by the concurrency at most: check and
\* record are not atomic (workflow_service.py can_execute_workflow and
\* record_workflow_execution_start), but each of the threads running at once
\* adds no more than the one execution it got leave for.
RateLimitExceededByThreadsOnly ==
    \A w \in Workflows : Settings[w].perHour # 0 =>
        Cardinality(Since(w, Hour)) <= Settings[w].perHour + Cardinality(Evals) - 1

\* The executions of one breaker key and window that ran.
Ran(w, k) ==
    {i \in OfKey(w, k, Settings[w].breaker.window) : execs[i].status # "circuit_open"}

\* The same of the circuit breaker (is_circuit_breaker_open): a retry loop over
\* one root_id is cut, late by the threads that were past the check.
BreakerExceededByThreadsOnly ==
    \A w \in Workflows : Settings[w].breaker # None =>
        \A k \in Keys :
            Cardinality(Ran(w, k)) <= Settings[w].breaker.max + Cardinality(Evals) - 1

\* An execution shown as running is being run by exactly one thread, or its
\* thread died: nothing else leaves a record open (the finally block of
\* execute_workflow), and no two threads ever close the same one.
RunningIsOwned ==
    \A i \in DOMAIN execs :
        LET owners == {th \in Evals : eval[th].id = i}
        IN  /\ execs[i].status = "running" <=> owners # {} \/ i \in abandoned
            /\ owners # {} => Cardinality(owners) = 1 /\ i \notin abandoned

\* The statistics of a workflow may lose executions to a race
\* (update_workflow_stats reads and then writes) but never invent one.
StatisticsNeverOvercount ==
    \A w \in Workflows :
        LET ran == {i \in DOMAIN execs :
                /\ execs[i].workflow = w
                /\ execs[i].status # "circuit_open"
                /\ \A th \in Evals : eval[th].id = i => eval[th].pc = "finish"}
        IN  /\ defs[w].stats.execution_count <= Cardinality(ran)
            /\ defs[w].stats.success_count + defs[w].stats.failure_count <= Cardinality(ran)

\* Violated with SQLite and MySQL.  "Check if workflow can execute based on rate
\* limiting and cooldown" (workflow_service.py:368): when the cooldown is over, a
\* thread does not pass over an enabled workflow whose conditions are met and
\* whose rate limit is not reached.
CooldownEnds ==
    [][\A th \in Evals, w \in Workflows :
        (/\ At(th, "pick") /\ w \in eval[th].todo
         /\ defs[w].state = "enabled" /\ ~RateLimited(w)
         /\ eval[th].event \in Settings[w].accepts
         /\ defs[w].last_executed_at # None
         /\ now >= defs[w].last_executed_at + Settings[w].cooldown)
        => ~(eval'[th].pc = "pick" /\ w \notin eval'[th].todo)]_engineVars
=============================================================================
