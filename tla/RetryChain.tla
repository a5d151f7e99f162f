----------------------------- MODULE RetryChain ------------------------------
(***************************************************************************)
(* Retries of single tasks and their bookkeeping: the workflow action      *)
(* task.retry (src/agent/services/actions/retry_action.py), the request    *)
(* POST /tasks/{task_id}/retry (src/agent/api/task_routes.py) and          *)
(* TaskService.create_retry_relationship.                                  *)
(*                                                                         *)
(* A handler is one run of the action or of the request, in a thread and a *)
(* database session of its own.  It reads the task, reads the rows it will *)
(* change, writes and commits them, and then sends the new task to the     *)
(* broker.  Between any two of these statements other handlers, the event  *)
(* thread and retention commit; the reads lock nothing.                    *)
(***************************************************************************)
EXTENDS Naturals, FiniteSets, Sequences, FiniteSetsExt

CONSTANTS
    Tasks,       \* task ids: those that ran before, then the uuids still to be drawn
    Originals,   \* tasks of the application
    Handlers,    \* runs of the action or the request
    None,        \* no task
    MaxRetries,  \* the parameter max_retries of the workflow's action
    MaxEvents    \* bound: events stored at a time

ASSUME TaskIdsAssumption == Tasks \subseteq Nat /\ IsFiniteSet(Tasks) /\ Originals \subseteq Tasks
ASSUME NoneAssumption == None \notin Tasks
ASSUME LimitAssumption == MaxRetries \in 1..100 /\ MaxEvents \in Nat

VARIABLES
    rels,      \* retry_relationships by task_id
    rows,      \* task_events by task_id, in the order of their timestamps
    broker,    \* what the broker was given: who sent each task and its root_id
    handlers   \* the handlers

retryVars == <<rels, rows, broker, handlers>>

-----------------------------------------------------------------------------
\* A row of retry_relationships.  The chain is a JSON list; only its members matter.
Relation == [original : Tasks, chain : SUBSET Tasks, total : Nat]
NoRow    == [original |-> None, chain |-> {}, total |-> 0]

\* The columns of a row of task_events that retries read or write (retry_count, which
\* is only shown, is left out).
EventRow == [root : Tasks, retriedBy : SUBSET Tasks, hasRetries : BOOLEAN]

Senders == {"nobody", "application", "workflow", "request"}
Unsent  == [by |-> "nobody", of |-> None, root |-> None]
Message == [by : Senders, of : Tasks \cup {None}, root : Tasks \cup {None}]

Handler ==
    [pc : {"idle", "decided", "parent", "events", "recorded"},
     by : {"workflow", "request"},
     of : Tasks \cup {None},               \* the task to retry
     new : Tasks \cup {None},              \* new_task_id
     root : Tasks \cup {None},             \* the root the new task will have
     parent : Relation \cup {NoRow},       \* the row of the task, as read
     events : Seq(EventRow),               \* its events, as read
     gone : BOOLEAN]                       \* an event read was deleted since
Idle == [pc |-> "idle", by |-> "request", of |-> None, new |-> None, root |-> None,
         parent |-> NoRow, events |-> <<>>, gone |-> FALSE]

Init ==
    /\ rels = [t \in Tasks |-> NoRow]
    /\ rows = [t \in Tasks |-> <<>>]
    /\ broker = [t \in Tasks |-> IF t \in Originals
                                   THEN [by |-> "application", of |-> None, root |-> t]
                                   ELSE Unsent]
    /\ handlers = [h \in Handlers |-> Idle]

\* The tasks recorded as retries of t.
Retries(t) == {c \in Tasks \ {t} : rels[c].original = t}

-----------------------------------------------------------------------------
(* The event thread and retention.                                         *)

\* _bulk_enrich_with_retry_info and _populate_retry_info for an event of t: the
\* retries in the chain that have events themselves.
Listed(t) == {c \in rels[t].chain : rows[c] # <<>>}

\* The events stored (for the bound).
Stored == MapThenSumSet(LAMBDA t : Len(rows[t]), Tasks)

\* An event of a task arrives and is saved with its retries.  Celery puts root_id
\* into task-sent and task-received; for the others from_celery_event takes the
\* task's own id.
SaveEvent(t, carriesRoot) ==
    /\ broker[t].by # "nobody"
    /\ Stored < MaxEvents
    /\ rows' = [rows EXCEPT ![t] = Append(@,
                  [root |-> IF carriesRoot THEN broker[t].root ELSE t,
                   retriedBy |-> Listed(t), hasRetries |-> Listed(t) # {}])]
    /\ UNCHANGED <<rels, broker, handlers>>

\* Retention deletes the events of a task; the relationships have no target.
Forget(t) ==
    /\ rows[t] # <<>>
    /\ rows' = [rows EXCEPT ![t] = <<>>]
    /\ handlers' = [h \in Handlers |->
                      IF handlers[h].of = t /\ handlers[h].events # <<>>
                        THEN [handlers[h] EXCEPT !.gone = TRUE] ELSE handlers[h]]
    /\ UNCHANGED <<rels, broker>>

-----------------------------------------------------------------------------
(* A handler.                                                              *)

\* _count_workflow_retries: the steps from a task back to one that is no retry.
DepthOf(t) ==
    LET depth[n \in Tasks] ==
          IF rels[n].original \in {None, n} THEN 0 ELSE 1 + depth[rels[n].original]
    IN  depth[t]

\* The comparison with max_retries.
WithinLimit(t) == DepthOf(t) < MaxRetries

\* Ids are drawn in order; one that left no trace may be drawn again (a bound: uuids
\* never are).
Drawn == {t \in Tasks : broker[t].by # "nobody" \/ rels[t] # NoRow}
           \cup {handlers[h].new : h \in Handlers}
Fresh == {t \in Tasks \ Drawn : \A u \in Tasks \ Drawn : t <= u}

\* execute and retry_task up to new_task_id.  A count that fails is taken as 0; the
\* request counts nothing.  A retry over the limit ends the action here.  The action
\* hands the root of the latest event on, the request lets Celery start a new one.
Decide(h, t, by, counts) ==
    /\ handlers[h].pc = "idle"
    /\ rows[t] # <<>>
    /\ (by = "workflow" /\ counts) => WithinLimit(t)
    /\ \E new \in Fresh :
         handlers' = [handlers EXCEPT ![h] =
                        [Idle EXCEPT !.pc = "decided", !.by = by, !.of = t, !.new = new,
                           !.root = IF by = "workflow" THEN rows[t][Len(rows[t])].root ELSE new]]
    /\ UNCHANGED <<rels, rows, broker>>

\* The events of the parent after the flush: those that were read.
Marked(current, read, new) ==
    [i \in DOMAIN current |->
       IF i \in DOMAIN read
         THEN [current[i] EXCEPT !.retriedBy = read[i].retriedBy \cup {new},
                                 !.hasRetries = TRUE]
         ELSE current[i]]

\* create_retry_relationship reads the row of the task to be retried ...
ReadParent(h) ==
    LET q == handlers[h]
    IN  /\ q.pc = "decided"
        /\ handlers' = [handlers EXCEPT ![h] = [q EXCEPT !.pc = "parent", !.parent = rels[q.of]]]
        /\ UNCHANGED <<rels, rows, broker>>

\* ... and its events ...
MutReadEvents(h) ==
    LET q == handlers[h]
    IN  /\ q.pc = "parent"
        /\ rows' = [rows EXCEPT ![q.of] = Marked(rows[q.of], rows[q.of], q.new)]
        /\ handlers' = [handlers EXCEPT ![h] = [q EXCEPT !.pc = "events", !.events = rows[q.of]]]
        /\ UNCHANGED <<rels, broker>>
ReadEvents(h) ==
    LET q == handlers[h]
    IN  /\ q.pc = "parent"
        /\ handlers' = [handlers EXCEPT ![h] = [q EXCEPT !.pc = "events", !.events = rows[q.of]]]
        /\ UNCHANGED <<rels, rows, broker>>

\* The parent's row after the flush.  A list that is appended to in place is no change
\* the ORM sees, so the column keeps what it has; a counter is written as computed.
CountedParent(read, current, t, new) ==
    IF read = NoRow
      THEN [original |-> t, chain |-> {new}, total |-> 1]
      ELSE [current EXCEPT !.chain = IF read.chain # {} THEN current.chain ELSE {new},
                           !.total = read.total + 1]

\* ... and flushes and commits: the INSERT of a row another handler has inserted
\* since, or the UPDATE of a deleted event, would fail.
Commits(q) == ~q.gone /\ (q.parent = NoRow => rels[q.of] = NoRow)

\* What is left of a handler that only has to send.
Recorded(q) == [q EXCEPT !.pc = "recorded", !.parent = NoRow, !.events = <<>>, !.gone = FALSE]

Record(h) ==
    LET q == handlers[h]
    IN  /\ q.pc = "events" /\ Commits(q)
        /\ rels' = [rels EXCEPT
                      ![q.new] = [original |-> q.of, chain |-> {}, total |-> 0],
                      ![q.of] = CountedParent(q.parent, rels[q.of], q.of, q.new)]
        /\ rows' = [rows EXCEPT ![q.of] = Marked(rows[q.of], q.events, q.new)]
        /\ handlers' = [handlers EXCEPT ![h] = Recorded(q)]
        /\ UNCHANGED broker

\* A statement or the commit fails: nothing is written, the handler ends.
MutFail(h) ==
    /\ handlers[h].pc \in {"decided", "parent", "events"}
    /\ handlers' = [handlers EXCEPT ![h].pc = "recorded"]
    /\ UNCHANGED <<rels, rows, broker>>
Fail(h) ==
    /\ handlers[h].pc \in {"decided", "parent", "events"}
    /\ handlers' = [handlers EXCEPT ![h] = Idle]
    /\ UNCHANGED <<rels, rows, broker>>

\* send_task.  A send that raises may have reached the broker or not.
Send(h, reached) ==
    LET q == handlers[h]
    IN  /\ q.pc = "recorded"
        /\ broker' = IF reached
                       THEN [broker EXCEPT ![q.new] =
                               [by |-> q.by, of |-> q.of, root |-> q.root]]
                       ELSE broker
        /\ handlers' = [handlers EXCEPT ![h] = Idle]
        /\ UNCHANGED <<rels, rows>>

\* The process ends and starts again.
Restart ==
    /\ handlers' = [h \in Handlers |-> Idle]
    /\ UNCHANGED <<rels, rows, broker>>

-----------------------------------------------------------------------------
Next ==
    \/ \E t \in Tasks :
         \/ \E carriesRoot \in BOOLEAN : SaveEvent(t, carriesRoot)
         \/ Forget(t)
    \/ \E h \in Handlers :
         \/ \E t \in Tasks, by \in {"workflow", "request"}, counts \in BOOLEAN :
              Decide(h, t, by, counts)
         \/ ReadParent(h) \/ ReadEvents(h) \/ Record(h) \/ Fail(h)
         \/ \E reached \in BOOLEAN : Send(h, reached)
    \/ Restart

RetrySpec == Init /\ [][Next]_retryVars

-----------------------------------------------------------------------------
(* Properties.                                                             *)

\* The rows hold what their columns allow.
RetryTypeOK ==
    /\ rels \in [Tasks -> Relation \cup {NoRow}]
    /\ rows \in [Tasks -> Seq(EventRow)]
    /\ broker \in [Tasks -> Message]
    /\ handlers \in [Handlers -> Handler]

\* However the writes of concurrent retries overwrite one another, a task counts as
\* retried exactly when a retry of it is recorded: then its chain is not empty and its
\* total not zero, which is what takes it off the lists of orphans and failures
\* (get_unretried_orphaned_tasks, unretried_failures); neither they nor the marks on
\* its events (get_recent_failed_tasks) name or count a retry that is not recorded.
RetriedIsKnown ==
    \A t \in Tasks :
        /\ rels[t].chain \subseteq Retries(t)
        /\ rels[t].total <= Cardinality(Retries(t))
        /\ Retries(t) # {} <=> rels[t].chain # {}
        /\ Retries(t) # {} <=> rels[t].total # 0
        /\ \A i \in DOMAIN rows[t] :
             /\ rows[t][i].retriedBy \subseteq Retries(t)
             /\ rows[t][i].hasRetries => Retries(t) # {}

\* No retry runs that is not recorded with the task it repeats, whatever fails or
\* crashes: the walk of _count_workflow_retries misses no link.
SentIsRecorded ==
    \A t \in Tasks : broker[t].by \in {"workflow", "request"} =>
        rels[t].original = broker[t].of

\* "List of task IDs in retry chain" (database.py:425): the chain names every retry
\* of the task.
ChainListsEveryRetry == \A t \in Tasks : rels[t].chain = Retries(t)
=============================================================================
