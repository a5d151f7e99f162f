---------------------------- MODULE MCTaskStore -----------------------------
(* Small instances of TaskStore for TLC. *)
EXTENDS TaskStore, TLC

CONSTANTS t1, t2, h1, h2, p1, q1

Ev(type, host, args, queue, key) ==
    [type |-> type, host |-> host, args |-> args, queue |-> queue, routing_key |-> key]

\* One task's life as Celery reports it: only task-sent carries a queue, and
\* only task-sent and task-received carry arguments.  A second queue-less
\* publisher leaves the literal "default".
MCArrivals ==
    { Ev("task-sent",      h1, None, q1,        q1),
      Ev("task-received",  h2, p1,   None,      "default"),
      Ev("task-started",   h2, None, "default", "default"),
      Ev("task-succeeded", h2, None, None,      "default") }

MCTimes == 0..1
TaskSymmetry == Permutations({t1, t2})
=============================================================================
