------------------------- MODULE MCOrphanDetection --------------------------
(* Small instances of OrphanDetection for TLC. *)
EXTENDS OrphanDetection, TLC

CONSTANTS t1, h1, h2

Ev(type, host) == [type |-> type, host |-> host, args |-> None,
                   queue |-> None, routing_key |-> "default"]

\* A task received by h1; it may be redelivered to h2 when h1 dies.
MCArrivals == {Ev("task-received", h1), Ev("task-started", h2), Ev("task-succeeded", h2)}
MCTimes == 0..1
=============================================================================
