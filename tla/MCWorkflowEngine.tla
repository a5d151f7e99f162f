-------------------------- MODULE MCWorkflowEngine --------------------------
(* Small instances of WorkflowEngine for TLC. *)
EXTENDS WorkflowEngine, TLC

CONSTANTS th1, th2, root

MCFields == {"root_id", "task_id", "hostname", "worker_name"}

\* A task of the root fails, and so does the root itself, which has no root_id.
Failed(rootId, taskId) ==
    [trigger |-> "task.failed",
     context |-> [f \in MCFields |-> CASE f = "root_id" -> rootId
                                       [] f = "task_id" -> taskId
                                       [] OTHER -> None]]
MCEvents == {Failed(None, root)}

Flow(priority, perHour, cooldown, breaker) ==
    [trigger |-> "task.failed", priority |-> priority, perHour |-> perHour,
     cooldown |-> cooldown, breaker |-> breaker, accepts |-> MCEvents]
Once == [max |-> 1, window |-> 0, field |-> "root_id"]

\* The retry workflow has a breaker, the notification a rate limit.
MCSettings == "retry" :> Flow(2, 0, 1, Once) @@ "notify" :> Flow(1, 1, 0, None)
MCWorkflows == {"retry", "notify"}

ThreadSymmetry == Permutations({th1, th2})
=============================================================================
