----------------------------- MODULE LatestView -----------------------------
(***************************************************************************)
(* What the task_latest table promises (src/agent/database.py, TaskLatestDB:*)
(* "Snapshot of the latest event per task"): next to a log of observations *)
(* per key, a view that always shows the newest observation of each key,   *)
(* newest by timestamp and then by arrival number.  Nothing here says how   *)
(* the view is kept; TaskStore does, and implements this module.           *)
(***************************************************************************)
EXTENDS Integers

CONSTANTS Keys,      \* what is observed (task ids)
          Bodies,    \* what an observation says of its key
          Absent     \* shown for a key nothing is known of

VARIABLES log,       \* set of observations not yet forgotten
          view       \* [Keys -> an observation or Absent]

lvVars == <<log, view>>

Observation == [key : Keys, number : Nat, ts : Nat, body : Bodies]

IsLater(o, p) == o.ts > p.ts \/ (o.ts = p.ts /\ o.number > p.number)

Init == log = {} /\ view = [k \in Keys |-> Absent]

\* A new observation is logged; the view shows it unless it already shows a
\* later one (the wall clock that stamps observations may have stepped back).
Observe(o) ==
    /\ o \in Observation
    /\ \A p \in log : p.number < o.number
    /\ log' = log \cup {o}
    /\ view' = IF view[o.key] = Absent \/ IsLater(o, view[o.key])
                 THEN [view EXCEPT ![o.key] = o]
                 ELSE view

\* Retention forgets keys altogether: log and view lose them together.
Forget(K) ==
    /\ log' = {o \in log : o.key \notin K}
    /\ view' = [k \in Keys |-> IF k \in K THEN Absent ELSE view[k]]

Next == \/ \E o \in log' : Observe(o)
        \/ \E K \in SUBSET Keys : Forget(K)

Spec == Init /\ [][Next]_lvVars
=============================================================================
