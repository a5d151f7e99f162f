---------------------------- MODULE TaskActions -----------------------------
(***************************************************************************)
(* Bulk actions on tasks: rerun after a review, rerun as it is, resolve    *)
(* and unresolve (src/agent/services/task_action_service.py and            *)
(* src/agent/api/task_action_routes.py).                                   *)
(*                                                                         *)
(* A request runs in a thread of its own with one database session.  It    *)
(* reads task_latest and its own earlier items, publishes tasks to the     *)
(* broker, and records an action with an item for each selected task; the  *)
(* only commit comes last.  What it has written is in its record of        *)
(* requests until then, what it has published is with the broker at once.  *)
(* Next to it run other requests, the event thread, single resolutions and *)
(* retention.                                                              *)
(*                                                                         *)
(* With SerialWriters (SQLite) the first INSERT of a request takes the     *)
(* write lock until its end; without (PostgreSQL, MySQL at READ COMMITTED) *)
(* other sessions commit between its statements.                           *)
(***************************************************************************)
EXTENDS Naturals, FiniteSets

CONSTANTS
    Tasks,          \* task ids: those that ran before, then the uuids still to be drawn
    Originals,      \* tasks of the application
    Requests,       \* API requests
    None,           \* no request, no task
    Plain,          \* call arguments that reach kanchi as they are
    Calls,          \* the arguments the application calls its tasks with
    Menus,          \* bound: the types of action that come together in a behaviour
    MaxVersion,     \* bound: events of a task
    MaxSelection,   \* Config.task_action_max_selection
    SerialWriters   \* one writer at a time, as on SQLite

ASSUME TaskIdsAssumption == Tasks \subseteq Nat /\ IsFiniteSet(Tasks) /\ Originals \subseteq Tasks
ASSUME NoneAssumption == None \notin Requests /\ None \notin Tasks
ASSUME PlainAssumption ==
    Plain \cap {"secret", "long", "odd", "workload", "empty", "redacted", "truncated",
                "unsent", "lost"} = {}
ASSUME BoundsAssumption == MaxVersion \in Nat /\ MaxSelection \in Nat /\ SerialWriters \in BOOLEAN

VARIABLES
    menu,       \* bound: the types of action of this behaviour
    given,      \* the arguments each task was called with; "unsent" while the id is free
    seen,       \* the task_latest row of each task, with the arguments found for it
    resolved,   \* task_resolutions: tasks with a row
    flagged,    \* tasks whose task_latest row says resolved
    published,  \* what the broker accepted from requests
    actions,    \* task_actions with task_action_items, by the request that wrote them
    lineage,    \* task_rerun_relationships, <<original, rerun>>
    requests,   \* the requests
    writer      \* who holds the write lock

actionVars == <<menu, given, seen, resolved, flagged, published, actions, lineage,
                requests, writer>>
storeVars  == <<menu, given, seen, resolved, flagged>>

-----------------------------------------------------------------------------
(* Data.  Arguments are plain, hold a credential that kanchi redacts,      *)
(* were cut short by Celery's repr limit, are a repr kanchi cannot read    *)
(* back (the validators of TaskEvent put an empty list in its place), or   *)
(* are an Airflow workload, of which kanchi keeps the identity.            *)

Secret    == {"secret", "long", "odd", "workload"}
Inputs    == Plain \cup {"empty", "redacted", "truncated"}
Arguments == Plain \cup Secret \cup {"empty", "redacted"}
ASSUME CallsAssumption == Calls \subseteq Plain \cup Secret
Captured(a) == CASE a = "secret" -> "redacted"
                 [] a = "long"   -> "truncated"
                 [] a = "odd"    -> "empty"
                 [] a = "workload" -> "redacted"
                 [] OTHER        -> a

Unseen == [known |-> FALSE, named |-> FALSE, airflow |-> FALSE, inputs |-> "empty", version |-> 0]
Row == [known : BOOLEAN, named : BOOLEAN, airflow : BOOLEAN, inputs : Inputs,
        version : 0..MaxVersion]

ReviewStates == {"replayable", "repairable", "blocked"}
Sources      == {"none", "row", "item"}
Review  == [state : ReviewStates, named : BOOLEAN, baseline : Inputs, from : Sources,
            version : 0..MaxVersion]
Blocked == [state |-> "blocked", named |-> FALSE, baseline |-> "empty", from |-> "none",
            version |-> 0]

Decisions == {"none", "submit", "user_skip", "blocked_skip"}
Kinds     == {"none", "replay", "edited_override", "repaired_override"}
Plan   == [decision : Decisions, inputs : Inputs, kind : Kinds]
NoPlan == [decision |-> "none", inputs |-> "empty", kind |-> "none"]

Outcomes == {"none", "changed", "noop", "created", "skipped_unavailable", "user_skipped",
             "blocked_skipped", "failed"}
Item   == [outcome : Outcomes, attempted : Tasks \cup {None}, inputs : Inputs, kind : Kinds]
NoItem == [outcome |-> "none", attempted |-> None, inputs |-> "empty", kind |-> "none"]
Plainly(outcome) == [NoItem EXCEPT !.outcome = outcome]

ActionTypes == {"rerun", "resolve", "unresolve"}
ASSUME MenusAssumption == Menus \subseteq SUBSET ActionTypes
Statuses    == {"absent", "completed", "partial_success", "failed"}
Action   == [type : ActionTypes, status : Statuses, selection : SUBSET Tasks,
             items : [Tasks -> Item]]
NoAction == [type |-> "rerun", status |-> "absent", selection |-> {},
             items |-> [t \in Tasks |-> NoItem]]

RowWrites == {"none", "insert", "delete"}
Request ==
    [pc : {"idle", "reviewed", "prepared", "open", "loaded", "ended"},
     type : ActionTypes, reviewed : BOOLEAN, selection : SUBSET Tasks, todo : SUBSET Tasks,
     review : [Tasks -> Review], plan : [Tasks -> Plan], items : [Tasks -> Item],
     rowWrite : [Tasks -> RowWrites],    \* pending change of task_resolutions
     flagWrite : [Tasks -> RowWrites],   \* pending change of task_latest.resolved
     at : Tasks \cup {None}, atFlag : BOOLEAN]   \* the loaded task_latest object
Idle ==
    [pc |-> "idle", type |-> "rerun", reviewed |-> FALSE, selection |-> {}, todo |-> {},
     review |-> [t \in Tasks |-> Blocked], plan |-> [t \in Tasks |-> NoPlan],
     items |-> [t \in Tasks |-> NoItem], rowWrite |-> [t \in Tasks |-> "none"],
     flagWrite |-> [t \in Tasks |-> "none"], at |-> None, atFlag |-> FALSE]
Ended == [Idle EXCEPT !.pc = "ended"]

Publication == [request : Requests, of : Tasks, id : Tasks, inputs : Inputs, kind : Kinds]

Init ==
    /\ menu \in Menus
    /\ given \in [Tasks -> Calls \cup {"unsent"}]
    /\ \A t \in Tasks : given[t] = "unsent" <=> t \notin Originals
    /\ seen = [t \in Tasks |-> Unseen]
    /\ resolved = {} /\ flagged = {}
    /\ published = {} /\ lineage = {}
    /\ actions = [r \in Requests |-> NoAction]
    /\ requests = [r \in Requests |-> Idle]
    /\ writer = None

\* A session other than r's may write.
MayWrite(r) == SerialWriters => writer \in {None, r}

-----------------------------------------------------------------------------
(* The event thread, single resolutions and retention, which only need to  *)
(* keep the tables as TaskStore says.                                      *)

\* An event that becomes the newest of its task is saved: the arguments if it carries
\* them, else those of an earlier event; an event knows of no resolution, so the snapshot
\* it replaces loses its mark (TaskStore's Offered).
Observe(t, named, carries) ==
    /\ MayWrite(None)
    /\ given[t] \in Arguments
    /\ carries => named
    /\ seen[t].version < MaxVersion
    /\ seen' = [seen EXCEPT ![t] =
                  [known |-> TRUE, named |-> named,
                   airflow |-> seen[t].airflow \/ (carries /\ given[t] = "workload"),
                   inputs |-> IF carries THEN Captured(given[t]) ELSE seen[t].inputs,
                   version |-> seen[t].version + 1]]
    /\ flagged' = flagged \ {t}
    /\ UNCHANGED <<menu, given, resolved, published, actions, lineage, requests, writer>>

\* Retention deletes a task's events and snapshot.
Forget(t) ==
    /\ MayWrite(None)
    /\ seen[t].known
    /\ seen' = [seen EXCEPT ![t] = [Unseen EXCEPT !.version = seen[t].version]]
    /\ flagged' = flagged \ {t}
    /\ UNCHANGED <<menu, given, resolved, published, actions, lineage, requests, writer>>

MutResolveOne(t, on) ==
    /\ MayWrite(None)
    /\ given[t] \in Arguments /\ "resolve" \in menu
    /\ resolved' = IF on THEN resolved \cup {t} ELSE resolved \ {t}
    /\ flagged' = IF on /\ seen[t].known THEN flagged \cup {t} ELSE flagged
    /\ UNCHANGED <<menu, given, seen, published, actions, lineage, requests, writer>>

\* TaskService.set_task_resolution and clear_task_resolution.
ResolveOne(t, on) ==
    /\ MayWrite(None)
    /\ given[t] \in Arguments /\ "resolve" \in menu
    /\ resolved' = IF on THEN resolved \cup {t} ELSE resolved \ {t}
    /\ flagged' = IF on /\ seen[t].known THEN flagged \cup {t} ELSE flagged \ {t}
    /\ UNCHANGED <<menu, given, seen, published, actions, lineage, requests, writer>>

-----------------------------------------------------------------------------
(* Preflight.                                                              *)

\* The items that recorded a task as their rerun.
SubmittedFor(t) ==
    {i \in Requests \X Tasks : LET item == actions[i[1]].items[i[2]]
                               IN  item.outcome = "created" /\ item.attempted = t}

\* _resolve_rerun_baseline: what a rerun was submitted with, else what was observed.
BaselineSource(t) == IF SubmittedFor(t) # {} THEN "item" ELSE "row"
Baseline(t) ==
    IF SubmittedFor(t) # {}
      THEN LET i == CHOOSE i \in SubmittedFor(t) : TRUE
           IN  actions[i[1]].items[i[2]].inputs
      ELSE seen[t].inputs

MutNeedsInput(b) == b = "truncated"
\* find_placeholder_paths and _find_redacted_paths.
NeedsInput(b) == b \in {"truncated", "redacted"}

\* _preflight_rerun_item.  The fingerprint is a hash of all the fields.  Two ways in which
\* a task that could be rerun is refused are left out: a kanchi whose Celery monitor was
\* not set up blocks them all, and one of another environment is not found.
Preflight(t) ==
    LET row == seen[t]
    IN  CASE ~row.known \/ ~row.named -> Blocked
          [] row.known /\ row.named /\ row.airflow ->
               [Blocked EXCEPT !.named = TRUE]
          [] OTHER ->
               [state |-> IF NeedsInput(Baseline(t)) THEN "repairable" ELSE "replayable",
                named |-> TRUE, baseline |-> Baseline(t), from |-> BaselineSource(t),
                version |-> IF BaselineSource(t) = "item" THEN 0 ELSE row.version]

\* _normalize_task_ids and _validate_selection_size, of ids a client can know.
Selections == {S \in SUBSET {t \in Tasks : given[t] \in Arguments} :
                 S # {} /\ Cardinality(S) <= MaxSelection}

\* POST /task-actions/rerun/preflight and /tasks/{task_id}/rerun/preflight: the
\* client keeps what it is shown.
ReviewRerun(r, S) ==
    /\ requests[r].pc = "idle" /\ "rerun" \in menu
    /\ requests' = [requests EXCEPT ![r] =
                      [Idle EXCEPT !.pc = "reviewed", !.reviewed = TRUE, !.selection = S,
                         !.review = [t \in Tasks |-> IF t \in S THEN Preflight(t) ELSE Blocked]]]
    /\ UNCHANGED <<storeVars, published, actions, lineage, writer>>

-----------------------------------------------------------------------------
(* Requests.                                                               *)

\* What submit_rerun_review demands of a decision and its inputs.
Permitted(review, decision, inputs, single) ==
    \/ decision = "blocked_skip" /\ review.state = "blocked"
    \/ decision = "user_skip" /\ review.state = "repairable" /\ ~single
    \/ decision = "submit" /\ review.state # "blocked" /\ inputs # "truncated"

\* _classify_rerun_kind.
RerunKind(review, inputs) ==
    IF review.state = "repairable" THEN "repaired_override"
    ELSE IF inputs = review.baseline THEN "replay" ELSE "edited_override"

Planned(review, decision, inputs) ==
    IF decision = "submit"
      THEN [decision |-> decision, inputs |-> inputs, kind |-> RerunKind(review, inputs)]
      ELSE [NoPlan EXCEPT !.decision = decision]

\* POST /task-actions/rerun up to the action: every review must be up to date and
\* every decision permitted, else the whole request is refused.
SubmitReview(r, decisions, inputs) ==
    LET q == requests[r]
        accepted == /\ \A t \in q.selection :
                         /\ Preflight(t) = q.review[t]
                         /\ Permitted(q.review[t], decisions[t], inputs[t],
                                      q.selection = {t})
                    /\ \E t \in q.selection : decisions[t] = "submit"
    IN  /\ q.pc = "reviewed"
        /\ requests' = [requests EXCEPT ![r] =
             IF accepted
               THEN [q EXCEPT !.pc = "prepared", !.todo = q.selection,
                       !.plan = [t \in Tasks |->
                                   IF t \in q.selection
                                     THEN Planned(q.review[t], decisions[t], inputs[t])
                                     ELSE NoPlan]]
               ELSE Ended]
        /\ UNCHANGED <<storeVars, published, actions, lineage, writer>>

\* POST /task-actions and /tasks/{task_id}/rerun up to the action.
CreateAction(r, type, S) ==
    /\ requests[r].pc = "idle" /\ type \in menu
    /\ requests' = [requests EXCEPT ![r] =
         IF type = "rerun" /\ \A t \in S : Preflight(t).state # "replayable"
           THEN Ended
           ELSE [Idle EXCEPT !.pc = "prepared", !.type = type, !.selection = S, !.todo = S]]
    /\ UNCHANGED <<storeVars, published, actions, lineage, writer>>

MutOpenAction(r) ==
    /\ requests[r].pc = "prepared"
    /\ MayWrite(r)
    /\ requests' = [requests EXCEPT ![r].pc = "open"]
    /\ UNCHANGED <<storeVars, published, actions, lineage, writer>>

\* INSERT INTO task_actions, status running, flushed at once.
OpenAction(r) ==
    /\ requests[r].pc = "prepared"
    /\ MayWrite(r)
    /\ requests' = [requests EXCEPT ![r].pc = "open"]
    /\ writer' = IF SerialWriters THEN r ELSE None
    /\ UNCHANGED <<storeVars, published, actions, lineage>>

\* _add_item.
WithItem(q, t, item) ==
    [q EXCEPT !.pc = "open", !.todo = q.todo \ {t}, !.items[t] = item, !.at = None]

Record(r, t, item) ==
    /\ requests' = [requests EXCEPT ![r] = WithItem(requests[r], t, item)]
    /\ UNCHANGED <<given, published>>

MutFailedItem(id, inputs, kind) == Plainly("failed")
FailedItem(id, inputs, kind) ==
    [outcome |-> "failed", attempted |-> id, inputs |-> inputs, kind |-> kind]

\* send_task with a new uuid, then the relationship and the item.  A send that
\* raises may have reached the broker all the same.
Send(r, t, inputs, kind) ==
    \E id \in Tasks, reached \in BOOLEAN, raised \in BOOLEAN :
        /\ given[id] = "unsent"
        /\ \A j \in Tasks : given[j] = "unsent" => id <= j
        /\ reached \/ raised
        /\ given' = [given EXCEPT ![id] = IF reached THEN inputs ELSE "lost"]
        /\ published' = IF reached
                          THEN published \cup {[request |-> r, of |-> t, id |-> id,
                                                inputs |-> inputs, kind |-> kind]}
                          ELSE published
        /\ requests' = [requests EXCEPT ![r] = WithItem(requests[r], t,
                          IF raised THEN FailedItem(id, inputs, kind)
                          ELSE [outcome |-> "created", attempted |-> id,
                                inputs |-> inputs, kind |-> kind])]

\* _execute_rerun_submit_items, one item.
SubmittedItem(r, t) ==
    LET plan == requests[r].plan[t]
    IN  /\ requests[r].pc = "open" /\ requests[r].reviewed /\ t \in requests[r].todo
        /\ \/ /\ plan.decision = "user_skip"
              /\ Record(r, t, Plainly("user_skipped"))
           \/ /\ plan.decision = "blocked_skip"
              /\ Record(r, t, Plainly("blocked_skipped"))
           \/ /\ plan.decision = "submit" /\ ~seen[t].known
              /\ Record(r, t, [NoItem EXCEPT !.outcome = "failed", !.inputs = plan.inputs,
                                             !.kind = plan.kind])
           \/ /\ plan.decision = "submit" /\ seen[t].known
              /\ Send(r, t, plan.inputs, plan.kind)
        /\ UNCHANGED <<menu, seen, resolved, flagged, actions, lineage, writer>>

\* _execute_rerun_action, one item: preflight once more, then send what it found.
RerunItem(r, t) ==
    /\ requests[r].pc = "open" /\ requests[r].type = "rerun" /\ ~requests[r].reviewed
    /\ t \in requests[r].todo
    /\ IF Preflight(t).state = "replayable"
         THEN Send(r, t, Baseline(t), "replay")
         ELSE Record(r, t, Plainly("skipped_unavailable"))
    /\ UNCHANGED <<menu, seen, resolved, flagged, actions, lineage, writer>>

\* _execute_resolution_action, one item: the task_latest object is loaded ...
LoadItem(r, t) ==
    /\ requests[r].pc = "open" /\ requests[r].type # "rerun" /\ t \in requests[r].todo
    /\ IF seen[t].known
         THEN requests' = [requests EXCEPT ![r].pc = "loaded", ![r].at = t,
                                           ![r].atFlag = t \in flagged]
         ELSE requests' = [requests EXCEPT ![r] = WithItem(requests[r], t, Plainly("failed"))]
    /\ UNCHANGED <<storeVars, published, actions, lineage, writer>>

\* An attribute is written back when it differs from the loaded one.
FlagChange(loaded, value) ==
    IF loaded = value THEN "none" ELSE IF value THEN "insert" ELSE "delete"

\* ... and changed according to the resolution row read after it.
DecideItem(r) ==
    LET q == requests[r]  t == q.at  exists == t \in resolved
        resolve == q.type = "resolve"
        item == Plainly(IF exists = resolve THEN "noop" ELSE "changed")
        row  == IF exists = resolve THEN "none" ELSE IF resolve THEN "insert" ELSE "delete"
        flag == IF resolve /\ exists THEN "none" ELSE FlagChange(q.atFlag, resolve)
    IN  /\ q.pc = "loaded"
        /\ requests' = [requests EXCEPT ![r] =
                          [WithItem(q, t, item) EXCEPT !.rowWrite[t] = row,
                                                       !.flagWrite[t] = flag]]
        /\ UNCHANGED <<storeVars, published, actions, lineage, writer>>

MutFinalStatus(outcomes) ==
    IF outcomes \cap {"failed", "skipped_unavailable"} = {} THEN "completed"
    ELSE IF outcomes \cap {"changed", "noop", "created"} # {} THEN "partial_success"
    ELSE "failed"

\* _finalize_action, from the outcomes that occur.
FinalStatus(outcomes) ==
    LET missed == outcomes \cap {"failed", "skipped_unavailable", "blocked_skipped"}
        done   == outcomes \cap {"changed", "noop", "created"}
    IN  IF missed = {} THEN "completed"
        ELSE IF done # {} THEN "partial_success" ELSE "failed"

\* The table after the pending writes of a request.
Written(table, writes) ==
    {t \in Tasks : writes[t] = "insert" \/ (t \in table /\ writes[t] # "delete")}

\* The commit.  An INSERT of a resolution that another session has inserted fails.
Commit(r) ==
    LET q == requests[r]
        created == {t \in Tasks : q.items[t].outcome = "created"}
    IN  /\ q.pc = "open" /\ q.todo = {}
        /\ \A t \in resolved : q.rowWrite[t] # "insert"
        /\ resolved' = Written(resolved, q.rowWrite)
        /\ flagged' = {t \in Written(flagged, q.flagWrite) : seen[t].known}
        /\ lineage' = lineage \cup {<<t, q.items[t].attempted>> : t \in created}
        /\ actions' = [actions EXCEPT ![r] =
                         [type |-> q.type, selection |-> q.selection, items |-> q.items,
                          status |-> FinalStatus({q.items[t].outcome : t \in q.selection})]]
        /\ requests' = [requests EXCEPT ![r] = Ended]
        /\ writer' = IF writer = r THEN None ELSE writer
        /\ UNCHANGED <<menu, given, seen, published>>

Active(r) == requests[r].pc \in {"prepared", "open", "loaded"}

MutRollBack(r) ==
    /\ Active(r)
    /\ requests' = [requests EXCEPT ![r] = Ended]
    /\ UNCHANGED <<storeVars, published, actions, lineage, writer>>

\* A statement, a flush or the commit fails: everything written is undone.
RollBack(r) ==
    /\ Active(r)
    /\ requests' = [requests EXCEPT ![r] = Ended]
    /\ writer' = IF writer = r THEN None ELSE writer
    /\ UNCHANGED <<storeVars, published, actions, lineage>>

\* The process ends and starts again.
Restart ==
    /\ requests' = [r \in Requests |-> IF Active(r) THEN Ended ELSE requests[r]]
    /\ writer' = None
    /\ UNCHANGED <<menu, given, seen, resolved, flagged, published, actions, lineage>>

-----------------------------------------------------------------------------
ItemStep(r) ==
    \/ \E t \in Tasks : SubmittedItem(r, t) \/ RerunItem(r, t) \/ LoadItem(r, t)
    \/ DecideItem(r)

Next ==
    \/ \E t \in Tasks :
         \/ \E named, carries \in BOOLEAN : Observe(t, named, carries)
         \/ Forget(t)
         \/ \E on \in BOOLEAN : ResolveOne(t, on)
    \/ \E r \in Requests :
         \/ \E S \in Selections :
              \/ ReviewRerun(r, S)
              \/ \E type \in ActionTypes : CreateAction(r, type, S)
         \/ \E decisions \in [requests[r].selection -> Decisions \ {"none"}],
               inputs \in [requests[r].selection -> Plain \cup
                             {requests[r].review[t].baseline : t \in requests[r].selection}] :
              SubmitReview(r, decisions, inputs)
         \/ OpenAction(r) \/ ItemStep(r) \/ Commit(r) \/ RollBack(r)
    \/ Restart

ActionSpec == Init /\ [][Next]_actionVars

-----------------------------------------------------------------------------
(* Properties. *)

\* The tables hold what their columns allow, and a request with the write lock is
\* one that has begun to write.
ActionsTypeOK ==
    /\ menu \subseteq ActionTypes
    /\ given \in [Tasks -> Arguments \cup {"unsent", "lost"}]
    /\ seen \in [Tasks -> Row]
    /\ resolved \subseteq Tasks /\ flagged \subseteq Tasks
    /\ published \subseteq Publication
    /\ actions \in [Requests -> Action]
    /\ lineage \subseteq Tasks \X Tasks
    /\ requests \in [Requests -> Request]
    /\ writer \in Requests \cup {None}
    /\ writer # None => requests[writer].pc \in {"open", "loaded"}

\* What an action records agrees with what the broker was given: each task that a
\* committed request published is named by the item of its original, with the inputs
\* it was sent with, whether send_task returned or raised after all; an item says
\* created only of a task that was published; and the lineage is that of the created
\* items.  (submitted inputs and attempted_task_id of task_action_items.)
PublishedIsAccountedFor ==
    /\ \A p \in published : actions[p.request].status # "absent" =>
         LET item == actions[p.request].items[p.of]
         IN  item.attempted = p.id /\ item.inputs = p.inputs /\ item.kind = p.kind
    /\ \A r \in Requests, t \in Tasks :
         LET item == actions[r].items[t]
         IN  item.outcome = "created" =>
               [request |-> r, of |-> t, id |-> item.attempted, inputs |-> item.inputs,
                kind |-> item.kind] \in published
    /\ lineage = UNION {{<<t, actions[r].items[t].attempted>> :
                          t \in {t \in Tasks : actions[r].items[t].outcome = "created"}} :
                        r \in Requests}

\* A rerun recorded as a replay runs with the arguments of its original, however
\* the store changed between review and send and through reruns of reruns; if
\* kanchi saw none of them, or none it could read, it runs with none.
ReplayRepeatsOriginal ==
    \A p \in published : p.kind = "replay" => p.inputs \in {given[p.of], "empty"}

\* A committed action is finished and whole: an item for every selected task and for
\* no other, completed only if nothing failed or was unavailable, failed only if
\* nothing was done.
CommittedActionsAreWhole ==
    \A r \in Requests :
        LET a == actions[r]
            Met(os) == \E t \in a.selection : a.items[t].outcome \in os
        IN  a.status # "absent" =>
              /\ \A t \in Tasks : t \in a.selection <=> a.items[t].outcome # "none"
              /\ a.status = "completed" =>
                   ~Met({"failed", "skipped_unavailable", "blocked_skipped"})
              /\ a.status = "failed" => ~Met({"changed", "noop", "created"})

\* task_latest says resolved only of tasks that have a resolution, whichever of bulk and
\* single requests, new events and retention come between: no unresolve leaves the mark
\* behind (_execute_resolution_action, _update_latest_resolution).
MarksAreBacked ==
    flagged \subseteq {t \in resolved : seen[t].known}

\* Action r of the type given is committed in this step, with this outcome for t.
Commits(r, type) ==
    /\ actions[r].status = "absent" /\ actions'[r].status # "absent"
    /\ actions'[r].type = type
OutcomeOf(r, t) == actions[r].items[t].outcome

\* What the items of a bulk action say of the resolutions holds when it is committed,
\* though each was decided by what was read one task at a time, long before: of a resolve,
\* a task changed or found resolved has its resolution and one changed its mark; of an
\* unresolve, a task changed or found unresolved has neither.
ResolutionsTakeEffect ==
    [][\A r \in Requests, t \in Tasks :
         /\ Commits(r, "resolve") =>
              /\ OutcomeOf(r, t)' \in {"changed", "noop"} => t \in resolved'
              /\ OutcomeOf(r, t)' = "changed" => t \in flagged'
         /\ Commits(r, "unresolve") /\ OutcomeOf(r, t)' \in {"changed", "noop"} =>
              t \notin resolved' \cup flagged'
      ]_actionVars
=============================================================================
