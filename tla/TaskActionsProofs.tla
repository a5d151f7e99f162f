-------------------------- MODULE TaskActionsProofs ---------------------------
(***************************************************************************)
(* What holds of TaskActions for any tasks, requests, arguments and sizes  *)
(* of a selection: the columns' types, that an action records what the     *)
(* broker was given, that a replay repeats its original, that a committed  *)
(* action is whole, and, with one writer at a time, that task_latest marks *)
(* only tasks with a resolution and that bulk resolutions take effect.     *)
(*                                                                         *)
(* A request has everything it did in its own record until it commits, so  *)
(* each invariant says of a request under way what its commit will make    *)
(* true of the tables.                                                     *)
(***************************************************************************)
EXTENDS TaskActions, TLAPS

\* What kanchi found for a task is what came of its arguments, or nothing.
SeenInv ==
    \A t \in Tasks :
        /\ seen[t].known => given[t] \in Arguments
        /\ seen[t].inputs # "empty" =>
             given[t] \in Arguments /\ seen[t].inputs = Captured(given[t])

\* What is planned to be sent can be sent, and a replay repeats its original.
PlanInv ==
    \A r \in Requests, t \in Tasks :
        LET plan == requests[r].plan[t]
        IN  plan.decision = "submit" =>
              /\ plan.inputs # "truncated" /\ given[t] \in Arguments
              /\ plan.kind = "replay" => plan.inputs \in {given[t], "empty"}

\* A task that was published runs with the inputs it was sent with, and its original was
\* known: neither changes its arguments any more.
SentInv ==
    \A p \in published :
        given[p.id] = p.inputs /\ p.inputs \in Arguments /\ given[p.of] \in Arguments

\* A request has an item for each selected task that it is done with.
ItemsInv ==
    \A r \in Requests :
        LET q == requests[r]
        IN  /\ q.pc \in {"idle", "reviewed", "prepared"} => \A t \in Tasks : q.items[t] = NoItem
            /\ q.todo \subseteq q.selection
            /\ Active(r) =>
                 \A t \in Tasks : q.items[t].outcome # "none" <=> t \in q.selection \ q.todo
            /\ q.pc = "loaded" => q.at \in q.todo

\* The items of a request that has not ended agree with what it published.
PendingInv ==
    /\ \A p \in published :
         LET q == requests[p.request]  item == q.items[p.of]
         IN  q.pc # "ended" =>
               /\ item.outcome # "none"
               /\ item.attempted = p.id /\ item.inputs = p.inputs /\ item.kind = p.kind
    /\ \A r \in Requests, t \in Tasks :
         LET item == requests[r].items[t]
         IN  item.outcome = "created" =>
               [request |-> r, of |-> t, id |-> item.attempted, inputs |-> item.inputs,
                kind |-> item.kind] \in published
    /\ \A r \in Requests : \/ actions[r] = NoAction
                           \/ actions[r].status # "absent" /\ requests[r].pc = "ended"

\* What a request has decided takes effect: the tables, after its pending writes, mark only
\* tasks with a resolution, and are for each task what its item says.
Effective(q) ==
    /\ \A t \in Tasks : seen[t].known /\ t \in Written(flagged, q.flagWrite) =>
         t \in Written(resolved, q.rowWrite)
    /\ \A t \in Tasks : q.items[t].outcome \in {"changed", "noop"} =>
         /\ t \in Written(resolved, q.rowWrite) <=> q.type = "resolve"
         /\ q.type # "resolve" => t \notin Written(flagged, q.flagWrite)
         /\ q.type = "resolve" /\ q.items[t].outcome = "changed" =>
              seen[t].known /\ t \in Written(flagged, q.flagWrite)

\* A request that has not begun to write has decided nothing.
NoWrites(q) ==
    \A t \in Tasks : /\ q.rowWrite[t] = "none" /\ q.flagWrite[t] = "none"
                     /\ q.items[t].outcome \notin {"changed", "noop"}

\* The writer is alone.
EffectInv ==
    \A r \in Requests :
        LET q == requests[r]
        IN  /\ q.pc \in {"idle", "reviewed", "prepared"} => NoWrites(q)
            /\ q.pc \in {"open", "loaded"} => writer = r /\ Effective(q)
            /\ q.pc = "loaded" => seen[q.at].known /\ (q.atFlag <=> q.at \in flagged)

AccountsInv == SeenInv /\ PlanInv /\ SentInv /\ ItemsInv /\ PendingInv

-----------------------------------------------------------------------------
(* Types. *)

LEMMA Constants ==
  /\ "empty" \in Inputs /\ "redacted" \in Inputs /\ Plain \subseteq Inputs
  /\ Inputs \ {"truncated"} \subseteq Arguments
  /\ "unsent" \notin Arguments /\ "lost" \notin Arguments
  /\ 0 \in 0..MaxVersion /\ None \notin Tasks
BY PlainAssumption, BoundsAssumption, NoneAssumption DEF Inputs, Arguments, Secret

LEMMA CapturedType == ASSUME NEW a \in Arguments PROVE Captured(a) \in Inputs
BY PlainAssumption DEF Captured, Inputs, Arguments, Secret

\* Arguments that kanchi can read and that are complete are what the task was called with.
LEMMA CapturedReadable ==
  ASSUME NEW a \in Arguments, ~NeedsInput(Captured(a))
  PROVE  Captured(a) \in {a, "empty"}
BY PlainAssumption DEF Captured, NeedsInput, Arguments, Secret

LEMMA ItemTypes ==
  /\ NoItem \in Item /\ \A outcome \in Outcomes : Plainly(outcome) \in Item
  /\ \A outcome \in Outcomes : Plainly(outcome).outcome = outcome
  /\ NoPlan \in Plan /\ Blocked \in Review /\ Blocked.state = "blocked"
BY Constants DEF NoItem, Item, Plainly, Outcomes, Kinds, NoPlan, Plan, Decisions, Blocked, Review,
   ReviewStates, Sources

LEMMA IdleType ==
  /\ Idle \in Request /\ Ended \in Request
  /\ Ended.pc = "ended" /\ Ended.todo = {} /\ Ended.selection = {}
  /\ Ended.plan = Idle.plan /\ Ended.items = Idle.items
  /\ \A t \in Tasks : Idle.plan[t] = NoPlan /\ Idle.items[t] = NoItem
BY ItemTypes DEF Idle, Ended, Request, ActionTypes, RowWrites

LEMMA BaselineType == ASSUME ActionsTypeOK, NEW t \in Tasks PROVE Baseline(t) \in Inputs
<1>1. CASE SubmittedFor(t) # {}
  <2> DEFINE i == CHOOSE i \in SubmittedFor(t) : TRUE
  <2>1. i \in SubmittedFor(t)
    BY <1>1
  <2>2. i \in Requests \X Tasks
    BY <2>1 DEF SubmittedFor
  <2> HIDE DEF i
  <2>3. actions[i[1]].items[i[2]] \in Item
    BY <2>2 DEF ActionsTypeOK, Action
  <2>4. actions[i[1]].items[i[2]].inputs \in Inputs
    BY <2>3 DEF Item
  <2> QED BY <1>1, <2>4 DEF Baseline, i
<1>2. CASE SubmittedFor(t) = {}
  BY <1>2 DEF Baseline, ActionsTypeOK, Row
<1> QED BY <1>1, <1>2

\* What a review says is in the types, of a task that may be rerun it was seen, and what it
\* would be rerun with is its baseline.
LEMMA PreflightType ==
  ASSUME ActionsTypeOK, NEW t \in Tasks
  PROVE  /\ Preflight(t) \in Review
         /\ Preflight(t).state # "blocked" => seen[t].known /\ Preflight(t).baseline = Baseline(t)
         /\ Preflight(t).state = "replayable" => ~NeedsInput(Baseline(t))
         /\ Preflight(t).state = "repairable" => NeedsInput(Baseline(t))
<1>1. Baseline(t) \in Inputs
  BY BaselineType
<1>2. seen[t] \in Row
  BY DEF ActionsTypeOK
<1>3. CASE ~seen[t].known \/ ~seen[t].named
  <2>1. Preflight(t) = Blocked
    BY <1>3 DEF Preflight
  <2> QED BY <2>1, ItemTypes
<1>4. CASE seen[t].known /\ seen[t].named /\ seen[t].airflow
  <2>1. Preflight(t) = [Blocked EXCEPT !.named = TRUE]
    BY <1>4 DEF Preflight
  <2> QED BY <2>1, ItemTypes DEF Review, Blocked
<1>5. CASE seen[t].known /\ seen[t].named /\ ~seen[t].airflow
  <2> DEFINE source == BaselineSource(t)
             version == IF source = "item" THEN 0 ELSE seen[t].version
  <2>1. Preflight(t) =
          [state |-> IF NeedsInput(Baseline(t)) THEN "repairable" ELSE "replayable",
           named |-> TRUE, baseline |-> Baseline(t), from |-> source, version |-> version]
    BY <1>5 DEF Preflight
  <2>2. source \in Sources
    BY DEF BaselineSource, Sources
  <2>3. version \in 0..MaxVersion
    BY <1>2, Constants DEF Row
  <2> HIDE DEF source, version
  <2>4. Preflight(t) \in Review
    BY <1>1, <2>1, <2>2, <2>3 DEF Review, ReviewStates
  <2> QED BY <1>5, <2>1, <2>4
<1> QED BY <1>2, <1>3, <1>4, <1>5 DEF Row

LEMMA SelectionsType == ASSUME NEW S \in Selections
                        PROVE  S \subseteq Tasks /\ \A t \in S : given[t] \in Arguments
BY DEF Selections

\* What an item does to the record of its request.
LEMMA WithItemFields ==
  ASSUME NEW q \in Request, NEW t \in Tasks, NEW item \in Item
  PROVE  /\ WithItem(q, t, item) \in Request /\ WithItem(q, t, item).pc = "open"
         /\ WithItem(q, t, item).todo = q.todo \ {t}
         /\ WithItem(q, t, item).selection = q.selection
         /\ WithItem(q, t, item).items = [q.items EXCEPT ![t] = item]
         /\ WithItem(q, t, item).plan = q.plan /\ WithItem(q, t, item).type = q.type
         /\ WithItem(q, t, item).rowWrite = q.rowWrite
         /\ WithItem(q, t, item).flagWrite = q.flagWrite
<1>1. q.items \in [Tasks -> Item] /\ q.todo \in SUBSET Tasks
  BY DEF Request
<1>2. [q.items EXCEPT ![t] = item] \in [Tasks -> Item] /\ q.todo \ {t} \in SUBSET Tasks
  BY <1>1
<1>3. WithItem(q, t, item) = [q EXCEPT !.pc = "open", !.todo = q.todo \ {t},
                                !.items = [q.items EXCEPT ![t] = item], !.at = None]
  BY DEF WithItem
<1> QED BY <1>1, <1>2, <1>3 DEF Request

-----------------------------------------------------------------------------
(* What the steps do to the record of a request, and to what was sent. *)

\* Only the record of r changes, to q.
Becomes(r, q) == requests' = [requests EXCEPT ![r] = q]

LEMMA OnlyOne ==
  ASSUME ActionsTypeOK, NEW r \in Requests, NEW q \in Request, Becomes(r, q)
  PROVE  /\ requests'[r] = q /\ \A s \in Requests : s # r => requests'[s] = requests[s]
         /\ requests' \in [Requests -> Request]
BY DEF ActionsTypeOK, Becomes

LEMMA ReviewStep ==
  ASSUME ActionsTypeOK, NEW r \in Requests, NEW S \in Selections, ReviewRerun(r, S)
  PROVE  /\ requests[r].pc = "idle" /\ UNCHANGED <<storeVars, published, actions, lineage, writer>>
         /\ \E q \in Request :
              /\ Becomes(r, q) /\ q.pc = "reviewed" /\ q.todo = {} /\ q.selection = S
              /\ q.items = Idle.items /\ q.plan = Idle.plan
              /\ q.rowWrite = Idle.rowWrite /\ q.flagWrite = Idle.flagWrite
<1> DEFINE review == [t \in Tasks |-> IF t \in S THEN Preflight(t) ELSE Blocked]
           q == [Idle EXCEPT !.pc = "reviewed", !.reviewed = TRUE, !.selection = S,
                             !.review = review]
<1>1. review \in [Tasks -> Review]
  BY PreflightType, ItemTypes
<1>2. S \in SUBSET Tasks
  BY SelectionsType
<1>3. Becomes(r, q) /\ requests[r].pc = "idle"
      /\ UNCHANGED <<storeVars, published, actions, lineage, writer>>
  BY DEF ReviewRerun, Becomes
<1> HIDE DEF review
<1>4. q \in Request
  BY <1>1, <1>2, IdleType DEF Request
<1>5. /\ q.pc = "reviewed" /\ q.todo = {} /\ q.selection = S
      /\ q.items = Idle.items /\ q.plan = Idle.plan
      /\ q.rowWrite = Idle.rowWrite /\ q.flagWrite = Idle.flagWrite
  BY DEF Idle
<1> HIDE DEF q
<1> QED BY <1>3, <1>4, <1>5

LEMMA CreateStep ==
  ASSUME ActionsTypeOK, NEW r \in Requests, NEW type \in ActionTypes, NEW S \in Selections,
         CreateAction(r, type, S)
  PROVE  /\ requests[r].pc = "idle" /\ UNCHANGED <<storeVars, published, actions, lineage, writer>>
         /\ \/ Becomes(r, Ended)
            \/ \E q \in Request :
                 /\ Becomes(r, q) /\ q.pc = "prepared" /\ q.todo = S /\ q.selection = S
                 /\ q.items = Idle.items /\ q.plan = Idle.plan
                 /\ q.rowWrite = Idle.rowWrite /\ q.flagWrite = Idle.flagWrite
<1> DEFINE q == [Idle EXCEPT !.pc = "prepared", !.type = type, !.selection = S, !.todo = S]
<1>1. S \in SUBSET Tasks
  BY SelectionsType
<1>2. /\ requests[r].pc = "idle" /\ (Becomes(r, q) \/ Becomes(r, Ended))
      /\ UNCHANGED <<storeVars, published, actions, lineage, writer>>
  BY DEF CreateAction, Becomes
<1>3. q \in Request
  BY <1>1, IdleType DEF Request
<1>4. /\ q.pc = "prepared" /\ q.todo = S /\ q.selection = S
      /\ q.items = Idle.items /\ q.plan = Idle.plan
      /\ q.rowWrite = Idle.rowWrite /\ q.flagWrite = Idle.flagWrite
  BY DEF Idle
<1> HIDE DEF q
<1> QED BY <1>2, <1>3, <1>4

\* A plan that submit_rerun_review permits, of a review that is up to date.
LEMMA PlannedIsSendable ==
  ASSUME ActionsTypeOK, NEW t \in Tasks, NEW decision \in Decisions, NEW inputs \in Inputs,
         NEW single, Permitted(Preflight(t), decision, inputs, single)
  PROVE  LET plan == Planned(Preflight(t), decision, inputs)
         IN  /\ plan \in Plan
             /\ plan.decision = "submit" =>
                  /\ plan.inputs # "truncated" /\ seen[t].known
                  /\ plan.kind = "replay" =>
                       plan.inputs = Baseline(t) /\ ~NeedsInput(Baseline(t))
<1> DEFINE review == Preflight(t)
           kind == RerunKind(review, inputs)
<1>1. /\ review \in Review
      /\ review.state # "blocked" => seen[t].known /\ review.baseline = Baseline(t)
      /\ review.state = "replayable" => ~NeedsInput(Baseline(t))
  BY PreflightType
<1>2. review.state \in ReviewStates
  BY <1>1 DEF Review
<1>3. Permitted(review, decision, inputs, single)
  OBVIOUS
<1> HIDE DEF review
<1>4. CASE decision = "submit"
  <2>1. review.state # "blocked" /\ inputs # "truncated"
    BY <1>3, <1>4 DEF Permitted
  <2>2. kind \in Kinds
    BY DEF RerunKind, Kinds
  <2>3. kind = "replay" => review.state = "replayable" /\ inputs = review.baseline
    BY <1>2, <2>1 DEF RerunKind, ReviewStates
  <2> HIDE DEF kind
  <2>4. Planned(review, decision, inputs) = [decision |-> decision, inputs |-> inputs, kind |-> kind]
    BY <1>4 DEF Planned, kind
  <2> QED BY <1>1, <2>1, <2>2, <2>3, <2>4 DEF Plan, review
<1>5. CASE decision # "submit"
  <2>1. Planned(review, decision, inputs) = [NoPlan EXCEPT !.decision = decision]
    BY <1>5 DEF Planned
  <2>2. [NoPlan EXCEPT !.decision = decision] \in Plan
    BY ItemTypes DEF Plan
  <2>3. [NoPlan EXCEPT !.decision = decision].decision # "submit"
    BY <1>5 DEF NoPlan
  <2> QED BY <2>1, <2>2, <2>3 DEF review
<1> QED BY <1>4, <1>5

LEMMA SubmitStep ==
  ASSUME ActionsTypeOK, NEW r \in Requests,
         NEW decisions \in [requests[r].selection -> Decisions \ {"none"}],
         NEW inputs \in [requests[r].selection -> Plain \cup
                           {requests[r].review[t].baseline : t \in requests[r].selection}],
         SubmitReview(r, decisions, inputs)
  PROVE  /\ requests[r].pc = "reviewed"
         /\ UNCHANGED <<storeVars, published, actions, lineage, writer>>
         /\ \/ Becomes(r, Ended)
            \/ \E q \in Request :
                 /\ Becomes(r, q) /\ q.pc = "prepared"
                 /\ q.todo = requests[r].selection /\ q.selection = requests[r].selection
                 /\ q.items = requests[r].items
                 /\ q.rowWrite = requests[r].rowWrite /\ q.flagWrite = requests[r].flagWrite
                 /\ \A t \in Tasks : q.plan[t].decision = "submit" =>
                      /\ q.plan[t].inputs # "truncated" /\ seen[t].known
                      /\ q.plan[t].kind = "replay" =>
                           q.plan[t].inputs = Baseline(t) /\ ~NeedsInput(Baseline(t))
<1> DEFINE p == requests[r]
           plan == [t \in Tasks |-> IF t \in p.selection
                                      THEN Planned(p.review[t], decisions[t], inputs[t])
                                      ELSE NoPlan]
           q == [p EXCEPT !.pc = "prepared", !.todo = p.selection, !.plan = plan]
           accepted == /\ \A t \in p.selection :
                            /\ Preflight(t) = p.review[t]
                            /\ Permitted(p.review[t], decisions[t], inputs[t],
                                         p.selection = {t})
                       /\ \E t \in p.selection : decisions[t] = "submit"
<1>1. /\ p.pc = "reviewed" /\ UNCHANGED <<storeVars, published, actions, lineage, writer>>
      /\ Becomes(r, Ended) \/ (accepted /\ Becomes(r, q))
  BY DEF SubmitReview, Becomes
<1>2. p \in Request /\ p.selection \in SUBSET Tasks
  BY DEF ActionsTypeOK, Request
<1>3. CASE accepted /\ Becomes(r, q)
  <2>1. \A t \in p.selection : decisions[t] \in Decisions /\ inputs[t] \in Inputs
    <3>1. \A t \in p.selection : p.review[t].baseline \in Inputs
      BY <1>2 DEF Request, Review
    <3> QED BY <3>1, Constants
  <2>2. \A t \in p.selection :
          LET pl == Planned(p.review[t], decisions[t], inputs[t])
          IN  /\ pl \in Plan
              /\ pl.decision = "submit" =>
                   /\ pl.inputs # "truncated" /\ seen[t].known
                   /\ pl.kind = "replay" =>
                        pl.inputs = Baseline(t) /\ ~NeedsInput(Baseline(t))
    <3> TAKE t \in p.selection
    <3>1. /\ Preflight(t) = p.review[t] /\ t \in Tasks
          /\ Permitted(Preflight(t), decisions[t], inputs[t], p.selection = {t})
      BY <1>2, <1>3
    <3> QED BY <2>1, <3>1, PlannedIsSendable
  <2>3. NoPlan \in Plan /\ NoPlan.decision # "submit"
    BY ItemTypes DEF NoPlan
  <2>4. /\ plan \in [Tasks -> Plan]
        /\ \A t \in Tasks : plan[t].decision = "submit" =>
             /\ plan[t].inputs # "truncated" /\ seen[t].known
             /\ plan[t].kind = "replay" =>
                  plan[t].inputs = Baseline(t) /\ ~NeedsInput(Baseline(t))
    BY <2>2, <2>3
  <2> HIDE DEF plan, p
  <2>5. q \in Request
    BY <1>2, <2>4 DEF Request
  <2>6. /\ q.pc = "prepared" /\ q.todo = p.selection /\ q.selection = p.selection
        /\ q.items = p.items /\ q.rowWrite = p.rowWrite /\ q.flagWrite = p.flagWrite
        /\ q.plan = plan
    BY <1>2, <2>4 DEF Request
  <2> HIDE DEF q
  <2> QED BY <1>1, <1>3, <2>4, <2>5, <2>6 DEF p
<1> QED BY <1>1, <1>3

\* Where nothing is missing, what a task would be rerun with is what it was called with.
LEMMA BaselineRepeats ==
  ASSUME ActionsTypeOK, SeenInv, SentInv, PublishedIsAccountedFor, NEW t \in Tasks,
         ~NeedsInput(Baseline(t))
  PROVE  Baseline(t) \in {given[t], "empty"}
<1>1. CASE SubmittedFor(t) # {}
  <2> DEFINE i == CHOOSE i \in SubmittedFor(t) : TRUE
             item == actions[i[1]].items[i[2]]
  <2>1. i \in SubmittedFor(t)
    BY <1>1
  <2>2. i \in Requests \X Tasks /\ item.outcome = "created" /\ item.attempted = t
    BY <2>1 DEF SubmittedFor
  <2>3. Baseline(t) = item.inputs
    BY <1>1 DEF Baseline
  <2> HIDE DEF i
  <2>4. [request |-> i[1], of |-> i[2], id |-> item.attempted, inputs |-> item.inputs,
         kind |-> item.kind] \in published
    BY <2>2 DEF PublishedIsAccountedFor
  <2>5. given[item.attempted] = item.inputs
    BY <2>4 DEF SentInv
  <2> QED BY <2>2, <2>3, <2>5
<1>2. CASE SubmittedFor(t) = {}
  <2>1. Baseline(t) = seen[t].inputs
    BY <1>2 DEF Baseline
  <2>2. CASE seen[t].inputs # "empty"
    <3>1. given[t] \in Arguments /\ seen[t].inputs = Captured(given[t])
      BY <2>2 DEF SeenInv
    <3> QED BY <2>1, <3>1, CapturedReadable
  <2> QED BY <2>1, <2>2
<1> QED BY <1>1, <1>2

\* An item of a rerun is recorded, or a task is sent that may be sent.
LEMMA RerunStep ==
  ASSUME ActionsTypeOK, SeenInv, PlanInv, SentInv, PublishedIsAccountedFor,
         NEW r \in Requests, NEW t \in Tasks, SubmittedItem(r, t) \/ RerunItem(r, t)
  PROVE  /\ requests[r].pc = "open" /\ t \in requests[r].todo
         /\ UNCHANGED <<menu, seen, resolved, flagged, actions, lineage, writer>>
         /\ \/ /\ UNCHANGED <<given, published>>
               /\ \E item \in Item : /\ item.outcome \notin {"none", "created", "changed", "noop"}
                                     /\ Becomes(r, WithItem(requests[r], t, item))
            \/ \E inputs \in Inputs, kind \in Kinds :
                 /\ inputs # "truncated" /\ given[t] \in Arguments
                 /\ kind = "replay" => inputs \in {given[t], "empty"}
                 /\ Send(r, t, inputs, kind)
<1>1. CASE SubmittedItem(r, t)
  <2> DEFINE plan == requests[r].plan[t]
             lost == [NoItem EXCEPT !.outcome = "failed", !.inputs = plan.inputs,
                                    !.kind = plan.kind]
  <2>1. /\ requests[r].pc = "open" /\ t \in requests[r].todo
        /\ UNCHANGED <<menu, seen, resolved, flagged, actions, lineage, writer>>
    BY <1>1 DEF SubmittedItem
  <2>2. plan \in Plan
    BY DEF ActionsTypeOK, Request
  <2>3. \/ Record(r, t, Plainly("user_skipped")) \/ Record(r, t, Plainly("blocked_skipped"))
        \/ Record(r, t, lost)
        \/ plan.decision = "submit" /\ seen[t].known /\ Send(r, t, plan.inputs, plan.kind)
    BY <1>1 DEF SubmittedItem
  <2>4. lost \in Item /\ lost.outcome = "failed"
    BY <2>2, ItemTypes DEF Plan, Item, Outcomes, NoItem
  <2>5. plan.decision = "submit" =>
          /\ plan.inputs # "truncated" /\ given[t] \in Arguments
          /\ plan.kind = "replay" => plan.inputs \in {given[t], "empty"}
    BY DEF PlanInv
  <2>6. plan.inputs \in Inputs /\ plan.kind \in Kinds
    BY <2>2 DEF Plan
  <2> HIDE DEF lost, plan
  <2>7. ASSUME NEW item \in Item, item.outcome \notin {"none", "created", "changed", "noop"}, Record(r, t, item)
        PROVE  /\ UNCHANGED <<given, published>>
               /\ Becomes(r, WithItem(requests[r], t, item))
    BY <2>7 DEF Record, Becomes
  <2>8. \A outcome \in {"user_skipped", "blocked_skipped"} :
          Plainly(outcome) \in Item /\ Plainly(outcome).outcome \notin {"none", "created", "changed", "noop"}
    BY ItemTypes DEF Outcomes
  <2>9. CASE plan.decision = "submit" /\ seen[t].known /\ Send(r, t, plan.inputs, plan.kind)
    BY <2>1, <2>5, <2>6, <2>9
  <2> QED BY <2>1, <2>3, <2>4, <2>7, <2>8, <2>9
<1>2. CASE RerunItem(r, t)
  <2>1. /\ requests[r].pc = "open" /\ t \in requests[r].todo
        /\ UNCHANGED <<menu, seen, resolved, flagged, actions, lineage, writer>>
    BY <1>2 DEF RerunItem
  <2>2. CASE Preflight(t).state = "replayable"
    <3>1. Send(r, t, Baseline(t), "replay")
      BY <1>2, <2>2 DEF RerunItem
    <3>2. seen[t].known /\ ~NeedsInput(Baseline(t))
      BY <2>2, PreflightType
    <3>3. given[t] \in Arguments
      BY <3>2 DEF SeenInv
    <3>4. Baseline(t) \in Inputs /\ Baseline(t) # "truncated" /\ "replay" \in Kinds
      BY <3>2, BaselineType DEF NeedsInput, Kinds
    <3>5. Baseline(t) \in {given[t], "empty"}
      BY <3>2, BaselineRepeats
    <3> QED BY <2>1, <3>1, <3>3, <3>4, <3>5
  <2>3. CASE Preflight(t).state # "replayable"
    <3>1. Record(r, t, Plainly("skipped_unavailable"))
      BY <1>2, <2>3 DEF RerunItem
    <3>2. /\ Plainly("skipped_unavailable") \in Item
          /\ Plainly("skipped_unavailable").outcome \notin {"none", "created", "changed", "noop"}
      BY ItemTypes DEF Outcomes
    <3> QED BY <2>1, <3>1, <3>2 DEF Record, Becomes
  <2> QED BY <2>2, <2>3
<1> QED BY <1>1, <1>2

\* What sending does: the id was free, the item names it with what was sent, and the broker
\* has it, or nobody has and the item says failed.
LEMMA SendStep ==
  ASSUME ActionsTypeOK, NEW r \in Requests, NEW t \in Tasks, NEW inputs \in Inputs,
         NEW kind \in Kinds, Send(r, t, inputs, kind)
  PROVE  \E id \in Tasks, item \in Item :
           /\ given[id] = "unsent" /\ Becomes(r, WithItem(requests[r], t, item))
           /\ item.outcome \in {"created", "failed"} /\ item.attempted = id
           /\ item.inputs = inputs /\ item.kind = kind
           /\ \/ /\ given' = [given EXCEPT ![id] = inputs]
                 /\ published' = published \cup {[request |-> r, of |-> t, id |-> id,
                                                  inputs |-> inputs, kind |-> kind]}
              \/ /\ given' = [given EXCEPT ![id] = "lost"] /\ published' = published
                 /\ item.outcome = "failed"
<1>1. PICK id \in Tasks, reached \in BOOLEAN, raised \in BOOLEAN :
        /\ given[id] = "unsent" /\ (reached \/ raised)
        /\ given' = [given EXCEPT ![id] = IF reached THEN inputs ELSE "lost"]
        /\ published' = IF reached
                          THEN published \cup {[request |-> r, of |-> t, id |-> id,
                                                inputs |-> inputs, kind |-> kind]}
                          ELSE published
        /\ Becomes(r, WithItem(requests[r], t,
                        IF raised THEN FailedItem(id, inputs, kind)
                        ELSE [outcome |-> "created", attempted |-> id,
                              inputs |-> inputs, kind |-> kind]))
  BY DEF Send, Becomes
<1> DEFINE item == IF raised THEN FailedItem(id, inputs, kind)
                   ELSE [outcome |-> "created", attempted |-> id, inputs |-> inputs,
                         kind |-> kind]
<1>2. /\ item \in Item /\ item.outcome = (IF raised THEN "failed" ELSE "created")
      /\ item.attempted = id /\ item.inputs = inputs /\ item.kind = kind
  BY DEF FailedItem, Item, Outcomes
<1> HIDE DEF item
<1>3. Becomes(r, WithItem(requests[r], t, item))
  BY <1>1 DEF item
<1>4. \/ /\ given' = [given EXCEPT ![id] = inputs]
         /\ published' = published \cup {[request |-> r, of |-> t, id |-> id,
                                          inputs |-> inputs, kind |-> kind]}
      \/ /\ given' = [given EXCEPT ![id] = "lost"] /\ published' = published
         /\ item.outcome = "failed"
  <2>1. CASE reached
    BY <1>1, <2>1
  <2>2. CASE ~reached
    BY <1>1, <1>2, <2>2
  <2> QED BY <2>1, <2>2
<1>5. item.outcome \in {"created", "failed"}
  BY <1>2
<1>6. given[id] = "unsent"
  BY <1>1
<1> QED BY <1>2, <1>3, <1>4, <1>5, <1>6

LEMMA OpenStep ==
  ASSUME ActionsTypeOK, NEW r \in Requests, OpenAction(r)
  PROVE  /\ requests[r].pc = "prepared" /\ MayWrite(r)
         /\ writer' = IF SerialWriters THEN r ELSE None
         /\ UNCHANGED <<storeVars, published, actions, lineage>>
         /\ \E q \in Request :
              /\ Becomes(r, q) /\ q.pc = "open"
              /\ q.todo = requests[r].todo /\ q.selection = requests[r].selection
              /\ q.items = requests[r].items /\ q.plan = requests[r].plan
              /\ q.type = requests[r].type
              /\ q.rowWrite = requests[r].rowWrite /\ q.flagWrite = requests[r].flagWrite
<1> DEFINE p == requests[r]
           q == [p EXCEPT !.pc = "open"]
<1>1. /\ p.pc = "prepared" /\ MayWrite(r) /\ Becomes(r, q)
      /\ writer' = IF SerialWriters THEN r ELSE None
      /\ UNCHANGED <<storeVars, published, actions, lineage>>
  BY DEF OpenAction, Becomes
<1>2. p \in Request
  BY DEF ActionsTypeOK
<1> HIDE DEF p
<1>3. /\ q \in Request /\ q.pc = "open" /\ q.todo = p.todo /\ q.selection = p.selection
      /\ q.items = p.items /\ q.plan = p.plan /\ q.type = p.type
      /\ q.rowWrite = p.rowWrite /\ q.flagWrite = p.flagWrite
  BY <1>2 DEF Request
<1> HIDE DEF q
<1> QED BY <1>1, <1>3 DEF p

LEMMA LoadStep ==
  ASSUME ActionsTypeOK, NEW r \in Requests, NEW t \in Tasks, LoadItem(r, t)
  PROVE  /\ requests[r].pc = "open" /\ t \in requests[r].todo
         /\ UNCHANGED <<storeVars, published, actions, lineage, writer>>
         /\ \/ \E q \in Request :
                 /\ Becomes(r, q) /\ q.pc = "loaded" /\ q.at = t /\ seen[t].known
                 /\ q.atFlag = (t \in flagged)
                 /\ q.todo = requests[r].todo /\ q.selection = requests[r].selection
                 /\ q.items = requests[r].items /\ q.plan = requests[r].plan
                 /\ q.type = requests[r].type
                 /\ q.rowWrite = requests[r].rowWrite /\ q.flagWrite = requests[r].flagWrite
            \/ \E item \in Item : /\ item.outcome \notin {"none", "created", "changed", "noop"}
                                  /\ Becomes(r, WithItem(requests[r], t, item))
<1> DEFINE p == requests[r]
           q == [p EXCEPT !.pc = "loaded", !.at = t, !.atFlag = t \in flagged]
<1>1. /\ p.pc = "open" /\ t \in p.todo
      /\ UNCHANGED <<storeVars, published, actions, lineage, writer>>
      /\ \/ seen[t].known /\ requests' = [requests EXCEPT ![r].pc = "loaded", ![r].at = t,
                                                          ![r].atFlag = t \in flagged]
         \/ Becomes(r, WithItem(p, t, Plainly("failed")))
  BY DEF LoadItem, Becomes
<1>2. p \in Request
  BY DEF ActionsTypeOK
<1>3. CASE seen[t].known /\ requests' = [requests EXCEPT ![r].pc = "loaded", ![r].at = t,
                                                         ![r].atFlag = t \in flagged]
  <2>1. Becomes(r, q)
    BY <1>3 DEF Becomes, ActionsTypeOK, Request
  <2> HIDE DEF p
  <2> DEFINE flag == t \in flagged
  <2>f. flag \in BOOLEAN /\ q = [p EXCEPT !.pc = "loaded", !.at = t, !.atFlag = flag]
    OBVIOUS
  <2> HIDE DEF flag
  <2>p. [p EXCEPT !.pc = "loaded", !.at = t, !.atFlag = flag] \in Request
    BY <1>2, <2>f DEF Request
  <2>a. [p EXCEPT !.pc = "loaded", !.at = t, !.atFlag = flag].atFlag = flag
    BY <1>2 DEF Request
  <2>2. q \in Request /\ q.pc = "loaded" /\ q.at = t /\ q.atFlag = (t \in flagged)
    <3>1. q.pc = "loaded" /\ q.at = t
      BY <1>2 DEF Request
    <3> HIDE DEF q
    <3> QED BY <2>f, <2>p, <2>a, <3>1 DEF flag
  <2>3. /\ q.todo = p.todo /\ q.selection = p.selection /\ q.items = p.items
        /\ q.type = p.type /\ q.plan = p.plan /\ q.rowWrite = p.rowWrite /\ q.flagWrite = p.flagWrite
    BY <1>2 DEF Request
  <2> HIDE DEF q
  <2> QED BY <1>1, <1>3, <2>1, <2>2, <2>3 DEF p
<1>4. CASE Becomes(r, WithItem(p, t, Plainly("failed")))
  <2>1. Plainly("failed") \in Item /\ Plainly("failed").outcome \notin {"none", "created", "changed", "noop"}
    BY ItemTypes DEF Outcomes
  <2> QED BY <1>1, <1>4, <2>1
<1> QED BY <1>1, <1>3, <1>4

\* The pending writes for a task bring both tables to what the request wants of it.
LEMMA DecideStep ==
  ASSUME ActionsTypeOK, NEW r \in Requests, DecideItem(r), requests[r].at \in Tasks
  PROVE  /\ requests[r].pc = "loaded"
         /\ UNCHANGED <<storeVars, published, actions, lineage, writer>>
         /\ \E item \in Item, row \in RowWrites, flag \in RowWrites, q \in Request :
              LET p == requests[r]  t == p.at  resolve == p.type = "resolve"
              IN  /\ item.outcome = (IF (t \in resolved) = resolve THEN "noop" ELSE "changed")
                  /\ item.outcome \notin {"none", "created"} /\ Becomes(r, q) /\ q.type = p.type
                  /\ q.pc = "open" /\ q.todo = p.todo \ {t} /\ q.selection = p.selection
                  /\ q.items = [p.items EXCEPT ![t] = item] /\ q.plan = p.plan
                  /\ q.rowWrite = [p.rowWrite EXCEPT ![t] = row]
                  /\ q.flagWrite = [p.flagWrite EXCEPT ![t] = flag]
                  /\ row = IF (t \in resolved) = resolve THEN "none"
                           ELSE IF resolve THEN "insert" ELSE "delete"
                  /\ flag = IF resolve /\ t \in resolved THEN "none"
                            ELSE FlagChange(p.atFlag, resolve)
<1> DEFINE p == requests[r]
           t == p.at
           resolve == p.type = "resolve"
           exists == t \in resolved
           item == Plainly(IF exists = resolve THEN "noop" ELSE "changed")
           row == IF exists = resolve THEN "none" ELSE IF resolve THEN "insert" ELSE "delete"
           flag == IF resolve /\ exists THEN "none" ELSE FlagChange(p.atFlag, resolve)
           w == WithItem(p, t, item)
           q == [w EXCEPT !.rowWrite[t] = row, !.flagWrite[t] = flag]
<1>1. /\ p.pc = "loaded" /\ Becomes(r, q)
      /\ UNCHANGED <<storeVars, published, actions, lineage, writer>>
  BY DEF DecideItem, Becomes
<1>2. p \in Request /\ t \in Tasks
  BY DEF ActionsTypeOK
<1>3. row \in RowWrites /\ flag \in RowWrites
  BY DEF RowWrites, FlagChange
<1>4. /\ item \in Item /\ item.outcome \notin {"none", "created"}
      /\ item.outcome = (IF exists = resolve THEN "noop" ELSE "changed")
  BY ItemTypes DEF Outcomes
<1>r. row = IF exists = resolve THEN "none" ELSE IF resolve THEN "insert" ELSE "delete"
  OBVIOUS
<1>f. flag = IF resolve /\ exists THEN "none" ELSE FlagChange(p.atFlag, resolve)
  OBVIOUS
<1> HIDE DEF p, t, item, row, flag
<1>5. /\ w \in Request /\ w.pc = "open" /\ w.todo = p.todo \ {t} /\ w.selection = p.selection
      /\ w.items = [p.items EXCEPT ![t] = item] /\ w.plan = p.plan
      /\ w.type = p.type /\ w.rowWrite = p.rowWrite /\ w.flagWrite = p.flagWrite
  BY <1>2, <1>4, WithItemFields
<1> HIDE DEF w
<1>6. /\ q.rowWrite = [p.rowWrite EXCEPT ![t] = row] /\ q.flagWrite = [p.flagWrite EXCEPT ![t] = flag]
      /\ q.pc = w.pc /\ q.todo = w.todo /\ q.selection = w.selection /\ q.items = w.items
      /\ q.plan = w.plan /\ q.type = w.type
  BY <1>5 DEF Request
<1>7. q \in Request
  <2>1. w.rowWrite \in [Tasks -> RowWrites] /\ w.flagWrite \in [Tasks -> RowWrites]
    BY <1>5 DEF Request
  <2>2. /\ [w.rowWrite EXCEPT ![t] = row] \in [Tasks -> RowWrites]
        /\ [w.flagWrite EXCEPT ![t] = flag] \in [Tasks -> RowWrites]
    BY <1>2, <1>3, <2>1
  <2>3. q = [w EXCEPT !.rowWrite = [w.rowWrite EXCEPT ![t] = row],
                      !.flagWrite = [w.flagWrite EXCEPT ![t] = flag]]
    BY <1>5 DEF Request
  <2> QED BY <1>5, <2>2, <2>3 DEF Request
<1> HIDE DEF q
<1>8. /\ item.outcome = (IF exists = resolve THEN "noop" ELSE "changed")
      /\ item.outcome \notin {"none", "created"} /\ Becomes(r, q) /\ q.type = p.type
      /\ q.pc = "open" /\ q.todo = p.todo \ {t} /\ q.selection = p.selection
      /\ q.items = [p.items EXCEPT ![t] = item] /\ q.plan = p.plan
      /\ q.rowWrite = [p.rowWrite EXCEPT ![t] = row]
      /\ q.flagWrite = [p.flagWrite EXCEPT ![t] = flag]
  BY <1>1, <1>4, <1>5, <1>6
<1>9. /\ row = IF exists = resolve THEN "none" ELSE IF resolve THEN "insert" ELSE "delete"
      /\ flag = IF resolve /\ exists THEN "none" ELSE FlagChange(p.atFlag, resolve)
  BY <1>r, <1>f
<1>10. \E item_1 \in Item, row_1 \in RowWrites, flag_1 \in RowWrites, q_1 \in Request :
         /\ item_1.outcome = (IF exists = resolve THEN "noop" ELSE "changed")
         /\ item_1.outcome \notin {"none", "created"} /\ Becomes(r, q_1) /\ q_1.type = p.type
         /\ q_1.pc = "open" /\ q_1.todo = p.todo \ {t} /\ q_1.selection = p.selection
         /\ q_1.items = [p.items EXCEPT ![t] = item_1] /\ q_1.plan = p.plan
         /\ q_1.rowWrite = [p.rowWrite EXCEPT ![t] = row_1]
         /\ q_1.flagWrite = [p.flagWrite EXCEPT ![t] = flag_1]
         /\ row_1 = IF exists = resolve THEN "none" ELSE IF resolve THEN "insert" ELSE "delete"
         /\ flag_1 = IF resolve /\ exists THEN "none" ELSE FlagChange(p.atFlag, resolve)
  <2> HIDE DEF exists, resolve
  <2> USE <1>3, <1>4, <1>7
  <2> WITNESS item \in Item, row \in RowWrites, flag \in RowWrites, q \in Request
  <2> QED BY <1>8, <1>9
<1> QED BY <1>1, <1>10 DEF p, t

\* A step of the tables only: the event thread, a single resolution, retention.
StoreStep ==
    \E t \in Tasks :
        \/ \E named, carries \in BOOLEAN : Observe(t, named, carries)
        \/ Forget(t)
        \/ \E on \in BOOLEAN : ResolveOne(t, on)

LEMMA StoreStepTouches ==
  ASSUME StoreStep
  PROVE  /\ MayWrite(None) /\ UNCHANGED <<menu, given, published, actions, lineage, requests, writer>>
BY DEF StoreStep, Observe, Forget, ResolveOne

\* The steps of Next by what they can change.
LEMMA NextSteps ==
  ASSUME Next
  PROVE  \/ StoreStep
         \/ \E r \in Requests, S \in Selections :
              ReviewRerun(r, S) \/ \E type \in ActionTypes : CreateAction(r, type, S)
         \/ \E r \in Requests :
              \E decisions \in [requests[r].selection -> Decisions \ {"none"}],
                 inputs \in [requests[r].selection -> Plain \cup
                               {requests[r].review[t].baseline : t \in requests[r].selection}] :
                SubmitReview(r, decisions, inputs)
         \/ \E r \in Requests : OpenAction(r) \/ DecideItem(r) \/ Commit(r) \/ RollBack(r)
         \/ \E r \in Requests, t \in Tasks :
              SubmittedItem(r, t) \/ RerunItem(r, t) \/ LoadItem(r, t)
         \/ Restart
<1>1. CASE \E r \in Requests : ItemStep(r)
  BY <1>1 DEF ItemStep
<1>2. CASE ~\E r \in Requests : ItemStep(r)
  BY <1>2 DEF Next, StoreStep
<1> QED BY <1>1, <1>2

-----------------------------------------------------------------------------
(* Type correctness. *)

LEMMA StoreTypes ==
  ASSUME ActionsTypeOK, StoreStep
  PROVE  ActionsTypeOK'
<1>1. UNCHANGED <<menu, given, published, actions, lineage, requests, writer>>
  BY StoreStepTouches
<1>2. ASSUME NEW t \in Tasks, NEW named \in BOOLEAN, NEW carries \in BOOLEAN,
             Observe(t, named, carries)
      PROVE  seen' \in [Tasks -> Row] /\ resolved' \subseteq Tasks /\ flagged' \subseteq Tasks
  <2> DEFINE airflow == seen[t].airflow \/ (carries /\ given[t] = "workload")
             inputs == IF carries THEN Captured(given[t]) ELSE seen[t].inputs
             row == [known |-> TRUE, named |-> named, airflow |-> airflow, inputs |-> inputs,
                     version |-> seen[t].version + 1]
  <2>1. /\ given[t] \in Arguments /\ seen[t].version < MaxVersion /\ resolved' = resolved
        /\ seen' = [seen EXCEPT ![t] = row] /\ flagged' \subseteq flagged \cup {t}
    BY <1>2 DEF Observe
  <2>2. seen[t] \in Row
    BY DEF ActionsTypeOK
  <2>3. inputs \in Inputs
    BY <2>1, <2>2, CapturedType DEF Row
  <2>4. airflow \in BOOLEAN
    OBVIOUS
  <2>5. seen[t].version + 1 \in 0..MaxVersion
    BY <2>1, <2>2, BoundsAssumption DEF Row
  <2> HIDE DEF airflow, inputs
  <2>6. row \in Row
    BY <2>3, <2>4, <2>5 DEF Row
  <2> HIDE DEF row
  <2> QED BY <2>1, <2>6 DEF ActionsTypeOK
<1>3. ASSUME NEW t \in Tasks, Forget(t)
      PROVE  seen' \in [Tasks -> Row] /\ resolved' \subseteq Tasks /\ flagged' \subseteq Tasks
  <2>1. seen[t] \in Row
    BY DEF ActionsTypeOK
  <2>2. [Unseen EXCEPT !.version = seen[t].version] \in Row
    BY <2>1, Constants DEF Row, Unseen
  <2> QED BY <1>3, <2>2 DEF Forget, ActionsTypeOK
<1>4. ASSUME NEW t \in Tasks, NEW on \in BOOLEAN, ResolveOne(t, on)
      PROVE  seen' \in [Tasks -> Row] /\ resolved' \subseteq Tasks /\ flagged' \subseteq Tasks
  BY <1>4 DEF ResolveOne, ActionsTypeOK
<1>5. seen' \in [Tasks -> Row] /\ resolved' \subseteq Tasks /\ flagged' \subseteq Tasks
  BY <1>2, <1>3, <1>4 DEF StoreStep
<1> QED BY <1>1, <1>5 DEF ActionsTypeOK

\* A request that has begun to write keeps the lock; one that has not does not have it.
LEMMA RecordTypes ==
  ASSUME ActionsTypeOK, NEW r \in Requests, NEW q \in Request, Becomes(r, q),
         UNCHANGED <<menu, seen, resolved, flagged, actions, lineage>>,
         given' \in [Tasks -> Arguments \cup {"unsent", "lost"}],
         published' \subseteq Publication,
         \/ writer' = writer /\ requests[r].pc \notin {"open", "loaded"}
         \/ writer' = writer /\ q.pc \in {"open", "loaded"}
         \/ writer' \in {None, r} /\ q.pc \in {"open", "loaded"}
         \/ writer' = IF writer = r THEN None ELSE writer
  PROVE  ActionsTypeOK'
<1>1. /\ requests'[r] = q /\ \A s \in Requests : s # r => requests'[s] = requests[s]
      /\ requests' \in [Requests -> Request]
  BY OnlyOne
<1>2. writer' \in Requests \cup {None}
  BY DEF ActionsTypeOK
<1>3. writer' # None => requests'[writer'].pc \in {"open", "loaded"}
  <2> SUFFICES ASSUME writer' # None
               PROVE  requests'[writer'].pc \in {"open", "loaded"}
    OBVIOUS
  <2>1. writer # None => writer \in Requests /\ requests[writer].pc \in {"open", "loaded"}
    BY DEF ActionsTypeOK
  <2> QED BY <1>1, <1>2, <2>1
<1> QED BY <1>1, <1>2, <1>3 DEF ActionsTypeOK

LEMMA FinalStatusType ==
  ASSUME NEW outcomes
  PROVE  /\ FinalStatus(outcomes) \in Statuses /\ FinalStatus(outcomes) # "absent"
         /\ FinalStatus(outcomes) = "completed" =>
              outcomes \cap {"failed", "skipped_unavailable", "blocked_skipped"} = {}
         /\ FinalStatus(outcomes) = "failed" =>
              outcomes \cap {"changed", "noop", "created"} = {}
BY DEF FinalStatus, Statuses

\* What the commit of r makes of the tables.
LEMMA CommitStep ==
  ASSUME ActionsTypeOK, PendingInv, NEW r \in Requests, Commit(r)
  PROVE  LET q == requests[r]
             created == {t \in Tasks : q.items[t].outcome = "created"}
             status == FinalStatus({q.items[t].outcome : t \in q.selection})
             action == [type |-> q.type, selection |-> q.selection, items |-> q.items,
                        status |-> status]
         IN  /\ q.pc = "open" /\ q.todo = {} /\ Becomes(r, Ended)
             /\ writer' = IF writer = r THEN None ELSE writer
             /\ UNCHANGED <<menu, given, seen, published>>
             /\ action \in Action /\ actions' = [actions EXCEPT ![r] = action]
             /\ status # "absent"
             /\ lineage' = lineage \cup {<<t, q.items[t].attempted>> : t \in created}
             /\ \A t \in created : q.items[t].attempted \in Tasks
<1> DEFINE q == requests[r]
           outcomes == {q.items[t].outcome : t \in q.selection}
<1>1. /\ q.pc = "open" /\ q.todo = {} /\ Becomes(r, Ended)
      /\ writer' = IF writer = r THEN None ELSE writer
      /\ UNCHANGED <<menu, given, seen, published>>
      /\ actions' = [actions EXCEPT ![r] =
                       [type |-> q.type, selection |-> q.selection, items |-> q.items,
                        status |-> FinalStatus(outcomes)]]
      /\ lineage' = lineage \cup {<<t, q.items[t].attempted>> :
                                    t \in {t \in Tasks : q.items[t].outcome = "created"}}
  BY DEF Commit, Becomes
<1>2. q \in Request
  BY DEF ActionsTypeOK
<1>3. FinalStatus(outcomes) \in Statuses /\ FinalStatus(outcomes) # "absent"
  BY FinalStatusType
<1>4. \A t \in Tasks : q.items[t].outcome = "created" => q.items[t].attempted \in Tasks
  <2> TAKE t \in Tasks
  <2> DEFINE p == [request |-> r, of |-> t, id |-> q.items[t].attempted,
                   inputs |-> q.items[t].inputs, kind |-> q.items[t].kind]
  <2>1. q.items[t].outcome = "created" => p \in published
    BY DEF PendingInv
  <2>2. published \subseteq Publication /\ \A x \in Publication : x.id \in Tasks
    BY DEF ActionsTypeOK, Publication
  <2>3. p.id = q.items[t].attempted
    OBVIOUS
  <2> HIDE DEF p
  <2> QED BY <2>1, <2>2, <2>3
<1> HIDE DEF outcomes
<1>5. [type |-> q.type, selection |-> q.selection, items |-> q.items,
       status |-> FinalStatus(outcomes)] \in Action
  BY <1>2, <1>3 DEF Request, Action
<1> QED BY <1>1, <1>3, <1>4, <1>5 DEF outcomes

LEMMA EndStep ==
  ASSUME ActionsTypeOK, NEW r \in Requests, RollBack(r)
  PROVE  /\ Becomes(r, Ended) /\ Active(r)
         /\ writer' = IF writer = r THEN None ELSE writer
         /\ UNCHANGED <<menu, given, seen, resolved, flagged, published, actions, lineage>>
BY DEF RollBack, Becomes, storeVars

LEMMA NextTypes ==
  ASSUME ActionsTypeOK, AccountsInv, PublishedIsAccountedFor, Next
  PROVE  ActionsTypeOK'
<1>u. given \in [Tasks -> Arguments \cup {"unsent", "lost"}] /\ published \subseteq Publication
  BY DEF ActionsTypeOK
<1>1. CASE StoreStep
  BY <1>1, StoreTypes
<1>2. ASSUME NEW r \in Requests, NEW S \in Selections,
             ReviewRerun(r, S) \/ \E type \in ActionTypes : CreateAction(r, type, S)
      PROVE  ActionsTypeOK'
  <2>1. /\ requests[r].pc = "idle" /\ UNCHANGED <<storeVars, published, actions, lineage, writer>>
        /\ \E q \in Request : Becomes(r, q)
    BY <1>2, ReviewStep, CreateStep, IdleType
  <2> QED BY <1>u, <2>1, RecordTypes DEF storeVars
<1>3. ASSUME NEW r \in Requests,
             NEW decisions \in [requests[r].selection -> Decisions \ {"none"}],
             NEW inputs \in [requests[r].selection -> Plain \cup
                               {requests[r].review[t].baseline : t \in requests[r].selection}],
             SubmitReview(r, decisions, inputs)
      PROVE  ActionsTypeOK'
  <2>1. /\ requests[r].pc = "reviewed"
        /\ UNCHANGED <<storeVars, published, actions, lineage, writer>>
        /\ \E q \in Request : Becomes(r, q)
    BY <1>3, SubmitStep, IdleType
  <2> QED BY <1>u, <2>1, RecordTypes DEF storeVars
<1>4. ASSUME NEW r \in Requests, OpenAction(r)
      PROVE  ActionsTypeOK'
  <2>1. /\ writer' \in {None, r} /\ UNCHANGED <<storeVars, published, actions, lineage>>
        /\ \E q \in Request : Becomes(r, q) /\ q.pc = "open"
    BY <1>4, OpenStep
  <2> QED BY <1>u, <2>1, RecordTypes DEF storeVars
<1>5. ASSUME NEW r \in Requests, DecideItem(r)
      PROVE  ActionsTypeOK'
  <2>1. requests[r].at \in Tasks
    <3>1. requests[r].pc = "loaded"
      BY <1>5 DEF DecideItem
    <3>2. requests[r].at \in requests[r].todo /\ requests[r] \in Request
      BY <3>1 DEF AccountsInv, ItemsInv, ActionsTypeOK
    <3> QED BY <3>2 DEF Request
  <2>2. /\ UNCHANGED <<storeVars, published, actions, lineage, writer>>
        /\ \E q \in Request : Becomes(r, q) /\ q.pc = "open"
    BY <1>5, <2>1, DecideStep
  <2> QED BY <1>u, <2>2, RecordTypes DEF storeVars
<1>6. ASSUME NEW r \in Requests, Commit(r)
      PROVE  ActionsTypeOK'
  <2> DEFINE q == requests[r]
             status == FinalStatus({q.items[t].outcome : t \in q.selection})
             action == [type |-> q.type, selection |-> q.selection, items |-> q.items,
                        status |-> status]
             links == {<<t, q.items[t].attempted>> :
                         t \in {t \in Tasks : q.items[t].outcome = "created"}}
  <2>1. /\ Becomes(r, Ended) /\ writer' = IF writer = r THEN None ELSE writer
        /\ UNCHANGED <<menu, given, seen, published>>
        /\ action \in Action /\ actions' = [actions EXCEPT ![r] = action]
        /\ lineage' = lineage \cup links /\ links \subseteq Tasks \X Tasks
    BY <1>6, CommitStep DEF AccountsInv
  <2>2. resolved' \subseteq Tasks /\ flagged' \subseteq Tasks
    BY <1>6 DEF Commit, Written
  <2>3. /\ requests'[r] = Ended /\ \A s \in Requests : s # r => requests'[s] = requests[s]
        /\ requests' \in [Requests -> Request]
    BY <2>1, OnlyOne, IdleType
  <2>4. /\ writer' \in Requests \cup {None}
        /\ writer' # None => requests'[writer'].pc \in {"open", "loaded"}
    BY <2>1, <2>3 DEF ActionsTypeOK
  <2> HIDE DEF action, links
  <2>5. actions' \in [Requests -> Action] /\ lineage' \subseteq Tasks \X Tasks
    BY <2>1 DEF ActionsTypeOK
  <2> QED BY <2>1, <2>2, <2>3, <2>4, <2>5 DEF ActionsTypeOK
<1>7. ASSUME NEW r \in Requests, RollBack(r)
      PROVE  ActionsTypeOK'
  <2>1. /\ Becomes(r, Ended) /\ writer' = IF writer = r THEN None ELSE writer
        /\ UNCHANGED <<menu, given, seen, resolved, flagged, published, actions, lineage>>
    BY <1>7, EndStep
  <2> QED BY <1>u, <2>1, IdleType, RecordTypes
<1>8. ASSUME NEW r \in Requests, NEW t \in Tasks, SubmittedItem(r, t) \/ RerunItem(r, t)
      PROVE  ActionsTypeOK'
  <2>1. UNCHANGED <<menu, seen, resolved, flagged, actions, lineage, writer>>
    BY <1>8, RerunStep DEF AccountsInv
  <2>2. requests[r] \in Request
    BY DEF ActionsTypeOK
  <2>3. ASSUME NEW item \in Item, Becomes(r, WithItem(requests[r], t, item)),
               UNCHANGED <<given, published>>
        PROVE  ActionsTypeOK'
    <3>1. WithItem(requests[r], t, item) \in Request /\ WithItem(requests[r], t, item).pc = "open"
      BY <2>2, WithItemFields
    <3> QED BY <1>u, <2>1, <2>3, <3>1, RecordTypes
  <2>4. ASSUME NEW inputs \in Inputs, NEW kind \in Kinds, inputs # "truncated",
               Send(r, t, inputs, kind)
        PROVE  ActionsTypeOK'
    <3>1. PICK id \in Tasks, item \in Item :
            /\ Becomes(r, WithItem(requests[r], t, item))
            /\ \/ /\ given' = [given EXCEPT ![id] = inputs]
                  /\ published' = published \cup {[request |-> r, of |-> t, id |-> id,
                                                   inputs |-> inputs, kind |-> kind]}
               \/ /\ given' = [given EXCEPT ![id] = "lost"] /\ published' = published
      BY <2>4, SendStep
    <3>2. inputs \in Arguments
      BY <2>4, Constants
    <3>3. given' \in [Tasks -> Arguments \cup {"unsent", "lost"}]
      BY <1>u, <3>1, <3>2
    <3>4. [request |-> r, of |-> t, id |-> id, inputs |-> inputs, kind |-> kind] \in Publication
      BY DEF Publication
    <3>5. published' \subseteq Publication
      BY <1>u, <3>1, <3>4
    <3>6. WithItem(requests[r], t, item) \in Request /\ WithItem(requests[r], t, item).pc = "open"
      BY <2>2, WithItemFields
    <3> QED BY <2>1, <3>1, <3>3, <3>5, <3>6, RecordTypes
  <2> QED BY <1>8, <2>3, <2>4, RerunStep DEF AccountsInv
<1>9. ASSUME NEW r \in Requests, NEW t \in Tasks, LoadItem(r, t)
      PROVE  ActionsTypeOK'
  <2>1. requests[r] \in Request
    BY DEF ActionsTypeOK
  <2>2. /\ UNCHANGED <<storeVars, published, actions, lineage, writer>>
        /\ \E q \in Request : Becomes(r, q) /\ q.pc \in {"open", "loaded"}
    <3>1. \A item \in Item : /\ WithItem(requests[r], t, item) \in Request
                             /\ WithItem(requests[r], t, item).pc = "open"
      BY <2>1, WithItemFields
    <3>2. UNCHANGED <<storeVars, published, actions, lineage, writer>>
      BY <1>9, LoadStep
    <3>3. \/ \E q \in Request : Becomes(r, q) /\ q.pc = "loaded"
          \/ \E item \in Item : Becomes(r, WithItem(requests[r], t, item))
      BY <1>9, LoadStep
    <3> QED BY <3>1, <3>2, <3>3
  <2> QED BY <1>u, <2>2, RecordTypes DEF storeVars
<1>10. CASE Restart
  BY <1>10, IdleType DEF Restart, ActionsTypeOK
<1> QED BY <1>1, <1>2, <1>3, <1>4, <1>5, <1>6, <1>7, <1>8, <1>9, <1>10, NextSteps

-----------------------------------------------------------------------------
(* The same steps, by what they do to the record of a request. *)

NothingSent == UNCHANGED <<given, published>>

\* The record is new, and its request has done nothing.
Begins(r, q) ==
    /\ requests[r].pc = "idle" /\ NothingSent
    /\ q.pc \in {"reviewed", "prepared"} /\ q.plan = Idle.plan /\ q.items = Idle.items
    /\ q.todo \subseteq q.selection
    /\ q.pc = "prepared" => q.todo = q.selection

\* The decisions on a review are planned.
Submits(r, q) ==
    /\ requests[r].pc = "reviewed" /\ NothingSent
    /\ q.pc = "prepared" /\ q.items = requests[r].items /\ q.todo = q.selection
    /\ \A t \in Tasks : q.plan[t].decision = "submit" =>
         /\ q.plan[t].inputs # "truncated" /\ seen[t].known
         /\ q.plan[t].kind = "replay" => q.plan[t].inputs \in {given[t], "empty"}

\* The action is opened, or the next item is loaded.
Proceeds(r, q) ==
    /\ NothingSent
    /\ q.plan = requests[r].plan /\ q.items = requests[r].items
    /\ q.todo = requests[r].todo /\ q.selection = requests[r].selection
    /\ \/ requests[r].pc = "prepared" /\ q.pc = "open"
       \/ requests[r].pc = "open" /\ q.pc = "loaded" /\ q.at \in q.todo

\* There is an item for t.
Itemized(r, q, t, item) ==
    /\ requests[r].pc \in {"open", "loaded"} /\ t \in requests[r].todo
    /\ q.pc = "open" /\ q.plan = requests[r].plan
    /\ q.items = [requests[r].items EXCEPT ![t] = item]
    /\ q.todo = requests[r].todo \ {t} /\ q.selection = requests[r].selection
    /\ item.outcome # "none"

Ends(r, q) == requests[r].pc # "ended" /\ NothingSent /\ q = Ended

\* A task is sent, as id, for the item for t.
Sends(r, q, t, item, id) ==
    /\ Itemized(r, q, t, item)
    /\ given[id] = "unsent" /\ given[t] \in Arguments
    /\ item.outcome \in {"created", "failed"} /\ item.attempted = id
    /\ item.inputs \in Arguments /\ (item.kind = "replay" => item.inputs \in {given[t], "empty"})
    /\ \/ /\ given' = [given EXCEPT ![id] = item.inputs]
          /\ published' = published \cup {[request |-> r, of |-> t, id |-> id,
                                           inputs |-> item.inputs, kind |-> item.kind]}
       \/ /\ given' = [given EXCEPT ![id] = "lost"] /\ published' = published
          /\ item.outcome = "failed"

RecordStep(r, q) ==
    /\ Becomes(r, q) /\ UNCHANGED <<seen, actions, lineage>>
    /\ \/ Begins(r, q) \/ Submits(r, q) \/ Proceeds(r, q) \/ Ends(r, q)
       \/ \E t \in Tasks, item \in Item :
            /\ Itemized(r, q, t, item) /\ NothingSent /\ item.outcome # "created"
       \/ \E t \in Tasks, item \in Item, id \in Tasks : Sends(r, q, t, item, id)

LEMMA RecordSteps ==
  ASSUME ActionsTypeOK, AccountsInv, PublishedIsAccountedFor, Next
  PROVE  \/ StoreStep \/ Restart
         \/ \E r \in Requests : Commit(r)
         \/ \E r \in Requests, q \in Request : RecordStep(r, q)
<1>a. SeenInv /\ PlanInv /\ SentInv /\ ItemsInv /\ PendingInv
  BY DEF AccountsInv
<1>r. \A r \in Requests : requests[r] \in Request /\ requests[r].todo \in SUBSET Tasks
  BY DEF ActionsTypeOK, Request
<1>e. Ended \in Request
  BY IdleType
<1>1. ASSUME NEW r \in Requests, NEW S \in Selections, ReviewRerun(r, S)
      PROVE  \E q \in Request : RecordStep(r, q)
  BY <1>1, ReviewStep DEF RecordStep, Begins, NothingSent, storeVars
<1>2. ASSUME NEW r \in Requests, NEW S \in Selections, NEW type \in ActionTypes,
             CreateAction(r, type, S)
      PROVE  \E q \in Request : RecordStep(r, q)
  BY <1>2, <1>e, CreateStep DEF RecordStep, Begins, Ends, NothingSent, storeVars
<1>3. ASSUME NEW r \in Requests,
             NEW decisions \in [requests[r].selection -> Decisions \ {"none"}],
             NEW inputs \in [requests[r].selection -> Plain \cup
                               {requests[r].review[t].baseline : t \in requests[r].selection}],
             SubmitReview(r, decisions, inputs)
      PROVE  \E q \in Request : RecordStep(r, q)
  <2>1. \A t \in Tasks : ~NeedsInput(Baseline(t)) => Baseline(t) \in {given[t], "empty"}
    BY <1>a, BaselineRepeats
  <2>2. /\ requests[r].pc = "reviewed" /\ UNCHANGED <<seen, actions, lineage>> /\ NothingSent
        /\ \/ Becomes(r, Ended)
           \/ \E q \in Request :
                /\ Becomes(r, q) /\ q.pc = "prepared" /\ q.todo = q.selection
                /\ q.items = requests[r].items
                /\ \A t \in Tasks : q.plan[t].decision = "submit" =>
                     /\ q.plan[t].inputs # "truncated" /\ seen[t].known
                     /\ q.plan[t].kind = "replay" =>
                          q.plan[t].inputs = Baseline(t) /\ ~NeedsInput(Baseline(t))
    BY <1>3, SubmitStep DEF storeVars, NothingSent
  <2>3. CASE Becomes(r, Ended)
    BY <1>e, <2>2, <2>3 DEF RecordStep, Ends
  <2>4. ASSUME NEW q \in Request, Becomes(r, q), q.pc = "prepared", q.todo = q.selection,
               q.items = requests[r].items,
               \A t \in Tasks : q.plan[t].decision = "submit" =>
                 /\ q.plan[t].inputs # "truncated" /\ seen[t].known
                 /\ q.plan[t].kind = "replay" =>
                      q.plan[t].inputs = Baseline(t) /\ ~NeedsInput(Baseline(t))
        PROVE  RecordStep(r, q)
    <3>1. \A t \in Tasks : q.plan[t].decision = "submit" =>
            /\ q.plan[t].inputs # "truncated" /\ seen[t].known
            /\ q.plan[t].kind = "replay" => q.plan[t].inputs \in {given[t], "empty"}
      BY <2>1, <2>4
    <3>2. Submits(r, q)
      BY <2>2, <2>4, <3>1 DEF Submits
    <3> QED BY <2>2, <2>4, <3>2 DEF RecordStep
  <2> QED BY <2>2, <2>3, <2>4
<1>4. ASSUME NEW r \in Requests, OpenAction(r)
      PROVE  \E q \in Request : RecordStep(r, q)
  BY <1>4, OpenStep DEF RecordStep, Proceeds, NothingSent, storeVars
<1>5. ASSUME NEW r \in Requests, DecideItem(r)
      PROVE  \E q \in Request : RecordStep(r, q)
  <2>1. requests[r].pc = "loaded"
    BY <1>5 DEF DecideItem
  <2>2. requests[r].at \in requests[r].todo /\ requests[r].at \in Tasks
    BY <1>a, <1>r, <2>1 DEF ItemsInv
  <2>3. /\ UNCHANGED <<seen, actions, lineage>> /\ NothingSent
        /\ \E item \in Item, q \in Request :
             /\ item.outcome \notin {"none", "created"} /\ Becomes(r, q)
             /\ q.pc = "open" /\ q.todo = requests[r].todo \ {requests[r].at}
             /\ q.selection = requests[r].selection
             /\ q.items = [requests[r].items EXCEPT ![requests[r].at] = item]
             /\ q.plan = requests[r].plan
    BY <1>5, <2>2, DecideStep DEF storeVars, NothingSent
  <2>4. ASSUME NEW item \in Item, NEW q \in Request,
               item.outcome \notin {"none", "created"}, Becomes(r, q),
               q.pc = "open", q.todo = requests[r].todo \ {requests[r].at},
               q.selection = requests[r].selection,
               q.items = [requests[r].items EXCEPT ![requests[r].at] = item],
               q.plan = requests[r].plan
        PROVE  RecordStep(r, q)
    <3>1. Itemized(r, q, requests[r].at, item)
      BY <2>1, <2>2, <2>4 DEF Itemized
    <3> QED BY <2>2, <2>3, <2>4, <3>1 DEF RecordStep
  <2> QED BY <2>3, <2>4
<1>6. ASSUME NEW r \in Requests, RollBack(r)
      PROVE  \E q \in Request : RecordStep(r, q)
  BY <1>6, <1>e, EndStep DEF RecordStep, Ends, NothingSent, Active
<1>i. ASSUME NEW r \in Requests, NEW t \in Tasks, NEW item \in Item, item.outcome # "none",
             requests[r].pc = "open", t \in requests[r].todo
      PROVE  /\ WithItem(requests[r], t, item) \in Request
             /\ Itemized(r, WithItem(requests[r], t, item), t, item)
  BY <1>r, <1>i, WithItemFields DEF Itemized
<1>7. ASSUME NEW r \in Requests, NEW t \in Tasks, SubmittedItem(r, t) \/ RerunItem(r, t)
      PROVE  \E q \in Request : RecordStep(r, q)
  <2>1. /\ requests[r].pc = "open" /\ t \in requests[r].todo
        /\ UNCHANGED <<seen, actions, lineage>>
    BY <1>7, <1>a, RerunStep
  <2>2. ASSUME NothingSent, NEW item \in Item, item.outcome \notin {"none", "created"},
               Becomes(r, WithItem(requests[r], t, item))
        PROVE  \E q \in Request : RecordStep(r, q)
    BY <1>i, <2>1, <2>2 DEF RecordStep
  <2>3. ASSUME NEW inputs \in Inputs, NEW kind \in Kinds, inputs # "truncated",
               given[t] \in Arguments, kind = "replay" => inputs \in {given[t], "empty"},
               Send(r, t, inputs, kind)
        PROVE  \E q \in Request : RecordStep(r, q)
    <3>1. PICK id \in Tasks, item \in Item :
            /\ given[id] = "unsent" /\ Becomes(r, WithItem(requests[r], t, item))
            /\ item.outcome \in {"created", "failed"} /\ item.attempted = id
            /\ item.inputs = inputs /\ item.kind = kind
            /\ \/ /\ given' = [given EXCEPT ![id] = inputs]
                  /\ published' = published \cup {[request |-> r, of |-> t, id |-> id,
                                                   inputs |-> inputs, kind |-> kind]}
               \/ /\ given' = [given EXCEPT ![id] = "lost"] /\ published' = published
                  /\ item.outcome = "failed"
      BY <2>3, SendStep
    <3> DEFINE q == WithItem(requests[r], t, item)
    <3>2. q \in Request /\ Itemized(r, q, t, item)
      BY <1>i, <2>1, <3>1
    <3>3. inputs \in Arguments
      BY <2>3, Constants
    <3> HIDE DEF q
    <3>4. Sends(r, q, t, item, id)
      BY <2>3, <3>1, <3>2, <3>3 DEF Sends
    <3>5. Becomes(r, q)
      BY <3>1 DEF q
    <3> QED BY <2>1, <3>2, <3>4, <3>5 DEF RecordStep
  <2>4. \/ /\ NothingSent
           /\ \E item \in Item : /\ item.outcome \notin {"none", "created"}
                                 /\ Becomes(r, WithItem(requests[r], t, item))
        \/ \E inputs \in Inputs, kind \in Kinds :
             /\ inputs # "truncated" /\ given[t] \in Arguments
             /\ kind = "replay" => inputs \in {given[t], "empty"}
             /\ Send(r, t, inputs, kind)
    BY <1>7, <1>a, RerunStep DEF NothingSent
  <2> QED BY <2>2, <2>3, <2>4
<1>8. ASSUME NEW r \in Requests, NEW t \in Tasks, LoadItem(r, t)
      PROVE  \E q \in Request : RecordStep(r, q)
  <2>1. /\ requests[r].pc = "open" /\ t \in requests[r].todo
        /\ UNCHANGED <<seen, actions, lineage>> /\ NothingSent
        /\ \/ \E q \in Request :
                /\ Becomes(r, q) /\ q.pc = "loaded" /\ q.at = t
                /\ q.todo = requests[r].todo /\ q.selection = requests[r].selection
                /\ q.items = requests[r].items /\ q.plan = requests[r].plan
           \/ \E item \in Item : /\ item.outcome \notin {"none", "created"}
                                 /\ Becomes(r, WithItem(requests[r], t, item))
    BY <1>8, LoadStep DEF storeVars, NothingSent
  <2>2. ASSUME NEW item \in Item, item.outcome \notin {"none", "created"},
               Becomes(r, WithItem(requests[r], t, item))
        PROVE  \E q \in Request : RecordStep(r, q)
    BY <1>i, <2>1, <2>2 DEF RecordStep
  <2>3. ASSUME NEW q \in Request, Becomes(r, q), q.pc = "loaded", q.at = t,
               q.todo = requests[r].todo, q.selection = requests[r].selection,
               q.items = requests[r].items, q.plan = requests[r].plan
        PROVE  RecordStep(r, q)
    BY <2>1, <2>3 DEF RecordStep, Proceeds
  <2> QED BY <2>1, <2>2, <2>3
<1> QED BY <1>1, <1>2, <1>3, <1>4, <1>5, <1>6, <1>7, <1>8, NextSteps

-----------------------------------------------------------------------------
(* What the steps preserve. *)

\* A task that was called keeps its arguments.
GivenKept == \A t \in Tasks : given[t] \in Arguments => given'[t] = given[t]

\* The committed tables stay, and what is published stays.
LEMMA RecordKeeps ==
  ASSUME ActionsTypeOK, NEW r \in Requests, NEW q \in Request, RecordStep(r, q)
  PROVE  /\ GivenKept /\ UNCHANGED <<seen, actions, lineage>>
         /\ published \subseteq published' /\ requests[r].pc # "ended"
         /\ requests'[r] = q /\ \A s \in Requests : s # r => requests'[s] = requests[s]
         /\ \A p \in published' \ published :
              \E t \in Tasks, item \in Item, id \in Tasks :
                /\ Sends(r, q, t, item, id)
                /\ p = [request |-> r, of |-> t, id |-> id, inputs |-> item.inputs,
                        kind |-> item.kind]
                /\ given'[id] = item.inputs
<1>1. /\ requests'[r] = q /\ \A s \in Requests : s # r => requests'[s] = requests[s]
      /\ UNCHANGED <<seen, actions, lineage>>
  BY OnlyOne DEF RecordStep
<1>2. CASE NothingSent
  <2>1. GivenKept /\ published' = published
    BY <1>2 DEF NothingSent, GivenKept
  <2>2. requests[r].pc # "ended"
    BY DEF RecordStep, Begins, Submits, Proceeds, Ends, Itemized, Sends
  <2> QED BY <1>1, <2>1, <2>2
<1>3. ASSUME NEW t \in Tasks, NEW item \in Item, NEW id \in Tasks, Sends(r, q, t, item, id)
      PROVE  /\ GivenKept /\ published \subseteq published' /\ requests[r].pc # "ended"
             /\ \A p \in published' \ published :
                  /\ p = [request |-> r, of |-> t, id |-> id, inputs |-> item.inputs,
                          kind |-> item.kind]
                  /\ given'[id] = item.inputs
  <2>1. given \in [Tasks -> Arguments \cup {"unsent", "lost"}]
    BY DEF ActionsTypeOK
  <2>2. /\ requests[r].pc \in {"open", "loaded"} /\ given[id] = "unsent"
        /\ \/ /\ given' = [given EXCEPT ![id] = item.inputs]
              /\ published' = published \cup {[request |-> r, of |-> t, id |-> id,
                                               inputs |-> item.inputs, kind |-> item.kind]}
           \/ given' = [given EXCEPT ![id] = "lost"] /\ published' = published
    BY <1>3 DEF Sends, Itemized
  <2>3. GivenKept
    BY <2>1, <2>2, Constants DEF GivenKept
  <2> QED BY <2>1, <2>2, <2>3
<1>4. NothingSent \/ \E t \in Tasks, item \in Item, id \in Tasks : Sends(r, q, t, item, id)
  BY DEF RecordStep, Begins, Submits, Proceeds, Ends
<1> QED BY <1>1, <1>2, <1>3, <1>4

LEMMA NextKeepsGiven ==
  ASSUME ActionsTypeOK, AccountsInv, PublishedIsAccountedFor, Next
  PROVE  GivenKept
<1>1. CASE StoreStep
  BY <1>1, StoreStepTouches DEF GivenKept
<1>2. CASE Restart
  BY <1>2 DEF Restart, GivenKept
<1>3. ASSUME NEW r \in Requests, Commit(r)
      PROVE  GivenKept
  BY <1>3 DEF Commit, GivenKept
<1> QED BY <1>1, <1>2, <1>3, RecordSteps, RecordKeeps

LEMMA SeenStep ==
  ASSUME ActionsTypeOK, AccountsInv, PublishedIsAccountedFor, Next
  PROVE  SeenInv'
<1>1. GivenKept /\ SeenInv
  BY NextKeepsGiven DEF AccountsInv
<1>2. CASE seen' = seen
  BY <1>1, <1>2 DEF SeenInv, GivenKept
<1>3. ASSUME NEW t \in Tasks, NEW named \in BOOLEAN, NEW carries \in BOOLEAN,
             Observe(t, named, carries)
      PROVE  SeenInv'
  <2> DEFINE inputs == IF carries THEN Captured(given[t]) ELSE seen[t].inputs
             row == [known |-> TRUE, named |-> named,
                     airflow |-> seen[t].airflow \/ (carries /\ given[t] = "workload"),
                     inputs |-> inputs, version |-> seen[t].version + 1]
  <2>1. given[t] \in Arguments /\ seen' = [seen EXCEPT ![t] = row] /\ given' = given
    BY <1>3 DEF Observe
  <2>2. inputs # "empty" => inputs = Captured(given[t])
    BY <1>1 DEF SeenInv
  <2> HIDE DEF inputs
  <2>3. row.known /\ row.inputs = inputs
    OBVIOUS
  <2> HIDE DEF row
  <2> QED BY <1>1, <2>1, <2>2, <2>3 DEF SeenInv, ActionsTypeOK
<1>4. ASSUME NEW t \in Tasks, Forget(t)
      PROVE  SeenInv'
  <2> DEFINE row == [Unseen EXCEPT !.version = seen[t].version]
  <2>1. seen' = [seen EXCEPT ![t] = row] /\ given' = given
    BY <1>4 DEF Forget
  <2>2. ~row.known /\ row.inputs = "empty"
    BY DEF Unseen
  <2> HIDE DEF row
  <2> QED BY <1>1, <2>1, <2>2 DEF SeenInv, ActionsTypeOK
<1>5. ASSUME NEW t \in Tasks, NEW on \in BOOLEAN, ResolveOne(t, on)
      PROVE  seen' = seen
  BY <1>5 DEF ResolveOne
<1>6. CASE StoreStep
  BY <1>2, <1>3, <1>4, <1>5, <1>6 DEF StoreStep
<1>7. ASSUME NEW r \in Requests, Commit(r)
      PROVE  seen' = seen
  BY <1>7 DEF Commit
<1>8. CASE Restart
  BY <1>2, <1>8 DEF Restart
<1> QED BY <1>2, <1>6, <1>7, <1>8, RecordSteps, RecordKeeps

LEMMA PlanStep ==
  ASSUME ActionsTypeOK, AccountsInv, PublishedIsAccountedFor, Next
  PROVE  PlanInv'
<1> DEFINE Sendable(plan, t) ==
             plan.decision = "submit" =>
               /\ plan.inputs # "truncated" /\ given[t] \in Arguments
               /\ plan.kind = "replay" => plan.inputs \in {given[t], "empty"}
<1>1. GivenKept
  BY NextKeepsGiven
<1>2. \A r \in Requests, t \in Tasks : Sendable(requests[r].plan[t], t)
  BY DEF AccountsInv, PlanInv
<1>3. \A t \in Tasks : Sendable(Idle.plan[t], t) /\ Sendable(Ended.plan[t], t)
  BY IdleType DEF NoPlan
<1>4. SUFFICES \A r \in Requests, t \in Tasks : Sendable(requests'[r].plan[t], t)
  BY <1>1 DEF PlanInv, GivenKept
<1> HIDE DEF Sendable
<1>5. CASE StoreStep
  BY <1>2, <1>5, StoreStepTouches
<1>6. CASE Restart
  BY <1>2, <1>3, <1>6 DEF Restart
<1>7. ASSUME NEW r \in Requests, Commit(r)
      PROVE  Becomes(r, Ended)
  BY <1>7 DEF Commit, Becomes
<1>8. CASE \E r \in Requests : Commit(r)
  BY <1>2, <1>3, <1>7, <1>8, OnlyOne, IdleType
<1>9. ASSUME NEW r \in Requests, NEW q \in Request, RecordStep(r, q)
      PROVE  \A s \in Requests, t \in Tasks : Sendable(requests'[s].plan[t], t)
  <2>1. requests'[r] = q /\ \A s \in Requests : s # r => requests'[s] = requests[s]
    BY <1>9, RecordKeeps
  <2>2. \A t \in Tasks : Sendable(q.plan[t], t)
    <3>1. CASE q.plan \in {requests[r].plan, Idle.plan, Ended.plan}
      BY <1>2, <1>3, <3>1
    <3>2. CASE Submits(r, q)
      BY <3>2 DEF Submits, Sendable, AccountsInv, SeenInv
    <3> QED BY <1>9, <3>1, <3>2 DEF RecordStep, Begins, Proceeds, Ends, Itemized, Sends
  <2> QED BY <1>2, <2>1, <2>2
<1> QED BY <1>5, <1>6, <1>8, <1>9, RecordSteps

LEMMA SentStep ==
  ASSUME ActionsTypeOK, AccountsInv, PublishedIsAccountedFor, Next
  PROVE  SentInv'
<1>1. GivenKept /\ SentInv
  BY NextKeepsGiven DEF AccountsInv
<1>2. \A p \in published : p.id \in Tasks /\ p.of \in Tasks
  BY DEF ActionsTypeOK, Publication
<1>3. CASE published' = published
  BY <1>1, <1>2, <1>3 DEF SentInv, GivenKept
<1>4. ASSUME NEW r \in Requests, NEW q \in Request, RecordStep(r, q)
      PROVE  SentInv'
  <2>1. SUFFICES ASSUME NEW p \in published'
                 PROVE  given'[p.id] = p.inputs /\ p.inputs \in Arguments
                        /\ given'[p.of] \in Arguments
    BY DEF SentInv
  <2>2. CASE p \in published
    BY <1>1, <1>2, <2>2 DEF SentInv, GivenKept
  <2>3. CASE p \notin published
    <3>1. PICK t \in Tasks, item \in Item, id \in Tasks :
            /\ Sends(r, q, t, item, id)
            /\ p = [request |-> r, of |-> t, id |-> id, inputs |-> item.inputs,
                    kind |-> item.kind]
            /\ given'[id] = item.inputs
      BY <1>4, <2>3, RecordKeeps
    <3>2. item.inputs \in Arguments /\ given[t] \in Arguments
      BY <3>1 DEF Sends
    <3>3. given'[t] \in Arguments
      BY <1>1, <3>2 DEF GivenKept
    <3> QED BY <3>1, <3>2, <3>3
  <2> QED BY <2>2, <2>3
<1>5. published' = published \/ \E r \in Requests, q \in Request : RecordStep(r, q)
  <2>1. CASE StoreStep
    BY <2>1, StoreStepTouches
  <2>2. CASE Restart
    BY <2>2 DEF Restart
  <2>3. ASSUME NEW r \in Requests, Commit(r)
        PROVE  published' = published
    BY <2>3 DEF Commit
  <2> QED BY <2>1, <2>2, <2>3, RecordSteps
<1> QED BY <1>3, <1>4, <1>5


\* The record of a request after a step: it is as it was, ended, or what a step made of it.
LEMMA RecordsAfter ==
  ASSUME ActionsTypeOK, AccountsInv, PublishedIsAccountedFor, Next, NEW s \in Requests
  PROVE  \/ requests'[s] = requests[s]
         \/ requests'[s] = Ended
         \/ RecordStep(s, requests'[s]) /\ requests'[s] \in Request
<1>1. CASE StoreStep
  BY <1>1, StoreStepTouches
<1>2. CASE Restart
  BY <1>2 DEF Restart
<1>3. ASSUME NEW r \in Requests, Commit(r)
      PROVE  requests'[s] \in {requests[s], Ended}
  <2>1. Becomes(r, Ended)
    BY <1>3 DEF Commit, Becomes
  <2> QED BY <2>1, OnlyOne, IdleType
<1> QED BY <1>1, <1>2, <1>3, RecordSteps, RecordKeeps

\* What ItemsInv says of one request.
ItemsOf(q) ==
    /\ q.pc \in {"idle", "reviewed", "prepared"} => \A t \in Tasks : q.items[t] = NoItem
    /\ q.todo \subseteq q.selection
    /\ q.pc \in {"prepared", "open", "loaded"} =>
         \A t \in Tasks : q.items[t].outcome # "none" <=> t \in q.selection \ q.todo
    /\ q.pc = "loaded" => q.at \in q.todo

LEMMA ItemsStep ==
  ASSUME ActionsTypeOK, AccountsInv, PublishedIsAccountedFor, Next
  PROVE  ItemsInv'
<1>1. \A r \in Requests : ItemsOf(requests[r])
  BY DEF AccountsInv, ItemsInv, ItemsOf, Active
<1>2. ItemsOf(Ended)
  BY IdleType DEF ItemsOf
<1>3. SUFFICES ASSUME NEW r \in Requests
               PROVE  ItemsOf(requests'[r])
  BY DEF ItemsInv, ItemsOf, Active
<1>4. ASSUME NEW q \in Request, RecordStep(r, q)
      PROVE  ItemsOf(q)
  <2>1. /\ ItemsOf(requests[r]) /\ requests[r] \in Request
        /\ \A t \in Tasks : requests[r].items[t] \in Item
    BY <1>1 DEF ActionsTypeOK, Request
  <2>2. NoItem.outcome = "none" /\ \A t \in Tasks : Idle.items[t] = NoItem
    BY IdleType DEF NoItem
  <2>3. CASE Begins(r, q)
    BY <2>2, <2>3 DEF Begins, ItemsOf
  <2>4. CASE Submits(r, q)
    BY <2>1, <2>2, <2>4 DEF Submits, ItemsOf
  <2>5. CASE Proceeds(r, q)
    BY <2>1, <2>5 DEF Proceeds, ItemsOf
  <2>6. CASE Ends(r, q)
    BY <1>2, <2>6 DEF Ends
  <2>7. ASSUME NEW t \in Tasks, NEW item \in Item, Itemized(r, q, t, item)
        PROVE  ItemsOf(q)
    <3>1. requests[r].items \in [Tasks -> Item]
      BY <2>1 DEF Request
    <3>2. /\ q.pc = "open" /\ q.todo = requests[r].todo \ {t}
          /\ q.items = [requests[r].items EXCEPT ![t] = item]
          /\ q.selection = requests[r].selection /\ item.outcome # "none"
          /\ requests[r].pc \in {"open", "loaded"} /\ t \in requests[r].todo
      BY <2>7 DEF Itemized
    <3>3. q.todo \subseteq q.selection /\ t \in q.selection
      BY <2>1, <3>2 DEF ItemsOf
    <3>4. ASSUME NEW u \in Tasks
          PROVE  q.items[u].outcome # "none" <=> u \in q.selection \ q.todo
      <4>1. q.items[u] = IF u = t THEN item ELSE requests[r].items[u]
        BY <3>1, <3>2
      <4>2. requests[r].items[u].outcome # "none"
              <=> u \in requests[r].selection \ requests[r].todo
        BY <2>1, <3>2 DEF ItemsOf
      <4> QED BY <3>2, <3>3, <4>1, <4>2
    <3> QED BY <3>2, <3>3, <3>4 DEF ItemsOf
  <2> QED BY <1>4, <2>3, <2>4, <2>5, <2>6, <2>7 DEF RecordStep, Sends
<1> QED BY <1>1, <1>2, <1>4, RecordsAfter

\* The items of a request under way stay while it is under way.
LEMMA ItemsStay ==
  ASSUME ActionsTypeOK, AccountsInv, NEW r \in Requests, NEW q \in Request, RecordStep(r, q),
         q.pc # "ended", NEW t \in Tasks, requests[r].items[t].outcome # "none"
  PROVE  q.items[t] = requests[r].items[t]
<1>1. ItemsOf(requests[r]) /\ requests[r].items \in [Tasks -> Item]
  BY DEF AccountsInv, ItemsInv, ItemsOf, Active, ActionsTypeOK, Request
<1>2. NoItem.outcome = "none"
  BY DEF NoItem
<1>3. ~Begins(r, q)
  BY <1>1, <1>2 DEF Begins, ItemsOf
<1>4. ~Ends(r, q)
  BY IdleType DEF Ends
<1>5. ASSUME NEW u \in Tasks, NEW item \in Item, Itemized(r, q, u, item)
      PROVE  q.items[t] = requests[r].items[t]
  BY <1>1, <1>5 DEF Itemized, ItemsOf
<1> QED BY <1>3, <1>4, <1>5 DEF RecordStep, Submits, Proceeds, Sends

\* A publication as it is recorded for a request and an item.
Published(r, t, item) ==
    [request |-> r, of |-> t, id |-> item.attempted, inputs |-> item.inputs, kind |-> item.kind]

\* An item says created only of a task that was published.
LEMMA CreatedIsPublished ==
  ASSUME ActionsTypeOK, AccountsInv, NEW r \in Requests, NEW q \in Request, RecordStep(r, q),
         NEW t \in Tasks, q.items[t].outcome = "created"
  PROVE  Published(r, t, q.items[t]) \in published'
<1>1. /\ requests[r].items \in [Tasks -> Item] /\ published \subseteq published'
      /\ requests[r].items[t].outcome = "created" =>
           Published(r, t, requests[r].items[t]) \in published
  BY RecordKeeps DEF ActionsTypeOK, Request, AccountsInv, PendingInv, Published
<1>2. Ended.items[t] = NoItem /\ Idle.items[t] = NoItem /\ NoItem.outcome = "none"
  BY IdleType DEF NoItem
<1>3. CASE q.items[t] = requests[r].items[t]
  BY <1>1, <1>3
<1>4. ~Begins(r, q) /\ ~Ends(r, q)
  BY <1>2 DEF Begins, Ends
<1>5. CASE Submits(r, q) \/ Proceeds(r, q)
  BY <1>3, <1>5 DEF Submits, Proceeds
<1>6. ASSUME NEW u \in Tasks, NEW item \in Item, Itemized(r, q, u, item)
      PROVE  q.items[t] = IF t = u THEN item ELSE requests[r].items[t]
  BY <1>1, <1>6 DEF Itemized
<1>7. ASSUME NEW u \in Tasks, NEW item \in Item, Itemized(r, q, u, item),
             item.outcome # "created"
      PROVE  q.items[t] = requests[r].items[t]
  BY <1>6, <1>7
<1>8. ASSUME NEW u \in Tasks, NEW item \in Item, NEW id \in Tasks, Sends(r, q, u, item, id)
      PROVE  Published(r, t, q.items[t]) \in published'
  <2>1. /\ Itemized(r, q, u, item) /\ item.attempted = id
        /\ \/ published' = published \cup {[request |-> r, of |-> u, id |-> id,
                                            inputs |-> item.inputs, kind |-> item.kind]}
           \/ item.outcome = "failed"
    BY <1>8 DEF Sends
  <2>2. CASE item.outcome = "failed"
    BY <1>3, <1>7, <2>1, <2>2
  <2>3. CASE item.outcome # "failed"
    <3>1. Published(r, u, item) \in published'
      BY <2>1, <2>3 DEF Published
    <3> QED BY <1>3, <1>6, <2>1, <3>1
  <2> QED BY <2>2, <2>3
<1> QED BY <1>3, <1>4, <1>5, <1>7, <1>8 DEF RecordStep

\* A request that has an action has ended.
LEMMA ActionEnds ==
  ASSUME PendingInv, NEW r \in Requests
  PROVE  actions[r] = NoAction \/ (actions[r].status # "absent" /\ requests[r].pc = "ended")
<1>1. \A s \in Requests : \/ actions[s] = NoAction
                          \/ actions[s].status # "absent" /\ requests[s].pc = "ended"
  BY DEF PendingInv
<1> QED BY <1>1

LEMMA PendingStep ==
  ASSUME ActionsTypeOK, AccountsInv, PublishedIsAccountedFor, Next
  PROVE  PendingInv'
<1>1. PendingInv /\ \A r \in Requests : requests[r] \in Request
  BY DEF AccountsInv, ActionsTypeOK
<1>e. Ended.pc = "ended" /\ NoItem.outcome = "none" /\ \A t \in Tasks : Ended.items[t] = NoItem
  BY IdleType DEF NoItem
<1>p. \A p \in published : p.request \in Requests /\ p.of \in Tasks
  BY DEF ActionsTypeOK, Publication
<1>u. published \subseteq published'
  <2>1. CASE StoreStep
    BY <2>1, StoreStepTouches
  <2>2. CASE Restart
    BY <2>2 DEF Restart
  <2>3. ASSUME NEW r \in Requests, Commit(r)
        PROVE  published' = published
    BY <2>3 DEF Commit
  <2> QED BY <2>1, <2>2, <2>3, RecordKeeps, RecordSteps
\* The new publication is that of the item which is written with it.
<1>n. ASSUME NEW p \in published' \ published
      PROVE  /\ p.request \in Requests /\ p.of \in Tasks
             /\ LET item == requests'[p.request].items[p.of]
                IN  /\ item.outcome # "none"
                    /\ item.attempted = p.id /\ item.inputs = p.inputs /\ item.kind = p.kind
  <2>1. PICK r \in Requests, q \in Request : RecordStep(r, q)
    <3>1. CASE StoreStep
      BY <3>1, StoreStepTouches
    <3>2. CASE Restart
      BY <3>2 DEF Restart
    <3>3. ASSUME NEW r \in Requests, Commit(r)
          PROVE  published' = published
      BY <3>3 DEF Commit
    <3> QED BY <3>1, <3>2, <3>3, RecordSteps
  <2>2. PICK t \in Tasks, item \in Item, id \in Tasks :
          /\ Sends(r, q, t, item, id)
          /\ p = [request |-> r, of |-> t, id |-> id, inputs |-> item.inputs,
                  kind |-> item.kind]
    BY <2>1, RecordKeeps
  <2>3. requests'[r] = q /\ q.items = [requests[r].items EXCEPT ![t] = item]
        /\ item.attempted = id /\ item.outcome # "none"
    BY <2>1, <2>2, RecordKeeps DEF Sends, Itemized
  <2>4. q.items[t] = item
    BY <1>1, <2>3 DEF Request
  <2> QED BY <2>2, <2>3, <2>4
<1>2. ASSUME NEW p \in published', requests'[p.request].pc # "ended"
      PROVE  LET item == requests'[p.request].items[p.of]
             IN  /\ item.outcome # "none"
                 /\ item.attempted = p.id /\ item.inputs = p.inputs /\ item.kind = p.kind
  <2>1. CASE p \notin published
    BY <1>n, <2>1
  <2>2. CASE p \in published
    <3> DEFINE r == p.request
    <3>1. r \in Requests /\ p.of \in Tasks
      BY <1>p, <2>2
    <3>2. requests[r].pc # "ended" =>
            LET item == requests[r].items[p.of]
            IN  /\ item.outcome # "none"
                /\ item.attempted = p.id /\ item.inputs = p.inputs /\ item.kind = p.kind
      BY <1>1, <2>2 DEF PendingInv
    <3>3. CASE requests'[r] = requests[r]
      BY <1>2, <3>2, <3>3
    <3>4. CASE RecordStep(r, requests'[r]) /\ requests'[r] \in Request
      <4>1. requests[r].pc # "ended"
        BY <3>1, <3>4, RecordKeeps
      <4>2. requests'[r].items[p.of] = requests[r].items[p.of]
        BY <1>2, <3>1, <3>2, <3>4, <4>1, ItemsStay
      <4> QED BY <3>2, <4>1, <4>2
    <3> QED BY <1>2, <1>e, <3>1, <3>3, <3>4, RecordsAfter
  <2> QED BY <2>1, <2>2
<1>3. ASSUME NEW r \in Requests, NEW t \in Tasks, requests'[r].items[t].outcome = "created"
      PROVE  Published(r, t, requests'[r].items[t]) \in published'
  <2>1. requests[r].items[t].outcome = "created" =>
          Published(r, t, requests[r].items[t]) \in published
    BY <1>1 DEF PendingInv, Published
  <2>2. CASE requests'[r].items[t] = requests[r].items[t]
    BY <1>3, <1>u, <2>1, <2>2
  <2>3. CASE RecordStep(r, requests'[r]) /\ requests'[r] \in Request
    BY <1>3, <2>3, CreatedIsPublished
  <2>4. CASE requests'[r] = Ended
    BY <1>3, <1>e, <2>4
  <2> QED BY <2>2, <2>3, <2>4, RecordsAfter
<1>4. ASSUME NEW r \in Requests
      PROVE  actions'[r] = NoAction \/ (actions'[r].status # "absent" /\ requests'[r].pc = "ended")
  <2>1. actions[r] = NoAction \/ (actions[r].status # "absent" /\ requests[r].pc = "ended")
    BY <1>1, ActionEnds
  <2>2. requests[r].pc = "ended" => requests'[r].pc = "ended"
    BY <1>e, RecordsAfter, RecordKeeps
  <2>3. CASE actions' = actions
    BY <2>1, <2>2, <2>3
  <2>4. ASSUME NEW s \in Requests, Commit(s)
        PROVE  actions'[r] = NoAction \/ (actions'[r].status # "absent" /\ requests'[r].pc = "ended")
    <3> DEFINE q == requests[s]
               status == FinalStatus({q.items[t].outcome : t \in q.selection})
               action == [type |-> q.type, selection |-> q.selection, items |-> q.items,
                          status |-> status]
    <3>1. Becomes(s, Ended) /\ actions' = [actions EXCEPT ![s] = action] /\ status # "absent"
      BY <1>1, <2>4, CommitStep
    <3>2. action.status = status
      OBVIOUS
    <3> HIDE DEF action, status
    <3>3. requests'[s].pc = "ended"
      BY <1>e, <3>1, OnlyOne, IdleType
    <3> QED BY <2>1, <2>2, <3>1, <3>2, <3>3 DEF ActionsTypeOK
  <2>5. CASE StoreStep
    BY <2>3, <2>5, StoreStepTouches
  <2>6. CASE Restart
    BY <2>3, <2>6 DEF Restart
  <2> QED BY <2>3, <2>4, <2>5, <2>6, RecordSteps, RecordKeeps
<1> QED BY <1>2, <1>3, <1>4 DEF PendingInv, Published


\* Only a commit writes an action, with its links, of a request that had none.
LEMMA ActionsAfter ==
  ASSUME ActionsTypeOK, AccountsInv, PublishedIsAccountedFor, Next
  PROVE  \/ actions' = actions /\ lineage' = lineage
         \/ \E r \in Requests : Commit(r)
<1>1. CASE StoreStep
  BY <1>1, StoreStepTouches
<1>2. CASE Restart
  BY <1>2 DEF Restart
<1> QED BY <1>1, <1>2, RecordSteps, RecordKeeps

LEMMA PublishedAfter ==
  ASSUME ActionsTypeOK, AccountsInv, PublishedIsAccountedFor, Next
  PROVE  \/ published' = published
         \/ \E r \in Requests, q \in Request : RecordStep(r, q)
<1>1. CASE StoreStep
  BY <1>1, StoreStepTouches
<1>2. CASE Restart
  BY <1>2 DEF Restart
<1>3. ASSUME NEW r \in Requests, Commit(r)
      PROVE  published' = published
  BY <1>3 DEF Commit
<1> QED BY <1>1, <1>2, <1>3, RecordSteps

\* The links of an action.
Links(action) ==
    {<<t, action.items[t].attempted>> : t \in {t \in Tasks : action.items[t].outcome = "created"}}

LEMMA AccountedStep ==
  ASSUME ActionsTypeOK, AccountsInv, PublishedIsAccountedFor, Next
  PROVE  PublishedIsAccountedFor'
<1>1. /\ \A p \in published : actions[p.request].status # "absent" =>
           LET item == actions[p.request].items[p.of]
           IN  item.attempted = p.id /\ item.inputs = p.inputs /\ item.kind = p.kind
      /\ \A r \in Requests, t \in Tasks :
           actions[r].items[t].outcome = "created" =>
             Published(r, t, actions[r].items[t]) \in published
  BY DEF PublishedIsAccountedFor, Published
<1>2. lineage = UNION {Links(actions[r]) : r \in Requests}
  BY DEF PublishedIsAccountedFor, Links
<1>3. ASSUME actions' = actions, lineage' = lineage
      PROVE  PublishedIsAccountedFor'
  <2>1. published \subseteq published'
    BY PublishedAfter, RecordKeeps
  <2>2. ASSUME NEW p \in published' \ published
        PROVE  actions[p.request].status = "absent"
    <3>1. PICK r \in Requests, q \in Request : RecordStep(r, q)
      BY <2>2, PublishedAfter
    <3>2. requests[r].pc # "ended" /\ p.request = r
      BY <2>2, <3>1, RecordKeeps
    <3>3. actions[r] = NoAction
      BY <3>2, ActionEnds DEF AccountsInv
    <3> QED BY <3>2, <3>3 DEF NoAction
  <2>3. \A p \in published' : actions'[p.request].status # "absent" =>
          LET item == actions'[p.request].items[p.of]
          IN  item.attempted = p.id /\ item.inputs = p.inputs /\ item.kind = p.kind
    BY <1>1, <1>3, <2>2
  <2>4. \A r \in Requests, t \in Tasks :
          actions'[r].items[t].outcome = "created" =>
            Published(r, t, actions'[r].items[t]) \in published'
    BY <1>1, <1>3, <2>1
  <2>5. lineage' = UNION {{<<t, actions'[r].items[t].attempted>> :
                            t \in {t \in Tasks : actions'[r].items[t].outcome = "created"}} :
                          r \in Requests}
    BY <1>2, <1>3 DEF Links
  <2> QED BY <2>3, <2>4, <2>5 DEF PublishedIsAccountedFor, Published
<1>4. ASSUME NEW r \in Requests, Commit(r)
      PROVE  PublishedIsAccountedFor'
  <2> DEFINE q == requests[r]
             status == FinalStatus({q.items[t].outcome : t \in q.selection})
             action == [type |-> q.type, selection |-> q.selection, items |-> q.items,
                        status |-> status]
  <2>1. /\ q.pc = "open" /\ published' = published
        /\ actions' = [actions EXCEPT ![r] = action]
        /\ lineage' = lineage \cup
             {<<t, q.items[t].attempted>> : t \in {t \in Tasks : q.items[t].outcome = "created"}}
    BY <1>4, CommitStep DEF AccountsInv
  <2>2. action.items = q.items
    OBVIOUS
  <2>l. lineage' = lineage \cup Links(action)
    BY <2>1, <2>2 DEF Links
  <2> HIDE DEF action
  <2>3. actions'[r] = action /\ \A s \in Requests : s # r => actions'[s] = actions[s]
    BY <2>1 DEF ActionsTypeOK
  <2>4. actions[r] = NoAction
    BY <2>1, ActionEnds DEF AccountsInv
  <2>5. \A p \in published' : actions'[p.request].status # "absent" =>
          LET item == actions'[p.request].items[p.of]
          IN  item.attempted = p.id /\ item.inputs = p.inputs /\ item.kind = p.kind
    <3> SUFFICES ASSUME NEW p \in published, actions'[p.request].status # "absent"
                 PROVE  LET item == actions'[p.request].items[p.of]
                        IN  item.attempted = p.id /\ item.inputs = p.inputs /\ item.kind = p.kind
      BY <2>1
    <3>1. p.request \in Requests
      BY DEF ActionsTypeOK, Publication
    <3>2. CASE p.request = r
      <4>1. LET item == q.items[p.of]
            IN  item.attempted = p.id /\ item.inputs = p.inputs /\ item.kind = p.kind
        BY <2>1, <3>2 DEF AccountsInv, PendingInv
      <4> QED BY <2>2, <2>3, <3>2, <4>1
    <3>3. CASE p.request # r
      BY <1>1, <2>3, <3>1, <3>3
    <3> QED BY <3>2, <3>3
  <2>6. \A s \in Requests, t \in Tasks :
          actions'[s].items[t].outcome = "created" =>
            Published(s, t, actions'[s].items[t]) \in published'
    <3>1. \A t \in Tasks : q.items[t].outcome = "created" =>
            Published(r, t, q.items[t]) \in published
      BY DEF AccountsInv, PendingInv, Published
    <3> QED BY <1>1, <2>1, <2>2, <2>3, <3>1
  <2>7. lineage' = UNION {Links(actions'[s]) : s \in Requests}
    <3>1. Links(NoAction) = {}
      BY DEF Links, NoAction, NoItem
    <3> HIDE DEF q, status
    <3> QED BY <1>2, <2>l, <2>3, <2>4, <3>1
  <2>8. lineage' = UNION {{<<t, actions'[s].items[t].attempted>> :
                            t \in {t \in Tasks : actions'[s].items[t].outcome = "created"}} :
                          s \in Requests}
    BY <2>7 DEF Links
  <2> QED BY <2>5, <2>6, <2>8 DEF PublishedIsAccountedFor, Published
<1> QED BY <1>3, <1>4, ActionsAfter

LEMMA WholeStep ==
  ASSUME ActionsTypeOK, AccountsInv, PublishedIsAccountedFor, CommittedActionsAreWhole, Next
  PROVE  CommittedActionsAreWhole'
<1> DEFINE Met(a, os) == \E t \in a.selection : a.items[t].outcome \in os
           Whole(a) == a.status # "absent" =>
             /\ \A t \in Tasks : t \in a.selection <=> a.items[t].outcome # "none"
             /\ a.status = "completed" =>
                  ~Met(a, {"failed", "skipped_unavailable", "blocked_skipped"})
             /\ a.status = "failed" => ~Met(a, {"changed", "noop", "created"})
<1>1. \A r \in Requests : Whole(actions[r])
  BY DEF CommittedActionsAreWhole
<1>2. SUFFICES \A r \in Requests : Whole(actions'[r])
  BY DEF CommittedActionsAreWhole
<1>3. ASSUME NEW r \in Requests, Commit(r)
      PROVE  \A s \in Requests : Whole(actions'[s])
  <2> DEFINE q == requests[r]
             outcomes == {q.items[t].outcome : t \in q.selection}
             action == [type |-> q.type, selection |-> q.selection, items |-> q.items,
                        status |-> FinalStatus(outcomes)]
  <2>1. /\ q.pc = "open" /\ q.todo = {}
        /\ actions' = [actions EXCEPT ![r] = action]
    BY <1>3, CommitStep DEF AccountsInv
  <2>2. \A t \in Tasks : t \in q.selection <=> q.items[t].outcome # "none"
    BY <2>1 DEF AccountsInv, ItemsInv, Active
  <2>3. Whole(action)
    <3>1. /\ FinalStatus(outcomes) = "completed" =>
               outcomes \cap {"failed", "skipped_unavailable", "blocked_skipped"} = {}
          /\ FinalStatus(outcomes) = "failed" => outcomes \cap {"changed", "noop", "created"} = {}
      BY FinalStatusType
    <3>2. \A t \in q.selection : q.items[t].outcome \in outcomes
      OBVIOUS
    <3> HIDE DEF outcomes, q
    <3> QED BY <2>2, <3>1, <3>2 DEF q
  <2> HIDE DEF action, Whole
  <2> QED BY <1>1, <2>1, <2>3 DEF ActionsTypeOK
<1> HIDE DEF Whole
<1> QED BY <1>1, <1>3, ActionsAfter

LEMMA ReplayStep ==
  ASSUME ActionsTypeOK, AccountsInv, PublishedIsAccountedFor, ReplayRepeatsOriginal, Next
  PROVE  ReplayRepeatsOriginal'
<1>1. SUFFICES ASSUME NEW p \in published', p.kind = "replay"
               PROVE  p.inputs \in {given'[p.of], "empty"}
  BY DEF ReplayRepeatsOriginal
<1>2. GivenKept
  BY NextKeepsGiven
<1>3. CASE p \in published
  <2>1. p.of \in Tasks /\ given[p.of] \in Arguments /\ p.inputs \in {given[p.of], "empty"}
    BY <1>1, <1>3 DEF ActionsTypeOK, Publication, AccountsInv, SentInv, ReplayRepeatsOriginal
  <2> QED BY <1>2, <2>1 DEF GivenKept
<1>4. CASE p \notin published
  <2>1. PICK r \in Requests, q \in Request : RecordStep(r, q)
    BY <1>1, <1>4, PublishedAfter
  <2>2. PICK t \in Tasks, item \in Item, id \in Tasks :
          /\ Sends(r, q, t, item, id)
          /\ p = [request |-> r, of |-> t, id |-> id, inputs |-> item.inputs,
                  kind |-> item.kind]
    BY <1>1, <1>4, <2>1, RecordKeeps
  <2>3. given[t] \in Arguments /\ item.inputs \in {given[t], "empty"}
    BY <1>1, <2>2 DEF Sends
  <2> QED BY <1>2, <2>2, <2>3 DEF GivenKept
<1> QED BY <1>3, <1>4


-----------------------------------------------------------------------------
(* With one writer at a time. *)

\* A request that changes only its own record, and holds the lock if it writes.
LEMMA EffectRecord ==
  ASSUME ActionsTypeOK, EffectInv, NEW r \in Requests, NEW q \in Request, Becomes(r, q),
         UNCHANGED <<seen, resolved, flagged>>,
         q.pc \in {"idle", "reviewed", "prepared"} => NoWrites(q),
         q.pc \in {"open", "loaded"} => writer' = r /\ Effective(q),
         q.pc = "loaded" => seen[q.at].known /\ (q.atFlag <=> q.at \in flagged),
         writer' = writer \/ writer \in {None, r}
  PROVE  EffectInv'
<1>1. requests'[r] = q /\ \A s \in Requests : s # r => requests'[s] = requests[s]
  BY OnlyOne
<1>2. SUFFICES ASSUME NEW s \in Requests
               PROVE  LET p == requests'[s]
                      IN  /\ p.pc \in {"idle", "reviewed", "prepared"} => NoWrites(p)
                          /\ p.pc \in {"open", "loaded"} => writer' = s /\ Effective(p)
                          /\ p.pc = "loaded" => seen[p.at].known /\ (p.atFlag <=> p.at \in flagged)
  BY DEF EffectInv, NoWrites, Effective, Written
<1>3. CASE s = r
  BY <1>1, <1>3
<1>4. CASE s # r
  <2>1. LET p == requests[s]
        IN  /\ p.pc \in {"idle", "reviewed", "prepared"} => NoWrites(p)
            /\ p.pc \in {"open", "loaded"} => writer = s /\ Effective(p)
            /\ p.pc = "loaded" => seen[p.at].known /\ (p.atFlag <=> p.at \in flagged)
    BY DEF EffectInv, NoWrites, Effective
  <2> QED BY <1>1, <1>4, <2>1, NoneAssumption
<1> QED BY <1>3, <1>4

LEMMA EffectDecide ==
  ASSUME ActionsTypeOK, EffectInv, MarksAreBacked, NEW r \in Requests, DecideItem(r),
         requests[r].at \in Tasks
  PROVE  EffectInv'
<1> DEFINE p == requests[r]
           t == p.at
           resolve == p.type = "resolve"
<1>1. PICK item \in Item, row \in RowWrites, flag \in RowWrites, q \in Request :
        /\ item.outcome = (IF (t \in resolved) = resolve THEN "noop" ELSE "changed")
        /\ item.outcome \notin {"none", "created"} /\ Becomes(r, q) /\ q.type = p.type
        /\ q.pc = "open" /\ q.todo = p.todo \ {t} /\ q.selection = p.selection
        /\ q.items = [p.items EXCEPT ![t] = item] /\ q.plan = p.plan
        /\ q.rowWrite = [p.rowWrite EXCEPT ![t] = row]
        /\ q.flagWrite = [p.flagWrite EXCEPT ![t] = flag]
        /\ row = IF (t \in resolved) = resolve THEN "none"
                 ELSE IF resolve THEN "insert" ELSE "delete"
        /\ flag = IF resolve /\ t \in resolved THEN "none" ELSE FlagChange(p.atFlag, resolve)
  BY DecideStep
<1>2. /\ p.pc = "loaded" /\ UNCHANGED <<seen, resolved, flagged, writer>>
      /\ p \in Request
  BY DecideStep DEF storeVars, ActionsTypeOK
<1>3. /\ writer = r /\ Effective(p) /\ seen[t].known /\ (p.atFlag <=> t \in flagged)
      /\ p.atFlag \in BOOLEAN /\ t \in Tasks
      /\ p.rowWrite \in [Tasks -> RowWrites] /\ p.flagWrite \in [Tasks -> RowWrites]
  BY <1>2 DEF EffectInv, Effective, Request
<1>4. t \in flagged => t \in resolved
  BY <1>3 DEF MarksAreBacked
<1>r. resolve \in BOOLEAN /\ (q.type = "resolve" <=> resolve)
  BY <1>1
<1>q. q.type = p.type /\ (p.type = "resolve" <=> resolve)
  BY <1>1
<1>o. item.outcome = (IF (t \in resolved) = resolve THEN "noop" ELSE "changed")
  BY <1>1
<1> HIDE DEF p, t, resolve
<1>5. /\ q.rowWrite[t] = row /\ q.flagWrite[t] = flag
      /\ q.items[t].outcome = (IF (t \in resolved) = resolve THEN "noop" ELSE "changed")
  <2>1. p.items \in [Tasks -> Item]
    BY <1>2 DEF Request
  <2> QED BY <1>1, <1>3, <1>o, <2>1
<1>6. t \in Written(resolved, q.rowWrite) <=> resolve
  BY <1>1, <1>3, <1>5, <1>r DEF Written
<1>7. /\ t \in Written(flagged, q.flagWrite) => resolve
      /\ resolve /\ t \notin resolved => t \in Written(flagged, q.flagWrite)
  BY <1>1, <1>3, <1>4, <1>5, <1>r DEF Written, FlagChange
<1>8. Effective(q)
  <2>1. ASSUME NEW u \in Tasks, u # t
        PROVE  /\ q.rowWrite[u] = p.rowWrite[u] /\ q.flagWrite[u] = p.flagWrite[u]
               /\ q.items[u] = p.items[u]
    <3>1. p.items \in [Tasks -> Item]
      BY <1>2 DEF Request
    <3> QED BY <1>1, <1>3, <2>1, <3>1
  <2>2. ASSUME NEW u \in Tasks, u # t
        PROVE  /\ u \in Written(resolved, q.rowWrite) <=> u \in Written(resolved, p.rowWrite)
               /\ u \in Written(flagged, q.flagWrite) <=> u \in Written(flagged, p.flagWrite)
    BY <2>1, <2>2 DEF Written
  <2>3. \A u \in Tasks : seen[u].known /\ u \in Written(flagged, q.flagWrite) =>
          u \in Written(resolved, q.rowWrite)
    BY <1>3, <1>6, <1>7, <2>2 DEF Effective
  <2>4. ASSUME NEW u \in Tasks, q.items[u].outcome \in {"changed", "noop"}
        PROVE  /\ u \in Written(resolved, q.rowWrite) <=> q.type = "resolve"
               /\ q.type # "resolve" => u \notin Written(flagged, q.flagWrite)
               /\ q.type = "resolve" /\ q.items[u].outcome = "changed" =>
                    seen[u].known /\ u \in Written(flagged, q.flagWrite)
    <3>1. CASE u = t
      BY <1>3, <1>5, <1>6, <1>7, <1>r, <3>1
    <3>2. CASE u # t
      <4>1. p.items[u].outcome \in {"changed", "noop"}
        BY <2>1, <2>4, <3>2
      <4>2. /\ u \in Written(resolved, p.rowWrite) <=> p.type = "resolve"
            /\ p.type # "resolve" => u \notin Written(flagged, p.flagWrite)
            /\ p.type = "resolve" /\ p.items[u].outcome = "changed" =>
                 seen[u].known /\ u \in Written(flagged, p.flagWrite)
        BY <1>3, <4>1 DEF Effective
      <4>3. q.items[u] = p.items[u]
        BY <2>1, <3>2
      <4> QED BY <1>q, <2>2, <3>2, <4>2, <4>3
    <3> QED BY <3>1, <3>2
  <2> QED BY <2>3, <2>4 DEF Effective
<1> QED BY <1>1, <1>2, <1>3, <1>8, EffectRecord

LEMMA EffectStore ==
  ASSUME SerialWriters, ActionsTypeOK, EffectInv, MarksAreBacked, StoreStep
  PROVE  EffectInv' /\ MarksAreBacked'
<1>1. writer = None /\ requests' = requests
  BY StoreStepTouches, NoneAssumption DEF MayWrite
<1>2. \A r \in Requests : requests[r].pc \notin {"open", "loaded"}
  BY <1>1, NoneAssumption DEF EffectInv
<1>3. EffectInv'
  BY <1>1, <1>2 DEF EffectInv
<1>4. ASSUME NEW t \in Tasks, NEW named \in BOOLEAN, NEW carries \in BOOLEAN,
             Observe(t, named, carries)
      PROVE  MarksAreBacked'
  <2> DEFINE row == [known |-> TRUE, named |-> named,
                     airflow |-> seen[t].airflow \/ (carries /\ given[t] = "workload"),
                     inputs |-> IF carries THEN Captured(given[t]) ELSE seen[t].inputs,
                     version |-> seen[t].version + 1]
  <2>1. /\ seen' = [seen EXCEPT ![t] = row] /\ resolved' = resolved
        /\ flagged' = flagged \ {t}
    BY <1>4 DEF Observe
  <2>2. row.known = TRUE
    OBVIOUS
  <2> HIDE DEF row
  <2> QED BY <2>1, <2>2 DEF MarksAreBacked, ActionsTypeOK
<1>5. ASSUME NEW t \in Tasks, Forget(t)
      PROVE  MarksAreBacked'
  <2> DEFINE row == [Unseen EXCEPT !.version = seen[t].version]
  <2>1. /\ seen' = [seen EXCEPT ![t] = row] /\ resolved' = resolved
        /\ flagged' = flagged \ {t}
    BY <1>5 DEF Forget
  <2>2. row.known = FALSE
    BY DEF Unseen
  <2> HIDE DEF row
  <2> QED BY <2>1, <2>2 DEF MarksAreBacked, ActionsTypeOK
<1>6. ASSUME NEW t \in Tasks, NEW on \in BOOLEAN, ResolveOne(t, on)
      PROVE  MarksAreBacked'
  BY <1>6 DEF ResolveOne, MarksAreBacked
<1> QED BY <1>3, <1>4, <1>5, <1>6 DEF StoreStep

LEMMA EffectCommit ==
  ASSUME ActionsTypeOK, AccountsInv, EffectInv, NEW r \in Requests, Commit(r)
  PROVE  EffectInv' /\ MarksAreBacked'
<1> DEFINE q == requests[r]
<1>1. /\ q.pc = "open" /\ Becomes(r, Ended) /\ seen' = seen
      /\ resolved' = Written(resolved, q.rowWrite)
      /\ flagged' = {t \in Written(flagged, q.flagWrite) : seen[t].known}
  BY DEF Commit, Becomes
<1>2. writer = r /\ Effective(q)
  BY <1>1 DEF EffectInv, Effective
<1>3. MarksAreBacked'
  <2>1. \A t \in flagged' : t \in resolved' /\ seen'[t].known
    BY <1>1, <1>2 DEF Effective, Written
  <2> QED BY <2>1 DEF MarksAreBacked
<1>4. requests'[r] = Ended /\ \A s \in Requests : s # r => requests'[s] = requests[s]
  BY <1>1, OnlyOne, IdleType
<1>5. \A s \in Requests : requests'[s].pc \notin {"open", "loaded"}
  BY <1>2, <1>4, IdleType DEF EffectInv
<1>6. \A s \in Requests : requests'[s].pc \in {"idle", "reviewed", "prepared"} =>
        NoWrites(requests'[s])
  BY <1>4, IdleType DEF EffectInv
<1> QED BY <1>3, <1>5, <1>6 DEF EffectInv

LEMMA EffectStep ==
  ASSUME SerialWriters, ActionsTypeOK, AccountsInv, PublishedIsAccountedFor,
         EffectInv, MarksAreBacked, Next
  PROVE  EffectInv' /\ MarksAreBacked'
<1>s. UNCHANGED <<seen, resolved, flagged>> => MarksAreBacked'
  BY DEF MarksAreBacked
<1>i. NoWrites(Idle) /\ Ended.pc = "ended" /\ Ended \in Request
  BY IdleType DEF NoWrites, Idle, NoItem
<1>m. \A r \in Requests :
        /\ requests[r] \in Request
        /\ requests[r].pc \in {"idle", "reviewed", "prepared"} => NoWrites(requests[r])
        /\ requests[r].pc \in {"open", "loaded"} => writer = r /\ Effective(requests[r])
  BY DEF EffectInv, NoWrites, Effective, ActionsTypeOK
<1>n. ASSUME NEW q \in Request, NoWrites(q)
      PROVE  Effective(q)
  BY <1>n DEF NoWrites, Effective, Written, MarksAreBacked, ActionsTypeOK
<1>1. CASE StoreStep
  BY <1>1, EffectStore
<1>2. ASSUME NEW r \in Requests, Becomes(r, Ended), UNCHANGED <<seen, resolved, flagged>>,
             writer' = writer \/ writer \in {None, r}
      PROVE  EffectInv'
  BY <1>2, <1>i, EffectRecord
<1>3. ASSUME NEW r \in Requests, NEW S \in Selections,
             ReviewRerun(r, S) \/ \E type \in ActionTypes : CreateAction(r, type, S)
      PROVE  EffectInv' /\ UNCHANGED <<seen, resolved, flagged>>
  <2>1. /\ UNCHANGED <<seen, resolved, flagged, writer>>
        /\ \/ Becomes(r, Ended)
           \/ \E q \in Request :
                /\ Becomes(r, q) /\ q.pc \in {"reviewed", "prepared"}
                /\ q.items = Idle.items
                /\ q.rowWrite = Idle.rowWrite /\ q.flagWrite = Idle.flagWrite
    BY <1>3, ReviewStep, CreateStep DEF storeVars
  <2>2. ASSUME NEW q \in Request, Becomes(r, q), q.pc \in {"reviewed", "prepared"},
               q.items = Idle.items, q.rowWrite = Idle.rowWrite, q.flagWrite = Idle.flagWrite
        PROVE  EffectInv'
    <3>1. NoWrites(q)
      BY <1>i, <2>2 DEF NoWrites
    <3> QED BY <2>1, <2>2, <3>1, EffectRecord
  <2> QED BY <1>2, <2>1, <2>2
<1>4. ASSUME NEW r \in Requests,
             NEW decisions \in [requests[r].selection -> Decisions \ {"none"}],
             NEW inputs \in [requests[r].selection -> Plain \cup
                               {requests[r].review[t].baseline : t \in requests[r].selection}],
             SubmitReview(r, decisions, inputs)
      PROVE  EffectInv' /\ UNCHANGED <<seen, resolved, flagged>>
  <2>1. /\ UNCHANGED <<seen, resolved, flagged, writer>> /\ requests[r].pc = "reviewed"
        /\ \/ Becomes(r, Ended)
           \/ \E q \in Request :
                /\ Becomes(r, q) /\ q.pc = "prepared"
                /\ q.items = requests[r].items
                /\ q.rowWrite = requests[r].rowWrite /\ q.flagWrite = requests[r].flagWrite
    BY <1>4, SubmitStep DEF storeVars
  <2>2. ASSUME NEW q \in Request, Becomes(r, q), q.pc = "prepared",
               q.items = requests[r].items, q.rowWrite = requests[r].rowWrite, q.flagWrite = requests[r].flagWrite
        PROVE  EffectInv'
    <3>1. NoWrites(q)
      BY <1>m, <2>1, <2>2 DEF NoWrites
    <3> QED BY <2>1, <2>2, <3>1, EffectRecord
  <2> QED BY <1>2, <2>1, <2>2
<1>5. ASSUME NEW r \in Requests, OpenAction(r)
      PROVE  EffectInv' /\ UNCHANGED <<seen, resolved, flagged>>
  <2>1. /\ UNCHANGED <<seen, resolved, flagged>> /\ requests[r].pc = "prepared"
        /\ writer' = r /\ writer \in {None, r}
    BY <1>5, OpenStep DEF storeVars, MayWrite
  <2>2. PICK q \in Request :
          /\ Becomes(r, q) /\ q.pc = "open" /\ q.items = requests[r].items
          /\ q.rowWrite = requests[r].rowWrite /\ q.flagWrite = requests[r].flagWrite
    BY <1>5, OpenStep
  <2>3. NoWrites(q)
    BY <1>m, <2>1, <2>2 DEF NoWrites
  <2> QED BY <1>n, <2>1, <2>2, <2>3, EffectRecord
<1>6. ASSUME NEW r \in Requests, DecideItem(r)
      PROVE  EffectInv' /\ UNCHANGED <<seen, resolved, flagged>>
  <2>1. requests[r].at \in Tasks
    <3>1. requests[r].pc = "loaded"
      BY <1>6 DEF DecideItem
    <3> QED BY <1>m, <3>1 DEF AccountsInv, ItemsInv, Request
  <2>2. UNCHANGED <<seen, resolved, flagged>>
    BY <1>6 DEF DecideItem, storeVars
  <2> QED BY <1>6, <2>1, <2>2, EffectDecide
<1>7. ASSUME NEW r \in Requests, RollBack(r)
      PROVE  EffectInv' /\ UNCHANGED <<seen, resolved, flagged>>
  BY <1>7, <1>2, EndStep
<1>w. ASSUME NEW r \in Requests, NEW t \in Tasks, NEW item \in Item, requests[r].pc = "open",
             Becomes(r, WithItem(requests[r], t, item)),
             item.outcome \notin {"changed", "noop"},
             UNCHANGED <<seen, resolved, flagged, writer>>
      PROVE  EffectInv'
  <2> DEFINE p == requests[r]
             q == WithItem(p, t, item)
  <2>1. p \in Request /\ p.items \in [Tasks -> Item] /\ p.pc = "open" /\ Becomes(r, q)
    BY <1>m, <1>w DEF Request
  <2>2. Effective(p) /\ writer = r
    BY <1>m, <1>w
  <2> HIDE DEF p
  <2>3. /\ q \in Request /\ q.pc = "open" /\ q.type = p.type
        /\ q.items = [p.items EXCEPT ![t] = item]
        /\ q.rowWrite = p.rowWrite /\ q.flagWrite = p.flagWrite
    BY <2>1, WithItemFields
  <2> HIDE DEF q
  <2>4. \A u \in Tasks : q.items[u].outcome \in {"changed", "noop"} => q.items[u] = p.items[u]
    BY <1>w, <2>1, <2>3
  <2>5. Effective(q)
    BY <2>2, <2>3, <2>4 DEF Effective
  <2> QED BY <1>w, <2>1, <2>2, <2>3, <2>5, EffectRecord
<1>8. ASSUME NEW r \in Requests, NEW t \in Tasks, SubmittedItem(r, t) \/ RerunItem(r, t)
      PROVE  EffectInv' /\ UNCHANGED <<seen, resolved, flagged>>
  <2>1. /\ requests[r].pc = "open" /\ UNCHANGED <<seen, resolved, flagged, writer>>
        /\ \/ \E item \in Item : /\ item.outcome \notin {"changed", "noop"}
                                 /\ Becomes(r, WithItem(requests[r], t, item))
           \/ \E inputs \in Inputs, kind \in Kinds : Send(r, t, inputs, kind)
    BY <1>8, RerunStep DEF AccountsInv
  <2>2. \E item \in Item : /\ item.outcome \notin {"changed", "noop"}
                           /\ Becomes(r, WithItem(requests[r], t, item))
    <3>1. ASSUME NEW inputs \in Inputs, NEW kind \in Kinds, Send(r, t, inputs, kind)
          PROVE  \E item \in Item : /\ item.outcome \notin {"changed", "noop"}
                                    /\ Becomes(r, WithItem(requests[r], t, item))
      <4>1. PICK id \in Tasks, item \in Item :
              /\ Becomes(r, WithItem(requests[r], t, item))
              /\ item.outcome \in {"created", "failed"}
        BY <3>1, SendStep
      <4>2. item.outcome \notin {"changed", "noop"}
        BY <4>1
      <4> QED BY <4>1, <4>2
    <3> QED BY <2>1, <3>1
  <2> QED BY <1>w, <2>1, <2>2
<1>9. ASSUME NEW r \in Requests, NEW t \in Tasks, LoadItem(r, t)
      PROVE  EffectInv' /\ UNCHANGED <<seen, resolved, flagged>>
  <2>1. /\ requests[r].pc = "open" /\ UNCHANGED <<seen, resolved, flagged, writer>>
        /\ \/ \E q \in Request :
                /\ Becomes(r, q) /\ q.pc = "loaded" /\ q.at = t /\ seen[t].known
                /\ q.atFlag = (t \in flagged)
                /\ q.items = requests[r].items /\ q.type = requests[r].type
                /\ q.rowWrite = requests[r].rowWrite /\ q.flagWrite = requests[r].flagWrite
           \/ \E item \in Item : /\ item.outcome \notin {"changed", "noop"}
                                 /\ Becomes(r, WithItem(requests[r], t, item))
    BY <1>9, LoadStep DEF storeVars
  <2>2. ASSUME NEW q \in Request, Becomes(r, q), q.pc = "loaded", q.at = t, seen[t].known,
               q.atFlag = (t \in flagged),
               q.items = requests[r].items, q.type = requests[r].type,
               q.rowWrite = requests[r].rowWrite, q.flagWrite = requests[r].flagWrite
        PROVE  EffectInv'
    <3>1. Effective(q) /\ writer = r
      BY <1>m, <2>1, <2>2 DEF Effective
    <3> QED BY <2>1, <2>2, <3>1, EffectRecord
  <2> QED BY <1>w, <2>1, <2>2
<1>10. CASE Restart
  <2>1. /\ UNCHANGED <<seen, resolved, flagged>>
        /\ \A r \in Requests : requests'[r] = IF Active(r) THEN Ended ELSE requests[r]
    BY <1>10 DEF Restart
  <2>2. \A r \in Requests : requests'[r].pc \notin {"open", "loaded"}
    BY <1>i, <2>1 DEF Active
  <2>3. \A r \in Requests : requests'[r].pc \in {"idle", "reviewed", "prepared"} =>
          requests'[r] = requests[r]
    BY <1>i, <2>1
  <2> QED BY <1>s, <2>1, <2>2, <2>3 DEF EffectInv
<1>11. ASSUME NEW r \in Requests, Commit(r)
       PROVE  EffectInv' /\ MarksAreBacked'
  BY <1>11, EffectCommit
<1> QED BY <1>s, <1>1, <1>3, <1>4, <1>5, <1>6, <1>7, <1>8, <1>9, <1>10, <1>11, NextSteps


-----------------------------------------------------------------------------
(* Results. *)

ActionInv ==
    /\ ActionsTypeOK /\ AccountsInv
    /\ PublishedIsAccountedFor /\ ReplayRepeatsOriginal /\ CommittedActionsAreWhole

LEMMA InitInv == ASSUME Init PROVE ActionInv /\ EffectInv /\ MarksAreBacked
<1>1. /\ seen = [t \in Tasks |-> Unseen] /\ Unseen \in Row /\ ~Unseen.known
      /\ Unseen.inputs = "empty"
  BY Constants DEF Init, Row, Unseen
<1>2. requests = [r \in Requests |-> Idle] /\ Idle \in Request
  BY IdleType DEF Init
<1>3. /\ Idle.pc = "idle" /\ Idle.todo = {} /\ Idle.selection = {}
      /\ \A t \in Tasks : /\ Idle.items[t] = NoItem /\ Idle.plan[t] = NoPlan
                          /\ Idle.rowWrite[t] = "none" /\ Idle.flagWrite[t] = "none"
  BY DEF Idle
<1>4. /\ actions = [r \in Requests |-> NoAction] /\ NoAction.status = "absent"
      /\ \A t \in Tasks : NoAction.items[t] = NoItem
  BY DEF Init, NoAction
<1>5. NoAction \in Action
  BY ItemTypes DEF NoAction, Action, ActionTypes, Statuses
<1>6. NoItem.outcome = "none" /\ NoPlan.decision = "none"
  BY DEF NoItem, NoPlan
<1>7. published = {} /\ lineage = {} /\ resolved = {} /\ flagged = {} /\ writer = None
  BY DEF Init
<1>8. ActionsTypeOK
  <2>1. menu \subseteq ActionTypes
    BY MenusAssumption DEF Init
  <2>2. given \in [Tasks -> Arguments \cup {"unsent", "lost"}]
    BY CallsAssumption DEF Init, Arguments
  <2> QED BY <1>1, <1>2, <1>4, <1>5, <1>7, <2>1, <2>2 DEF ActionsTypeOK
<1>9. SeenInv
  BY <1>1 DEF SeenInv
<1>10. PlanInv
  BY <1>2, <1>3, <1>6 DEF PlanInv
<1>11. SentInv
  BY <1>7 DEF SentInv
<1>12. ItemsInv
  BY <1>2, <1>3, <1>6 DEF ItemsInv, Active
<1>13. PendingInv
  BY <1>2, <1>3, <1>4, <1>6, <1>7 DEF PendingInv
<1>14. PublishedIsAccountedFor
  <2>1. \A r \in Requests, t \in Tasks : actions[r].items[t].outcome # "created"
    BY <1>4, <1>6
  <2>2. UNION {{<<t, actions[r].items[t].attempted>> :
                  t \in {t \in Tasks : actions[r].items[t].outcome = "created"}} :
                r \in Requests} = {}
    BY <2>1
  <2> QED BY <1>7, <2>1, <2>2 DEF PublishedIsAccountedFor
<1>15. ReplayRepeatsOriginal /\ CommittedActionsAreWhole
  BY <1>4, <1>7 DEF ReplayRepeatsOriginal, CommittedActionsAreWhole
<1>16. EffectInv /\ MarksAreBacked
  <2>1. NoWrites(Idle)
    BY <1>3, <1>6 DEF NoWrites
  <2>2. EffectInv
    BY <1>2, <1>3, <2>1 DEF EffectInv
  <2>3. MarksAreBacked
    BY <1>7 DEF MarksAreBacked
  <2> QED BY <2>2, <2>3
<1> QED BY <1>8, <1>9, <1>10, <1>11, <1>12, <1>13, <1>14, <1>15, <1>16 DEF ActionInv, AccountsInv

LEMMA ActionStep == ASSUME ActionInv, [Next]_actionVars PROVE ActionInv'
<1>1. CASE Next
  BY <1>1, NextTypes, SeenStep, PlanStep, SentStep, ItemsStep, PendingStep, AccountedStep,
     ReplayStep, WholeStep DEF ActionInv, AccountsInv
<1>2. CASE UNCHANGED actionVars
  <2>1. /\ ActionsTypeOK' /\ PublishedIsAccountedFor' /\ ReplayRepeatsOriginal'
        /\ CommittedActionsAreWhole'
    BY <1>2 DEF ActionInv, actionVars, ActionsTypeOK, PublishedIsAccountedFor,
       ReplayRepeatsOriginal, CommittedActionsAreWhole
  <2>2. SeenInv' /\ PlanInv' /\ SentInv' /\ ItemsInv' /\ PendingInv'
    BY <1>2 DEF ActionInv, AccountsInv, actionVars, SeenInv, PlanInv, SentInv, ItemsInv,
       PendingInv, Active
  <2> QED BY <2>1, <2>2 DEF ActionInv, AccountsInv
<1> QED BY <1>1, <1>2

\* The columns' types, what a request under way has planned, sent and recorded, and the
\* properties of what it commits, whatever comes between its steps.
THEOREM ActionInvariant == ActionSpec => []ActionInv
<1>1. Init => ActionInv
  BY InitInv
<1>2. ActionInv /\ [Next]_actionVars => ActionInv'
  BY ActionStep
<1> QED BY <1>1, <1>2, PTL DEF ActionSpec

\* The tables hold what their columns allow (models of task_actions, task_action_items,
\* task_rerun_relationships, task_resolutions), and only a request that writes has the lock.
THEOREM ActionTypesTheorem == ActionSpec => []ActionsTypeOK
<1>1. ActionInv => ActionsTypeOK
  BY DEF ActionInv
<1> QED BY <1>1, ActionInvariant, PTL

\* What a committed action and the lineage record is what the broker was given, though
\* send_task comes before the commit, may raise after the broker has the task, and is not
\* undone by a rollback.
THEOREM PublishedTheorem == ActionSpec => []PublishedIsAccountedFor
<1>1. ActionInv => PublishedIsAccountedFor
  BY DEF ActionInv
<1> QED BY <1>1, ActionInvariant, PTL

\* A replay is sent with the arguments of its original, for any arguments the application
\* uses and through any chain of reruns.
THEOREM ReplayTheorem == ActionSpec => []ReplayRepeatsOriginal
<1>1. ActionInv => ReplayRepeatsOriginal
  BY DEF ActionInv
<1> QED BY <1>1, ActionInvariant, PTL

\* _finalize_action and the single commit: an action is committed with an item for each
\* selected task and the status that its items call for.
THEOREM WholeTheorem == ActionSpec => []CommittedActionsAreWhole
<1>1. ActionInv => CommittedActionsAreWhole
  BY DEF ActionInv
<1> QED BY <1>1, ActionInvariant, PTL

\* With one writer at a time, the tables and what each request is about to write to them.
LEMMA EffectInvariant ==
  ASSUME SerialWriters
  PROVE  ActionSpec => [](ActionInv /\ EffectInv /\ MarksAreBacked)
<1> DEFINE Inv == ActionInv /\ EffectInv /\ MarksAreBacked
<1>1. Init => Inv
  BY InitInv
<1>2. Inv /\ [Next]_actionVars => Inv'
  <2> SUFFICES ASSUME Inv, [Next]_actionVars
               PROVE  Inv'
    OBVIOUS
  <2>1. ActionInv'
    BY ActionStep
  <2>2. CASE Next
    BY <2>1, <2>2, EffectStep DEF ActionInv
  <2>3. CASE UNCHANGED actionVars
    <3>1. MarksAreBacked'
      BY <2>3 DEF actionVars, MarksAreBacked
    <3>2. EffectInv'
      BY <2>3 DEF actionVars, EffectInv, NoWrites, Effective, Written
    <3> QED BY <2>1, <3>1, <3>2
  <2> QED BY <2>2, <2>3
<1> QED BY <1>1, <1>2, PTL DEF ActionSpec

\* On a database that lets one session write at a time, task_latest says resolved only of
\* tasks that have a resolution: no order of bulk actions, single requests, new events and
\* retention leaves the mark of a resolution that is gone.  Where sessions commit between
\* a request's reads and its commit this does not hold.
THEOREM MarksTheorem ==
  ASSUME SerialWriters
  PROVE  ActionSpec => []MarksAreBacked
<1>1. ActionInv /\ EffectInv /\ MarksAreBacked => MarksAreBacked
  OBVIOUS
<1> QED BY <1>1, EffectInvariant, PTL

\* An action is committed by the commit of its request and by nothing else.
LEMMA CommitsByCommit ==
  ASSUME ActionInv, Next, NEW r \in Requests, NEW type, Commits(r, type)
  PROVE  Commit(r)
<1>1. actions'[r] # actions[r]
  BY DEF Commits
<1>2. \E s \in Requests : Commit(s)
  <2>1. ASSUME UNCHANGED actions
        PROVE  FALSE
    BY <1>1, <2>1
  <2>2. StoreStep => UNCHANGED actions
    BY StoreStepTouches
  <2>3. \A s \in Requests : OpenAction(s) \/ DecideItem(s) \/ RollBack(s) => UNCHANGED actions
    BY DEF OpenAction, DecideItem, RollBack
  <2>4. \A s \in Requests, S \in Selections, t \in ActionTypes :
          ReviewRerun(s, S) \/ CreateAction(s, t, S) => UNCHANGED actions
    BY DEF ReviewRerun, CreateAction
  <2>5. \A s \in Requests :
          \A decisions \in [requests[s].selection -> Decisions \ {"none"}],
             inputs \in [requests[s].selection -> Plain \cup
                           {requests[s].review[t].baseline : t \in requests[s].selection}] :
            SubmitReview(s, decisions, inputs) => UNCHANGED actions
    BY DEF SubmitReview
  <2>6. \A s \in Requests, t \in Tasks :
          SubmittedItem(s, t) \/ RerunItem(s, t) \/ LoadItem(s, t) => UNCHANGED actions
    BY DEF SubmittedItem, RerunItem, LoadItem
  <2>7. Restart => UNCHANGED actions
    BY DEF Restart
  <2>8. ASSUME NEW s \in Requests, NEW S \in Selections,
               ReviewRerun(s, S) \/ \E t \in ActionTypes : CreateAction(s, t, S)
        PROVE  UNCHANGED actions
    BY <2>8 DEF ReviewRerun, CreateAction
  <2> QED BY <2>1, <2>2, <2>3, <2>5, <2>6, <2>7, <2>8, NextSteps
<1>3. PICK s \in Requests : Commit(s)
  BY <1>2
<1>4. \A u \in Requests : u # s => actions'[u] = actions[u]
  BY <1>3 DEF Commit, ActionInv, ActionsTypeOK
<1> QED BY <1>1, <1>3, <1>4

\* The item of a committed resolve or unresolve tells what became of the task: the
\* resolution and, of one changed, the mark are as it says, though another task, another
\* session's event or retention came between its decision and the commit.
THEOREM EffectTheorem ==
  ASSUME SerialWriters
  PROVE  ActionSpec => ResolutionsTakeEffect
<1> DEFINE Inv == ActionInv /\ EffectInv /\ MarksAreBacked
           Told(r, t) ==
             /\ Commits(r, "resolve") =>
                  /\ OutcomeOf(r, t)' \in {"changed", "noop"} => t \in resolved'
                  /\ OutcomeOf(r, t)' = "changed" => t \in flagged'
             /\ Commits(r, "unresolve") /\ OutcomeOf(r, t)' \in {"changed", "noop"} =>
                  t \notin resolved' \cup flagged'
<1>1. Inv /\ [Next]_actionVars => \A r \in Requests, t \in Tasks : Told(r, t)
  <2> SUFFICES ASSUME Inv, [Next]_actionVars, NEW r \in Requests, NEW t \in Tasks
               PROVE  Told(r, t)
    OBVIOUS
  <2>1. CASE UNCHANGED actionVars
    <3>1. ~Commits(r, "resolve") /\ ~Commits(r, "unresolve")
      BY <2>1 DEF actionVars, Commits
    <3> QED BY <3>1
  <2>2. CASE Next /\ ~Commit(r)
    <3>1. ~Commits(r, "resolve") /\ ~Commits(r, "unresolve")
      BY <2>2, CommitsByCommit
    <3> QED BY <3>1
  <2>3. CASE Commit(r)
    <3> DEFINE q == requests[r]
    <3>1. /\ q.pc = "open"
          /\ resolved' = Written(resolved, q.rowWrite)
          /\ flagged' = {u \in Written(flagged, q.flagWrite) : seen[u].known}
          /\ actions' = [actions EXCEPT ![r] =
               [type |-> q.type, selection |-> q.selection, items |-> q.items,
                status |-> FinalStatus({q.items[u].outcome : u \in q.selection})]]
      BY <2>3 DEF Commit
    <3>2. Effective(q)
      BY <3>1 DEF EffectInv, Effective
    <3>3. actions'[r].type = q.type /\ OutcomeOf(r, t)' = q.items[t].outcome
      BY <3>1 DEF ActionInv, ActionsTypeOK, OutcomeOf
    <3> HIDE DEF q
    <3>4. \A type : Commits(r, type) => type = q.type
      BY <3>3 DEF Commits
    <3> QED BY <3>1, <3>2, <3>3, <3>4 DEF Effective
  <2> QED BY <2>1, <2>2, <2>3
<1>2. ActionSpec => []Inv
  BY EffectInvariant
<1>3. Inv /\ [Next]_actionVars =>
        [\A r \in Requests, t \in Tasks : Told(r, t)]_actionVars
  BY <1>1
<1>4. ActionSpec => [][\A r \in Requests, t \in Tasks : Told(r, t)]_actionVars
  BY <1>2, <1>3, PTL DEF ActionSpec
<1> QED BY <1>4 DEF ResolutionsTakeEffect

=============================================================================
