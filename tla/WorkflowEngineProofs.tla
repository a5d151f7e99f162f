------------------------ MODULE WorkflowEngineProofs ------------------------
(***************************************************************************)
(* Proofs about WorkflowEngine, for any workflows and settings, any number *)
(* of evaluation threads and any bounds.                                   *)
(***************************************************************************)
EXTENDS WorkflowEngine, TLAPS, FiniteSetTheorems

-----------------------------------------------------------------------------
(* Type correctness. *)

\* A thread has an execution only between recording and closing it, and a
\* thread with something to do has an event to do it for.
ThreadsOK ==
    \A th \in Evals :
        /\ eval[th].pc \notin {"act", "write", "finish"} => eval[th].id = 0
        /\ eval[th].pc # "idle" => eval[th].event \in Events
        /\ eval[th].pc = "write" => eval[th].seen \in Stats

\* The inductive invariant of type correctness.
EngineInv == EngineTypeOK /\ ThreadsOK

\* The breaker key of an event is a field value or None.
LEMMA KeyType ==
    ASSUME NEW w \in Workflows, NEW e \in Events
    PROVE  KeyOf(w, e) \in Keys \cup {None}
<1> DEFINE fields  == CandidateFields(w)
           present == {i \in DOMAIN fields : e.context[fields[i]] # None}
<1>1. CASE Settings[w].breaker = None \/ present = {}
  BY <1>1 DEF KeyOf
<1>2. CASE Settings[w].breaker # None /\ present # {}
  <2>1. Settings[w].breaker.field \in Fields \cup {None}
    BY <1>2, EngineAssumption DEF Breaker
  <2>2. fields \in Seq(Fields) /\ Len(fields) <= 5
    BY <2>1, EngineAssumption DEF CandidateFields
  <2>3. \E i \in present : \A j \in present : i <= j
    <3>1. present \subseteq {1, 2, 3, 4, 5}
      BY <2>2
    <3>2. PICK k \in present : TRUE
      BY <1>2
    <3> HIDE DEF present
    <3>3. CASE 1 \in present
      BY <3>1, <3>3
    <3>4. CASE 1 \notin present /\ 2 \in present
      BY <3>1, <3>4
    <3>5. CASE 1 \notin present /\ 2 \notin present /\ 3 \in present
      BY <3>1, <3>5
    <3>6. CASE 1 \notin present /\ 2 \notin present /\ 3 \notin present
      BY <3>1, <3>2, <3>6
    <3> QED BY <3>3, <3>4, <3>5, <3>6
  <2>4. PICK i \in present : i = CHOOSE h \in present : \A j \in present : h <= j
    BY <2>3
  <2>5. e.context[fields[i]] \in Keys \cup {None}
    <3>1. fields[i] \in Fields
      BY <2>2
    <3>2. e.context \in [Fields -> Keys \cup {None}]
      BY EngineAssumption
    <3> QED BY <3>1, <3>2
  <2>6. KeyOf(w, e) = e.context[fields[i]]
    BY <1>2, <2>4 DEF KeyOf
  <2> QED BY <2>5, <2>6
<1> QED BY <1>1, <1>2

\* Recording appends one row of the current time and changes no other.
LEMMA Recorded ==
    ASSUME EngineTypeOK, NEW th \in Evals, eval[th].workflow # None,
           NEW status \in {"running", "circuit_open"}, Record(th, status)
    PROVE  /\ execs' \in Seq(Exec)
           /\ Len(execs) \in Nat
           /\ Len(execs') = Len(execs) + 1
           /\ DOMAIN execs = 1..Len(execs)
           /\ DOMAIN execs' = 1..(Len(execs) + 1)
           /\ \A i \in DOMAIN execs : execs'[i] = execs[i]
           /\ execs'[Len(execs) + 1] =
                [workflow |-> eval[th].workflow, key |-> eval[th].key,
                 triggered_at |-> now, status |-> status]
<1> DEFINE row == [workflow |-> eval[th].workflow, key |-> eval[th].key,
                   triggered_at |-> now, status |-> status]
<1>1. row \in Exec
  BY DEF EngineTypeOK, Eval, Exec
<1>2. execs \in Seq(Exec) /\ execs' = Append(execs, row)
  BY DEF EngineTypeOK, Record
<1> HIDE DEF row
<1>3. /\ execs' \in Seq(Exec)
      /\ Len(execs) \in Nat
      /\ Len(execs') = Len(execs) + 1
      /\ DOMAIN execs = 1..Len(execs)
      /\ DOMAIN execs' = 1..(Len(execs) + 1)
      /\ \A i \in DOMAIN execs : execs'[i] = execs[i]
      /\ execs'[Len(execs) + 1] = row
  BY <1>1, <1>2
<1> QED BY <1>3 DEF row

\* The statistics as written are statistics.
LEMMA ChangedType ==
    ASSUME NEW stats \in Stats, NEW seen \in Stats, NEW ok \in BOOLEAN
    PROVE  Changed(stats, seen, ok) \in Stats
<1>1. CASE ok
  <2>1. Changed(stats, seen, ok) =
          [stats EXCEPT !.execution_count = seen.execution_count + 1,
                        !.success_count = seen.success_count + 1,
                        !.failure_count = stats.failure_count]
    BY <1>1, Zenon DEF Changed
  <2>2. /\ seen.execution_count + 1 \in Nat
        /\ seen.success_count + 1 \in Nat
        /\ stats.failure_count \in Nat
    BY DEF Stats
  <2> QED BY <2>1, <2>2 DEF Stats
<1>2. CASE ~ok
  <2>1. Changed(stats, seen, ok) =
          [stats EXCEPT !.execution_count = seen.execution_count + 1,
                        !.success_count = stats.success_count,
                        !.failure_count = seen.failure_count + 1]
    BY <1>2, Zenon DEF Changed
  <2>2. /\ seen.execution_count + 1 \in Nat
        /\ stats.success_count \in Nat
        /\ seen.failure_count + 1 \in Nat
    BY DEF Stats
  <2> QED BY <2>1, <2>2 DEF Stats
<1> QED BY <1>1, <1>2

\* At the start no thread is at work and nothing is recorded.
LEMMA InvStart == EngineInit => EngineInv
<1> SUFFICES ASSUME EngineInit PROVE EngineInv
  OBVIOUS
<1>1. Done \in Eval
  BY DEF Done, Eval, Steps
<1>2. \A state \in {"absent", "enabled", "disabled"} : NewDef(state) \in Def
  BY DEF NewDef, NoStats, Def, Stats
<1>3. execs \in Seq(Exec) /\ DOMAIN execs = {}
  BY DEF EngineInit
<1>4. defs \in [Workflows -> Def] /\ eval \in [Evals -> Eval] /\ now \in Nat
  BY <1>1, <1>2 DEF EngineInit
<1> QED BY <1>3, <1>4 DEF EngineInit, EngineInv, EngineTypeOK, ThreadsOK, Done

\* What a thread does next keeps threads and rows well-formed, given that the
\* rows it leaves alone and its own entry are.
LEMMA ThreadStep ==
    ASSUME EngineInv, NEW th \in Evals, NEW entry \in Eval,
           eval' = [eval EXCEPT ![th] = entry],
           defs' \in [Workflows -> Def], execs' \in Seq(Exec),
           DOMAIN execs \subseteq DOMAIN execs',
           0 \notin DOMAIN execs',
           now' \in Nat, abandoned' \subseteq DOMAIN execs',
           entry.workflow = None <=> entry.pc \in {"idle", "pick"},
           entry.pc \in {"act", "write", "finish"} => entry.id \in DOMAIN execs',
           entry.pc \notin {"act", "write", "finish"} => entry.id = 0,
           entry.pc # "idle" => entry.event \in Events,
           entry.pc = "write" => entry.seen \in Stats
    PROVE  EngineInv'
<1>1. eval' \in [Evals -> Eval]
  BY DEF EngineInv, EngineTypeOK
<1>2. eval'[th] = entry /\ \A o \in Evals \ {th} : eval'[o] = eval[o]
  BY DEF EngineInv, EngineTypeOK
<1>3. ASSUME NEW o \in Evals
      PROVE  /\ eval'[o].workflow = None <=> eval'[o].pc \in {"idle", "pick"}
             /\ eval'[o].id \in DOMAIN execs' <=> eval'[o].pc \in {"act", "write", "finish"}
             /\ eval'[o].pc \notin {"act", "write", "finish"} => eval'[o].id = 0
             /\ eval'[o].pc # "idle" => eval'[o].event \in Events
             /\ eval'[o].pc = "write" => eval'[o].seen \in Stats
  <2>1. CASE o = th
    BY <1>2, <2>1
  <2>2. CASE o # th
    BY <1>2, <2>2 DEF EngineInv, EngineTypeOK, ThreadsOK
  <2> QED BY <2>1, <2>2
<1> QED BY <1>1, <1>3 DEF EngineInv, EngineTypeOK, ThreadsOK

\* Execution ids start at 1, so that 0 stands for none.
LEMMA DomainOfExecs == execs \in Seq(Exec) => 0 \notin DOMAIN execs
OBVIOUS

\* Every step keeps rows and threads well-formed.
LEMMA InvStep == EngineInv /\ [EngineNext]_engineVars => EngineInv'
<1> SUFFICES ASSUME EngineInv, [EngineNext]_engineVars PROVE EngineInv'
  OBVIOUS
<1>t. EngineTypeOK /\ ThreadsOK
  BY DEF EngineInv
<1>d. 0 \notin DOMAIN execs
  BY <1>t, DomainOfExecs DEF EngineTypeOK
<1>1. ASSUME NEW th \in Evals, NEW e \in Events, Arrive(th, e) PROVE EngineInv'
  <2> DEFINE entry == [Done EXCEPT !.pc = "pick", !.event = e,
            !.todo = {w \in Workflows : /\ defs[w].state = "enabled"
                                        /\ Settings[w].trigger = e.trigger}]
  <2>1. entry \in Eval /\ entry.pc = "pick" /\ entry.workflow = None /\ entry.id = 0
        /\ entry.event = e
    BY DEF Done, Eval, Steps
  <2>2. eval' = [eval EXCEPT ![th] = entry] /\ UNCHANGED <<defs, execs, now, abandoned>>
    BY <1>1 DEF Arrive
  <2> HIDE DEF entry
  <2> QED BY <1>d, <1>t, <2>1, <2>2, ThreadStep DEF EngineTypeOK
<1>2. ASSUME NEW th \in Evals, NEW w \in Workflows, Pick(th, w) PROVE EngineInv'
  <2> DEFINE leave == CanExecute(w) /\ eval[th].event \in Settings[w].accepts
             entry == IF leave
                        THEN [eval[th] EXCEPT !.pc = "breaker", !.todo = @ \ {w}, !.workflow = w,
                                              !.key = KeyOf(w, eval[th].event)]
                        ELSE [eval[th] EXCEPT !.todo = @ \ {w}]
  <2>0. eval[th] \in Eval /\ eval[th].pc = "pick" /\ eval[th].event \in Events /\ eval[th].id = 0
        /\ eval[th].workflow = None
    BY <1>2, <1>t DEF Pick, At, EngineTypeOK, ThreadsOK
  <2>1. KeyOf(w, eval[th].event) \in Keys \cup {None}
    BY <2>0, KeyType
  <2>2. entry \in Eval /\ entry.event \in Events /\ entry.id = 0
        /\ entry.pc \in {"pick", "breaker"} /\ (entry.workflow = None <=> entry.pc = "pick")
    <3> HIDE DEF leave
    <3> QED BY <2>0, <2>1, EngineAssumption DEF Eval, Steps
  <2>3. eval' = [eval EXCEPT ![th] = entry] /\ UNCHANGED <<defs, execs, now, abandoned>>
    BY <1>2 DEF Pick
  <2> HIDE DEF entry
  <2> QED BY <1>d, <1>t, <2>2, <2>3, ThreadStep DEF EngineTypeOK
<1>3. ASSUME NEW th \in Evals, CheckBreaker(th) PROVE EngineInv'
  <2> DEFINE to == IF BreakerOpen(eval[th].workflow, eval[th].key) THEN "skip" ELSE "start"
             entry == [eval[th] EXCEPT !.pc = to]
  <2>0. eval[th] \in Eval /\ eval[th].pc = "breaker" /\ eval[th].event \in Events
        /\ eval[th].id = 0 /\ eval[th].workflow # None /\ to \in {"skip", "start"}
    BY <1>3, <1>t DEF CheckBreaker, At, EngineTypeOK, ThreadsOK
  <2>1. eval' = [eval EXCEPT ![th] = entry] /\ UNCHANGED <<defs, execs, now, abandoned>>
    BY <1>3, <1>t DEF CheckBreaker, Goto, EngineTypeOK
  <2> HIDE DEF to
  <2>2. entry \in Eval /\ entry.event \in Events /\ entry.id = 0
        /\ entry.pc \in {"skip", "start"} /\ entry.workflow # None
    BY <2>0 DEF Eval, Steps
  <2> HIDE DEF entry
  <2> QED BY <1>d, <1>t, <2>1, <2>2, ThreadStep DEF EngineTypeOK
<1>4. ASSUME NEW th \in Evals PROVE /\ eval[th].pc # "idle" => NextWorkflow(th) \in Eval
                                    /\ NextWorkflow(th).pc = "pick"
                                    /\ NextWorkflow(th).event = eval[th].event
                                    /\ NextWorkflow(th).id = 0
                                    /\ NextWorkflow(th).workflow = None
  <2>1. eval[th] \in Eval
    BY <1>t DEF EngineTypeOK
  <2> QED BY <2>1 DEF NextWorkflow, Eval, Steps
<1>5. ASSUME NEW th \in Evals, Skip(th) PROVE EngineInv'
  <2>0. eval[th].pc = "skip" /\ eval[th].event \in Events /\ eval[th].workflow # None
    BY <1>5, <1>t DEF Skip, At, EngineTypeOK, ThreadsOK
  <2>1. execs' \in Seq(Exec) /\ DOMAIN execs \subseteq DOMAIN execs' /\ 0 \notin DOMAIN execs'
    <3>1. Record(th, "circuit_open")
      BY <1>5 DEF Skip
    <3>2. /\ execs' \in Seq(Exec)
          /\ Len(execs) \in Nat
          /\ DOMAIN execs = 1..Len(execs)
          /\ DOMAIN execs' = 1..(Len(execs) + 1)
      BY <1>t, <2>0, <3>1, Recorded
    <3> QED BY <3>2
  <2>2. eval' = [eval EXCEPT ![th] = NextWorkflow(th)] /\ UNCHANGED <<defs, now, abandoned>>
    BY <1>5 DEF Skip
  <2> QED BY <1>t, <1>4, <2>0, <2>1, <2>2, ThreadStep DEF EngineTypeOK
<1>6. ASSUME NEW th \in Evals, Start(th) PROVE EngineInv'
  <2> DEFINE entry == [eval[th] EXCEPT !.pc = "act", !.id = Len(execs')]
  <2>0. eval[th] \in Eval /\ eval[th].pc = "start" /\ eval[th].event \in Events
        /\ eval[th].workflow # None
    BY <1>6, <1>t DEF Start, At, EngineTypeOK, ThreadsOK
  <2>1. /\ execs' \in Seq(Exec) /\ DOMAIN execs \subseteq DOMAIN execs' /\ 0 \notin DOMAIN execs'
        /\ Len(execs') \in DOMAIN execs' /\ Len(execs') \in Nat
    <3>1. Record(th, "running")
      BY <1>6 DEF Start
    <3>2. /\ execs' \in Seq(Exec)
          /\ Len(execs) \in Nat
          /\ Len(execs') = Len(execs) + 1
          /\ DOMAIN execs = 1..Len(execs)
          /\ DOMAIN execs' = 1..(Len(execs) + 1)
      BY <1>t, <2>0, <3>1, Recorded
    <3> QED BY <3>2
  <2>2. eval' = [eval EXCEPT ![th] = entry] /\ UNCHANGED <<defs, now, abandoned>>
    BY <1>6, <1>t DEF Start, EngineTypeOK
  <2>3. entry \in Eval /\ entry.event \in Events /\ entry.id = Len(execs')
        /\ entry.pc = "act" /\ entry.workflow # None
    BY <2>0, <2>1 DEF Eval, Steps
  <2> HIDE DEF entry
  <2> QED BY <1>t, <2>1, <2>2, <2>3, ThreadStep DEF EngineTypeOK
<1>7. ASSUME NEW th \in Evals, Act(th) PROVE EngineInv'
  <2>0. eval[th] \in Eval /\ eval[th].pc = "act" /\ eval[th].event \in Events
        /\ eval[th].workflow \in Workflows /\ eval[th].id \in DOMAIN execs
    BY <1>7, <1>t DEF Act, At, EngineTypeOK, ThreadsOK, Eval
  <2>1. defs[eval[th].workflow].stats \in Stats
    BY <2>0, <1>t DEF EngineTypeOK, Def
  <2>2. PICK ok \in BOOLEAN : eval' = [eval EXCEPT ![th] =
          IF defs[eval[th].workflow].state = "deleted"
            THEN [@ EXCEPT !.pc = "finish", !.ok = ok]
            ELSE [@ EXCEPT !.pc = "write", !.ok = ok, !.seen = defs[eval[th].workflow].stats]]
    BY <1>7 DEF Act
  <2> DEFINE entry == IF defs[eval[th].workflow].state = "deleted"
            THEN [eval[th] EXCEPT !.pc = "finish", !.ok = ok]
            ELSE [eval[th] EXCEPT !.pc = "write", !.ok = ok,
                                  !.seen = defs[eval[th].workflow].stats]
  <2>3. eval' = [eval EXCEPT ![th] = entry] /\ UNCHANGED <<defs, execs, now, abandoned>>
    BY <1>7, <2>2 DEF Act
  <2>4. entry \in Eval /\ entry.event \in Events /\ entry.id \in DOMAIN execs
        /\ entry.pc \in {"write", "finish"} /\ entry.workflow # None
        /\ (entry.pc = "write" => entry.seen \in Stats)
    BY <2>0, <2>1, EngineAssumption DEF Eval, Steps
  <2> HIDE DEF entry
  <2> QED BY <1>d, <1>t, <2>3, <2>4, ThreadStep DEF EngineTypeOK
<1>8. ASSUME NEW th \in Evals, ReadFails(th) PROVE EngineInv'
  <2> DEFINE entry == [eval[th] EXCEPT !.pc = "finish", !.ok = FALSE]
  <2>0. eval[th] \in Eval /\ eval[th].pc = "act" /\ eval[th].event \in Events
        /\ eval[th].workflow # None /\ eval[th].id \in DOMAIN execs
    BY <1>8, <1>t DEF ReadFails, At, EngineTypeOK, ThreadsOK
  <2>1. eval' = [eval EXCEPT ![th] = entry] /\ UNCHANGED <<defs, execs, now, abandoned>>
    BY <1>8, <1>t DEF ReadFails, EngineTypeOK
  <2>2. entry \in Eval /\ entry.event \in Events /\ entry.id \in DOMAIN execs
        /\ entry.pc = "finish" /\ entry.workflow # None
    BY <2>0 DEF Eval, Steps
  <2> HIDE DEF entry
  <2> QED BY <1>d, <1>t, <2>1, <2>2, ThreadStep DEF EngineTypeOK
<1>9. ASSUME NEW th \in Evals, WriteStats(th) PROVE EngineInv'
  <2> DEFINE entry == [eval[th] EXCEPT !.pc = "finish"]
             w == eval[th].workflow
  <2>0. eval[th] \in Eval /\ eval[th].pc = "write" /\ eval[th].event \in Events
        /\ eval[th].workflow # None /\ eval[th].id \in DOMAIN execs
        /\ w \in Workflows /\ eval[th].seen \in Stats
    BY <1>9, <1>t DEF WriteStats, At, EngineTypeOK, ThreadsOK, Eval
  <2>1. eval' = [eval EXCEPT ![th] = entry] /\ UNCHANGED <<execs, now, abandoned>>
    BY <1>9, <1>t DEF WriteStats, Goto, EngineTypeOK
  <2>2. entry \in Eval /\ entry.event \in Events /\ entry.id \in DOMAIN execs
        /\ entry.pc = "finish" /\ entry.workflow # None
    BY <2>0 DEF Eval, Steps
  <2>3. defs' \in [Workflows -> Def]
    <3>1. defs[w] \in Def
      BY <2>0, <1>t DEF EngineTypeOK
    <3>2. Changed(defs[w].stats, eval[th].seen, eval[th].ok) \in Stats
      <4>1. defs[w].stats \in Stats /\ eval[th].seen \in Stats /\ eval[th].ok \in BOOLEAN
        BY <2>0, <3>1 DEF Def, Eval
      <4> QED BY <4>1, ChangedType
    <3>3. now \in Nat
      BY <1>t DEF EngineTypeOK
    <3>4. defs' = [defs EXCEPT ![w].stats = Changed(@, eval[th].seen, eval[th].ok),
                               ![w].last_executed_at = now]
      BY <1>9 DEF WriteStats
    <3>5. [defs[w] EXCEPT !.stats = Changed(defs[w].stats, eval[th].seen, eval[th].ok),
                          !.last_executed_at = now] \in Def
      BY <3>1, <3>2, <3>3 DEF Def
    <3>6. defs' = [defs EXCEPT ![w] =
             [defs[w] EXCEPT !.stats = Changed(defs[w].stats, eval[th].seen, eval[th].ok),
                             !.last_executed_at = now]]
      BY <1>t, <2>0, <3>4 DEF EngineTypeOK
    <3> QED BY <1>t, <2>0, <3>5, <3>6 DEF EngineTypeOK
  <2> HIDE DEF entry
  <2> QED BY <1>d, <1>t, <2>1, <2>2, <2>3, ThreadStep DEF EngineTypeOK
<1>10. ASSUME NEW th \in Evals, Finish(th) PROVE EngineInv'
  <2>0. eval[th].pc = "finish" /\ eval[th].event \in Events /\ eval[th].id \in DOMAIN execs
    BY <1>10, <1>t DEF Finish, At, EngineTypeOK, ThreadsOK
  <2>1. execs' \in Seq(Exec) /\ DOMAIN execs = DOMAIN execs'
    <3>1. execs \in Seq(Exec) /\ execs[eval[th].id] \in Exec
      BY <2>0, <1>t DEF EngineTypeOK
    <3>2. [execs[eval[th].id] EXCEPT !.status = IF eval[th].ok THEN "completed" ELSE "failed"]
             \in Exec
      BY <3>1 DEF Exec
    <3>3. execs' = [execs EXCEPT ![eval[th].id] =
             [execs[eval[th].id] EXCEPT !.status = IF eval[th].ok THEN "completed" ELSE "failed"]]
      BY <1>10 DEF Finish
    <3> QED BY <2>0, <3>1, <3>2, <3>3
  <2>2. eval' = [eval EXCEPT ![th] = NextWorkflow(th)] /\ UNCHANGED <<defs, now, abandoned>>
    BY <1>10 DEF Finish
  <2> QED BY <1>d, <1>t, <1>4, <2>0, <2>1, <2>2, ThreadStep DEF EngineTypeOK
<1>11. Done \in Eval /\ Done.pc = "idle" /\ Done.workflow = None /\ Done.id = 0
  BY DEF Done, Eval, Steps
<1>12. ASSUME NEW th \in Evals, WriteFails(th) PROVE EngineInv'
  <2>1. {eval[th].id} \ {0} \subseteq DOMAIN execs
    BY <1>t DEF EngineTypeOK, ThreadsOK
  <2> QED BY <1>12, <1>d, <1>t, <1>11, <2>1, ThreadStep DEF WriteFails, EngineTypeOK
<1>13. ASSUME NEW th \in Evals, EndEval(th) PROVE EngineInv'
  BY <1>13, <1>d, <1>t, <1>11, ThreadStep DEF EndEval, EngineTypeOK
<1>14. ASSUME NEW w \in Workflows, Create(w) \/ Update(w) \/ Delete(w) PROVE EngineInv'
  <2>1. PICK to \in {"enabled", "disabled", "deleted"} : defs' = [defs EXCEPT ![w].state = to]
    BY <1>14 DEF Create, Update, Delete, Edit
  <2>2. defs' \in [Workflows -> Def]
    BY <1>t, <2>1 DEF EngineTypeOK, Def
  <2>3. UNCHANGED <<execs, eval, now, abandoned>>
    BY <1>14 DEF Create, Update, Delete, Edit
  <2> QED BY <1>t, <2>2, <2>3 DEF EngineInv, EngineTypeOK, ThreadsOK
<1>15. CASE Tick
  BY <1>15, <1>t DEF Tick, EngineInv, EngineTypeOK, ThreadsOK
<1>16. CASE Restart
  <2>1. {eval[th].id : th \in Evals} \ {0} \subseteq DOMAIN execs
    BY <1>t DEF EngineTypeOK, ThreadsOK
  <2> QED BY <1>16, <1>d, <1>t, <1>11, <2>1 DEF Restart, EngineInv, EngineTypeOK, ThreadsOK
<1>17. CASE UNCHANGED engineVars
  BY <1>17, <1>t DEF engineVars, EngineInv, EngineTypeOK, ThreadsOK
<1> QED BY <1>1, <1>2, <1>3, <1>5, <1>6, <1>7, <1>8, <1>9, <1>10, <1>12, <1>13, <1>14,
           <1>15, <1>16, <1>17 DEF EngineNext, EvalStep

\* Rows and threads keep their types, and a thread holds a workflow, an
\* execution and the row it read exactly while it needs them.
THEOREM EngineTypeCorrect == EngineSpec => []EngineTypeOK
<1>1. EngineSpec => []EngineInv
  BY InvStart, InvStep, PTL DEF EngineSpec
<1>2. EngineInv => EngineTypeOK
  BY DEF EngineInv
<1> QED BY <1>1, <1>2, PTL

-----------------------------------------------------------------------------
(* Who runs what is recorded as running. *)

\* What is recorded as running is run by one thread or abandoned, never both; no
\* two threads run the same execution, and no thread runs an abandoned one.
OwnedInv ==
    /\ \A i \in DOMAIN execs :
          execs[i].status = "running" <=> i \in abandoned \/ \E th \in Evals : eval[th].id = i
    /\ \A th, o \in Evals : eval[th].id # 0 /\ eval[th].id = eval[o].id => th = o
    /\ \A th \in Evals : eval[th].id \notin abandoned

\* Steps of a thread that neither open nor close an execution, steps of the API
\* and of the clock: no thread lets go of an execution or takes one.
LEMMA IdsKept ==
    ASSUME EngineInv,
           \/ \E th \in Evals :
                 \/ \E e \in Events : Arrive(th, e)
                 \/ \E w \in Workflows : Pick(th, w)
                 \/ CheckBreaker(th) \/ Act(th) \/ ReadFails(th) \/ WriteStats(th) \/ EndEval(th)
           \/ \E w \in Workflows : Create(w) \/ Update(w) \/ Delete(w)
           \/ Tick
           \/ UNCHANGED engineVars
    PROVE  /\ UNCHANGED <<execs, abandoned>>
           /\ \A th \in Evals : eval'[th].id = eval[th].id
<1>t. EngineTypeOK /\ ThreadsOK
  BY DEF EngineInv
<1>e. eval \in [Evals -> Eval]
  BY <1>t DEF EngineTypeOK
<1>1. ASSUME NEW th \in Evals, NEW e \in Events, Arrive(th, e)
      PROVE  UNCHANGED <<execs, abandoned>> /\ \A o \in Evals : eval'[o].id = eval[o].id
  <2>1. eval[th].id = 0
    BY <1>1, <1>t DEF Arrive, At, ThreadsOK
  <2> QED BY <1>1, <1>e, <2>1 DEF Arrive, Done
<1>2. ASSUME NEW th \in Evals, NEW w \in Workflows, Pick(th, w)
      PROVE  UNCHANGED <<execs, abandoned>> /\ \A o \in Evals : eval'[o].id = eval[o].id
  <2>1. PICK entry \in {[eval[th] EXCEPT !.pc = "breaker", !.todo = @ \ {w}, !.workflow = w,
                                         !.key = KeyOf(w, eval[th].event)],
                        [eval[th] EXCEPT !.todo = @ \ {w}]} :
              eval' = [eval EXCEPT ![th] = entry]
    BY <1>2 DEF Pick
  <2>2. entry.id = eval[th].id
    BY <1>e, <2>1 DEF Eval
  <2>3. UNCHANGED <<execs, abandoned>>
    BY <1>2 DEF Pick
  <2> QED BY <1>e, <2>1, <2>2, <2>3
<1>3. ASSUME NEW th \in Evals,
             CheckBreaker(th) \/ Act(th) \/ ReadFails(th) \/ WriteStats(th)
      PROVE  UNCHANGED <<execs, abandoned>> /\ \A o \in Evals : eval'[o].id = eval[o].id
  <2>1. eval[th] \in Eval
    BY <1>e
  <2>2. CASE CheckBreaker(th)
    BY <1>e, <2>1, <2>2 DEF CheckBreaker, Goto, Eval
  <2>3. CASE Act(th)
    <3>1. PICK ok \in BOOLEAN : eval' = [eval EXCEPT ![th] =
            IF defs[eval[th].workflow].state = "deleted"
              THEN [@ EXCEPT !.pc = "finish", !.ok = ok]
              ELSE [@ EXCEPT !.pc = "write", !.ok = ok, !.seen = defs[eval[th].workflow].stats]]
      BY <2>3 DEF Act
    <3>2. UNCHANGED <<execs, abandoned>>
      BY <2>3 DEF Act
    <3> QED BY <1>e, <2>1, <3>1, <3>2 DEF Eval
  <2>4. CASE ReadFails(th)
    BY <1>e, <2>1, <2>4 DEF ReadFails, Eval
  <2>5. CASE WriteStats(th)
    BY <1>e, <2>1, <2>5 DEF WriteStats, Goto, Eval
  <2> QED BY <1>3, <2>2, <2>3, <2>4, <2>5
<1>4. ASSUME NEW th \in Evals, EndEval(th)
      PROVE  UNCHANGED <<execs, abandoned>> /\ \A o \in Evals : eval'[o].id = eval[o].id
  <2>1. eval[th].id = 0
    BY <1>4, <1>t DEF EndEval, At, ThreadsOK
  <2> QED BY <1>4, <1>e, <2>1 DEF EndEval, Done
<1>5. ASSUME NEW w \in Workflows, Create(w) \/ Update(w) \/ Delete(w)
      PROVE  UNCHANGED <<execs, abandoned>> /\ \A o \in Evals : eval'[o].id = eval[o].id
  BY <1>5 DEF Create, Update, Delete, Edit
<1>6. ASSUME Tick \/ UNCHANGED engineVars
      PROVE  UNCHANGED <<execs, abandoned>> /\ \A o \in Evals : eval'[o].id = eval[o].id
  BY <1>6 DEF Tick, engineVars
<1> QED BY <1>1, <1>2, <1>3, <1>4, <1>5, <1>6

\* Every step keeps the running executions owned: Start opens one for its
\* thread alone, Finish closes the thread's own, and a thread that dies leaves its
\* execution to abandoned.
LEMMA OwnedStep == EngineInv /\ OwnedInv /\ [EngineNext]_engineVars => OwnedInv'
<1> SUFFICES ASSUME EngineInv, OwnedInv, [EngineNext]_engineVars PROVE OwnedInv'
  OBVIOUS
<1>t. /\ EngineTypeOK /\ ThreadsOK
      /\ eval \in [Evals -> Eval] /\ execs \in Seq(Exec) /\ abandoned \subseteq DOMAIN execs
  BY DEF EngineInv, EngineTypeOK
<1>d. 0 \notin DOMAIN execs
  BY <1>t, DomainOfExecs
<1>1. ASSUME UNCHANGED <<execs, abandoned>>, \A th \in Evals : eval'[th].id = eval[th].id
      PROVE  OwnedInv'
  BY <1>1 DEF OwnedInv
<1>2. ASSUME NEW th \in Evals, NEW status \in {"running", "circuit_open"},
             eval[th].workflow # None, eval[th].id = 0, Record(th, status),
             eval'[th].id = IF status = "running" THEN Len(execs') ELSE 0,
             \A o \in Evals \ {th} : eval'[o].id = eval[o].id,
             UNCHANGED abandoned
      PROVE  OwnedInv'
  <2> DEFINE new == Len(execs) + 1
  <2>1. /\ DOMAIN execs = 1..Len(execs) /\ Len(execs) \in Nat /\ Len(execs') = new
        /\ DOMAIN execs' = 1..new
        /\ \A i \in DOMAIN execs : execs'[i] = execs[i]
        /\ execs'[new].status = status
    <3>1. /\ DOMAIN execs = 1..Len(execs) /\ Len(execs) \in Nat /\ Len(execs') = new
          /\ DOMAIN execs' = 1..new
          /\ \A i \in DOMAIN execs : execs'[i] = execs[i]
          /\ execs'[new] = [workflow |-> eval[th].workflow, key |-> eval[th].key,
                            triggered_at |-> now, status |-> status]
      BY <1>2, <1>t, Recorded
    <3> QED BY <3>1
  <2>2. new \notin DOMAIN execs /\ new # 0 /\ DOMAIN execs' = DOMAIN execs \cup {new}
    BY <2>1
  <2>3. \A o \in Evals : eval[o].id = 0 \/ eval[o].id \in DOMAIN execs
    BY <1>t DEF EngineTypeOK, ThreadsOK
  <2>4. /\ \A o \in Evals \ {th} : eval'[o].id = eval[o].id
        /\ eval'[th].id = IF status = "running" THEN new ELSE 0
        /\ abandoned' = abandoned
    BY <1>2, <2>1
  <2> HIDE DEF new
  <2>5. ASSUME NEW i \in DOMAIN execs'
        PROVE  execs'[i].status = "running"
                 <=> i \in abandoned' \/ \E o \in Evals : eval'[o].id = i
    <3>1. CASE i = new
      <4>1. i \notin abandoned' /\ \A o \in Evals \ {th} : eval'[o].id # i
        BY <1>t, <2>2, <2>3, <2>4, <3>1
      <4>2. CASE status = "running"
        BY <2>1, <2>4, <3>1, <4>2
      <4>3. CASE status # "running"
        BY <2>1, <2>2, <2>4, <3>1, <4>1, <4>3
      <4> QED BY <4>2, <4>3
    <3>2. CASE i \in DOMAIN execs
      <4>1. \A o \in Evals : eval'[o].id = i <=> eval[o].id = i
        BY <1>2, <1>d, <2>2, <2>4, <3>2
      <4> QED BY <2>1, <2>4, <3>2, <4>1 DEF OwnedInv
    <3> QED BY <2>2, <3>1, <3>2
  <2>6. \A p, o \in Evals : eval'[p].id # 0 /\ eval'[p].id = eval'[o].id => p = o
    <3> SUFFICES ASSUME NEW p \in Evals, NEW o \in Evals,
                        eval'[p].id # 0, eval'[p].id = eval'[o].id
                 PROVE  p = o
      OBVIOUS
    <3>1. CASE p # th /\ o # th
      BY <2>4, <3>1 DEF OwnedInv
    <3>2. CASE p = th /\ o # th
      BY <2>2, <2>3, <2>4, <3>2
    <3>3. CASE p # th /\ o = th
      BY <2>2, <2>3, <2>4, <3>3
    <3> QED BY <3>1, <3>2, <3>3
  <2>7. \A o \in Evals : eval'[o].id \notin abandoned'
    BY <1>t, <1>d, <2>2, <2>4 DEF OwnedInv
  <2> QED BY <2>5, <2>6, <2>7 DEF OwnedInv
<1>3. ASSUME NEW th \in Evals, Skip(th) PROVE OwnedInv'
  <2>1. eval[th].workflow # None /\ eval[th].id = 0
    BY <1>3, <1>t DEF Skip, At, EngineTypeOK, ThreadsOK
  <2>2. Record(th, "circuit_open") /\ UNCHANGED abandoned
        /\ eval' = [eval EXCEPT ![th] = NextWorkflow(th)]
    BY <1>3 DEF Skip
  <2>3. NextWorkflow(th).id = 0
    BY <1>t DEF NextWorkflow, Eval
  <2> QED BY <1>2, <1>t, <2>1, <2>2, <2>3
<1>4. ASSUME NEW th \in Evals, Start(th) PROVE OwnedInv'
  <2>1. eval[th].workflow # None /\ eval[th].id = 0
    BY <1>4, <1>t DEF Start, At, EngineTypeOK, ThreadsOK
  <2>2. Record(th, "running") /\ UNCHANGED abandoned
        /\ eval' = [eval EXCEPT ![th].pc = "act", ![th].id = Len(execs')]
    BY <1>4 DEF Start
  <2>3. eval'[th].id = Len(execs') /\ \A o \in Evals \ {th} : eval'[o].id = eval[o].id
    BY <1>t, <2>2 DEF Eval
  <2> QED BY <1>2, <2>1, <2>2, <2>3
<1>5. ASSUME NEW th \in Evals, Finish(th) PROVE OwnedInv'
  <2> DEFINE id == eval[th].id
  <2>1. /\ execs' = [execs EXCEPT ![id].status = IF eval[th].ok THEN "completed" ELSE "failed"]
        /\ eval' = [eval EXCEPT ![th] = NextWorkflow(th)]
        /\ UNCHANGED abandoned
    BY <1>5 DEF Finish
  <2>2. id \in DOMAIN execs
    BY <1>5, <1>t DEF Finish, At, EngineTypeOK
  <2>3. NextWorkflow(th).id = 0
    BY <1>t DEF NextWorkflow, Eval
  <2>4. eval'[th].id = 0 /\ \A o \in Evals \ {th} : eval'[o].id = eval[o].id
    BY <1>t, <2>1, <2>3
  <2>5. /\ DOMAIN execs' = DOMAIN execs
        /\ execs'[id].status # "running"
        /\ \A i \in DOMAIN execs \ {id} : execs'[i] = execs[i]
    <3>1. execs[id] \in Exec
      BY <1>t, <2>2
    <3> HIDE DEF id
    <3> QED BY <1>t, <2>1, <2>2, <3>1 DEF Exec
  <2>6. \A o \in Evals \ {th} : eval[o].id # id
    BY <1>d, <2>2 DEF OwnedInv
  <2>7. id \notin abandoned
    BY DEF OwnedInv
  <2> HIDE DEF id
  <2>8. ASSUME NEW i \in DOMAIN execs
        PROVE  execs'[i].status = "running"
                 <=> i \in abandoned \/ \E o \in Evals : eval'[o].id = i
    <3>1. CASE i = id
      BY <1>d, <2>4, <2>5, <2>6, <2>7, <3>1
    <3>2. CASE i # id
      <4>1. \A o \in Evals : eval'[o].id = i <=> eval[o].id = i
        BY <1>d, <2>4, <3>2 DEF id
      <4> QED BY <2>5, <3>2, <4>1 DEF OwnedInv
    <3> QED BY <3>1, <3>2
  <2>9. \A o \in Evals : eval'[o].id \notin abandoned
    BY <1>d, <1>t, <2>4 DEF OwnedInv
  <2>10. \A p, o \in Evals : eval'[p].id # 0 /\ eval'[p].id = eval'[o].id => p = o
    BY <2>4 DEF OwnedInv
  <2> QED BY <2>1, <2>5, <2>8, <2>9, <2>10 DEF OwnedInv
<1>6. ASSUME NEW th \in Evals, WriteFails(th) PROVE OwnedInv'
  <2>1. /\ eval' = [eval EXCEPT ![th] = Done] /\ UNCHANGED execs
        /\ abandoned' = abandoned \cup ({eval[th].id} \ {0})
    BY <1>6 DEF WriteFails
  <2>2. eval'[th].id = 0 /\ \A o \in Evals \ {th} : eval'[o].id = eval[o].id
    BY <1>t, <2>1 DEF Done
  <2>3. \A i \in DOMAIN execs :
            execs'[i].status = "running"
              <=> i \in abandoned' \/ \E o \in Evals : eval'[o].id = i
    BY <1>d, <2>1, <2>2 DEF OwnedInv
  <2>4. \A o \in Evals : eval'[o].id \notin abandoned'
    BY <1>d, <1>t, <2>1, <2>2 DEF OwnedInv
  <2>5. \A p, o \in Evals : eval'[p].id # 0 /\ eval'[p].id = eval'[o].id => p = o
    BY <2>2 DEF OwnedInv
  <2> QED BY <2>1, <2>3, <2>4, <2>5 DEF OwnedInv
<1>7. CASE Restart
  <2>1. /\ eval' = [th \in Evals |-> Done] /\ UNCHANGED execs
        /\ abandoned' = abandoned \cup ({eval[th].id : th \in Evals} \ {0})
    BY <1>7 DEF Restart
  <2>2. \A th \in Evals : eval'[th].id = 0
    BY <2>1 DEF Done
  <2> QED BY <1>d, <1>t, <2>1, <2>2 DEF OwnedInv
<1> QED BY <1>1, <1>3, <1>4, <1>5, <1>6, <1>7, IdsKept DEF EngineNext, EvalStep

\* At the start nothing runs.
LEMMA OwnedStart == EngineInit => OwnedInv
<1> SUFFICES ASSUME EngineInit PROVE OwnedInv
  OBVIOUS
<1>1. DOMAIN execs = {} /\ abandoned = {} /\ \A th \in Evals : eval[th].id = 0
  BY DEF EngineInit, Done
<1> QED BY <1>1 DEF OwnedInv

\* An execution shown as running is run by exactly one thread, or its thread
\* died before closing it.
THEOREM RunningAlwaysOwned == EngineSpec => []RunningIsOwned
<1>1. EngineInit => OwnedInv
  BY OwnedStart
<1>2. EngineInv /\ OwnedInv => RunningIsOwned
  <2> SUFFICES ASSUME EngineInv, OwnedInv, NEW i \in DOMAIN execs
               PROVE  LET owners == {th \in Evals : eval[th].id = i}
                      IN  /\ execs[i].status = "running" <=> owners # {} \/ i \in abandoned
                          /\ owners # {} => Cardinality(owners) = 1 /\ i \notin abandoned
    BY DEF RunningIsOwned
  <2> DEFINE owners == {th \in Evals : eval[th].id = i}
  <2>1. execs[i].status = "running" <=> owners # {} \/ i \in abandoned
    BY DEF OwnedInv
  <2>2. ASSUME owners # {} PROVE Cardinality(owners) = 1 /\ i \notin abandoned
    <3>1. PICK th \in Evals : eval[th].id = i
      BY <2>2
    <3>2. i # 0
      BY DomainOfExecs DEF EngineInv, EngineTypeOK
    <3>3. owners = {th}
      BY <3>1, <3>2 DEF OwnedInv
    <3> QED BY <3>1, <3>3, FS_Singleton DEF OwnedInv
  <2> QED BY <2>1, <2>2
<1>3. EngineSpec => [](EngineInv /\ OwnedInv)
  BY <1>1, InvStart, InvStep, OwnedStep, PTL DEF EngineSpec
<1> QED BY <1>2, <1>3, PTL

-----------------------------------------------------------------------------
(* How far the limits are exceeded. *)

\* The executions that count against a limit, with the threads that have leave
\* for one more: together they never exceed the limit by more than the threads
\* that can be past the check at once.
Counted(w) == Since(w, Hour)
HaveLeave(w) == {th \in Evals : eval[th].workflow = w /\ eval[th].pc \in {"breaker", "skip", "start"}}
HavePassed(w, k) ==
    {th \in Evals : eval[th].workflow = w /\ eval[th].key = k /\ eval[th].pc = "start"}

RateInv ==
    \A w \in Workflows : Settings[w].perHour # 0 =>
        Cardinality(Counted(w)) + Cardinality(HaveLeave(w))
            <= Settings[w].perHour + Cardinality(Evals) - 1

BreakerInv ==
    \A w \in Workflows : Settings[w].breaker # None =>
        \A k \in Keys :
            Cardinality(Ran(w, k)) + Cardinality(HavePassed(w, k))
                <= Settings[w].breaker.max + Cardinality(Evals) - 1

\* All these sets are finite.
LEMMA FiniteSets ==
    ASSUME execs \in Seq(Exec)
    PROVE  /\ \A w, window : IsFiniteSet(Since(w, window))
           /\ \A w, k : IsFiniteSet(Ran(w, k))
           /\ \A w, k, window : IsFiniteSet(OfKey(w, k, window))
           /\ \A w : IsFiniteSet(HaveLeave(w))
           /\ \A w, k : IsFiniteSet(HavePassed(w, k))
<1>1. IsFiniteSet(DOMAIN execs)
  <2>1. DOMAIN execs = 1..Len(execs) /\ Len(execs) \in Int
    OBVIOUS
  <2> QED BY <2>1, FS_Interval
<1>2. \A S : S \subseteq DOMAIN execs => IsFiniteSet(S)
  BY <1>1, FS_Subset
<1>3. \A S : S \subseteq Evals => IsFiniteSet(S)
  BY EngineAssumption, FS_Subset
<1>4. /\ \A w, window : Since(w, window) \subseteq DOMAIN execs
      /\ \A w, k : Ran(w, k) \subseteq DOMAIN execs
      /\ \A w, k, window : OfKey(w, k, window) \subseteq DOMAIN execs
      /\ \A w : HaveLeave(w) \subseteq Evals
      /\ \A w, k : HavePassed(w, k) \subseteq Evals
  BY DEF Since, Ran, OfKey, HaveLeave, HavePassed
<1> QED BY <1>2, <1>3, <1>4

\* Three ways in which a budget |A| + |B| is kept: both sets shrink, one element
\* moves from B to A, or A was below the limit when B grew.
LEMMA Budget ==
    ASSUME NEW A, NEW B, NEW A2, NEW B2, NEW x, NEW y, NEW N \in Nat,
           IsFiniteSet(A), IsFiniteSet(B)
    PROVE  /\ A2 \subseteq A /\ B2 \subseteq B
                => Cardinality(A2) + Cardinality(B2) <= Cardinality(A) + Cardinality(B)
           /\ A2 \subseteq A \cup {x} /\ B2 \subseteq B \ {y} /\ y \in B
                => Cardinality(A2) + Cardinality(B2) <= Cardinality(A) + Cardinality(B)
           /\ A2 \subseteq A /\ Cardinality(A) < N /\ B2 \subseteq Evals
                => Cardinality(A2) + Cardinality(B2) <= N + Cardinality(Evals) - 1
<1>0. IsFiniteSet(Evals)
  BY EngineAssumption
<1>1. Cardinality(A) \in Nat /\ Cardinality(B) \in Nat /\ Cardinality(Evals) \in Nat
  BY <1>0, FS_CardinalityType
<1>2. ASSUME NEW S, IsFiniteSet(S), NEW T \in SUBSET S
      PROVE  Cardinality(T) <= Cardinality(S) /\ Cardinality(T) \in Nat
  BY <1>2, FS_Subset, FS_CardinalityType
<1>3. ASSUME A2 \subseteq A, B2 \subseteq B
      PROVE  Cardinality(A2) + Cardinality(B2) <= Cardinality(A) + Cardinality(B)
  <2>1. /\ Cardinality(A2) <= Cardinality(A) /\ Cardinality(A2) \in Nat
        /\ Cardinality(B2) <= Cardinality(B) /\ Cardinality(B2) \in Nat
    BY <1>2, <1>3
  <2> QED BY <1>1, <2>1
<1>4. ASSUME A2 \subseteq A \cup {x}, B2 \subseteq B \ {y}, y \in B
      PROVE  Cardinality(A2) + Cardinality(B2) <= Cardinality(A) + Cardinality(B)
  <2>1. /\ IsFiniteSet(A \cup {x}) /\ Cardinality(A \cup {x}) <= Cardinality(A) + 1
    <3>1. /\ IsFiniteSet(A \cup {x})
          /\ \/ Cardinality(A \cup {x}) = Cardinality(A)
             \/ Cardinality(A \cup {x}) = Cardinality(A) + 1
      BY FS_AddElement, Zenon
    <3> QED BY <1>1, <3>1
  <2>2. /\ IsFiniteSet(B \ {y}) /\ Cardinality(B \ {y}) = Cardinality(B) - 1
    BY <1>4, FS_RemoveElement
  <2>3. /\ Cardinality(A2) <= Cardinality(A \cup {x}) /\ Cardinality(A2) \in Nat
        /\ Cardinality(B2) <= Cardinality(B \ {y}) /\ Cardinality(B2) \in Nat
    BY <1>2, <1>4, <2>1, <2>2
  <2>4. Cardinality(A \cup {x}) \in Nat /\ Cardinality(B \ {y}) \in Nat
    BY <2>1, <2>2, FS_CardinalityType
  <2> QED BY <1>1, <2>1, <2>2, <2>3, <2>4
<1>5. ASSUME A2 \subseteq A, Cardinality(A) < N, B2 \subseteq Evals
      PROVE  Cardinality(A2) + Cardinality(B2) <= N + Cardinality(Evals) - 1
  <2>1. /\ Cardinality(A2) <= Cardinality(A) /\ Cardinality(A2) \in Nat
        /\ Cardinality(B2) <= Cardinality(Evals) /\ Cardinality(B2) \in Nat
    BY <1>0, <1>2, <1>5
  <2> QED BY <1>1, <1>5, <2>1
<1> QED BY <1>3, <1>4, <1>5

\* A thread that has leave had it before, or has just been given it.
LEMMA LeaveGiven ==
    ASSUME EngineInv, [EngineNext]_engineVars, NEW o \in Evals,
           eval'[o].pc \in {"breaker", "skip", "start"}
    PROVE  \/ eval'[o] = eval[o]
           \/ /\ eval[o].pc = "breaker"
              /\ eval'[o].workflow = eval[o].workflow
              /\ eval'[o].key = eval[o].key
              /\ eval'[o].pc = "start" => ~BreakerOpen(eval[o].workflow, eval[o].key)
           \/ \E w \in Workflows : /\ CanExecute(w)
                                   /\ eval'[o].workflow = w
                                   /\ eval'[o].pc = "breaker"
<1> DEFINE goal == \/ eval'[o] = eval[o]
                   \/ /\ eval[o].pc = "breaker"
                      /\ eval'[o].workflow = eval[o].workflow
                      /\ eval'[o].key = eval[o].key
                      /\ eval'[o].pc = "start" => ~BreakerOpen(eval[o].workflow, eval[o].key)
                   \/ \E w \in Workflows : /\ CanExecute(w)
                                           /\ eval'[o].workflow = w
                                           /\ eval'[o].pc = "breaker"
<1> HIDE DEF goal
<1>e. eval \in [Evals -> Eval]
  BY DEF EngineInv, EngineTypeOK
<1>0. ASSUME eval'[o] = eval[o] PROVE goal
  BY <1>0 DEF goal
<1>1. ASSUME NEW th \in Evals, EvalStep(th) \/ \E e \in Events : Arrive(th, e) PROVE goal
  <2>1. \E entry : eval' = [eval EXCEPT ![th] = entry]
    <3>1. CASE \E e \in Events : Arrive(th, e)
      BY <3>1, Zenon DEF Arrive
    <3>2. CASE \E w \in Workflows : Pick(th, w)
      BY <3>2, Zenon DEF Pick
    <3>3. CASE CheckBreaker(th)
      BY <3>3, <1>e DEF CheckBreaker, Goto
    <3>4. CASE Skip(th)
      BY <3>4, Zenon DEF Skip
    <3>5. CASE Start(th)
      BY <3>5, <1>e DEF Start
    <3>6. CASE Act(th)
      BY <3>6, Zenon DEF Act
    <3>7. CASE ReadFails(th)
      BY <3>7, <1>e DEF ReadFails
    <3>8. CASE WriteStats(th)
      BY <3>8, <1>e DEF WriteStats, Goto
    <3>9. CASE Finish(th)
      BY <3>9, Zenon DEF Finish
    <3>10. CASE WriteFails(th)
      BY <3>10, Zenon DEF WriteFails
    <3>11. CASE EndEval(th)
      BY <3>11, Zenon DEF EndEval
    <3> QED BY <1>1, <3>1, <3>2, <3>3, <3>4, <3>5, <3>6, <3>7, <3>8, <3>9, <3>10, <3>11
            DEF EvalStep
  <2>2. CASE o # th
    BY <1>0, <1>e, <2>1, <2>2
  <2>3. CASE o = th
    <3>t. eval[th] \in Eval
      BY <1>e
    <3>1. CASE \E w \in Workflows : Pick(th, w)
      <4>1. PICK w \in Workflows : Pick(th, w)
        BY <3>1
      <4>2. CASE CanExecute(w) /\ eval[th].event \in Settings[w].accepts
        <5>1. eval'[th] = [eval[th] EXCEPT !.pc = "breaker", !.todo = @ \ {w}, !.workflow = w,
                                           !.key = KeyOf(w, eval[th].event)]
          BY <1>e, <4>1, <4>2 DEF Pick
        <5>2. eval'[th].pc = "breaker" /\ eval'[th].workflow = w
          BY <3>t, <5>1 DEF Eval
        <5> QED BY <2>3, <4>2, <5>2 DEF goal
      <4>3. CASE ~(CanExecute(w) /\ eval[th].event \in Settings[w].accepts)
        <5>1. eval'[th] = [eval[th] EXCEPT !.todo = @ \ {w}]
          BY <1>e, <4>1, <4>3 DEF Pick
        <5>2. eval'[th].pc = "pick"
          BY <3>t, <4>1, <5>1 DEF Eval, Pick, At
        <5> QED BY <2>3, <5>2
      <4> QED BY <4>2, <4>3
    <3>2. CASE CheckBreaker(th)
      <4> DEFINE to == IF BreakerOpen(eval[th].workflow, eval[th].key) THEN "skip" ELSE "start"
      <4>1. eval[th].pc = "breaker" /\ eval' = [eval EXCEPT ![th].pc = to]
        BY <3>2, Zenon DEF CheckBreaker, Goto, At
      <4>2. to = "start" => ~BreakerOpen(eval[th].workflow, eval[th].key)
        OBVIOUS
      <4> HIDE DEF to
      <4>3. /\ eval'[th].workflow = eval[th].workflow
            /\ eval'[th].key = eval[th].key
            /\ eval'[th].pc = to
        BY <1>e, <3>t, <4>1 DEF Eval
      <4> QED BY <2>3, <4>1, <4>2, <4>3 DEF goal
    <3>3. CASE Act(th) \/ ReadFails(th) \/ WriteStats(th)
      <4>1. eval'[th].pc \in {"write", "finish"}
        <5>1. CASE Act(th)
          BY <1>e, <3>t, <5>1 DEF Act, Eval
        <5>2. CASE ReadFails(th)
          BY <1>e, <3>t, <5>2 DEF ReadFails, Eval
        <5>3. CASE WriteStats(th)
          BY <1>e, <3>t, <5>3 DEF WriteStats, Goto, Eval
        <5> QED BY <3>3, <5>1, <5>2, <5>3
      <4> QED BY <2>3, <4>1
    <3>4. CASE Start(th)
      <4>1. eval'[th].pc = "act"
        BY <1>e, <3>t, <3>4 DEF Start, Eval
      <4> QED BY <2>3, <4>1
    <3>5. CASE Skip(th) \/ Finish(th)
      <4>1. NextWorkflow(th).pc = "pick"
        BY <3>t DEF NextWorkflow, Eval
      <4>2. eval'[th] = NextWorkflow(th)
        BY <1>e, <3>5 DEF Skip, Finish
      <4> QED BY <2>3, <4>1, <4>2
    <3>6. CASE WriteFails(th) \/ EndEval(th)
      <4>1. eval'[th] = Done
        BY <1>e, <3>6 DEF WriteFails, EndEval
      <4> QED BY <2>3, <4>1 DEF Done
    <3>7. CASE \E e \in Events : Arrive(th, e)
      <4>1. eval'[th].pc = "pick"
        BY <1>e, <3>7 DEF Arrive, Done
      <4> QED BY <2>3, <4>1
    <3> QED BY <1>1, <3>1, <3>2, <3>3, <3>4, <3>5, <3>6, <3>7 DEF EvalStep
  <2> QED BY <2>2, <2>3
<1>2. ASSUME \E w \in Workflows : Create(w) \/ Update(w) \/ Delete(w) PROVE goal
  BY <1>0, <1>2 DEF Create, Update, Delete, Edit
<1>3. ASSUME Tick \/ UNCHANGED engineVars PROVE goal
  BY <1>0, <1>3 DEF Tick, engineVars
<1>4. ASSUME Restart PROVE goal
  BY <1>e, <1>4 DEF Restart, Done
<1>5. goal
  <2>1. CASE \E th \in Evals : EvalStep(th) \/ \E e \in Events : Arrive(th, e)
    <3>1. PICK th \in Evals : EvalStep(th) \/ \E e \in Events : Arrive(th, e)
      BY <2>1
    <3> QED BY <1>1, <3>1
  <2>2. \/ \E th \in Evals : EvalStep(th) \/ \E e \in Events : Arrive(th, e)
        \/ \E w \in Workflows : Create(w) \/ Update(w) \/ Delete(w)
        \/ Tick \/ Restart \/ UNCHANGED engineVars
    BY DEF EngineNext
  <2> QED BY <1>2, <1>3, <1>4, <2>1, <2>2
<1> QED BY <1>5 DEF goal

\* A step that records nothing leaves every row its workflow, key and time, and
\* makes no skipped execution one that ran.
LEMMA RowsKept ==
    ASSUME EngineInv, OwnedInv, [EngineNext]_engineVars,
           ~\E th \in Evals : Skip(th) \/ Start(th)
    PROVE  /\ DOMAIN execs' = DOMAIN execs
           /\ now' >= now
           /\ \A i \in DOMAIN execs :
                 /\ execs'[i].workflow = execs[i].workflow
                 /\ execs'[i].key = execs[i].key
                 /\ execs'[i].triggered_at = execs[i].triggered_at
                 /\ execs'[i].status # "circuit_open" => execs[i].status # "circuit_open"
<1>t. execs \in Seq(Exec) /\ now \in Nat /\ eval \in [Evals -> Eval]
  BY DEF EngineInv, EngineTypeOK
<1>d. 0 \notin DOMAIN execs
  BY <1>t, DomainOfExecs
<1>1. CASE \E th \in Evals : Finish(th)
  <2>1. PICK th \in Evals : Finish(th)
    BY <1>1
  <2> DEFINE id == eval[th].id
  <2>2. /\ execs' = [execs EXCEPT ![id].status = IF eval[th].ok THEN "completed" ELSE "failed"]
        /\ now' = now
    BY <2>1 DEF Finish
  <2>3. id \in DOMAIN execs
    BY <2>1 DEF Finish, At, EngineInv, EngineTypeOK
  <2>4. execs[id].status = "running"
    BY <2>3 DEF OwnedInv
  <2>5. execs[id] \in Exec
    BY <1>t, <2>3
  <2> HIDE DEF id
  <2> QED BY <1>t, <2>2, <2>3, <2>4, <2>5 DEF Exec
<1>2. CASE ~\E th \in Evals : Finish(th)
  <2>1. execs' = execs
    BY <1>2 DEF EngineNext, EvalStep, Arrive, Pick, CheckBreaker, Act, ReadFails, WriteStats,
                WriteFails, EndEval, Create, Update, Delete, Edit, Tick, Restart, engineVars
  <2>2. now' = now \/ now' = now + 1
    BY <1>2 DEF EngineNext, EvalStep, Arrive, Pick, CheckBreaker, Act, ReadFails, WriteStats,
                WriteFails, EndEval, Create, Update, Delete, Edit, Tick, Restart, engineVars
  <2> QED BY <1>t, <2>1, <2>2
<1> QED BY <1>1, <1>2

\* So the executions that count against a limit only become fewer.
LEMMA CountsShrink ==
    ASSUME EngineInv, OwnedInv, [EngineNext]_engineVars,
           ~\E th \in Evals : Skip(th) \/ Start(th), NEW w \in Workflows
    PROVE  /\ \A window \in Nat : Since(w, window)' \subseteq Since(w, window)
           /\ Settings[w].breaker # None => \A k : Ran(w, k)' \subseteq Ran(w, k)
<1>t. /\ execs \in Seq(Exec) /\ now \in Nat
      /\ \A i \in DOMAIN execs : execs[i].triggered_at \in Nat
  <2>1. execs \in Seq(Exec) /\ now \in Nat
    BY DEF EngineInv, EngineTypeOK
  <2>2. \A i \in DOMAIN execs : execs[i] \in Exec
    BY <2>1
  <2>3. \A x \in Exec : x.triggered_at \in Nat
    BY DEF Exec
  <2> QED BY <2>1, <2>2, <2>3
<1>n. now' \in Nat
  BY InvStep DEF EngineInv, EngineTypeOK
<1>k. /\ DOMAIN execs' = DOMAIN execs
      /\ now' >= now
      /\ \A i \in DOMAIN execs :
            /\ execs'[i].workflow = execs[i].workflow
            /\ execs'[i].key = execs[i].key
            /\ execs'[i].triggered_at = execs[i].triggered_at
            /\ execs'[i].status # "circuit_open" => execs[i].status # "circuit_open"
  BY RowsKept
<1>1. ASSUME NEW window \in Nat PROVE Since(w, window)' \subseteq Since(w, window)
  BY <1>t, <1>n, <1>k DEF Since
<1>2. ASSUME Settings[w].breaker # None, NEW k PROVE Ran(w, k)' \subseteq Ran(w, k)
  <2> DEFINE window == Settings[w].breaker.window
  <2>1. window \in Nat
    BY <1>2, EngineAssumption DEF Breaker
  <2>2. Since(w, window)' \subseteq Since(w, window)
    BY <1>1, <2>1
  <2>3. Since(w, window) \subseteq DOMAIN execs
    BY DEF Since
  <2> QED BY <1>k, <2>2, <2>3 DEF Ran, OfKey
<1> QED BY <1>1, <1>2

\* A step that records adds one row, of the thread's workflow and key, and takes
\* the thread's leave from it.
LEMMA RecordingStep ==
    ASSUME EngineInv, NEW th \in Evals, Skip(th) \/ Start(th), NEW w \in Workflows
    PROVE  /\ \A window \in Nat :
                 Since(w, window)' \subseteq
                    Since(w, window) \cup (IF eval[th].workflow = w THEN {Len(execs) + 1} ELSE {})
           /\ \A k : Settings[w].breaker # None =>
                 Ran(w, k)' \subseteq
                    Ran(w, k) \cup (IF /\ Start(th)
                                      /\ eval[th].workflow = w
                                      /\ eval[th].key = k
                                      THEN {Len(execs) + 1} ELSE {})
           /\ eval'[th].pc \notin {"breaker", "skip", "start"}
           /\ \A o \in Evals \ {th} : eval'[o] = eval[o]
<1>t. eval \in [Evals -> Eval] /\ now \in Nat /\ EngineTypeOK /\ ThreadsOK
  BY DEF EngineInv, EngineTypeOK
<1>0. eval[th].pc \in {"skip", "start"} /\ eval[th].workflow # None
  BY <1>t DEF Skip, Start, At, EngineTypeOK
<1>1. PICK status \in {"running", "circuit_open"} :
          Record(th, status) /\ (status = "running" => Start(th))
  BY DEF Skip, Start
<1>2. now' = now
  BY DEF Skip, Start
<1> DEFINE new == Len(execs) + 1
<1>3. /\ DOMAIN execs' = DOMAIN execs \cup {new}
      /\ \A i \in DOMAIN execs : execs'[i] = execs[i]
      /\ execs'[new] = [workflow |-> eval[th].workflow, key |-> eval[th].key,
                        triggered_at |-> now, status |-> status]
  <2>1. /\ DOMAIN execs = 1..Len(execs) /\ Len(execs) \in Nat
        /\ DOMAIN execs' = 1..(Len(execs) + 1)
        /\ \A i \in DOMAIN execs : execs'[i] = execs[i]
        /\ execs'[Len(execs) + 1] =
             [workflow |-> eval[th].workflow, key |-> eval[th].key,
              triggered_at |-> now, status |-> status]
    BY <1>t, <1>0, <1>1, Recorded
  <2> QED BY <2>1
<1> HIDE DEF new
<1>4. ASSUME NEW window \in Nat
      PROVE  Since(w, window)' \subseteq
                Since(w, window) \cup (IF eval[th].workflow = w THEN {new} ELSE {})
  BY <1>2, <1>3 DEF Since
<1>5. ASSUME NEW k, Settings[w].breaker # None
      PROVE  Ran(w, k)' \subseteq
                Ran(w, k) \cup (IF /\ Start(th) /\ eval[th].workflow = w /\ eval[th].key = k
                                  THEN {new} ELSE {})
  <2> DEFINE window == Settings[w].breaker.window
  <2> SUFFICES ASSUME NEW i \in Ran(w, k)', i \notin Ran(w, k)
               PROVE  /\ i = new
                      /\ Start(th) /\ eval[th].workflow = w /\ eval[th].key = k
    OBVIOUS
  <2>1. /\ i \in Since(w, window)' /\ execs'[i].key = k
        /\ execs'[i].status # "circuit_open"
    BY DEF Ran, OfKey
  <2>2. i \in DOMAIN execs'
    BY <2>1 DEF Since
  <2>3. window \in Nat
    BY <1>5, EngineAssumption DEF Breaker
  <2>4. i = new
    <3>1. CASE i \in DOMAIN execs
      <4>1. i \in Since(w, window)
        BY <1>2, <1>3, <2>1, <3>1 DEF Since
      <4>2. i \in Ran(w, k)
        BY <1>3, <2>1, <3>1, <4>1 DEF Ran, OfKey
      <4> QED BY <4>2
    <3> QED BY <1>3, <2>2, <3>1
  <2>5. execs'[new].workflow = w
    BY <2>1, <2>4 DEF Since
  <2> QED BY <1>1, <1>3, <2>1, <2>4, <2>5
<1>6. eval'[th].pc \notin {"breaker", "skip", "start"}
  <2>1. CASE Skip(th)
    <3>1. NextWorkflow(th).pc = "pick"
      BY <1>t DEF NextWorkflow, Eval
    <3> QED BY <1>t, <2>1, <3>1 DEF Skip
  <2>2. CASE Start(th)
    BY <1>t, <2>2 DEF Start, Eval
  <2> QED BY <2>1, <2>2
<1>7. \A o \in Evals \ {th} : eval'[o] = eval[o]
  BY <1>t DEF Skip, Start
<1> QED BY <1>4, <1>5, <1>6, <1>7 DEF new

\* ... and stay finite.
LEMMA FiniteSetsAfter ==
    ASSUME EngineInv, [EngineNext]_engineVars
    PROVE  \A w, k : /\ IsFiniteSet(Since(w, Hour)')
                     /\ IsFiniteSet(Ran(w, k)')
                     /\ IsFiniteSet(HaveLeave(w)')
                     /\ IsFiniteSet(HavePassed(w, k)')
<1>1. EngineInv'
  BY InvStep
<1>2. IsFiniteSet(DOMAIN execs')
  <2>1. execs' \in Seq(Exec)
    BY <1>1 DEF EngineInv, EngineTypeOK
  <2>2. DOMAIN execs' = 1..Len(execs') /\ Len(execs') \in Int
    BY <2>1
  <2> QED BY <2>2, FS_Interval
<1>3. \A S : S \subseteq DOMAIN execs' \/ S \subseteq Evals => IsFiniteSet(S)
  BY <1>2, EngineAssumption, FS_Subset
<1>4. \A w, k : /\ Since(w, Hour)' \subseteq DOMAIN execs'
                /\ Ran(w, k)' \subseteq DOMAIN execs'
                /\ HaveLeave(w)' \subseteq Evals
                /\ HavePassed(w, k)' \subseteq Evals
  BY DEF Since, Ran, OfKey, HaveLeave, HavePassed
<1> QED BY <1>3, <1>4

\* At the start nothing counts and no thread has leave.
LEMMA BudgetsStart == EngineInit => RateInv /\ BreakerInv
<1> SUFFICES ASSUME EngineInit PROVE RateInv /\ BreakerInv
  OBVIOUS
<1>1. DOMAIN execs = {} /\ \A th \in Evals : eval[th].pc = "idle"
  BY DEF EngineInit, Done
<1>2. Cardinality(Evals) \in Nat /\ Cardinality(Evals) # 0
  BY EngineAssumption, FS_CardinalityType, FS_EmptySet
<1>3. Cardinality({}) = 0
  BY FS_EmptySet
<1>4. ASSUME NEW w \in Workflows, Settings[w].perHour # 0
      PROVE  Cardinality(Counted(w)) + Cardinality(HaveLeave(w))
                 <= Settings[w].perHour + Cardinality(Evals) - 1
  <2>1. Counted(w) = {} /\ HaveLeave(w) = {}
    BY <1>1 DEF Counted, Since, HaveLeave
  <2>2. Settings[w].perHour \in Nat
    BY EngineAssumption
  <2> QED BY <1>2, <1>3, <1>4, <2>1, <2>2
<1>5. ASSUME NEW w \in Workflows, Settings[w].breaker # None, NEW k \in Keys
      PROVE  Cardinality(Ran(w, k)) + Cardinality(HavePassed(w, k))
                 <= Settings[w].breaker.max + Cardinality(Evals) - 1
  <2>1. Ran(w, k) = {} /\ HavePassed(w, k) = {}
    BY <1>1 DEF Ran, OfKey, Since, HavePassed
  <2>2. Settings[w].breaker.max \in Nat
    BY <1>5, EngineAssumption DEF Breaker
  <2> QED BY <1>2, <1>3, <2>1, <2>2
<1> QED BY <1>4, <1>5 DEF RateInv, BreakerInv

\* A step keeps the rate limit's bound: leave is given below the limit only, and
\* an execution is recorded by a thread that gives its leave up.
LEMMA RateStep ==
    ASSUME EngineInv, OwnedInv, RateInv, [EngineNext]_engineVars
    PROVE  RateInv'
<1> SUFFICES ASSUME NEW w \in Workflows, Settings[w].perHour # 0
             PROVE  Cardinality(Counted(w)') + Cardinality(HaveLeave(w)')
                        <= Settings[w].perHour + Cardinality(Evals) - 1
  BY DEF RateInv
<1> DEFINE A == Counted(w)
           B == HaveLeave(w)
           N == Settings[w].perHour
<1>f. IsFiniteSet(A) /\ IsFiniteSet(B)
  BY FiniteSets DEF EngineInv, EngineTypeOK, Counted
<1>h. N \in Nat /\ Hour \in Nat
  BY EngineAssumption
<1>e. Cardinality(Evals) \in Nat
  BY EngineAssumption, FS_CardinalityType
<1>b. Cardinality(A) + Cardinality(B) <= N + Cardinality(Evals) - 1
  BY DEF RateInv
<1>c. Cardinality(A) \in Nat /\ Cardinality(B) \in Nat
  BY <1>f, FS_CardinalityType
<1>s. B' \subseteq Evals
  BY DEF HaveLeave
<1>1. ASSUME ~\E th \in Evals : Skip(th) \/ Start(th)
      PROVE  Cardinality(A') + Cardinality(B') <= N + Cardinality(Evals) - 1
  <2>1. A' \subseteq A
    BY <1>1, <1>h, CountsShrink DEF Counted
  <2>2. CASE B' \subseteq B
    <3>1. Cardinality(A') + Cardinality(B') <= Cardinality(A) + Cardinality(B)
      BY <1>f, <1>h, <2>1, <2>2, Budget
    <3>2. Cardinality(A') \in Nat /\ Cardinality(B') \in Nat
      BY <1>f, <2>1, <2>2, FS_Subset, FS_CardinalityType
    <3> QED BY <1>b, <1>c, <1>e, <1>h, <3>1, <3>2
  <2>3. CASE ~(B' \subseteq B)
    <3>1. PICK o \in Evals : o \in B' /\ o \notin B
      BY <1>s, <2>3
    <3>2. /\ eval'[o].workflow = w
          /\ eval'[o].pc \in {"breaker", "skip", "start"}
      BY <3>1 DEF HaveLeave
    <3>3. CanExecute(w)
      BY <3>1, <3>2, LeaveGiven DEF HaveLeave
    <3>4. Cardinality(A) < N
      BY <1>c, <1>h, <3>3 DEF CanExecute, RateLimited, Counted
    <3> QED BY <1>f, <1>h, <1>s, <2>1, <3>4, Budget
  <2> QED BY <2>2, <2>3
<1>2. ASSUME NEW th \in Evals, Skip(th) \/ Start(th)
      PROVE  Cardinality(A') + Cardinality(B') <= N + Cardinality(Evals) - 1
  <2> DEFINE new == Len(execs) + 1
  <2>1. /\ A' \subseteq A \cup (IF eval[th].workflow = w THEN {new} ELSE {})
        /\ eval'[th].pc \notin {"breaker", "skip", "start"}
        /\ \A o \in Evals \ {th} : eval'[o] = eval[o]
    BY <1>2, <1>h, RecordingStep DEF Counted
  <2>2. B' \subseteq B \ {th}
    BY <2>1 DEF HaveLeave
  <2>3. Cardinality(A') + Cardinality(B') <= Cardinality(A) + Cardinality(B)
    <3>1. CASE eval[th].workflow = w
      <4>1. th \in B
        BY <1>2, <3>1 DEF Skip, Start, At, HaveLeave
      <4>2. A' \subseteq A \cup {new}
        BY <2>1, <3>1
      <4> HIDE DEF A, B, new
      <4> QED BY <1>f, <1>h, <2>2, <4>1, <4>2, Budget
    <3>2. CASE eval[th].workflow # w
      <4>1. A' \subseteq A /\ B' \subseteq B
        BY <2>1, <2>2, <3>2
      <4> HIDE DEF A, B, new
      <4> QED BY <1>f, <1>h, <4>1, Budget
    <3> QED BY <3>1, <3>2
  <2>4. Cardinality(A') \in Nat /\ Cardinality(B') \in Nat
    BY FiniteSetsAfter, FS_CardinalityType DEF Counted
  <2> HIDE DEF A, B
  <2> QED BY <1>b, <1>c, <1>e, <1>h, <2>3, <2>4
<1> QED BY <1>1, <1>2

\* A step keeps the breaker's bound, by the same argument.
LEMMA BreakerStep ==
    ASSUME EngineInv, OwnedInv, BreakerInv, [EngineNext]_engineVars
    PROVE  BreakerInv'
<1> SUFFICES ASSUME NEW w \in Workflows, Settings[w].breaker # None, NEW k \in Keys
             PROVE  Cardinality(Ran(w, k)') + Cardinality(HavePassed(w, k)')
                        <= Settings[w].breaker.max + Cardinality(Evals) - 1
  BY DEF BreakerInv
<1> DEFINE A == Ran(w, k)
           B == HavePassed(w, k)
           N == Settings[w].breaker.max
<1>f. IsFiniteSet(A) /\ IsFiniteSet(B)
  BY FiniteSets DEF EngineInv, EngineTypeOK
<1>h. N \in Nat
  BY EngineAssumption DEF Breaker
<1>e. Cardinality(Evals) \in Nat
  BY EngineAssumption, FS_CardinalityType
<1>b. Cardinality(A) + Cardinality(B) <= N + Cardinality(Evals) - 1
  BY DEF BreakerInv
<1>c. Cardinality(A) \in Nat /\ Cardinality(B) \in Nat
  BY <1>f, FS_CardinalityType
<1>s. B' \subseteq Evals
  BY DEF HavePassed
<1>1. ASSUME ~\E th \in Evals : Skip(th) \/ Start(th)
      PROVE  Cardinality(A') + Cardinality(B') <= N + Cardinality(Evals) - 1
  <2>1. A' \subseteq A
    BY <1>1, CountsShrink
  <2>2. CASE B' \subseteq B
    <3>1. Cardinality(A') + Cardinality(B') <= Cardinality(A) + Cardinality(B)
      BY <1>f, <1>h, <2>1, <2>2, Budget
    <3>2. Cardinality(A') \in Nat /\ Cardinality(B') \in Nat
      BY <1>f, <2>1, <2>2, FS_Subset, FS_CardinalityType
    <3> QED BY <1>b, <1>c, <1>e, <1>h, <3>1, <3>2
  <2>3. CASE ~(B' \subseteq B)
    <3>1. PICK o \in Evals : o \in B' /\ o \notin B
      BY <1>s, <2>3
    <3>2. /\ eval'[o].workflow = w
          /\ eval'[o].key = k
          /\ eval'[o].pc = "start"
      BY <3>1 DEF HavePassed
    <3>3. eval'[o] # eval[o]
      BY <3>1, <3>2 DEF HavePassed
    <3>4. ~BreakerOpen(w, k)
      BY <3>2, <3>3, LeaveGiven
    <3>5. Cardinality(OfKey(w, k, Settings[w].breaker.window)) < N
      <4>1. k # None
        BY EngineAssumption
      <4>2. Cardinality(OfKey(w, k, Settings[w].breaker.window)) \in Nat
        BY FiniteSets, FS_CardinalityType DEF EngineInv, EngineTypeOK
      <4> QED BY <1>h, <3>4, <4>1, <4>2 DEF BreakerOpen
    <3>6. Cardinality(A) < N
      <4>1. A \subseteq OfKey(w, k, Settings[w].breaker.window)
        BY DEF Ran
      <4>2. IsFiniteSet(OfKey(w, k, Settings[w].breaker.window))
        BY FiniteSets DEF EngineInv, EngineTypeOK
      <4>3. /\ Cardinality(A) <= Cardinality(OfKey(w, k, Settings[w].breaker.window))
            /\ Cardinality(OfKey(w, k, Settings[w].breaker.window)) \in Nat
        BY <4>1, <4>2, FS_Subset, FS_CardinalityType
      <4> QED BY <1>c, <1>h, <3>5, <4>3
    <3> QED BY <1>f, <1>h, <1>s, <2>1, <3>6, Budget
  <2> QED BY <2>2, <2>3
<1>2. ASSUME NEW th \in Evals, Skip(th) \/ Start(th)
      PROVE  Cardinality(A') + Cardinality(B') <= N + Cardinality(Evals) - 1
  <2> DEFINE new == Len(execs) + 1
             mine == Start(th) /\ eval[th].workflow = w /\ eval[th].key = k
  <2>1. /\ A' \subseteq A \cup (IF mine THEN {new} ELSE {})
        /\ eval'[th].pc \notin {"breaker", "skip", "start"}
        /\ \A o \in Evals \ {th} : eval'[o] = eval[o]
    BY <1>2, RecordingStep
  <2>2. B' \subseteq B \ {th}
    BY <2>1 DEF HavePassed
  <2>3. Cardinality(A') + Cardinality(B') <= Cardinality(A) + Cardinality(B)
    <3>1. CASE mine
      <4>1. th \in B
        BY <3>1 DEF Start, At, HavePassed
      <4>2. A' \subseteq A \cup {new}
        BY <2>1, <3>1
      <4> HIDE DEF A, B, new
      <4> QED BY <1>f, <1>h, <2>2, <4>1, <4>2, Budget
    <3>2. CASE ~mine
      <4>1. A' \subseteq A /\ B' \subseteq B
        BY <2>1, <2>2, <3>2
      <4> HIDE DEF A, B, new
      <4> QED BY <1>f, <1>h, <4>1, Budget
    <3> QED BY <3>1, <3>2
  <2>4. Cardinality(A') \in Nat /\ Cardinality(B') \in Nat
    BY FiniteSetsAfter, FS_CardinalityType
  <2> HIDE DEF A, B
  <2> QED BY <1>b, <1>c, <1>e, <1>h, <2>3, <2>4
<1> QED BY <1>1, <1>2

\* Executions per hour exceed max_executions_per_hour by fewer than the threads
\* that run at once.
THEOREM RateLimitNeverFarExceeded == EngineSpec => []RateLimitExceededByThreadsOnly
<1>1. EngineInit => RateInv /\ BreakerInv
  BY BudgetsStart
<1>2. EngineInit => OwnedInv
  BY OwnedStart
<1>3. EngineInv /\ RateInv => RateLimitExceededByThreadsOnly
  <2> SUFFICES ASSUME EngineInv, RateInv, NEW w \in Workflows, Settings[w].perHour # 0
               PROVE  Cardinality(Since(w, Hour))
                          <= Settings[w].perHour + Cardinality(Evals) - 1
    BY DEF RateLimitExceededByThreadsOnly
  <2>1. /\ Cardinality(Since(w, Hour)) \in Nat
        /\ Cardinality(HaveLeave(w)) \in Nat
        /\ Cardinality(Evals) \in Nat
    BY EngineAssumption, FiniteSets, FS_CardinalityType DEF EngineInv, EngineTypeOK
  <2>2. Settings[w].perHour \in Nat
    BY EngineAssumption
  <2>3. Cardinality(Since(w, Hour)) + Cardinality(HaveLeave(w))
            <= Settings[w].perHour + Cardinality(Evals) - 1
    BY DEF RateInv, Counted
  <2> QED BY <2>1, <2>2, <2>3
<1>4. EngineSpec => [](EngineInv /\ OwnedInv /\ RateInv)
  BY <1>1, <1>2, InvStart, InvStep, OwnedStep, RateStep, PTL DEF EngineSpec
<1> QED BY <1>3, <1>4, PTL

\* The executions of one breaker key exceed the breaker's limit by fewer than the
\* threads that run at once.
THEOREM BreakerNeverFarExceeded == EngineSpec => []BreakerExceededByThreadsOnly
<1>1. EngineInit => RateInv /\ BreakerInv
  BY BudgetsStart
<1>2. EngineInit => OwnedInv
  BY OwnedStart
<1>3. EngineInv /\ BreakerInv => BreakerExceededByThreadsOnly
  <2> SUFFICES ASSUME EngineInv, BreakerInv, NEW w \in Workflows,
                      Settings[w].breaker # None, NEW k \in Keys
               PROVE  Cardinality(Ran(w, k))
                          <= Settings[w].breaker.max + Cardinality(Evals) - 1
    BY DEF BreakerExceededByThreadsOnly
  <2>1. /\ Cardinality(Ran(w, k)) \in Nat
        /\ Cardinality(HavePassed(w, k)) \in Nat
        /\ Cardinality(Evals) \in Nat
    BY EngineAssumption, FiniteSets, FS_CardinalityType DEF EngineInv, EngineTypeOK
  <2>2. Settings[w].breaker.max \in Nat
    BY EngineAssumption DEF Breaker
  <2>3. Cardinality(Ran(w, k)) + Cardinality(HavePassed(w, k))
            <= Settings[w].breaker.max + Cardinality(Evals) - 1
    BY DEF BreakerInv
  <2> QED BY <2>1, <2>2, <2>3
<1>4. EngineSpec => [](EngineInv /\ OwnedInv /\ BreakerInv)
  BY <1>1, <1>2, InvStart, InvStep, OwnedStep, BreakerStep, PTL DEF EngineSpec
<1> QED BY <1>3, <1>4, PTL

-----------------------------------------------------------------------------
(* The statistics. *)

\* The executions that StatisticsNeverOvercount counts: those that ran and whose thread,
\* if it still has one, has the statistics behind it.
Finished(w) ==
    {i \in DOMAIN execs : /\ execs[i].workflow = w
                          /\ execs[i].status # "circuit_open"
                          /\ \A th \in Evals : eval[th].id = i => eval[th].pc = "finish"}

\* The statistics of a workflow as they are stored, and as a thread read them that has yet
\* to write.
KnownStats(w) ==
    {defs[w].stats} \cup
    {eval[th].seen : th \in {o \in Evals : eval[o].pc = "write" /\ eval[o].workflow = w}}

\* A thread's execution is one of its workflow.
ThreadsMatch == \A th \in Evals : eval[th].id # 0 => execs[eval[th].id].workflow = eval[th].workflow

\* Successes are written by one thread next to the failures of another, so any two that are
\* known have to fit together.
CountsFit ==
    \A w \in Workflows : \A a, b \in KnownStats(w) :
        /\ a.execution_count <= Cardinality(Finished(w))
        /\ a.success_count + b.failure_count <= Cardinality(Finished(w))

\* In a step that writes no statistics, a thread keeps its execution or takes a new one, and
\* has read what is stored.
Calm(th) ==
    /\ eval'[th].id # 0 => execs'[eval'[th].id].workflow = eval'[th].workflow
    /\ eval'[th].id \in DOMAIN execs /\ eval'[th].pc # "finish"
          => eval[th].id = eval'[th].id /\ eval[th].pc # "finish"
    /\ eval'[th].pc = "write" =>
          \/ /\ eval[th].pc = "write" /\ eval'[th].workflow = eval[th].workflow
             /\ eval'[th].seen = eval[th].seen
          \/ eval'[th].seen = defs[eval'[th].workflow].stats

LEMMA FinishedFinite ==
    ASSUME EngineTypeOK, EngineTypeOK', NEW w
    PROVE  /\ IsFiniteSet(Finished(w)) /\ Cardinality(Finished(w)) \in Nat
           /\ IsFiniteSet(Finished(w)') /\ Cardinality(Finished(w)') \in Nat
<1>1. IsFiniteSet(DOMAIN execs) /\ IsFiniteSet(DOMAIN execs')
  <2>1. /\ DOMAIN execs = 1..Len(execs) /\ Len(execs) \in Int
        /\ DOMAIN execs' = 1..Len(execs') /\ Len(execs') \in Int
    BY DEF EngineTypeOK
  <2> QED BY <2>1, FS_Interval
<1>2. Finished(w) \subseteq DOMAIN execs /\ Finished(w)' \subseteq DOMAIN execs'
  BY DEF Finished
<1> QED BY <1>1, <1>2, FS_Subset, FS_CardinalityType

LEMMA KnownTypes ==
    ASSUME EngineInv, NEW w \in Workflows
    PROVE  KnownStats(w) \subseteq Stats
BY DEF EngineInv, EngineTypeOK, ThreadsOK, KnownStats, Def

\* A smaller count fits under a larger number of executions.
LEMMA FitsUnder ==
    ASSUME NEW a \in Stats, NEW b \in Stats, NEW m \in Nat, NEW n \in Nat, m <= n,
           a.execution_count <= m, a.success_count + b.failure_count <= m
    PROVE  a.execution_count <= n /\ a.success_count + b.failure_count <= n
<1>1. a.execution_count \in Nat /\ a.success_count \in Nat /\ b.failure_count \in Nat
  BY DEF Stats
<1> QED BY <1>1

\* What follows for the step when all threads are calm.
LEMMA CalmStep ==
    ASSUME EngineInv, EngineInv', CountsFit,
           DOMAIN execs \subseteq DOMAIN execs',
           \A i \in DOMAIN execs :
              /\ execs'[i].workflow = execs[i].workflow
              /\ execs[i].status # "circuit_open" => execs'[i].status # "circuit_open",
           \A th \in Evals : Calm(th)
    PROVE  /\ ThreadsMatch'
           /\ \A w : Finished(w) \subseteq Finished(w)'
           /\ (\A w \in Workflows : defs'[w].stats = defs[w].stats) => CountsFit'
<1>1. ThreadsMatch'
  BY DEF ThreadsMatch, Calm
<1>2. ASSUME NEW w, NEW i \in Finished(w) PROVE i \in Finished(w)'
  <2>1. /\ i \in DOMAIN execs /\ execs[i].workflow = w /\ execs[i].status # "circuit_open"
        /\ \A th \in Evals : eval[th].id = i => eval[th].pc = "finish"
    BY DEF Finished
  <2>2. \A th \in Evals : eval'[th].id = i => eval'[th].pc = "finish"
    BY <2>1 DEF Calm
  <2> QED BY <2>1, <2>2 DEF Finished
<1>3. ASSUME \A w \in Workflows : defs'[w].stats = defs[w].stats, NEW w \in Workflows
      PROVE  KnownStats(w)' \subseteq KnownStats(w)
  BY <1>3 DEF KnownStats, Calm
<1>4. ASSUME \A w \in Workflows : defs'[w].stats = defs[w].stats PROVE CountsFit'
  <2> SUFFICES ASSUME NEW w \in Workflows, NEW a \in KnownStats(w)', NEW b \in KnownStats(w)'
               PROVE  /\ a.execution_count <= Cardinality(Finished(w)')
                      /\ a.success_count + b.failure_count <= Cardinality(Finished(w)')
    BY DEF CountsFit
  <2>1. /\ Cardinality(Finished(w)) \in Nat /\ Cardinality(Finished(w)') \in Nat
        /\ Cardinality(Finished(w)) <= Cardinality(Finished(w)')
    <3>1. EngineTypeOK /\ EngineTypeOK'
      BY DEF EngineInv
    <3> QED BY <1>2, <3>1, FinishedFinite, FS_Subset
  <2>2. a \in KnownStats(w) /\ b \in KnownStats(w) /\ a \in Stats /\ b \in Stats
    BY <1>3, <1>4, KnownTypes
  <2> QED BY <2>1, <2>2, FitsUnder DEF CountsFit
<1> QED BY <1>1, <1>2, <1>4

\* What is written is what was read and one more execution.
LEMMA ChangedFits ==
    ASSUME NEW stats \in Stats, NEW seen \in Stats, NEW ok \in BOOLEAN, NEW m \in Nat,
           \A x, y \in {stats, seen} :
              x.execution_count <= m /\ x.success_count + y.failure_count <= m
    PROVE  LET new == Changed(stats, seen, ok)
           IN  /\ new.execution_count <= m + 1
               /\ new.success_count + new.failure_count <= m + 1
               /\ \A b \in Stats :
                    (\A x \in {stats, seen} : /\ b.success_count + x.failure_count <= m
                                              /\ x.success_count + b.failure_count <= m)
                    => /\ new.success_count + b.failure_count <= m + 1
                       /\ b.success_count + new.failure_count <= m + 1
<1> DEFINE new == Changed(stats, seen, ok)
<1>1. /\ new.execution_count = seen.execution_count + 1
      /\ \/ /\ new.success_count = seen.success_count + 1
            /\ new.failure_count = stats.failure_count
         \/ /\ new.success_count = stats.success_count
            /\ new.failure_count = seen.failure_count + 1
  BY DEF Changed, Stats
<1> HIDE DEF new
<1>2. \A x \in Stats : x.execution_count \in Nat /\ x.success_count \in Nat /\ x.failure_count \in Nat
  BY DEF Stats
<1>3. /\ seen.execution_count <= m
      /\ seen.success_count + stats.failure_count <= m
      /\ stats.success_count + seen.failure_count <= m
  OBVIOUS
<1>4. new.execution_count <= m + 1 /\ new.success_count + new.failure_count <= m + 1
  BY <1>1, <1>2, <1>3
<1>5. ASSUME NEW b \in Stats,
             \A x \in {stats, seen} : /\ b.success_count + x.failure_count <= m
                                      /\ x.success_count + b.failure_count <= m
      PROVE  /\ new.success_count + b.failure_count <= m + 1
             /\ b.success_count + new.failure_count <= m + 1
  <2>1. /\ b.success_count + stats.failure_count <= m /\ b.success_count + seen.failure_count <= m
        /\ stats.success_count + b.failure_count <= m /\ seen.success_count + b.failure_count <= m
    BY <1>5
  <2> QED BY <1>1, <1>2, <2>1
<1> QED BY <1>4, <1>5 DEF new

LEMMA WriteStatsFits ==
    ASSUME EngineInv, EngineInv', OwnedInv, ThreadsMatch, CountsFit,
           NEW th \in Evals, WriteStats(th)
    PROVE  ThreadsMatch' /\ CountsFit'
<1>0. PICK v, id : v = eval[th].workflow /\ id = eval[th].id
  OBVIOUS
<1>t. /\ EngineTypeOK /\ EngineTypeOK' /\ ThreadsOK
      /\ eval \in [Evals -> Eval] /\ defs \in [Workflows -> Def] /\ execs \in Seq(Exec)
  BY DEF EngineInv, EngineTypeOK
<1>1. /\ eval[th].pc = "write" /\ v \in Workflows /\ id \in DOMAIN execs /\ id # 0
      /\ eval[th].seen \in Stats /\ eval[th].ok \in BOOLEAN /\ defs[v].stats \in Stats
  <2>1. /\ eval[th].pc = "write" /\ v \in Workflows /\ id \in DOMAIN execs
        /\ eval[th].seen \in Stats /\ eval[th].ok \in BOOLEAN
    BY <1>0, <1>t DEF WriteStats, At, EngineTypeOK, ThreadsOK, Eval
  <2>2. id # 0
    BY <1>t, <2>1, DomainOfExecs
  <2>3. defs[v].stats \in Stats
    BY <1>t, <2>1 DEF Def
  <2> QED BY <2>1, <2>2, <2>3
<1>2. /\ eval' = [eval EXCEPT ![th].pc = "finish"] /\ execs' = execs
      /\ defs'[v].stats = Changed(defs[v].stats, eval[th].seen, eval[th].ok)
      /\ \A w \in Workflows \ {v} : defs'[w] = defs[w]
  <2>1. /\ eval' = [eval EXCEPT ![th].pc = "finish"] /\ execs' = execs
        /\ defs' = [defs EXCEPT ![v].stats = Changed(@, eval[th].seen, eval[th].ok),
                                ![v].last_executed_at = now]
    BY <1>0 DEF WriteStats, Goto
  <2>2. defs[v] \in Def
    BY <1>t, <1>1
  <2>3. defs' = [defs EXCEPT ![v] =
           [defs[v] EXCEPT !.stats = Changed(defs[v].stats, eval[th].seen, eval[th].ok),
                           !.last_executed_at = now]]
    BY <1>t, <1>1, <2>1
  <2> QED BY <1>t, <1>1, <2>1, <2>2, <2>3 DEF Def
<1>3. /\ eval'[th].pc = "finish" /\ eval'[th].id = id
      /\ eval'[th].workflow = v
      /\ \A o \in Evals \ {th} : eval'[o] = eval[o]
  BY <1>0, <1>t, <1>2 DEF Eval
<1>4. \A o \in Evals : Calm(o)
  <2>1. Calm(th)
    BY <1>0, <1>1, <1>2, <1>3 DEF ThreadsMatch, Calm
  <2>2. \A o \in Evals \ {th} : Calm(o)
    BY <1>2, <1>3 DEF ThreadsMatch, Calm
  <2> QED BY <2>1, <2>2
<1>5. ThreadsMatch' /\ \A w : Finished(w) \subseteq Finished(w)'
  <2>1. /\ DOMAIN execs \subseteq DOMAIN execs'
        /\ \A i \in DOMAIN execs :
              /\ execs'[i].workflow = execs[i].workflow
              /\ execs[i].status # "circuit_open" => execs'[i].status # "circuit_open"
    BY <1>2
  <2> QED BY <1>4, <2>1, CalmStep
<1>6. \A w : /\ Cardinality(Finished(w)) \in Nat /\ Cardinality(Finished(w)') \in Nat
             /\ Cardinality(Finished(w)) <= Cardinality(Finished(w)')
             /\ IsFiniteSet(Finished(w)) /\ IsFiniteSet(Finished(w)')
  BY <1>t, <1>5, FinishedFinite, FS_Subset
<1>7. Cardinality(Finished(v)) + 1 <= Cardinality(Finished(v)')
  <2>1. id \notin Finished(v)
    BY <1>0, <1>1 DEF Finished
  <2>2. id \in Finished(v)'
    <3>1. execs[id].workflow = v
      BY <1>0, <1>1 DEF ThreadsMatch
    <3>2. execs[id].status = "running"
      BY <1>0, <1>1 DEF OwnedInv
    <3>3. \A o \in Evals \ {th} : eval'[o].id # id
      BY <1>0, <1>1, <1>3 DEF OwnedInv
    <3> QED BY <1>1, <1>2, <1>3, <3>1, <3>2, <3>3 DEF Finished
  <2>3. Finished(v) \cup {id} \subseteq Finished(v)'
    BY <1>5, <2>2
  <2>4. /\ IsFiniteSet(Finished(v)) /\ IsFiniteSet(Finished(v)')
        /\ Cardinality(Finished(v)) \in Nat /\ Cardinality(Finished(v)') \in Nat
    BY <1>6
  <2>5. Cardinality(Finished(v) \cup {id}) = Cardinality(Finished(v)) + 1
    BY <2>1, <2>4, FS_AddElement
  <2>6. Cardinality(Finished(v) \cup {id}) <= Cardinality(Finished(v)')
    BY <2>3, <2>4, FS_Subset
  <2> QED BY <2>5, <2>6
<1>8. ASSUME NEW w \in Workflows, NEW a \in KnownStats(w)', NEW b \in KnownStats(w)'
      PROVE  /\ a.execution_count <= Cardinality(Finished(w)')
             /\ a.success_count + b.failure_count <= Cardinality(Finished(w)')
  <2> DEFINE new == Changed(defs[v].stats, eval[th].seen, eval[th].ok)
             m   == Cardinality(Finished(w))
             n   == Cardinality(Finished(w)')
  <2>0. m \in Nat /\ n \in Nat /\ m <= n
    BY <1>6
  <2>1. CASE w # v
    <3>1. a \in KnownStats(w) /\ b \in KnownStats(w)
      BY <1>2, <1>3, <2>1 DEF KnownStats
    <3>2. a \in Stats /\ b \in Stats
      BY <3>1, KnownTypes
    <3>3. a.execution_count <= m /\ a.success_count + b.failure_count <= m
      BY <3>1 DEF CountsFit
    <3> HIDE DEF m, n
    <3>4. a.execution_count <= n /\ a.success_count + b.failure_count <= n
      BY <2>0, <3>2, <3>3, FitsUnder
    <3> QED BY <3>4 DEF n
  <2>2. CASE w = v
    <3>1. /\ a = new \/ a \in KnownStats(v)
          /\ b = new \/ b \in KnownStats(v)
      BY <1>2, <1>3, <2>2 DEF KnownStats
    <3>2. {defs[v].stats, eval[th].seen} \subseteq KnownStats(v) /\ KnownStats(v) \subseteq Stats
      BY <1>0, <1>1, KnownTypes DEF KnownStats
    <3>3. \A x, y \in KnownStats(v) :
             x.execution_count <= m /\ x.success_count + y.failure_count <= m
      BY <1>1, <2>2 DEF CountsFit
    <3>4. m + 1 <= n
      BY <1>7, <2>2
    <3>n. new \in Stats
      BY <1>1, ChangedType
    <3>5. /\ new.execution_count <= m + 1
          /\ new.success_count + new.failure_count <= m + 1
          /\ \A x \in KnownStats(v) : /\ new.success_count + x.failure_count <= m + 1
                                      /\ x.success_count + new.failure_count <= m + 1
      <4> HIDE DEF m
      <4> QED BY <1>1, <2>0, <3>2, <3>3, ChangedFits
    <3>6. a \in Stats /\ b \in Stats
      BY <3>1, <3>2, <3>n
    <3> HIDE DEF new, m, n
    <3>7. /\ a.execution_count <= m + 1 /\ a.success_count + b.failure_count <= m + 1
      <4>1. ASSUME NEW x \in KnownStats(v), NEW y \in KnownStats(v)
            PROVE  x.execution_count <= m + 1 /\ x.success_count + y.failure_count <= m + 1
        <5>1. x.execution_count <= m /\ x.success_count + y.failure_count <= m
          BY <3>3
        <5>2. x \in Stats /\ y \in Stats
          BY <3>2
        <5> QED BY <2>0, <5>1, <5>2, FitsUnder
      <4> QED BY <3>1, <3>5, <4>1
    <3>8. a.execution_count <= n /\ a.success_count + b.failure_count <= n
      BY <2>0, <3>4, <3>6, <3>7, FitsUnder
    <3> QED BY <3>8 DEF n
  <2> QED BY <2>1, <2>2
<1> QED BY <1>5, <1>8 DEF CountsFit

LEMMA CountsStep ==
    ASSUME EngineInv, EngineInv', OwnedInv, ThreadsMatch, CountsFit, [EngineNext]_engineVars
    PROVE  ThreadsMatch' /\ CountsFit'
<1>t. /\ EngineTypeOK /\ ThreadsOK
      /\ eval \in [Evals -> Eval] /\ defs \in [Workflows -> Def] /\ execs \in Seq(Exec)
  BY DEF EngineInv, EngineTypeOK
<1>d. 0 \notin DOMAIN execs /\ \A o \in Evals : eval[o].id = 0 \/ eval[o].id \in DOMAIN execs
  BY <1>t, DomainOfExecs DEF EngineTypeOK, ThreadsOK
\* A step of one thread leaves the others calm.
<1>1. ASSUME NEW th \in Evals, NEW entry, eval' = [eval EXCEPT ![th] = entry],
             \A w \in Workflows : defs'[w].stats = defs[w].stats,
             DOMAIN execs \subseteq DOMAIN execs',
             \A i \in DOMAIN execs :
                /\ execs'[i].workflow = execs[i].workflow
                /\ execs[i].status # "circuit_open" => execs'[i].status # "circuit_open",
             Calm(th)
      PROVE  ThreadsMatch' /\ CountsFit'
  <2>1. ASSUME NEW o \in Evals, eval'[o] = eval[o] PROVE Calm(o)
    BY <1>1, <1>d, <2>1 DEF ThreadsMatch, Calm
  <2>2. \A o \in Evals : Calm(o)
    BY <1>1, <1>t, <2>1
  <2> QED BY <1>1, <2>2, CalmStep
\* A thread without an execution is calm.
<1>2. ASSUME NEW th \in Evals, eval'[th].id = 0, eval'[th].pc # "write" PROVE Calm(th)
  BY <1>2, <1>d DEF Calm
<1>3. ASSUME NEW th \in Evals,
             \/ \E e \in Events : Arrive(th, e)
             \/ \E w \in Workflows : Pick(th, w)
             \/ CheckBreaker(th) \/ WriteFails(th) \/ EndEval(th)
      PROVE  ThreadsMatch' /\ CountsFit'
  <2>1. UNCHANGED <<defs, execs>>
    BY <1>3 DEF Arrive, Pick, CheckBreaker, WriteFails, EndEval
  <2>2. PICK entry : eval' = [eval EXCEPT ![th] = entry]
    BY <1>3, <1>t DEF Arrive, Pick, CheckBreaker, WriteFails, EndEval, Goto
  <2>3. eval'[th].id = 0 /\ eval'[th].pc # "write"
    <3>1. ASSUME NEW e \in Events, Arrive(th, e) PROVE eval'[th].id = 0 /\ eval'[th].pc # "write"
      BY <1>t, <3>1 DEF Arrive, Done
    <3>2. ASSUME NEW w \in Workflows, Pick(th, w)
          PROVE  eval'[th].id = 0 /\ eval'[th].pc # "write"
      <4>1. eval[th].id = 0 /\ eval[th].pc = "pick" /\ eval[th] \in Eval
        BY <1>t, <3>2 DEF Pick, At, ThreadsOK
      <4>2. \/ eval'[th] = [eval[th] EXCEPT !.pc = "breaker", !.todo = @ \ {w}, !.workflow = w,
                                            !.key = KeyOf(w, eval[th].event)]
            \/ eval'[th] = [eval[th] EXCEPT !.todo = @ \ {w}]
        BY <1>t, <3>2, Zenon DEF Pick
      <4> QED BY <4>1, <4>2 DEF Eval
    <3>3. ASSUME CheckBreaker(th) PROVE eval'[th].id = 0 /\ eval'[th].pc # "write"
      <4>1. eval[th].id = 0 /\ eval[th].pc = "breaker" /\ eval[th] \in Eval
        BY <1>t, <3>3 DEF CheckBreaker, At, ThreadsOK
      <4>2. PICK to \in {"skip", "start"} : eval' = [eval EXCEPT ![th].pc = to]
        BY <3>3 DEF CheckBreaker, Goto
      <4> QED BY <1>t, <4>1, <4>2 DEF Eval
    <3>4. ASSUME WriteFails(th) \/ EndEval(th) PROVE eval'[th].id = 0 /\ eval'[th].pc # "write"
      BY <1>t, <3>4 DEF WriteFails, EndEval, Done
    <3> QED BY <1>3, <3>1, <3>2, <3>3, <3>4
  <2>4. Calm(th)
    BY <1>2, <2>3
  <2> QED BY <1>1, <2>1, <2>2, <2>4
<1>4. ASSUME NEW th \in Evals, Skip(th) \/ Start(th) PROVE ThreadsMatch' /\ CountsFit'
  <2>0. eval[th].workflow # None /\ eval[th] \in Eval
    BY <1>4, <1>t DEF Skip, Start, At, EngineTypeOK
  <2>1. PICK status \in {"running", "circuit_open"} : Record(th, status)
    BY <1>4 DEF Skip, Start
  <2>2. /\ DOMAIN execs = 1..Len(execs) /\ DOMAIN execs' = 1..(Len(execs) + 1)
        /\ Len(execs) \in Nat /\ Len(execs') = Len(execs) + 1
        /\ \A i \in DOMAIN execs : execs'[i] = execs[i]
        /\ execs'[Len(execs) + 1].workflow = eval[th].workflow
    <3>1. /\ Len(execs) \in Nat /\ Len(execs') = Len(execs) + 1
          /\ DOMAIN execs = 1..Len(execs) /\ DOMAIN execs' = 1..(Len(execs) + 1)
          /\ \A i \in DOMAIN execs : execs'[i] = execs[i]
          /\ execs'[Len(execs) + 1] =
               [workflow |-> eval[th].workflow, key |-> eval[th].key,
                triggered_at |-> now, status |-> status]
      BY <1>t, <2>0, <2>1, Recorded
    <3> QED BY <3>1
  <2>3. UNCHANGED defs
    BY <1>4 DEF Skip, Start
  <2>r. DOMAIN execs \subseteq DOMAIN execs' /\ \A i \in DOMAIN execs : execs'[i] = execs[i]
    BY <2>2
  <2>4. CASE Skip(th)
    <3>1. eval' = [eval EXCEPT ![th] = NextWorkflow(th)]
      BY <2>4 DEF Skip
    <3>2. NextWorkflow(th).id = 0 /\ NextWorkflow(th).pc = "pick"
      BY <2>0 DEF NextWorkflow, Eval
    <3>3. Calm(th)
      BY <1>2, <1>t, <3>1, <3>2
    <3> QED BY <1>1, <2>3, <2>r, <3>1, <3>3
  <2>5. CASE Start(th)
    <3> DEFINE entry == [eval[th] EXCEPT !.pc = "act", !.id = Len(execs')]
    <3>1. eval' = [eval EXCEPT ![th] = entry]
      BY <1>t, <2>5 DEF Start
    <3>2. /\ eval'[th].pc = "act" /\ eval'[th].id = Len(execs) + 1
          /\ eval'[th].workflow = eval[th].workflow
      BY <1>t, <2>0, <2>2, <3>1 DEF Eval
    <3> HIDE DEF entry
    <3>3. Calm(th)
      BY <2>2, <3>2 DEF Calm
    <3> QED BY <1>1, <2>3, <2>r, <3>1, <3>3
  <2> QED BY <1>4, <2>4, <2>5
<1>5. ASSUME NEW th \in Evals, Act(th) \/ ReadFails(th) PROVE ThreadsMatch' /\ CountsFit'
  <2>0. /\ eval[th].pc = "act" /\ eval[th] \in Eval /\ eval[th].id # 0
        /\ execs[eval[th].id].workflow = eval[th].workflow
    BY <1>5, <1>t, <1>d DEF Act, ReadFails, At, EngineTypeOK, ThreadsMatch
  <2>1. UNCHANGED <<defs, execs>>
    BY <1>5 DEF Act, ReadFails
  <2>2. PICK entry : eval' = [eval EXCEPT ![th] = entry]
    BY <1>5, <1>t DEF Act, ReadFails
  <2>3. /\ eval'[th].id = eval[th].id /\ eval'[th].workflow = eval[th].workflow
        /\ eval'[th].pc = "write" => eval'[th].seen = defs[eval[th].workflow].stats
    <3>1. CASE Act(th)
      <4>1. PICK ok \in BOOLEAN : eval'[th] =
              IF defs[eval[th].workflow].state = "deleted"
                THEN [eval[th] EXCEPT !.pc = "finish", !.ok = ok]
                ELSE [eval[th] EXCEPT !.pc = "write", !.ok = ok,
                                      !.seen = defs[eval[th].workflow].stats]
        BY <1>t, <3>1 DEF Act
      <4> QED BY <2>0, <4>1 DEF Eval
    <3>2. CASE ReadFails(th)
      BY <1>t, <2>0, <3>2 DEF ReadFails, Eval
    <3> QED BY <1>5, <3>1, <3>2
  <2>4. Calm(th)
    BY <2>0, <2>1, <2>3 DEF Calm
  <2> QED BY <1>1, <2>1, <2>2, <2>4
<1>6. ASSUME NEW th \in Evals, Finish(th) PROVE ThreadsMatch' /\ CountsFit'
  <2> DEFINE id == eval[th].id
  <2>1. /\ execs' = [execs EXCEPT ![id].status = IF eval[th].ok THEN "completed" ELSE "failed"]
        /\ eval' = [eval EXCEPT ![th] = NextWorkflow(th)] /\ UNCHANGED defs
    BY <1>6 DEF Finish
  <2>2. id \in DOMAIN execs
    BY <1>6, <1>t DEF Finish, At, EngineTypeOK
  <2>3. NextWorkflow(th).id = 0 /\ NextWorkflow(th).pc = "pick"
    BY <1>t DEF NextWorkflow, Eval
  <2>4. Calm(th)
    BY <1>2, <1>t, <2>1, <2>3
  <2>5. execs[id] \in Exec
    BY <1>t, <2>2
  <2> HIDE DEF id
  <2>6. /\ DOMAIN execs \subseteq DOMAIN execs'
        /\ \A i \in DOMAIN execs :
              /\ execs'[i].workflow = execs[i].workflow
              /\ execs[i].status # "circuit_open" => execs'[i].status # "circuit_open"
    BY <1>t, <2>1, <2>2, <2>5 DEF Exec
  <2> QED BY <1>1, <2>1, <2>4, <2>6
<1>7. ASSUME NEW w \in Workflows, Create(w) \/ Update(w) \/ Delete(w)
      PROVE  ThreadsMatch' /\ CountsFit'
  <2>1. PICK to : defs' = [defs EXCEPT ![w].state = to]
    BY <1>7 DEF Create, Update, Delete, Edit
  <2>2. UNCHANGED <<execs, eval>>
    BY <1>7 DEF Create, Update, Delete, Edit
  <2>3. \A u \in Workflows : defs'[u].stats = defs[u].stats
    BY <1>t, <2>1 DEF Def
  <2>4. \A o \in Evals : Calm(o)
    BY <2>2 DEF Calm, ThreadsMatch
  <2> QED BY <2>2, <2>3, <2>4, CalmStep
<1>8. CASE Tick \/ UNCHANGED engineVars
  <2>1. UNCHANGED <<defs, execs, eval>>
    BY <1>8 DEF Tick, engineVars
  <2>2. \A o \in Evals : Calm(o)
    BY <2>1 DEF Calm, ThreadsMatch
  <2> QED BY <2>1, <2>2, CalmStep
<1>9. CASE Restart
  <2>1. UNCHANGED <<defs, execs>> /\ \A o \in Evals : eval'[o] = Done
    BY <1>9 DEF Restart
  <2>2. \A o \in Evals : Calm(o)
    BY <1>2, <2>1 DEF Done
  <2> QED BY <2>1, <2>2, CalmStep
<1> QED BY <1>3, <1>4, <1>5, <1>6, <1>7, <1>8, <1>9, WriteStatsFits DEF EngineNext, EvalStep

\* The statistics may lose executions that end together and never invent one
\* (update_workflow_stats).
THEOREM StatisticsNeverInvent == EngineSpec => []StatisticsNeverOvercount
<1> DEFINE I == EngineInv /\ OwnedInv /\ ThreadsMatch /\ CountsFit
<1>1. EngineInit => I
  <2> SUFFICES ASSUME EngineInit PROVE ThreadsMatch /\ CountsFit
    BY InvStart, OwnedStart
  <2>1. ThreadsMatch
    BY DEF EngineInit, ThreadsMatch, Done
  <2>2. \A w \in Workflows : KnownStats(w) = {NoStats} /\ Finished(w) = {}
    BY DEF EngineInit, KnownStats, Finished, NewDef, Done
  <2>3. CountsFit
    BY <2>2, FS_EmptySet DEF CountsFit, NoStats
  <2> QED BY <2>1, <2>3
<1>2. I /\ [EngineNext]_engineVars => I'
  BY InvStep, OwnedStep, CountsStep
<1>3. I => StatisticsNeverOvercount
  <2> SUFFICES ASSUME I, NEW w \in Workflows
               PROVE  /\ defs[w].stats.execution_count <= Cardinality(Finished(w))
                      /\ defs[w].stats.success_count + defs[w].stats.failure_count
                            <= Cardinality(Finished(w))
    BY DEF StatisticsNeverOvercount, Finished
  <2>1. defs[w].stats \in KnownStats(w)
    BY DEF KnownStats
  <2> QED BY <2>1 DEF CountsFit
<1> QED BY <1>1, <1>2, <1>3, PTL DEF EngineSpec
=============================================================================
