------------------------- MODULE EventPipelineProofs --------------------------
(***************************************************************************)
(* What holds of EventPipeline for any tasks, size of the cache and number *)
(* of events: the names under which the parts of the pipeline keep a task  *)
(* agree, the statistics of the day lie between what was broadcast and     *)
(* what is stored, and the progress shown is the newest.                   *)
(*                                                                         *)
(* Each needs to know how far the event at work has come: that its name is *)
(* registered once it is about to be saved, that it is the newest row of   *)
(* its task and not yet counted, or counted and not yet shown.             *)
(***************************************************************************)
EXTENDS EventPipeline, TLAPS, FiniteSetTheorems, SequenceTheorems

Working(steps) == job # None /\ job.step \in steps

\* Every event that was ever emitted has room among MaxEvents.
RoomInv ==
    \A t \in Tasks :
        IF Working({"enrich", "register", "save"}) /\ job.task = t
          THEN Len(rows[t]) + 1 <= emitted ELSE Len(rows[t]) <= emitted

\* The registry knows the names of the cache, the rows and the event to be saved.
RegistryInv ==
    /\ cached \subseteq registered
    /\ \A t \in Tasks : \A i \in DOMAIN rows[t] : rows[t][i].name \in registered
    /\ Working({"save"}) => job.name \in registered

\* Only tasks of Airflow have its names, and one whose rows show it has it to the end.
IdentityInv ==
    /\ \A t \in Tasks : \A i \in DOMAIN rows[t] : rows[t][i].name = "dag" => t \in Workloads
    /\ job # None =>
         /\ job.name = "dag" => job.task \in Workloads
         /\ job.step = "enrich" => job.name \in {CeleryName(job.task), "unknown"}
    /\ Working({"register", "save"}) /\ job.task \notin blind /\ Stored(job.task)
         => job.name = "dag"
    /\ \A t \in Tasks \ blind : \A i \in DOMAIN rows[t] : \A j \in 1..i :
         rows[t][j].name = "dag" => rows[t][i].name = "dag"

\* The counter of a kind of events, those of them that were broadcast, and whether one is
\* at work in a step.
Counter(type) == IF type = "received" THEN "total" ELSE type
Broadcast(type, name) == {e \in Events(type, name) : e[2] \in shown[e[1]]}
Busy(step, type, name) == Working({step}) /\ job.type = type /\ job.name = name

CountInv ==
    /\ Working({"count", "announce"}) =>
         /\ rows[job.task] # <<>>
         /\ rows[job.task][Len(rows[job.task])] = [type |-> job.type, name |-> job.name]
    /\ \A type \in Types \ Uncounted, name \in Names :
         LET counted == stats[name][Counter(type)]
         IN  /\ Cardinality(Broadcast(type, name)) <= counted
             /\ Busy("announce", type, name) => Cardinality(Broadcast(type, name)) + 1 <= counted
             /\ counted <= Cardinality(Events(type, name))
             /\ Busy("count", type, name) => counted + 1 <= Cardinality(Events(type, name))

LatestInv ==
    \A t \in Tasks :
        IF reports[t] = {} THEN latest[t] = 0
        ELSE latest[t] \in reports[t] /\ \A stamp \in reports[t] : stamp <= latest[t]

PipelineInv == PipelineTypeOK /\ RoomInv /\ RegistryInv /\ IdentityInv /\ CountInv /\ LatestInv

-----------------------------------------------------------------------------
(* The cache of identities.                                                *)

\* Without t, the other entries stay in their order, and none comes twice.
LEMMA OthersOf ==
  ASSUME identity \in Seq(Workloads), IsInjective(identity), NEW t
  PROVE  /\ Others(t) \in Seq(Workloads) /\ IsInjective(Others(t))
         /\ Len(Others(t)) <= Len(identity)
         /\ \A i \in DOMAIN Others(t) : Others(t)[i] # t
<1>1. CASE t \notin ToSet(identity)
  <2>1. Others(t) = identity
    BY <1>1 DEF Others
  <2>2. \A i \in DOMAIN identity : identity[i] # t
    BY <1>1 DEF ToSet
  <2> QED BY <2>1, <2>2
<1>2. CASE t \in ToSet(identity)
  <2> DEFINE i == CHOOSE i \in DOMAIN identity : identity[i] = t
             s == Others(t)
  <2>1. i \in 1..Len(identity) /\ identity[i] = t
    <3>1. \E k \in DOMAIN identity : identity[k] = t
      BY <1>2 DEF ToSet
    <3> QED BY <3>1
  <2>2. s = SubSeq(identity, 1, i - 1) \o SubSeq(identity, i + 1, Len(identity))
    BY <1>2 DEF Others, RemoveAt
  <2> HIDE DEF i
  <2>3. /\ s \in Seq(Workloads) /\ Len(s) = Len(identity) - 1
        /\ \A k \in 1..Len(s) : s[k] = identity[IF k < i THEN k ELSE k + 1]
    <3>1. /\ SubSeq(identity, 1, i - 1) \in Seq(Workloads)
          /\ Len(SubSeq(identity, 1, i - 1)) = i - 1
          /\ \A k \in 1..(i - 1) : SubSeq(identity, 1, i - 1)[k] = identity[k]
      BY <2>1
    <3>2. /\ SubSeq(identity, i + 1, Len(identity)) \in Seq(Workloads)
          /\ Len(SubSeq(identity, i + 1, Len(identity))) = Len(identity) - i
          /\ \A k \in 1..(Len(identity) - i) :
               SubSeq(identity, i + 1, Len(identity))[k] = identity[k + i]
      BY <2>1
    <3> DEFINE a == SubSeq(identity, 1, i - 1)  b == SubSeq(identity, i + 1, Len(identity))
    <3>3. a \in Seq(Workloads) /\ Len(a) = i - 1 /\ \A k \in 1..(i - 1) : a[k] = identity[k]
      BY <3>1
    <3>4. /\ b \in Seq(Workloads) /\ Len(b) = Len(identity) - i
          /\ \A k \in 1..(Len(identity) - i) : b[k] = identity[k + i]
      BY <3>2
    <3>5. s = a \o b
      BY <2>2
    <3> HIDE DEF s, a, b
    <3>6. /\ s \in Seq(Workloads) /\ Len(s) = Len(a) + Len(b)
          /\ \A k \in 1..Len(s) : s[k] = IF k <= Len(a) THEN a[k] ELSE b[k - Len(a)]
      <4>1. /\ a \o b \in Seq(Workloads) /\ Len(a \o b) = Len(a) + Len(b)
            /\ \A k \in 1..(Len(a) + Len(b)) :
                 (a \o b)[k] = IF k <= Len(a) THEN a[k] ELSE b[k - Len(a)]
        BY <3>3, <3>4, ConcatProperties, Zenon
      <4> QED BY <3>5, <4>1
    <3>7. Len(s) = Len(identity) - 1
      BY <2>1, <3>3, <3>4, <3>6
    <3>8. ASSUME NEW k \in 1..Len(s) PROVE s[k] = identity[IF k < i THEN k ELSE k + 1]
      <4>1. CASE k < i
        BY <2>1, <3>3, <3>6, <4>1
      <4>2. CASE ~(k < i)
        <5>1. k - (i - 1) \in 1..(Len(identity) - i) /\ k - (i - 1) + i = k + 1
          BY <2>1, <3>7, <4>2
        <5> QED BY <2>1, <3>3, <3>4, <3>6, <4>2, <5>1
      <4> QED BY <4>1, <4>2
    <3> QED BY <3>6, <3>7, <3>8
  <2>4. \A k, m \in 1..Len(identity) : identity[k] = identity[m] => k = m
    BY DEF IsInjective
  <2> HIDE DEF s
  <2>5. \A k \in 1..Len(s) : s[k] # t
    BY <2>1, <2>3, <2>4
  <2>6. IsInjective(s)
    <3> SUFFICES ASSUME NEW k \in DOMAIN s, NEW m \in DOMAIN s, s[k] = s[m] PROVE k = m
      BY DEF IsInjective
    <3> QED BY <2>1, <2>3, <2>4
  <2>7. s \in Seq(Workloads) /\ IsInjective(s) /\ Len(s) <= Len(identity)
          /\ \A k \in DOMAIN s : s[k] # t
    BY <2>3, <2>5, <2>6
  <2> QED BY <2>7 DEF s
<1> QED BY <1>1, <1>2

\* The cache keeps its size, and t is one of its entries.
LEMMA PutOf ==
  ASSUME identity \in Seq(Workloads), IsInjective(identity), Len(identity) <= CacheSize,
         NEW t \in Workloads
  PROVE  Put(t) \in Seq(Workloads) /\ IsInjective(Put(t)) /\ Len(Put(t)) <= CacheSize
<1> DEFINE o == Others(t)  s == Append(o, t)
<1>1. /\ o \in Seq(Workloads) /\ IsInjective(o) /\ Len(o) <= Len(identity)
      /\ \A i \in DOMAIN o : o[i] # t
  BY OthersOf
<1>2. Put(t) = IF Len(s) > CacheSize THEN Tail(s) ELSE s
  BY DEF Put
<1> HIDE DEF o
<1>3. /\ s \in Seq(Workloads) /\ Len(s) = Len(o) + 1
      /\ \A k \in 1..Len(s) : s[k] = IF k = Len(s) THEN t ELSE o[k]
  BY <1>1
<1>4. \A k, m \in 1..Len(s) : s[k] = s[m] => k = m
  BY <1>1, <1>3 DEF IsInjective
<1> HIDE DEF s
<1>5. CASE Len(s) > CacheSize
  <2>1. Tail(s) \in Seq(Workloads) /\ Len(Tail(s)) = Len(s) - 1
        /\ \A k \in 1..Len(Tail(s)) : Tail(s)[k] = s[k + 1]
    BY <1>3, <1>5, CacheAssumption
  <2>2. IsInjective(Tail(s))
    <3> SUFFICES ASSUME NEW k \in DOMAIN Tail(s), NEW m \in DOMAIN Tail(s), Tail(s)[k] = Tail(s)[m]
                 PROVE  k = m
      BY DEF IsInjective
    <3> QED BY <1>3, <1>4, <2>1
  <2> QED BY <1>1, <1>2, <1>3, <1>5, <2>1, <2>2, CacheAssumption
<1>6. CASE ~(Len(s) > CacheSize)
  <2>1. IsInjective(s)
    BY <1>3, <1>4 DEF IsInjective
  <2> QED BY <1>2, <1>3, <1>6, <2>1, CacheAssumption
<1> QED BY <1>5, <1>6

-----------------------------------------------------------------------------
(* Types and room.                                                         *)

LEMMA RowsAppend ==
  ASSUME PipelineTypeOK, job # None,
         rows' = [rows EXCEPT ![job.task] = Append(@, [type |-> job.type, name |-> job.name])]
  PROVE  /\ job \in Job
         /\ \A t \in Tasks :
              /\ rows[t] \in Seq(Row) /\ rows'[t] \in Seq(Row)
              /\ t # job.task => rows'[t] = rows[t]
              /\ t = job.task =>
                   /\ Len(rows'[t]) = Len(rows[t]) + 1
                   /\ \A i \in 1..Len(rows[t]) : rows'[t][i] = rows[t][i]
                   /\ rows'[t][Len(rows[t]) + 1] = [type |-> job.type, name |-> job.name]
<1>1. job \in Job /\ [type |-> job.type, name |-> job.name] \in Row /\ job.task \in Tasks
  BY DEF PipelineTypeOK, Job, Row
<1>2. DOMAIN rows = Tasks /\ \A t \in Tasks : rows[t] \in Seq(Row)
  BY DEF PipelineTypeOK
<1>3. \A t \in Tasks : rows'[t] = IF t = job.task
                                   THEN Append(rows[t], [type |-> job.type, name |-> job.name])
                                   ELSE rows[t]
  BY <1>1, <1>2
<1> QED BY <1>1, <1>2, <1>3

LEMMA TypeStep == PipelineInv /\ [Next]_pipelineVars => PipelineTypeOK'
<1> SUFFICES ASSUME PipelineInv, [Next]_pipelineVars PROVE PipelineTypeOK' OBVIOUS
<1> USE DEF PipelineInv
<1>0. PipelineTypeOK
  OBVIOUS
<1>1. ASSUME NEW t \in Tasks, NEW type \in Types, Receive(t, type) \/ Lose(t, type)
      PROVE  PipelineTypeOK'
  <2>1. emitted' \in 0..MaxEvents /\ phase' \in [Tasks -> Phases]
    <3> DEFINE next == CASE type = "sent" -> phase[t] [] type = "received" -> "received"
                         [] type = "started" -> "started"
                         [] type = "retried" -> "new" [] OTHER -> "ended"
    <3>1. next \in Phases
      BY <1>0 DEF Phases, PipelineTypeOK
    <3>2. /\ emitted < MaxEvents /\ emitted' = emitted + 1
          /\ phase' = [phase EXCEPT ![t] = next]
      BY <1>1 DEF Receive, Lose, Work
    <3> HIDE DEF next
    <3> QED BY <1>0, <3>1, <3>2, BoundAssumption DEF PipelineTypeOK
  <2>2. job' = None \/ job' \in Job
    BY <1>0, <1>1 DEF Receive, Lose, PipelineTypeOK, Job, CeleryName, Names
  <2> QED BY <1>0, <1>1, <2>1, <2>2 DEF Receive, Lose, PipelineTypeOK, storeVars, progressVars
<1>2. CASE Restart
  <2>1. identity' \in Seq(Workloads) /\ IsInjective(identity') /\ Len(identity') <= CacheSize
    BY <1>2, CacheAssumption DEF Restart, IsInjective
  <2> QED BY <1>0, <1>2, <2>1 DEF Restart, PipelineTypeOK, worldVars, storeVars, progressVars
<1>3. CASE Fail
  BY <1>0, <1>3 DEF Fail, PipelineTypeOK, worldVars, storeVars, progressVars
<1>4. CASE Identify
  <2>1. job \in Job /\ job.task \in Workloads
    <3>1. ASSUME job.task \in ToSet(identity) PROVE job.task \in Workloads
      BY <1>0, <3>1 DEF ToSet, PipelineTypeOK
    <3>2. ASSUME Stored(job.task) PROVE job.task \in Workloads
      BY <1>0, <1>4, <3>2 DEF Stored, IdentityInv, Identify, At, PipelineTypeOK, Job
    <3> QED BY <1>0, <1>4, <3>1, <3>2 DEF Identify, At, Decoded, PipelineTypeOK
  <2>2. identity' \in Seq(Workloads) /\ IsInjective(identity') /\ Len(identity') <= CacheSize
    BY <1>0, <1>4, <2>1, PutOf DEF Identify, PipelineTypeOK
  <2>3. job' \in Job
    BY <1>4, <2>1 DEF Identify, Job, Names
  <2> QED BY <1>0, <1>4, <2>2, <2>3 DEF Identify, PipelineTypeOK, worldVars, storeVars, progressVars
<1>5. CASE LeaveName
  <2>1. job' \in Job /\ blind' \subseteq Tasks
    BY <1>0, <1>5 DEF LeaveName, At, Go, PipelineTypeOK, Job
  <2> QED BY <1>0, <1>5, <2>1 DEF LeaveName, PipelineTypeOK, worldVars, storeVars, progressVars
<1>6. CASE Register
  <2>1. job' \in Job /\ cached' \subseteq Names /\ registered' \subseteq Names
    BY <1>0, <1>6 DEF Register, At, Go, PipelineTypeOK, Job
  <2> QED BY <1>0, <1>6, <2>1 DEF Register, PipelineTypeOK, worldVars, storeVars, progressVars
<1>7. CASE Save
  <2>1. /\ job' \in Job
        /\ \A t \in Tasks : rows'[t] \in Seq(Row) /\ shown[t] \subseteq DOMAIN rows'[t]
    <3>1. job' \in Job
      BY <1>0, <1>7 DEF Save, At, Go, PipelineTypeOK, Job
    <3>2. \A t \in Tasks : /\ rows[t] \in Seq(Row) /\ rows'[t] \in Seq(Row)
                           /\ Len(rows[t]) <= Len(rows'[t])
      BY <1>0, <1>7, RowsAppend DEF Save, At
    <3> QED BY <1>0, <3>1, <3>2 DEF PipelineTypeOK
  <2>2. DOMAIN rows' = Tasks
    BY <1>0, <1>7 DEF Save, PipelineTypeOK
  <2> QED BY <1>0, <1>7, <2>1, <2>2 DEF Save, PipelineTypeOK, worldVars, progressVars
<1>8. CASE Count
  <2>1. job \in Job /\ job' \in Job
    BY <1>0, <1>8 DEF Count, At, Go, PipelineTypeOK, Job
  <2>2. stats' \in [Names -> [Counters -> Nat]]
    <3>1. \A n \in Names : Counted(stats[n], job.type) \in [Counters -> Nat]
      <4> SUFFICES ASSUME NEW n \in Names PROVE Counted(stats[n], job.type) \in [Counters -> Nat]
        OBVIOUS
      <4>1. stats[n] \in [Counters -> Nat] /\ job.type \in Types
        BY <1>0, <2>1 DEF PipelineTypeOK, Job
      <4>2. \A c \in Nat : Less(c) \in Nat
        BY DEF Less
      <4>3. "total" \in Counters /\ "pending" \in Counters /\ "retried" \in Counters
        BY DEF Counters, Types, Naming, Uncounted
      <4>4. CASE job.type = "received"
        <5>1. Counted(stats[n], job.type) =
                [stats[n] EXCEPT !.total = @ + 1, !.pending = @ + 1]
          BY <4>4 DEF Counted, Uncounted
        <5>2. [stats[n] EXCEPT !.total = @ + 1] \in [Counters -> Nat]
          BY <4>1, <4>3
        <5> DEFINE f == [stats[n] EXCEPT !.total = @ + 1]
        <5>3. Counted(stats[n], job.type) = [f EXCEPT !.pending = stats[n].pending + 1]
          BY <5>1
        <5> HIDE DEF f
        <5>4. f \in [Counters -> Nat] /\ stats[n].pending + 1 \in Nat
          BY <4>1, <4>3, <5>2 DEF f
        <5> QED BY <4>3, <5>3, <5>4
      <4>5. CASE job.type \in Uncounted
        BY <4>1, <4>5 DEF Counted, Uncounted
      <4>6. CASE job.type = "retried"
        BY <4>1, <4>3, <4>6 DEF Counted, Uncounted
      <4>7. CASE job.type \notin Uncounted \cup {"received", "retried"}
        <5>1. Counted(stats[n], job.type) =
                [stats[n] EXCEPT ![job.type] = @ + 1, !.pending = Less(@)]
          BY <4>7 DEF Counted
        <5>2. job.type \in Counters
          BY <4>1, <4>7 DEF Counters, Naming, Uncounted
        <5>3. [stats[n] EXCEPT ![job.type] = @ + 1] \in [Counters -> Nat]
          BY <4>1, <5>2
        <5> DEFINE f == [stats[n] EXCEPT ![job.type] = @ + 1]
        <5>4. Counted(stats[n], job.type) = [f EXCEPT !.pending = Less(stats[n].pending)]
          BY <5>1
        <5> HIDE DEF f
        <5>5. f \in [Counters -> Nat] /\ Less(stats[n].pending) \in Nat
          BY <4>1, <4>2, <4>3, <5>3 DEF f
        <5> QED BY <4>3, <5>4, <5>5
      <4> QED BY <4>4, <4>5, <4>6, <4>7
    <3>2. stats' = [stats EXCEPT ![job.name] = Counted(stats[job.name], job.type)] /\ job.name \in Names
      BY <1>8, <2>1 DEF Count, Job
    <3> QED BY <1>0, <3>1, <3>2 DEF PipelineTypeOK
  <2> QED BY <1>0, <1>8, <2>1, <2>2 DEF Count, PipelineTypeOK, worldVars, progressVars
<1>9. CASE Announce
  <2>1. job \in Job /\ job' = None
    BY <1>0, <1>9 DEF Announce, At, PipelineTypeOK
  <2>2. rows[job.task] # <<>> /\ rows[job.task] \in Seq(Row) /\ job.task \in Tasks
    BY <1>0, <1>9, <2>1 DEF CountInv, Working, Announce, At, PipelineTypeOK, Job
  <2>3. Len(rows[job.task]) \in DOMAIN rows[job.task]
    BY <2>2
  <2>4. /\ shown' \in [Tasks -> SUBSET Nat]
        /\ \A t \in Tasks : shown'[t] \subseteq DOMAIN rows[t]
    BY <1>0, <1>9, <2>2, <2>3 DEF Announce, PipelineTypeOK
  <2> QED BY <1>0, <1>9, <2>1, <2>4 DEF Announce, PipelineTypeOK, worldVars, progressVars
<1>10. ASSUME NEW t \in Reporters, NEW stamp \in 1..MaxStamp, Report(t, stamp)
       PROVE  PipelineTypeOK'
  BY <1>0, <1>10, TaskAssumption DEF Report, PipelineTypeOK, worldVars, storeVars
<1>11. CASE UNCHANGED pipelineVars
  BY <1>0, <1>11 DEF PipelineTypeOK, pipelineVars, worldVars, storeVars, progressVars
<1> QED BY <1>1, <1>2, <1>3, <1>4, <1>5, <1>6, <1>7, <1>8, <1>9, <1>10, <1>11 DEF Next

LEMMA RoomStep == PipelineInv /\ [Next]_pipelineVars => RoomInv'
<1> SUFFICES ASSUME PipelineInv, [Next]_pipelineVars PROVE RoomInv' OBVIOUS
<1>0. PipelineTypeOK /\ RoomInv
  BY DEF PipelineInv
<1>1. ASSUME NEW t \in Tasks, NEW type \in Types, Receive(t, type) \/ Lose(t, type)
      PROVE  RoomInv'
  <2>1. job = None /\ emitted' = emitted + 1 /\ UNCHANGED rows
    BY <1>1 DEF Receive, Lose, Work, storeVars
  <2>2. \A x \in Tasks : Len(rows[x]) \in Nat /\ Len(rows[x]) <= emitted
    BY <1>0, <2>1 DEF PipelineTypeOK, RoomInv, Working
  <2> QED BY <1>0, <2>1, <2>2 DEF PipelineTypeOK, RoomInv, Working
<1>2. ASSUME UNCHANGED <<rows, emitted>>,
             job' = None \/ (/\ job # None /\ job'.task = job.task
                             /\ job.step \in {"enrich", "register", "save"})
                \/ (job # None /\ job'.step \notin {"enrich", "register", "save"})
                \/ UNCHANGED job
      PROVE  RoomInv'
  <2>1. \A x \in Tasks : Len(rows[x]) \in Nat
    BY <1>0 DEF PipelineTypeOK
  <2>2. emitted \in Nat
    BY <1>0, BoundAssumption DEF PipelineTypeOK
  <2> QED BY <1>0, <1>2, <2>1, <2>2 DEF RoomInv, Working
<1>3. CASE Restart
  BY <1>2, <1>3 DEF Restart, worldVars, storeVars
<1>4. CASE Fail
  BY <1>2, <1>4 DEF Fail, worldVars, storeVars
<1>5. CASE Identify \/ LeaveName \/ Register
  <2>1. /\ UNCHANGED <<rows, emitted>> /\ job # None
        /\ job.step \in {"enrich", "register", "save"} /\ job'.task = job.task
    BY <1>0, <1>5 DEF Identify, LeaveName, Register, At, Go, worldVars, storeVars, PipelineTypeOK, Job
  <2> QED BY <1>2, <2>1
<1>6. CASE Save
  <2>1. /\ job # None /\ job.step = "save" /\ job'.step = "count" /\ UNCHANGED emitted
        /\ rows' = [rows EXCEPT ![job.task] = Append(@, [type |-> job.type, name |-> job.name])]
    BY <1>0, <1>6 DEF Save, At, Go, worldVars, PipelineTypeOK, Job
  <2>2. \A x \in Tasks : /\ rows[x] \in Seq(Row) /\ (x # job.task => rows'[x] = rows[x])
                         /\ (x = job.task => Len(rows'[x]) = Len(rows[x]) + 1)
    BY <1>0, <2>1, RowsAppend
  <2> QED BY <1>0, <2>1, <2>2 DEF RoomInv, Working
<1>7. CASE Count
  <2>1. UNCHANGED <<rows, emitted>> /\ job # None /\ job'.step \notin {"enrich", "register", "save"}
    BY <1>0, <1>7 DEF Count, At, Go, worldVars, PipelineTypeOK, Job
  <2> QED BY <1>2, <2>1
<1>8. CASE Announce
  BY <1>2, <1>8 DEF Announce, worldVars
<1>9. ASSUME NEW t \in Reporters, NEW stamp \in 1..MaxStamp, Report(t, stamp)
      PROVE  RoomInv'
  BY <1>2, <1>9 DEF Report, worldVars, storeVars
<1>10. CASE UNCHANGED pipelineVars
  BY <1>2, <1>10 DEF pipelineVars, worldVars, storeVars
<1> QED BY <1>1, <1>3, <1>4, <1>5, <1>6, <1>7, <1>8, <1>9, <1>10 DEF Next

-----------------------------------------------------------------------------
(* Names.                                                                  *)

LEMMA RegistryStep == PipelineInv /\ [Next]_pipelineVars => RegistryInv'
<1> SUFFICES ASSUME PipelineInv, [Next]_pipelineVars PROVE RegistryInv' OBVIOUS
<1>0. PipelineTypeOK /\ RegistryInv
  BY DEF PipelineInv
<1>1. ASSUME UNCHANGED <<rows, registered>>, cached' \subseteq registered,
             Working({"save"})' => UNCHANGED job
      PROVE  RegistryInv'
  BY <1>0, <1>1 DEF RegistryInv, Working
<1>2. ASSUME NEW t \in Tasks, NEW type \in Types, Receive(t, type) \/ Lose(t, type)
      PROVE  RegistryInv'
  BY <1>0, <1>1, <1>2 DEF Receive, Lose, storeVars, Working, RegistryInv
<1>3. CASE Restart \/ Fail \/ Announce
  BY <1>0, <1>1, <1>3 DEF Restart, Fail, Announce, storeVars, Working, RegistryInv
<1>4. CASE Identify \/ LeaveName \/ Count
  <2>1. UNCHANGED <<rows, registered, cached>> /\ job # None /\ job \in Job
    BY <1>0, <1>4 DEF Identify, LeaveName, Count, At, storeVars, PipelineTypeOK
  <2>2. job'.step \in {"register", "announce"}
    BY <1>4, <2>1 DEF Identify, LeaveName, Count, At, Go, Job
  <2> QED BY <1>0, <1>1, <2>1, <2>2 DEF Working, RegistryInv
<1>5. CASE Register
  <2>1. job \in Job /\ job'.name = job.name /\ UNCHANGED rows /\ cached' = cached \cup {job.name}
        /\ registered' = IF job.name \in cached THEN registered ELSE registered \cup {job.name}
    BY <1>0, <1>5 DEF Register, At, Go, storeVars, PipelineTypeOK, Job
  <2> QED BY <1>0, <2>1 DEF RegistryInv, Working
<1>6. CASE Save
  <2>1. /\ Working({"save"}) /\ job # None /\ job'.step = "count"
        /\ UNCHANGED <<cached, registered>>
        /\ rows' = [rows EXCEPT ![job.task] = Append(@, [type |-> job.type, name |-> job.name])]
    BY <1>0, <1>6 DEF Save, At, Go, Working, PipelineTypeOK, Job
  <2>2. ASSUME NEW t \in Tasks, NEW i \in DOMAIN rows'[t]
        PROVE  rows'[t][i].name \in registered
    <3>1. rows[t] \in Seq(Row) /\ rows'[t] \in Seq(Row)
      BY <1>0, <2>1, RowsAppend
    <3>2. CASE t # job.task
      BY <1>0, <2>1, <2>2, <3>2, RowsAppend DEF RegistryInv
    <3>3. CASE t = job.task /\ i \in 1..Len(rows[t])
      BY <1>0, <2>1, <3>1, <3>3, RowsAppend DEF RegistryInv
    <3>4. CASE t = job.task /\ i = Len(rows[t]) + 1
      BY <1>0, <2>1, <3>4, RowsAppend DEF RegistryInv
    <3> QED BY <1>0, <2>1, <3>1, <3>2, <3>3, <3>4, RowsAppend
  <2> QED BY <1>0, <2>1, <2>2 DEF RegistryInv, Working
<1>7. ASSUME NEW t \in Reporters, NEW stamp \in 1..MaxStamp, Report(t, stamp)
      PROVE  RegistryInv'
  BY <1>0, <1>1, <1>7 DEF Report, storeVars, RegistryInv
<1>8. CASE UNCHANGED pipelineVars
  BY <1>0, <1>1, <1>8 DEF pipelineVars, storeVars, RegistryInv
<1> QED BY <1>2, <1>3, <1>4, <1>5, <1>6, <1>7, <1>8 DEF Next

LEMMA IdentityStep == PipelineInv /\ [Next]_pipelineVars => IdentityInv'
<1> SUFFICES ASSUME PipelineInv, [Next]_pipelineVars PROVE IdentityInv' OBVIOUS
<1>0. PipelineTypeOK /\ IdentityInv
  BY DEF PipelineInv
<1>1. ASSUME UNCHANGED <<rows, blind>>,
             job' = None \/ UNCHANGED job
                \/ /\ job'.step = "enrich" /\ job'.name \in {CeleryName(job'.task), "unknown"}
      PROVE  IdentityInv'
  BY <1>0, <1>1 DEF IdentityInv, Working, Stored, CeleryName
<1>2. ASSUME NEW t \in Tasks, NEW type \in Types, Receive(t, type) \/ Lose(t, type)
      PROVE  IdentityInv'
  <2>1. CASE Receive(t, type)
    <3>1. UNCHANGED <<rows, blind>> /\ job'.step = "enrich" /\ job'.task = t
          /\ job'.name \in {CeleryName(t), "unknown"}
      BY <2>1 DEF Receive, storeVars
    <3> QED BY <1>1, <3>1
  <2>2. CASE Lose(t, type)
    BY <1>1, <2>2 DEF Lose, storeVars
  <2> QED BY <1>2, <2>1, <2>2
<1>3. CASE Restart \/ Fail \/ Announce
  BY <1>1, <1>3 DEF Restart, Fail, Announce, storeVars
<1>4. CASE Identify
  <2>1. job \in Job /\ job.task \in Workloads
    <3>1. ASSUME job.task \in ToSet(identity) PROVE job.task \in Workloads
      BY <1>0, <3>1 DEF ToSet, PipelineTypeOK
    <3>2. ASSUME Stored(job.task) PROVE job.task \in Workloads
      BY <1>0, <1>4, <3>2 DEF Stored, IdentityInv, Identify, At, PipelineTypeOK, Job
    <3> QED BY <1>0, <1>4, <3>1, <3>2 DEF Identify, At, Decoded, PipelineTypeOK
  <2>2. UNCHANGED <<rows, blind>> /\ job'.name = "dag" /\ job'.step = "register" /\ job'.task = job.task
    BY <1>4, <2>1 DEF Identify, storeVars, Job
  <2> QED BY <1>0, <2>1, <2>2 DEF IdentityInv, Working
<1>5. CASE LeaveName
  <2>1. /\ job \in Job /\ job # None /\ job.step = "enrich" /\ UNCHANGED rows
        /\ job'.name = job.name /\ job'.step = "register" /\ job'.task = job.task
        /\ blind \subseteq blind'
    BY <1>0, <1>5 DEF LeaveName, At, Go, PipelineTypeOK, Job, storeVars
  <2>2. ASSUME job.task \notin blind', Stored(job.task) PROVE FALSE
    <3>1. job.name \notin LookedUp
      BY <1>5, <2>2 DEF LeaveName
    <3>2. job.task \notin Workloads
      BY <1>0, <2>1, <3>1 DEF IdentityInv, LookedUp, CeleryName
    <3> QED BY <1>0, <2>1, <2>2, <3>2 DEF IdentityInv, Stored, Job
  <2>3. ASSUME Stored(job.task)' PROVE Stored(job.task)
    <3>1. PICK i \in DOMAIN rows'[job'.task] : rows'[job'.task][i].name = "dag"
      BY <2>3 DEF Stored
    <3> QED BY <2>1, <3>1 DEF Stored
  <2>4. ASSUME (Working({"register", "save"}) /\ job.task \notin blind /\ Stored(job.task))'
        PROVE  job'.name = "dag"
    BY <2>1, <2>2, <2>3, <2>4
  <2> QED BY <1>0, <2>1, <2>4 DEF IdentityInv
<1>6. CASE Register
  <2>1. /\ job \in Job /\ job # None /\ job.step = "register" /\ UNCHANGED <<rows, blind>>
        /\ job'.name = job.name /\ job'.step = "save" /\ job'.task = job.task
    BY <1>0, <1>6 DEF Register, At, Go, PipelineTypeOK, Job, storeVars
  <2>2. ASSUME Stored(job.task)' PROVE Stored(job.task)
    <3>1. PICK i \in DOMAIN rows'[job'.task] : rows'[job'.task][i].name = "dag"
      BY <2>2 DEF Stored
    <3> QED BY <2>1, <3>1 DEF Stored
  <2>3. ASSUME (Working({"register", "save"}) /\ job.task \notin blind /\ Stored(job.task))'
        PROVE  job'.name = "dag"
    BY <1>0, <2>1, <2>2, <2>3 DEF IdentityInv, Working
  <2> QED BY <1>0, <2>1, <2>3 DEF IdentityInv
<1>7. CASE Save
  <2>1. /\ job \in Job /\ job # None /\ job.step = "save" /\ UNCHANGED blind
        /\ job'.name = job.name /\ job'.step = "count" /\ job'.task = job.task
        /\ rows' = [rows EXCEPT ![job.task] = Append(@, [type |-> job.type, name |-> job.name])]
    BY <1>0, <1>7 DEF Save, At, Go, PipelineTypeOK, Job
  <2> DEFINE x == job.task  n == Len(rows[x])
  <2>2. x \in Tasks /\ n \in Nat /\ DOMAIN rows[x] = 1..n /\ DOMAIN rows'[x] = 1..(n + 1)
        /\ (\A i \in 1..n : rows'[x][i] = rows[x][i]) /\ rows'[x][n + 1].name = job.name
    BY <1>0, <2>1, RowsAppend DEF Job
  <2>3. \A t \in Tasks : t # x => rows'[t] = rows[t]
    BY <1>0, <2>1, RowsAppend
  <2>4. \A t \in Tasks : \A i \in DOMAIN rows'[t] : rows'[t][i].name = "dag" => t \in Workloads
    BY <1>0, <2>1, <2>2, <2>3 DEF IdentityInv
  <2>5. ASSUME NEW t \in Tasks \ blind, NEW i \in DOMAIN rows'[t], NEW j \in 1..i,
               rows'[t][j].name = "dag"
        PROVE  rows'[t][i].name = "dag"
    <3>1. CASE t # x
      BY <1>0, <2>3, <2>5, <3>1 DEF IdentityInv
    <3>2. CASE t = x /\ i \in 1..n
      BY <1>0, <2>2, <2>5, <3>2 DEF IdentityInv
    <3>3. CASE t = x /\ i = n + 1
      <4>1. CASE j = i
        BY <2>5, <4>1
      <4>2. CASE j # i
        <5>1. j \in 1..n
          BY <2>2, <3>3, <4>2
        <5>2. Stored(x)
          BY <2>2, <2>5, <3>3, <5>1 DEF Stored
        <5> QED BY <1>0, <2>1, <2>2, <2>5, <3>3, <5>2 DEF IdentityInv, Working
      <4> QED BY <4>1, <4>2
    <3> QED BY <2>2, <3>1, <3>2, <3>3
  <2> QED BY <1>0, <2>1, <2>4, <2>5 DEF IdentityInv, Working
<1>8. CASE Count
  <2>1. /\ job \in Job /\ job # None /\ UNCHANGED <<rows, blind>>
        /\ job'.name = job.name /\ job'.step = "announce" /\ job'.task = job.task
    BY <1>0, <1>8 DEF Count, At, Go, PipelineTypeOK, Job, storeVars
  <2> QED BY <1>0, <2>1 DEF IdentityInv, Working
<1>9. ASSUME NEW t \in Reporters, NEW stamp \in 1..MaxStamp, Report(t, stamp)
      PROVE  IdentityInv'
  BY <1>1, <1>9 DEF Report, storeVars
<1>10. CASE UNCHANGED pipelineVars
  BY <1>1, <1>10 DEF pipelineVars, storeVars
<1> QED BY <1>2, <1>3, <1>4, <1>5, <1>6, <1>7, <1>8, <1>9, <1>10 DEF Next

-----------------------------------------------------------------------------
(* Progress.                                                               *)

LEMMA LatestStep == PipelineInv /\ [Next]_pipelineVars => LatestInv'
<1> SUFFICES ASSUME PipelineInv, [Next]_pipelineVars PROVE LatestInv' OBVIOUS
<1>0. PipelineTypeOK /\ LatestInv
  BY DEF PipelineInv
<1>1. ASSUME NEW t \in Reporters, NEW stamp \in 1..MaxStamp, Report(t, stamp)
      PROVE  LatestInv'
  <2>1. /\ reports' = [reports EXCEPT ![t] = @ \cup {stamp}]
        /\ latest' = IF stamp > latest[t] THEN [latest EXCEPT ![t] = stamp] ELSE latest
    BY <1>1 DEF Report, Supersedes
  <2>2. stamp \in Nat /\ stamp > 0 /\ t \in Tasks
    BY TaskAssumption, BoundAssumption
  <2>3. ASSUME NEW x \in Tasks
        PROVE  /\ latest[x] \in Nat /\ \A m \in reports[x] : m \in Nat
               /\ reports'[x] = IF x = t THEN reports[x] \cup {stamp} ELSE reports[x]
               /\ latest'[x] = IF x = t /\ stamp > latest[t] THEN stamp ELSE latest[x]
    <3>1. latest[x] \in 0..MaxStamp /\ reports[x] \subseteq 1..MaxStamp
      BY <1>0 DEF PipelineTypeOK
    <3>2. reports'[x] = IF x = t THEN reports[x] \cup {stamp} ELSE reports[x]
      BY <1>0, <2>1 DEF PipelineTypeOK
    <3>3. latest'[x] = IF x = t /\ stamp > latest[t] THEN stamp ELSE latest[x]
      BY <1>0, <2>1 DEF PipelineTypeOK
    <3> QED BY <3>1, <3>2, <3>3, BoundAssumption
  <2>4. ASSUME NEW x \in Tasks
        PROVE  IF reports'[x] = {} THEN latest'[x] = 0
               ELSE latest'[x] \in reports'[x] /\ \A m \in reports'[x] : m <= latest'[x]
    <3>1. CASE x # t
      BY <1>0, <2>3, <3>1 DEF LatestInv
    <3>2. CASE x = t /\ stamp > latest[t]
      <4>1. \A m \in reports[t] : m \in Nat /\ m <= latest[t]
        BY <1>0, <2>2, <2>3 DEF LatestInv
      <4>2. reports'[x] = reports[t] \cup {stamp} /\ latest'[x] = stamp /\ latest[t] \in Nat
        BY <2>2, <2>3, <3>2
      <4>3. \A m \in reports[t] \cup {stamp} : m <= stamp
        BY <2>2, <3>2, <4>1, <4>2
      <4>4. reports'[x] # {} /\ latest'[x] \in reports'[x] /\ \A m \in reports'[x] : m <= latest'[x]
        BY <4>2, <4>3
      <4> QED BY <4>4
    <3>3. CASE x = t /\ ~(stamp > latest[t])
      <4>1. reports[t] # {}
        BY <1>0, <2>2, <3>3 DEF LatestInv
      <4>2. latest[t] \in reports[t] /\ \A m \in reports[t] : m <= latest[t]
        BY <1>0, <2>2, <4>1 DEF LatestInv
      <4>3. reports'[x] = reports[t] \cup {stamp} /\ latest'[x] = latest[t] /\ latest[t] \in Nat
        BY <2>2, <2>3, <3>3
      <4>4. \A m \in reports[t] \cup {stamp} : m <= latest[t]
        BY <2>2, <3>3, <4>2, <4>3
      <4>5. reports'[x] # {} /\ latest'[x] \in reports'[x] /\ \A m \in reports'[x] : m <= latest'[x]
        BY <4>2, <4>3, <4>4
      <4> QED BY <4>5
    <3> QED BY <3>1, <3>2, <3>3
  <2> QED BY <2>4 DEF LatestInv
<1>2. CASE UNCHANGED progressVars
  BY <1>0, <1>2 DEF LatestInv, progressVars
<1>3. ASSUME NEW t \in Tasks, NEW type \in Types, Receive(t, type) \/ Lose(t, type)
      PROVE  LatestInv'
  BY <1>2, <1>3 DEF Receive, Lose
<1> QED
  BY <1>1, <1>2, <1>3
  DEF Next, Restart, Fail, Identify, LeaveName, Register, Save, Count, Announce, pipelineVars
-----------------------------------------------------------------------------
(* Statistics.                                                             *)

LEMMA EventsFinite ==
  ASSUME NEW type, NEW name
  PROVE  IsFiniteSet(Events(type, name)) /\ IsFiniteSet(Broadcast(type, name))
<1>1. IsFiniteSet(Tasks \X (1..MaxEvents))
  <2>1. IsFiniteSet(1..MaxEvents)
    BY BoundAssumption, FS_Interval
  <2> QED BY <2>1, TaskAssumption, FS_Product
<1>2. Events(type, name) \in SUBSET (Tasks \X (1..MaxEvents))
  BY DEF Events
<1>3. Broadcast(type, name) \in SUBSET (Tasks \X (1..MaxEvents))
  BY <1>2 DEF Broadcast
<1> QED BY <1>1, <1>2, <1>3, FS_Subset

LEMMA EventsFiniteNext ==
  ASSUME NEW type, NEW name
  PROVE  IsFiniteSet(Events(type, name)') /\ IsFiniteSet(Broadcast(type, name)')
<1>1. IsFiniteSet(Tasks \X (1..MaxEvents))
  <2>1. IsFiniteSet(1..MaxEvents)
    BY BoundAssumption, FS_Interval
  <2> QED BY <2>1, TaskAssumption, FS_Product
<1>2. Events(type, name)' \in SUBSET (Tasks \X (1..MaxEvents))
  BY DEF Events
<1>3. Broadcast(type, name)' \in SUBSET (Tasks \X (1..MaxEvents))
  BY <1>2 DEF Broadcast
<1> QED BY <1>1, <1>2, <1>3, FS_Subset

\* The part of CountInv that is about one counter.
LEMMA Numbers ==
  ASSUME PipelineInv, NEW type \in Types \ Uncounted, NEW name \in Names
  PROVE  /\ Counter(type) \in Counters /\ stats[name][Counter(type)] \in Nat
         /\ Cardinality(Broadcast(type, name)) \in Nat /\ Cardinality(Events(type, name)) \in Nat
         /\ Cardinality(Broadcast(type, name)) <= stats[name][Counter(type)]
         /\ stats[name][Counter(type)] <= Cardinality(Events(type, name))
         /\ Busy("announce", type, name) =>
              Cardinality(Broadcast(type, name)) + 1 <= stats[name][Counter(type)]
         /\ Busy("count", type, name) =>
              stats[name][Counter(type)] + 1 <= Cardinality(Events(type, name))
<1>1. Counter(type) \in Counters
  BY DEF Counter, Counters, Types, Naming, Uncounted
<1>2. stats[name][Counter(type)] \in Nat
  BY <1>1 DEF PipelineInv, PipelineTypeOK
<1>3. Cardinality(Broadcast(type, name)) \in Nat /\ Cardinality(Events(type, name)) \in Nat
  BY EventsFinite, FS_CardinalityType
<1> QED BY <1>1, <1>2, <1>3 DEF PipelineInv, CountInv

\* A step that leaves what is stored, counted and shown alone.
LEMMA CountKept ==
  ASSUME PipelineInv, UNCHANGED storeVars,
         job' = None \/ UNCHANGED job \/ job'.step \notin {"count", "announce"}
  PROVE  CountInv'
<1>1. UNCHANGED <<rows, stats, shown>> /\ CountInv
  BY DEF storeVars, PipelineInv
<1>2. \A type, name : Events(type, name)' = Events(type, name)
                       /\ Broadcast(type, name)' = Broadcast(type, name)
  BY <1>1 DEF Events, Broadcast
<1>3. Working({"count", "announce"})' => UNCHANGED job /\ Working({"count", "announce"})
  BY DEF Working
<1>4. \A type, name : /\ Busy("count", type, name)' => Busy("count", type, name)
                      /\ Busy("announce", type, name)' => Busy("announce", type, name)
  BY DEF Working, Busy
<1> QED BY <1>1, <1>2, <1>3, <1>4 DEF CountInv, Counter

LEMMA CountSave == ASSUME PipelineInv, Save PROVE CountInv'
<1>0. PipelineTypeOK /\ RoomInv /\ CountInv
  BY DEF PipelineInv
<1> DEFINE x == job.task  n == Len(rows[x])  row == [type |-> job.type, name |-> job.name]
<1>1. /\ job \in Job /\ job # None /\ job.step = "save" /\ UNCHANGED <<stats, shown>>
      /\ job'.task = x /\ job'.type = job.type /\ job'.name = job.name /\ job'.step = "count"
      /\ rows' = [rows EXCEPT ![x] = Append(@, row)]
  BY <1>0 DEF Save, At, Go, PipelineTypeOK, Job
<1>2. /\ x \in Tasks /\ n \in Nat /\ DOMAIN rows[x] = 1..n /\ DOMAIN rows'[x] = 1..(n + 1)
      /\ (\A i \in 1..n : rows'[x][i] = rows[x][i]) /\ rows'[x][n + 1] = row
      /\ rows'[x] \in Seq(Row) /\ Len(rows'[x]) = n + 1
  BY <1>0, <1>1, RowsAppend DEF Job
<1>3. \A t \in Tasks : t # x => rows'[t] = rows[t]
  BY <1>0, <1>1, RowsAppend
<1>4. n + 1 \in 1..MaxEvents
  <2>1. n + 1 <= emitted /\ emitted \in 0..MaxEvents
    BY <1>0, <1>1, <1>2 DEF RoomInv, Working, PipelineTypeOK
  <2> QED BY <1>2, <2>1, BoundAssumption
<1>5. \A t \in Tasks : shown[t] \subseteq DOMAIN rows[t]
  BY <1>0 DEF PipelineTypeOK
<1> HIDE DEF n, row, x
<1>6. ASSUME NEW type \in Types \ Uncounted, NEW name \in Names
      PROVE  /\ Cardinality(Broadcast(type, name)') <= stats[name][Counter(type)]
             /\ stats[name][Counter(type)] <= Cardinality(Events(type, name)')
             /\ Busy("count", type, name)' =>
                  stats[name][Counter(type)] + 1 <= Cardinality(Events(type, name)')
  <2>1. Events(type, name)' = Events(type, name) \cup
                                {e \in {<<x, n + 1>>} : row = [type |-> type, name |-> name]}
    <3>1. ASSUME NEW e \in Tasks \X (1..MaxEvents)
          PROVE  e \in Events(type, name)' <=>
                   \/ e \in Events(type, name)
                   \/ e = <<x, n + 1>> /\ row = [type |-> type, name |-> name]
      <4>1. /\ e[1] \in Tasks /\ e[2] \in Nat /\ e = <<e[1], e[2]>>
            /\ e \in Events(type, name)' <=>
                 e[2] \in DOMAIN rows'[e[1]] /\ rows'[e[1]][e[2]] = [type |-> type, name |-> name]
            /\ e \in Events(type, name) <=>
                 e[2] \in DOMAIN rows[e[1]] /\ rows[e[1]][e[2]] = [type |-> type, name |-> name]
        BY BoundAssumption DEF Events
      <4>2. CASE e[1] # x
        BY <1>3, <4>1, <4>2
      <4>3. CASE e[1] = x /\ e[2] = n + 1
        BY <1>2, <4>1, <4>3
      <4>4. CASE e[1] = x /\ e[2] # n + 1
        BY <1>2, <4>1, <4>4
      <4> QED BY <4>2, <4>3, <4>4
    <3>2. <<x, n + 1>> \in Tasks \X (1..MaxEvents)
      BY <1>2, <1>4
    <3> QED BY <3>1, <3>2 DEF Events
  <2>2. <<x, n + 1>> \notin Events(type, name)
    BY <1>2 DEF Events
  <2>3. Broadcast(type, name)' = Broadcast(type, name)
    <3>1. \A e \in {<<x, n + 1>>} : e[2] \notin shown[e[1]]
      BY <1>2, <1>5
    <3> QED BY <1>1, <2>1, <3>1 DEF Broadcast
  <2>4. Busy("count", type, name)' => row = [type |-> type, name |-> name]
    BY <1>1 DEF Busy, row
  <2>5. IsFiniteSet(Events(type, name))
    BY EventsFinite
  <2>6. CASE row = [type |-> type, name |-> name]
    <3>1. Events(type, name)' = Events(type, name) \cup {<<x, n + 1>>}
      BY <2>1, <2>6
    <3>2. Cardinality(Events(type, name)') = Cardinality(Events(type, name)) + 1
      BY <2>2, <2>5, <3>1, FS_AddElement
    <3> QED BY <2>3, <3>2, Numbers
  <2>7. CASE row # [type |-> type, name |-> name]
    <3>1. Events(type, name)' = Events(type, name)
      BY <2>1, <2>7
    <3> QED BY <2>3, <2>4, <2>7, <3>1, Numbers
  <2> QED BY <2>6, <2>7
<1>7. rows'[job'.task] # <<>> /\ rows'[job'.task][Len(rows'[job'.task])] = [type |-> job'.type, name |-> job'.name]
  BY <1>1, <1>2 DEF row
<1>8. \A type, name : ~Busy("announce", type, name)'
  BY <1>1 DEF Busy, Working
<1> QED BY <1>1, <1>6, <1>7, <1>8 DEF CountInv, Counter

LEMMA CountCount == ASSUME PipelineInv, Count PROVE CountInv'
<1>0. PipelineTypeOK /\ CountInv
  BY DEF PipelineInv
<1>1. /\ job \in Job /\ job # None /\ job.step = "count" /\ UNCHANGED <<rows, shown>>
      /\ job'.task = job.task /\ job'.type = job.type /\ job'.name = job.name
      /\ job'.step = "announce"
      /\ stats' = [stats EXCEPT ![job.name] = Counted(stats[job.name], job.type)]
  BY <1>0 DEF Count, At, Go, PipelineTypeOK, Job
<1>2. ASSUME NEW type \in Types \ Uncounted, NEW name \in Names
      PROVE  stats'[name][Counter(type)] = stats[name][Counter(type)]
                + (IF Busy("count", type, name) THEN 1 ELSE 0)
  <2>1. stats[name] \in [Counters -> Nat] /\ Counter(type) \in Counters /\ job.type \in Types
    BY <1>0, <1>1, Numbers DEF PipelineTypeOK, Job
  <2>2. stats'[name] = IF name = job.name THEN Counted(stats[name], job.type) ELSE stats[name]
    BY <1>0, <1>1 DEF PipelineTypeOK
  <2>3. Busy("count", type, name) <=> job.type = type /\ job.name = name
    BY <1>1 DEF Busy, Working
  <2>4. stats[name][Counter(type)] \in Nat
    BY <2>1
  <2>5. Counted(stats[name], job.type)[Counter(type)] =
          stats[name][Counter(type)] + (IF job.type = type THEN 1 ELSE 0)
    <3>1. CASE job.type = "received"
      <4>1. Counted(stats[name], job.type) = [stats[name] EXCEPT !.total = @ + 1, !.pending = @ + 1]
        BY <3>1 DEF Counted, Uncounted
      <4>2. Counter(type) # "pending" /\ (Counter(type) = "total" <=> type = job.type)
        BY <3>1 DEF Types, Counter
      <4> DEFINE f == [stats[name] EXCEPT !.total = @ + 1]
      <4>3. Counted(stats[name], job.type) = [f EXCEPT !.pending = stats[name].pending + 1]
        BY <4>1
      <4>4. f \in [Counters -> Nat]
            /\ f[Counter(type)] = IF Counter(type) = "total"
                                    THEN stats[name][Counter(type)] + 1 ELSE stats[name][Counter(type)]
        BY <2>1 DEF Counters
      <4> HIDE DEF f
      <4>5. Counted(stats[name], job.type)[Counter(type)] = f[Counter(type)]
        BY <2>1, <4>2, <4>3, <4>4
      <4> QED BY <2>4, <4>2, <4>4, <4>5
    <3>2. CASE job.type \in Uncounted
      <4>1. job.type # type /\ job.type \notin {"received"}
        BY <3>2 DEF Uncounted
      <4>2. Counted(stats[name], job.type) = stats[name]
        BY <3>2 DEF Counted, Uncounted
      <4> QED BY <2>4, <4>1, <4>2
    <3>3. CASE job.type = "retried"
      BY <2>1, <2>4, <3>3 DEF Counted, Counter, Types, Counters, Naming, Uncounted
    <3>4. CASE job.type \notin Uncounted \cup {"received", "retried"}
      <4>1. Counted(stats[name], job.type) =
              [stats[name] EXCEPT ![job.type] = @ + 1, !.pending = Less(@)]
        BY <3>4 DEF Counted
      <4>2. job.type \in Counters /\ job.type # "pending" /\ Counter(type) # "pending"
        BY <2>1, <3>4 DEF Counters, Types, Counter, Naming, Uncounted
      <4>3. Counter(type) = job.type <=> type = job.type
        BY <2>1, <3>4 DEF Types, Counter
      <4> DEFINE f == [stats[name] EXCEPT ![job.type] = @ + 1]
      <4>4. Counted(stats[name], job.type) = [f EXCEPT !.pending = Less(stats[name].pending)]
        BY <4>1
      <4>5. f \in [Counters -> Nat]
            /\ f[Counter(type)] = IF Counter(type) = job.type
                                    THEN stats[name][Counter(type)] + 1 ELSE stats[name][Counter(type)]
        BY <2>1, <4>2
      <4> HIDE DEF f
      <4>6. Counted(stats[name], job.type)[Counter(type)] = f[Counter(type)]
        BY <2>1, <4>2, <4>4, <4>5
      <4> QED BY <2>4, <4>3, <4>5, <4>6
    <3> QED BY <3>1, <3>2, <3>3, <3>4
  <2> QED BY <2>2, <2>3, <2>4, <2>5
<1>3. \A type, name : Events(type, name)' = Events(type, name)
                       /\ Broadcast(type, name)' = Broadcast(type, name)
  BY <1>1 DEF Events, Broadcast
<1>4. \A type, name : /\ ~Busy("count", type, name)'
                      /\ Busy("announce", type, name)' => Busy("count", type, name)
  BY <1>1 DEF Busy, Working
<1>5. ASSUME NEW type \in Types \ Uncounted, NEW name \in Names
      PROVE  /\ Cardinality(Broadcast(type, name)) <= stats'[name][Counter(type)]
             /\ Busy("count", type, name) =>
                  Cardinality(Broadcast(type, name)) + 1 <= stats'[name][Counter(type)]
             /\ stats'[name][Counter(type)] <= Cardinality(Events(type, name))
  BY <1>2, Numbers
<1>6. /\ rows[job.task] # <<>>
      /\ rows[job.task][Len(rows[job.task])] = [type |-> job.type, name |-> job.name]
  BY <1>0, <1>1 DEF CountInv, Working
<1> QED BY <1>1, <1>3, <1>4, <1>5, <1>6 DEF CountInv, Counter

LEMMA CountAnnounce == ASSUME PipelineInv, Announce PROVE CountInv'
<1>0. PipelineTypeOK /\ CountInv
  BY DEF PipelineInv
<1> DEFINE x == job.task  n == Len(rows[x])
<1>1. /\ job \in Job /\ job # None /\ job.step = "announce" /\ UNCHANGED <<rows, stats>>
      /\ job' = None /\ x \in Tasks
      /\ shown' = [shown EXCEPT ![x] = @ \cup {n}]
  BY <1>0 DEF Announce, At, PipelineTypeOK, Job
<1>2. rows[x][n] = [type |-> job.type, name |-> job.name]
  BY <1>0, <1>1 DEF CountInv, Working
<1>3. \A t \in Tasks : shown'[t] = IF t = x THEN shown[t] \cup {n} ELSE shown[t]
  BY <1>0, <1>1 DEF PipelineTypeOK
<1> HIDE DEF n, x
<1>4. ASSUME NEW type \in Types \ Uncounted, NEW name \in Names
      PROVE  Cardinality(Broadcast(type, name)') <= stats[name][Counter(type)]
  <2>1. IsFiniteSet(Broadcast(type, name))
    BY EventsFinite
  <2>2. CASE Busy("announce", type, name)
    <3>1. Broadcast(type, name)' \subseteq Broadcast(type, name) \cup {<<x, n>>}
      <4> SUFFICES ASSUME NEW e \in Broadcast(type, name)', e # <<x, n>>
                   PROVE  e \in Broadcast(type, name)
        OBVIOUS
      <4>1. e \in Events(type, name) /\ e[2] \in shown'[e[1]] /\ e[1] \in Tasks /\ e = <<e[1], e[2]>>
        BY <1>1 DEF Broadcast, Events
      <4> QED BY <1>3, <4>1 DEF Broadcast
    <3>2. /\ IsFiniteSet(Broadcast(type, name) \cup {<<x, n>>})
          /\ Cardinality(Broadcast(type, name) \cup {<<x, n>>}) <= Cardinality(Broadcast(type, name)) + 1
      <4>1. Cardinality(Broadcast(type, name)) \in Nat
        BY <2>1, FS_CardinalityType
      <4>2. /\ IsFiniteSet(Broadcast(type, name) \cup {<<x, n>>})
            /\ Cardinality(Broadcast(type, name) \cup {<<x, n>>}) =
                 IF <<x, n>> \in Broadcast(type, name) THEN Cardinality(Broadcast(type, name))
                 ELSE Cardinality(Broadcast(type, name)) + 1
        BY <2>1, FS_AddElement
      <4> QED BY <4>1, <4>2
    <3>3. Cardinality(Broadcast(type, name)') <= Cardinality(Broadcast(type, name) \cup {<<x, n>>})
      BY <3>1, <3>2, FS_Subset
    <3>4. /\ Cardinality(Broadcast(type, name)') \in Nat
          /\ Cardinality(Broadcast(type, name) \cup {<<x, n>>}) \in Nat
      BY <3>2, EventsFiniteNext, FS_CardinalityType
    <3> QED BY <2>2, <3>2, <3>3, <3>4, Numbers
  <2>3. CASE ~Busy("announce", type, name)
    <3>1. rows[x][n] # [type |-> type, name |-> name]
      BY <1>1, <1>2, <2>3 DEF Busy, Working
    <3>2. Broadcast(type, name)' = Broadcast(type, name)
      <4>1. \A e \in Events(type, name) :
              /\ e \in Events(type, name)' /\ e[1] \in Tasks
              /\ e[2] \in shown'[e[1]] <=> e[2] \in shown[e[1]]
        <5> SUFFICES ASSUME NEW e \in Events(type, name)
                     PROVE  /\ e \in Events(type, name)' /\ e[1] \in Tasks
                            /\ e[2] \in shown'[e[1]] <=> e[2] \in shown[e[1]]
          OBVIOUS
        <5>1. /\ e \in Events(type, name)' /\ e[1] \in Tasks
              /\ rows[e[1]][e[2]] = [type |-> type, name |-> name]
          BY <1>1 DEF Events
        <5> QED BY <1>3, <3>1, <5>1
      <4>2. Events(type, name)' = Events(type, name)
        BY <1>1 DEF Events
      <4> QED BY <4>1, <4>2 DEF Broadcast
    <3> QED BY <3>2, Numbers
  <2> QED BY <2>2, <2>3
<1>5. \A type, name : Events(type, name)' = Events(type, name)
  BY <1>1 DEF Events
<1>6. ~Working({"count", "announce"})' /\ \A step, type, name : ~Busy(step, type, name)'
  BY <1>1 DEF Busy, Working
<1> QED BY <1>1, <1>4, <1>5, <1>6, Numbers DEF CountInv, Counter

LEMMA CountStep == PipelineInv /\ [Next]_pipelineVars => CountInv'
<1> SUFFICES ASSUME PipelineInv, [Next]_pipelineVars PROVE CountInv' OBVIOUS
<1>0. PipelineTypeOK
  BY DEF PipelineInv
<1>1. ASSUME NEW t \in Tasks, NEW type \in Types, Receive(t, type) \/ Lose(t, type)
      PROVE  CountInv'
  <2>1. UNCHANGED storeVars /\ (UNCHANGED job \/ job'.step = "enrich")
    BY <1>1 DEF Receive, Lose
  <2> QED BY <2>1, CountKept
<1>2. CASE Restart \/ Fail
  BY <1>2, CountKept DEF Restart, Fail
<1>3. CASE Identify \/ LeaveName \/ Register
  <2>1. job \in Job /\ UNCHANGED storeVars
    BY <1>0, <1>3 DEF Identify, LeaveName, Register, At, PipelineTypeOK
  <2>2. job'.step \in {"register", "save"}
    BY <1>3, <2>1 DEF Identify, LeaveName, Register, Go, Job
  <2> QED BY <2>1, <2>2, CountKept
<1>4. CASE Save
  BY <1>4, CountSave
<1>5. CASE Count
  BY <1>5, CountCount
<1>6. CASE Announce
  BY <1>6, CountAnnounce
<1>7. ASSUME NEW t \in Reporters, NEW stamp \in 1..MaxStamp, Report(t, stamp)
      PROVE  CountInv'
  BY <1>7, CountKept DEF Report
<1>8. CASE UNCHANGED pipelineVars
  BY <1>8, CountKept DEF pipelineVars
<1> QED BY <1>1, <1>2, <1>3, <1>4, <1>5, <1>6, <1>7, <1>8 DEF Next

-----------------------------------------------------------------------------
LEMMA InvInit == Init => PipelineInv
<1> SUFFICES ASSUME Init PROVE PipelineInv OBVIOUS
<1>1. PipelineTypeOK
  BY BoundAssumption, CacheAssumption DEF Init, PipelineTypeOK, Phases, IsInjective
<1>2. RoomInv /\ RegistryInv /\ IdentityInv /\ LatestInv
  BY DEF Init, RoomInv, RegistryInv, IdentityInv, LatestInv, Working
<1>3. CountInv
  <2>1. \A type, name : Events(type, name) = {} /\ Broadcast(type, name) = {}
    BY DEF Init, Events, Broadcast
  <2>2. Cardinality({}) = 0
    BY FS_EmptySet
  <2>3. \A type \in Types \ Uncounted, name \in Names : stats[name][Counter(type)] = 0
    BY DEF Init, Counter, Counters, Types, Naming, Uncounted
  <2>4. ~Working({"count", "announce"}) /\ \A step, type, name : ~Busy(step, type, name)
    BY DEF Init, Working, Busy
  <2>5. ASSUME NEW type \in Types \ Uncounted, NEW name \in Names
        PROVE  /\ Cardinality(Broadcast(type, name)) <= stats[name][Counter(type)]
               /\ stats[name][Counter(type)] <= Cardinality(Events(type, name))
    <3>1. /\ Cardinality(Broadcast(type, name)) = 0 /\ Cardinality(Events(type, name)) = 0
          /\ stats[name][Counter(type)] = 0
      BY <2>1, <2>2, <2>3
    <3> QED BY <3>1
  <2> QED BY <2>4, <2>5 DEF CountInv
<1> QED BY <1>1, <1>2, <1>3 DEF PipelineInv

LEMMA InvHolds == PipelineSpec => []PipelineInv
<1>1. PipelineInv /\ [Next]_pipelineVars => PipelineInv'
  BY TypeStep, RoomStep, RegistryStep, IdentityStep, LatestStep, CountStep DEF PipelineInv
<1> QED BY <1>1, InvInit, PTL DEF PipelineSpec

\* The caches, the rows, the statistics and the event at work have their types in every
\* reachable state, and the cache of identities never outgrows its size.
THEOREM PipelineTypeCorrect == PipelineSpec => []PipelineTypeOK
<1>1. PipelineInv => PipelineTypeOK
  BY DEF PipelineInv
<1> QED BY <1>1, InvHolds, PTL

\* Every stored event is of a registered name, and a task of Airflow keeps the identity
\* it has once shown.
THEOREM NamesAlwaysAgree == PipelineSpec => []NamesAgree
<1>1. PipelineInv => NamesAgree
  BY DEF PipelineInv, RegistryInv, IdentityInv, NamesAgree
<1> QED BY <1>1, InvHolds, PTL

\* The statistics of the day count at least the events that were broadcast and at most
\* those that are stored, wherever the handling of an event ends.
THEOREM CountedAlwaysBetween == PipelineSpec => []CountedBetween
<1>1. PipelineInv => CountedBetween
  <2> SUFFICES ASSUME PipelineInv, NEW type \in Types \ Uncounted, NEW name \in Names
               PROVE  /\ Cardinality(Broadcast(type, name)) <= stats[name][Counter(type)]
                      /\ stats[name][Counter(type)] <= Cardinality(Events(type, name))
    BY DEF CountedBetween, Broadcast, Counter
  <2> QED BY Numbers
<1> QED BY <1>1, InvHolds, PTL

\* The progress a task shows is the newest it has reported.
THEOREM ProgressAlwaysNewest == PipelineSpec => []ProgressIsNewest
<1>1. PipelineInv => ProgressIsNewest
  <2> SUFFICES ASSUME PipelineInv, NEW t \in Tasks
               PROVE  latest[t] = IF reports[t] = {} THEN 0 ELSE Max(reports[t])
    BY DEF ProgressIsNewest
  <2>1. CASE reports[t] = {}
    BY <2>1 DEF PipelineInv, LatestInv
  <2>2. CASE reports[t] # {}
    <3>1. latest[t] \in reports[t] /\ \A m \in reports[t] : m <= latest[t]
      BY <2>2 DEF PipelineInv, LatestInv
    <3>2. \A m \in reports[t] : m \in Nat
      BY BoundAssumption DEF PipelineInv, PipelineTypeOK
    <3>3. Max(reports[t]) \in reports[t] /\ \A m \in reports[t] : m <= Max(reports[t])
      <4>1. \E m \in reports[t] : \A k \in reports[t] : k <= m
        BY <3>1
      <4>2. \E m \in reports[t] : \A k \in reports[t] : m >= k
        BY <3>2, <4>1
      <4>3. Max(reports[t]) \in reports[t] /\ \A k \in reports[t] : Max(reports[t]) >= k
        BY <4>2 DEF Max
      <4> QED BY <3>2, <4>3
    <3> QED BY <2>2, <3>1, <3>2, <3>3
  <2> QED BY <2>1, <2>2
<1> QED BY <1>1, InvHolds, PTL
=============================================================================
