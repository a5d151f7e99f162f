--------------------------- MODULE RetryChainProofs ---------------------------
(***************************************************************************)
(* What holds of RetryChain for any tasks, number of handlers and limit:   *)
(* what a task is said to be retried by is recorded, and no retry runs     *)
(* that is not.                                                            *)
(*                                                                         *)
(* Retries of a task only come, so what a handler has read of a task is    *)
(* still true of it when it writes, if no longer all of it; and the row    *)
(* under its new task is its own, for no other handler has drawn that id   *)
(* and nobody retries a task that was never sent.                          *)
(***************************************************************************)
EXTENDS RetryChain, TLAPS, FiniteSetTheorems, SequenceTheorems

Sent(t) == broker[t].by # "nobody"

\* A task with events was sent, with a root, and a retry with the task it repeats.
BrokerInv ==
    \A t \in Tasks :
        /\ rows[t] # <<>> => Sent(t)
        /\ Sent(t) => broker[t].root \in Tasks
        /\ broker[t].by \in {"workflow", "request"} => broker[t].of \in Tasks

\* A handler at work retries a task that was sent by one that was not, ...
AtWork(q) ==
    /\ q.of \in Tasks /\ q.new \in Tasks /\ q.root \in Tasks
    /\ Sent(q.of) /\ ~Sent(q.new)
    /\ q.pc # "recorded" => rels[q.new] = NoRow
    /\ q.pc = "recorded" => rels[q.new].original = q.of

\* ... and what it has read is still so.
StillSo(q) ==
    /\ q.parent # NoRow => rels[q.of] # NoRow
    /\ q.parent.chain \subseteq Retries(q.of)
    /\ q.parent.total <= Cardinality(Retries(q.of))
    /\ \A i \in DOMAIN q.events : q.events[i].retriedBy \subseteq Retries(q.of)

HandlersInv ==
    \A h \in Handlers : handlers[h].pc # "idle" =>
        /\ AtWork(handlers[h]) /\ StillSo(handlers[h])
        /\ \A g \in Handlers \ {h} :
             handlers[g].pc # "idle" => handlers[g].new # handlers[h].new

RetryInv == RetryTypeOK /\ RetriedIsKnown /\ SentIsRecorded /\ BrokerInv /\ HandlersInv

-----------------------------------------------------------------------------
LEMMA RetriesFinite ==
  ASSUME NEW t
  PROVE  /\ IsFiniteSet(Retries(t)) /\ Cardinality(Retries(t)) \in Nat
         /\ IsFiniteSet(Retries(t)') /\ Cardinality(Retries(t)') \in Nat
<1>1. Retries(t) \in SUBSET Tasks /\ Retries(t)' \in SUBSET Tasks
  BY DEF Retries
<1> QED BY <1>1, TaskIdsAssumption, FS_Subset, FS_CardinalityType

\* While the relationships stay, so do the retries.
LEMMA RetriesSame == ASSUME UNCHANGED rels, NEW t PROVE Retries(t)' = Retries(t)
  BY DEF Retries

\* A step that changes no relationship and gives the broker nothing, and after which each
\* handler is idle or has read what it had.
LEMMA HandlersKept ==
  ASSUME RetryInv, UNCHANGED <<rels, broker>>,
         \A h \in Handlers :
            \/ handlers'[h].pc = "idle"
            \/ /\ handlers[h].pc # "idle"
               /\ handlers'[h].of = handlers[h].of /\ handlers'[h].new = handlers[h].new
               /\ handlers'[h].root = handlers[h].root
               /\ handlers'[h].parent = handlers[h].parent
               /\ handlers'[h].events = handlers[h].events
               /\ handlers'[h].pc = "recorded" <=> handlers[h].pc = "recorded"
  PROVE  HandlersInv'
<1> SUFFICES ASSUME NEW h \in Handlers, handlers'[h].pc # "idle"
             PROVE  /\ AtWork(handlers[h])' /\ StillSo(handlers[h])'
                    /\ \A g \in Handlers \ {h} :
                         handlers'[g].pc # "idle" => handlers'[g].new # handlers'[h].new
  BY DEF HandlersInv
<1>1. /\ AtWork(handlers[h]) /\ StillSo(handlers[h]) /\ handlers[h].pc # "idle"
      /\ \A g \in Handlers \ {h} :
           handlers[g].pc # "idle" => handlers[g].new # handlers[h].new
  BY DEF RetryInv, HandlersInv
<1>2. AtWork(handlers[h])'
  BY <1>1 DEF AtWork, Sent
<1>3. StillSo(handlers[h])'
  <2>1. Retries(handlers[h].of)' = Retries(handlers[h].of)
    BY DEF Retries
  <2> QED BY <1>1, <2>1 DEF StillSo
<1> QED BY <1>1, <1>2, <1>3

\* A step that changes no relationship and gives the broker nothing keeps what is said of
\* them, if the rows it leaves keep it.
LEMMA RowsKept ==
  ASSUME RetryInv, UNCHANGED <<rels, broker>>,
         \A t \in Tasks :
            /\ rows'[t] # <<>> => Sent(t)
            /\ \A i \in DOMAIN rows'[t] : /\ rows'[t][i].retriedBy \subseteq Retries(t)
                                          /\ rows'[t][i].hasRetries => Retries(t) # {}
  PROVE  RetriedIsKnown' /\ SentIsRecorded' /\ BrokerInv'
<1>1. \A t \in Tasks : Retries(t)' = Retries(t)
  BY DEF Retries
<1>2. RetriedIsKnown'
  BY <1>1 DEF RetryInv, RetriedIsKnown
<1>3. SentIsRecorded'
  BY DEF RetryInv, SentIsRecorded
<1>4. BrokerInv'
  BY DEF RetryInv, BrokerInv, Sent
<1> QED BY <1>2, <1>3, <1>4

\* The rows there are.
LEMMA RowsFit ==
  ASSUME RetryInv, NEW t \in Tasks
  PROVE  /\ rows[t] # <<>> => Sent(t)
         /\ \A i \in DOMAIN rows[t] : /\ rows[t][i].retriedBy \subseteq Retries(t)
                                      /\ rows[t][i].hasRetries => Retries(t) # {}
  BY DEF RetryInv, BrokerInv, RetriedIsKnown

LEMMA RowsSame ==
  ASSUME RetryInv, UNCHANGED <<rels, broker, rows>>
  PROVE  RetriedIsKnown' /\ SentIsRecorded' /\ BrokerInv'
  BY RowsKept, RowsFit

-----------------------------------------------------------------------------
(* The event thread and retention.                                         *)

LEMMA SaveEventStep ==
  ASSUME RetryInv, NEW t \in Tasks, NEW carriesRoot \in BOOLEAN, SaveEvent(t, carriesRoot)
  PROVE  RetryInv'
<1>0. RetryTypeOK
  BY DEF RetryInv
<1> DEFINE row == [root |-> IF carriesRoot THEN broker[t].root ELSE t,
                   retriedBy |-> Listed(t), hasRetries |-> Listed(t) # {}]
<1>1. /\ Sent(t) /\ UNCHANGED <<rels, broker, handlers>>
      /\ rows' = [rows EXCEPT ![t] = Append(@, row)]
  BY DEF SaveEvent, Sent
<1>2. Listed(t) \subseteq Retries(t)
  BY DEF Listed, RetryInv, RetriedIsKnown
<1>3. row \in EventRow
  <2>1. Retries(t) \subseteq Tasks
    BY DEF Retries
  <2>2. broker[t].root \in Tasks
    BY <1>1 DEF RetryInv, BrokerInv
  <2> QED BY <1>2, <2>1, <2>2 DEF EventRow
<1>4. row.retriedBy \subseteq Retries(t) /\ (row.hasRetries => Retries(t) # {})
  BY <1>2
<1> HIDE DEF row
<1>5. rows \in [Tasks -> Seq(EventRow)]
  BY <1>0 DEF RetryTypeOK
<1>6. rows' \in [Tasks -> Seq(EventRow)]
  BY <1>1, <1>3, <1>5
<1>7. ASSUME NEW u \in Tasks
      PROVE  /\ rows'[u] # <<>> => Sent(u)
             /\ \A i \in DOMAIN rows'[u] : /\ rows'[u][i].retriedBy \subseteq Retries(u)
                                           /\ rows'[u][i].hasRetries => Retries(u) # {}
  <2>1. CASE u # t
    BY <1>1, <1>5, <2>1, RowsFit
  <2>2. CASE u = t
    <3>1. /\ DOMAIN rows'[t] = 1..(Len(rows[t]) + 1) /\ rows'[t][Len(rows[t]) + 1] = row
          /\ DOMAIN rows[t] = 1..Len(rows[t]) /\ Len(rows[t]) \in Nat
          /\ \A i \in 1..Len(rows[t]) : rows'[t][i] = rows[t][i]
      BY <1>1, <1>3, <1>5
    <3>2. ASSUME NEW i \in DOMAIN rows'[t]
          PROVE  /\ rows'[t][i].retriedBy \subseteq Retries(t)
                 /\ rows'[t][i].hasRetries => Retries(t) # {}
      <4>1. CASE i = Len(rows[t]) + 1
        BY <1>4, <3>1, <4>1
      <4>2. CASE i \in 1..Len(rows[t])
        <5>1. rows'[t][i] = rows[t][i] /\ i \in DOMAIN rows[t]
          BY <3>1, <4>2
        <5> QED BY <5>1, RowsFit
      <4> QED BY <3>1, <4>1, <4>2
    <3> QED BY <1>1, <2>2, <3>2
  <2> QED BY <2>1, <2>2
<1>8. RetriedIsKnown' /\ SentIsRecorded' /\ BrokerInv'
  BY <1>1, <1>7, RowsKept
<1>9. HandlersInv'
  BY <1>1, HandlersKept
<1> QED BY <1>0, <1>1, <1>6, <1>8, <1>9 DEF RetryInv, RetryTypeOK

LEMMA ForgetStep == ASSUME RetryInv, NEW t \in Tasks, Forget(t) PROVE RetryInv'
<1>0. RetryTypeOK
  BY DEF RetryInv
<1>1. UNCHANGED <<rels, broker>> /\ rows' = [rows EXCEPT ![t] = <<>>]
  BY DEF Forget
<1>2. ASSUME NEW h \in Handlers
      PROVE  /\ handlers'[h] \in Handler
             /\ \/ UNCHANGED handlers[h]
                \/ /\ handlers'[h].pc = handlers[h].pc
                   /\ handlers'[h].of = handlers[h].of /\ handlers'[h].new = handlers[h].new
                   /\ handlers'[h].root = handlers[h].root
                   /\ handlers'[h].parent = handlers[h].parent
                   /\ handlers'[h].events = handlers[h].events
  <2>1. handlers[h] \in Handler
    BY <1>0 DEF RetryTypeOK
  <2>2. handlers'[h] = handlers[h] \/ handlers'[h] = [handlers[h] EXCEPT !.gone = TRUE]
    BY DEF Forget
  <2>3. CASE handlers'[h] = handlers[h]
    BY <2>1, <2>3
  <2>4. CASE handlers'[h] = [handlers[h] EXCEPT !.gone = TRUE]
    BY <2>1, <2>4 DEF Handler
  <2> QED BY <2>2, <2>3, <2>4
<1>3. handlers' \in [Handlers -> Handler]
  BY <1>2 DEF Forget
<1>4. HandlersInv'
  BY <1>1, <1>2, HandlersKept
<1>5. \A u \in Tasks : rows'[u] = rows[u] \/ rows'[u] = <<>>
  BY <1>0, <1>1 DEF RetryTypeOK
<1>6. RetriedIsKnown' /\ SentIsRecorded' /\ BrokerInv'
  <2>1. ASSUME NEW u \in Tasks
        PROVE  /\ rows'[u] # <<>> => Sent(u)
               /\ \A i \in DOMAIN rows'[u] : /\ rows'[u][i].retriedBy \subseteq Retries(u)
                                             /\ rows'[u][i].hasRetries => Retries(u) # {}
    BY <1>5, RowsFit
  <2> QED BY <1>1, <2>1, RowsKept
<1>7. rows' \in [Tasks -> Seq(EventRow)]
  BY <1>0, <1>1 DEF RetryTypeOK
<1> QED BY <1>0, <1>1, <1>3, <1>4, <1>6, <1>7 DEF RetryInv, RetryTypeOK

-----------------------------------------------------------------------------
(* A handler.                                                              *)

\* A step of one handler that changes nothing else.
LEMMA HandlerStep ==
  ASSUME RetryInv, UNCHANGED <<rels, rows, broker>>, NEW h \in Handlers, NEW q \in Handler,
         handlers' = [handlers EXCEPT ![h] = q],
         q.pc # "idle" =>
            /\ AtWork(q) /\ StillSo(q)
            /\ \A g \in Handlers \ {h} : handlers[g].pc # "idle" => handlers[g].new # q.new
  PROVE  RetryInv'
<1>0. RetryTypeOK
  BY DEF RetryInv
<1>1. \A g \in Handlers : handlers'[g] = IF g = h THEN q ELSE handlers[g]
  BY <1>0 DEF RetryTypeOK
<1>2. handlers' \in [Handlers -> Handler]
  BY <1>0 DEF RetryTypeOK
<1>3. \A t : Retries(t)' = Retries(t)
  BY DEF Retries
<1>4. ASSUME NEW g \in Handlers, handlers'[g].pc # "idle"
      PROVE  /\ AtWork(handlers[g])' /\ StillSo(handlers[g])'
             /\ \A f \in Handlers \ {g} :
                  handlers'[f].pc # "idle" => handlers'[f].new # handlers'[g].new
  <2>1. AtWork(handlers'[g]) /\ StillSo(handlers'[g])
    BY <1>1, <1>4 DEF RetryInv, HandlersInv
  <2>2. AtWork(handlers[g])'
    BY <2>1 DEF AtWork, Sent
  <2>3. StillSo(handlers[g])'
    BY <1>3, <2>1 DEF StillSo
  <2>4. \A f \in Handlers \ {g} :
          handlers'[f].pc # "idle" => handlers'[f].new # handlers'[g].new
    BY <1>1, <1>4 DEF RetryInv, HandlersInv
  <2> QED BY <2>2, <2>3, <2>4
<1>5. HandlersInv'
  BY <1>4 DEF HandlersInv
<1> QED BY <1>0, <1>2, <1>5, RowsSame DEF RetryInv, RetryTypeOK

LEMMA DecideStep ==
  ASSUME RetryInv, NEW h \in Handlers, NEW t \in Tasks, NEW by \in {"workflow", "request"},
         NEW counts \in BOOLEAN, Decide(h, t, by, counts)
  PROVE  RetryInv'
<1>0. RetryTypeOK
  BY DEF RetryInv
<1>1. /\ rows[t] # <<>> /\ UNCHANGED <<rels, rows, broker>>
  BY DEF Decide
<1>2. PICK new \in Fresh :
        handlers' = [handlers EXCEPT ![h] =
                        [Idle EXCEPT !.pc = "decided", !.by = by, !.of = t, !.new = new,
                           !.root = IF by = "workflow" THEN rows[t][Len(rows[t])].root ELSE new]]
  BY DEF Decide
<1> DEFINE root == IF by = "workflow" THEN rows[t][Len(rows[t])].root ELSE new
           q == [Idle EXCEPT !.pc = "decided", !.by = by, !.of = t, !.new = new, !.root = root]
<1>3. handlers' = [handlers EXCEPT ![h] = q]
  BY <1>2
<1>4. /\ new \in Tasks /\ ~Sent(new) /\ rels[new] = NoRow
      /\ \A g \in Handlers : handlers[g].new # new
  BY <1>2 DEF Fresh, Drawn, Sent
<1>5. root \in Tasks
  <2>1. rows[t] \in Seq(EventRow) /\ rows[t] # <<>>
    BY <1>0, <1>1 DEF RetryTypeOK
  <2>2. rows[t][Len(rows[t])] \in EventRow
    BY <2>1
  <2> QED BY <1>4, <2>2 DEF EventRow
<1> HIDE DEF root
<1>6. /\ q \in Handler /\ q.pc = "decided" /\ q.of = t /\ q.new = new /\ q.root = root
      /\ q.parent = NoRow /\ q.events = <<>>
  <2>1. Idle \in Handler /\ Idle.parent = NoRow /\ Idle.events = <<>>
    BY EmptySeq DEF Idle, Handler
  <2> QED BY <1>4, <1>5, <2>1 DEF Handler
<1> HIDE DEF q
<1>7. AtWork(q)
  BY <1>1, <1>4, <1>5, <1>6 DEF AtWork, RetryInv, BrokerInv
<1>8. StillSo(q)
  BY <1>6, RetriesFinite DEF StillSo, NoRow
<1> QED BY <1>1, <1>3, <1>4, <1>6, <1>7, <1>8, HandlerStep

LEMMA ReadParentStep == ASSUME RetryInv, NEW h \in Handlers, ReadParent(h) PROVE RetryInv'
<1>0. RetryTypeOK
  BY DEF RetryInv
<1> DEFINE o == handlers[h]
           q == [o EXCEPT !.pc = "parent", !.parent = rels[o.of]]
<1>1. /\ o.pc = "decided" /\ o \in Handler /\ UNCHANGED <<rels, rows, broker>>
      /\ handlers' = [handlers EXCEPT ![h] = q]
  BY <1>0 DEF ReadParent, RetryTypeOK
<1>2. /\ AtWork(o) /\ StillSo(o)
      /\ \A g \in Handlers \ {h} : handlers[g].pc # "idle" => handlers[g].new # o.new
  BY <1>1 DEF RetryInv, HandlersInv
<1> HIDE DEF o
<1>3. rels[o.of] \in Relation \cup {NoRow}
  BY <1>0, <1>2 DEF RetryTypeOK, AtWork
<1>4. /\ q \in Handler /\ q.pc = "parent" /\ q.of = o.of /\ q.new = o.new /\ q.root = o.root
      /\ q.parent = rels[o.of] /\ q.events = o.events
  BY <1>1, <1>3 DEF Handler
<1> HIDE DEF q
<1>5. AtWork(q)
  BY <1>1, <1>2, <1>4 DEF AtWork
<1>6. StillSo(q)
  BY <1>2, <1>4 DEF StillSo, AtWork, RetryInv, RetriedIsKnown
<1> QED BY <1>1, <1>2, <1>4, <1>5, <1>6, HandlerStep

LEMMA ReadEventsStep == ASSUME RetryInv, NEW h \in Handlers, ReadEvents(h) PROVE RetryInv'
<1>0. RetryTypeOK
  BY DEF RetryInv
<1> DEFINE o == handlers[h]
           q == [o EXCEPT !.pc = "events", !.events = rows[o.of]]
<1>1. /\ o.pc = "parent" /\ o \in Handler /\ UNCHANGED <<rels, rows, broker>>
      /\ handlers' = [handlers EXCEPT ![h] = q]
  BY <1>0 DEF ReadEvents, RetryTypeOK
<1>2. /\ AtWork(o) /\ StillSo(o)
      /\ \A g \in Handlers \ {h} : handlers[g].pc # "idle" => handlers[g].new # o.new
  BY <1>1 DEF RetryInv, HandlersInv
<1> HIDE DEF o
<1>3. rows[o.of] \in Seq(EventRow)
  BY <1>0, <1>2 DEF RetryTypeOK, AtWork
<1>4. /\ q \in Handler /\ q.pc = "events" /\ q.of = o.of /\ q.new = o.new /\ q.root = o.root
      /\ q.parent = o.parent /\ q.events = rows[o.of]
  BY <1>1, <1>3 DEF Handler
<1> HIDE DEF q
<1>5. AtWork(q)
  BY <1>1, <1>2, <1>4 DEF AtWork
<1>6. StillSo(q)
  BY <1>2, <1>4, RowsFit DEF StillSo, AtWork
<1> QED BY <1>1, <1>2, <1>4, <1>5, <1>6, HandlerStep

LEMMA FailStep == ASSUME RetryInv, NEW h \in Handlers, Fail(h) PROVE RetryInv'
<1>1. Idle \in Handler /\ Idle.pc = "idle"
  BY EmptySeq DEF Idle, Handler
<1> QED BY <1>1, HandlerStep DEF Fail

LEMMA SendStep ==
  ASSUME RetryInv, NEW h \in Handlers, NEW reached \in BOOLEAN, Send(h, reached)
  PROVE  RetryInv'
<1>0. RetryTypeOK
  BY DEF RetryInv
<1> DEFINE q == handlers[h]
<1>1. /\ q.pc = "recorded" /\ UNCHANGED <<rels, rows>>
      /\ handlers' = [handlers EXCEPT ![h] = Idle]
      /\ q \in Handler
  BY <1>0 DEF Send, RetryTypeOK
<1>2. Idle \in Handler /\ Idle.pc = "idle"
  BY EmptySeq DEF Idle, Handler
<1>3. CASE ~reached
  <2>1. UNCHANGED broker
    BY <1>3 DEF Send
  <2> QED BY <1>1, <1>2, <2>1, HandlerStep
<1>4. CASE reached
  <2>1. broker' = [broker EXCEPT ![q.new] = [by |-> q.by, of |-> q.of, root |-> q.root]]
    BY <1>4 DEF Send
  <2>2. /\ AtWork(q) /\ rels[q.new].original = q.of
        /\ \A g \in Handlers \ {h} : handlers[g].pc # "idle" => handlers[g].new # q.new
    BY <1>1 DEF RetryInv, HandlersInv, AtWork
  <2>3. \A g \in Handlers : handlers'[g] = IF g = h THEN Idle ELSE handlers[g]
    BY <1>0, <1>1 DEF RetryTypeOK
  <2> HIDE DEF q
  <2>4. q.by \in {"workflow", "request"} /\ q.of \in Tasks /\ q.new \in Tasks /\ q.root \in Tasks
    BY <1>1, <2>2 DEF Handler, AtWork
  <2> DEFINE message == [by |-> q.by, of |-> q.of, root |-> q.root]
  <2>5. /\ message \in Message /\ message.by = q.by /\ message.of = q.of /\ message.root = q.root
    BY <2>4 DEF Message, Senders
  <2> HIDE DEF message
  <2>6. \A t \in Tasks : broker'[t] = IF t = q.new THEN message ELSE broker[t]
    BY <1>0, <2>1 DEF RetryTypeOK, message
  <2>7. RetryTypeOK'
    <3>1. broker' \in [Tasks -> Message] /\ handlers' \in [Handlers -> Handler]
      BY <1>0, <1>1, <1>2, <2>1, <2>5 DEF RetryTypeOK, message
    <3> QED BY <1>0, <1>1, <3>1 DEF RetryTypeOK
  <2>8. \A t : Retries(t)' = Retries(t)
    BY <1>1 DEF Retries
  <2>9. RetriedIsKnown'
    BY <1>1, <2>8 DEF RetryInv, RetriedIsKnown
  <2>10. SentIsRecorded'
    BY <1>1, <2>2, <2>5, <2>6 DEF RetryInv, SentIsRecorded
  <2>11. BrokerInv'
    BY <1>1, <2>4, <2>5, <2>6 DEF RetryInv, BrokerInv, Sent
  <2>12. HandlersInv'
    <3> SUFFICES ASSUME NEW g \in Handlers, handlers'[g].pc # "idle"
                 PROVE  /\ AtWork(handlers[g])' /\ StillSo(handlers[g])'
                        /\ \A f \in Handlers \ {g} :
                             handlers'[f].pc # "idle" => handlers'[f].new # handlers'[g].new
      BY DEF HandlersInv
    <3>1. g # h /\ handlers'[g] = handlers[g]
      BY <1>2, <2>3
    <3>2. /\ AtWork(handlers[g]) /\ StillSo(handlers[g]) /\ handlers[g].new # q.new
          /\ \A f \in Handlers \ {g} :
               handlers[f].pc # "idle" => handlers[f].new # handlers[g].new
      BY <2>2, <3>1 DEF RetryInv, HandlersInv
    <3>3. AtWork(handlers[g])'
      BY <1>1, <2>4, <2>5, <2>6, <3>1, <3>2 DEF AtWork, Sent
    <3>4. StillSo(handlers[g])'
      BY <1>1, <2>8, <3>1, <3>2 DEF StillSo
    <3> QED BY <1>2, <2>3, <3>1, <3>2, <3>3, <3>4
  <2> QED BY <2>7, <2>9, <2>10, <2>11, <2>12 DEF RetryInv
<1> QED BY <1>3, <1>4

\* The commit of a retry: its row is new, and so is what the row of its task counts.
LEMMA RecordStep ==
  ASSUME RetryInv, NEW h \in Handlers, NEW q, q = handlers[h], Record(h)
  PROVE  RetryInv'
<1>0. RetryTypeOK
  BY DEF RetryInv
<1> DEFINE child == [original |-> q.of, chain |-> {}, total |-> 0]
           parent == CountedParent(q.parent, rels[q.of], q.of, q.new)
<1>1. /\ q.pc = "events" /\ Commits(q) /\ q \in Handler /\ UNCHANGED broker
      /\ rels' = [rels EXCEPT ![q.new] = child, ![q.of] = parent]
      /\ rows' = [rows EXCEPT ![q.of] = Marked(rows[q.of], q.events, q.new)]
      /\ handlers' = [handlers EXCEPT ![h] = Recorded(q)]
  BY <1>0 DEF Record, RetryTypeOK
<1>2. /\ AtWork(q) /\ StillSo(q)
      /\ \A g \in Handlers \ {h} : handlers[g].pc # "idle" => handlers[g].new # q.new
  BY <1>1 DEF RetryInv, HandlersInv
<1>3. \A g \in Handlers : handlers'[g] = IF g = h THEN Recorded(q) ELSE handlers[g]
  BY <1>0, <1>1 DEF RetryTypeOK
<1>4. /\ q.of \in Tasks /\ q.new \in Tasks /\ Sent(q.of) /\ ~Sent(q.new) /\ q.of # q.new
      /\ rels[q.new] = NoRow
  BY <1>1, <1>2 DEF AtWork
<1>5. /\ rels[q.of] \in Relation \cup {NoRow}
      /\ q.parent # NoRow => rels[q.of] \in Relation /\ q.parent \in Relation
      /\ q.parent = NoRow => rels[q.of] = NoRow
  BY <1>0, <1>1, <1>2, <1>4 DEF RetryTypeOK, StillSo, Commits, Handler
<1>6. child \in Relation /\ child.original = q.of /\ child.chain = {} /\ child.total = 0
  BY <1>4 DEF Relation
<1>7. /\ parent \in Relation
      /\ parent.original = IF q.parent = NoRow THEN q.of ELSE rels[q.of].original
      /\ parent.chain = IF q.parent = NoRow \/ q.parent.chain = {} THEN {q.new} ELSE rels[q.of].chain
      /\ parent.total = IF q.parent = NoRow THEN 1 ELSE q.parent.total + 1
  <2>1. CASE q.parent = NoRow
    BY <1>4, <2>1 DEF CountedParent, Relation
  <2>2. CASE q.parent # NoRow
    <3> DEFINE chain == IF q.parent.chain # {} THEN rels[q.of].chain ELSE {q.new}
               total == q.parent.total + 1
    <3>1. rels[q.of] \in Relation /\ q.parent \in Relation
      BY <1>5, <2>2
    <3>2. parent = [rels[q.of] EXCEPT !.chain = chain, !.total = total]
      BY <2>2 DEF CountedParent
    <3>3. chain \subseteq Tasks /\ total \in Nat
      BY <1>4, <3>1 DEF Relation
    <3> HIDE DEF chain, total, parent
    <3>4. rels[q.of] = [original |-> rels[q.of].original, chain |-> rels[q.of].chain,
                        total |-> rels[q.of].total] /\ rels[q.of].original \in Tasks
      BY <3>1 DEF Relation
    <3>5. parent = [original |-> rels[q.of].original, chain |-> chain, total |-> total]
      BY <3>2, <3>4
    <3>6. parent \in Relation /\ parent.original = rels[q.of].original /\ parent.chain = chain
          /\ parent.total = total
      BY <3>3, <3>4, <3>5 DEF Relation
    <3> QED BY <2>2, <3>6 DEF chain, total
  <2> QED BY <2>1, <2>2
<1> HIDE DEF child, parent
<1>8. \A t \in Tasks : rels'[t] = IF t = q.of THEN parent ELSE IF t = q.new THEN child ELSE rels[t]
  BY <1>0, <1>1, <1>4 DEF RetryTypeOK
<1>9. /\ rels' \in [Tasks -> Relation \cup {NoRow}]
      /\ \A t \in Tasks : rels[t] # NoRow => rels'[t] # NoRow /\ rels'[t].original = rels[t].original
  <2>1. \A t \in Tasks : rels[t] \in Relation \cup {NoRow} /\ rels'[t] \in Relation \cup {NoRow}
    BY <1>0, <1>6, <1>7, <1>8 DEF RetryTypeOK
  <2>2. NoRow \notin Relation
    BY NoneAssumption DEF NoRow, Relation
  <2>3. rels' \in [Tasks -> Relation \cup {NoRow}]
    <3>1. rels' = [rels EXCEPT ![q.new] = child, ![q.of] = parent]
      BY <1>1
    <3> DEFINE f == [rels EXCEPT ![q.new] = child]
    <3>2. f \in [Tasks -> Relation \cup {NoRow}]
      BY <1>0, <1>4, <1>6 DEF RetryTypeOK
    <3>3. rels' = [f EXCEPT ![q.of] = parent]
      BY <3>1
    <3> HIDE DEF f
    <3> QED BY <1>4, <1>7, <3>2, <3>3
  <2> QED BY <1>4, <1>5, <1>6, <1>7, <1>8, <2>1, <2>2, <2>3
<1>10. Retries(q.of)' = Retries(q.of) \cup {q.new} /\ q.new \notin Retries(q.of)
       /\ \A t \in Tasks \ {q.of} : Retries(t)' = Retries(t)
  <2>1. \A c \in Tasks, t \in Tasks :
          c # t => (rels'[c].original = t <=> rels[c].original = t \/ (c = q.new /\ t = q.of))
    BY <1>4, <1>5, <1>6, <1>7, <1>8, NoneAssumption DEF NoRow
  <2>2. q.new \notin Retries(q.of)
    BY <1>4, NoneAssumption DEF Retries, NoRow
  <2>3. Retries(q.of)' = Retries(q.of) \cup {q.new}
    BY <1>4, <2>1 DEF Retries
  <2>4. \A t \in Tasks \ {q.of} : Retries(t)' = Retries(t)
    BY <2>1 DEF Retries
  <2> QED BY <2>2, <2>3, <2>4
<1>11. /\ Cardinality(Retries(q.of)') = Cardinality(Retries(q.of)) + 1
       /\ Cardinality(Retries(q.of)) \in Nat
  BY <1>10, RetriesFinite, FS_AddElement
<1>12. \A t \in Tasks : /\ Retries(t) \subseteq Retries(t)'
                        /\ Cardinality(Retries(t)) <= Cardinality(Retries(t)')
                        /\ Cardinality(Retries(t)) \in Nat
  BY <1>10, <1>11, RetriesFinite
<1>13. /\ Marked(rows[q.of], q.events, q.new) \in Seq(EventRow)
       /\ rows[q.of] # <<>> <=> Marked(rows[q.of], q.events, q.new) # <<>>
       /\ \A i \in DOMAIN Marked(rows[q.of], q.events, q.new) :
            Marked(rows[q.of], q.events, q.new)[i].retriedBy \subseteq Retries(q.of)'
  <2> DEFINE current == rows[q.of]  read == q.events  marked == Marked(current, read, q.new)
  <2>1. current \in Seq(EventRow) /\ read \in Seq(EventRow)
    BY <1>0, <1>1, <1>4 DEF RetryTypeOK, Handler
  <2>2. /\ \A i \in DOMAIN read : read[i].retriedBy \subseteq Retries(q.of)
        /\ \A i \in DOMAIN current : current[i].retriedBy \subseteq Retries(q.of)
    BY <1>2, <1>4, RowsFit DEF StillSo
  <2> HIDE DEF current, read
  <2>3. marked = [i \in 1..Len(current) |->
                    IF i \in DOMAIN read
                      THEN [current[i] EXCEPT !.retriedBy = read[i].retriedBy \cup {q.new},
                                              !.hasRetries = TRUE]
                      ELSE current[i]]
    BY <2>1 DEF Marked
  <2> HIDE DEF marked
  <2>4. ASSUME NEW i \in 1..Len(current)
        PROVE  marked[i] \in EventRow /\ marked[i].retriedBy \subseteq Retries(q.of) \cup {q.new}
    <3>1. current[i] \in EventRow /\ current[i].retriedBy \subseteq Retries(q.of)
      BY <2>1, <2>2
    <3>2. CASE i \notin DOMAIN read
      BY <2>3, <3>1, <3>2
    <3>3. CASE i \in DOMAIN read
      <4> DEFINE by == read[i].retriedBy \cup {q.new}
      <4>1. read[i] \in EventRow /\ by \subseteq Retries(q.of) \cup {q.new}
        BY <2>1, <2>2, <3>3
      <4>2. by \subseteq Tasks
        BY <1>4, <4>1 DEF EventRow
      <4>3. marked[i] = [current[i] EXCEPT !.retriedBy = by, !.hasRetries = TRUE]
        BY <2>3, <3>3
      <4> HIDE DEF by
      <4>4. current[i] = [root |-> current[i].root, retriedBy |-> current[i].retriedBy,
                          hasRetries |-> current[i].hasRetries] /\ current[i].root \in Tasks
        BY <3>1 DEF EventRow
      <4>5. marked[i] = [root |-> current[i].root, retriedBy |-> by, hasRetries |-> TRUE]
        BY <4>3, <4>4
      <4> QED BY <4>1, <4>2, <4>4, <4>5 DEF EventRow
    <3> QED BY <3>2, <3>3
  <2>5. marked \in Seq(EventRow) /\ DOMAIN marked = 1..Len(current)
    <3>1. marked \in [1..Len(current) -> EventRow] /\ Len(current) \in Nat
      <4>1. marked = [i \in 1..Len(current) |-> marked[i]]
        BY <2>3
      <4>2. \A i \in 1..Len(current) : marked[i] \in EventRow
        BY <2>4
      <4> QED BY <2>1, <4>1, <4>2
    <3> QED BY <3>1, SeqDef
  <2>6. current # <<>> <=> marked # <<>>
    <3>1. DOMAIN current = 1..Len(current) /\ Len(current) \in Nat
      BY <2>1
    <3> QED BY <2>1, <2>5, <3>1
  <2> QED BY <1>10, <2>4, <2>5, <2>6 DEF current, read, marked
<1>14. RetryTypeOK'
  <2>1. Recorded(q) \in Handler
    BY <1>1, EmptySeq DEF Recorded, Handler
  <2>2. handlers' \in [Handlers -> Handler] /\ rows' \in [Tasks -> Seq(EventRow)]
    BY <1>0, <1>1, <1>13, <2>1 DEF RetryTypeOK
  <2> QED BY <1>0, <1>1, <1>9, <2>2 DEF RetryTypeOK
<1>15. \A t \in Tasks : rows'[t] = IF t = q.of THEN Marked(rows[q.of], q.events, q.new) ELSE rows[t]
  BY <1>0, <1>1 DEF RetryTypeOK
<1>16. RetriedIsKnown'
  <2> SUFFICES ASSUME NEW t \in Tasks
               PROVE  /\ rels'[t].chain \subseteq Retries(t)'
                      /\ rels'[t].total <= Cardinality(Retries(t)')
                      /\ Retries(t)' # {} <=> rels'[t].chain # {}
                      /\ Retries(t)' # {} <=> rels'[t].total # 0
                      /\ \A i \in DOMAIN rows'[t] :
                           /\ rows'[t][i].retriedBy \subseteq Retries(t)'
                           /\ rows'[t][i].hasRetries => Retries(t)' # {}
    BY DEF RetriedIsKnown
  <2>1. /\ rels[t].chain \subseteq Retries(t) /\ rels[t].total <= Cardinality(Retries(t))
        /\ Retries(t) # {} <=> rels[t].chain # {}
        /\ Retries(t) # {} <=> rels[t].total # 0
    BY DEF RetryInv, RetriedIsKnown
  <2>2. CASE t = q.of
    <3>1. rels'[t] = parent /\ Retries(t)' = Retries(t) \cup {q.new}
      BY <1>8, <1>10, <2>2
    <3>2. parent.chain \subseteq Retries(t) \cup {q.new} /\ parent.chain # {}
      BY <1>2, <1>7, <2>1, <2>2 DEF StillSo
    <3>3. parent.total <= Cardinality(Retries(t)') /\ parent.total # 0
      <4>1. q.parent # NoRow => q.parent.total \in Nat /\ q.parent.total <= Cardinality(Retries(q.of))
        BY <1>2, <1>5 DEF StillSo, Relation
      <4> QED BY <1>7, <1>11, <2>2, <4>1
    <3>4. \A i \in DOMAIN rows'[t] : rows'[t][i].retriedBy \subseteq Retries(t)'
      BY <1>13, <1>15, <2>2
    <3> QED BY <3>1, <3>2, <3>3, <3>4
  <2>3. CASE t = q.new
    <3>1. rels'[t] = child /\ Retries(t)' = Retries(t) /\ rows'[t] = rows[t]
      BY <1>4, <1>8, <1>10, <1>15, <2>3
    <3>2. Retries(t) = {}
      BY <1>4, <2>1, <2>3 DEF NoRow
    <3>3. Cardinality(Retries(t)) = 0
      BY <3>2, FS_EmptySet
    <3> QED BY <1>6, <3>1, <3>2, <3>3, RowsFit
  <2>4. CASE t \notin {q.of, q.new}
    <3>1. rels'[t] = rels[t] /\ Retries(t)' = Retries(t) /\ rows'[t] = rows[t]
      BY <1>8, <1>10, <1>15, <2>4
    <3> QED BY <2>1, <3>1, RowsFit
  <2> QED BY <2>2, <2>3, <2>4
<1>17. SentIsRecorded'
  <2> SUFFICES ASSUME NEW t \in Tasks, broker[t].by \in {"workflow", "request"}
               PROVE  rels'[t].original = broker[t].of
    BY <1>1 DEF SentIsRecorded
  <2>1. rels[t].original = broker[t].of /\ broker[t].of \in Tasks
    BY DEF RetryInv, SentIsRecorded, BrokerInv
  <2> QED BY <1>9, <2>1, NoneAssumption DEF NoRow
<1>18. BrokerInv'
  BY <1>1, <1>4, <1>15 DEF RetryInv, BrokerInv, Sent
<1>19. HandlersInv'
  <2> SUFFICES ASSUME NEW g \in Handlers, handlers'[g].pc # "idle"
               PROVE  /\ AtWork(handlers[g])' /\ StillSo(handlers[g])'
                      /\ \A f \in Handlers \ {g} :
                           handlers'[f].pc # "idle" => handlers'[f].new # handlers'[g].new
    BY DEF HandlersInv
  <2>1. /\ Recorded(q).pc = "recorded" /\ Recorded(q).of = q.of /\ Recorded(q).new = q.new
        /\ Recorded(q).root = q.root /\ Recorded(q).parent = NoRow /\ Recorded(q).events = <<>>
    BY <1>1 DEF Recorded, Handler
  <2>2. CASE g = h
    <3>1. handlers'[g] = Recorded(q)
      BY <1>3, <2>2
    <3>2. AtWork(handlers[g])'
      BY <1>1, <1>2, <1>4, <1>9, <1>6, <1>8, <2>1, <3>1 DEF AtWork, Sent
    <3>3. StillSo(handlers[g])'
      BY <2>1, <3>1, RetriesFinite DEF StillSo, NoRow
    <3>4. \A f \in Handlers \ {g} : handlers'[f].pc # "idle" => handlers'[f].new # handlers'[g].new
      BY <1>2, <1>3, <2>1, <2>2
    <3> QED BY <3>2, <3>3, <3>4
  <2>3. CASE g # h
    <3>0. PICK o : o = handlers[g]
      OBVIOUS
    <3>1. /\ handlers'[g] = o /\ o.pc # "idle" /\ AtWork(o) /\ StillSo(o) /\ o.new # q.new
          /\ \A f \in Handlers \ {g} : handlers[f].pc # "idle" => handlers[f].new # o.new
      BY <1>2, <1>3, <2>3, <3>0 DEF RetryInv, HandlersInv
    <3>2. o.of \in Tasks /\ o.new \in Tasks /\ o.new # q.of /\ Sent(o.of) /\ ~Sent(o.new)
      BY <1>4, <3>1 DEF AtWork
    <3>3. rels'[o.new] = rels[o.new]
      BY <1>8, <3>1, <3>2
    <3>4. AtWork(handlers[g])'
      BY <1>1, <3>1, <3>2, <3>3 DEF AtWork, Sent
    <3>5. StillSo(handlers[g])'
      <4>1. /\ o.parent # NoRow => rels'[o.of] # NoRow
            /\ o.parent.chain \subseteq Retries(o.of)'
            /\ \A i \in DOMAIN o.events : o.events[i].retriedBy \subseteq Retries(o.of)'
        BY <1>9, <1>12, <3>1, <3>2 DEF StillSo
      <4>2. o.parent.total \in Nat
        <5>1. o \in Handler
          BY <1>0, <3>0 DEF RetryTypeOK
        <5>2. o.parent \in Relation \cup {NoRow}
          BY <5>1 DEF Handler
        <5> QED BY <5>2 DEF Relation, NoRow
      <4>3. o.parent.total <= Cardinality(Retries(o.of)')
        BY <1>12, <3>1, <3>2, <4>2, RetriesFinite DEF StillSo
      <4> QED BY <3>1, <4>1, <4>3 DEF StillSo
    <3>6. \A f \in Handlers \ {g} : handlers'[f].pc # "idle" => handlers'[f].new # handlers'[g].new
      <4>1. handlers[h].pc # "idle" /\ Recorded(q).new = handlers[h].new
        BY <1>1, <2>1
      <4> QED BY <1>3, <3>1, <4>1
    <3> QED BY <3>4, <3>5, <3>6
  <2> QED BY <2>2, <2>3
<1> QED BY <1>14, <1>16, <1>17, <1>18, <1>19 DEF RetryInv

-----------------------------------------------------------------------------
LEMMA InvInit == Init => RetryInv
<1> SUFFICES ASSUME Init PROVE RetryInv OBVIOUS
<1>1. \A t \in Tasks : Retries(t) = {}
  BY NoneAssumption DEF Init, Retries, NoRow
<1>2. Idle \in Handler /\ Idle.pc = "idle"
  BY EmptySeq DEF Idle, Handler
<1>3. RetryTypeOK
  <2>1. \A t \in Tasks : broker[t] \in Message
    BY TaskIdsAssumption DEF Init, Message, Senders, Unsent
  <2>2. broker \in [Tasks -> Message] /\ rows \in [Tasks -> Seq(EventRow)]
    BY <2>1, EmptySeq DEF Init
  <2> QED BY <1>2, <2>2 DEF Init, RetryTypeOK
<1>4. RetriedIsKnown
  <2>1. Cardinality({}) = 0
    BY FS_EmptySet
  <2>2. \A t \in Tasks : /\ Cardinality(Retries(t)) = 0 /\ rels[t].chain = {} /\ rels[t].total = 0
                         /\ DOMAIN rows[t] = {}
    <3> SUFFICES ASSUME NEW t \in Tasks
                 PROVE  /\ Cardinality(Retries(t)) = 0 /\ rels[t].chain = {} /\ rels[t].total = 0
                        /\ DOMAIN rows[t] = {}
      OBVIOUS
    <3>1. rels[t] = NoRow /\ rows[t] = <<>>
      BY DEF Init
    <3>2. DOMAIN rows[t] = {}
      BY <3>1
    <3>3. rels[t].chain = {} /\ rels[t].total = 0
      BY <3>1 DEF NoRow
    <3> QED BY <1>1, <2>1, <3>2, <3>3
  <2> QED BY <1>1, <2>2 DEF RetriedIsKnown
<1>5. SentIsRecorded /\ BrokerInv
  BY TaskIdsAssumption DEF Init, SentIsRecorded, BrokerInv, Sent, Unsent
<1>6. HandlersInv
  BY <1>2 DEF Init, HandlersInv
<1> QED BY <1>3, <1>4, <1>5, <1>6 DEF RetryInv

LEMMA InvNext == RetryInv /\ [Next]_retryVars => RetryInv'
<1> SUFFICES ASSUME RetryInv, [Next]_retryVars PROVE RetryInv' OBVIOUS
<1>1. CASE Restart
  <2>1. UNCHANGED <<rels, rows, broker>> /\ Idle \in Handler /\ Idle.pc = "idle"
    BY <1>1, EmptySeq DEF Restart, Idle, Handler
  <2>2. handlers' \in [Handlers -> Handler] /\ \A h \in Handlers : handlers'[h].pc = "idle"
    BY <1>1, <2>1 DEF Restart
  <2>3. HandlersInv'
    BY <2>2 DEF HandlersInv
  <2> QED BY <2>1, <2>2, <2>3, RowsSame DEF RetryInv, RetryTypeOK
<1>2. CASE UNCHANGED retryVars
  <2>1. UNCHANGED <<rels, rows, broker, handlers>>
    BY <1>2 DEF retryVars
  <2>2. HandlersInv'
    BY <2>1, HandlersKept
  <2> QED BY <2>1, <2>2, RowsSame DEF RetryInv, RetryTypeOK
<1>3. ASSUME NEW h \in Handlers, Record(h) PROVE RetryInv'
  BY <1>3, RecordStep
<1> QED
  BY <1>1, <1>2, SaveEventStep, ForgetStep, DecideStep, ReadParentStep, ReadEventsStep,
     <1>3, FailStep, SendStep
  DEF Next

LEMMA InvHolds == RetrySpec => []RetryInv
  BY InvInit, InvNext, PTL DEF RetrySpec

\* The relationships, the events and what a handler has read of them have their types in
\* every reachable state.
THEOREM RetryTypeCorrect == RetrySpec => []RetryTypeOK
<1>1. RetryInv => RetryTypeOK
  BY DEF RetryInv
<1> QED BY <1>1, InvHolds, PTL

\* A task counts as retried exactly when a retry of it is recorded, and neither its row
\* nor the marks on its events claim one that is not, whatever overwrites what.
THEOREM RetriedAlwaysKnown == RetrySpec => []RetriedIsKnown
<1>1. RetryInv => RetriedIsKnown
  BY DEF RetryInv
<1> QED BY <1>1, InvHolds, PTL

\* A retry that was sent is recorded as one of the task it repeats.
THEOREM SentAlwaysRecorded == RetrySpec => []SentIsRecorded
<1>1. RetryInv => SentIsRecorded
  BY DEF RetryInv
<1> QED BY <1>1, InvHolds, PTL
=============================================================================
