---------------------------- MODULE RetentionProofs ----------------------------
(***************************************************************************)
(* What holds of Retention for any tasks, actions, settings and schedule:  *)
(* a cleanup deletes a task and its events together, keeps what is young   *)
(* and the history of what it keeps, and the scheduler commits one for     *)
(* each time of its schedule.                                              *)
(*                                                                         *)
(* A cleanup deletes step by step what it finds then.  Between two steps   *)
(* events come, but they are not older than its start: so a task that was  *)
(* expired before and has a new event is so no longer, and a task that is  *)
(* expired after has all the events it had before.                         *)
(***************************************************************************)
EXTENDS Retention, TLAPS

\* Events are not of the future, nor newer than the snapshot of their task.
TimesInv ==
    \A t \in Tasks : \A at \in events[t] :
        at <= clock /\ (latest[t] # None => at <= latest[t].at)

\* The expired tasks of either kind.
Successful(q)   == ExpiredTasks(q, TRUE)
Unsuccessful(q) == ExpiredTasks(q, FALSE)

\* What a cleanup at work has deleted of the tasks: old events, and all of those that are
\* expired, once the statement for them ran; ...
EventsGone(q) ==
    \A t \in Tasks :
        /\ \A at \in q.gone.events[t] : at + 1 < q.started
        /\ q.target > 1 /\ t \in Successful(q) => events[t] \subseteq q.gone.events[t]
        /\ q.target > 2 /\ t \in Unsuccessful(q) => events[t] \subseteq q.gone.events[t]

\* ... snapshots that were expired, of tasks all of whose events go; and the event that a
\* snapshot shows only if that goes next; ...
SnapshotsGone(q) ==
    \A t \in Tasks :
        /\ t \in q.gone.latest =>
             /\ latest[t] # None /\ latest[t].at + 1 < q.started
             /\ events[t] \subseteq q.gone.events[t]
        /\ latest[t] # None /\ t \notin q.gone.latest /\ latest[t].at \in q.gone.events[t] =>
             /\ t \in ExpiredTasks(q, latest[t].good)
             /\ q.target <= IF latest[t].good THEN 3 ELSE 4

\* ... and items whose tasks have no snapshot, or one that came since, of actions only
\* with all of theirs.
HistoryGone(q) ==
    \A a \in Actions :
        /\ \A i \in q.gone.items[a] : \A t \in {i.original, i.rerun} \cap Tasks :
             t \in q.gone.latest \/ latest[t] = None \/ latest[t].at >= q.started
        /\ a \in q.gone.actions =>
             q.target = 7 /\ actions[a] # None /\ actions[a].items \subseteq q.gone.items[a]
        /\ q.target <= 4 => q.gone.items[a] = {}

CleanerOK(q) ==
    IF q.pc = "cleaning"
      THEN q.started <= clock /\ EventsGone(q) /\ SnapshotsGone(q) /\ HistoryGone(q)
      ELSE q.gone = Nothing
CleanupInv == \A c \in Callers : CleanerOK(cleaners[c])

TablesInv == RetentionTypeOK /\ TimesInv /\ TasksGoWhole /\ CleanupInv

\* A slot that was run, or is about to be, is not after the run that is recorded.
After(slot) == lastRun # None /\ slot <= lastRun
SlotsInv ==
    LET scheduler == cleaners["scheduler"]
    IN  /\ lastRun # None => lastRun <= clock
        /\ \A s \in Slots :
             /\ runs[s] <= 1 /\ (runs[s] # 0 => After(s))
             /\ s \in scheduler.slots /\ scheduler.pc \in {"due", "recorded", "cleaning"} =>
                  s <= clock /\ runs[s] = 0 /\ (scheduler.pc # "due" => After(s))

RetentionInv == TablesInv /\ SlotsInv

-----------------------------------------------------------------------------
(* Helpers of the cleanup.                                                 *)

LEMMA BoundedOf == ASSUME NEW value \in Stored PROVE Bounded(value) \in 1..MaxDays
  BY SettingsAssumption DEF Stored, Bounded

LEMMA NothingType ==
  /\ Nothing \in Deletions
  /\ \A t \in Tasks : Nothing.events[t] = {}
  /\ \A a \in Actions : Nothing.items[a] = {}
  /\ Nothing.latest = {} /\ Nothing.actions = {}
  BY DEF Nothing, Deletions

LEMMA IdleType ==
  /\ Idle \in Cleaner /\ Idle.pc = "idle" /\ Idle.gone = Nothing /\ Idle.slots = {}
<1>1. 1 \in 1..Len(Targets) + 1
  BY DEF Targets
<1> QED BY <1>1, NothingType, TimeAssumption, SettingsAssumption DEF Idle, Cleaner, Time

\* Of an expired task all events are old: none is newer than its snapshot.
LEMMA OldOf ==
  ASSUME RetentionTypeOK, TimesInv, NEW q \in Cleaner, NEW good \in BOOLEAN, NEW t \in Tasks
  PROVE  /\ t \in ExpiredTasks(q, good) =>
              /\ Old(events, q, good)[t] = events[t] /\ latest[t] # None
              /\ latest[t].at + 1 < q.started /\ \A at \in events[t] : at + 1 < q.started
         /\ t \notin ExpiredTasks(q, good) => Old(events, q, good)[t] = {}
<1> DEFINE days == q.days[IF good THEN "successful" ELSE "unsuccessful"]
<1>1. days \in 1..MaxDays /\ q.started \in Nat
  BY TimeAssumption DEF Cleaner, Keys, Time
<1>2. Old(events, q, good)[t] = IF t \in ExpiredTasks(q, good)
                                  THEN {at \in events[t] : at + days < q.started} ELSE {}
  BY DEF Old, Expired
<1>3. CASE t \in ExpiredTasks(q, good)
  <2>1. latest[t] # None /\ latest[t].at + days < q.started
    BY <1>3 DEF ExpiredTasks, Expired
  <2>2. latest[t] \in Snapshot /\ latest[t].at \in Nat
    BY <2>1, TimeAssumption DEF RetentionTypeOK, Snapshot, Time
  <2>3. \A at \in events[t] : at \in Nat /\ at <= latest[t].at
    BY <2>1, TimeAssumption DEF RetentionTypeOK, TimesInv, Time
  <2> HIDE DEF days
  <2>4. \A at \in events[t] : at + days < q.started /\ at + 1 < q.started
    BY <1>1, <2>1, <2>2, <2>3, SettingsAssumption
  <2>5. latest[t].at + 1 < q.started
    BY <1>1, <2>1, <2>2, SettingsAssumption
  <2> QED BY <1>2, <1>3, <2>1, <2>4, <2>5
<1>4. CASE t \notin ExpiredTasks(q, good)
  BY <1>2, <1>4
<1> QED BY <1>3, <1>4

\* What a cleanup has deleted depends on the tables alone.
LEMMA CleanerSame ==
  ASSUME NEW q, UNCHANGED <<clock, tableVars>>, CleanerOK(q)
  PROVE  CleanerOK(q)'
<1>1. UNCHANGED <<clock, latest, events, actions>>
  BY DEF tableVars
<1>2. \A good : ExpiredTasks(q, good)' = ExpiredTasks(q, good)
  BY <1>1 DEF ExpiredTasks, Expired
<1>3. EventsGone(q) => EventsGone(q)'
  BY <1>1, <1>2 DEF EventsGone, Successful, Unsuccessful
<1>4. SnapshotsGone(q) => SnapshotsGone(q)'
  BY <1>1, <1>2 DEF SnapshotsGone
<1>5. HistoryGone(q) => HistoryGone(q)'
  BY <1>1 DEF HistoryGone
<1> QED BY <1>1, <1>3, <1>4, <1>5 DEF CleanerOK

\* A step of one caller that leaves the tables alone.
LEMMA CallerStep ==
  ASSUME TablesInv, UNCHANGED <<clock, tableVars, runs>>, lastRun' \in Time \cup {None},
         NEW c \in Callers, NEW q \in Cleaner, cleaners' = [cleaners EXCEPT ![c] = q],
         CleanerOK(q), lock' \in Callers \cup {None},
         q.pc = "cleaning" <=> lock' = c,
         \A d \in Callers \ {c} : lock' = d <=> lock = d
  PROVE  TablesInv'
<1>1. UNCHANGED <<clock, latest, events, actions, runs>>
  BY DEF tableVars
<1>2. \A d \in Callers : cleaners'[d] = IF d = c THEN q ELSE cleaners[d]
  BY DEF TablesInv, RetentionTypeOK
<1>3. RetentionTypeOK'
  <2>1. cleaners' \in [Callers -> Cleaner]
    BY DEF TablesInv, RetentionTypeOK
  <2>2. \A d \in Callers : cleaners'[d].pc = "cleaning" <=> lock' = d
    BY <1>2 DEF TablesInv, RetentionTypeOK
  <2> QED BY <1>1, <2>1, <2>2 DEF TablesInv, RetentionTypeOK
<1>4. TimesInv' /\ TasksGoWhole'
  BY <1>1 DEF TablesInv, TimesInv, TasksGoWhole
<1>5. CleanupInv'
  <2> SUFFICES ASSUME NEW d \in Callers PROVE CleanerOK(cleaners[d])'
    BY DEF CleanupInv
  <2>1. PICK o : o = cleaners'[d]
    OBVIOUS
  <2>2. CleanerOK(o)
    BY <1>2, <2>1 DEF TablesInv, CleanupInv
  <2>3. CleanerOK(o)'
    BY <2>2, CleanerSame
  <2> QED BY <2>1, <2>3 DEF CleanerOK, EventsGone, SnapshotsGone, HistoryGone, ExpiredTasks, Expired,
                          Successful, Unsuccessful
<1> QED BY <1>3, <1>4, <1>5 DEF TablesInv

-----------------------------------------------------------------------------
(* The steps of the callers.                                               *)

LEMMA AcquireStep ==
  ASSUME TablesInv, NEW c \in Callers, Acquire(c), UNCHANGED <<clock, tableVars, lastRun, runs>>
  PROVE  TablesInv'
<1>1. RetentionTypeOK
  BY DEF TablesInv
<1>2. lock = None /\ lock' = c
  BY DEF Acquire
<1>3. PICK policy \in Policies :
        cleaners' = [cleaners EXCEPT ![c] =
                      [cleaners[c] EXCEPT !.pc = "cleaning", !.target = 1, !.gone = Nothing,
                         !.started = clock, !.days = [k \in Keys |-> Bounded(policy[k])]]]
  BY DEF Acquire
<1> DEFINE days == [k \in Keys |-> Bounded(policy[k])]  o == cleaners[c]
           q == [o EXCEPT !.pc = "cleaning", !.target = 1, !.gone = Nothing,
                          !.started = clock, !.days = days]
<1>4. days \in [Keys -> 1..MaxDays]
  BY BoundedOf DEF Policies
<1>5. o \in Cleaner
  BY <1>1 DEF RetentionTypeOK
<1>6. cleaners' = [cleaners EXCEPT ![c] = q]
  BY <1>3
<1> HIDE DEF days, o
<1>7. /\ q \in Cleaner /\ q.pc = "cleaning" /\ q.target = 1 /\ q.gone = Nothing
      /\ q.started = clock
  <2>1. 1 \in 1..Len(Targets) + 1
    BY DEF Targets
  <2>2. clock \in Time
    BY <1>1 DEF RetentionTypeOK
  <2> QED BY <1>4, <1>5, <2>1, <2>2, NothingType DEF Cleaner
<1> HIDE DEF q
<1>8. CleanerOK(q)
  <2>1. clock \in Nat
    BY <1>1, TimeAssumption DEF RetentionTypeOK, Time
  <2>2. EventsGone(q) /\ HistoryGone(q)
    BY <1>7, NothingType DEF EventsGone, HistoryGone
  <2>3. SnapshotsGone(q)
    BY <1>7, NothingType DEF SnapshotsGone
  <2> QED BY <1>7, <2>1, <2>2, <2>3 DEF CleanerOK
<1>9. lastRun' \in Time \cup {None}
  BY <1>1 DEF RetentionTypeOK
<1> QED BY <1>2, <1>6, <1>7, <1>8, <1>9, NoneAssumption, CallerStep

\* A step of the scheduler, or the end of a cleanup, after which its caller cleans nothing.
LEMMA IdleStep ==
  ASSUME TablesInv, UNCHANGED <<clock, tableVars, runs>>, UNCHANGED lastRun \/ lastRun' = clock,
         NEW c \in Callers, NEW q \in Cleaner, cleaners' = [cleaners EXCEPT ![c] = q],
         q.pc # "cleaning", q.gone = Nothing,
         lock' = IF lock = c THEN None ELSE lock
  PROVE  TablesInv'
<1>1. CleanerOK(q)
  BY DEF CleanerOK
<1>2. lastRun' \in Time \cup {None} /\ lock \in Callers \cup {None}
  BY DEF TablesInv, RetentionTypeOK
<1> QED BY <1>1, <1>2, NoneAssumption, CallerStep

\* The record of a caller that moves on without cleaning.
LEMMA Moved ==
  ASSUME TablesInv, NEW c \in Callers, cleaners[c].pc # "cleaning",
         NEW pc \in {"due", "recorded", "failed"}, NEW q, q = [cleaners[c] EXCEPT !.pc = pc]
  PROVE  /\ q \in Cleaner /\ q.pc = pc /\ q.gone = Nothing /\ q.slots = cleaners[c].slots
         /\ lock # c
<1>1. cleaners[c] \in Cleaner /\ CleanerOK(cleaners[c]) /\ lock # c
  BY DEF TablesInv, RetentionTypeOK, CleanupInv
<1>2. cleaners[c].gone = Nothing
  BY <1>1 DEF CleanerOK
<1> QED BY <1>1, <1>2 DEF Cleaner

LEMMA Ended ==
  ASSUME NEW pc \in {"cleaned", "failed"}, NEW q, q = [Idle EXCEPT !.pc = pc]
  PROVE  q \in Cleaner /\ q.pc = pc /\ q.gone = Nothing /\ q.slots = {}
  BY IdleType DEF Cleaner

LEMMA PollTables == ASSUME TablesInv, Poll PROVE TablesInv'
<1> DEFINE o == cleaners["scheduler"]
           q == [o EXCEPT !.pc = "due", !.slots = DueSlots]
<1>1. o \in Cleaner /\ o.gone = Nothing /\ lock # "scheduler"
  BY DEF TablesInv, RetentionTypeOK, CleanupInv, CleanerOK, Callers, Poll
<1>2. DueSlots \subseteq Slots
  BY DEF DueSlots
<1>3. q \in Cleaner /\ q.pc = "due" /\ q.gone = Nothing
  BY <1>1, <1>2 DEF Cleaner
<1>4. /\ cleaners' = [cleaners EXCEPT !["scheduler"] = q]
      /\ UNCHANGED <<clock, tableVars, lastRun, lock, runs>>
  BY DEF Poll
<1> HIDE DEF q
<1> QED BY <1>1, <1>3, <1>4, IdleStep DEF Callers

LEMMA RecordStartTables == ASSUME TablesInv, RecordStart PROVE TablesInv'
<1>1. /\ "scheduler" \in Callers /\ cleaners["scheduler"].pc = "due"
      /\ UNCHANGED <<clock, tableVars, lock, runs>>
  BY DEF Callers, RecordStart
<1>2. PICK pc \in {"recorded", "failed"} :
        /\ cleaners' = [cleaners EXCEPT !["scheduler"] = [cleaners["scheduler"] EXCEPT !.pc = pc]]
        /\ UNCHANGED lastRun \/ lastRun' = clock
  BY DEF RecordStart, SetLastRun
<1>3. PICK q : q = [cleaners["scheduler"] EXCEPT !.pc = pc]
  OBVIOUS
<1>4. q \in Cleaner /\ q.pc = pc /\ q.gone = Nothing /\ lock # "scheduler"
  BY <1>1, <1>3, Moved
<1> QED BY <1>1, <1>2, <1>3, <1>4, IdleStep

LEMMA BeginTables == ASSUME TablesInv, Begin PROVE TablesInv'
<1>1. /\ "scheduler" \in Callers /\ cleaners["scheduler"].pc = "recorded"
      /\ UNCHANGED <<clock, tableVars, lastRun, runs>>
  BY DEF Callers, Begin
<1>2. CASE Acquire("scheduler")
  BY <1>1, <1>2, AcquireStep
<1>3. CASE /\ UNCHANGED lock
           /\ cleaners' = [cleaners EXCEPT !["scheduler"].pc = "failed"]
  <2>1. PICK q : q = [cleaners["scheduler"] EXCEPT !.pc = "failed"]
    OBVIOUS
  <2>2. q \in Cleaner /\ q.pc = "failed" /\ q.gone = Nothing /\ lock # "scheduler"
    BY <1>1, <2>1, Moved
  <2>3. cleaners' = [cleaners EXCEPT !["scheduler"] = q]
    BY <1>3, <2>1
  <2> QED BY <1>1, <1>3, <2>2, <2>3, IdleStep
<1> QED BY <1>2, <1>3 DEF Begin

LEMMA RecordSuccessTables == ASSUME TablesInv, RecordSuccess PROVE TablesInv'
<1>1. /\ "scheduler" \in Callers /\ cleaners["scheduler"].pc = "cleaned"
      /\ UNCHANGED <<clock, tableVars, lock, runs>>
  BY DEF Callers, RecordSuccess
<1>2. PICK q : /\ q = Idle \/ q = [cleaners["scheduler"] EXCEPT !.pc = "failed"]
               /\ cleaners' = [cleaners EXCEPT !["scheduler"] = q]
               /\ UNCHANGED lastRun \/ lastRun' = clock
  BY DEF RecordSuccess, SetLastRun
<1>3. q \in Cleaner /\ q.pc # "cleaning" /\ q.gone = Nothing /\ lock # "scheduler"
  BY <1>1, <1>2, Moved, IdleType DEF TablesInv, RetentionTypeOK
<1> QED BY <1>1, <1>2, <1>3, IdleStep

LEMMA RecordErrorTables == ASSUME TablesInv, RecordError PROVE TablesInv'
<1>1. /\ "scheduler" \in Callers /\ cleaners["scheduler"].pc = "failed"
      /\ cleaners' = [cleaners EXCEPT !["scheduler"] = Idle]
      /\ UNCHANGED lastRun \/ lastRun' = clock
      /\ UNCHANGED <<clock, tableVars, lock, runs>>
  BY DEF Callers, RecordError, SetLastRun
<1>2. lock # "scheduler"
  BY <1>1 DEF TablesInv, RetentionTypeOK
<1> QED BY <1>1, <1>2, IdleType, IdleStep

LEMMA AbortTables == ASSUME TablesInv, NEW c \in Callers, Abort(c) PROVE TablesInv'
<1>1. /\ cleaners[c].pc = "cleaning" /\ lock' = None
      /\ UNCHANGED <<clock, tableVars, lastRun, runs>>
  BY DEF Abort
<1>2. lock = c
  BY <1>1 DEF TablesInv, RetentionTypeOK
<1>3. PICK q : /\ q = Idle \/ q = [Idle EXCEPT !.pc = "failed"]
               /\ cleaners' = [cleaners EXCEPT ![c] = q]
  BY DEF Abort
<1>4. q \in Cleaner /\ q.pc # "cleaning" /\ q.gone = Nothing
  BY <1>3, Ended, IdleType
<1> QED BY <1>1, <1>2, <1>3, <1>4, IdleStep

LEMMA RestartTables == ASSUME TablesInv, Restart PROVE TablesInv'
<1>1. /\ cleaners' = [c \in Callers |-> Idle] /\ lock' = None
      /\ UNCHANGED <<clock, latest, events, actions, lastRun, runs>>
  BY DEF Restart, tableVars
<1>2. RetentionTypeOK'
  BY <1>1, IdleType, NoneAssumption DEF TablesInv, RetentionTypeOK
<1>3. TimesInv' /\ TasksGoWhole'
  BY <1>1 DEF TablesInv, TimesInv, TasksGoWhole
<1>4. CleanupInv'
  BY <1>1, IdleType DEF CleanupInv, CleanerOK
<1> QED BY <1>2, <1>3, <1>4 DEF TablesInv

-----------------------------------------------------------------------------
(* The rest of the application.                                            *)

\* A step of another session: what it leaves of the cleanups is theirs.
LEMMA OtherCleaners ==
  ASSUME UNCHANGED cleaners, \A c \in Callers : \A q : q = cleaners[c] => CleanerOK(q)'
  PROVE  CleanupInv'
<1> SUFFICES ASSUME NEW c \in Callers PROVE CleanerOK(cleaners[c])'
  BY DEF CleanupInv
<1>1. PICK q : q = cleaners[c]
  OBVIOUS
<1>2. CleanerOK(q)' /\ q = cleaners'[c]
  BY <1>1
<1> QED BY <1>2 DEF CleanerOK, EventsGone, SnapshotsGone, HistoryGone, ExpiredTasks, Expired,
                          Successful, Unsuccessful

\* The snapshot of a new event is not older than a cleanup at work.
LEMMA SaveEventCleaner ==
  ASSUME TablesInv, NEW t \in Tasks, NEW good \in BOOLEAN, SaveEvent(t, good),
         NEW c \in Callers, NEW q, q = cleaners[c]
  PROVE  CleanerOK(q)'
<1>1. /\ q \in Cleaner /\ CleanerOK(q) /\ t \notin q.gone.latest /\ clock \in Nat
      /\ UNCHANGED <<clock, actions>>
      /\ latest' = [latest EXCEPT ![t] = [at |-> clock, good |-> good]]
      /\ events' = [events EXCEPT ![t] = @ \cup {clock}]
  BY TimeAssumption DEF TablesInv, RetentionTypeOK, CleanupInv, SaveEvent, Locked, Time
<1>2. CASE q.pc # "cleaning"
  BY <1>1, <1>2 DEF CleanerOK
<1>3. CASE q.pc = "cleaning"
  <2>1. /\ q.started <= clock /\ EventsGone(q) /\ SnapshotsGone(q) /\ HistoryGone(q)
        /\ q.started \in Nat
    BY <1>1, <1>3, TimeAssumption DEF CleanerOK, Cleaner, Time
  <2>2. \A u \in Tasks : /\ u # t => latest'[u] = latest[u] /\ events'[u] = events[u]
                         /\ u = t => latest'[u] = [at |-> clock, good |-> good]
    BY <1>1 DEF TablesInv, RetentionTypeOK
  <2>3. latest'[t].at = clock /\ latest'[t].good = good /\ ~(clock < q.started)
    BY <1>1, <2>1, <2>2
  <2>4. ASSUME NEW u \in Tasks, NEW g \in BOOLEAN
        PROVE  u \in ExpiredTasks(q, g)' <=> u # t /\ u \in ExpiredTasks(q, g)
    <3>1. CASE u = t
      <4> DEFINE days == q.days[IF g THEN "successful" ELSE "unsuccessful"]
      <4>1. days \in Nat
        BY <1>1, SettingsAssumption DEF Cleaner, Keys
      <4>2. u \in ExpiredTasks(q, g)' => clock + days < q.started
        BY <2>3, <3>1 DEF ExpiredTasks, Expired
      <4> HIDE DEF days
      <4> QED BY <1>1, <2>1, <3>1, <4>1, <4>2
    <3>2. CASE u # t
      BY <2>2, <3>2 DEF ExpiredTasks, Expired
    <3> QED BY <3>1, <3>2
  <2>5. EventsGone(q)'
    BY <2>1, <2>2, <2>4 DEF EventsGone, Successful, Unsuccessful
  <2>6. SnapshotsGone(q)'
    <3> SUFFICES ASSUME NEW u \in Tasks
                 PROVE  /\ u \in q.gone.latest =>
                             /\ latest'[u] # None /\ latest'[u].at + 1 < q.started
                             /\ events'[u] \subseteq q.gone.events[u]
                        /\ latest'[u] # None /\ u \notin q.gone.latest
                             /\ latest'[u].at \in q.gone.events[u] =>
                             /\ u \in ExpiredTasks(q, latest[u].good)'
                             /\ q.target <= IF latest'[u].good THEN 3 ELSE 4
      BY DEF SnapshotsGone
    <3>1. CASE u = t
      BY <1>1, <2>1, <2>3, <3>1 DEF EventsGone
    <3>2. CASE u # t /\ latest[u] # None
      <4>1. latest[u].good \in BOOLEAN
        BY <3>2 DEF TablesInv, RetentionTypeOK, Snapshot
      <4>2. u \in ExpiredTasks(q, latest[u].good) => u \in ExpiredTasks(q, latest[u].good)'
        BY <2>2, <3>2 DEF ExpiredTasks, Expired
      <4> QED BY <2>1, <2>2, <3>2, <4>2 DEF SnapshotsGone
    <3>3. CASE u # t /\ latest[u] = None
      BY <2>1, <2>2, <3>3 DEF SnapshotsGone
    <3> QED BY <3>1, <3>2, <3>3
  <2>7. HistoryGone(q)'
    <3>1. latest'[t].at >= q.started
      BY <1>1, <2>1, <2>3
    <3> QED BY <1>1, <2>1, <2>2, <3>1 DEF HistoryGone
  <2> QED BY <1>1, <2>1, <2>5, <2>6, <2>7 DEF CleanerOK
<1> QED BY <1>2, <1>3

LEMMA SaveEventTables ==
  ASSUME TablesInv, NEW t \in Tasks, NEW good \in BOOLEAN, SaveEvent(t, good)
  PROVE  TablesInv'
<1> DEFINE row == [at |-> clock, good |-> good]
<1>1. /\ UNCHANGED <<clock, actions, lastRun, lock, cleaners, runs>>
      /\ latest' = [latest EXCEPT ![t] = row] /\ events' = [events EXCEPT ![t] = @ \cup {clock}]
  BY DEF SaveEvent
<1>2. row \in Snapshot /\ row # None /\ row.at = clock /\ clock \in Nat
  BY NoneAssumption, TimeAssumption DEF TablesInv, RetentionTypeOK, Snapshot, Time
<1> HIDE DEF row
<1>3. \A u \in Tasks : /\ latest'[u] = IF u = t THEN row ELSE latest[u]
                       /\ events'[u] = IF u = t THEN events[t] \cup {clock} ELSE events[u]
  BY <1>1 DEF TablesInv, RetentionTypeOK
<1>4. RetentionTypeOK'
  <2>1. clock \in Time
    BY DEF TablesInv, RetentionTypeOK
  <2>2. latest' \in [Tasks -> Snapshot \cup {None}] /\ events' \in [Tasks -> SUBSET Time]
    BY <1>1, <1>2, <2>1 DEF TablesInv, RetentionTypeOK
  <2> QED BY <1>1, <2>2 DEF TablesInv, RetentionTypeOK
<1>5. TimesInv'
  <2>1. \A at \in events[t] \cup {clock} : at <= clock
    BY <1>2 DEF TablesInv, TimesInv
  <2> QED BY <1>1, <1>2, <1>3, <2>1 DEF TablesInv, TimesInv
<1>6. TasksGoWhole'
  BY <1>2, <1>3 DEF TablesInv, TasksGoWhole
<1>7. CleanupInv'
  BY <1>1, SaveEventCleaner, OtherCleaners
<1> QED BY <1>4, <1>5, <1>6, <1>7 DEF TablesInv

LEMMA SaveActionTables ==
  ASSUME TablesInv, NEW a \in Actions, NEW i \in Item, SaveAction(a, {i})
  PROVE  TablesInv'
<1> DEFINE row == [at |-> clock, items |-> {i}]
<1>1. /\ UNCHANGED <<clock, latest, events, lastRun, lock, cleaners, runs>> /\ actions[a] = None
      /\ actions' = [actions EXCEPT ![a] = row]
  BY DEF SaveAction
<1>2. row \in Action
  BY DEF TablesInv, RetentionTypeOK, Action
<1> HIDE DEF row
<1>3. RetentionTypeOK'
  BY <1>1, <1>2 DEF TablesInv, RetentionTypeOK
<1>4. TimesInv' /\ TasksGoWhole'
  BY <1>1 DEF TablesInv, TimesInv, TasksGoWhole
<1>5. CleanupInv'
  <2>1. ASSUME NEW c \in Callers, NEW q, q = cleaners[c] PROVE CleanerOK(q)'
    <3>1. CleanerOK(q)
      BY <2>1 DEF TablesInv, CleanupInv
    <3>2. \A good : ExpiredTasks(q, good)' = ExpiredTasks(q, good)
      BY <1>1 DEF ExpiredTasks, Expired
    <3>3. EventsGone(q) => EventsGone(q)'
      BY <1>1, <3>2 DEF EventsGone, Successful, Unsuccessful
    <3>4. SnapshotsGone(q) => SnapshotsGone(q)'
      BY <1>1, <3>2 DEF SnapshotsGone
    <3>5. HistoryGone(q) => HistoryGone(q)'
      <4>1. \A b \in Actions : actions[b] # None => actions'[b] = actions[b]
        BY <1>1 DEF TablesInv, RetentionTypeOK
      <4> QED BY <1>1, <4>1 DEF HistoryGone
    <3> QED BY <1>1, <3>1, <3>3, <3>4, <3>5 DEF CleanerOK
  <2> QED BY <1>1, <2>1, OtherCleaners
<1> QED BY <1>3, <1>4, <1>5 DEF TablesInv

LEMMA TickTables == ASSUME TablesInv, Tick PROVE TablesInv'
<1>1. /\ UNCHANGED <<latest, events, actions, lastRun, lock, cleaners, runs>>
      /\ clock \in Nat /\ clock' = clock + 1 /\ clock' \in Time
  BY TimeAssumption DEF Tick, tableVars, TablesInv, RetentionTypeOK, Time
<1>2. RetentionTypeOK' /\ TasksGoWhole'
  BY <1>1 DEF TablesInv, RetentionTypeOK, TasksGoWhole
<1>3. TimesInv'
  <2>1. \A t \in Tasks : \A at \in events[t] : at \in Nat
    BY TimeAssumption DEF TablesInv, RetentionTypeOK, Time
  <2> QED BY <1>1, <2>1 DEF TablesInv, TimesInv
<1>4. CleanupInv'
  <2>1. ASSUME NEW c \in Callers, NEW q, q = cleaners[c] PROVE CleanerOK(q)'
    <3>1. CleanerOK(q) /\ q \in Cleaner
      BY <2>1 DEF TablesInv, CleanupInv, RetentionTypeOK
    <3>2. \A good : ExpiredTasks(q, good)' = ExpiredTasks(q, good)
      BY <1>1 DEF ExpiredTasks, Expired
    <3>3. EventsGone(q) => EventsGone(q)'
      BY <1>1, <3>2 DEF EventsGone, Successful, Unsuccessful
    <3>4. SnapshotsGone(q) => SnapshotsGone(q)'
      BY <1>1, <3>2 DEF SnapshotsGone
    <3>5. HistoryGone(q) => HistoryGone(q)'
      BY <1>1 DEF HistoryGone
    <3>6. q.started <= clock => q.started <= clock'
      BY <1>1, <3>1, TimeAssumption DEF Cleaner, Time
    <3> QED BY <1>1, <3>1, <3>3, <3>4, <3>5, <3>6 DEF CleanerOK
  <2> QED BY <1>1, <2>1, OtherCleaners
<1> QED BY <1>2, <1>3, <1>4 DEF TablesInv

-----------------------------------------------------------------------------
(* The statements of a cleanup.                                            *)

\* After a statement for events: those of expired tasks go, too.
LEMMA EventsTarget ==
  ASSUME TablesInv, NEW q \in Cleaner, q.pc = "cleaning", CleanerOK(q), NEW good \in BOOLEAN,
         q.target = IF good THEN 1 ELSE 2,
         NEW r \in Cleaner, r.pc = "cleaning", r.started = q.started, r.days = q.days,
         r.target = q.target + 1,
         r.gone = [q.gone EXCEPT !.events = With(@, Old(events, q, good))]
  PROVE  CleanerOK(r)
<1>1. /\ q.started <= clock /\ EventsGone(q) /\ SnapshotsGone(q) /\ HistoryGone(q)
      /\ RetentionTypeOK /\ TimesInv
  BY DEF CleanerOK, TablesInv
<1>2. q.gone \in Deletions
  BY DEF Cleaner
<1>3. /\ r.gone.latest = q.gone.latest /\ r.gone.items = q.gone.items
      /\ r.gone.actions = q.gone.actions
      /\ r.gone.events = With(q.gone.events, Old(events, q, good))
  BY <1>2 DEF Deletions
<1>4. \A t \in Tasks : r.gone.events[t] = q.gone.events[t] \cup Old(events, q, good)[t]
  BY <1>2, <1>3 DEF With, Deletions
<1>5. \A t \in Tasks :
        /\ t \in ExpiredTasks(q, good) =>
              /\ r.gone.events[t] = q.gone.events[t] \cup events[t]
              /\ \A at \in events[t] : at + 1 < q.started
        /\ t \notin ExpiredTasks(q, good) => r.gone.events[t] = q.gone.events[t]
  <2> SUFFICES ASSUME NEW t \in Tasks
               PROVE  /\ t \in ExpiredTasks(q, good) =>
                            /\ r.gone.events[t] = q.gone.events[t] \cup events[t]
                            /\ \A at \in events[t] : at + 1 < q.started
                      /\ t \notin ExpiredTasks(q, good) => r.gone.events[t] = q.gone.events[t]
    OBVIOUS
  <2>1. r.gone.events[t] = q.gone.events[t] \cup Old(events, q, good)[t]
    BY <1>4
  <2>2. CASE t \in ExpiredTasks(q, good)
    <3>1. Old(events, q, good)[t] = events[t] /\ \A at \in events[t] : at + 1 < q.started
      BY <1>1, <2>2, OldOf
    <3> QED BY <2>1, <2>2, <3>1
  <2>3. CASE t \notin ExpiredTasks(q, good)
    <3>1. Old(events, q, good)[t] = {}
      BY <1>1, <2>3, OldOf
    <3> QED BY <2>1, <2>3, <3>1
  <2> QED BY <2>2, <2>3
<1>6. /\ \A g : ExpiredTasks(r, g) = ExpiredTasks(q, g)
      /\ Successful(r) = Successful(q)
      /\ Unsuccessful(r) = Unsuccessful(q)
  BY <1>3 DEF ExpiredTasks, Expired, Successful, Unsuccessful
<1>7. EventsGone(r)
  <2> SUFFICES ASSUME NEW t \in Tasks
               PROVE  /\ \A at \in r.gone.events[t] : at + 1 < r.started
                      /\ r.target > 1 /\ t \in Successful(r) => events[t] \subseteq r.gone.events[t]
                      /\ r.target > 2 /\ t \in Unsuccessful(r) => events[t] \subseteq r.gone.events[t]
    BY DEF EventsGone
  <2>1. \A at \in r.gone.events[t] : at + 1 < r.started
    BY <1>1, <1>5 DEF EventsGone
  <2>2. CASE good = TRUE
    <3>1. ExpiredTasks(q, good) = Successful(q)
      BY <2>2, Zenon DEF Successful
    <3>2. r.target = 2
      BY <2>2
    <3>3. t \in Successful(r) => events[t] \subseteq r.gone.events[t]
      BY <1>5, <1>6, <3>1
    <3> QED BY <2>1, <3>2, <3>3
  <2>3. CASE good = FALSE
    <3>1. ExpiredTasks(q, good) = Unsuccessful(q)
      BY <2>3, Zenon DEF Unsuccessful
    <3>2. q.target = 2
      BY <2>3
    <3>3. t \in Unsuccessful(r) => events[t] \subseteq r.gone.events[t]
      BY <1>5, <1>6, <3>1
    <3>4. t \in Successful(r) => events[t] \subseteq q.gone.events[t]
      BY <1>1, <1>6, <3>2 DEF EventsGone
    <3>5. q.gone.events[t] \subseteq r.gone.events[t]
      BY <1>4
    <3> QED BY <2>1, <3>3, <3>4, <3>5
  <2> QED BY <2>2, <2>3
<1>8. SnapshotsGone(r)
  <2> SUFFICES ASSUME NEW t \in Tasks
               PROVE  /\ t \in q.gone.latest =>
                           /\ latest[t] # None /\ latest[t].at + 1 < q.started
                           /\ events[t] \subseteq r.gone.events[t]
                      /\ latest[t] # None /\ t \notin q.gone.latest
                           /\ latest[t].at \in r.gone.events[t] =>
                           /\ t \in ExpiredTasks(q, latest[t].good)
                           /\ r.target <= IF latest[t].good THEN 3 ELSE 4
    BY <1>3, <1>6 DEF SnapshotsGone
  <2>1. t \in q.gone.latest =>
           /\ latest[t] # None /\ latest[t].at + 1 < q.started
           /\ events[t] \subseteq r.gone.events[t]
    BY <1>1, <1>4 DEF SnapshotsGone
  <2>2. r.target <= 3
    OBVIOUS
  <2>3. ASSUME latest[t] # None, t \notin q.gone.latest, latest[t].at \in r.gone.events[t]
        PROVE  t \in ExpiredTasks(q, latest[t].good)
    <3>1. CASE t \in ExpiredTasks(q, good)
      BY <3>1 DEF ExpiredTasks
    <3>2. CASE t \notin ExpiredTasks(q, good)
      BY <1>1, <1>5, <2>3, <3>2 DEF SnapshotsGone
    <3> QED BY <3>1, <3>2
  <2> QED BY <2>1, <2>2, <2>3
<1>9. HistoryGone(r)
  BY <1>1, <1>3 DEF HistoryGone
<1> QED BY <1>1, <1>7, <1>8, <1>9 DEF CleanerOK

\* After a statement for snapshots: those that are expired go; their events have.
LEMMA LatestTarget ==
  ASSUME TablesInv, NEW q \in Cleaner, q.pc = "cleaning", CleanerOK(q), NEW good \in BOOLEAN,
         q.target = IF good THEN 3 ELSE 4,
         NEW r \in Cleaner, r.pc = "cleaning", r.started = q.started, r.days = q.days,
         r.target = q.target + 1,
         r.gone = [q.gone EXCEPT !.latest = @ \cup ExpiredTasks(q, good)]
  PROVE  CleanerOK(r)
<1>1. /\ q.started <= clock /\ EventsGone(q) /\ SnapshotsGone(q) /\ HistoryGone(q)
      /\ RetentionTypeOK /\ TimesInv
  BY DEF CleanerOK, TablesInv
<1>2. q.gone \in Deletions
  BY DEF Cleaner
<1>3. /\ r.gone.latest = q.gone.latest \cup ExpiredTasks(q, good)
      /\ r.gone.items = q.gone.items
      /\ r.gone.actions = q.gone.actions /\ r.gone.events = q.gone.events
  BY <1>2 DEF Deletions
<1>4. /\ \A g : ExpiredTasks(r, g) = ExpiredTasks(q, g) \ ExpiredTasks(q, good)
      /\ Successful(r) \subseteq Successful(q)
      /\ Unsuccessful(r) \subseteq Unsuccessful(q)
  BY <1>3 DEF ExpiredTasks, Expired, Successful, Unsuccessful
<1>5. EventsGone(r)
  BY <1>1, <1>3, <1>4 DEF EventsGone
<1>6. SnapshotsGone(r)
  <2> SUFFICES ASSUME NEW t \in Tasks
               PROVE  /\ t \in r.gone.latest =>
                           /\ latest[t] # None /\ latest[t].at + 1 < q.started
                           /\ events[t] \subseteq q.gone.events[t]
                      /\ latest[t] # None /\ t \notin r.gone.latest
                           /\ latest[t].at \in q.gone.events[t] =>
                           /\ t \in ExpiredTasks(r, latest[t].good)
                           /\ r.target <= IF latest[t].good THEN 3 ELSE 4
    BY <1>3 DEF SnapshotsGone
  <2>1. ASSUME t \in r.gone.latest
        PROVE  /\ latest[t] # None /\ latest[t].at + 1 < q.started
               /\ events[t] \subseteq q.gone.events[t]
    <3>1. CASE t \in q.gone.latest
      BY <1>1, <3>1 DEF SnapshotsGone
    <3>2. CASE t \in ExpiredTasks(q, good)
      <4>1. latest[t] # None /\ latest[t].at + 1 < q.started
        BY <1>1, <3>2, OldOf
      <4>2. events[t] \subseteq q.gone.events[t]
        <5>1. CASE good = TRUE
          <6>1. t \in Successful(q)
            BY <3>2, <5>1, Zenon DEF Successful
          <6>2. q.target = 3
            BY <5>1
          <6> QED BY <1>1, <6>1, <6>2 DEF EventsGone
        <5>2. CASE good = FALSE
          <6>1. t \in Unsuccessful(q)
            BY <3>2, <5>2, Zenon DEF Unsuccessful
          <6>2. q.target = 4
            BY <5>2
          <6> QED BY <1>1, <6>1, <6>2 DEF EventsGone
        <5> QED BY <5>1, <5>2
      <4> QED BY <4>1, <4>2
    <3> QED BY <1>3, <2>1, <3>1, <3>2
  <2>2. ASSUME latest[t] # None, t \notin r.gone.latest, latest[t].at \in q.gone.events[t]
        PROVE  /\ t \in ExpiredTasks(r, latest[t].good)
               /\ r.target <= IF latest[t].good THEN 3 ELSE 4
    <3>1. t \in ExpiredTasks(q, latest[t].good) /\ t \notin ExpiredTasks(q, good)
          /\ q.target <= IF latest[t].good THEN 3 ELSE 4
      BY <1>1, <1>3, <2>2 DEF SnapshotsGone
    <3>2. latest[t].good # good /\ latest[t].good \in BOOLEAN
      BY <1>1, <2>2, <3>1 DEF RetentionTypeOK, Snapshot
    <3> QED BY <1>4, <3>1, <3>2
  <2> QED BY <2>1, <2>2
<1>7. HistoryGone(r)
  BY <1>1, <1>3 DEF HistoryGone
<1> QED BY <1>1, <1>5, <1>6, <1>7 DEF CleanerOK

\* After the statement for items, and the one for actions.
LEMMA HistoryTarget ==
  ASSUME TablesInv, NEW q \in Cleaner, q.pc = "cleaning", CleanerOK(q),
         NEW r \in Cleaner, r.pc = "cleaning", r.started = q.started, r.days = q.days,
         r.target = q.target + 1,
         \/ /\ q.target = 5
            /\ r.gone = [q.gone EXCEPT !.items = [a \in Actions |-> OrphanedItems(q, a)]]
         \/ /\ q.target = 6
            /\ r.gone = [q.gone EXCEPT !.actions = EmptyActions(q)]
  PROVE  CleanerOK(r)
<1>1. /\ q.started <= clock /\ EventsGone(q) /\ SnapshotsGone(q) /\ HistoryGone(q)
      /\ RetentionTypeOK
  BY DEF CleanerOK, TablesInv
<1>2. q.gone \in Deletions
  BY DEF Cleaner
<1>3. /\ r.gone.latest = q.gone.latest /\ r.gone.events = q.gone.events
      /\ \/ /\ q.target = 5 /\ r.gone.actions = q.gone.actions
            /\ r.gone.items = [a \in Actions |-> OrphanedItems(q, a)]
         \/ q.target = 6 /\ r.gone.items = q.gone.items /\ r.gone.actions = EmptyActions(q)
  BY <1>2 DEF Deletions
<1>4. /\ \A g : ExpiredTasks(r, g) = ExpiredTasks(q, g)
      /\ Successful(r) = Successful(q)
      /\ Unsuccessful(r) = Unsuccessful(q)
  BY <1>3 DEF ExpiredTasks, Expired, Successful, Unsuccessful
<1>5. EventsGone(r)
  BY <1>1, <1>3, <1>4 DEF EventsGone
<1>6. SnapshotsGone(r)
  <2>1. q.target \notin {1, 2, 3, 4} /\ q.target \in Nat /\ q.target > 4
    BY <1>3
  <2>2. \A t \in Tasks : latest[t] # None /\ t \notin q.gone.latest => latest[t].at \notin q.gone.events[t]
    BY <1>1, <2>1 DEF SnapshotsGone
  <2> QED BY <1>1, <1>3, <2>2 DEF SnapshotsGone
<1>7. HistoryGone(r)
  <2>1. CASE q.target = 5
    <3>1. /\ \A a \in Actions : r.gone.items[a] = OrphanedItems(q, a)
          /\ r.gone.actions = q.gone.actions
      BY <1>3, <2>1
    <3>2. \A a \in Actions : a \notin q.gone.actions
      BY <1>1, <2>1 DEF HistoryGone
    <3>3. ASSUME NEW a \in Actions, NEW i \in OrphanedItems(q, a),
                 NEW t \in {i.original, i.rerun} \cap Tasks
          PROVE  t \in q.gone.latest \/ latest[t] = None
      BY <3>3 DEF OrphanedItems, Live
    <3> QED BY <1>3, <2>1, <3>1, <3>2, <3>3 DEF HistoryGone
  <2>2. CASE q.target = 6
    <3>1. r.gone.items = q.gone.items /\ r.gone.actions = EmptyActions(q)
      BY <1>3, <2>2
    <3> QED BY <1>1, <1>3, <2>2, <3>1 DEF HistoryGone, EmptyActions
  <2> QED BY <2>1, <2>2
<1> QED BY <1>1, <1>5, <1>6, <1>7 DEF CleanerOK

LEMMA ApplyTables == ASSUME TablesInv, NEW c \in Callers, Apply(c) PROVE TablesInv'
<1>0. PICK q : q = cleaners[c]
  OBVIOUS
<1> DEFINE gone == AfterTarget(q, Targets[q.target])
<1>1. /\ q.pc = "cleaning" /\ q.target <= Len(Targets)
      /\ cleaners' = [cleaners EXCEPT ![c].gone = gone, ![c].target = q.target + 1]
      /\ UNCHANGED <<clock, tableVars, lastRun, lock, runs>>
  BY <1>0 DEF Apply
<1>2. /\ q \in Cleaner /\ CleanerOK(q) /\ lock = c /\ RetentionTypeOK
      /\ q.target \in 1..6 /\ q.gone \in Deletions
  <2>1. Len(Targets) = 6
    BY DEF Targets
  <2> QED BY <1>0, <1>1, <2>1 DEF TablesInv, RetentionTypeOK, CleanupInv, Cleaner
<1>3. PICK r : r = [q EXCEPT !.gone = gone, !.target = q.target + 1]
  OBVIOUS
<1>4. cleaners' = [cleaners EXCEPT ![c] = r]
  BY <1>0, <1>1, <1>2, <1>3 DEF RetentionTypeOK
<1>5. gone \in Deletions
  <2>1. \A g \in BOOLEAN : With(q.gone.events, Old(events, q, g)) \in [Tasks -> SUBSET Time]
    <3>1. \A g \in BOOLEAN : \A t \in Tasks : Old(events, q, g)[t] \subseteq Time
      BY <1>2 DEF Old, RetentionTypeOK
    <3> QED BY <1>2, <3>1 DEF With, Deletions
  <2>2. \A g \in BOOLEAN : ExpiredTasks(q, g) \subseteq Tasks
    BY DEF ExpiredTasks
  <2>3. [a \in Actions |-> OrphanedItems(q, a)] \in [Actions -> SUBSET Item]
    <3>1. \A a \in Actions : OrphanedItems(q, a) \subseteq Item
      BY <1>2 DEF OrphanedItems, RetentionTypeOK, Action
    <3> QED BY <3>1
  <2>4. EmptyActions(q) \subseteq Actions
    BY DEF EmptyActions
  <2>5. Targets[q.target].good \in BOOLEAN
    <3>1. /\ Targets[1].good = TRUE /\ Targets[2].good = FALSE /\ Targets[3].good = TRUE
          /\ Targets[4].good = FALSE /\ Targets[5].good = FALSE /\ Targets[6].good = FALSE
      BY DEF Targets
    <3>2. q.target = 1 \/ q.target = 2 \/ q.target = 3 \/ q.target = 4 \/ q.target = 5 \/ q.target = 6
      BY <1>2
    <3> QED BY <3>1, <3>2
  <2>6. \/ gone = [q.gone EXCEPT !.events = With(q.gone.events, Old(events, q, Targets[q.target].good))]
        \/ gone = [q.gone EXCEPT !.latest = q.gone.latest \cup ExpiredTasks(q, Targets[q.target].good)]
        \/ gone = [q.gone EXCEPT !.items = [a \in Actions |-> OrphanedItems(q, a)]]
        \/ gone = [q.gone EXCEPT !.actions = EmptyActions(q)]
    BY DEF AfterTarget
  <2> HIDE DEF gone
  <2> QED BY <1>2, <2>1, <2>2, <2>3, <2>4, <2>5, <2>6 DEF Deletions
<1>6. /\ r \in Cleaner /\ r.pc = "cleaning" /\ r.started = q.started /\ r.days = q.days
      /\ r.target = q.target + 1 /\ r.gone = gone
  <2>1. q.target + 1 \in 1..Len(Targets) + 1
    BY <1>2 DEF Targets
  <2> HIDE DEF gone
  <2> QED BY <1>1, <1>2, <1>3, <1>5, <2>1 DEF Cleaner
<1>7. CleanerOK(r)
  <2>1. CASE q.target = 1
    <3>1. gone = [q.gone EXCEPT !.events = With(@, Old(events, q, TRUE))]
      <4>1. Targets[q.target] = [table |-> "events", good |-> TRUE]
        BY <2>1 DEF Targets
      <4> QED BY <4>1 DEF AfterTarget
    <3> QED BY <1>1, <1>2, <1>6, <2>1, <3>1, EventsTarget
  <2>2. CASE q.target = 2
    <3>1. gone = [q.gone EXCEPT !.events = With(@, Old(events, q, FALSE))]
      <4>1. Targets[q.target] = [table |-> "events", good |-> FALSE]
        BY <2>2 DEF Targets
      <4> QED BY <4>1 DEF AfterTarget
    <3> QED BY <1>1, <1>2, <1>6, <2>2, <3>1, EventsTarget
  <2>3. CASE q.target = 3
    <3>1. gone = [q.gone EXCEPT !.latest = @ \cup ExpiredTasks(q, TRUE)]
      <4>1. Targets[q.target] = [table |-> "latest", good |-> TRUE]
        BY <2>3 DEF Targets
      <4> QED BY <4>1 DEF AfterTarget
    <3> QED BY <1>1, <1>2, <1>6, <2>3, <3>1, LatestTarget
  <2>4. CASE q.target = 4
    <3>1. gone = [q.gone EXCEPT !.latest = @ \cup ExpiredTasks(q, FALSE)]
      <4>1. Targets[q.target] = [table |-> "latest", good |-> FALSE]
        BY <2>4 DEF Targets
      <4> QED BY <4>1 DEF AfterTarget
    <3> QED BY <1>1, <1>2, <1>6, <2>4, <3>1, LatestTarget
  <2>5. CASE q.target = 5
    <3>1. gone = [q.gone EXCEPT !.items = [a \in Actions |-> OrphanedItems(q, a)]]
      BY <2>5 DEF AfterTarget, Targets
    <3> QED BY <1>1, <1>2, <1>6, <2>5, <3>1, HistoryTarget
  <2>6. CASE q.target = 6
    <3>1. gone = [q.gone EXCEPT !.actions = EmptyActions(q)]
      BY <2>6 DEF AfterTarget, Targets
    <3> QED BY <1>1, <1>2, <1>6, <2>6, <3>1, HistoryTarget
  <2> QED BY <1>2, <2>1, <2>2, <2>3, <2>4, <2>5, <2>6
<1> HIDE DEF gone
<1>8. lastRun' \in Time \cup {None} /\ lock' \in Callers \cup {None}
  BY <1>1, <1>2 DEF RetentionTypeOK
<1> QED BY <1>1, <1>2, <1>4, <1>6, <1>7, <1>8, CallerStep

LEMMA CommitTables == ASSUME TablesInv, NEW c \in Callers, Commit(c) PROVE TablesInv'
<1>0. PICK q : q = cleaners[c]
  OBVIOUS
<1>1. /\ q.pc = "cleaning" /\ q.target > Len(Targets) /\ lock' = None
      /\ latest' = [t \in Tasks |-> IF t \in q.gone.latest THEN None ELSE latest[t]]
      /\ events' = [t \in Tasks |-> events[t] \ q.gone.events[t]]
      /\ actions' = [a \in Actions |->
                       IF a \in q.gone.actions THEN None
                       ELSE IF actions[a] = None THEN None
                       ELSE [actions[a] EXCEPT !.items = @ \ q.gone.items[a]]]
      /\ UNCHANGED <<clock, lastRun>>
      /\ runs' = IF c = "scheduler"
                   THEN [s \in Slots |-> IF s \in q.slots THEN runs[s] + 1 ELSE runs[s]]
                   ELSE runs
  BY <1>0 DEF Commit
<1>2. PICK r : /\ r = Idle \/ r = [Idle EXCEPT !.pc = "cleaned"]
               /\ cleaners' = [cleaners EXCEPT ![c] = r]
  BY <1>0 DEF Commit
<1>3. r \in Cleaner /\ r.pc # "cleaning" /\ r.gone = Nothing
  BY <1>2, Ended, IdleType
<1>4. \A d \in Callers : cleaners'[d] = IF d = c THEN r ELSE cleaners[d]
  BY <1>2 DEF TablesInv, RetentionTypeOK
<1>5. q \in Cleaner /\ lock = c /\ EventsGone(q) /\ SnapshotsGone(q) /\ q.target > 4
  <2>1. Len(Targets) = 6
    BY DEF Targets
  <2>2. q \in Cleaner /\ q.target \in Nat
    BY <1>0, <2>1 DEF TablesInv, RetentionTypeOK, Cleaner
  <2>3. CleanerOK(q) /\ lock = c
    BY <1>0, <1>1 DEF TablesInv, RetentionTypeOK, CleanupInv
  <2> QED BY <1>1, <2>1, <2>2, <2>3 DEF CleanerOK
<1>6. \A d \in Callers : cleaners'[d].pc # "cleaning" /\ cleaners'[d].gone = Nothing
  BY <1>3, <1>4, <1>5 DEF TablesInv, RetentionTypeOK, CleanupInv, CleanerOK
<1>7. RetentionTypeOK'
  <2>1. latest' \in [Tasks -> Snapshot \cup {None}] /\ events' \in [Tasks -> SUBSET Time]
    BY <1>1 DEF TablesInv, RetentionTypeOK
  <2>2. actions' \in [Actions -> Action \cup {None}]
    <3>1. ASSUME NEW a \in Actions, actions[a] # None
          PROVE  [actions[a] EXCEPT !.items = actions[a].items \ q.gone.items[a]] \in Action
      BY <3>1 DEF TablesInv, RetentionTypeOK, Action
    <3> QED BY <1>1, <3>1
  <2>3. runs' \in [Slots -> Nat]
    BY <1>1 DEF TablesInv, RetentionTypeOK
  <2>4. cleaners' \in [Callers -> Cleaner]
    BY <1>2, <1>3 DEF TablesInv, RetentionTypeOK
  <2> QED BY <1>1, <1>6, <2>1, <2>2, <2>3, <2>4, NoneAssumption DEF TablesInv, RetentionTypeOK
<1>8. TimesInv'
  BY <1>1 DEF TablesInv, TimesInv
<1>9. TasksGoWhole'
  <2> SUFFICES ASSUME NEW t \in Tasks
               PROVE  IF latest'[t] = None THEN events'[t] = {} ELSE latest'[t].at \in events'[t]
    BY DEF TasksGoWhole
  <2>1. events'[t] = events[t] \ q.gone.events[t]
    BY <1>1
  <2>2. CASE t \in q.gone.latest
    BY <1>1, <1>5, <2>1, <2>2 DEF SnapshotsGone
  <2>3. CASE t \notin q.gone.latest
    <3>1. latest'[t] = latest[t]
      BY <1>1, <2>3
    <3>2. latest[t] # None => latest[t].at \notin q.gone.events[t]
      <4>1. q.target \in Nat
        BY <1>5 DEF Cleaner, Targets
      <4> QED BY <1>5, <2>3, <4>1 DEF SnapshotsGone
    <3> QED BY <2>1, <3>1, <3>2 DEF TablesInv, TasksGoWhole
  <2> QED BY <2>2, <2>3
<1>10. CleanupInv'
  BY <1>6 DEF CleanupInv, CleanerOK
<1> QED BY <1>7, <1>8, <1>9, <1>10 DEF TablesInv

-----------------------------------------------------------------------------
(* The schedule.                                                           *)

\* A step that counts no run and after which the scheduler is for no slot, or as before.
LEMMA SlotsKept ==
  ASSUME RetentionInv, UNCHANGED runs, lastRun' = lastRun \/ lastRun' = clock,
         clock' \in Nat, clock <= clock',
         LET o == cleaners["scheduler"]  q == cleaners'["scheduler"]
         IN  \/ q.pc \notin {"due", "recorded", "cleaning"}
             \/ q.slots = o.slots /\ q.pc = "due" /\ o.pc = "due"
             \/ q.slots = o.slots /\ o.pc \in {"recorded", "cleaning"}
             \/ q.slots = o.slots /\ o.pc = "due" /\ lastRun' = clock
  PROVE  SlotsInv'
<1>1. RetentionTypeOK /\ SlotsInv
  BY DEF RetentionInv, TablesInv
<1>2. /\ clock \in Nat /\ clock # None
      /\ lastRun # None => lastRun \in Nat
      /\ \A s \in Slots : s \in Nat
  BY NoneAssumption, TimeAssumption DEF RetentionInv, TablesInv, RetentionTypeOK, Time
<1>3. \A s \in Slots : After(s) => After(s)'
  BY <1>1, <1>2 DEF SlotsInv, After
<1>4. lastRun' # None => lastRun' <= clock'
  BY <1>1, <1>2 DEF SlotsInv
<1>5. \A s \in Slots : s <= clock /\ lastRun' = clock => After(s)'
  BY <1>2 DEF After
<1> DEFINE o == cleaners["scheduler"]  q == cleaners'["scheduler"]
<1>6. ASSUME NEW s \in Slots, s \in q.slots, q.pc \in {"due", "recorded", "cleaning"}
      PROVE  s <= clock' /\ runs[s] = 0 /\ (q.pc # "due" => After(s)')
  <2>1. s \in o.slots /\ o.pc \in {"due", "recorded", "cleaning"}
    BY <1>6
  <2>2. s <= clock /\ runs[s] = 0 /\ (o.pc # "due" => After(s))
    BY <1>1, <2>1 DEF SlotsInv
  <2>3. s <= clock'
    BY <1>2, <2>2
  <2>4. q.pc # "due" => After(s)'
    BY <1>3, <1>5, <1>6, <2>2
  <2> QED BY <2>2, <2>3, <2>4
<1>7. \A s \in Slots : runs'[s] <= 1 /\ (runs'[s] # 0 => After(s)')
  BY <1>1, <1>3 DEF SlotsInv
<1> QED BY <1>4, <1>6, <1>7 DEF SlotsInv

LEMMA SlotsStep == RetentionInv /\ [Next]_retentionVars => SlotsInv'
<1> SUFFICES ASSUME RetentionInv, [Next]_retentionVars PROVE SlotsInv' OBVIOUS
<1>0. /\ RetentionTypeOK /\ SlotsInv /\ clock \in Nat /\ clock # None
      /\ lastRun # None => lastRun \in Nat
      /\ "scheduler" \in Callers /\ cleaners["scheduler"] \in Cleaner
      /\ \A s \in Slots : s \in Nat
  BY NoneAssumption, TimeAssumption
  DEF RetentionInv, TablesInv, RetentionTypeOK, Time, Callers
<1>1. ASSUME UNCHANGED <<clock, lastRun, runs>>,
             \/ UNCHANGED cleaners["scheduler"]
             \/ cleaners'["scheduler"].pc \notin {"due", "recorded", "cleaning"}
      PROVE  SlotsInv'
  BY <1>0, <1>1 DEF SlotsInv, After
<1>2. CASE Others \/ UNCHANGED retentionVars
  <2>1. UNCHANGED <<lastRun, runs, cleaners>> /\ clock' \in Nat /\ clock <= clock'
    BY <1>0, <1>2 DEF Others, SaveEvent, SaveAction, Tick, tableVars, retentionVars
  <2> QED BY <1>0, <2>1 DEF SlotsInv, After
<1>3. CASE Request
  <2>1. UNCHANGED <<clock, lastRun, runs>> /\ UNCHANGED cleaners["scheduler"]
    BY <1>0, <1>3 DEF Request, Acquire, RetentionTypeOK
  <2> QED BY <1>1, <2>1
<1>4. CASE Poll
  <2> DEFINE o == cleaners["scheduler"]
             q == [o EXCEPT !.pc = "due", !.slots = DueSlots]
  <2>1. UNCHANGED <<clock, lastRun, runs>> /\ cleaners' = [cleaners EXCEPT !["scheduler"] = q]
    BY <1>4 DEF Poll
  <2>2. q.pc = "due" /\ q.slots = DueSlots
    BY <1>0 DEF Cleaner
  <2> HIDE DEF q
  <2>3. cleaners'["scheduler"] = q
    BY <1>0, <2>1 DEF RetentionTypeOK
  <2>4. ASSUME NEW s \in DueSlots PROVE s \in Slots /\ s <= clock /\ runs[s] = 0
    <3>1. s \in Slots /\ s <= clock /\ ~After(s)
      BY <1>0 DEF DueSlots, After
    <3> QED BY <1>0, <3>1 DEF SlotsInv
  <2> QED BY <1>0, <2>1, <2>2, <2>3, <2>4 DEF SlotsInv, After
<1>5. ASSUME NEW q, cleaners' = [cleaners EXCEPT !["scheduler"] = q], UNCHANGED <<clock, runs>>,
             lastRun' = lastRun \/ lastRun' = clock,
             \/ q.pc \notin {"due", "recorded", "cleaning"}
             \/ /\ q.slots = cleaners["scheduler"].slots
                /\ \/ cleaners["scheduler"].pc \in {"recorded", "cleaning"}
                   \/ cleaners["scheduler"].pc = "due" /\ lastRun' = clock
      PROVE  SlotsInv'
  <2>1. cleaners'["scheduler"] = q
    BY <1>0, <1>5 DEF RetentionTypeOK
  <2>2. clock' \in Nat /\ clock <= clock'
    BY <1>0, <1>5
  <2> QED BY <1>5, <2>1, <2>2, SlotsKept
<1>6. CASE RecordStart
  <2>1. UNCHANGED <<clock, runs>> /\ cleaners["scheduler"].pc = "due"
    BY <1>6 DEF RecordStart
  <2>2. PICK q : /\ cleaners' = [cleaners EXCEPT !["scheduler"] = q]
                 /\ \/ q = [cleaners["scheduler"] EXCEPT !.pc = "recorded"] /\ lastRun' = clock
                    \/ q = [cleaners["scheduler"] EXCEPT !.pc = "failed"] /\ lastRun' = lastRun
    BY <1>6 DEF RecordStart, SetLastRun
  <2>3. \/ q.slots = cleaners["scheduler"].slots /\ lastRun' = clock
        \/ q.pc = "failed" /\ lastRun' = lastRun
    BY <1>0, <2>2 DEF Cleaner
  <2> QED BY <1>5, <2>1, <2>2, <2>3
<1>7. CASE Begin
  <2>1. UNCHANGED <<clock, runs, lastRun>> /\ cleaners["scheduler"].pc = "recorded"
    BY <1>7 DEF Begin
  <2>2. PICK q : /\ cleaners' = [cleaners EXCEPT !["scheduler"] = q]
                 /\ \/ q.slots = cleaners["scheduler"].slots
                    \/ q.pc = "failed"
    <3>1. CASE Acquire("scheduler")
      <4>1. PICK policy \in Policies :
              cleaners' = [cleaners EXCEPT !["scheduler"] =
                             [cleaners["scheduler"] EXCEPT !.pc = "cleaning", !.target = 1,
                                !.gone = Nothing, !.started = clock,
                                !.days = [k \in Keys |-> Bounded(policy[k])]]]
        BY <3>1 DEF Acquire
      <4> DEFINE days == [k \in Keys |-> Bounded(policy[k])]  o == cleaners["scheduler"]
                 r == [o EXCEPT !.pc = "cleaning", !.target = 1, !.gone = Nothing,
                                !.started = clock, !.days = days]
      <4>2. cleaners' = [cleaners EXCEPT !["scheduler"] = r]
        BY <4>1
      <4>3. o \in Cleaner
        BY <1>0
      <4> HIDE DEF days, o
      <4>4. r.slots = o.slots
        BY <4>3 DEF Cleaner
      <4> HIDE DEF r
      <4> QED BY <4>2, <4>4 DEF o
    <3>2. CASE cleaners' = [cleaners EXCEPT !["scheduler"].pc = "failed"]
      <4>1. PICK q : q = [cleaners["scheduler"] EXCEPT !.pc = "failed"]
        OBVIOUS
      <4>2. q.pc = "failed"
        BY <1>0, <4>1 DEF Cleaner
      <4>3. cleaners' = [cleaners EXCEPT !["scheduler"] = q]
        BY <3>2, <4>1
      <4> QED BY <4>2, <4>3
    <3> QED BY <1>7, <3>1, <3>2 DEF Begin
  <2> QED BY <1>5, <2>1, <2>2
<1>8. CASE RecordSuccess
  <2>1. UNCHANGED <<clock, runs>>
    BY <1>8 DEF RecordSuccess
  <2>2. PICK q : /\ cleaners' = [cleaners EXCEPT !["scheduler"] = q]
                 /\ q = Idle \/ q = [cleaners["scheduler"] EXCEPT !.pc = "failed"]
                 /\ lastRun' = clock \/ lastRun' = lastRun
    BY <1>8 DEF RecordSuccess, SetLastRun
  <2>3. q.pc \notin {"due", "recorded", "cleaning"}
    BY <1>0, <2>2, IdleType DEF Cleaner
  <2> QED BY <1>5, <2>1, <2>2, <2>3
<1>9. CASE RecordError
  <2>1. /\ UNCHANGED <<clock, runs>>
        /\ lastRun' = clock \/ lastRun' = lastRun
        /\ cleaners' = [cleaners EXCEPT !["scheduler"] = Idle]
    BY <1>9 DEF RecordError, SetLastRun
  <2>2. PICK q : q = Idle
    OBVIOUS
  <2>3. q.pc = "idle"
    BY <2>2, IdleType
  <2>4. cleaners' = [cleaners EXCEPT !["scheduler"] = q]
    BY <2>1, <2>2
  <2> QED BY <1>5, <2>1, <2>3, <2>4
<1>10. CASE Restart
  <2>1. UNCHANGED <<clock, lastRun, runs>> /\ cleaners'["scheduler"] = Idle
    BY <1>0, <1>10 DEF Restart
  <2> QED BY <1>1, <2>1, IdleType
<1>11. ASSUME NEW c \in Callers, Apply(c) PROVE SlotsInv'
  <2>1. UNCHANGED <<clock, lastRun, runs>>
    BY <1>11 DEF Apply
  <2>2. PICK q : /\ q = [cleaners[c] EXCEPT !.gone = AfterTarget(cleaners[c], Targets[cleaners[c].target]),
                                            !.target = cleaners[c].target + 1]
                 /\ cleaners' = [cleaners EXCEPT ![c] = q]
    BY <1>0, <1>11 DEF Apply, RetentionTypeOK
  <2>3. cleaners[c] \in Cleaner /\ cleaners[c].pc = "cleaning"
    BY <1>0, <1>11 DEF Apply, RetentionTypeOK
  <2>4. q.slots = cleaners[c].slots
    BY <2>2, <2>3 DEF Cleaner
  <2>5. CASE c = "scheduler"
    BY <1>5, <2>1, <2>2, <2>3, <2>4, <2>5
  <2>6. CASE c # "scheduler"
    <3>1. UNCHANGED cleaners["scheduler"]
      BY <1>0, <2>2, <2>6 DEF RetentionTypeOK
    <3> QED BY <1>1, <2>1, <3>1
  <2> QED BY <2>5, <2>6
<1>12. ASSUME NEW c \in Callers, Commit(c) PROVE SlotsInv'
  <2>1. UNCHANGED <<clock, lastRun>> /\ cleaners[c].pc = "cleaning"
    BY <1>12 DEF Commit
  <2>2. PICK q : /\ cleaners' = [cleaners EXCEPT ![c] = q]
                 /\ q = Idle \/ q = [Idle EXCEPT !.pc = "cleaned"]
    BY <1>12 DEF Commit
  <2>3. q.pc \notin {"due", "recorded", "cleaning"}
    BY <2>2, Ended, IdleType
  <2>4. CASE c = "scheduler"
    <3>1. /\ cleaners'["scheduler"] = q
          /\ \A s \in Slots : runs'[s] = IF s \in cleaners["scheduler"].slots
                                           THEN runs[s] + 1 ELSE runs[s]
      BY <1>0, <1>12, <2>2, <2>4 DEF Commit, RetentionTypeOK
    <3>2. \A s \in cleaners["scheduler"].slots \cap Slots : runs[s] = 0 /\ After(s)
      BY <1>0, <2>1, <2>4 DEF SlotsInv
    <3>3. \A s \in Slots : After(s)' <=> After(s)
      BY <2>1 DEF After
    <3>4. ASSUME NEW s \in Slots PROVE runs'[s] <= 1 /\ (runs'[s] # 0 => After(s)')
      <4>1. CASE s \in cleaners["scheduler"].slots
        BY <3>1, <3>2, <3>3, <4>1
      <4>2. CASE s \notin cleaners["scheduler"].slots
        BY <1>0, <3>1, <3>3, <4>2 DEF SlotsInv
      <4> QED BY <4>1, <4>2
    <3> QED BY <1>0, <2>1, <2>3, <3>1, <3>4 DEF SlotsInv
  <2>5. CASE c # "scheduler"
    <3>1. UNCHANGED runs /\ UNCHANGED cleaners["scheduler"]
      BY <1>0, <1>12, <2>2, <2>5 DEF Commit, RetentionTypeOK
    <3> QED BY <1>1, <2>1, <3>1
  <2> QED BY <2>4, <2>5
<1>13. ASSUME NEW c \in Callers, Abort(c) PROVE SlotsInv'
  <2>1. UNCHANGED <<clock, lastRun, runs>>
    BY <1>13 DEF Abort
  <2>2. PICK q : /\ cleaners' = [cleaners EXCEPT ![c] = q]
                 /\ q = Idle \/ q = [Idle EXCEPT !.pc = "failed"]
    BY <1>13 DEF Abort
  <2>3. q.pc \notin {"due", "recorded", "cleaning"}
    BY <2>2, Ended, IdleType
  <2>4. cleaners'["scheduler"] = IF c = "scheduler" THEN q ELSE cleaners["scheduler"]
    BY <1>0, <2>2 DEF RetentionTypeOK
  <2> QED BY <1>1, <2>1, <2>3, <2>4
<1> QED
  BY <1>2, <1>3, <1>4, <1>6, <1>7, <1>8, <1>9, <1>10, <1>11, <1>12, <1>13 DEF Next

-----------------------------------------------------------------------------
LEMMA InvInit == Init => RetentionInv
<1> SUFFICES ASSUME Init PROVE RetentionInv OBVIOUS
<1>1. RetentionTypeOK
  <2>1. 0 \in Time
    BY TimeAssumption DEF Time
  <2>2. \A c \in Callers : cleaners[c].pc # "cleaning" /\ lock # c
    BY IdleType, NoneAssumption DEF Init
  <2> QED BY <2>1, <2>2, IdleType DEF Init, RetentionTypeOK
<1>2. TimesInv /\ TasksGoWhole
  BY DEF Init, TimesInv, TasksGoWhole
<1>3. CleanupInv
  BY IdleType DEF Init, CleanupInv, CleanerOK
<1>4. SlotsInv
  BY IdleType DEF Init, SlotsInv, Callers
<1> QED BY <1>1, <1>2, <1>3, <1>4 DEF RetentionInv, TablesInv

LEMMA InvNext == RetentionInv /\ [Next]_retentionVars => RetentionInv'
<1> SUFFICES ASSUME RetentionInv, [Next]_retentionVars PROVE TablesInv'
  BY SlotsStep DEF RetentionInv
<1>0. TablesInv
  BY DEF RetentionInv
<1>1. CASE Others
  <2>1. ASSUME NEW t \in Tasks, NEW good \in BOOLEAN, SaveEvent(t, good) PROVE TablesInv'
    BY <1>0, <2>1, SaveEventTables
  <2>2. ASSUME NEW a \in Actions, NEW i \in Item, SaveAction(a, {i}) PROVE TablesInv'
    BY <1>0, <2>2, SaveActionTables
  <2> QED BY <1>0, <1>1, <2>1, <2>2, TickTables DEF Others
<1>2. CASE Request
  BY <1>0, <1>2, AcquireStep DEF Request, Callers
<1>3. CASE UNCHANGED retentionVars
  <2>1. UNCHANGED <<clock, latest, events, actions, lastRun, lock, cleaners, runs>>
    BY <1>3 DEF retentionVars
  <2>2. RetentionTypeOK' /\ TimesInv' /\ TasksGoWhole'
    BY <1>0, <2>1 DEF TablesInv, RetentionTypeOK, TimesInv, TasksGoWhole
  <2>3. ASSUME NEW c \in Callers, NEW q, q = cleaners[c] PROVE CleanerOK(q)'
    <3>1. CleanerOK(q) /\ UNCHANGED <<clock, tableVars>>
      BY <1>0, <2>1, <2>3 DEF TablesInv, CleanupInv, tableVars
    <3> QED BY <3>1, CleanerSame
  <2>4. CleanupInv'
    BY <2>1, <2>3, OtherCleaners
  <2> QED BY <2>2, <2>4 DEF TablesInv
<1>4. ASSUME NEW c \in Callers, Apply(c) \/ Commit(c) \/ Abort(c) PROVE TablesInv'
  BY <1>0, <1>4, ApplyTables, CommitTables, AbortTables
<1> QED
  BY <1>0, <1>1, <1>2, <1>3, <1>4, PollTables, RecordStartTables, BeginTables,
     RecordSuccessTables, RecordErrorTables, RestartTables
  DEF Next

LEMMA InvHolds == RetentionSpec => []RetentionInv
  BY InvInit, InvNext, PTL DEF RetentionSpec

\* The tables and what a cleanup has deleted of them have their types in every reachable
\* state, and the lock is held by the one cleanup that runs.
THEOREM RetentionTypeCorrect == RetentionSpec => []RetentionTypeOK
<1>1. RetentionInv => RetentionTypeOK
  BY DEF RetentionInv, TablesInv
<1> QED BY <1>1, InvHolds, PTL

\* No cleanup leaves events of a task without its snapshot, or a snapshot without the
\* event it shows.
THEOREM TasksAlwaysWhole == RetentionSpec => []TasksGoWhole
<1>1. RetentionInv => TasksGoWhole
  BY DEF RetentionInv, TablesInv
<1> QED BY <1>1, InvHolds, PTL

\* The scheduler commits at most one cleanup for each time of its schedule.
THEOREM AlwaysOncePerSlot == RetentionSpec => []RunsOncePerSlot
<1>1. RetentionInv => RunsOncePerSlot
  BY DEF RetentionInv, SlotsInv, RunsOncePerSlot
<1> QED BY <1>1, InvHolds, PTL

\* A snapshot or an event goes only when it is old, and the history of an action stays while one of
\* its tasks does, if that is older than the cleanup.
THEOREM HistoryAlwaysKept == RetentionSpec => HistoryIsKept
<1> DEFINE Kept ==
      /\ \A t \in Tasks :
           /\ latest[t] # None /\ latest'[t] = None => latest[t].at + 1 < clock
           /\ \A at \in events[t] \ events'[t] : at + 1 < clock
      /\ \A a \in Actions : actions[a] # None =>
           \A i \in actions[a].items :
             (\E t \in {i.original, i.rerun} \cap Tasks :
                /\ latest[t] # None /\ latest'[t] # None
                /\ \A c \in Callers : cleaners[c].pc = "cleaning"
                                       => latest[t].at < cleaners[c].started)
               => actions'[a] # None /\ i \in actions'[a].items
<1>1. ASSUME RetentionInv, [Next]_retentionVars PROVE [Kept]_retentionVars
  <2>0. RetentionTypeOK
    BY <1>1 DEF RetentionInv, TablesInv
  <2>1. ASSUME UNCHANGED <<latest, events, actions>> PROVE Kept
    BY <2>1
  <2>2. ASSUME NEW t \in Tasks, NEW good \in BOOLEAN, SaveEvent(t, good) PROVE Kept
    <3>1. UNCHANGED actions /\ latest' = [latest EXCEPT ![t] = [at |-> clock, good |-> good]]
      BY <2>2 DEF SaveEvent
    <3>2. [at |-> clock, good |-> good] # None
      BY <2>0, NoneAssumption DEF RetentionTypeOK, Snapshot
    <3>3. \A u \in Tasks : latest[u] # None => latest'[u] # None
      BY <2>0, <3>1, <3>2 DEF RetentionTypeOK
    <3>4. \A u \in Tasks : events[u] \subseteq events'[u]
      BY <2>0, <2>2 DEF SaveEvent, RetentionTypeOK
    <3> QED BY <3>1, <3>3, <3>4
  <2>3. ASSUME NEW a \in Actions, NEW i \in Item, SaveAction(a, {i}) PROVE Kept
    <3>1. /\ UNCHANGED <<latest, events>> /\ actions[a] = None
          /\ actions' = [actions EXCEPT ![a] = [at |-> clock, items |-> {i}]]
      BY <2>3 DEF SaveAction
    <3>2. \A b \in Actions : actions[b] # None => actions'[b] = actions[b]
      BY <2>0, <3>1 DEF RetentionTypeOK
    <3> QED BY <3>1, <3>2
  <2>4. ASSUME NEW c \in Callers, Commit(c) PROVE Kept
    <3>0. PICK q : q = cleaners[c]
      OBVIOUS
    <3>1. /\ q.pc = "cleaning" /\ q \in Cleaner
          /\ latest' = [t \in Tasks |-> IF t \in q.gone.latest THEN None ELSE latest[t]]
          /\ events' = [t \in Tasks |-> events[t] \ q.gone.events[t]]
          /\ actions' = [a \in Actions |->
                           IF a \in q.gone.actions THEN None
                           ELSE IF actions[a] = None THEN None
                           ELSE [actions[a] EXCEPT !.items = @ \ q.gone.items[a]]]
      BY <2>0, <2>4, <3>0 DEF Commit, RetentionTypeOK
    <3>2. /\ q.started <= clock /\ q.started \in Nat /\ clock \in Nat
          /\ EventsGone(q) /\ SnapshotsGone(q) /\ HistoryGone(q)
      BY <1>1, <2>0, <3>0, <3>1, TimeAssumption
      DEF RetentionInv, TablesInv, CleanupInv, CleanerOK, RetentionTypeOK, Cleaner, Time
    <3>3. ASSUME NEW t \in Tasks, latest[t] # None, latest'[t] = None
          PROVE  latest[t].at + 1 < clock
      <4>1. latest[t].at + 1 < q.started /\ latest[t].at \in Nat
        BY <2>0, <3>1, <3>2, <3>3, TimeAssumption DEF SnapshotsGone, RetentionTypeOK, Snapshot, Time
      <4> QED BY <3>2, <4>1
    <3>4. ASSUME NEW t \in Tasks, NEW at \in events[t] \ events'[t]
          PROVE  at + 1 < clock
      <4>1. at \in q.gone.events[t]
        BY <3>1
      <4>2. at + 1 < q.started /\ at \in Nat
        BY <2>0, <3>2, <4>1, TimeAssumption DEF EventsGone, RetentionTypeOK, Time
      <4> QED BY <3>2, <4>2
    <3>5. ASSUME NEW a \in Actions, actions[a] # None, NEW i \in actions[a].items,
                 NEW t \in {i.original, i.rerun} \cap Tasks,
                 latest[t] # None, latest'[t] # None, latest[t].at < q.started
          PROVE  actions'[a] # None /\ i \in actions'[a].items
      <4>1. t \notin q.gone.latest /\ latest[t].at \in Nat
        BY <2>0, <3>1, <3>5, TimeAssumption DEF RetentionTypeOK, Snapshot, Time
      <4>2. i \notin q.gone.items[a]
        BY <3>2, <3>5, <4>1 DEF HistoryGone
      <4>3. a \notin q.gone.actions
        BY <3>2, <3>5, <4>2 DEF HistoryGone
      <4>4. actions'[a] = [actions[a] EXCEPT !.items = actions[a].items \ q.gone.items[a]]
        BY <3>1, <3>5, <4>3
      <4>5. actions[a] \in Action
        BY <2>0, <3>5 DEF RetentionTypeOK
      <4>6. actions'[a] \in Action /\ i \in actions'[a].items
        BY <3>5, <4>2, <4>4, <4>5 DEF Action
      <4> QED BY <4>6, NoneAssumption
    <3> QED BY <3>0, <3>1, <3>3, <3>4, <3>5
  <2>5. CASE Others
    <3>1. CASE Tick
      BY <2>1, <3>1 DEF Tick, tableVars
    <3> QED BY <2>2, <2>3, <2>5, <3>1 DEF Others
  <2>6. CASE Next /\ ~Others /\ ~(\E c \in Callers : Commit(c))
    <3>1. UNCHANGED tableVars
      BY <2>6 DEF Next, Request, Poll, RecordStart, Begin, RecordSuccess, RecordError, Restart,
                  Apply, Abort
    <3> QED BY <2>1, <3>1 DEF tableVars
  <2> QED BY <1>1, <2>4, <2>5, <2>6
<1>2. RetentionInv /\ [Next]_retentionVars => [Kept]_retentionVars
  BY <1>1
<1>3. RetentionSpec => [][Kept]_retentionVars
  BY <1>2, InvHolds, PTL DEF RetentionSpec
<1> QED BY <1>3 DEF HistoryIsKept
=============================================================================
