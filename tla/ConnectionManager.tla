-------------------------- MODULE ConnectionManager --------------------------
(***************************************************************************)
(* Live updates over WebSocket (src/agent/connection_manager.py and the    *)
(* /ws endpoint).  Every client has a coroutine that serves it; one more,  *)
(* the broadcaster, takes events off a queue that other threads fill, and  *)
(* sends each to the registered clients.  All of them share one event      *)
(* loop: a step runs from one await to the next, and while the broadcaster *)
(* waits for a client to take an event, clients come and go in the list it *)
(* is iterating over.                                                      *)
(*                                                                         *)
(* A client is one socket: who connects again is a new one, and has the    *)
(* next number.  What a handler answers only matters where it fails.       *)
(***************************************************************************)
EXTENDS Integers, Sequences, FiniteSets

CONSTANTS
    MaxClients, \* bound: sockets, numbered as they connect
    Topics,     \* what filters tell apart: event types and task names
    Filters,    \* filters a client may subscribe with; the empty one lets all pass
    None,       \* no entry; also the topic of events that no filter applies to
    MaxEvents,  \* bound: events queued
    MaxRequests \* bound: subscriptions, changes of mode and failing answers

Clients == 1..MaxClients

ASSUME LiveAssumption ==
    /\ MaxClients \in Nat
    /\ Filters \subseteq SUBSET Topics
    /\ None \notin Topics /\ None \notin Filters \cup {{}}
    /\ None \notin {"live", "static"}
    /\ MaxEvents \in Nat /\ MaxRequests \in Nat

VARIABLES
    active,     \* active_connections, in the order of the list
    filters,    \* client_filters
    modes,      \* client_modes
    queue,      \* message_queue
    cast,       \* the broadcaster
    handler,    \* by client: its coroutine
    open,       \* clients whose socket is open
    queued,     \* events queued so far
    requests,   \* subscriptions, changes of mode and failing answers so far
    got,        \* history: by client, the events it was sent
    passed,     \* history: clients the current broadcast has dealt with
    left        \* history: clients behind the iterator that left it by themselves

clientVars == <<handler, open, requests>>
registry   == <<active, filters, modes>>
history    == <<got, passed, left>>
liveVars   == <<registry, queue, cast, clientVars, queued, history>>

Event == [no : 1..MaxEvents, topic : Topics \cup {None}]

\* The broadcaster: the event, the position of the list iterator, and the
\* clients to whom sending failed.
Idle == [pc |-> "idle", event |-> None, at |-> 0, failed |-> {}]
Off  == [Idle EXCEPT !.pc = "off"]

Init ==
    /\ active = <<>>
    /\ filters = [c \in Clients |-> None]
    /\ modes = [c \in Clients |-> None]
    /\ queue = <<>>
    /\ cast = Off
    /\ handler = [c \in Clients |-> "none"]
    /\ open = {}
    /\ queued = 0
    /\ requests = 0
    /\ got = [c \in Clients |-> <<>>]
    /\ passed = {}
    /\ left = 0

Registered == {active[i] : i \in DOMAIN active}

-----------------------------------------------------------------------------
(* The registry. *)

MutRegister(c) ==
    /\ active' = <<c>> \o active
    /\ filters' = [filters EXCEPT ![c] = {}]
    /\ modes' = [modes EXCEPT ![c] = "live"]

Register(c) ==
    /\ active' = Append(active, c)
    /\ filters' = [filters EXCEPT ![c] = {}]
    /\ modes' = [modes EXCEPT ![c] = "live"]

\* The list without some clients, the others in their order.
Without(list, cs) ==
    LET kept == {i \in DOMAIN list : list[i] \notin cs}
    IN  [k \in 1..Cardinality(kept) |->
           list[CHOOSE i \in kept : Cardinality({j \in kept : j <= i}) = k]]

\* disconnect, of each client in a set.
Unregister(cs) ==
    /\ active' = Without(active, cs)
    /\ filters' = [c \in Clients |-> IF c \in cs THEN None ELSE filters[c]]
    /\ modes' = [c \in Clients |-> IF c \in cs THEN None ELSE modes[c]]

-----------------------------------------------------------------------------
(* Clients and their handlers. *)

\* The first client starts the broadcaster, which runs ever after.
Connect(c) ==
    /\ handler[c] = "none" /\ \A d \in 1..(c - 1) : handler[d] # "none"
    /\ Register(c)
    /\ cast' = IF Len(active') = 1 /\ cast.pc = "off" THEN Idle ELSE cast
    /\ handler' = [handler EXCEPT ![c] = "serving"]
    /\ open' = open \cup {c}
    /\ UNCHANGED <<queue, queued, requests, history>>

\* The handler unregisters its client, maybe in the middle of a broadcast.
Leaves(c) ==
    /\ Unregister({c})
    /\ left' = left + Cardinality({i \in DOMAIN active : active[i] = c /\ i < cast.at})
    /\ UNCHANGED <<got, passed>>

Request(c) ==
    /\ handler[c] = "serving"
    /\ requests < MaxRequests
    /\ requests' = requests + 1
    /\ UNCHANGED <<queue, cast, handler, open, queued>>

\* Messages received before the socket closed are still handled.  What they set
\* is set for a client that the broadcaster has unregistered, too.
Subscribe(c, f) ==
    /\ Request(c)
    /\ filters' = [filters EXCEPT ![c] = f]
    /\ UNCHANGED <<active, modes, history>>

SetMode(c, mode) ==
    /\ Request(c)
    /\ modes' = [modes EXCEPT ![c] = mode]
    /\ UNCHANGED <<active, filters, history>>

\* send_personal_message: the welcome, or the answer to any message, may fail
\* when the socket is closed.  The client is unregistered, what the message has
\* just set goes with it, and the handler goes on to receive.
AnswerFails(c) ==
    /\ c \notin open
    /\ Request(c)
    /\ Leaves(c)

\* The socket closes, which nobody has noticed yet.
Close(c) ==
    /\ c \in open
    /\ open' = open \ {c}
    /\ UNCHANGED <<registry, queue, cast, handler, queued, requests, history>>

MutDisconnected(c) ==
    /\ handler[c] = "serving"
    /\ c \notin open
    /\ handler' = [handler EXCEPT ![c] = "ended"]
    /\ UNCHANGED <<registry, queue, cast, open, queued, requests, history>>

\* receive_text raises WebSocketDisconnect.
Disconnected(c) ==
    /\ handler[c] = "serving"
    /\ c \notin open
    /\ Leaves(c)
    /\ handler' = [handler EXCEPT ![c] = "ended"]
    /\ UNCHANGED <<queue, cast, open, queued, requests>>

\* Any other exception, such as a failing query for stored events, ends the
\* handler, and the server closes the socket; the client stays registered.
Crash(c) ==
    /\ handler[c] = "serving"
    /\ handler' = [handler EXCEPT ![c] = "crashed"]
    /\ open' = open \ {c}
    /\ UNCHANGED <<registry, queue, cast, queued, requests, history>>

-----------------------------------------------------------------------------
(* The producers' threads and the broadcaster. *)

\* _queue_event drops what nobody is there to receive.
QueueEvent(topic) ==
    /\ queued < MaxEvents
    /\ active # <<>> /\ cast.pc # "off"
    /\ queued' = queued + 1
    /\ queue' = Append(queue, [no |-> queued', topic |-> topic])
    /\ UNCHANGED <<registry, cast, clientVars, history>>

Take ==
    /\ cast.pc = "idle"
    /\ queue # <<>>
    /\ queue' = Tail(queue)
    /\ cast' = IF active = <<>> THEN cast
               ELSE [pc |-> "each", event |-> Head(queue), at |-> 1, failed |-> {}]
    /\ UNCHANGED <<registry, clientVars, queued, history>>

\* The mode and, for task and progress events, the filters of a client.
Wants(c, event) ==
    /\ modes[c] \in {"live", None}
    /\ \/ event.topic = None
       \/ filters[c] \in {{}, None}
       \/ event.topic \in filters[c]

Takers == {i \in cast.at..Len(active) : Wants(active[i], cast.event)}
NextTaker == CHOOSE i \in Takers : \A j \in Takers : i <= j

\* All clients up to the i-th have been dealt with.
PassUpTo(i) == passed' = passed \cup {active[j] : j \in cast.at..i}

\* The iterator goes on to the next client that wants the event, who is sent it,
\* and the broadcaster awaits the sending.  A closed socket may still swallow
\* the event.
Send ==
    /\ cast.pc = "each"
    /\ Takers # {}
    /\ got' = [got EXCEPT ![active[NextTaker]] = Append(@, cast.event.no)]
    /\ cast' = [cast EXCEPT !.at = NextTaker + 1]
    /\ PassUpTo(NextTaker)
    /\ UNCHANGED <<registry, queue, clientVars, queued, left>>

MutSendFails ==
    /\ cast.pc = "each"
    /\ Takers # {}
    /\ cast' = [cast EXCEPT !.at = NextTaker + 1]
    /\ PassUpTo(NextTaker)
    /\ Unregister({active[NextTaker]})
    /\ UNCHANGED <<queue, clientVars, queued, got, left>>

MutSendRaises ==
    /\ cast.pc = "each"
    /\ Takers # {}
    /\ cast' = Off
    /\ passed' = {}
    /\ left' = 0
    /\ UNCHANGED <<registry, queue, clientVars, queued, got>>

\* Sending fails, or the client's filters raise: one that cannot be applied counts
\* as one that lets all pass.
SendFails ==
    /\ cast.pc = "each"
    /\ Takers # {}
    /\ cast' = [cast EXCEPT !.at = NextTaker + 1, !.failed = @ \cup {active[NextTaker]}]
    /\ PassUpTo(NextTaker)
    /\ UNCHANGED <<registry, queue, clientVars, queued, got, left>>

\* An event that cannot be written as JSON raises out of _broadcast_event, and
\* the broadcaster goes on with the next one.
DropEvent ==
    /\ cast.pc = "idle"
    /\ queue # <<>> /\ active # <<>>
    /\ queue' = Tail(queue)
    /\ UNCHANGED <<registry, cast, clientVars, queued, history>>

\* At the end of the list the failed ones are unregistered.
Finish ==
    /\ cast.pc = "each"
    /\ Takers = {}
    /\ Unregister(cast.failed)
    /\ cast' = Idle
    /\ passed' = {}
    /\ left' = 0
    /\ UNCHANGED <<queue, clientVars, queued, got>>

Broadcaster == Take \/ DropEvent \/ Send \/ SendFails \/ Finish

Next ==
    \/ \E c \in Clients :
          \/ Connect(c) \/ AnswerFails(c) \/ Close(c) \/ Disconnected(c) \/ Crash(c)
          \/ \E f \in Filters : Subscribe(c, f)
          \/ \E mode \in {"live", "static"} : SetMode(c, mode)
    \/ \E topic \in Topics \cup {None} : QueueEvent(topic)
    \/ Broadcaster

\* The event loop runs what is ready, and sending comes to an end: the server
\* pings its clients and closes the socket of one that does not answer.
LiveSpec == Init /\ [][Next]_liveVars /\ WF_liveVars(Broadcaster)

-----------------------------------------------------------------------------
(* Properties. *)

\* A client gets events in the order in which they were queued, and none twice,
\* however the list changes under the iterator of _broadcast_event.
ReceivedInOrder ==
    \A c \in Clients : \A i, j \in DOMAIN got[c] : i < j => got[c][i] < got[c][j]

\* When the iterator is past a client that it has not dealt with, another one
\* behind it has left of its own accord, one for each client passed over: the
\* removals of the broadcaster itself, put off to the end of _broadcast_event,
\* cost no client an event.
MissedForADepartureOnly ==
    Cardinality({i \in DOMAIN active : i < cast.at /\ active[i] \notin passed}) <= left

\* A registered client has a mode and filters and, unless its handler crashed, a
\* handler; and none of the three outlasts a handler that ended in order
\* (disconnect is called by two coroutines, and set_client_filters and
\* set_client_mode do not ask whether the client is registered).
RegistryFollowsHandlers ==
    \A c \in Clients :
        /\ c \in Registered => filters[c] # None /\ modes[c] # None
        /\ c \in Registered \/ filters[c] # None \/ modes[c] # None
              => handler[c] \in {"serving", "crashed"}

\* Every queued event is broadcast, or dropped, at last, whoever comes and goes.
QueueDrains == (queue # <<>> \/ cast.pc = "each") ~> (queue = <<>> /\ cast.pc = "idle")
=============================================================================
