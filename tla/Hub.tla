-------------------------------- MODULE Hub --------------------------------
(***************************************************************************)
(* The hub of a gateway (pkg/ws/hub.go) and what it shares with the        *)
(* goroutines of its clients: the two channels its loop receives from, the *)
(* map of connections under the mutex, the subscriptions to the events of  *)
(* scopes, and shutdown.  A client is one WebSocket request; its pump is   *)
(* the ReadPump of client.go, seen from the hub (Gateway.tla has what it   *)
(* does to the store).                                                     *)
(***************************************************************************)
EXTENDS Sequences, Naturals, FiniteSets

CONSTANTS Clients,      \* requests to /ws
          Scopes,
          Owner,        \* Owner[c]: the user of client c
          ScopeOf,      \* ScopeOf[c]: the scope it asks for
          MaxPerUser,   \* MaxConnsPerUser, 0 when there is no cap
          QueueSize,    \* MaxPendingEvents, the capacity of both channels
          HubFaults     \* "subscribe_fails", "schedule_fails", "slow_consumer", "shutdown"

ASSUME HubAssumption == /\ IsFiniteSet(Clients)
                        /\ \A c \in Clients : ScopeOf[c] \in Scopes
                        /\ MaxPerUser \in Nat /\ QueueSize \in Nat \ {0}

VARIABLES
  request,        \* request[c]: the handler of client c, HandleWebSocket
  pump,           \* pump[c]: its ReadPump
  closed,         \* clients whose Close has run: done and conn are closed
  connected,      \* clients whose connect() succeeded
  scheduled,      \* clients that left a disconnect job behind
  register,       \* the two channels
  unregister,
  run,            \* the loop of Run: "select", "add" (with client), "returned"
  adding,         \* the client addClient is given, when run is "add"
  connections,    \* the connections map of all scopes
  subscriptions,  \* scopes with a subscription in the map
  closing,        \* the flag closing
  stopped,        \* the channel h.shutdown is closed
  cancelled,      \* the context of Run is done: a signal arrived
  shutdown,       \* Shutdown: how far it is, and the clients it will close
  process         \* main: "serving", "returning" (Redis is closed), "exited"

clientVars == <<request, pump, closed, connected, scheduled>>
loopVars == <<run, adding, connections, subscriptions>>
stopVars == <<closing, stopped, cancelled, shutdown, process>>
hubVars == <<clientVars, register, unregister, loopVars, stopVars>>

RequestSteps == {"none", "count", "upgrade", "accepted", "refused"}
PumpSteps == {"none", "connect", "read", "unregister", "send", "schedule", "gone"}
ShutdownSteps == {"none", "clear", "close", "stop", "done"}

HubTypeOK ==
  /\ request \in [Clients -> RequestSteps] /\ pump \in [Clients -> PumpSteps]
  /\ closed \subseteq Clients /\ connected \subseteq Clients /\ scheduled \subseteq connected
  /\ register \in Seq(Clients) /\ Len(register) <= QueueSize
  /\ unregister \in Seq(Clients) /\ Len(unregister) <= QueueSize
  /\ run \in {"select", "add", "returned"} /\ adding \subseteq Clients
  /\ connections \subseteq Clients /\ subscriptions \subseteq Scopes
  /\ closing \in BOOLEAN /\ stopped \in BOOLEAN /\ cancelled \in BOOLEAN
  /\ shutdown \in [at : ShutdownSteps, left : SUBSET Clients]
  /\ process \in {"serving", "returning", "exited"}

HubInit ==
  /\ request = [c \in Clients |-> "none"] /\ pump = [c \in Clients |-> "none"]
  /\ closed = {} /\ connected = {} /\ scheduled = {} /\ register = <<>> /\ unregister = <<>>
  /\ run = "select" /\ adding = {} /\ connections = {} /\ subscriptions = {}
  /\ closing = FALSE /\ stopped = FALSE /\ cancelled = FALSE
  /\ shutdown = [at |-> "none", left |-> {}] /\ process = "serving"

InScope(sc) == {c \in connections : ScopeOf[c] = sc}
SameUser(c) == {o \in InScope(ScopeOf[c]) : Owner[o] = Owner[c]}

-----------------------------------------------------------------------------
\* HandleWebSocket: refused while closing, then the cap, then the upgrade and
\* the registration, between which other requests and the loop run.
Accept(c) == /\ request[c] = "none"
             /\ request' = [request EXCEPT ![c] = IF closing THEN "refused" ELSE "count"]
             /\ UNCHANGED <<pump, closed, connected, scheduled, register, unregister, loopVars, stopVars>>

Count(c) ==
  /\ request[c] = "count"
  /\ request' = [request EXCEPT ![c] =
       IF MaxPerUser > 0 /\ Cardinality(SameUser(c)) >= MaxPerUser THEN "refused" ELSE "upgrade"]
  /\ UNCHANGED <<pump, closed, connected, scheduled, register, unregister, loopVars, stopVars>>

Register(c) ==
  /\ request[c] = "upgrade"
  /\ \/ /\ Len(register) < QueueSize
        /\ register' = Append(register, c)
        /\ request' = [request EXCEPT ![c] = "accepted"]
        /\ pump' = [pump EXCEPT ![c] = "connect"]
        /\ UNCHANGED closed
     \/ /\ stopped \/ Len(register) = QueueSize
        /\ request' = [request EXCEPT ![c] = "refused"]
        /\ closed' = closed \cup {c}
        /\ UNCHANGED <<pump, register>>
  /\ UNCHANGED <<connected, scheduled, unregister, loopVars, stopVars>>

-----------------------------------------------------------------------------
\* ReadPump: connect() succeeds or fails; reading fails when the peer leaves
\* or the connection was closed here.  Then Unregister, and after it the job.
ConnectPump(c) ==
  /\ pump[c] = "connect"
  /\ \/ /\ process = "serving"
        /\ pump' = [pump EXCEPT ![c] = "read"]
        /\ connected' = connected \cup {c}
     \/ /\ pump' = [pump EXCEPT ![c] = "unregister"]
        /\ UNCHANGED connected
  /\ UNCHANGED <<request, closed, scheduled, register, unregister, loopVars, stopVars>>

ReadFails(c) ==
  /\ pump[c] = "read"
  /\ pump' = [pump EXCEPT ![c] = "unregister"]
  /\ UNCHANGED <<request, closed, connected, scheduled, register, unregister, loopVars, stopVars>>

StartUnregister(c) ==
  /\ pump[c] = "unregister"
  /\ pump' = [pump EXCEPT ![c] = IF closing THEN "schedule" ELSE "send"]
  /\ UNCHANGED <<request, closed, connected, scheduled, register, unregister, loopVars, stopVars>>

\* Mutant: the pump gives up when the channel is full, as HandleWebSocket does.
SendOrGiveUp(c) ==
  /\ pump[c] = "send"
  /\ unregister' = IF Len(unregister) < QueueSize THEN Append(unregister, c) ELSE unregister
  /\ pump' = [pump EXCEPT ![c] = IF Len(unregister) < QueueSize THEN "schedule" ELSE "gone"]
  /\ UNCHANGED <<request, closed, connected, scheduled, register, loopVars, stopVars>>

\* Blocks until the channel has room or the hub has stopped.
SendUnregister(c) ==
  /\ pump[c] = "send"
  /\ \/ /\ Len(unregister) < QueueSize
        /\ unregister' = Append(unregister, c)
     \/ /\ stopped
        /\ UNCHANGED unregister
  /\ pump' = [pump EXCEPT ![c] = "schedule"]
  /\ UNCHANGED <<request, closed, connected, scheduled, register, loopVars, stopVars>>

\* Mutant: a connection that was never up leaves a job as well.
ScheduleAlways(c) ==
  /\ pump[c] = "schedule"
  /\ pump' = [pump EXCEPT ![c] = "gone"]
  /\ scheduled' = scheduled \cup {c}
  /\ UNCHANGED <<request, closed, connected, register, unregister, loopVars, stopVars>>

\* scheduleDisconnect, once: an error of Redis is logged and there is no job.
Schedule(c) ==
  /\ pump[c] = "schedule"
  /\ pump' = [pump EXCEPT ![c] = "gone"]
  /\ \/ /\ process = "serving"
        /\ scheduled' = scheduled \cup ({c} \cap connected)
     \/ /\ process = "returning" \/ "schedule_fails" \in HubFaults
        /\ UNCHANGED scheduled
  /\ UNCHANGED <<request, closed, connected, register, unregister, loopVars, stopVars>>

\* broadcastToScope finds the client's buffer full.
SlowConsumer(c) ==
  /\ "slow_consumer" \in HubFaults
  /\ c \in connections \ closed /\ ~closing
  /\ closed' = closed \cup {c}
  /\ UNCHANGED <<request, pump, connected, scheduled, register, unregister, loopVars, stopVars>>

-----------------------------------------------------------------------------
\* Run receives from whichever channel is ready.  addClient looks at closing
\* before it takes the mutex.
ReceiveRegister == LET c == Head(register) IN
  /\ run = "select" /\ register # <<>>
  /\ register' = Tail(register)
  /\ IF closing
     THEN /\ closed' = closed \cup {c}
          /\ UNCHANGED <<run, adding>>
     ELSE /\ run' = "add" /\ adding' = {c}
          /\ UNCHANGED closed
  /\ UNCHANGED <<request, pump, connected, scheduled, unregister, connections, subscriptions, stopVars>>

\* Subscribing may fail, as it does when the context is done.
AddClient ==
  /\ run = "add"
  /\ connections' = connections \cup adding
  /\ \/ process = "serving" /\ subscriptions' = subscriptions \cup {ScopeOf[c] : c \in adding}
     \/ /\ "subscribe_fails" \in HubFaults \/ cancelled
        /\ UNCHANGED subscriptions
  /\ run' = "select" /\ adding' = {}
  /\ UNCHANGED <<clientVars, register, unregister, stopVars>>

\* Mutants: the subscription of an empty scope is kept, and every connection
\* of the user goes with the first.
RemoveKeepsSubscription == LET c == Head(unregister) IN
  /\ run = "select" /\ unregister # <<>>
  /\ unregister' = Tail(unregister)
  /\ connections' = connections \ {c}
  /\ closed' = IF c \in connections THEN closed \cup {c} ELSE closed
  /\ UNCHANGED <<request, pump, connected, scheduled, register, run, adding, subscriptions, stopVars>>

RemoveUser == LET c == Head(unregister) IN
  /\ run = "select" /\ unregister # <<>>
  /\ unregister' = Tail(unregister)
  /\ connections' = connections \ SameUser(c)
  /\ subscriptions' = IF InScope(ScopeOf[c]) = SameUser(c) THEN subscriptions \ {ScopeOf[c]}
                      ELSE subscriptions
  /\ closed' = IF c \in connections THEN closed \cup {c} ELSE closed
  /\ UNCHANGED <<request, pump, connected, scheduled, register, run, adding, stopVars>>

\* removeClient: a client the map does not hold is ignored; the last client
\* of a scope takes the subscription with it.
RemoveClient == LET c == Head(unregister) IN
  /\ run = "select" /\ unregister # <<>>
  /\ unregister' = Tail(unregister)
  /\ connections' = connections \ {c}
  /\ closed' = IF c \in connections THEN closed \cup {c} ELSE closed
  /\ subscriptions' = IF InScope(ScopeOf[c]) = {c} THEN subscriptions \ {ScopeOf[c]}
                      ELSE subscriptions
  /\ UNCHANGED <<request, pump, connected, scheduled, register, run, adding, stopVars>>

ReturnRun == /\ run = "select" /\ (cancelled \/ stopped)
             /\ run' = "returned"
             /\ UNCHANGED <<clientVars, register, unregister, adding, connections, subscriptions, stopVars>>

-----------------------------------------------------------------------------
\* A signal ends the context.  A goroutine nobody waits for then runs
\* Shutdown, once and in four steps, while main goes its own way.
Signal == /\ "shutdown" \in HubFaults /\ ~cancelled
          /\ cancelled' = TRUE
          /\ UNCHANGED <<clientVars, register, unregister, loopVars, closing, stopped, shutdown, process>>

StartShutdown == /\ cancelled /\ shutdown.at = "none"
                 /\ closing' = TRUE
                 /\ shutdown' = [shutdown EXCEPT !.at = "clear"]
                 /\ UNCHANGED <<clientVars, register, unregister, loopVars, stopped, cancelled, process>>

ClearMaps == /\ shutdown.at = "clear"
             /\ shutdown' = [at |-> "close", left |-> connections]
             /\ connections' = {} /\ subscriptions' = {}
             /\ UNCHANGED <<clientVars, register, unregister, run, adding, closing, stopped, cancelled, process>>

CloseClients == /\ shutdown.at = "close"
                /\ IF shutdown.left = {}
                   THEN /\ shutdown' = [shutdown EXCEPT !.at = "stop"]
                        /\ UNCHANGED closed
                   ELSE \E c \in shutdown.left :
                          /\ shutdown' = [shutdown EXCEPT !.left = @ \ {c}]
                          /\ closed' = closed \cup {c}
                /\ UNCHANGED <<request, pump, connected, scheduled, register, unregister, loopVars,
                               closing, stopped, cancelled, process>>

StopLoop == /\ shutdown.at = "stop"
            /\ shutdown' = [shutdown EXCEPT !.at = "done"]
            /\ stopped' = TRUE
            /\ UNCHANGED <<clientVars, register, unregister, loopVars, closing, cancelled, process>>

ShutdownStep == StartShutdown \/ ClearMaps \/ CloseClients \/ StopLoop

\* The HTTP server is shut down too: ListenAndServe returns at once, as it
\* does not wait for WebSockets, and main returns.  Its deferred calls close
\* Redis, then every goroutine ends with the process.
ReturnMain == /\ cancelled /\ process = "serving"
              /\ process' = "returning"
              /\ UNCHANGED <<clientVars, register, unregister, loopVars, closing, stopped, cancelled, shutdown>>

Exit == /\ process = "returning"
        /\ process' = "exited"
        /\ UNCHANGED <<clientVars, register, unregister, loopVars, closing, stopped, cancelled, shutdown>>

-----------------------------------------------------------------------------
RequestStep(c) == Count(c) \/ Register(c)
PumpStep(c) == ConnectPump(c) \/ StartUnregister(c) \/ SendUnregister(c) \/ Schedule(c)
RunStep == ReceiveRegister \/ AddClient \/ RemoveClient \/ ReturnRun

Alive == process # "exited"

HubNext == /\ Alive
           /\ \/ \E c \in Clients : \/ Accept(c) \/ RequestStep(c)
                                    \/ PumpStep(c) \/ ReadFails(c) \/ SlowConsumer(c)
              \/ RunStep \/ Signal \/ ShutdownStep \/ ReturnMain \/ Exit

HubSpec == HubInit /\ [][HubNext]_hubVars

\* While the process lives its goroutines run on, and a read on a closed
\* connection returns.  When main returns is up to the scheduler: it may be
\* before, between or after the steps of Shutdown and of the pumps.
HubFairness == /\ \A c \in Clients : /\ WF_hubVars(Alive /\ PumpStep(c))
                                     /\ WF_hubVars(Alive /\ c \in closed /\ ReadFails(c))
               /\ WF_hubVars(Alive /\ RunStep) /\ WF_hubVars(Alive /\ ShutdownStep)

HubLiveSpec == HubSpec /\ HubFairness

-----------------------------------------------------------------------------
Queued == {register[i] : i \in 1..Len(register)}

\* A client whose connection is open is in the map, or on its way there: no
\* one else's end takes it out, so it gets the events of its scope.
OpenIsTracked == ~closing => \A c \in Clients :
  (pump[c] \in {"connect", "read"} /\ c \notin closed) => c \in connections \cup Queued \cup adding

\* The hub is subscribed to exactly the scopes it has a client in.
SubscribedIffConnected ==
  ~cancelled => subscriptions = {ScopeOf[c] : c \in connections}

\* Whatever the hub does meanwhile - its loop busy, a channel full, the client
\* closed by the hub itself - a connection that was up and ends leaves its
\* disconnect job, as long as main has not returned.  After a signal main does
\* return, without waiting for Shutdown or for any pump.
EndedSchedules == \A c \in Clients :
  (c \in connected /\ pump[c] = "unregister") ~> c \in scheduled \/ process # "serving"
=============================================================================
