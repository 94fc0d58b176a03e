------------------------------ MODULE Gateway ------------------------------
(***************************************************************************)
(* A WebSocket connection (pkg/ws/client.go) as the store sees it: the     *)
(* ReadPump goroutine that registers the session, serves the messages of   *)
(* the client one at a time and schedules the disconnect when the          *)
(* connection is over.  conn[s] is the connection that carries session s.  *)
(* In the gateway a session id is fresh for every connection (MaxConns 1); *)
(* a program that embeds the packages may use one again.                   *)
(***************************************************************************)
EXTENDS Debouncer

CONSTANT MaxStates  \* bound: presence_state messages in a behaviour

VARIABLES
  conn,    \* conn[s]: where the connection is, and what it has read
  made,    \* made[s]: connections made so far with session id s
  states   \* presence_state messages accepted so far

gatewayVars == <<conn, made, states>>

ConnSteps == {"idle", "connect", "hide", "device", "initstate", "initlast", "aggregate", "announce",
              "up", "hset", "hgetall", "getlast", "commit", "incr", "card", "tell", "closing"}
NoConn == [at |-> "idle", reply |-> NoReply, state |-> NoState]
Up == [NoConn EXCEPT !.at = "up"]

GatewayTypeOK ==
  /\ conn \in [Sessions -> [at : ConnSteps, reply : Replies, state : PresenceStates \cup {NoState}]]
  /\ made \in [Sessions -> 0..MaxConns]
  /\ states \in 0..MaxStates

GatewayInit == /\ conn = [s \in Sessions |-> NoConn]
               /\ made = [s \in Sessions |-> 0]
               /\ states = 0

ConnGoto(s, from, to) == conn[s].at = from /\ conn' = [conn EXCEPT ![s].at = to]

-----------------------------------------------------------------------------
\* connect(): cancel pending jobs, Service.Connect, initial state, event.
Dial(s) ==
  /\ made[s] < MaxConns
  /\ ConnGoto(s, "idle", "connect")
  /\ made' = [made EXCEPT ![s] = @ + 1]
  /\ CancelDisconnect(s)
  /\ UNCHANGED <<serviceVars, workerVars, states>>

\* Service.Connect hides the transition of an invisible session.
ConnectSession(s) == LET r == ConnectReply(s) IN
  /\ conn[s].at = "connect"
  /\ ConnectScript(s)
  /\ conn' = [conn EXCEPT
       ![s].at = IF s \in Invisible THEN "hide" ELSE IF s \in Typed THEN "device" ELSE "initstate",
       ![s].reply = IF s \in Invisible /\ r.transition = "online"
                    THEN [r EXCEPT !.transition = "invisible"] ELSE r]
  /\ UNCHANGED <<sideVars, view, call, jobVars, workerVars, made, states>>

Hide(s) ==
  /\ ConnGoto(s, "hide", IF s \in Typed THEN "device" ELSE "initstate")
  /\ invisibleUsers' = invisibleUsers \cup {UserOf[s]}
  /\ UNCHANGED <<storeVars, userDevices, sessionStates, lastPub, view, call, jobVars, workerVars, made, states>>

CountDevice(s) ==
  /\ ConnGoto(s, "device", "initstate")
  /\ userDevices' = [userDevices EXCEPT ![UserOf[s]] = @ + 1]
  /\ UNCHANGED <<storeVars, invisibleUsers, sessionStates, lastPub, view, call, jobVars, workerVars, made, states>>

InitState(s) ==
  /\ ConnGoto(s, "initstate", IF conn[s].reply.count = 1 THEN "initlast" ELSE "aggregate")
  /\ sessionStates' = [sessionStates EXCEPT ![s] = "active"]
  /\ UNCHANGED <<storeVars, invisibleUsers, userDevices, lastPub, view, call, jobVars, workerVars, made, states>>

InitLast(s) ==
  /\ ConnGoto(s, "initlast", "aggregate")
  /\ lastPub' = [lastPub EXCEPT ![UserOf[s]] = "active"]
  /\ UNCHANGED <<storeVars, invisibleUsers, userDevices, sessionStates, view, call, jobVars, workerVars, made, states>>

ReadAggregate(s) ==
  /\ conn[s].at = "aggregate"
  /\ conn' = [conn EXCEPT ![s].at = "announce", ![s].state = Aggregate(UserOf[s])]
  /\ UNCHANGED <<serviceVars, jobVars, workerVars, made, states>>

AnnounceConnect(s) == LET r == conn[s].reply IN
  /\ conn[s].at = "announce"
  /\ \/ /\ s \notin Invisible
        /\ Publish(UserOf[s], PresenceEvent(IF r.transition = "online" THEN "user_online" ELSE "user_tabs",
                                            r.version, r.count, conn[s].state))
     \/ /\ s \in Invisible
        /\ UNCHANGED view
  /\ conn' = [conn EXCEPT ![s] = Up]
  /\ UNCHANGED <<storeVars, sideVars, call, jobVars, workerVars, made, states>>

-----------------------------------------------------------------------------
\* A heartbeat: the session lives on, or the client must reconnect.
Heartbeat(s) ==
  /\ conn[s].at = "up"
  /\ HeartbeatScript(s)
  /\ conn' = IF HeartbeatReply(s) = "OK" THEN conn ELSE [conn EXCEPT ![s].at = "closing"]
  /\ UNCHANGED <<sideVars, view, call, jobVars, workerVars, made, states>>

\* presence_state: SetSessionPresenceState, then the event it asks for.
SetState(s, state) ==
  /\ conn[s].at = "up" /\ states < MaxStates
  /\ s \in userSessions[UserOf[s]]
  /\ conn' = [conn EXCEPT ![s].at = "hset", ![s].state = state]
  /\ states' = states + 1
  /\ UNCHANGED <<serviceVars, jobVars, workerVars, made>>

WriteState(s) ==
  /\ ConnGoto(s, "hset", "hgetall")
  /\ sessionStates' = [sessionStates EXCEPT ![s] = conn[s].state]
  /\ UNCHANGED <<storeVars, invisibleUsers, userDevices, lastPub, view, call, jobVars, workerVars, made, states>>

ReadAllStates(s) ==
  /\ conn[s].at = "hgetall"
  /\ conn' = [conn EXCEPT ![s].at = "getlast", ![s].state = Aggregate(UserOf[s])]
  /\ UNCHANGED <<serviceVars, jobVars, workerVars, made, states>>

CompareLast(s) ==
  /\ conn[s].at = "getlast"
  /\ conn' = IF conn[s].state = lastPub[UserOf[s]] THEN [conn EXCEPT ![s] = Up]
             ELSE [conn EXCEPT ![s].at = "commit"]
  /\ UNCHANGED <<serviceVars, jobVars, workerVars, made, states>>

\* A pipeline, which is no transaction: SET of the last state, INCR of the
\* version, SCARD.
CommitLast(s) ==
  /\ ConnGoto(s, "commit", "incr")
  /\ lastPub' = [lastPub EXCEPT ![UserOf[s]] = conn[s].state]
  /\ UNCHANGED <<storeVars, invisibleUsers, userDevices, sessionStates, view, call, jobVars, workerVars, made, states>>

CommitVersion(s) == LET u == UserOf[s] IN
  /\ conn[s].at = "incr"
  /\ userVersion' = Bumped(u, TRUE)
  /\ conn' = [conn EXCEPT ![s].at = "card", ![s].reply.version = userVersion[u] + 1]
  /\ UNCHANGED <<session, userSessions, onlineUsers, scopeActive, sideVars, view, call, jobVars, workerVars, made, states>>

CountTabs(s) ==
  /\ conn[s].at = "card"
  /\ conn' = [conn EXCEPT ![s].at = "tell", ![s].reply.count = Cardinality(userSessions[UserOf[s]])]
  /\ UNCHANGED <<serviceVars, jobVars, workerVars, made, states>>

TellState(s) == LET r == conn[s].reply IN
  /\ conn[s].at = "tell"
  /\ Publish(UserOf[s], PresenceEvent("user_presence", r.version, r.count, conn[s].state))
  /\ conn' = [conn EXCEPT ![s] = Up]
  /\ UNCHANGED <<storeVars, sideVars, call, jobVars, workerVars, made, states>>

-----------------------------------------------------------------------------
\* The read fails.  Whether the client closed normally is only logged: every
\* close is treated alike.
LoseConnection(s) ==
  /\ ConnGoto(s, "up", "closing")
  /\ UNCHANGED <<serviceVars, jobVars, workerVars, made, states>>

\* scheduleDisconnect: every connection that was up leaves a job behind.
Schedule(s) ==
  /\ conn[s].at = "closing"
  /\ conn' = [conn EXCEPT ![s] = NoConn]
  /\ ScheduleDisconnect(<<s, made[s]>>)
  /\ UNCHANGED <<serviceVars, workerVars, made, states>>

\* The gateway dies, or Redis refuses the job: the connection is gone and
\* nothing says so but the TTL of its session.
GatewayStops(s) ==
  /\ "gateway_stops" \in Faults
  /\ conn[s].at # "idle"
  /\ conn' = [conn EXCEPT ![s] = NoConn]
  /\ UNCHANGED <<serviceVars, jobVars, workerVars, made, states>>

ConnectStep(s) == \/ ConnectSession(s) \/ Hide(s) \/ CountDevice(s) \/ InitState(s)
                  \/ InitLast(s) \/ ReadAggregate(s) \/ AnnounceConnect(s)

StateStep(s) == \/ WriteState(s) \/ ReadAllStates(s) \/ CompareLast(s)
                \/ CommitLast(s) \/ CommitVersion(s) \/ CountTabs(s) \/ TellState(s)

GatewayNext == \E s \in Sessions :
  \/ Dial(s) \/ ConnectStep(s)
  \/ Heartbeat(s)
  \/ \E state \in PresenceStates : SetState(s, state)
  \/ StateStep(s)
  \/ LoseConnection(s) \/ Schedule(s) \/ GatewayStops(s)
=============================================================================
