------------------------------- MODULE Engine -------------------------------
(***************************************************************************)
(* The whole engine for one scope: connections, debouncer workers,         *)
(* sweepers and API requests, all over the same Redis keys.  Each process  *)
(* takes one Redis round trip at a time and any other may run in between.  *)
(***************************************************************************)
EXTENDS Gateway, Sweeper, Api

ASSUME EngineAssumption == /\ Users # {}
                           /\ MaxConns \in Nat \ {0} /\ ScanCount \in Nat \ {0}
                           /\ MaxStates \in Nat /\ FlappingThreshold \in Nat
                           /\ Invisible \subseteq Sessions /\ Typed \subseteq Sessions
                           /\ Callers = Debouncers \cup Apis
                           /\ Debouncers \cap Apis = {}

debouncerVars == <<jobVars, workerVars>>
vars == <<serviceVars, debouncerVars, gatewayVars, sweeperVars, request>>

TypeOK == /\ ServiceTypeOK /\ DebouncerTypeOK /\ GatewayTypeOK
          /\ SweeperTypeOK /\ ApiTypeOK

Init == /\ ServiceInit /\ DebouncerInit /\ GatewayInit
        /\ SweeperInit /\ ApiInit

\* Key expiry, one session at a time.
ExpiryNext == /\ \E s \in Sessions : Expire(s)
              /\ UNCHANGED <<debouncerVars, gatewayVars, sweeperVars, request>>

\* A step of one component leaves the others where they are.
ByGateway(A) == A /\ UNCHANGED <<sweeperVars, request>>
ByDebouncer(A) == A /\ UNCHANGED <<gatewayVars, sweeperVars, request>>
BySweeper(A) == A /\ UNCHANGED <<debouncerVars, gatewayVars, request>>
ByApi(A) == A /\ UNCHANGED <<debouncerVars, gatewayVars, sweeperVars>>

Next == \/ ByGateway(GatewayNext) \/ ByDebouncer(DebouncerNext)
        \/ BySweeper(SweeperNext) \/ ByApi(ApiNext)
        \/ ExpiryNext

Spec == Init /\ [][Next]_vars

\* Goroutines run on and Redis answers.  A worker that looks at the queue or
\* at the online users again and again comes to each of them: a due job heads
\* the batch until it is taken, and the budget of a sweep allows one SSCAN.
\* Clients, gateways and requests may stop or never come.
GatewayFairness == \A s \in Sessions :
  WF_vars(ByGateway(ConnectStep(s) \/ StateStep(s) \/ Schedule(s)))

DebouncerFairness == \A d \in Debouncers :
  /\ WF_vars(ByDebouncer(EnterScope(d)))
  /\ WF_vars(ByDebouncer(ExecuteStep(d)))
  /\ \A j \in Jobs : SF_vars(ByDebouncer(TakeJob(d, j) \/ DropOrphan(d, j)))

SweeperFairness == \A w \in Sweepers :
  /\ WF_vars(BySweeper(StartSweep(w)))
  /\ SF_vars(BySweeper(SweepScopeStep(w)))
  /\ WF_vars(BySweeper(SweepUserStep(w)))

LiveSpec == Spec /\ GatewayFairness /\ DebouncerFairness /\ SweeperFairness

-----------------------------------------------------------------------------
\* Nothing is under way: connections are up or over, workers rest, no job is
\* queued.
Quiet == /\ \A s \in Sessions : conn[s].at \in {"idle", "up"}
         /\ \A d \in Debouncers : worker[d].at \in {"idle", "scope"}
         /\ \A w \in Sweepers : sweep[w].at = "idle"
         /\ \A r \in Apis : request[r].at = "idle"
         /\ jobQueue = {}

\* A subscriber that has applied the newest version of a user knows exactly
\* how many sessions the user has now: no event carries a count that is not
\* the count its version stands for.
NewestViewExact == \A u \in Users :
  view[u].version = userVersion[u] => view[u].tabs = Cardinality(userSessions[u])

\* No subscriber applies a version the store has not given out.
ViewNeverAhead == \A u \in Users : view[u].version <= userVersion[u]

\* Once nothing is under way, what was published brings a subscriber to the
\* current version of every user: no change was left untold or overtaken.
SettledViewCurrent == Quiet => \A u \in Users : view[u].version = userVersion[u]

\* ... but for a user that is offline and whose last transition was taken for
\* flapping: all that may stay untold is that one offline event.
SettledViewOrFlapping == Quiet => \A u \in Users :
  \/ view[u].version = userVersion[u]
  \/ /\ u \notin onlineUsers /\ FlappingThreshold > 0
     /\ view[u].version = userVersion[u] - 1

\* The session of a connection that is up is in its user's index and the user
\* is listed online: no late job of an earlier connection takes it away.
ConnectedIsOnline == \A s \in Sessions :
  conn[s].at = "up" => s \in userSessions[UserOf[s]] /\ UserOf[s] \in onlineUsers

\* A user with a session in its index is listed online.
SessionsMeanOnline == \A u \in Users : userSessions[u] # {} => u \in onlineUsers

\* Once nothing is under way, the index of every user holds exactly its connected
\* sessions and the users with one are exactly those listed online: no session that
\* was closed lingers, and none that is open is missing, whatever the jobs met.
SettledOnlineExact == Quiet =>
  /\ \A u \in Users : userSessions[u] = {s \in Sessions : UserOf[s] = u /\ conn[s].at = "up"}
  /\ onlineUsers = {UserOf[s] : s \in {t \in Sessions : conn[t].at = "up"}}

\* Once nothing is under way, a user without sessions has left nothing behind in
\* the keys that follow it, though the Disconnect that took it offline clears them
\* one by one while new sessions of the user may be filling them again.
OfflineForgotten == Quiet => \A u \in Users : userSessions[u] = {} =>
  /\ u \notin invisibleUsers /\ userDevices[u] = 0 /\ lastPub[u] = NoState
  /\ \A s \in Sessions : UserOf[s] = u => sessionStates[s] = NoState

-----------------------------------------------------------------------------
\* Every connection that ends leaves the store: its session is removed by the
\* job it scheduled, however the workers are interleaved.
ClosedSessionRemoved == \A s \in Sessions :
  conn[s].at = "closing" ~> s \notin userSessions[UserOf[s]]

\* A session nobody renews any more.
Zombie(s) == /\ conn[s].at = "idle" /\ ~Alive(s)
             /\ s \in userSessions[UserOf[s]]

\* Every zombie is swept out of its user's index, unless the scope or the user
\* drops off the lists the sweeper walks.
ZombieSwept == \A s \in Sessions :
  Zombie(s) ~> \/ s \notin userSessions[UserOf[s]]
               \/ ~scopeActive \/ UserOf[s] \notin onlineUsers
=============================================================================
