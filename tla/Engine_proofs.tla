--------------------------- MODULE Engine_proofs ---------------------------
(***************************************************************************)
(* Theorems about the whole engine, for any users, sessions, workers,      *)
(* numbers of connections and faults.                                      *)
(*                                                                         *)
(* Most are about the engine with neither sweeper nor API requests         *)
(* (NoCleaners): those two read, decide and write in separate round trips  *)
(* and the runs show what that breaks.  The argument is that every step    *)
(* then does to the store what one script does, or takes a new version, or *)
(* nothing; PresenceStore_proofs has what the scripts do.                  *)
(***************************************************************************)
EXTENDS Engine, PresenceStore_proofs

NoCleaners == Sweepers = {} /\ Apis = {}

\* What a step may do to the store.
Bump(u) == /\ userVersion' = Bumped(u, TRUE)
           /\ UNCHANGED <<session, userSessions, onlineUsers, scopeActive>>

StoreStep == \/ \E s \in Sessions : Script(s)
             \/ \E u \in Users : Bump(u)
             \/ UNCHANGED storeVars

Calls == [at : CallSteps, session : Sessions, device : BOOLEAN, reply : Replies,
          agg : PresenceStates \cup {NoState}, changed : BOOLEAN]
CallTyped == call \in [Callers -> Calls]

-----------------------------------------------------------------------------
\* The steps of each process, as the store sees them.
LEMMA GatewayOnStore == ASSUME GatewayNext PROVE StoreStep
<1> USE StoreAssumption
<1> PICK s \in Sessions :
      \/ Dial(s) \/ ConnectStep(s) \/ Heartbeat(s)
      \/ \E state \in PresenceStates : SetState(s, state)
      \/ StateStep(s) \/ LoseConnection(s) \/ Schedule(s) \/ GatewayStops(s)
  BY DEF GatewayNext
<1>1. CASE ConnectSession(s) \/ Heartbeat(s)
  BY <1>1 DEF ConnectSession, Heartbeat, StoreStep, Script
<1>2. CASE CommitVersion(s)
  <2>1. UserOf[s] \in Users
    OBVIOUS
  <2>2. Bump(UserOf[s])
    BY <1>2 DEF CommitVersion, Bump
  <2> QED BY <2>1, <2>2 DEF StoreStep
<1>3. CASE Hide(s) \/ CountDevice(s) \/ InitState(s) \/ InitLast(s) \/ ReadAggregate(s) \/ AnnounceConnect(s)
  BY <1>3 DEF Hide, CountDevice, InitState, InitLast, ReadAggregate, AnnounceConnect, serviceVars, StoreStep
<1>4. CASE WriteState(s) \/ ReadAllStates(s) \/ CompareLast(s) \/ CommitLast(s) \/ CountTabs(s) \/ TellState(s)
  BY <1>4 DEF WriteState, ReadAllStates, CompareLast, CommitLast, CountTabs, TellState, serviceVars, StoreStep
<1>5. CASE Dial(s) \/ LoseConnection(s) \/ Schedule(s) \/ GatewayStops(s)
  BY <1>5 DEF Dial, LoseConnection, Schedule, GatewayStops, serviceVars, StoreStep
<1>6. CASE \E state \in PresenceStates : SetState(s, state)
  BY <1>6 DEF SetState, serviceVars, StoreStep
<1> QED BY <1>1, <1>2, <1>3, <1>4, <1>5, <1>6 DEF ConnectStep, StateStep

LEMMA DisconnectOnStore ==
  ASSUME NEW c \in Callers, CallTyped, DisconnectStep(c) PROVE StoreStep
<1>1. CASE RunScript(c)
  <2>1. call[c].session \in Sessions
    BY DEF CallTyped, Calls
  <2> QED BY <1>1, <2>1 DEF RunScript, StoreStep, Script
<1>2. CASE GetMeta(c) \/ DropInvisible(c) \/ DropDevices(c) \/ DropUserStates(c)
  BY <1>2 DEF GetMeta, DropInvisible, DropDevices, DropUserStates, StoreStep
<1>3. CASE DecrementDevice(c) \/ DeleteState(c) \/ ReadStates(c) \/ ReadLast(c) \/ SetLast(c)
  BY <1>3 DEF DecrementDevice, DeleteState, ReadStates, ReadLast, SetLast, StoreStep
<1> QED BY <1>1, <1>2, <1>3 DEF DisconnectStep

LEMMA DebouncerOnStore == ASSUME CallTyped, DebouncerNext PROVE StoreStep
<1> USE EngineAssumption
<1>1. ASSUME NEW d \in Debouncers, ExecuteStep(d) PROVE StoreStep
  <2>1. CASE DisconnectStep(d)
    BY <2>1, DisconnectOnStore
  <2>2. CASE RecordTransition(d) \/ AnnounceJob(d) \/ AnnouncePresence(d) \/ FinishJob(d)
    BY <2>2 DEF RecordTransition, AnnounceJob, AnnouncePresence, FinishJob, serviceVars, StoreStep
  <2> QED BY <1>1, <2>1, <2>2 DEF ExecuteStep
<1>2. ASSUME NEW d \in Debouncers, EnterScope(d) \/ LeaveScope(d) \/ DebouncerStops(d) PROVE StoreStep
  BY <1>2 DEF EnterScope, LeaveScope, DebouncerStops, serviceVars, StoreStep
<1>3. ASSUME NEW d \in Debouncers, NEW j \in Jobs, TakeJob(d, j) \/ DropOrphan(d, j) PROVE StoreStep
  BY <1>3 DEF TakeJob, DropOrphan, serviceVars, StoreStep
<1>4. ASSUME NEW j \in Jobs, JobExpires(j) PROVE StoreStep
  BY <1>4 DEF JobExpires, serviceVars, StoreStep
<1>5. ASSUME NEW u \in Users, WindowPasses(u) PROVE StoreStep
  BY <1>5 DEF WindowPasses, serviceVars, StoreStep
<1> QED BY <1>1, <1>2, <1>3, <1>4, <1>5 DEF DebouncerNext

LEMMA EngineOnStore ==
  ASSUME NoCleaners, CallTyped, [Next]_vars PROVE StoreStep
<1>1. CASE ByGateway(GatewayNext)
  BY <1>1, GatewayOnStore DEF ByGateway
<1>2. CASE ByDebouncer(DebouncerNext)
  BY <1>2, DebouncerOnStore DEF ByDebouncer
<1>3. CASE ExpiryNext
  BY <1>3 DEF ExpiryNext, Expire, StoreStep, Script
<1>4. ~BySweeper(SweeperNext) /\ ~ByApi(ApiNext)
  BY DEF NoCleaners, BySweeper, SweeperNext, ByApi, ApiNext
<1>5. CASE UNCHANGED vars
  BY <1>5 DEF vars, serviceVars, StoreStep
<1> QED BY <1>1, <1>2, <1>3, <1>4, <1>5 DEF Next

LEMMA StoreStepKeeps == ASSUME StoreInv, StoreStep PROVE StoreInv'
<1>1. ASSUME NEW s \in Sessions, Script(s) PROVE StoreInv'
  BY <1>1, ScriptKeeps
<1>2. ASSUME NEW u \in Users, Bump(u) PROVE StoreInv'
  BY <1>2 DEF Bump, Bumped, StoreInv, StoreTypeOK, OnlineIffSessions, LiveSessionIndexed,
              OnlineScopeListed, Alive
<1>3. CASE UNCHANGED storeVars
  BY <1>3 DEF storeVars, StoreInv, StoreTypeOK, OnlineIffSessions, LiveSessionIndexed,
              OnlineScopeListed, Alive
<1> QED BY <1>1, <1>2, <1>3 DEF StoreStep

-----------------------------------------------------------------------------
\* Types of what callers of Disconnect have read.
LEMMA NoCallTyped == NoCall \in Calls
<1>1. (CHOOSE s \in Sessions : TRUE) \in Sessions
  BY StoreAssumption
<1> QED BY <1>1 DEF NoCall, Calls, NoReply, Replies, CallSteps

LEMMA DisconnectReplyTyped ==
  ASSUME NEW s \in Sessions, StoreTypeOK PROVE DisconnectReply(s) \in Replies
<1> USE StoreAssumption
<1>1. UserOf[s] \in Users
  OBVIOUS
<1>2. DisconnectSet(s) \subseteq Sessions
  BY <1>1 DEF DisconnectSet, StoreTypeOK
<1>3. Cardinality(DisconnectSet(s)) \in Nat
  BY <1>2, FS_Subset, FS_CardinalityType
<1>4. Bumped(UserOf[s], DisconnectRemoves(s))[UserOf[s]] \in Nat
  BY <1>1 DEF Bumped, StoreTypeOK
<1> QED BY <1>3, <1>4 DEF DisconnectReply, Replies

LEMMA AggregateTyped == ASSUME NEW u PROVE Aggregate(u) \in PresenceStates
BY DEF Aggregate, PresenceStates

LEMMA CallReplacedTyped ==
  ASSUME NEW c \in Callers, CallTyped, NEW k \in Calls, call' = [call EXCEPT ![c] = k] PROVE CallTyped'
BY DEF CallTyped

LEMMA DisconnectTyped ==
  ASSUME NEW c \in Callers, StoreTypeOK, CallTyped, DisconnectStep(c) PROVE CallTyped'
<1>1. call[c] \in Calls
  BY DEF CallTyped
<1>2. CASE GetMeta(c)
  <2> DEFINE device == Alive(call[c].session) /\ call[c].session \in Typed
             k == [call[c] EXCEPT !.at = "script", !.device = device]
  <2>1. device \in BOOLEAN
    OBVIOUS
  <2>2. call' = [call EXCEPT ![c] = k]
    BY <1>2 DEF GetMeta
  <2> HIDE DEF device
  <2>3. k \in Calls
    BY <1>1, <2>1 DEF Calls, CallSteps
  <2> HIDE DEF k
  <2> QED BY <2>2, <2>3, CallReplacedTyped
<1>3. CASE RunScript(c)
  <2>1. PICK reply \in Replies, step \in CallSteps :
          call' = [call EXCEPT ![c].reply = reply, ![c].at = step]
    <3>1. DisconnectReply(call[c].session) \in Replies
      BY <1>1, DisconnectReplyTyped DEF Calls
    <3>2. PICK step \in CallSteps :
            call' = [call EXCEPT ![c].reply = DisconnectReply(call[c].session), ![c].at = step]
      BY <1>3, Zenon DEF RunScript, CallSteps
    <3> QED BY <3>1, <3>2
  <2> DEFINE k == [call[c] EXCEPT !.reply = reply, !.at = step]
  <2>2. k \in Calls
    BY <1>1 DEF Calls
  <2>3. call' = [call EXCEPT ![c] = k]
    BY <2>1
  <2> HIDE DEF k
  <2> QED BY <2>2, <2>3, CallReplacedTyped
<1>4. CASE ReadStates(c)
  <2> DEFINE k == [call[c] EXCEPT !.at = "last", !.agg = Aggregate(UserOfCall(c))]
  <2>1. k \in Calls
    BY <1>1, AggregateTyped DEF Calls, CallSteps
  <2>2. call' = [call EXCEPT ![c] = k]
    BY <1>4 DEF ReadStates
  <2> HIDE DEF k
  <2> QED BY <2>1, <2>2, CallReplacedTyped
<1>5. CASE ReadLast(c)
  <2> DEFINE changed == call[c].agg # lastPub[UserOfCall(c)]
  <2>1. changed \in BOOLEAN
    OBVIOUS
  <2>2. PICK step \in {"setlast", "returned"} :
          call' = [call EXCEPT ![c].at = step, ![c].changed = changed]
    BY <1>5, Zenon DEF ReadLast
  <2> DEFINE k == [call[c] EXCEPT !.at = step, !.changed = changed]
  <2>3. call' = [call EXCEPT ![c] = k]
    BY <2>2
  <2> HIDE DEF changed
  <2>4. k \in Calls
    BY <1>1, <2>1 DEF Calls, CallSteps
  <2> HIDE DEF k
  <2> QED BY <2>3, <2>4, CallReplacedTyped
<1>6. CASE \/ DropInvisible(c) \/ DropDevices(c) \/ DropUserStates(c)
           \/ DecrementDevice(c) \/ DeleteState(c) \/ SetLast(c)
  <2>1. PICK step \in CallSteps : call' = [call EXCEPT ![c].at = step]
    BY <1>6 DEF DropInvisible, DropDevices, DropUserStates, DecrementDevice, DeleteState, SetLast, Goto,
                CallSteps
  <2> DEFINE k == [call[c] EXCEPT !.at = step]
  <2>2. k \in Calls
    BY <1>1 DEF Calls
  <2>3. call' = [call EXCEPT ![c] = k]
    BY <2>1
  <2> HIDE DEF k
  <2> QED BY <2>2, <2>3, CallReplacedTyped
<1> QED BY <1>2, <1>3, <1>4, <1>5, <1>6 DEF DisconnectStep

LEMMA StartTyped ==
  ASSUME NEW c \in Callers, NEW s \in Sessions, CallTyped, StartDisconnect(c, s) PROVE CallTyped'
BY NoCallTyped DEF CallTyped, Calls, StartDisconnect, CallSteps

LEMMA EndTyped ==
  ASSUME NEW c \in Callers, CallTyped, call' = [call EXCEPT ![c] = NoCall] PROVE CallTyped'
BY NoCallTyped DEF CallTyped

LEMMA GatewayLeavesCalls == ASSUME GatewayNext PROVE UNCHANGED call
<1> PICK s \in Sessions :
      \/ Dial(s) \/ ConnectStep(s) \/ Heartbeat(s)
      \/ \E state \in PresenceStates : SetState(s, state)
      \/ StateStep(s) \/ LoseConnection(s) \/ Schedule(s) \/ GatewayStops(s)
  BY DEF GatewayNext
<1>1. CASE ConnectStep(s)
  BY <1>1 DEF ConnectStep, ConnectSession, Hide, CountDevice, InitState, InitLast, ReadAggregate,
              AnnounceConnect, serviceVars
<1>2. CASE StateStep(s)
  BY <1>2 DEF StateStep, WriteState, ReadAllStates, CompareLast, CommitLast, CommitVersion, CountTabs,
              TellState, serviceVars
<1>3. CASE Dial(s) \/ Heartbeat(s) \/ LoseConnection(s) \/ Schedule(s) \/ GatewayStops(s)
  BY <1>3 DEF Dial, Heartbeat, LoseConnection, Schedule, GatewayStops, serviceVars
<1>4. CASE \E state \in PresenceStates : SetState(s, state)
  BY <1>4 DEF SetState, serviceVars
<1> QED BY <1>1, <1>2, <1>3, <1>4

LEMMA DebouncerTyped == ASSUME StoreTypeOK, CallTyped, DebouncerNext PROVE CallTyped'
<1> USE EngineAssumption
<1>1. ASSUME NEW d \in Debouncers, ExecuteStep(d) PROVE CallTyped'
  <2>1. CASE DisconnectStep(d)
    BY <2>1, DisconnectTyped
  <2>2. CASE RecordTransition(d) \/ AnnounceJob(d) \/ AnnouncePresence(d)
    BY <2>2 DEF RecordTransition, AnnounceJob, AnnouncePresence, serviceVars, CallTyped
  <2>3. CASE FinishJob(d)
    BY <2>3, EndTyped DEF FinishJob
  <2> QED BY <1>1, <2>1, <2>2, <2>3 DEF ExecuteStep
<1>2. ASSUME NEW d \in Debouncers, EnterScope(d) \/ LeaveScope(d) PROVE CallTyped'
  BY <1>2 DEF EnterScope, LeaveScope, serviceVars, CallTyped
<1>3. ASSUME NEW d \in Debouncers, DebouncerStops(d) PROVE CallTyped'
  BY <1>3, EndTyped DEF DebouncerStops
<1>4. ASSUME NEW d \in Debouncers, NEW j \in Jobs, TakeJob(d, j) PROVE CallTyped'
  BY <1>4, StartTyped DEF TakeJob, Jobs
<1>5. ASSUME NEW d \in Debouncers, NEW j \in Jobs, DropOrphan(d, j) PROVE CallTyped'
  BY <1>5 DEF DropOrphan, serviceVars, CallTyped
<1>6. ASSUME NEW j \in Jobs, JobExpires(j) PROVE CallTyped'
  BY <1>6 DEF JobExpires, serviceVars, CallTyped
<1>7. ASSUME NEW u \in Users, WindowPasses(u) PROVE CallTyped'
  BY <1>7 DEF WindowPasses, serviceVars, CallTyped
<1> QED BY <1>1, <1>2, <1>3, <1>4, <1>5, <1>6, <1>7 DEF DebouncerNext

-----------------------------------------------------------------------------
EngineInv == StoreInv /\ CallTyped

LEMMA EngineInitial == Init => EngineInv
<1> SUFFICES ASSUME Init PROVE EngineInv
  OBVIOUS
<1>1. StoreInv
  BY StoreInitial DEF Init, ServiceInit
<1>2. CallTyped
  BY NoCallTyped DEF Init, ServiceInit, CallTyped
<1> QED BY <1>1, <1>2 DEF EngineInv

LEMMA EngineInductive == ASSUME NoCleaners, EngineInv, [Next]_vars PROVE EngineInv'
<1>1. StoreInv'
  BY EngineOnStore, StoreStepKeeps DEF EngineInv
<1>2. CallTyped'
  <2> USE DEF EngineInv, StoreInv
  <2>1. CASE ByGateway(GatewayNext)
    BY <2>1, GatewayLeavesCalls DEF ByGateway, CallTyped
  <2>2. CASE ByDebouncer(DebouncerNext)
    BY <2>2, DebouncerTyped DEF ByDebouncer
  <2>3. CASE ExpiryNext \/ UNCHANGED vars
    BY <2>3 DEF ExpiryNext, Expire, vars, serviceVars, CallTyped
  <2>4. ~BySweeper(SweeperNext) /\ ~ByApi(ApiNext)
    BY DEF NoCleaners, BySweeper, SweeperNext, ByApi, ApiNext
  <2> QED BY <2>1, <2>2, <2>3, <2>4 DEF Next
<1> QED BY <1>1, <1>2 DEF EngineInv

\* Without sweeper and API requests the store keeps the invariant of its own
\* scripts, whatever gateways and debouncers do and whichever of them stop.
THEOREM EngineInvariant == NoCleaners => (Spec => []EngineInv)
<1> SUFFICES ASSUME NoCleaners PROVE Spec => []EngineInv
  OBVIOUS
<1>1. EngineInv /\ [Next]_vars => EngineInv'
  BY EngineInductive
<1> QED BY <1>1, EngineInitial, PTL DEF Spec

\* Whoever has a session is listed online and nobody else: no stop of a
\* gateway or of a worker, no lost event and no job executed twice separates the
\* two keys.
THEOREM EngineOnlineIndexed == NoCleaners => (Spec => []OnlineIffSessions)
<1> SUFFICES ASSUME NoCleaners PROVE Spec => []OnlineIffSessions
  OBVIOUS
<1>1. EngineInv => OnlineIffSessions
  BY DEF EngineInv, StoreInv
<1> QED BY <1>1, EngineInvariant, PTL

\* The scope of a user who is online is on the list that the workers walk, so that
\* neither the debouncer nor the sweeper passes it by.
THEOREM EngineScopeListed == NoCleaners => (Spec => []OnlineScopeListed)
<1> SUFFICES ASSUME NoCleaners PROVE Spec => []OnlineScopeListed
  OBVIOUS
<1>1. EngineInv => OnlineScopeListed
  BY DEF EngineInv, StoreInv
<1> QED BY <1>1, EngineInvariant, PTL

\* No step of any process takes a user on or off the list without a new version,
\* and no version is skipped or taken back.
THEOREM EngineVersionsOrder == NoCleaners => (Spec => VersionOrdersStatus)
<1> SUFFICES ASSUME NoCleaners PROVE Spec => VersionOrdersStatus
  OBVIOUS
<1>1. ASSUME EngineInv, [Next]_vars PROVE [Ordered]_storeVars
  <2>1. ASSUME NEW s \in Sessions, Script(s) PROVE Ordered
    BY <1>1, <2>1, ScriptOrdered DEF EngineInv
  <2>2. ASSUME NEW u \in Users, Bump(u) PROVE Ordered
    BY <1>1, <2>2 DEF Bump, Bumped, Ordered, EngineInv, StoreInv, StoreTypeOK
  <2> QED BY <1>1, <2>1, <2>2, EngineOnStore DEF EngineInv, StoreStep
<1> QED BY <1>1, EngineInvariant, PTL DEF Spec, VersionOrdersStatus, Ordered

\* The engine implements the abstract promise: a state a tab publishes is a Touch,
\* everything else a script or nothing.
THEOREM EngineImplementsAbs == NoCleaners => (Spec => AbsSpec)
<1> SUFFICES ASSUME NoCleaners PROVE Spec => AbsSpec
  OBVIOUS
<1>1. Init => Abs!Init
  BY DEF Init, ServiceInit, StoreInit, Abs!Init
<1>2. ASSUME EngineInv, [Next]_vars PROVE [Abs!Next]_(Abs!absVars)
  <2>1. ASSUME NEW s \in Sessions, Script(s) PROVE [Abs!Next]_(Abs!absVars)
    BY <1>2, <2>1, ScriptImplements DEF EngineInv
  <2>2. ASSUME NEW u \in Users, Bump(u) PROVE Abs!Touch(u)
    BY <2>2 DEF Bump, Bumped, Abs!Touch
  <2>3. CASE UNCHANGED storeVars
    BY <2>3 DEF storeVars, Abs!absVars
  <2> QED BY <1>2, <2>1, <2>2, <2>3, EngineOnStore DEF EngineInv, StoreStep, Abs!Next
<1> QED BY <1>1, <1>2, EngineInvariant, PTL DEF Spec, AbsSpec, Abs!Spec

-----------------------------------------------------------------------------
(***************************************************************************)
(* What is said of a user, and when.  A version v and a count n, held by a *)
(* process or believed by a subscriber, are exact when v has been given    *)
(* out and n is the count now if v is still the newest.                    *)
(***************************************************************************)
Exact(u, v, n) == /\ v <= userVersion[u]
                  /\ v = userVersion[u] => n = Cardinality(userSessions[u])

\* The same of the next state, of values known now.
ExactNext(u, v, n) == /\ v <= userVersion'[u]
                      /\ v = userVersion'[u] => n = Cardinality(userSessions'[u])

\* A step leaves a user alone or gives out the next version.
MovedOn(u) == \/ userVersion'[u] = userVersion[u] /\ userSessions'[u] = userSessions[u]
              \/ userVersion'[u] = userVersion[u] + 1

LEMMA ScriptMoves ==
  ASSUME NEW s \in Sessions, StoreTypeOK, Script(s), NEW u \in Users PROVE MovedOn(u)
<1> USE StoreAssumption DEF StoreTypeOK, MovedOn
<1>1. CASE ConnectScript(s)
  BY <1>1 DEF ConnectScript, ConnectSet, ConnectAdds, Bumped
<1>2. CASE DisconnectScript(s)
  BY <1>2 DEF DisconnectScript, DisconnectSet, DisconnectRemoves, Bumped
<1>3. CASE HeartbeatScript(s) \/ Age(s)
  BY <1>3 DEF HeartbeatScript, Age
<1> QED BY <1>1, <1>2, <1>3 DEF Script

LEMMA StoreMoves == ASSUME StoreTypeOK, StoreStep, NEW u \in Users PROVE MovedOn(u)
<1>1. ASSUME NEW w \in Users, Bump(w) PROVE MovedOn(u)
  BY <1>1 DEF Bump, Bumped, StoreTypeOK, MovedOn
<1>2. CASE UNCHANGED storeVars
  BY <1>2 DEF storeVars, MovedOn
<1> QED BY <1>1, <1>2, ScriptMoves DEF StoreStep

\* What is exact stays so.
LEMMA ExactKept ==
  ASSUME NEW u \in Users, NEW v \in Nat, NEW n, StoreTypeOK, StoreTypeOK', MovedOn(u), Exact(u, v, n)
  PROVE  ExactNext(u, v, n)
<1> PICK old \in Nat : old = userVersion[u]
  BY DEF StoreTypeOK
<1> PICK new \in Nat : new = userVersion'[u]
  BY DEF StoreTypeOK
<1>1. CASE new = old /\ userSessions'[u] = userSessions[u]
  BY <1>1 DEF Exact, ExactNext
<1>2. CASE new = old + 1
  <2>1. v <= new /\ v # new
    BY <1>2 DEF Exact
  <2> QED BY <2>1 DEF ExactNext
<1> QED BY <1>1, <1>2 DEF MovedOn

\* A script replies with the version and the count it leaves behind.
LEMMA RepliesExact ==
  ASSUME NEW s \in Sessions, StoreTypeOK
  PROVE  /\ ConnectScript(s) => ExactNext(UserOf[s], ConnectReply(s).version, ConnectReply(s).count)
         /\ DisconnectScript(s) => ExactNext(UserOf[s], DisconnectReply(s).version, DisconnectReply(s).count)
<1> USE StoreAssumption
<1>1. UserOf[s] \in Users
  OBVIOUS
<1>2. ASSUME ConnectScript(s)
      PROVE  ExactNext(UserOf[s], ConnectReply(s).version, ConnectReply(s).count)
  <2>1. ConnectReply(s).version = userVersion'[UserOf[s]]
    BY <1>2 DEF ConnectScript, ConnectReply
  <2>2. ConnectReply(s).count = Cardinality(userSessions'[UserOf[s]])
    BY <1>1, <1>2 DEF ConnectScript, ConnectReply, StoreTypeOK
  <2>3. userVersion'[UserOf[s]] \in Nat
    BY <1>1, <1>2 DEF ConnectScript, Bumped, StoreTypeOK
  <2> QED BY <2>1, <2>2, <2>3 DEF ExactNext
<1>3. ASSUME DisconnectScript(s)
      PROVE  ExactNext(UserOf[s], DisconnectReply(s).version, DisconnectReply(s).count)
  <2>1. DisconnectReply(s).version = userVersion'[UserOf[s]]
    BY <1>3 DEF DisconnectScript, DisconnectReply
  <2>2. DisconnectReply(s).count = Cardinality(userSessions'[UserOf[s]])
    BY <1>1, <1>3 DEF DisconnectScript, DisconnectReply, StoreTypeOK
  <2>3. userVersion'[UserOf[s]] \in Nat
    BY <1>1, <1>3 DEF DisconnectScript, Bumped, StoreTypeOK
  <2> QED BY <2>1, <2>2, <2>3 DEF ExactNext
<1> QED BY <1>2, <1>3

LEMMA ConnectReplyTyped ==
  ASSUME NEW s \in Sessions, StoreTypeOK PROVE ConnectReply(s) \in Replies
<1> USE StoreAssumption
<1>1. UserOf[s] \in Users
  OBVIOUS
<1>2. ConnectSet(s) \subseteq Sessions
  BY <1>1 DEF ConnectSet, StoreTypeOK
<1>3. Cardinality(ConnectSet(s)) \in Nat
  BY <1>2, FS_Subset, FS_CardinalityType
<1>4. Bumped(UserOf[s], ConnectAdds(s))[UserOf[s]] \in Nat
  BY <1>1 DEF Bumped, StoreTypeOK
<1> QED BY <1>3, <1>4 DEF ConnectReply, Replies

-----------------------------------------------------------------------------
\* What a connection holds is exact, but for the moment between the INCR and the
\* SCARD of a published state, when it has the version and not yet the count.
Conns == [at : ConnSteps, reply : Replies, state : PresenceStates \cup {NoState}]
ConnTyped == conn \in [Sessions -> Conns]

ConnExact == \A s \in Sessions : LET r == conn[s].reply IN
  IF conn[s].at = "card" THEN r.version <= userVersion[UserOf[s]]
  ELSE Exact(UserOf[s], r.version, r.count)

ExactConn(s, k) == IF k.at = "card" THEN k.reply.version <= userVersion'[UserOf[s]]
                   ELSE ExactNext(UserOf[s], k.reply.version, k.reply.count)

\* Of a user nobody has been told about yet.
ZeroExact == \A u \in Users : Exact(u, 0, 0)

LEMMA ConnKept ==
  ASSUME StoreTypeOK, StoreTypeOK', StoreStep, ConnTyped, ConnExact,
         NEW s \in Sessions
  PROVE  ExactConn(s, conn[s])
<1> USE StoreAssumption
<1>1. UserOf[s] \in Users /\ MovedOn(UserOf[s])
  BY StoreMoves
<1>2. conn[s].reply.version \in Nat
  BY DEF ConnTyped, Conns, Replies
<1>3. CASE conn[s].at = "card"
  <2> PICK old \in Nat : old = userVersion[UserOf[s]]
    BY <1>1 DEF StoreTypeOK
  <2> PICK new \in Nat : new = userVersion'[UserOf[s]]
    BY <1>1 DEF StoreTypeOK
  <2>1. new = old \/ new = old + 1
    BY <1>1 DEF MovedOn
  <2>2. conn[s].reply.version <= old
    BY <1>3 DEF ConnExact
  <2>3. conn[s].reply.version <= new
    BY <1>2, <2>1, <2>2
  <2> QED BY <1>3, <2>3 DEF ExactConn
<1>4. CASE conn[s].at # "card"
  <2>1. Exact(UserOf[s], conn[s].reply.version, conn[s].reply.count)
    BY <1>4 DEF ConnExact
  <2> QED BY <1>1, <1>2, <1>4, <2>1, ExactKept DEF ExactConn
<1> QED BY <1>3, <1>4

\* A step that replaces what one connection holds.
LEMMA ConnReplaced ==
  ASSUME StoreTypeOK, StoreTypeOK', StoreStep, ConnTyped, ConnExact, NEW s \in Sessions, NEW k \in Conns,
         conn' = [conn EXCEPT ![s] = k], ExactConn(s, k)
  PROVE  ConnTyped' /\ ConnExact'
<1>1. ConnTyped'
  BY DEF ConnTyped
<1>2. ASSUME NEW t \in Sessions PROVE ExactConn(t, conn'[t])
  <2>1. CASE t = s
    BY <2>1 DEF ConnTyped
  <2>2. CASE t # s
    BY <2>2, ConnKept DEF ConnTyped
  <2> QED BY <2>1, <2>2
<1>3. ConnExact'
  BY <1>2 DEF ExactConn, ConnExact, Exact, ExactNext
<1> QED BY <1>1, <1>3

\* A step that goes on with the same reply, and one that ends without any.
LEMMA ConnGoesOn ==
  ASSUME StoreTypeOK, StoreTypeOK', StoreStep, ConnTyped, ConnExact, NEW s \in Sessions, NEW k \in Conns,
         conn' = [conn EXCEPT ![s] = k], k.reply = conn[s].reply, conn[s].at # "card", k.at # "card"
  PROVE  ConnTyped' /\ ConnExact'
<1>1. ExactConn(s, k)
  BY ConnKept DEF ExactConn
<1> QED BY <1>1, ConnReplaced

LEMMA ConnEnds ==
  ASSUME StoreTypeOK, StoreTypeOK', StoreStep, ConnTyped, ConnExact, ZeroExact, NEW s \in Sessions,
         NEW k \in {Up, NoConn}, conn' = [conn EXCEPT ![s] = k]
  PROVE  ConnTyped' /\ ConnExact'
<1> USE StoreAssumption
<1>1. k \in Conns /\ k.at # "card" /\ k.reply.version = 0 /\ k.reply.count = 0
  BY DEF Up, NoConn, NoReply, Conns, ConnSteps, Replies
<1>2. UserOf[s] \in Users /\ MovedOn(UserOf[s]) /\ Exact(UserOf[s], 0, 0)
  BY StoreMoves DEF ZeroExact
<1>3. ExactConn(s, k)
  BY <1>1, <1>2, ExactKept DEF ExactConn
<1> QED BY <1>1, <1>3, ConnReplaced

LEMMA ConnectConnExact ==
  ASSUME StoreTypeOK, StoreTypeOK', StoreStep, ConnTyped, ConnExact, ZeroExact, NEW s \in Sessions, ConnectStep(s)
  PROVE  ConnTyped' /\ ConnExact'
<1> USE DEF ConnTyped, ConnSteps
<1>1. CASE ConnectSession(s)
  <2> DEFINE r == ConnectReply(s)
  <2>1. r \in Replies /\ ExactNext(UserOf[s], r.version, r.count)
    BY <1>1, ConnectReplyTyped, RepliesExact DEF ConnectSession
  <2> HIDE DEF r
  <2>2. PICK step \in {"hide", "device", "initstate"}, reply \in Replies :
          /\ conn' = [conn EXCEPT ![s].at = step, ![s].reply = reply]
          /\ reply.version = r.version /\ reply.count = r.count
    <3>1. [r EXCEPT !.transition = "invisible"] \in Replies
      BY <2>1 DEF Replies
    <3>2. PICK reply \in {r, [r EXCEPT !.transition = "invisible"]} :
            conn' = [conn EXCEPT
              ![s].at = IF s \in Invisible THEN "hide" ELSE IF s \in Typed THEN "device" ELSE "initstate",
              ![s].reply = reply]
      BY <1>1, Zenon DEF ConnectSession, r
    <3>3. reply \in Replies /\ reply.version = r.version /\ reply.count = r.count
      BY <2>1, <3>1, <3>2 DEF Replies
    <3> QED BY <3>2, <3>3
  <2> DEFINE k == [conn[s] EXCEPT !.at = step, !.reply = reply]
  <2>3. k \in Conns /\ k.reply = reply /\ k.at = step
    BY DEF Conns
  <2>4. conn' = [conn EXCEPT ![s] = k]
    BY <2>2
  <2>5. ExactConn(s, k)
    BY <2>1, <2>2, <2>3 DEF ExactConn
  <2> HIDE DEF k
  <2> QED BY <2>3, <2>4, <2>5, ConnReplaced
<1>2. CASE Hide(s) \/ CountDevice(s) \/ InitState(s) \/ InitLast(s)
  <2>1. PICK from \in {"hide", "device", "initstate", "initlast"},
             to \in {"device", "initstate", "initlast", "aggregate"} : ConnGoto(s, from, to)
    BY <1>2 DEF Hide, CountDevice, InitState, InitLast
  <2> DEFINE k == [conn[s] EXCEPT !.at = to]
  <2>2. k \in Conns /\ k.reply = conn[s].reply /\ k.at = to /\ conn[s].at # "card"
    BY <2>1 DEF Conns, ConnGoto
  <2>3. conn' = [conn EXCEPT ![s] = k]
    BY <2>1 DEF ConnGoto
  <2> HIDE DEF k
  <2> QED BY <2>2, <2>3, ConnGoesOn
<1>3. CASE ReadAggregate(s)
  <2> DEFINE k == [conn[s] EXCEPT !.at = "announce", !.state = Aggregate(UserOf[s])]
  <2>1. k \in Conns /\ k.reply = conn[s].reply /\ k.at = "announce" /\ conn[s].at # "card"
    BY <1>3, AggregateTyped DEF ReadAggregate, Conns
  <2>2. conn' = [conn EXCEPT ![s] = k]
    BY <1>3 DEF ReadAggregate
  <2> HIDE DEF k
  <2> QED BY <2>1, <2>2, ConnGoesOn
<1>4. CASE AnnounceConnect(s)
  BY <1>4, ConnEnds DEF AnnounceConnect
<1> QED BY <1>1, <1>2, <1>3, <1>4 DEF ConnectStep

LEMMA StateConnExact ==
  ASSUME StoreTypeOK, StoreTypeOK', StoreStep, ConnTyped, ConnExact, ZeroExact, NEW s \in Sessions, StateStep(s)
  PROVE  ConnTyped' /\ ConnExact'
<1> USE StoreAssumption DEF ConnTyped, ConnSteps
<1>1. CASE WriteState(s) \/ CommitLast(s)
  <2>1. PICK from \in {"hset", "commit"}, to \in {"hgetall", "incr"} : ConnGoto(s, from, to)
    BY <1>1 DEF WriteState, CommitLast
  <2> DEFINE k == [conn[s] EXCEPT !.at = to]
  <2>2. k \in Conns /\ k.reply = conn[s].reply /\ k.at = to /\ conn[s].at # "card"
    BY <2>1 DEF Conns, ConnGoto
  <2>3. conn' = [conn EXCEPT ![s] = k]
    BY <2>1 DEF ConnGoto
  <2> HIDE DEF k
  <2> QED BY <2>2, <2>3, ConnGoesOn
<1>2. CASE ReadAllStates(s)
  <2> DEFINE k == [conn[s] EXCEPT !.at = "getlast", !.state = Aggregate(UserOf[s])]
  <2>1. k \in Conns /\ k.reply = conn[s].reply /\ k.at = "getlast" /\ conn[s].at # "card"
    BY <1>2, AggregateTyped DEF ReadAllStates, Conns
  <2>2. conn' = [conn EXCEPT ![s] = k]
    BY <1>2 DEF ReadAllStates
  <2> HIDE DEF k
  <2> QED BY <2>1, <2>2, ConnGoesOn
<1>3. CASE CompareLast(s)
  <2>1. CASE conn' = [conn EXCEPT ![s] = Up]
    BY <2>1, ConnEnds
  <2>2. CASE conn' = [conn EXCEPT ![s].at = "commit"]
    <3> DEFINE k == [conn[s] EXCEPT !.at = "commit"]
    <3>1. k \in Conns /\ k.reply = conn[s].reply /\ k.at = "commit" /\ conn[s].at # "card"
      BY <1>3 DEF CompareLast, Conns
    <3>2. conn' = [conn EXCEPT ![s] = k]
      BY <2>2
    <3> HIDE DEF k
    <3> QED BY <3>1, <3>2, ConnGoesOn
  <2> QED BY <1>3, <2>1, <2>2 DEF CompareLast
<1>4. CASE CommitVersion(s)
  <2>1. PICK v \in Nat : v = userVersion'[UserOf[s]] /\ v = userVersion[UserOf[s]] + 1
    BY <1>4 DEF CommitVersion, Bumped, StoreTypeOK
  <2> DEFINE reply == [conn[s].reply EXCEPT !.version = v]
             k == [conn[s] EXCEPT !.at = "card", !.reply = reply]
  <2>2. k \in Conns /\ k.at = "card" /\ k.reply.version = v
    <3>1. reply \in Replies /\ reply.version = v
      BY DEF Conns, Replies
    <3> HIDE DEF reply
    <3> QED BY <3>1 DEF Conns
  <2>3. conn' = [conn EXCEPT ![s] = k]
    BY <1>4, <2>1 DEF CommitVersion
  <2>4. ExactConn(s, k)
    BY <2>1, <2>2 DEF ExactConn
  <2> HIDE DEF k
  <2> QED BY <2>2, <2>3, <2>4, ConnReplaced
<1>5. CASE CountTabs(s)
  <2> DEFINE n == Cardinality(userSessions[UserOf[s]])
             reply == [conn[s].reply EXCEPT !.count = n]
             k == [conn[s] EXCEPT !.at = "tell", !.reply = reply]
  <2>1. UserOf[s] \in Users /\ userSessions[UserOf[s]] \subseteq Sessions
    BY DEF StoreTypeOK
  <2>2. n \in Nat
    BY <2>1, FS_Subset, FS_CardinalityType
  <2> HIDE DEF n
  <2>3. k \in Conns /\ k.at = "tell" /\ k.reply.version = conn[s].reply.version /\ k.reply.count = n
    <3>1. reply \in Replies /\ reply.version = conn[s].reply.version /\ reply.count = n
      BY <2>2 DEF Conns, Replies
    <3> HIDE DEF reply
    <3> QED BY <3>1 DEF Conns
  <2>4. conn' = [conn EXCEPT ![s] = k]
    BY <1>5 DEF CountTabs, n
  <2> HIDE DEF k
  <2>5. conn[s].at = "card" /\ userSessions' = userSessions /\ userVersion' = userVersion
    BY <1>5 DEF CountTabs, serviceVars, storeVars
  <2>6. ExactConn(s, k)
    BY <2>3, <2>5 DEF ExactConn, ExactNext, ConnExact, n
  <2> QED BY <2>3, <2>4, <2>6, ConnReplaced
<1>6. CASE TellState(s)
  BY <1>6, ConnEnds DEF TellState
<1> QED BY <1>1, <1>2, <1>3, <1>4, <1>5, <1>6 DEF StateStep

\* A step of another process leaves what connections hold exact.
LEMMA ConnLeft ==
  ASSUME StoreTypeOK, StoreTypeOK', StoreStep, ConnTyped, ConnExact, UNCHANGED conn
  PROVE  ConnTyped' /\ ConnExact'
<1>1. ASSUME NEW s \in Sessions PROVE ExactConn(s, conn[s])
  BY ConnKept
<1> QED BY <1>1 DEF ConnTyped, ConnExact, ExactConn, Exact, ExactNext

LEMMA GatewayConnExact ==
  ASSUME StoreTypeOK, StoreTypeOK', ConnTyped, ConnExact, ZeroExact, GatewayNext
  PROVE  ConnTyped' /\ ConnExact'
<1> USE DEF ConnTyped, ConnSteps
<1>1. StoreStep
  BY GatewayOnStore
<1> PICK s \in Sessions :
      \/ Dial(s) \/ ConnectStep(s) \/ Heartbeat(s)
      \/ \E state \in PresenceStates : SetState(s, state)
      \/ StateStep(s) \/ LoseConnection(s) \/ Schedule(s) \/ GatewayStops(s)
  BY DEF GatewayNext
<1>2. CASE ConnectStep(s)
  BY <1>1, <1>2, ConnectConnExact
<1>3. CASE StateStep(s)
  BY <1>1, <1>3, StateConnExact
<1>4. CASE Dial(s) \/ LoseConnection(s)
  <2>1. PICK from \in {"idle", "up"}, to \in {"connect", "closing"} : ConnGoto(s, from, to)
    BY <1>4 DEF Dial, LoseConnection
  <2> DEFINE k == [conn[s] EXCEPT !.at = to]
  <2>2. k \in Conns /\ k.reply = conn[s].reply /\ k.at = to /\ conn[s].at # "card"
    BY <2>1 DEF Conns, ConnGoto
  <2>3. conn' = [conn EXCEPT ![s] = k]
    BY <2>1 DEF ConnGoto
  <2> HIDE DEF k
  <2> QED BY <1>1, <2>2, <2>3, ConnGoesOn
<1>5. CASE Heartbeat(s)
  <2>1. CASE conn' = conn
    BY <1>1, <2>1, ConnLeft
  <2>2. CASE conn' = [conn EXCEPT ![s].at = "closing"]
    <3> DEFINE k == [conn[s] EXCEPT !.at = "closing"]
    <3>1. k \in Conns /\ k.reply = conn[s].reply /\ k.at = "closing" /\ conn[s].at # "card"
      BY <1>5 DEF Conns, Heartbeat
    <3>2. conn' = [conn EXCEPT ![s] = k]
      BY <2>2
    <3> HIDE DEF k
    <3> QED BY <1>1, <3>1, <3>2, ConnGoesOn
  <2> QED BY <1>5, <2>1, <2>2 DEF Heartbeat
<1>6. ASSUME NEW state \in PresenceStates, SetState(s, state) PROVE ConnTyped' /\ ConnExact'
  <2> DEFINE k == [conn[s] EXCEPT !.at = "hset", !.state = state]
  <2>1. k \in Conns /\ k.reply = conn[s].reply /\ k.at = "hset" /\ conn[s].at # "card"
    BY <1>6 DEF Conns, SetState
  <2>2. conn' = [conn EXCEPT ![s] = k]
    BY <1>6 DEF SetState
  <2> HIDE DEF k
  <2> QED BY <1>1, <2>1, <2>2, ConnGoesOn
<1>7. CASE Schedule(s) \/ GatewayStops(s)
  BY <1>1, <1>7, ConnEnds DEF Schedule, GatewayStops
<1> QED BY <1>2, <1>3, <1>4, <1>5, <1>6, <1>7

-----------------------------------------------------------------------------
\* What a caller of Disconnect was replied is exact.
CallExact == \A c \in Callers :
  Exact(UserOf[call[c].session], call[c].reply.version, call[c].reply.count)

ExactCall(k) == ExactNext(UserOf[k.session], k.reply.version, k.reply.count)

LEMMA CallKept ==
  ASSUME StoreTypeOK, StoreTypeOK', StoreStep, CallTyped, CallExact, NEW c \in Callers
  PROVE  ExactCall(call[c])
<1> USE StoreAssumption DEF CallTyped, Calls, Replies
<1>1. UserOf[call[c].session] \in Users /\ call[c].reply.version \in Nat
  OBVIOUS
<1>2. Exact(UserOf[call[c].session], call[c].reply.version, call[c].reply.count)
  BY DEF CallExact
<1> QED BY <1>1, <1>2, StoreMoves, ExactKept DEF ExactCall

LEMMA CallReplaced ==
  ASSUME StoreTypeOK, StoreTypeOK', StoreStep, CallTyped, CallExact, NEW c \in Callers, NEW k \in Calls,
         call' = [call EXCEPT ![c] = k], ExactCall(k)
  PROVE  CallExact'
<1>1. ASSUME NEW e \in Callers PROVE ExactCall(call'[e])
  BY CallKept DEF CallTyped
<1> QED BY <1>1 DEF ExactCall, CallExact, Exact, ExactNext

LEMMA CallLeft ==
  ASSUME StoreTypeOK, StoreTypeOK', StoreStep, CallTyped, CallExact, UNCHANGED call
  PROVE  CallExact'
<1>1. ASSUME NEW c \in Callers PROVE ExactCall(call[c])
  BY CallKept
<1> QED BY <1>1 DEF ExactCall, CallExact, Exact, ExactNext

\* A caller that has just begun, or has ended, was replied nothing yet.
LEMMA CallCleared ==
  ASSUME StoreTypeOK, StoreTypeOK', StoreStep, CallTyped, CallExact, ZeroExact, NEW c \in Callers,
         NEW k \in Calls, k.reply = NoReply, call' = [call EXCEPT ![c] = k]
  PROVE  CallExact'
<1> USE StoreAssumption
<1>1. UserOf[k.session] \in Users /\ k.reply.version = 0 /\ k.reply.count = 0
  BY DEF Calls, NoReply
<1>2. ExactCall(k)
  BY <1>1, StoreMoves, ExactKept DEF ExactCall, ZeroExact
<1> QED BY <1>2, CallReplaced

LEMMA DisconnectCallExact ==
  ASSUME StoreTypeOK, StoreTypeOK', CallTyped, CallExact, NEW c \in Callers, DisconnectStep(c)
  PROVE  CallExact'
<1>1. StoreStep
  BY DisconnectOnStore
<1>2. CallTyped'
  BY DisconnectTyped
<1>3. CASE RunScript(c)
  <2>1. call[c].session \in Sessions /\ DisconnectScript(call[c].session)
    BY <1>3 DEF RunScript, CallTyped, Calls
  <2>2. call'[c].reply = DisconnectReply(call[c].session) /\ call'[c].session = call[c].session
    BY <1>3 DEF RunScript, CallTyped, Calls
  <2>3. ExactCall(call'[c])
    BY <2>1, <2>2, RepliesExact DEF ExactCall
  <2>4. \A e \in Callers : ExactCall(call'[e])
    BY <1>1, <1>3, <2>3, CallKept DEF RunScript, CallTyped
  <2> QED BY <2>4 DEF ExactCall, CallExact, Exact, ExactNext
<1>4. CASE ~RunScript(c)
  <2>1. call'[c].reply = call[c].reply /\ call'[c].session = call[c].session
    <3> USE DEF CallTyped, Calls
    <3>1. CASE GetMeta(c) \/ ReadStates(c) \/ ReadLast(c)
      BY <3>1 DEF GetMeta, ReadStates, ReadLast
    <3>2. CASE DropInvisible(c) \/ DropDevices(c) \/ DropUserStates(c)
      BY <3>2 DEF DropInvisible, DropDevices, DropUserStates, Goto
    <3>3. CASE DecrementDevice(c) \/ DeleteState(c) \/ SetLast(c)
      BY <3>3 DEF DecrementDevice, DeleteState, SetLast, Goto
    <3> QED BY <1>4, <3>1, <3>2, <3>3 DEF DisconnectStep
  <2>2. \A e \in Callers \ {c} : call'[e] = call[e]
    <3>1. CASE GetMeta(c) \/ ReadStates(c) \/ ReadLast(c)
      BY <3>1 DEF GetMeta, ReadStates, ReadLast, CallTyped
    <3>2. CASE DropInvisible(c) \/ DropDevices(c) \/ DropUserStates(c)
      BY <3>2 DEF DropInvisible, DropDevices, DropUserStates, Goto, CallTyped
    <3>3. CASE DecrementDevice(c) \/ DeleteState(c) \/ SetLast(c)
      BY <3>3 DEF DecrementDevice, DeleteState, SetLast, Goto, CallTyped
    <3> QED BY <1>4, <3>1, <3>2, <3>3 DEF DisconnectStep
  <2>3. \A e \in Callers : ExactCall(call[e])
    BY <1>1, CallKept
  <2> QED BY <2>1, <2>2, <2>3 DEF ExactCall, CallExact, Exact, ExactNext
<1> QED BY <1>3, <1>4

LEMMA DebouncerCallExact ==
  ASSUME StoreTypeOK, StoreTypeOK', CallTyped, CallExact, ZeroExact, DebouncerNext
  PROVE  CallExact'
<1> USE EngineAssumption
<1>1. StoreStep
  BY DebouncerOnStore
<1>2. ASSUME NEW d \in Debouncers, ExecuteStep(d) PROVE CallExact'
  <2>1. CASE DisconnectStep(d)
    BY <2>1, DisconnectCallExact
  <2>2. CASE RecordTransition(d) \/ AnnounceJob(d) \/ AnnouncePresence(d)
    BY <1>1, <2>2, CallLeft DEF RecordTransition, AnnounceJob, AnnouncePresence, serviceVars
  <2>3. CASE FinishJob(d)
    BY <1>1, <2>3, NoCallTyped, CallCleared DEF FinishJob, NoCall
  <2> QED BY <1>2, <2>1, <2>2, <2>3 DEF ExecuteStep
<1>3. ASSUME NEW d \in Debouncers, EnterScope(d) \/ LeaveScope(d) PROVE CallExact'
  BY <1>1, <1>3, CallLeft DEF EnterScope, LeaveScope, serviceVars
<1>4. ASSUME NEW d \in Debouncers, DebouncerStops(d) PROVE CallExact'
  BY <1>1, <1>4, NoCallTyped, CallCleared DEF DebouncerStops, NoCall
<1>5. ASSUME NEW d \in Debouncers, NEW j \in Jobs, TakeJob(d, j) PROVE CallExact'
  <2> DEFINE k == [NoCall EXCEPT !.at = "get", !.session = j[1]]
  <2>1. k \in Calls /\ k.reply = NoReply
    BY NoCallTyped DEF Calls, CallSteps, Jobs, NoCall
  <2>2. call' = [call EXCEPT ![d] = k]
    BY <1>5 DEF TakeJob, StartDisconnect
  <2> HIDE DEF k
  <2> QED BY <1>1, <2>1, <2>2, CallCleared
<1>6. ASSUME NEW d \in Debouncers, NEW j \in Jobs, DropOrphan(d, j) PROVE CallExact'
  BY <1>1, <1>6, CallLeft DEF DropOrphan, serviceVars
<1>7. ASSUME NEW j \in Jobs, JobExpires(j) PROVE CallExact'
  BY <1>1, <1>7, CallLeft DEF JobExpires, serviceVars
<1>8. ASSUME NEW u \in Users, WindowPasses(u) PROVE CallExact'
  BY <1>1, <1>8, CallLeft DEF WindowPasses, serviceVars
<1> QED BY <1>2, <1>3, <1>4, <1>5, <1>6, <1>7, <1>8 DEF DebouncerNext

-----------------------------------------------------------------------------
\* What a subscriber believes is exact.
ViewExact == \A u \in Users : Exact(u, view[u].version, view[u].tabs)

PresenceEvents == [type : EventTypes, version : Nat, tabs : Nat, state : PresenceStates \cup {NoState}]

LEMMA ViewLeft ==
  ASSUME StoreTypeOK, StoreTypeOK', StoreStep, ViewTypeOK, ViewExact, UNCHANGED view
  PROVE  ViewTypeOK' /\ ViewExact'
<1>1. \A u \in Users : ExactNext(u, view[u].version, view[u].tabs)
  BY StoreMoves, ExactKept DEF ViewExact, ViewTypeOK
<1> QED BY <1>1 DEF ViewTypeOK, ViewExact, Exact, ExactNext

LEMMA PublishedExact ==
  ASSUME ViewTypeOK, ViewExact, UNCHANGED storeVars, NEW u \in Users, NEW e \in PresenceEvents,
         Exact(u, e.version, e.tabs), Publish(u, e)
  PROVE  ViewTypeOK' /\ ViewExact'
<1>1. userVersion' = userVersion /\ userSessions' = userSessions
  BY DEF storeVars
<1>2. view' = view \/ view' = [view EXCEPT ![u] = e]
  <2>1. view' = view \/ view' = [view EXCEPT ![u] = IF e.version > @.version THEN e ELSE @]
    BY DEF Publish
  <2> QED BY <2>1 DEF ViewTypeOK
<1>3. CASE view' = view
  BY <1>1, <1>3 DEF ViewTypeOK, ViewExact, Exact
<1>4. CASE view' = [view EXCEPT ![u] = e]
  <2>1. ViewTypeOK'
    BY <1>4 DEF ViewTypeOK, PresenceEvents
  <2>2. \A w \in Users : Exact(w, view'[w].version, view'[w].tabs)
    BY <1>4 DEF ViewTypeOK, ViewExact
  <2> QED BY <1>1, <2>1, <2>2 DEF ViewExact, Exact
<1> QED BY <1>2, <1>3, <1>4

LEMMA GatewayViewExact ==
  ASSUME StoreTypeOK, StoreTypeOK', ConnTyped, ConnExact, ViewTypeOK, ViewExact, GatewayNext
  PROVE  ViewTypeOK' /\ ViewExact'
<1> USE StoreAssumption
<1>1. StoreStep
  BY GatewayOnStore
<1> PICK s \in Sessions :
      \/ Dial(s) \/ ConnectStep(s) \/ Heartbeat(s)
      \/ \E state \in PresenceStates : SetState(s, state)
      \/ StateStep(s) \/ LoseConnection(s) \/ Schedule(s) \/ GatewayStops(s)
  BY DEF GatewayNext
<1> DEFINE r == conn[s].reply
<1>2. /\ UserOf[s] \in Users /\ r.version \in Nat /\ r.count \in Nat
      /\ conn[s].state \in PresenceStates \cup {NoState}
  BY DEF ConnTyped, Conns, Replies
<1>3. CASE AnnounceConnect(s)
  <2>1. Exact(UserOf[s], r.version, r.count)
    BY <1>3 DEF AnnounceConnect, ConnExact
  <2>2. UNCHANGED storeVars
    BY <1>3 DEF AnnounceConnect
  <2>3. CASE UNCHANGED view
    BY <1>1, <2>3, ViewLeft
  <2>4. CASE view' # view
    <3> DEFINE e == PresenceEvent(IF r.transition = "online" THEN "user_online" ELSE "user_tabs",
                                  r.version, r.count, conn[s].state)
    <3>1. e \in PresenceEvents /\ e.version = r.version /\ e.tabs = r.count
      BY <1>2 DEF PresenceEvent, PresenceEvents, EventTypes
    <3>2. Publish(UserOf[s], e)
      BY <1>3, <2>4 DEF AnnounceConnect
    <3> HIDE DEF e
    <3> QED BY <1>2, <2>1, <2>2, <3>1, <3>2, PublishedExact
  <2> QED BY <2>3, <2>4
<1>4. CASE TellState(s)
  <2> DEFINE e == PresenceEvent("user_presence", r.version, r.count, conn[s].state)
  <2>1. e \in PresenceEvents /\ Exact(UserOf[s], e.version, e.tabs)
    BY <1>2, <1>4 DEF PresenceEvent, PresenceEvents, EventTypes, TellState, ConnExact
  <2>2. Publish(UserOf[s], e) /\ UNCHANGED storeVars
    BY <1>4 DEF TellState
  <2> HIDE DEF e
  <2> QED BY <1>2, <2>1, <2>2, PublishedExact
<1>5. ASSUME ~AnnounceConnect(s), ~TellState(s) PROVE UNCHANGED view
  <2>1. CASE ConnectStep(s)
    BY <1>5, <2>1 DEF ConnectStep, ConnectSession, Hide, CountDevice, InitState, InitLast, ReadAggregate, serviceVars
  <2>2. CASE StateStep(s)
    BY <1>5, <2>2 DEF StateStep, WriteState, ReadAllStates, CompareLast, CommitLast, CommitVersion, CountTabs,
                      serviceVars
  <2>3. CASE Dial(s) \/ Heartbeat(s) \/ LoseConnection(s) \/ Schedule(s) \/ GatewayStops(s)
    BY <2>3 DEF Dial, Heartbeat, LoseConnection, Schedule, GatewayStops, serviceVars
  <2>4. CASE \E state \in PresenceStates : SetState(s, state)
    BY <2>4 DEF SetState, serviceVars
  <2> QED BY <2>1, <2>2, <2>3, <2>4
<1> QED BY <1>1, <1>3, <1>4, <1>5, ViewLeft

LEMMA DebouncerViewExact ==
  ASSUME StoreTypeOK, StoreTypeOK', CallTyped, CallExact, ViewTypeOK, ViewExact, DebouncerNext
  PROVE  ViewTypeOK' /\ ViewExact'
<1> USE StoreAssumption, EngineAssumption
<1>1. StoreStep
  BY DebouncerOnStore
<1>2. ASSUME NEW d \in Debouncers, AnnounceJob(d) \/ AnnouncePresence(d) PROVE ViewTypeOK' /\ ViewExact'
  <2> DEFINE r == call[d].reply
             offline == OfflineEvent(r)
             tabs == TabsEvent(r, call[d].agg)
             presence == PresenceEvent("user_presence", r.version, r.count, call[d].agg)
  <2>1. /\ UserOfCall(d) \in Users /\ r.version \in Nat /\ r.count \in Nat
        /\ call[d].agg \in PresenceStates \cup {NoState}
    BY DEF CallTyped, Calls, Replies, UserOfCall
  <2>2. Exact(UserOfCall(d), r.version, r.count)
    BY DEF CallExact, UserOfCall
  <2>3. \A e \in {offline, tabs, presence} : e \in PresenceEvents /\ Exact(UserOfCall(d), e.version, e.tabs)
    BY <2>1, <2>2 DEF OfflineEvent, TabsEvent, PresenceEvent, PresenceEvents, EventTypes
  <2>4. UNCHANGED storeVars
    BY <1>2 DEF AnnounceJob, AnnouncePresence
  <2>5. UNCHANGED view \/ \E e \in {offline, tabs, presence} : Publish(UserOfCall(d), e)
    BY <1>2 DEF AnnounceJob, AnnouncePresence
  <2> HIDE DEF offline, tabs, presence
  <2> QED BY <1>1, <2>1, <2>3, <2>4, <2>5, PublishedExact, ViewLeft
<1>3. ASSUME NEW d \in Debouncers, DisconnectStep(d) PROVE UNCHANGED view
  BY <1>3 DEF DisconnectStep, GetMeta, RunScript, DropInvisible, DropDevices, DropUserStates, DecrementDevice,
              DeleteState, ReadStates, ReadLast, SetLast
<1>4. ASSUME NEW d \in Debouncers, RecordTransition(d) \/ FinishJob(d) \/ EnterScope(d) \/ LeaveScope(d)
               \/ DebouncerStops(d) \/ \E j \in Jobs : TakeJob(d, j) \/ DropOrphan(d, j)
      PROVE  UNCHANGED view
  BY <1>4 DEF RecordTransition, FinishJob, EnterScope, LeaveScope, DebouncerStops, TakeJob, DropOrphan, serviceVars
<1>5. ASSUME (\E j \in Jobs : JobExpires(j)) \/ (\E u \in Users : WindowPasses(u)) PROVE UNCHANGED view
  BY <1>5 DEF JobExpires, WindowPasses, serviceVars
<1> QED BY <1>1, <1>2, <1>3, <1>4, <1>5, ViewLeft DEF DebouncerNext, ExecuteStep

-----------------------------------------------------------------------------
TellInv == /\ EngineInv /\ ConnTyped /\ ViewTypeOK
           /\ ZeroExact /\ ConnExact /\ CallExact /\ ViewExact

LEMMA TellInitial == Init => TellInv
<1> SUFFICES ASSUME Init PROVE TellInv
  OBVIOUS
<1> USE StoreAssumption DEF Init, ServiceInit, GatewayInit, ViewInit, StoreInit
<1>1. EngineInv
  BY EngineInitial
<1>2. \A u \in Users : Exact(u, 0, 0)
  BY FS_EmptySet DEF Exact
<1>3. NoConn \in Conns /\ NoConn.at # "card" /\ NoConn.reply.version = 0 /\ NoConn.reply.count = 0
  BY DEF NoConn, NoReply, Conns, ConnSteps, Replies
<1>4. ConnTyped /\ ConnExact
  <2> HIDE DEF NoConn
  <2> QED BY <1>2, <1>3 DEF ConnTyped, ConnExact
<1>5. Unheard \in PresenceEvents /\ Unheard.version = 0 /\ Unheard.tabs = 0
  BY DEF Unheard, PresenceEvent, PresenceEvents, EventTypes
<1>6. ViewTypeOK /\ ViewExact
  BY <1>2, <1>5 DEF ViewTypeOK, ViewExact, PresenceEvents
<1>7. CallExact
  <2>1. \A c \in Callers : call[c] = NoCall
    OBVIOUS
  <2>2. UserOf[NoCall.session] \in Users /\ NoCall.reply.version = 0 /\ NoCall.reply.count = 0
    BY NoCallTyped DEF NoCall, NoReply, Calls
  <2> QED BY <1>2, <2>1, <2>2 DEF CallExact
<1> QED BY <1>1, <1>2, <1>4, <1>6, <1>7 DEF TellInv, ZeroExact

LEMMA TellInductive == ASSUME NoCleaners, TellInv, [Next]_vars PROVE TellInv'
<1> USE DEF TellInv
<1>1. EngineInv'
  BY EngineInductive
<1>2. StoreTypeOK /\ StoreTypeOK' /\ CallTyped
  BY <1>1 DEF EngineInv, StoreInv
<1>3. StoreStep
  BY <1>2, EngineOnStore
<1>4. ZeroExact'
  <2>1. \A u \in Users : ExactNext(u, 0, 0)
    BY <1>2, <1>3, StoreMoves, ExactKept DEF ZeroExact
  <2> QED BY <2>1 DEF ZeroExact, Exact, ExactNext
<1>5. CASE ByGateway(GatewayNext)
  BY <1>1, <1>2, <1>3, <1>4, <1>5, GatewayConnExact, GatewayViewExact, GatewayLeavesCalls, CallLeft DEF ByGateway
<1>6. CASE ByDebouncer(DebouncerNext)
  BY <1>1, <1>2, <1>3, <1>4, <1>6, DebouncerCallExact, DebouncerViewExact, ConnLeft DEF ByDebouncer, gatewayVars
<1>7. CASE ExpiryNext \/ UNCHANGED vars
  <2>1. UNCHANGED <<conn, call, view>>
    BY <1>7 DEF ExpiryNext, Expire, gatewayVars, vars, serviceVars
  <2> QED BY <1>1, <1>2, <1>3, <1>4, <2>1, ConnLeft, CallLeft, ViewLeft
<1>8. ~BySweeper(SweeperNext) /\ ~ByApi(ApiNext)
  BY DEF NoCleaners, BySweeper, SweeperNext, ByApi, ApiNext
<1> QED BY <1>5, <1>6, <1>7, <1>8 DEF Next

\* Whatever count a connection, a call of Disconnect or a job carries, and whatever
\* a subscriber has applied, it is the count its version stands for.
THEOREM TellInvariant == NoCleaners => (Spec => []TellInv)
<1> SUFFICES ASSUME NoCleaners PROVE Spec => []TellInv
  OBVIOUS
<1>1. TellInv /\ [Next]_vars => TellInv'
  BY TellInductive
<1> QED BY <1>1, TellInitial, PTL DEF Spec

\* A subscriber with the newest version of a user has the right number of tabs,
\* and none is ahead of the store: no event in flight, in whichever process and
\* however late, can make a subscriber believe a count that never belonged to
\* the version it carries.
THEOREM NewestViewAlwaysExact == NoCleaners => (Spec => []NewestViewExact)
<1> SUFFICES ASSUME NoCleaners PROVE Spec => []NewestViewExact
  OBVIOUS
<1>1. TellInv => NewestViewExact
  BY DEF TellInv, ViewExact, Exact, NewestViewExact
<1> QED BY <1>1, TellInvariant, PTL

-----------------------------------------------------------------------------
(***************************************************************************)
(* With a fresh session id for every connection, as the gateway makes them *)
(* (MaxConns = 1), a job and whatever executes it concern a session whose  *)
(* only connection is over, and never the session of one that is up.       *)
(***************************************************************************)
Over(s) == conn[s].at = "idle" /\ made[s] = 1

\* What a step of a gateway does to its connection: it dials, registers, goes on,
\* or comes to its end.
Moves(s) == \/ /\ conn[s].at = "idle" /\ made[s] < MaxConns
               /\ conn'[s].at = "connect" /\ made' = [made EXCEPT ![s] = @ + 1]
            \/ ConnectSession(s) /\ conn'[s].at \notin {"idle", "connect"} /\ made' = made
            \/ conn[s].at \notin {"idle", "connect"} /\ conn'[s].at # "connect" /\ made' = made
            \/ conn[s].at # "idle" /\ conn'[s].at = "idle" /\ made' = made

LEMMA ConnMoves ==
  ASSUME ConnTyped, GatewayNext
  PROVE  \E s \in Sessions : Moves(s) /\ \A t \in Sessions \ {s} : conn'[t] = conn[t]
<1> USE DEF ConnTyped, Conns, ConnSteps
<1> PICK s \in Sessions :
      \/ Dial(s) \/ ConnectStep(s) \/ Heartbeat(s)
      \/ \E state \in PresenceStates : SetState(s, state)
      \/ StateStep(s) \/ LoseConnection(s) \/ Schedule(s) \/ GatewayStops(s)
  BY DEF GatewayNext
<1>1. CASE Dial(s)
  BY <1>1 DEF Dial, ConnGoto, Moves
<1>2. CASE ConnectSession(s)
  <2>1. PICK reply \in {ConnectReply(s), [ConnectReply(s) EXCEPT !.transition = "invisible"]} :
          conn' = [conn EXCEPT
            ![s].at = IF s \in Invisible THEN "hide" ELSE IF s \in Typed THEN "device" ELSE "initstate",
            ![s].reply = reply]
    BY <1>2, Zenon DEF ConnectSession
  <2>2. conn'[s].at \notin {"idle", "connect"} /\ made' = made
    BY <1>2, <2>1 DEF ConnectSession
  <2> QED BY <1>2, <2>1, <2>2 DEF Moves
<1>3. CASE Hide(s) \/ CountDevice(s) \/ InitState(s) \/ InitLast(s) \/ ReadAggregate(s)
  BY <1>3 DEF Hide, CountDevice, InitState, InitLast, ReadAggregate, ConnGoto, Moves
<1>4. CASE AnnounceConnect(s) \/ TellState(s)
  BY <1>4 DEF AnnounceConnect, TellState, Up, NoConn, Moves
<1>5. CASE WriteState(s) \/ ReadAllStates(s) \/ CompareLast(s) \/ CommitLast(s)
  BY <1>5 DEF WriteState, ReadAllStates, CompareLast, CommitLast, ConnGoto, Up, NoConn, Moves
<1>6. CASE CommitVersion(s) \/ CountTabs(s)
  BY <1>6 DEF CommitVersion, CountTabs, Moves
<1>7. CASE Heartbeat(s) \/ LoseConnection(s)
  BY <1>7 DEF Heartbeat, LoseConnection, ConnGoto, Moves
<1>8. CASE Schedule(s) \/ GatewayStops(s)
  BY <1>8 DEF Schedule, GatewayStops, NoConn, Moves
<1>9. CASE \E state \in PresenceStates : SetState(s, state)
  BY <1>9 DEF SetState, Moves
<1> QED BY <1>1, <1>2, <1>3, <1>4, <1>5, <1>6, <1>7, <1>8, <1>9 DEF ConnectStep, StateStep

MadeInv == /\ made \in [Sessions -> 0..1]
           /\ \A s \in Sessions : conn[s].at # "idle" => made[s] = 1

\* A connection that has registered is in the index of its user.
Registered(s) == conn[s].at \notin {"idle", "connect"} => s \in userSessions[UserOf[s]]

OverInv == /\ \A j \in jobMeta : Over(j[1])
           /\ \A c \in Callers : call[c].at \in {"get", "script"} => Over(call[c].session)

LEMMA MadeKept ==
  ASSUME MaxConns = 1, ConnTyped, MadeInv, GatewayNext
  PROVE  MadeInv' /\ \A s \in Sessions : Over(s) => Over(s)'
<1> PICK s \in Sessions : Moves(s) /\ \A t \in Sessions \ {s} : conn'[t] = conn[t]
  BY ConnMoves
<1>1. CASE conn[s].at = "idle" /\ made[s] < MaxConns /\ made' = [made EXCEPT ![s] = @ + 1]
  BY <1>1 DEF MadeInv, Over
<1>2. CASE conn[s].at # "idle" /\ made' = made
  BY <1>2 DEF MadeInv, Over
<1> QED BY <1>1, <1>2 DEF Moves, ConnectSession

\* Gateways only add to the index.
LEMMA GatewayAdds ==
  ASSUME StoreTypeOK, GatewayNext, NEW u \in Users PROVE userSessions[u] \subseteq userSessions'[u]
<1> USE StoreAssumption
<1> PICK s \in Sessions :
      \/ Dial(s) \/ ConnectStep(s) \/ Heartbeat(s)
      \/ \E state \in PresenceStates : SetState(s, state)
      \/ StateStep(s) \/ LoseConnection(s) \/ Schedule(s) \/ GatewayStops(s)
  BY DEF GatewayNext
<1>1. CASE ConnectStep(s)
  BY <1>1 DEF ConnectStep, ConnectSession, ConnectScript, ConnectSet, Hide, CountDevice, InitState, InitLast,
              ReadAggregate, AnnounceConnect, serviceVars, storeVars, StoreTypeOK
<1>2. CASE StateStep(s)
  BY <1>2 DEF StateStep, WriteState, ReadAllStates, CompareLast, CommitLast, CommitVersion, CountTabs,
              TellState, serviceVars, storeVars
<1>3. CASE Dial(s) \/ Heartbeat(s) \/ LoseConnection(s) \/ Schedule(s) \/ GatewayStops(s)
  BY <1>3 DEF Dial, Heartbeat, HeartbeatScript, LoseConnection, Schedule, GatewayStops, serviceVars, storeVars
<1>4. CASE \E state \in PresenceStates : SetState(s, state)
  BY <1>4 DEF SetState, serviceVars, storeVars
<1> QED BY <1>1, <1>2, <1>3, <1>4

LEMMA RegisteredByGateway ==
  ASSUME StoreTypeOK, ConnTyped, GatewayNext, \A s \in Sessions : Registered(s)
  PROVE  \A s \in Sessions : Registered(s)'
<1> USE StoreAssumption
<1> PICK s \in Sessions : Moves(s) /\ \A t \in Sessions \ {s} : conn'[t] = conn[t]
  BY ConnMoves
<1>1. \A t \in Sessions : userSessions[UserOf[t]] \subseteq userSessions'[UserOf[t]]
  BY GatewayAdds
<1>2. ASSUME NEW t \in Sessions, t # s PROVE Registered(t)'
  BY <1>1, <1>2 DEF Registered
<1>3. Registered(s)'
  <2>1. CASE ConnectSession(s)
    BY <2>1 DEF ConnectSession, ConnectScript, ConnectSet, StoreTypeOK, Registered
  <2>2. CASE conn[s].at \notin {"idle", "connect"} \/ conn'[s].at \in {"idle", "connect"}
    BY <1>1, <2>2 DEF Registered
  <2> QED BY <2>1, <2>2 DEF Moves
<1> QED BY <1>2, <1>3

\* A worker removes nothing but sessions whose connection is over.
LEMMA RegisteredByDebouncer ==
  ASSUME StoreTypeOK, CallTyped, OverInv, DebouncerNext, UNCHANGED gatewayVars,
         \A s \in Sessions : Registered(s)
  PROVE  \A s \in Sessions : Registered(s)'
<1> USE StoreAssumption, EngineAssumption
<1>1. CASE \E d \in Debouncers : RunScript(d)
  <2> PICK d \in Debouncers : RunScript(d)
    BY <1>1
  <2>1. call[d].session \in Sessions /\ Over(call[d].session) /\ DisconnectScript(call[d].session)
    BY DEF RunScript, CallTyped, Calls, OverInv
  <2> QED BY <2>1 DEF DisconnectScript, DisconnectSet, StoreTypeOK, Registered, Over, gatewayVars
<1>2. CASE ~\E d \in Debouncers : RunScript(d)
  <2>1. userSessions' = userSessions
    <3>1. ASSUME NEW d \in Debouncers, DisconnectStep(d) PROVE userSessions' = userSessions
      BY <1>2, <3>1 DEF DisconnectStep, GetMeta, DropInvisible, DropDevices, DropUserStates, DecrementDevice,
                        DeleteState, ReadStates, ReadLast, SetLast, storeVars
    <3>2. ASSUME NEW d \in Debouncers, RecordTransition(d) \/ FinishJob(d) \/ AnnounceJob(d) \/ AnnouncePresence(d)
            \/ EnterScope(d) \/ LeaveScope(d) \/ DebouncerStops(d) \/ \E j \in Jobs : TakeJob(d, j) \/ DropOrphan(d, j)
          PROVE  userSessions' = userSessions
      BY <3>2 DEF RecordTransition, FinishJob, AnnounceJob, AnnouncePresence, EnterScope, LeaveScope,
                  DebouncerStops, TakeJob, DropOrphan, serviceVars, storeVars
    <3>3. ASSUME (\E j \in Jobs : JobExpires(j)) \/ (\E u \in Users : WindowPasses(u))
          PROVE  userSessions' = userSessions
      BY <3>3 DEF JobExpires, WindowPasses, serviceVars, storeVars
    <3> QED BY <3>1, <3>2, <3>3 DEF DebouncerNext, ExecuteStep
  <2> QED BY <2>1 DEF Registered, gatewayVars
<1> QED BY <1>1, <1>2

LEMMA OverByGateway ==
  ASSUME MaxConns = 1, ConnTyped, CallTyped, MadeInv, OverInv, jobMeta \subseteq Jobs, GatewayNext
  PROVE  OverInv' /\ jobMeta' \subseteq Jobs
<1>1. MadeInv' /\ \A s \in Sessions : Over(s) => Over(s)'
  BY MadeKept
<1>2. call' = call
  BY GatewayLeavesCalls
<1>3. \A c \in Callers : call'[c].at \in {"get", "script"} => Over(call[c].session)'
  BY <1>1, <1>2 DEF OverInv, CallTyped, Calls
<1>4. \A j \in jobMeta' : j \in Jobs /\ (j \in jobMeta \/ Over(j[1])')
  <2> PICK s \in Sessions :
        \/ Dial(s) \/ ConnectStep(s) \/ Heartbeat(s)
        \/ \E state \in PresenceStates : SetState(s, state)
        \/ StateStep(s) \/ LoseConnection(s) \/ Schedule(s) \/ GatewayStops(s)
    BY DEF GatewayNext
  <2>1. CASE Schedule(s)
    <3>1. jobMeta' = jobMeta \cup {<<s, made[s]>>} /\ conn[s].at = "closing" /\ made' = made
      BY <2>1 DEF Schedule, ScheduleDisconnect
    <3>2. made[s] = 1 /\ conn'[s].at = "idle"
      BY <2>1, <3>1 DEF Schedule, MadeInv, ConnTyped, NoConn
    <3>3. <<s, made[s]>> \in Jobs /\ Over(s)'
      BY <3>1, <3>2 DEF Jobs, Over
    <3>4. \A j \in jobMeta' : j \in jobMeta \/ (j = <<s, made[s]>> /\ j[1] = s)
      BY <3>1
    <3> QED BY <3>3, <3>4
  <2>2. CASE Dial(s)
    BY <2>2 DEF Dial, CancelDisconnect
  <2>3. CASE ConnectStep(s)
    BY <2>3 DEF ConnectStep, ConnectSession, Hide, CountDevice, InitState, InitLast, ReadAggregate,
                AnnounceConnect, jobVars
  <2>4. CASE StateStep(s)
    BY <2>4 DEF StateStep, WriteState, ReadAllStates, CompareLast, CommitLast, CommitVersion, CountTabs,
                TellState, jobVars
  <2>5. CASE Heartbeat(s) \/ LoseConnection(s) \/ GatewayStops(s)
    BY <2>5 DEF Heartbeat, LoseConnection, GatewayStops, jobVars
  <2>6. CASE \E state \in PresenceStates : SetState(s, state)
    BY <2>6 DEF SetState, jobVars
  <2> QED BY <2>1, <2>2, <2>3, <2>4, <2>5, <2>6
<1>5. \A j \in jobMeta' : Over(j[1])'
  BY <1>1, <1>4 DEF OverInv, Jobs
<1> QED BY <1>2, <1>3, <1>4, <1>5 DEF OverInv

\* A caller that is about to run the script was so before, or has just begun.
LEMMA CallGoesOn ==
  ASSUME CallTyped, NEW c \in Callers, DisconnectStep(c), NEW e \in Callers, call'[e].at \in {"get", "script"}
  PROVE  call[e].at \in {"get", "script"} /\ call'[e].session = call[e].session
<1> USE DEF CallTyped, Calls
<1>1. CASE GetMeta(c)
  BY <1>1 DEF GetMeta
<1>2. CASE RunScript(c)
  <2>1. PICK step \in {"uninvis", "decdevice", "delstate"} :
          call' = [call EXCEPT ![c].reply = DisconnectReply(call[c].session), ![c].at = step]
    BY <1>2, Zenon DEF RunScript
  <2> QED BY <2>1
<1>3. CASE ReadStates(c) \/ ReadLast(c)
  BY <1>3 DEF ReadStates, ReadLast
<1>4. CASE DropInvisible(c) \/ DropDevices(c) \/ DropUserStates(c)
  BY <1>4 DEF DropInvisible, DropDevices, DropUserStates, Goto
<1>5. CASE DecrementDevice(c) \/ DeleteState(c) \/ SetLast(c)
  BY <1>5 DEF DecrementDevice, DeleteState, SetLast, Goto
<1> QED BY <1>1, <1>2, <1>3, <1>4, <1>5 DEF DisconnectStep

LEMMA OverByDebouncer ==
  ASSUME CallTyped, OverInv, jobMeta \subseteq Jobs, DebouncerNext, UNCHANGED gatewayVars
  PROVE  OverInv' /\ jobMeta' \subseteq Jobs
<1> USE EngineAssumption
<1>1. \A s : Over(s) => Over(s)'
  BY DEF Over, gatewayVars
<1>2. jobMeta' \subseteq jobMeta
  <2>1. ASSUME NEW d \in Debouncers, RecordTransition(d) \/ FinishJob(d) \/ AnnounceJob(d) \/ AnnouncePresence(d)
          \/ EnterScope(d) \/ LeaveScope(d) \/ DebouncerStops(d) \/ \E j \in Jobs : TakeJob(d, j) \/ DropOrphan(d, j)
        PROVE  jobMeta' \subseteq jobMeta
    BY <2>1 DEF RecordTransition, FinishJob, AnnounceJob, AnnouncePresence, EnterScope, LeaveScope,
                DebouncerStops, TakeJob, DropOrphan, jobVars
  <2>2. ASSUME (\E j \in Jobs : JobExpires(j)) \/ (\E u \in Users : WindowPasses(u))
        PROVE  jobMeta' \subseteq jobMeta
    BY <2>2 DEF JobExpires, WindowPasses, jobVars
  <2> QED BY <2>1, <2>2 DEF DebouncerNext, ExecuteStep, jobVars
<1>3. ASSUME NEW e \in Callers, call'[e].at \in {"get", "script"} PROVE Over(call'[e].session)
  <2>1. CASE call[e].at \in {"get", "script"} /\ call'[e].session = call[e].session
    BY <2>1 DEF OverInv
  <2>2. ASSUME NEW d \in Debouncers, NEW j \in Jobs, TakeJob(d, j) PROVE Over(call'[e].session)
    <3>1. j \in jobMeta /\ call' = [call EXCEPT ![d] = [NoCall EXCEPT !.at = "get", !.session = j[1]]]
      BY <2>2 DEF TakeJob, StartDisconnect
    <3>2. CASE e = d
      BY <3>1, <3>2 DEF CallTyped, OverInv, NoCall
    <3>3. CASE e # d
      BY <1>3, <3>1, <3>3 DEF CallTyped, OverInv
    <3> QED BY <3>2, <3>3
  <2>3. ASSUME NEW d \in Debouncers, DisconnectStep(d) PROVE Over(call'[e].session)
    BY <1>3, <2>1, <2>3, CallGoesOn
  <2>4. ASSUME NEW d \in Debouncers, FinishJob(d) \/ DebouncerStops(d) PROVE Over(call'[e].session)
    <3>1. call' = [call EXCEPT ![d] = NoCall]
      BY <2>4 DEF FinishJob, DebouncerStops
    <3> QED BY <1>3, <3>1 DEF CallTyped, OverInv, NoCall
  <2>5. ASSUME NEW d \in Debouncers, RecordTransition(d) \/ AnnounceJob(d) \/ AnnouncePresence(d)
          \/ EnterScope(d) \/ LeaveScope(d) \/ \E j \in Jobs : DropOrphan(d, j)
        PROVE  Over(call'[e].session)
    <3>1. call' = call
      BY <2>5 DEF RecordTransition, AnnounceJob, AnnouncePresence, EnterScope, LeaveScope, DropOrphan, serviceVars
    <3> QED BY <1>3, <3>1 DEF OverInv
  <2>6. ASSUME (\E j \in Jobs : JobExpires(j)) \/ (\E u \in Users : WindowPasses(u))
        PROVE  Over(call'[e].session)
    <3>1. call' = call
      BY <2>6 DEF JobExpires, WindowPasses, serviceVars
    <3> QED BY <1>3, <3>1 DEF OverInv
  <2> QED BY <2>2, <2>3, <2>4, <2>5, <2>6 DEF DebouncerNext, ExecuteStep
<1>4. \A e \in Callers : call'[e].at \in {"get", "script"} => Over(call[e].session)'
  BY <1>3 DEF Over, gatewayVars
<1> QED BY <1>1, <1>2, <1>4 DEF OverInv

UpInv == /\ EngineInv /\ ConnTyped /\ MadeInv
         /\ OverInv /\ jobMeta \subseteq Jobs
         /\ \A s \in Sessions : Registered(s)

LEMMA UpInitial == Init => UpInv
<1> SUFFICES ASSUME Init PROVE UpInv
  OBVIOUS
<1>1. EngineInv
  BY EngineInitial
<1>2. NoConn \in Conns /\ NoConn.at = "idle"
  BY DEF NoConn, NoReply, Conns, ConnSteps, Replies
<1>3. conn = [s \in Sessions |-> NoConn] /\ made = [s \in Sessions |-> 0] /\ jobMeta = {}
  BY DEF Init, GatewayInit, DebouncerInit
<1>4. ConnTyped /\ MadeInv /\ \A s \in Sessions : Registered(s)
  <2> HIDE DEF NoConn
  <2> QED BY <1>2, <1>3 DEF ConnTyped, MadeInv, Registered
<1>5. \A c \in Callers : call[c].at = "none"
  BY DEF Init, ServiceInit, NoCall
<1> QED BY <1>1, <1>3, <1>4, <1>5 DEF UpInv, OverInv

LEMMA UpInductive == ASSUME MaxConns = 1, NoCleaners, UpInv, ZeroExact, ConnExact, [Next]_vars PROVE UpInv'
<1> USE DEF UpInv
<1>1. EngineInv'
  BY EngineInductive
<1>2. StoreTypeOK /\ StoreTypeOK' /\ CallTyped
  BY <1>1 DEF EngineInv, StoreInv
<1>3. CASE ByGateway(GatewayNext)
  BY <1>1, <1>2, <1>3, GatewayConnExact, MadeKept, OverByGateway, RegisteredByGateway DEF ByGateway
<1>4. CASE ByDebouncer(DebouncerNext)
  <2>1. UNCHANGED gatewayVars
    BY <1>4 DEF ByDebouncer
  <2>2. OverInv' /\ jobMeta' \subseteq Jobs /\ \A s \in Sessions : Registered(s)'
    BY <1>2, <1>4, <2>1, OverByDebouncer, RegisteredByDebouncer DEF ByDebouncer
  <2> QED BY <1>1, <2>1, <2>2 DEF gatewayVars, ConnTyped, MadeInv
<1>5. CASE ExpiryNext \/ UNCHANGED vars
  <2>1. UNCHANGED <<gatewayVars, call, jobMeta, userSessions>>
    BY <1>5 DEF ExpiryNext, Expire, Age, debouncerVars, jobVars, vars, serviceVars, storeVars
  <2> QED BY <1>1, <2>1 DEF gatewayVars, ConnTyped, MadeInv, OverInv, Over, Registered
<1>6. ~BySweeper(SweeperNext) /\ ~ByApi(ApiNext)
  BY DEF NoCleaners, BySweeper, SweeperNext, ByApi, ApiNext
<1> QED BY <1>3, <1>4, <1>5, <1>6 DEF Next

\* The session of a connection that is up is in the index and its user is listed:
\* no late job, executed by any number of workers, takes it away.
THEOREM ConnectedAlwaysOnline == MaxConns = 1 /\ NoCleaners => (Spec => []ConnectedIsOnline)
<1> SUFFICES ASSUME MaxConns = 1, NoCleaners PROVE Spec => []ConnectedIsOnline
  OBVIOUS
<1>1. TellInv /\ UpInv /\ [Next]_vars => UpInv'
  BY UpInductive DEF TellInv
<1>2. UpInv => ConnectedIsOnline
  BY StoreAssumption DEF UpInv, EngineInv, StoreInv, StoreTypeOK, OnlineIffSessions, Registered, ConnectedIsOnline
<1> QED BY <1>1, <1>2, UpInitial, TellInvariant, PTL DEF Spec
=============================================================================
