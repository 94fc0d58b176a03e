------------------------- MODULE EngineTypes_proofs -------------------------
(***************************************************************************)
(* More theorems about the whole engine, one section each.  With sweepers, *)
(* API requests and every fault: its types (EngineTypeCorrect); that no    *)
(* live session drops out of its index (LiveAlwaysIndexed); that nothing   *)
(* is told that the store has not given out (ViewNeverAheadAlways).        *)
(*                                                                         *)
(* About the engine at rest, each with the faults that would break it left *)
(* out (Reliable, OneWorker, JobsStay): that no change stays untold        *)
(* (SettledAlwaysOrFlapping), that no key outlives its user                *)
(* (OfflineAlwaysForgotten), and that exactly the users with a connection  *)
(* are online (SettledAlwaysExact).                                        *)
(***************************************************************************)
EXTENDS Engine_proofs

SideTyped == /\ invisibleUsers \subseteq Users
             /\ userDevices \in [Users -> Int]
             /\ sessionStates \in [Sessions -> PresenceStates \cup {NoState}]
             /\ lastPub \in [Users -> PresenceStates \cup {NoState}]

MadeTyped == made \in [Sessions -> 0..MaxConns] /\ states \in 0..MaxStates

LEMMA ScriptTyped == ASSUME NEW s \in Sessions, StoreTypeOK, Script(s) PROVE StoreTypeOK'
<1> USE StoreAssumption DEF StoreTypeOK
<1>1. CASE ConnectScript(s)
  BY <1>1 DEF ConnectScript, ConnectSet, Bumped
<1>2. CASE DisconnectScript(s)
  BY <1>2 DEF DisconnectScript, DisconnectSet, Bumped
<1>3. CASE HeartbeatScript(s) \/ Age(s)
  BY <1>3 DEF HeartbeatScript, Age, Alive
<1> QED BY <1>1, <1>2, <1>3 DEF Script

LEMMA StoreStepTyped == ASSUME StoreTypeOK, StoreStep PROVE StoreTypeOK'
<1>1. ASSUME NEW u \in Users, Bump(u) PROVE StoreTypeOK'
  BY <1>1 DEF Bump, Bumped, StoreTypeOK
<1>2. CASE UNCHANGED storeVars
  BY <1>2 DEF storeVars, StoreTypeOK
<1> QED BY <1>1, <1>2, ScriptTyped DEF StoreStep

LEMMA PublishTyped ==
  ASSUME ViewTypeOK, NEW u \in Users, NEW e \in PresenceEvents, Publish(u, e) PROVE ViewTypeOK'
BY DEF Publish, ViewTypeOK, PresenceEvents

LEMMA DropStatesTyped ==
  ASSUME SideTyped, NEW u, DropStates(u), UNCHANGED <<invisibleUsers, userDevices>> PROVE SideTyped'
BY DEF DropStates, SideTyped

-----------------------------------------------------------------------------
\* Gateways.
LEMMA ConnTypedReplaced ==
  ASSUME ConnTyped, NEW s \in Sessions, NEW k \in Conns, conn' = [conn EXCEPT ![s] = k] PROVE ConnTyped'
BY DEF ConnTyped

LEMMA ConnectTyped ==
  ASSUME StoreTypeOK, ConnTyped, NEW s \in Sessions, ConnectStep(s) PROVE ConnTyped'
<1>1. conn[s] \in Conns
  BY DEF ConnTyped
<1>2. Up \in Conns
  BY DEF Up, NoConn, NoReply, Conns, ConnSteps, Replies
<1>3. CASE ConnectSession(s)
  <2> DEFINE r == ConnectReply(s)
  <2>1. r \in Replies
    BY ConnectReplyTyped
  <2> HIDE DEF r
  <2>2. [r EXCEPT !.transition = "invisible"] \in Replies
    BY <2>1 DEF Replies
  <2>3. PICK step \in {"hide", "device", "initstate"}, reply \in {r, [r EXCEPT !.transition = "invisible"]} :
          conn' = [conn EXCEPT ![s].at = step, ![s].reply = reply]
    BY <1>3, Zenon DEF ConnectSession, r
  <2> DEFINE k == [conn[s] EXCEPT !.at = step, !.reply = reply]
  <2>4. reply \in Replies
    BY <2>1, <2>2
  <2>5. k \in Conns
    BY <1>1, <2>4 DEF Conns, ConnSteps
  <2>6. conn' = [conn EXCEPT ![s] = k]
    BY <2>3
  <2> HIDE DEF k
  <2> QED BY <2>5, <2>6, ConnTypedReplaced
<1>4. CASE Hide(s) \/ CountDevice(s) \/ InitState(s) \/ InitLast(s)
  BY <1>4 DEF Hide, CountDevice, InitState, InitLast, ConnGoto, ConnTyped, Conns, ConnSteps
<1>5. CASE ReadAggregate(s)
  BY <1>5, AggregateTyped DEF ReadAggregate, ConnTyped, Conns, ConnSteps
<1>6. CASE AnnounceConnect(s)
  BY <1>2, <1>6, ConnTypedReplaced DEF AnnounceConnect
<1> QED BY <1>3, <1>4, <1>5, <1>6 DEF ConnectStep

LEMMA StateTyped ==
  ASSUME StoreTypeOK, ConnTyped, NEW s \in Sessions, StateStep(s) PROVE ConnTyped'
<1> USE StoreAssumption
<1>1. conn[s] \in Conns /\ UserOf[s] \in Users
  BY DEF ConnTyped
<1>2. Up \in Conns
  BY DEF Up, NoConn, NoReply, Conns, ConnSteps, Replies
<1>3. CASE WriteState(s) \/ CommitLast(s)
  BY <1>3 DEF WriteState, CommitLast, ConnGoto, ConnTyped, Conns, ConnSteps
<1>4. CASE ReadAllStates(s)
  BY <1>4, AggregateTyped DEF ReadAllStates, ConnTyped, Conns, ConnSteps
<1>5. CASE CompareLast(s)
  <2>1. CASE conn' = [conn EXCEPT ![s] = Up]
    BY <1>2, <2>1, ConnTypedReplaced
  <2>2. CASE conn' = [conn EXCEPT ![s].at = "commit"]
    BY <2>2 DEF ConnTyped, Conns, ConnSteps
  <2> QED BY <1>5, <2>1, <2>2 DEF CompareLast
<1>6. CASE CommitVersion(s)
  <2> DEFINE v == userVersion[UserOf[s]] + 1
             reply == [conn[s].reply EXCEPT !.version = v]
             k == [conn[s] EXCEPT !.at = "card", !.reply = reply]
  <2>1. v \in Nat
    BY <1>1 DEF StoreTypeOK
  <2>2. conn' = [conn EXCEPT ![s] = k]
    BY <1>6 DEF CommitVersion
  <2> HIDE DEF v
  <2>3. reply \in Replies
    BY <1>1, <2>1 DEF Conns, Replies
  <2> HIDE DEF reply
  <2>4. k \in Conns
    BY <1>1, <2>3 DEF Conns, ConnSteps
  <2> HIDE DEF k
  <2> QED BY <2>2, <2>4, ConnTypedReplaced
<1>7. CASE CountTabs(s)
  <2> DEFINE n == Cardinality(userSessions[UserOf[s]])
             reply == [conn[s].reply EXCEPT !.count = n]
             k == [conn[s] EXCEPT !.at = "tell", !.reply = reply]
  <2>1. userSessions[UserOf[s]] \subseteq Sessions
    BY <1>1 DEF StoreTypeOK
  <2>2. n \in Nat
    BY <2>1, FS_Subset, FS_CardinalityType
  <2>3. conn' = [conn EXCEPT ![s] = k]
    BY <1>7 DEF CountTabs
  <2> HIDE DEF n
  <2>4. reply \in Replies
    BY <1>1, <2>2 DEF Conns, Replies
  <2> HIDE DEF reply
  <2>5. k \in Conns
    BY <1>1, <2>4 DEF Conns, ConnSteps
  <2> HIDE DEF k
  <2> QED BY <2>3, <2>5, ConnTypedReplaced
<1>8. CASE TellState(s)
  BY <1>2, <1>8, ConnTypedReplaced DEF TellState
<1> QED BY <1>3, <1>4, <1>5, <1>6, <1>7, <1>8 DEF StateStep

LEMMA GatewayTyped ==
  ASSUME StoreTypeOK, SideTyped, ViewTypeOK, ConnTyped, MadeTyped, GatewayNext
  PROVE  StoreTypeOK' /\ SideTyped' /\ ViewTypeOK' /\ ConnTyped' /\ MadeTyped'
<1> USE StoreAssumption, EngineAssumption
<1>1. StoreTypeOK'
  BY GatewayOnStore, StoreStepTyped
<1> PICK s \in Sessions :
      \/ Dial(s) \/ ConnectStep(s) \/ Heartbeat(s)
      \/ \E state \in PresenceStates : SetState(s, state)
      \/ StateStep(s) \/ LoseConnection(s) \/ Schedule(s) \/ GatewayStops(s)
  BY DEF GatewayNext
<1>2. /\ conn[s] \in Conns /\ UserOf[s] \in Users
      /\ conn[s].reply.version \in Nat /\ conn[s].reply.count \in Nat
      /\ conn[s].state \in PresenceStates \cup {NoState}
  BY DEF ConnTyped, Conns, Replies
<1>3. CASE ConnectStep(s)
  <2>1. SideTyped'
    <3>1. CASE Hide(s) \/ CountDevice(s)
      BY <1>2, <3>1 DEF Hide, CountDevice, SideTyped
    <3>2. CASE InitState(s) \/ InitLast(s)
      BY <1>2, <3>2 DEF InitState, InitLast, SideTyped, PresenceStates
    <3>3. CASE ConnectSession(s) \/ ReadAggregate(s) \/ AnnounceConnect(s)
      BY <3>3 DEF ConnectSession, ReadAggregate, AnnounceConnect, serviceVars, sideVars, SideTyped
    <3> QED BY <1>3, <3>1, <3>2, <3>3 DEF ConnectStep
  <2>2. ViewTypeOK'
    <3>1. CASE AnnounceConnect(s) /\ view' # view
      <4> DEFINE r == conn[s].reply
                 e == PresenceEvent(IF r.transition = "online" THEN "user_online" ELSE "user_tabs",
                                    r.version, r.count, conn[s].state)
      <4>1. e \in PresenceEvents
        BY <1>2 DEF PresenceEvent, PresenceEvents, EventTypes
      <4>2. Publish(UserOf[s], e)
        BY <3>1 DEF AnnounceConnect
      <4> HIDE DEF e
      <4> QED BY <1>2, <4>1, <4>2, PublishTyped
    <3>2. CASE view' = view
      BY <3>2 DEF ViewTypeOK
    <3>3. CASE ~AnnounceConnect(s)
      BY <1>3, <3>2, <3>3 DEF ConnectStep, ConnectSession, Hide, CountDevice, InitState, InitLast, ReadAggregate, serviceVars
    <3> QED BY <3>1, <3>2, <3>3
  <2>3. UNCHANGED <<made, states>>
    BY <1>3 DEF ConnectStep, ConnectSession, Hide, CountDevice, InitState, InitLast, ReadAggregate, AnnounceConnect
  <2> QED BY <1>1, <1>3, <2>1, <2>2, <2>3, ConnectTyped DEF MadeTyped
<1>4. CASE StateStep(s)
  <2>1. SideTyped'
    <3>1. CASE WriteState(s) \/ CommitLast(s)
      BY <1>2, <3>1 DEF WriteState, CommitLast, SideTyped
    <3>2. CASE ReadAllStates(s) \/ CompareLast(s) \/ CommitVersion(s) \/ CountTabs(s) \/ TellState(s)
      BY <3>2 DEF ReadAllStates, CompareLast, CommitVersion, CountTabs, TellState, serviceVars, sideVars, SideTyped
    <3> QED BY <1>4, <3>1, <3>2 DEF StateStep
  <2>2. ViewTypeOK'
    <3>1. CASE TellState(s)
      <4> DEFINE e == PresenceEvent("user_presence", conn[s].reply.version, conn[s].reply.count, conn[s].state)
      <4>1. e \in PresenceEvents
        BY <1>2 DEF PresenceEvent, PresenceEvents, EventTypes
      <4>2. Publish(UserOf[s], e)
        BY <3>1 DEF TellState
      <4> HIDE DEF e
      <4> QED BY <1>2, <4>1, <4>2, PublishTyped
    <3>2. CASE ~TellState(s)
      BY <1>4, <3>2 DEF StateStep, WriteState, ReadAllStates, CompareLast, CommitLast, CommitVersion, CountTabs,
                        serviceVars, ViewTypeOK
    <3> QED BY <3>1, <3>2
  <2>3. UNCHANGED <<made, states>>
    BY <1>4 DEF StateStep, WriteState, ReadAllStates, CompareLast, CommitLast, CommitVersion, CountTabs, TellState
  <2> QED BY <1>1, <1>4, <2>1, <2>2, <2>3, StateTyped DEF MadeTyped
<1>5. UNCHANGED <<sideVars, view>> => SideTyped' /\ ViewTypeOK'
  BY DEF sideVars, SideTyped, ViewTypeOK
<1>6. CASE Dial(s)
  <2>1. ConnTyped'
    BY <1>6 DEF Dial, ConnGoto, ConnTyped, Conns, ConnSteps
  <2>2. MadeTyped'
    BY <1>6 DEF Dial, MadeTyped
  <2> QED BY <1>1, <1>5, <1>6, <2>1, <2>2 DEF Dial, serviceVars
<1>7. CASE Heartbeat(s) \/ LoseConnection(s)
  <2>1. ConnTyped'
    BY <1>7 DEF Heartbeat, LoseConnection, ConnGoto, ConnTyped, Conns, ConnSteps
  <2> QED BY <1>1, <1>5, <1>7, <2>1 DEF Heartbeat, LoseConnection, serviceVars, MadeTyped
<1>8. CASE Schedule(s) \/ GatewayStops(s)
  <2>1. NoConn \in Conns
    BY DEF NoConn, NoReply, Conns, ConnSteps, Replies
  <2>2. ConnTyped'
    BY <1>8, <2>1, ConnTypedReplaced DEF Schedule, GatewayStops
  <2> QED BY <1>1, <1>5, <1>8, <2>2 DEF Schedule, GatewayStops, serviceVars, MadeTyped
<1>9. ASSUME NEW state \in PresenceStates, SetState(s, state)
      PROVE  StoreTypeOK' /\ SideTyped' /\ ViewTypeOK' /\ ConnTyped' /\ MadeTyped'
  <2>1. ConnTyped'
    BY <1>9 DEF SetState, ConnTyped, Conns, ConnSteps
  <2>2. MadeTyped'
    BY <1>9 DEF SetState, MadeTyped
  <2> QED BY <1>1, <1>5, <1>9, <2>1, <2>2 DEF SetState, serviceVars
<1> QED BY <1>3, <1>4, <1>6, <1>7, <1>8, <1>9
-----------------------------------------------------------------------------
\* Disconnect, whoever calls it, and debouncers.
LEMMA DisconnectSideTyped ==
  ASSUME NEW c \in Callers, StoreTypeOK, SideTyped, ViewTypeOK, CallTyped, DisconnectStep(c)
  PROVE  StoreTypeOK' /\ SideTyped' /\ ViewTypeOK' /\ CallTyped'
<1> USE StoreAssumption
<1>1. StoreTypeOK' /\ CallTyped'
  BY DisconnectOnStore, StoreStepTyped, DisconnectTyped
<1>2. ViewTypeOK'
  BY DEF DisconnectStep, GetMeta, RunScript, DropInvisible, DropDevices, DropUserStates, DecrementDevice,
         DeleteState, ReadStates, ReadLast, SetLast, ViewTypeOK
<1>3. call[c].session \in Sessions /\ UserOfCall(c) \in Users /\ call[c].agg \in PresenceStates \cup {NoState}
  BY DEF CallTyped, Calls, UserOfCall
<1>4. SideTyped'
  <2>1. CASE DropInvisible(c) \/ DropDevices(c) \/ DecrementDevice(c)
    BY <1>3, <2>1 DEF DropInvisible, DropDevices, DecrementDevice, SideTyped
  <2>2. CASE DropUserStates(c)
    BY <2>2, DropStatesTyped DEF DropUserStates
  <2>3. CASE DeleteState(c) \/ SetLast(c)
    BY <1>3, <2>3 DEF DeleteState, SetLast, SideTyped
  <2>4. CASE GetMeta(c) \/ RunScript(c) \/ ReadStates(c) \/ ReadLast(c)
    BY <2>4 DEF GetMeta, RunScript, ReadStates, ReadLast, sideVars, SideTyped
  <2> QED BY <2>1, <2>2, <2>3, <2>4 DEF DisconnectStep
<1> QED BY <1>1, <1>2, <1>4

Workers == [at : WorkerSteps, job : Jobs, flapping : BOOLEAN]

LEMMA WorkerReplacedTyped ==
  ASSUME DebouncerTypeOK, NEW d \in Debouncers, NEW k \in Workers, worker' = [worker EXCEPT ![d] = k],
         UNCHANGED transitions
  PROVE  worker' \in [Debouncers -> Workers] /\ transitions' \in [Users -> 0..FlappingThreshold]
BY DEF DebouncerTypeOK, Workers

LEMMA IdleWorkerTyped == IdleWorker \in Workers
<1>1. (CHOOSE s \in Sessions : TRUE) \in Sessions
  BY StoreAssumption
<1>2. NoJob \in Jobs
  BY <1>1, EngineAssumption DEF NoJob, Jobs
<1> QED BY <1>2 DEF IdleWorker, Workers, WorkerSteps

\* What a worker tells is an event.
LEMMA CallEventsTyped ==
  ASSUME NEW c \in Callers, CallTyped
  PROVE  /\ UserOfCall(c) \in Users
         /\ OfflineEvent(call[c].reply) \in PresenceEvents
         /\ TabsEvent(call[c].reply, call[c].agg) \in PresenceEvents
         /\ PresenceEvent("user_presence", call[c].reply.version, call[c].reply.count, call[c].agg) \in PresenceEvents
<1>1. /\ call[c].session \in Sessions /\ call[c].agg \in PresenceStates \cup {NoState}
      /\ call[c].reply.version \in Nat /\ call[c].reply.count \in Nat
  BY DEF CallTyped, Calls, Replies
<1> QED BY <1>1, StoreAssumption DEF UserOfCall, OfflineEvent, TabsEvent, PresenceEvent, PresenceEvents, EventTypes

LEMMA DebouncerViewTyped ==
  ASSUME CallTyped, ViewTypeOK, NEW d \in Debouncers, AnnounceJob(d) \/ AnnouncePresence(d) PROVE ViewTypeOK'
<1>1. d \in Callers
  BY EngineAssumption
<1>2. CASE UNCHANGED view
  BY <1>2 DEF ViewTypeOK
<1>3. CASE ~UNCHANGED view
  <2>1. PICK e \in PresenceEvents : Publish(UserOfCall(d), e)
    BY <1>1, <1>3, CallEventsTyped DEF AnnounceJob, AnnouncePresence
  <2> QED BY <1>1, <2>1, CallEventsTyped, PublishTyped
<1> QED BY <1>2, <1>3

LEMMA JobsTyped ==
  ASSUME CallTyped, DebouncerTypeOK, NEW d \in Debouncers,
         \/ RecordTransition(d) \/ AnnounceJob(d) \/ AnnouncePresence(d) \/ FinishJob(d)
         \/ EnterScope(d) \/ LeaveScope(d) \/ DebouncerStops(d)
         \/ \E j \in Jobs : TakeJob(d, j) \/ DropOrphan(d, j)
  PROVE  DebouncerTypeOK'
<1> USE EngineAssumption, IdleWorkerTyped
<1>1. worker[d] \in Workers /\ d \in Callers
  BY DEF DebouncerTypeOK, Workers
<1>2. UNCHANGED jobVars \/ FinishJob(d) \/ (\E j \in Jobs : DropOrphan(d, j))
  BY DEF RecordTransition, AnnounceJob, AnnouncePresence, EnterScope, LeaveScope, DebouncerStops, TakeJob, jobVars
<1>3. jobQueue' \subseteq Jobs /\ jobMeta' \subseteq Jobs /\ jobIndex' \subseteq Jobs
  BY <1>2 DEF FinishJob, DropOrphan, jobVars, DebouncerTypeOK
<1>4. worker' \in [Debouncers -> Workers] /\ transitions' \in [Users -> 0..FlappingThreshold]
  <2>1. CASE RecordTransition(d)
    <3> DEFINE u == UserOfCall(d)
               flapping == FlappingThreshold > 0 /\ Recorded(u) >= FlappingThreshold
               k == [worker[d] EXCEPT !.at = "announce", !.flapping = flapping]
    <3>1. flapping \in BOOLEAN
      OBVIOUS
    <3>2. u \in Users
      BY <1>1, CallEventsTyped
    <3>3. Recorded(u) \in 0..FlappingThreshold
      BY <3>2 DEF Recorded, DebouncerTypeOK
    <3>4. worker' = [worker EXCEPT ![d] = k]
      BY <2>1 DEF RecordTransition
    <3> HIDE DEF flapping
    <3>5. k \in Workers
      BY <1>1, <3>1 DEF Workers, WorkerSteps
    <3> HIDE DEF k
    <3>6. worker' \in [Debouncers -> Workers]
      BY <3>4, <3>5 DEF DebouncerTypeOK, Workers
    <3>7. transitions' \in [Users -> 0..FlappingThreshold]
      BY <2>1, <3>2, <3>3 DEF RecordTransition, DebouncerTypeOK
    <3> QED BY <3>6, <3>7
  <2>2. CASE \/ AnnounceJob(d) \/ AnnouncePresence(d) \/ EnterScope(d)
             \/ \E j \in Jobs : TakeJob(d, j)
    <3>1. PICK step \in WorkerSteps, j \in Jobs : worker' = [worker EXCEPT ![d].at = step, ![d].job = j]
      <4>1. CASE AnnounceJob(d) \/ AnnouncePresence(d) \/ EnterScope(d)
        <5>1. PICK step \in WorkerSteps : worker' = [worker EXCEPT ![d].at = step]
          BY <4>1 DEF AnnounceJob, AnnouncePresence, EnterScope, WorkerGoto, AfterAnnounce, WorkerSteps
        <5>2. worker' = [worker EXCEPT ![d].at = step, ![d].job = worker[d].job]
          BY <1>1, <5>1 DEF DebouncerTypeOK, Workers
        <5> QED BY <1>1, <5>2 DEF Workers
      <4>2. CASE \E j \in Jobs : TakeJob(d, j)
        BY <4>2 DEF TakeJob, WorkerSteps
      <4> QED BY <2>2, <4>1, <4>2
    <3> DEFINE k == [worker[d] EXCEPT !.at = step, !.job = j]
    <3>2. k \in Workers
      BY <1>1 DEF Workers
    <3>3. worker' = [worker EXCEPT ![d] = k]
      BY <3>1
    <3>4. UNCHANGED transitions
      BY <2>2 DEF AnnounceJob, AnnouncePresence, EnterScope, TakeJob
    <3> HIDE DEF k
    <3> QED BY <3>2, <3>3, <3>4, WorkerReplacedTyped
  <2>3. CASE FinishJob(d) \/ LeaveScope(d) \/ DebouncerStops(d)
    <3>1. [IdleWorker EXCEPT !.at = "scope"] \in Workers
      BY DEF Workers, WorkerSteps
    <3> QED BY <2>3, <3>1, WorkerReplacedTyped DEF FinishJob, LeaveScope, DebouncerStops
  <2>4. CASE \E j \in Jobs : DropOrphan(d, j)
    BY <2>4 DEF DropOrphan, workerVars, DebouncerTypeOK, Workers
  <2> QED BY <2>1, <2>2, <2>3, <2>4
<1> QED BY <1>3, <1>4 DEF DebouncerTypeOK, Workers

LEMMA DebouncerAllTyped ==
  ASSUME StoreTypeOK, SideTyped, ViewTypeOK, CallTyped, DebouncerTypeOK, DebouncerNext
  PROVE  StoreTypeOK' /\ SideTyped' /\ ViewTypeOK' /\ CallTyped' /\ DebouncerTypeOK'
<1> USE EngineAssumption
<1>1. CallTyped'
  BY DebouncerTyped
<1>2. ASSUME NEW d \in Debouncers, DisconnectStep(d) /\ UNCHANGED <<jobVars, workerVars>>
      PROVE  StoreTypeOK' /\ SideTyped' /\ ViewTypeOK' /\ DebouncerTypeOK'
  BY <1>2, DisconnectSideTyped DEF jobVars, workerVars, DebouncerTypeOK
<1>3. ASSUME NEW d \in Debouncers, AnnounceJob(d) \/ AnnouncePresence(d)
      PROVE  StoreTypeOK' /\ SideTyped' /\ ViewTypeOK' /\ DebouncerTypeOK'
  <2>1. StoreTypeOK' /\ SideTyped'
    BY <1>3 DEF AnnounceJob, AnnouncePresence, storeVars, StoreTypeOK, sideVars, SideTyped
  <2> QED BY <1>3, <2>1, DebouncerViewTyped, JobsTyped
<1>4. ASSUME NEW d \in Debouncers,
        \/ RecordTransition(d) \/ FinishJob(d) \/ EnterScope(d) \/ LeaveScope(d) \/ DebouncerStops(d)
        \/ \E j \in Jobs : TakeJob(d, j) \/ DropOrphan(d, j)
      PROVE  StoreTypeOK' /\ SideTyped' /\ ViewTypeOK' /\ DebouncerTypeOK'
  <2>1. UNCHANGED <<storeVars, sideVars, view>>
    BY <1>4 DEF RecordTransition, FinishJob, EnterScope, LeaveScope, DebouncerStops, TakeJob, DropOrphan, serviceVars
  <2>2. StoreTypeOK' /\ SideTyped' /\ ViewTypeOK'
    BY <2>1 DEF storeVars, StoreTypeOK, sideVars, SideTyped, ViewTypeOK
  <2> QED BY <1>4, <2>2, JobsTyped
<1>5. ASSUME (\E j \in Jobs : JobExpires(j)) \/ (\E u \in Users : WindowPasses(u))
      PROVE  StoreTypeOK' /\ SideTyped' /\ ViewTypeOK' /\ DebouncerTypeOK'
  <2>1. UNCHANGED serviceVars
    BY <1>5 DEF JobExpires, WindowPasses
  <2>2. StoreTypeOK' /\ SideTyped' /\ ViewTypeOK'
    BY <2>1 DEF serviceVars, storeVars, StoreTypeOK, sideVars, SideTyped, ViewTypeOK
  <2>3. DebouncerTypeOK'
    BY <1>5 DEF JobExpires, WindowPasses, jobVars, workerVars, DebouncerTypeOK
  <2> QED BY <2>2, <2>3
<1>6. CASE \E d \in Debouncers : \/ EnterScope(d) \/ LeaveScope(d)
                                 \/ \E j \in Jobs : TakeJob(d, j) \/ DropOrphan(d, j)
                                 \/ ExecuteStep(d) \/ DebouncerStops(d)
  <2> PICK d \in Debouncers : \/ EnterScope(d) \/ LeaveScope(d)
                              \/ \E j \in Jobs : TakeJob(d, j) \/ DropOrphan(d, j)
                              \/ ExecuteStep(d) \/ DebouncerStops(d)
    BY <1>6
  <2>1. CASE ExecuteStep(d)
    BY <1>1, <1>2, <1>3, <1>4, <2>1 DEF ExecuteStep
  <2> QED BY <1>1, <1>4, <2>1
<1> QED BY <1>1, <1>5, <1>6 DEF DebouncerNext

\* A connection that is there has been dialled.
Dialled == \A s \in Sessions : conn[s].at # "idle" => made[s] \in 1..MaxConns

LEMMA DialledKept ==
  ASSUME ConnTyped, MadeTyped, Dialled, GatewayNext PROVE Dialled'
<1> USE EngineAssumption DEF MadeTyped
<1> PICK s \in Sessions : Moves(s) /\ \A t \in Sessions \ {s} : conn'[t] = conn[t]
  BY ConnMoves
<1>1. CASE conn[s].at = "idle" /\ made[s] < MaxConns /\ made' = [made EXCEPT ![s] = @ + 1]
  BY <1>1 DEF Dialled
<1>2. CASE conn[s].at # "idle" /\ made' = made
  BY <1>2 DEF Dialled
<1> QED BY <1>1, <1>2 DEF Moves, ConnectSession

LEMMA GatewayJobsTyped ==
  ASSUME ConnTyped, MadeTyped, Dialled, DebouncerTypeOK, GatewayNext PROVE DebouncerTypeOK'
<1> PICK s \in Sessions :
      \/ Dial(s) \/ ConnectStep(s) \/ Heartbeat(s)
      \/ \E state \in PresenceStates : SetState(s, state)
      \/ StateStep(s) \/ LoseConnection(s) \/ Schedule(s) \/ GatewayStops(s)
  BY DEF GatewayNext
<1>1. CASE Dial(s)
  BY <1>1 DEF Dial, CancelDisconnect, workerVars, DebouncerTypeOK
<1>2. CASE Schedule(s)
  <2>1. <<s, made[s]>> \in Jobs
    BY <1>2 DEF Schedule, Dialled, Jobs
  <2> DEFINE j == <<s, made[s]>>
  <2>2. ScheduleDisconnect(j) /\ UNCHANGED workerVars
    BY <1>2 DEF Schedule
  <2> HIDE DEF j
  <2>3. j \in Jobs
    BY <2>1 DEF j
  <2> QED BY <2>2, <2>3 DEF ScheduleDisconnect, workerVars, DebouncerTypeOK
<1>3. CASE ~Dial(s) /\ ~Schedule(s)
  <2>1. CASE ConnectStep(s)
    BY <2>1 DEF ConnectStep, ConnectSession, Hide, CountDevice, InitState, InitLast, ReadAggregate,
                AnnounceConnect, jobVars, workerVars, DebouncerTypeOK
  <2>2. CASE StateStep(s)
    BY <2>2 DEF StateStep, WriteState, ReadAllStates, CompareLast, CommitLast, CommitVersion, CountTabs,
                TellState, jobVars, workerVars, DebouncerTypeOK
  <2>3. CASE Heartbeat(s) \/ LoseConnection(s) \/ GatewayStops(s) \/ \E state \in PresenceStates : SetState(s, state)
    BY <2>3 DEF Heartbeat, LoseConnection, GatewayStops, SetState, jobVars, workerVars, DebouncerTypeOK
  <2> QED BY <1>3, <2>1, <2>2, <2>3
<1> QED BY <1>1, <1>2, <1>3

-----------------------------------------------------------------------------
\* Sweepers.
Sweeps == [at : SweepSteps, passed : SUBSET Users, last : BOOLEAN, batch : SUBSET Users,
           user : Users, left : SUBSET Sessions, dead : Sessions, pruned : BOOLEAN,
           count : Nat, version : Nat, agg : PresenceStates \cup {NoState}]
SweepsTyped == sweep \in [Sweepers -> Sweeps]

LEMMA SweepReplacedTyped ==
  ASSUME SweepsTyped, NEW w \in Sweepers, NEW k \in Sweeps, sweep' = [sweep EXCEPT ![w] = k] PROVE SweepsTyped'
BY DEF SweepsTyped

LEMMA IdleSweepTyped == IdleSweep \in Sweeps
<1>1. (CHOOSE s \in Sessions : TRUE) \in Sessions /\ (CHOOSE u \in Users : TRUE) \in Users
  BY StoreAssumption, EngineAssumption
<1>2. IdleSweep.last \in BOOLEAN /\ IdleSweep.pruned \in BOOLEAN
  BY DEF IdleSweep
<1> QED BY <1>1 DEF IdleSweep, Sweeps, SweepSteps

LEMMA NextUserTyped == ASSUME SweepsTyped, NEW w \in Sweepers PROVE NextUser(w) \in Sweeps
<1>1. sweep[w] \in Sweeps
  BY DEF SweepsTyped
<1> HIDE DEF IdleSweep
<1> QED BY <1>1, IdleSweepTyped DEF NextUser, Sweeps, SweepSteps

LEMMA SweepGoesOn ==
  ASSUME SweepsTyped, NEW w \in Sweepers, NEW step \in SweepSteps, sweep' = [sweep EXCEPT ![w].at = step]
  PROVE  SweepsTyped'
<1> DEFINE k == [sweep[w] EXCEPT !.at = step]
<1>1. k \in Sweeps
  BY DEF SweepsTyped, Sweeps
<1>2. sweep' = [sweep EXCEPT ![w] = k]
  OBVIOUS
<1> HIDE DEF k
<1> QED BY <1>1, <1>2, SweepReplacedTyped

LEMMA ScopeStepTyped ==
  ASSUME StoreTypeOK, SweeperTypeOK, NEW w \in Sweepers,
         StartSweep(w) \/ PauseSweep(w) \/ SweepScopeStep(w) \/ SweeperStops(w)
  PROVE  SweeperTypeOK'
<1>1. SweepsTyped /\ sweep[w] \in Sweeps
  BY DEF SweeperTypeOK, SweepsTyped, Sweeps
<1>2. SweepsTyped' /\ sweepCursor' \subseteq Users => SweeperTypeOK'
  BY DEF SweeperTypeOK, SweepsTyped, Sweeps
<1>3. sweepCursor \subseteq Users
  BY DEF SweeperTypeOK
<1>4. CASE StartSweep(w)
  <2> DEFINE k == [sweep[w] EXCEPT !.at = "scan", !.passed = sweepCursor]
  <2>1. k \in Sweeps
    BY <1>1, <1>3 DEF Sweeps, SweepSteps
  <2>2. sweep' = [sweep EXCEPT ![w] = k] /\ UNCHANGED sweepCursor
    BY <1>4 DEF StartSweep
  <2> HIDE DEF k
  <2> QED BY <1>1, <1>2, <1>3, <2>1, <2>2, SweepReplacedTyped
<1>5. CASE PauseSweep(w) \/ SweeperStops(w)
  <2>1. sweep' = [sweep EXCEPT ![w] = IdleSweep]
    BY <1>5 DEF PauseSweep, SweeperStops
  <2>2. sweepCursor' \subseteq Users
    BY <1>1, <1>3, <1>5 DEF PauseSweep, SweeperStops, Sweeps
  <2> QED BY <1>1, <1>2, <2>1, <2>2, IdleSweepTyped, SweepReplacedTyped
<1>6. CASE Scan(w)
  <2> DEFINE todo == onlineUsers \ sweep[w].passed
  <2>1. PICK batch \in SUBSET todo, missed \in SUBSET (Users \ onlineUsers) :
          sweep' = [sweep EXCEPT ![w].at = "user", ![w].batch = batch,
                                 ![w].passed = @ \cup batch \cup missed, ![w].last = (batch = todo)]
    BY <1>6 DEF Scan
  <2>2. batch \subseteq Users /\ missed \subseteq Users
    BY DEF StoreTypeOK
  <2> DEFINE last == (batch = todo)
             passed == sweep[w].passed \cup batch \cup missed
             k == [sweep[w] EXCEPT !.at = "user", !.batch = batch, !.passed = passed, !.last = last]
  <2>3. last \in BOOLEAN
    OBVIOUS
  <2>4. passed \subseteq Users
    BY <1>1, <2>2 DEF Sweeps
  <2>5. sweep' = [sweep EXCEPT ![w] = k]
    BY <1>1, <2>1 DEF SweepsTyped
  <2> HIDE DEF last, passed
  <2>6. k \in Sweeps
    BY <1>1, <2>2, <2>3, <2>4 DEF Sweeps, SweepSteps
  <2> HIDE DEF k
  <2> QED BY <1>1, <1>2, <1>3, <1>6, <2>5, <2>6, SweepReplacedTyped DEF Scan
<1>7. CASE EndBatch(w)
  <2>1. [IdleSweep EXCEPT !.at = "empty"] \in Sweeps
    <3> HIDE DEF IdleSweep
    <3> QED BY IdleSweepTyped DEF Sweeps, SweepSteps
  <2>2. CASE sweep[w].last
    BY <1>1, <1>2, <1>7, <2>1, <2>2, SweepReplacedTyped DEF EndBatch
  <2>3. CASE ~sweep[w].last
    <3>1. sweep' = [sweep EXCEPT ![w].at = "scan"] /\ UNCHANGED sweepCursor
      BY <1>7, <2>3 DEF EndBatch
    <3> QED BY <1>1, <1>2, <1>3, <3>1, SweepGoesOn DEF SweepSteps
  <2> QED BY <2>2, <2>3
<1>8. CASE CheckEmpty(w) \/ Delist(w)
  <2>1. PICK step \in SweepSteps : sweep' = [sweep EXCEPT ![w].at = step]
    BY <1>8 DEF CheckEmpty, Delist, SweepGoto, SweepSteps
  <2> QED BY <1>1, <1>2, <1>3, <1>8, <2>1, SweepGoesOn DEF CheckEmpty, Delist
<1>9. ASSUME NEW u \in Users, SweepUser(w, u) PROVE SweeperTypeOK'
  <2> DEFINE k == [sweep[w] EXCEPT !.at = "exists", !.batch = @ \ {u}, !.user = u,
                                   !.left = userSessions[u], !.pruned = FALSE]
  <2>1. userSessions[u] \subseteq Sessions
    BY DEF StoreTypeOK
  <2>2. k \in Sweeps
    BY <1>1, <2>1 DEF Sweeps, SweepSteps
  <2>3. sweep' = [sweep EXCEPT ![w] = k] /\ UNCHANGED sweepCursor
    BY <1>1, <1>9 DEF SweepUser, SweepsTyped
  <2> HIDE DEF k
  <2> QED BY <1>1, <1>2, <1>3, <2>2, <2>3, SweepReplacedTyped
<1> QED BY <1>4, <1>5, <1>6, <1>7, <1>8, <1>9 DEF SweepScopeStep

LEMMA UserStepTyped ==
  ASSUME StoreTypeOK, SweeperTypeOK, NEW w \in Sweepers, SweepUserStep(w)
  PROVE  SweeperTypeOK'
<1>1. SweepsTyped /\ sweep[w] \in Sweeps /\ sweep[w].user \in Users
  BY DEF SweeperTypeOK, SweepsTyped, Sweeps
<1>2. SweepsTyped' /\ UNCHANGED sweepCursor => SweeperTypeOK'
  BY DEF SweeperTypeOK, SweepsTyped, Sweeps
<1>3. UNCHANGED sweepCursor
  BY DEF SweepUserStep, CheckSession, Prune, PruneState, CountRemaining, TakeOffline, SweepIncr, TellOffline,
         DeleteStates, SweepAggregate, SweepLast, TellTabs
<1>4. ASSUME NEW s \in Sessions, CheckSession(w, s) PROVE SweepsTyped'
  <2> DEFINE step == IF Alive(s) THEN "exists" ELSE "prune"
             dead == IF Alive(s) THEN sweep[w].dead ELSE s
             k == [sweep[w] EXCEPT !.left = @ \ {s}, !.at = step, !.dead = dead]
  <2>1. step \in SweepSteps /\ dead \in Sessions
    BY <1>1 DEF SweepSteps, Sweeps
  <2>2. sweep' = [sweep EXCEPT ![w] = k]
    BY <1>1, <1>4 DEF CheckSession, SweepsTyped
  <2> HIDE DEF step, dead
  <2>3. k \in Sweeps
    BY <1>1, <2>1 DEF Sweeps
  <2> HIDE DEF k
  <2> QED BY <1>1, <2>2, <2>3, SweepReplacedTyped
<1>5. CASE Prune(w)
  <2> DEFINE k == [sweep[w] EXCEPT !.at = "hdel", !.pruned = TRUE]
  <2>1. k \in Sweeps
    BY <1>1 DEF Sweeps, SweepSteps
  <2>2. sweep' = [sweep EXCEPT ![w] = k]
    BY <1>5 DEF Prune
  <2> HIDE DEF k
  <2> QED BY <1>1, <1>2, <1>3, <2>1, <2>2, SweepReplacedTyped
<1>6. CASE CountRemaining(w)
  <2> DEFINE n == Cardinality(userSessions[sweep[w].user])
  <2>1. n \in Nat
    BY <1>1, StoreAssumption, FS_Subset, FS_CardinalityType DEF StoreTypeOK
  <2> HIDE DEF n
  <2> DEFINE offline == [sweep[w] EXCEPT !.at = "offline"]
             tabs == [sweep[w] EXCEPT !.at = "tabs_incr", !.count = n]
  <2>2. offline \in Sweeps /\ tabs \in Sweeps
    BY <1>1, <2>1 DEF Sweeps, SweepSteps
  <2>3. PICK k \in {offline, tabs, NextUser(w)} : sweep' = [sweep EXCEPT ![w] = k]
    <3> DEFINE k == IF n = 0 THEN offline ELSE IF sweep[w].pruned THEN tabs ELSE NextUser(w)
    <3>1. sweep' = [sweep EXCEPT ![w] = k]
      BY <1>1, <1>6 DEF CountRemaining, SweepsTyped, n
    <3>2. k \in {offline, tabs, NextUser(w)}
      OBVIOUS
    <3> QED BY <3>1, <3>2
  <2> HIDE DEF offline, tabs
  <2> QED BY <1>1, <1>2, <1>3, <2>2, <2>3, NextUserTyped, SweepReplacedTyped
<1>7. ASSUME NEW from, NEW to \in {"offline_tell", "tabs_agg"}, SweepIncr(w, from, to) PROVE SweepsTyped'
  <2> DEFINE v == userVersion[sweep[w].user] + 1
             k == [sweep[w] EXCEPT !.at = to, !.version = v]
  <2>1. v \in Nat
    BY <1>1 DEF StoreTypeOK
  <2>2. sweep' = [sweep EXCEPT ![w] = k]
    BY <1>7 DEF SweepIncr
  <2> HIDE DEF v
  <2>3. k \in Sweeps
    BY <1>1, <2>1 DEF Sweeps, SweepSteps
  <2> HIDE DEF k
  <2> QED BY <1>1, <2>2, <2>3, SweepReplacedTyped
<1>8. CASE SweepAggregate(w)
  <2> DEFINE k == [sweep[w] EXCEPT !.at = "tabs_last", !.agg = Aggregate(sweep[w].user)]
  <2>1. k \in Sweeps
    BY <1>1, AggregateTyped DEF Sweeps, SweepSteps
  <2>2. sweep' = [sweep EXCEPT ![w] = k]
    BY <1>8 DEF SweepAggregate
  <2> HIDE DEF k
  <2> QED BY <1>1, <1>2, <1>3, <2>1, <2>2, SweepReplacedTyped
<1>9. CASE DeleteStates(w) \/ TellTabs(w)
  BY <1>1, <1>2, <1>3, <1>9, NextUserTyped, SweepReplacedTyped DEF DeleteStates, TellTabs
<1>10. CASE PruneState(w) \/ TakeOffline(w) \/ TellOffline(w) \/ SweepLast(w)
  <2>1. PICK step \in SweepSteps : sweep' = [sweep EXCEPT ![w].at = step]
    BY <1>10 DEF PruneState, TakeOffline, TellOffline, SweepLast, SweepGoto, SweepSteps
  <2> QED BY <1>1, <1>2, <1>3, <2>1, SweepGoesOn
<1> QED BY <1>2, <1>3, <1>4, <1>5, <1>6, <1>7, <1>8, <1>9, <1>10 DEF SweepUserStep

LEMMA SweeperAllTyped ==
  ASSUME StoreTypeOK, SideTyped, ViewTypeOK, CallTyped, SweeperTypeOK, SweeperNext
  PROVE  StoreTypeOK' /\ SideTyped' /\ ViewTypeOK' /\ CallTyped' /\ SweeperTypeOK'
<1> PICK w \in Sweepers : \/ StartSweep(w) \/ PauseSweep(w)
                          \/ SweepScopeStep(w) \/ SweepUserStep(w)
                          \/ SweeperStops(w)
  BY DEF SweeperNext
<1>1. SweeperTypeOK'
  BY ScopeStepTyped, UserStepTyped
<1>2. CASE UNCHANGED serviceVars
  BY <1>1, <1>2 DEF serviceVars, storeVars, StoreTypeOK, sideVars, SideTyped, ViewTypeOK, CallTyped
<1>3. /\ sweep[w].user \in Users /\ sweep[w].version \in Nat /\ sweep[w].count \in Nat
      /\ sweep[w].agg \in PresenceStates \cup {NoState}
  BY DEF SweeperTypeOK
<1>4. UNCHANGED call => CallTyped'
  BY DEF CallTyped
<1>5. UNCHANGED sideVars => SideTyped'
  BY DEF sideVars, SideTyped
<1>6. UNCHANGED view => ViewTypeOK'
  BY DEF ViewTypeOK
<1>7. CASE Prune(w) \/ TakeOffline(w) \/ Delist(w)
  <2>1. StoreTypeOK'
    BY <1>3, <1>7 DEF Prune, TakeOffline, Delist, StoreTypeOK
  <2> QED BY <1>1, <1>4, <1>5, <1>6, <1>7, <2>1 DEF Prune, TakeOffline, Delist
<1>8. ASSUME NEW from, NEW to, SweepIncr(w, from, to)
      PROVE  StoreTypeOK' /\ SideTyped' /\ ViewTypeOK' /\ CallTyped'
  <2>1. StoreTypeOK'
    BY <1>3, <1>8 DEF SweepIncr, Bumped, StoreTypeOK
  <2> QED BY <1>4, <1>5, <1>6, <1>8, <2>1 DEF SweepIncr
<1>9. CASE TellOffline(w) \/ TellTabs(w)
  <2> DEFINE offline == PresenceEvent("user_offline", sweep[w].version, 0, NoState)
             tabs == PresenceEvent("user_tabs", sweep[w].version, sweep[w].count, sweep[w].agg)
  <2>1. offline \in PresenceEvents /\ tabs \in PresenceEvents
    BY <1>3 DEF PresenceEvent, PresenceEvents, EventTypes
  <2>2. Publish(sweep[w].user, offline) \/ Publish(sweep[w].user, tabs)
    BY <1>9 DEF TellOffline, TellTabs
  <2> HIDE DEF offline, tabs
  <2>3. ViewTypeOK'
    BY <1>3, <2>1, <2>2, PublishTyped
  <2>4. StoreTypeOK'
    BY <1>9 DEF TellOffline, TellTabs, storeVars, StoreTypeOK
  <2> QED BY <1>1, <1>4, <1>5, <1>9, <2>3, <2>4 DEF TellOffline, TellTabs
<1>10. CASE PruneState(w) \/ DeleteStates(w) \/ SweepLast(w)
  <2>1. SideTyped'
    <3>1. CASE DeleteStates(w)
      BY <3>1, DropStatesTyped DEF DeleteStates
    <3>2. CASE PruneState(w) \/ SweepLast(w)
      BY <1>3, <3>2 DEF PruneState, SweepLast, SideTyped
    <3> QED BY <1>10, <3>1, <3>2
  <2>2. StoreTypeOK'
    BY <1>10 DEF PruneState, DeleteStates, SweepLast, storeVars, StoreTypeOK
  <2> QED BY <1>1, <1>4, <1>6, <1>10, <2>1, <2>2 DEF PruneState, DeleteStates, SweepLast
<1>11. CASE StartSweep(w) \/ PauseSweep(w) \/ SweepScopeStep(w) \/ SweeperStops(w)
  BY <1>2, <1>7, <1>11 DEF StartSweep, PauseSweep, SweepScopeStep, Scan, EndBatch, CheckEmpty, SweepUser, SweeperStops
<1>12. CASE SweepUserStep(w)
  BY <1>1, <1>2, <1>7, <1>8, <1>9, <1>10, <1>12
     DEF SweepUserStep, CheckSession, CountRemaining, SweepAggregate
<1> QED BY <1>11, <1>12

-----------------------------------------------------------------------------
\* API requests.
Requests == [at : ApiSteps, user : Users, left : SUBSET Sessions, reply : Replies,
             agg : PresenceStates \cup {NoState}]

LEMMA RequestReplacedTyped ==
  ASSUME ApiTypeOK, NEW a \in Apis, NEW k \in Requests, request' = [request EXCEPT ![a] = k] PROVE ApiTypeOK'
BY DEF ApiTypeOK, Requests

LEMMA NoRequestTyped == NoRequest \in Requests
<1>1. (CHOOSE u \in Users : TRUE) \in Users
  BY EngineAssumption
<1> QED BY <1>1 DEF NoRequest, NoReply, Requests, Replies, ApiSteps

LEMMA RequestTyped ==
  ASSUME StoreTypeOK, CallTyped, ApiTypeOK, NEW a \in Apis,
         \/ \E u \in Users : RequestDisconnect(a, u)
         \/ RequestStep(a) \/ ApiStops(a)
  PROVE  ApiTypeOK'
<1>1. request[a] \in Requests /\ a \in Callers
  BY EngineAssumption DEF ApiTypeOK, Requests
<1>2. request[a].user \in Users /\ call[a].reply \in Replies
  BY <1>1 DEF Requests, CallTyped, Calls
<1>3. ASSUME NEW u \in Users, RequestDisconnect(a, u) PROVE ApiTypeOK'
  <2> DEFINE step == IF userSessions[u] = {} THEN "empty" ELSE "next"
             k == [request[a] EXCEPT !.at = step, !.user = u, !.left = userSessions[u]]
  <2>1. step \in ApiSteps /\ userSessions[u] \subseteq Sessions
    BY DEF ApiSteps, StoreTypeOK
  <2>2. request' = [request EXCEPT ![a] = k]
    BY <1>3 DEF RequestDisconnect
  <2> HIDE DEF step
  <2>3. k \in Requests
    BY <1>1, <2>1 DEF Requests
  <2> HIDE DEF k
  <2> QED BY <2>2, <2>3, RequestReplacedTyped
<1>4. CASE RemoveListed(a)
  <2> DEFINE k == [request[a] EXCEPT !.at = "empty_incr"]
  <2>1. k \in Requests
    BY <1>1 DEF Requests, ApiSteps
  <2>2. request' = [request EXCEPT ![a] = k] \/ request' = [request EXCEPT ![a] = NoRequest]
    BY <1>4 DEF RemoveListed, ApiTypeOK
  <2> HIDE DEF k
  <2> QED BY <2>1, <2>2, NoRequestTyped, RequestReplacedTyped
<1>5. CASE IncrListed(a)
  <2> DEFINE v == userVersion[request[a].user] + 1
             reply == [transition |-> "offline", version |-> v, count |-> 0]
             k == [request[a] EXCEPT !.at = "result", !.reply = reply]
  <2>1. v \in Nat
    BY <1>2 DEF StoreTypeOK
  <2>2. request' = [request EXCEPT ![a] = k]
    BY <1>5 DEF IncrListed
  <2> HIDE DEF v
  <2>3. reply \in Replies
    BY <2>1 DEF Replies
  <2> HIDE DEF reply
  <2>4. k \in Requests
    BY <1>1, <2>3 DEF Requests, ApiSteps
  <2> HIDE DEF k
  <2> QED BY <2>2, <2>4, RequestReplacedTyped
<1>6. ASSUME NEW s \in Sessions, DisconnectNext(a, s) PROVE ApiTypeOK'
  <2> DEFINE k == [request[a] EXCEPT !.at = "disconnect", !.left = @ \ {s}]
  <2>1. k \in Requests
    BY <1>1 DEF Requests, ApiSteps
  <2>2. request' = [request EXCEPT ![a] = k]
    BY <1>6 DEF DisconnectNext, ApiTypeOK
  <2> HIDE DEF k
  <2> QED BY <2>1, <2>2, RequestReplacedTyped
<1>7. CASE TakeResult(a)
  <2> DEFINE step == IF request[a].left = {} THEN "result" ELSE "next"
             k == [request[a] EXCEPT !.at = step, !.reply = call[a].reply]
  <2>1. step \in ApiSteps
    BY DEF ApiSteps
  <2>2. request' = [request EXCEPT ![a] = k]
    BY <1>7 DEF TakeResult
  <2> HIDE DEF step
  <2>3. k \in Requests
    BY <1>1, <1>2, <2>1 DEF Requests
  <2> HIDE DEF k
  <2> QED BY <2>2, <2>3, RequestReplacedTyped
<1>8. CASE AnnounceOffline(a) \/ AnnounceRemaining(a) \/ ApiStops(a)
  BY <1>8, NoRequestTyped, RequestReplacedTyped DEF AnnounceOffline, AnnounceRemaining, ApiStops
<1>9. CASE ReadRemaining(a)
  <2> DEFINE k == [request[a] EXCEPT !.at = "tell", !.agg = Aggregate(request[a].user)]
  <2>1. k \in Requests
    BY <1>1, AggregateTyped DEF Requests, ApiSteps
  <2>2. request' = [request EXCEPT ![a] = k] \/ request' = [request EXCEPT ![a] = NoRequest]
    BY <1>9 DEF ReadRemaining
  <2> HIDE DEF k
  <2> QED BY <2>1, <2>2, NoRequestTyped, RequestReplacedTyped
<1>10. CASE UNCHANGED request
  BY <1>10 DEF ApiTypeOK
<1> QED BY <1>3, <1>4, <1>5, <1>6, <1>7, <1>8, <1>9, <1>10 DEF RequestStep

LEMMA ApiAllTyped ==
  ASSUME StoreTypeOK, SideTyped, ViewTypeOK, CallTyped, ApiTypeOK, ApiNext
  PROVE  StoreTypeOK' /\ SideTyped' /\ ViewTypeOK' /\ CallTyped' /\ ApiTypeOK'
<1> PICK a \in Apis : \/ \E u \in Users : RequestDisconnect(a, u)
                      \/ RequestStep(a) \/ ApiStops(a)
  BY DEF ApiNext
<1>1. ApiTypeOK' /\ a \in Callers
  BY RequestTyped, EngineAssumption
<1>2. /\ request[a].user \in Users /\ request[a].agg \in PresenceStates \cup {NoState}
      /\ request[a].reply.version \in Nat /\ request[a].reply.count \in Nat
  BY DEF ApiTypeOK, Replies
<1>3. UNCHANGED <<sideVars, view>> => SideTyped' /\ ViewTypeOK'
  BY DEF sideVars, SideTyped, ViewTypeOK
<1>4. UNCHANGED storeVars => StoreTypeOK'
  BY DEF storeVars, StoreTypeOK
<1>5. UNCHANGED call => CallTyped'
  BY DEF CallTyped
<1>6. CASE RemoveListed(a) \/ IncrListed(a)
  <2>1. StoreTypeOK'
    BY <1>2, <1>6 DEF RemoveListed, IncrListed, Bumped, StoreTypeOK
  <2> QED BY <1>1, <1>3, <1>5, <1>6, <2>1 DEF RemoveListed, IncrListed
<1>7. ASSUME NEW s \in Sessions, DisconnectNext(a, s) PROVE CallTyped'
  BY <1>1, <1>7, StartTyped DEF DisconnectNext
<1>8. CASE TakeResult(a) \/ ApiStops(a) \/ \E s \in Sessions : DisconnectNext(a, s)
  <2>1. CallTyped'
    BY <1>1, <1>7, <1>8, EndTyped DEF TakeResult, ApiStops
  <2>2. UNCHANGED <<storeVars, sideVars, view>>
    BY <1>8 DEF TakeResult, ApiStops, DisconnectNext
  <2> QED BY <1>1, <1>3, <1>4, <2>1, <2>2
<1>9. CASE DisconnectStep(a)
  BY <1>1, <1>9, DisconnectSideTyped
<1>10. CASE AnnounceOffline(a) \/ AnnounceRemaining(a)
  <2> DEFINE offline == PresenceEvent("user_offline", request[a].reply.version, request[a].reply.count, NoState)
             tabs == PresenceEvent("user_tabs", request[a].reply.version, request[a].reply.count, request[a].agg)
  <2>1. offline \in PresenceEvents /\ tabs \in PresenceEvents
    BY <1>2 DEF PresenceEvent, PresenceEvents, EventTypes
  <2>2. Publish(request[a].user, offline) \/ Publish(request[a].user, tabs)
    BY <1>10 DEF AnnounceOffline, AnnounceRemaining
  <2> HIDE DEF offline, tabs
  <2>3. ViewTypeOK'
    BY <1>2, <2>1, <2>2, PublishTyped
  <2>4. UNCHANGED <<storeVars, sideVars, call>>
    BY <1>10 DEF AnnounceOffline, AnnounceRemaining
  <2>5. SideTyped'
    BY <2>4 DEF sideVars, SideTyped
  <2> QED BY <1>1, <1>4, <1>5, <2>3, <2>4, <2>5
<1>11. CASE ReadRemaining(a) \/ \E u \in Users : RequestDisconnect(a, u)
  BY <1>1, <1>3, <1>4, <1>5, <1>11 DEF ReadRemaining, RequestDisconnect, serviceVars
<1> QED BY <1>6, <1>8, <1>9, <1>10, <1>11 DEF RequestStep

-----------------------------------------------------------------------------
TypeInv == /\ StoreTypeOK /\ SideTyped /\ ViewTypeOK /\ CallTyped
           /\ DebouncerTypeOK
           /\ ConnTyped /\ MadeTyped /\ Dialled
           /\ SweeperTypeOK /\ ApiTypeOK

LEMMA TypeInitial == Init => TypeInv
<1> SUFFICES ASSUME Init PROVE TypeInv
  OBVIOUS
<1> USE StoreAssumption, EngineAssumption DEF Init
<1>1. StoreTypeOK /\ SideTyped /\ ViewTypeOK
  <2>1. StoreTypeOK
    BY StoreInitial DEF ServiceInit, StoreInv
  <2>2. SideTyped
    BY DEF ServiceInit, SideTyped
  <2>3. Unheard \in PresenceEvents
    BY DEF Unheard, PresenceEvent, PresenceEvents, EventTypes
  <2>4. view = [u \in Users |-> Unheard]
    BY DEF ServiceInit, ViewInit
  <2> HIDE DEF Unheard
  <2>5. ViewTypeOK
    BY <2>3, <2>4 DEF ViewTypeOK, PresenceEvents
  <2> QED BY <2>1, <2>2, <2>5
<1>2. CallTyped
  BY NoCallTyped DEF ServiceInit, CallTyped
<1>3. DebouncerTypeOK
  BY IdleWorkerTyped DEF DebouncerInit, DebouncerTypeOK, Workers
<1>4. NoConn \in Conns /\ NoConn.at = "idle"
  BY DEF NoConn, NoReply, Conns, ConnSteps, Replies
<1>5. ConnTyped /\ MadeTyped /\ Dialled
  <2> HIDE DEF NoConn
  <2> QED BY <1>4 DEF GatewayInit, ConnTyped, MadeTyped, Dialled
<1>6. SweeperTypeOK
  BY IdleSweepTyped DEF SweeperInit, SweeperTypeOK, Sweeps
<1>7. ApiTypeOK
  BY NoRequestTyped DEF ApiInit, ApiTypeOK, Requests
<1> QED BY <1>1, <1>2, <1>3, <1>5, <1>6, <1>7 DEF TypeInv

LEMMA TypeInductive == ASSUME TypeInv, [Next]_vars PROVE TypeInv'
<1> USE DEF TypeInv
<1>1. UNCHANGED gatewayVars => ConnTyped' /\ MadeTyped' /\ Dialled'
  BY DEF gatewayVars, ConnTyped, MadeTyped, Dialled
<1>2. UNCHANGED debouncerVars => DebouncerTypeOK'
  BY DEF debouncerVars, jobVars, workerVars, DebouncerTypeOK
<1>3. UNCHANGED sweeperVars => SweeperTypeOK'
  BY DEF sweeperVars, SweeperTypeOK
<1>4. UNCHANGED request => ApiTypeOK'
  BY DEF ApiTypeOK
<1>5. CASE ByGateway(GatewayNext)
  BY <1>3, <1>4, <1>5, GatewayTyped, GatewayLeavesCalls, GatewayJobsTyped, DialledKept DEF ByGateway, CallTyped
<1>6. CASE ByDebouncer(DebouncerNext)
  BY <1>1, <1>3, <1>4, <1>6, DebouncerAllTyped DEF ByDebouncer
<1>7. CASE BySweeper(SweeperNext)
  BY <1>1, <1>2, <1>4, <1>7, SweeperAllTyped DEF BySweeper
<1>8. CASE ByApi(ApiNext)
  BY <1>1, <1>2, <1>3, <1>8, ApiAllTyped DEF ByApi
<1>9. CASE ExpiryNext
  <2>1. StoreTypeOK'
    BY <1>9, ScriptTyped DEF ExpiryNext, Expire, Script
  <2>2. SideTyped' /\ ViewTypeOK' /\ CallTyped'
    BY <1>9 DEF ExpiryNext, Expire, sideVars, SideTyped, ViewTypeOK, CallTyped
  <2> QED BY <1>1, <1>2, <1>3, <1>4, <1>9, <2>1, <2>2 DEF ExpiryNext
<1>10. CASE UNCHANGED vars
  <2>1. StoreTypeOK' /\ SideTyped' /\ ViewTypeOK' /\ CallTyped'
    BY <1>10 DEF vars, serviceVars, storeVars, StoreTypeOK, sideVars, SideTyped, ViewTypeOK, CallTyped
  <2> QED BY <1>1, <1>2, <1>3, <1>4, <1>10, <2>1 DEF vars
<1> QED BY <1>5, <1>6, <1>7, <1>8, <1>9, <1>10 DEF Next

\* The engine stays within its types, with any number of processes of every kind and
\* any of the faults: every job names a connection that was made, every process is
\* where its next step finds it, and what it has read is of the kind it will write.
THEOREM EngineTypeCorrect == Spec => []TypeOK
<1>1. TypeInv /\ [Next]_vars => TypeInv'
  BY TypeInductive
<1>2. TypeInv => TypeOK
  BY DEF TypeInv, TypeOK, ServiceTypeOK, SideTyped, CallTyped, Calls, GatewayTypeOK, ConnTyped, Conns, MadeTyped
<1> QED BY <1>1, <1>2, TypeInitial, PTL DEF Spec

-----------------------------------------------------------------------------
(***************************************************************************)
(* A session id that is used once: whatever names it in the store, or in a *)
(* sweeper that read it there, names a session that has registered and     *)
(* will not register again.  So a key a sweeper finds expired stays so,    *)
(* and what it prunes, however late, is never the session of a live key.   *)
(***************************************************************************)
Used(s) == made[s] = 1 /\ conn[s].at # "connect"

SweptUsed == \A w \in Sweepers :
  /\ \A s \in sweep[w].left : Used(s)
  /\ sweep[w].at = "prune" => Used(sweep[w].dead) /\ ~Alive(sweep[w].dead)

LiveInv == /\ TypeInv /\ MadeInv /\ LiveSessionIndexed
           /\ \A u \in Users : \A s \in userSessions[u] : Used(s)
           /\ SweptUsed

LEMMA UsedKept ==
  ASSUME MaxConns = 1, ConnTyped, MadeInv, GatewayNext PROVE \A s \in Sessions : Used(s) => Used(s)'
<1> PICK s \in Sessions : Moves(s) /\ \A t \in Sessions \ {s} : conn'[t] = conn[t]
  BY ConnMoves
<1>1. CASE conn[s].at = "idle" /\ made[s] < MaxConns /\ made' = [made EXCEPT ![s] = @ + 1]
  BY <1>1 DEF MadeInv, Used
<1>2. CASE made' = made /\ conn'[s].at # "connect"
  BY <1>2 DEF Used
<1>3. CASE ConnectSession(s)
  BY <1>3 DEF ConnectSession, Moves, Used, MadeInv
<1> QED BY <1>1, <1>2, <1>3 DEF Moves

\* What a step must do to keep the invariant, if it is not a sweeper's.
LEMMA LiveKept ==
  ASSUME StoreTypeOK, SweeperTypeOK, LiveInv, UNCHANGED sweep,
         \A s \in Sessions : Used(s) => Used(s)',
         \A s \in Sessions : Used(s) /\ ~Alive(s) => ~Alive(s)'
  PROVE  SweptUsed'
<1> SUFFICES ASSUME NEW w \in Sweepers
             PROVE  /\ \A s \in sweep[w].left : Used(s)'
                    /\ sweep[w].at = "prune" => Used(sweep[w].dead)' /\ ~Alive(sweep[w].dead)'
  BY DEF SweptUsed
<1>1. sweep[w].left \subseteq Sessions /\ sweep[w].dead \in Sessions
  BY DEF SweeperTypeOK
<1> QED BY <1>1 DEF LiveInv, SweptUsed

\* A script other than connect.lua registers nothing and revives no key.
LEMMA ScriptLive ==
  ASSUME NEW s \in Sessions, StoreTypeOK, LiveSessionIndexed,
         HeartbeatScript(s) \/ DisconnectScript(s) \/ Age(s) \/ UNCHANGED <<session, userSessions>>
  PROVE  /\ LiveSessionIndexed'
         /\ \A u \in Users : userSessions'[u] \subseteq userSessions[u]
         /\ \A t \in Sessions : ~Alive(t) => ~Alive(t)'
<1> USE StoreAssumption DEF StoreTypeOK, LiveSessionIndexed, Alive
<1>1. CASE DisconnectScript(s)
  BY <1>1 DEF DisconnectScript, DisconnectSet
<1>2. CASE HeartbeatScript(s)
  BY <1>2 DEF HeartbeatScript
<1>3. CASE Age(s)
  BY <1>3 DEF Age
<1>4. CASE UNCHANGED <<session, userSessions>>
  BY <1>4
<1> QED BY <1>1, <1>2, <1>3, <1>4

LEMMA GatewayLive ==
  ASSUME MaxConns = 1, LiveInv, GatewayNext, UNCHANGED sweep
  PROVE  /\ LiveSessionIndexed' /\ SweptUsed'
         /\ \A u \in Users : \A s \in userSessions'[u] : Used(s)'
<1> USE StoreAssumption
<1>1. StoreTypeOK /\ SweeperTypeOK /\ ConnTyped /\ MadeInv /\ LiveSessionIndexed
  BY DEF LiveInv, TypeInv
<1>2. \A s \in Sessions : Used(s) => Used(s)'
  BY <1>1, UsedKept
<1>3. \A u \in Users : \A s \in userSessions[u] : s \in Sessions /\ Used(s)
  BY <1>1 DEF LiveInv, StoreTypeOK
<1>4. ASSUME NEW s \in Sessions, ConnectSession(s)
      PROVE  /\ LiveSessionIndexed' /\ SweptUsed'
             /\ \A u \in Users : \A t \in userSessions'[u] : Used(t)'
  <2>1. ConnectScript(s) /\ made' = made /\ conn[s].at = "connect"
    BY <1>4 DEF ConnectSession
  <2>2. LiveSessionIndexed'
    BY <1>1, <2>1 DEF ConnectScript, ConnectSet, StoreTypeOK, LiveSessionIndexed, Alive
  <2>3. ~Used(s)
    BY <2>1 DEF Used
  <2>4. \A t \in Sessions : Used(t) /\ ~Alive(t) => ~Alive(t)'
    BY <1>1, <2>1, <2>3 DEF ConnectScript, StoreTypeOK, Alive
  <2>5. Used(s)'
    <3>1. PICK reply \in {ConnectReply(s), [ConnectReply(s) EXCEPT !.transition = "invisible"]} :
            conn' = [conn EXCEPT
              ![s].at = IF s \in Invisible THEN "hide" ELSE IF s \in Typed THEN "device" ELSE "initstate",
              ![s].reply = reply]
      BY <1>4, Zenon DEF ConnectSession
    <3> QED BY <1>1, <2>1, <3>1 DEF MadeInv, Used, ConnTyped, Conns
  <2>6. \A u \in Users : userSessions'[u] \subseteq userSessions[u] \cup {s}
    BY <1>1, <2>1 DEF ConnectScript, ConnectSet, StoreTypeOK
  <2> QED BY <1>1, <1>2, <1>3, <2>2, <2>4, <2>5, <2>6, LiveKept
<1>5. CASE ~\E s \in Sessions : ConnectSession(s)
  <2> PICK s \in Sessions :
        \/ Dial(s) \/ ConnectStep(s) \/ Heartbeat(s)
        \/ \E state \in PresenceStates : SetState(s, state)
        \/ StateStep(s) \/ LoseConnection(s) \/ Schedule(s) \/ GatewayStops(s)
    BY DEF GatewayNext
  <2>1. HeartbeatScript(s) \/ UNCHANGED <<session, userSessions>>
    <3>1. CASE ConnectStep(s)
      BY <1>5, <3>1 DEF ConnectStep, Hide, CountDevice, InitState, InitLast, ReadAggregate,
                        AnnounceConnect, serviceVars, storeVars
    <3>2. CASE StateStep(s)
      BY <3>2 DEF StateStep, WriteState, ReadAllStates, CompareLast, CommitLast, CommitVersion, CountTabs,
                  TellState, serviceVars, storeVars
    <3>3. CASE \/ Dial(s) \/ Heartbeat(s) \/ LoseConnection(s) \/ Schedule(s) \/ GatewayStops(s)
               \/ \E state \in PresenceStates : SetState(s, state)
      BY <3>3 DEF Dial, Heartbeat, LoseConnection, Schedule, GatewayStops, SetState, serviceVars, storeVars
    <3> QED BY <3>1, <3>2, <3>3
  <2> QED BY <1>1, <1>2, <1>3, <2>1, ScriptLive, LiveKept
<1> QED BY <1>4, <1>5

\* Disconnect, expiry and whatever leaves the two keys alone.
LEMMA OthersLive ==
  ASSUME LiveInv, NEW s \in Sessions, UNCHANGED <<gatewayVars, sweep>>,
         DisconnectScript(s) \/ Age(s) \/ UNCHANGED <<session, userSessions>>
  PROVE  /\ LiveSessionIndexed' /\ SweptUsed'
         /\ \A u \in Users : \A t \in userSessions'[u] : Used(t)'
<1>1. StoreTypeOK /\ SweeperTypeOK /\ LiveSessionIndexed
  BY DEF LiveInv, TypeInv
<1>2. \A t : Used(t) => Used(t)'
  BY DEF Used, gatewayVars
<1> QED BY <1>1, <1>2, ScriptLive, LiveKept DEF LiveInv

LEMMA CallsOnIndex ==
  ASSUME CallTyped, NEW c \in Callers, DisconnectStep(c)
  PROVE  UNCHANGED <<session, userSessions>> \/ \E s \in Sessions : DisconnectScript(s)
<1>1. CASE RunScript(c)
  BY <1>1 DEF RunScript, CallTyped, Calls
<1>2. CASE ~RunScript(c)
  BY <1>2 DEF DisconnectStep, GetMeta, DropInvisible, DropDevices, DropUserStates, DecrementDevice,
              DeleteState, ReadStates, ReadLast, SetLast, storeVars
<1> QED BY <1>1, <1>2

LEMMA DebouncerOnIndex ==
  ASSUME CallTyped, DebouncerNext
  PROVE  UNCHANGED <<session, userSessions>> \/ \E s \in Sessions : DisconnectScript(s)
<1> USE EngineAssumption
<1>1. ASSUME NEW d \in Debouncers, ~DisconnectStep(d),
        \/ EnterScope(d) \/ LeaveScope(d)
        \/ \E j \in Jobs : TakeJob(d, j) \/ DropOrphan(d, j)
        \/ ExecuteStep(d) \/ DebouncerStops(d)
      PROVE  UNCHANGED <<session, userSessions>>
  BY <1>1 DEF EnterScope, LeaveScope, TakeJob, DropOrphan, ExecuteStep, RecordTransition, AnnounceJob,
              AnnouncePresence, FinishJob, DebouncerStops, serviceVars, storeVars
<1>2. ASSUME (\E j \in Jobs : JobExpires(j)) \/ (\E u \in Users : WindowPasses(u))
      PROVE  UNCHANGED <<session, userSessions>>
  BY <1>2 DEF JobExpires, WindowPasses, serviceVars, storeVars
<1> QED BY <1>1, <1>2, CallsOnIndex DEF DebouncerNext

LEMMA ApiOnIndex ==
  ASSUME CallTyped, ApiNext
  PROVE  UNCHANGED <<session, userSessions>> \/ \E s \in Sessions : DisconnectScript(s)
<1> USE EngineAssumption
<1>1. ASSUME NEW a \in Apis, ~DisconnectStep(a),
        (\E u \in Users : RequestDisconnect(a, u)) \/ RequestStep(a) \/ ApiStops(a)
      PROVE  UNCHANGED <<session, userSessions>>
  BY <1>1 DEF RequestDisconnect, RequestStep, RemoveListed, IncrListed, DisconnectNext, TakeResult,
              AnnounceOffline, ReadRemaining, AnnounceRemaining, ApiStops, serviceVars, storeVars
<1> QED BY <1>1, CallsOnIndex DEF ApiNext

\* A sweeper prunes what it found expired among sessions it read in the index.
SweptOK(k) == /\ \A s \in k.left : Used(s)
              /\ k.at = "prune" => Used(k.dead) /\ ~Alive(k.dead)

LEMMA SweepReplaced ==
  ASSUME SweepsTyped, SweptUsed, NEW w \in Sweepers, NEW k, sweep' = [sweep EXCEPT ![w] = k],
         SweptOK(k), UNCHANGED <<conn, made, session>>
  PROVE  SweptUsed'
<1> USE DEF Used, Alive
<1> SUFFICES ASSUME NEW v \in Sweepers
             PROVE  /\ \A s \in sweep'[v].left : Used(s)
                    /\ sweep'[v].at = "prune" => Used(sweep'[v].dead) /\ ~Alive(sweep'[v].dead)
  BY DEF SweptUsed
<1>1. CASE v = w
  BY <1>1 DEF SweptOK, SweepsTyped
<1>2. CASE v # w
  BY <1>2 DEF SweptUsed, SweepsTyped
<1> QED BY <1>1, <1>2

LEMMA SweeperLive ==
  ASSUME LiveInv, SweeperNext, UNCHANGED gatewayVars
  PROVE  /\ LiveSessionIndexed' /\ SweptUsed'
         /\ \A u \in Users : \A s \in userSessions'[u] : Used(s)'
<1> PICK w \in Sweepers : \/ StartSweep(w) \/ PauseSweep(w)
                          \/ SweepScopeStep(w) \/ SweepUserStep(w)
                          \/ SweeperStops(w)
  BY DEF SweeperNext
<1>1. /\ StoreTypeOK /\ SweepsTyped /\ LiveSessionIndexed /\ SweptUsed
      /\ sweep[w] \in Sweeps /\ SweptOK(sweep[w])
  BY DEF LiveInv, TypeInv, SweeperTypeOK, SweepsTyped, Sweeps, SweptUsed, SweptOK
<1>2. /\ UNCHANGED <<conn, made>>
      /\ \A s : Used(s) => Used(s)'
  BY DEF gatewayVars, Used
<1>3. UNCHANGED session
  BY DEF StartSweep, PauseSweep, SweeperStops, SweepScopeStep, Scan, EndBatch, CheckEmpty, Delist, SweepUser,
         SweepUserStep, CheckSession, Prune, PruneState, CountRemaining, TakeOffline, SweepIncr, TellOffline,
         DeleteStates, SweepAggregate, SweepLast, TellTabs, serviceVars, storeVars
<1>4. Prune(w) \/ UNCHANGED userSessions
  BY DEF StartSweep, PauseSweep, SweeperStops, SweepScopeStep, Scan, EndBatch, CheckEmpty, Delist, SweepUser,
         SweepUserStep, CheckSession, PruneState, CountRemaining, TakeOffline, SweepIncr, TellOffline,
         DeleteStates, SweepAggregate, SweepLast, TellTabs, serviceVars, storeVars
<1>5. LiveSessionIndexed'
  <2>1. CASE Prune(w)
    <3>1. ~Alive(sweep[w].dead)
      BY <1>1, <2>1 DEF Prune, At, SweptOK
    <3> QED BY <1>1, <1>3, <2>1, <3>1 DEF Prune, StoreTypeOK, LiveSessionIndexed, Alive
  <2>2. CASE UNCHANGED userSessions
    BY <1>1, <1>3, <2>2 DEF LiveSessionIndexed, Alive
  <2> QED BY <1>4, <2>1, <2>2
<1>6. \A u \in Users : \A s \in userSessions'[u] : Used(s)'
  <2>1. \A u \in Users : userSessions'[u] \subseteq userSessions[u]
    BY <1>1, <1>4 DEF Prune, StoreTypeOK
  <2> QED BY <1>2, <2>1 DEF LiveInv
<1>7. SweptOK(IdleSweep) /\ SweptOK([IdleSweep EXCEPT !.at = "empty"]) /\ SweptOK(NextUser(w))
  BY DEF SweptOK, IdleSweep, NextUser
<1>8. SweptUsed'
  <2>1. ASSUME NEW k, sweep' = [sweep EXCEPT ![w] = k], SweptOK(k) PROVE SweptUsed'
    BY <1>1, <1>2, <1>3, <2>1, SweepReplaced
  <2>2. ASSUME NEW k \in Sweeps, sweep' = [sweep EXCEPT ![w] = k], k.left \subseteq sweep[w].left, k.at # "prune"
        PROVE  SweptUsed'
    BY <1>1, <2>1, <2>2 DEF SweptOK
  <2>3. CASE PauseSweep(w) \/ SweeperStops(w) \/ DeleteStates(w) \/ TellTabs(w)
    BY <1>7, <2>1, <2>3 DEF PauseSweep, SweeperStops, DeleteStates, TellTabs
  <2>4. ASSUME NEW s \in Sessions, CheckSession(w, s) PROVE SweptUsed'
    <3>1. SweptOK([sweep[w] EXCEPT !.left = @ \ {s}, !.at = "exists"])
      BY <1>1 DEF SweptOK, Sweeps
    <3>2. ~Alive(s) => SweptOK([sweep[w] EXCEPT !.left = @ \ {s}, !.at = "prune", !.dead = s])
      BY <1>1, <2>4 DEF SweptOK, Sweeps, CheckSession
    <3>3. CASE Alive(s)
      <4> DEFINE k == [sweep[w] EXCEPT !.left = @ \ {s}, !.at = "exists"]
      <4>1. sweep' = [sweep EXCEPT ![w] = k]
        BY <1>1, <2>4, <3>3 DEF CheckSession, SweepsTyped, Sweeps
      <4> QED BY <2>1, <3>1, <4>1
    <3>4. CASE ~Alive(s)
      <4> DEFINE k == [sweep[w] EXCEPT !.left = @ \ {s}, !.at = "prune", !.dead = s]
      <4>1. sweep' = [sweep EXCEPT ![w] = k]
        BY <1>1, <2>4, <3>4 DEF CheckSession, SweepsTyped
      <4> QED BY <2>1, <3>2, <3>4, <4>1
    <3> QED BY <3>3, <3>4
  <2>5. ASSUME NEW u \in Users, SweepUser(w, u) PROVE SweptUsed'
    <3> DEFINE k == [sweep[w] EXCEPT !.at = "exists", !.batch = @ \ {u}, !.user = u,
                                     !.left = userSessions[u], !.pruned = FALSE]
    <3>1. sweep' = [sweep EXCEPT ![w] = k]
      BY <1>1, <2>5 DEF SweepUser, SweepsTyped
    <3>2. k.at = "exists" /\ k.left = userSessions[u]
      BY <1>1 DEF Sweeps
    <3> HIDE DEF k
    <3>3. SweptOK(k)
      BY <3>2 DEF SweptOK, LiveInv
    <3> QED BY <2>1, <3>1, <3>3
  <2>6. CASE EndBatch(w)
    <3>1. SweptOK([sweep[w] EXCEPT !.at = "scan"])
      BY <1>1 DEF SweptOK, Sweeps
    <3>2. CASE sweep[w].last
      BY <1>7, <2>1, <2>6, <3>2 DEF EndBatch
    <3>3. CASE ~sweep[w].last
      <4> DEFINE k == [sweep[w] EXCEPT !.at = "scan"]
      <4>1. sweep' = [sweep EXCEPT ![w] = k]
        BY <2>6, <3>3 DEF EndBatch
      <4> QED BY <2>1, <3>1, <4>1
    <3> QED BY <3>2, <3>3
  <2>7. CASE \/ CheckEmpty(w) \/ Delist(w) \/ PruneState(w) \/ TakeOffline(w) \/ TellOffline(w) \/ SweepLast(w)
    <3>1. PICK step \in SweepSteps \ {"prune"} : sweep' = [sweep EXCEPT ![w].at = step]
      BY <2>7 DEF CheckEmpty, Delist, PruneState, TakeOffline, TellOffline, SweepLast, SweepGoto, SweepSteps
    <3> DEFINE k == [sweep[w] EXCEPT !.at = step]
    <3>2. sweep' = [sweep EXCEPT ![w] = k]
      BY <3>1
    <3>3. SweptOK(k)
      BY <1>1 DEF SweptOK, Sweeps
    <3> HIDE DEF k
    <3> QED BY <2>1, <3>2, <3>3
  <2>8. CASE StartSweep(w) \/ Prune(w) \/ SweepAggregate(w)
    <3>1. SweptOK([sweep[w] EXCEPT !.at = "scan", !.passed = sweepCursor])
      BY <1>1 DEF SweptOK, Sweeps
    <3>2. SweptOK([sweep[w] EXCEPT !.at = "hdel", !.pruned = TRUE])
      BY <1>1 DEF SweptOK, Sweeps
    <3>3. SweptOK([sweep[w] EXCEPT !.at = "tabs_last", !.agg = Aggregate(sweep[w].user)])
      BY <1>1 DEF SweptOK, Sweeps
    <3>4. PICK k : sweep' = [sweep EXCEPT ![w] = k] /\ SweptOK(k)
      <4>1. CASE StartSweep(w)
        <5>1. sweep' = [sweep EXCEPT ![w] = [sweep[w] EXCEPT !.at = "scan", !.passed = sweepCursor]]
          BY <4>1 DEF StartSweep
        <5> QED BY <3>1, <5>1
      <4>2. CASE Prune(w)
        <5>1. sweep' = [sweep EXCEPT ![w] = [sweep[w] EXCEPT !.at = "hdel", !.pruned = TRUE]]
          BY <4>2 DEF Prune
        <5> QED BY <3>2, <5>1
      <4>3. CASE SweepAggregate(w)
        <5>1. sweep' = [sweep EXCEPT ![w] = [sweep[w] EXCEPT !.at = "tabs_last", !.agg = Aggregate(sweep[w].user)]]
          BY <4>3 DEF SweepAggregate
        <5> QED BY <3>3, <5>1
      <4> QED BY <2>8, <4>1, <4>2, <4>3
    <3> QED BY <2>1, <3>4
  <2>9. CASE CountRemaining(w)
    <3> DEFINE n == Cardinality(userSessions[sweep[w].user])
               offline == [sweep[w] EXCEPT !.at = "offline"]
               tabs == [sweep[w] EXCEPT !.at = "tabs_incr", !.count = n]
    <3>1. SweptOK(offline) /\ SweptOK(tabs)
      <4> HIDE DEF n
      <4> QED BY <1>1 DEF SweptOK, Sweeps
    <3>2. PICK k \in {offline, tabs, NextUser(w)} : sweep' = [sweep EXCEPT ![w] = k]
      <4> DEFINE k == IF n = 0 THEN offline ELSE IF sweep[w].pruned THEN tabs ELSE NextUser(w)
      <4>1. sweep' = [sweep EXCEPT ![w] = k]
        BY <1>1, <2>9 DEF CountRemaining, SweepsTyped
      <4>2. k \in {offline, tabs, NextUser(w)}
        OBVIOUS
      <4> QED BY <4>1, <4>2
    <3> HIDE DEF offline, tabs
    <3> QED BY <1>7, <2>1, <3>1, <3>2
  <2>10. ASSUME NEW from, NEW to \in {"offline_tell", "tabs_agg"}, SweepIncr(w, from, to) PROVE SweptUsed'
    <3> DEFINE v == userVersion[sweep[w].user] + 1
               k == [sweep[w] EXCEPT !.at = to, !.version = v]
    <3>1. sweep' = [sweep EXCEPT ![w] = k]
      BY <2>10 DEF SweepIncr
    <3> HIDE DEF v
    <3>2. SweptOK(k)
      BY <1>1 DEF SweptOK, Sweeps
    <3> HIDE DEF k
    <3> QED BY <2>1, <3>1, <3>2
  <2>11. ASSUME Scan(w) PROVE SweptUsed'
    <3>1. PICK batch \in SUBSET (onlineUsers \ sweep[w].passed), missed \in SUBSET (Users \ onlineUsers) :
            sweep' = [sweep EXCEPT ![w].at = "user", ![w].batch = batch,
                                   ![w].passed = @ \cup batch \cup missed,
                                   ![w].last = (batch = onlineUsers \ sweep[w].passed)]
      BY <2>11 DEF Scan
    <3> DEFINE last == (batch = onlineUsers \ sweep[w].passed)
               passed == sweep[w].passed \cup batch \cup missed
               k == [sweep[w] EXCEPT !.at = "user", !.batch = batch, !.passed = passed, !.last = last]
    <3>2. sweep' = [sweep EXCEPT ![w] = k]
      BY <1>1, <3>1 DEF SweepsTyped
    <3> HIDE DEF last, passed
    <3>3. SweptOK(k)
      BY <1>1 DEF SweptOK, Sweeps
    <3> HIDE DEF k
    <3> QED BY <2>1, <3>2, <3>3
  <2> QED BY <2>3, <2>4, <2>5, <2>6, <2>7, <2>8, <2>9, <2>10, <2>11 DEF SweepScopeStep, SweepUserStep
<1> QED BY <1>5, <1>6, <1>8

LEMMA LiveInitial == Init => LiveInv
<1> SUFFICES ASSUME Init PROVE LiveInv
  OBVIOUS
<1>1. TypeInv /\ StoreInv
  BY TypeInitial, StoreInitial DEF Init, ServiceInit
<1>2. conn = [s \in Sessions |-> NoConn] /\ made = [s \in Sessions |-> 0] /\ NoConn.at = "idle"
  BY DEF Init, GatewayInit, NoConn
<1>3. MadeInv
  BY <1>2 DEF MadeInv
<1>4. \A u \in Users : userSessions[u] = {}
  BY DEF Init, ServiceInit, StoreInit
<1>5. \A w \in Sweepers : sweep[w].left = {} /\ sweep[w].at = "idle"
  BY DEF Init, SweeperInit, IdleSweep
<1> QED BY <1>1, <1>3, <1>4, <1>5 DEF LiveInv, StoreInv, SweptUsed

LEMMA LiveInductive == ASSUME MaxConns = 1, LiveInv, [Next]_vars PROVE LiveInv'
<1>1. TypeInv'
  BY TypeInductive DEF LiveInv
<1>2. CallTyped /\ ConnTyped /\ MadeInv
  BY DEF LiveInv, TypeInv
<1>3. UNCHANGED gatewayVars => MadeInv'
  BY <1>2 DEF gatewayVars, MadeInv
<1>4. ASSUME UNCHANGED <<gatewayVars, sweep>>,
             UNCHANGED <<session, userSessions>> \/ \E s \in Sessions : DisconnectScript(s) \/ Age(s)
      PROVE  LiveInv'
  <2>1. Sessions # {}
    BY StoreAssumption
  <2> QED BY <1>1, <1>3, <1>4, <2>1, OthersLive DEF LiveInv
<1>5. CASE ByGateway(GatewayNext)
  BY <1>1, <1>2, <1>5, MadeKept, GatewayLive DEF ByGateway, sweeperVars, LiveInv
<1>6. CASE ByDebouncer(DebouncerNext)
  BY <1>2, <1>4, <1>6, DebouncerOnIndex DEF ByDebouncer, sweeperVars
<1>7. CASE BySweeper(SweeperNext)
  BY <1>1, <1>3, <1>7, SweeperLive DEF BySweeper, LiveInv
<1>8. CASE ByApi(ApiNext)
  BY <1>2, <1>4, <1>8, ApiOnIndex DEF ByApi, sweeperVars
<1>9. CASE ExpiryNext
  BY <1>4, <1>9 DEF ExpiryNext, Expire, sweeperVars
<1>10. CASE UNCHANGED vars
  BY <1>4, <1>10 DEF vars, serviceVars, storeVars, sweeperVars
<1> QED BY <1>5, <1>6, <1>7, <1>8, <1>9, <1>10 DEF Next

\* A key that lives belongs to a connection that has opened it and has not been
\* disconnected; what a sweeper has found dead will never be opened again.
THEOREM LiveInvariant == MaxConns = 1 => (Spec => []LiveInv)
<1> SUFFICES ASSUME MaxConns = 1 PROVE Spec => []LiveInv
  OBVIOUS
<1>1. LiveInv /\ [Next]_vars => LiveInv'
  BY LiveInductive
<1> QED BY <1>1, LiveInitial, PTL DEF Spec

\* A session whose key lives is in its user's index, whatever sweepers, requests and
\* late jobs take out of it and whichever of them stop half way: no count of tabs and
\* no sweep misses a live session.
THEOREM LiveAlwaysIndexed == MaxConns = 1 => (Spec => []LiveSessionIndexed)
<1> SUFFICES ASSUME MaxConns = 1 PROVE Spec => []LiveSessionIndexed
  OBVIOUS
<1>1. LiveInv => LiveSessionIndexed
  BY DEF LiveInv
<1> QED BY <1>1, LiveInvariant, PTL

-----------------------------------------------------------------------------
(***************************************************************************)
(* Versions.  Sweepers and requests take versions and tell them in round   *)
(* trips of their own, so what they carry need not be exact any more; but  *)
(* no process carries a version that its user has not reached, and no      *)
(* process mistakes a session of one user for a session of another.        *)
(***************************************************************************)
Given(u, v) == v <= userVersion[u]

SweepTells == {"offline_tell", "tabs_agg", "tabs_last", "tabs_tell"}

ViewGiven == \A u \in Users : Given(u, view[u].version)
ConnGiven == \A s \in Sessions : Given(UserOf[s], conn[s].reply.version)
CallGiven == \A c \in Callers : Given(UserOfCall(c), call[c].reply.version)
SweepGiven == \A w \in Sweepers : sweep[w].at \in SweepTells => Given(sweep[w].user, sweep[w].version)

\* The index of a user holds sessions of that user, and so does a request that
\* has read it.
Owned == \A u \in Users : \A s \in userSessions[u] : UserOf[s] = u

RequestOK(a) == LET r == request[a] IN
  /\ r.at \in {"result", "tell"} => Given(r.user, r.reply.version)
  /\ \A s \in r.left : UserOf[s] = r.user
  /\ r.at = "disconnect" => UserOfCall(a) = r.user

RequestGiven == \A a \in Apis : RequestOK(a)

GivenInv == /\ TypeInv /\ Owned
            /\ ViewGiven /\ ConnGiven /\ CallGiven /\ SweepGiven /\ RequestGiven

\* No version is taken back.
Grows == \A u \in Users : userVersion[u] <= userVersion'[u]

LEMMA GivenStays ==
  ASSUME StoreTypeOK, StoreTypeOK', Grows, NEW u \in Users, NEW v \in Nat, Given(u, v)
  PROVE  v <= userVersion'[u]
<1> PICK old \in Nat : old = userVersion[u]
  BY DEF StoreTypeOK
<1> PICK new \in Nat : new = userVersion'[u]
  BY DEF StoreTypeOK
<1>1. v <= old /\ old <= new
  BY DEF Given, Grows
<1> QED BY <1>1

LEMMA StoreGrows == ASSUME StoreTypeOK, StoreStep PROVE Grows
<1> SUFFICES ASSUME NEW u \in Users PROVE userVersion[u] <= userVersion'[u]
  BY DEF Grows
<1> PICK old \in Nat : old = userVersion[u]
  BY DEF StoreTypeOK
<1>1. userVersion'[u] = old \/ userVersion'[u] = old + 1
  BY StoreMoves DEF MovedOn
<1> QED BY <1>1

\* INCR of one user, outside the scripts.
LEMMA BumpGrows ==
  ASSUME StoreTypeOK, NEW u \in Users, userVersion' = Bumped(u, TRUE)
  PROVE  Grows /\ userVersion'[u] = userVersion[u] + 1
BY DEF StoreTypeOK, Bumped, Grows

LEMMA SweeperGrows ==
  ASSUME StoreTypeOK, SweeperTypeOK, SweeperNext PROVE Grows
<1> PICK w \in Sweepers : \/ StartSweep(w) \/ PauseSweep(w)
                          \/ SweepScopeStep(w) \/ SweepUserStep(w)
                          \/ SweeperStops(w)
  BY DEF SweeperNext
<1>1. ASSUME NEW from, NEW to, SweepIncr(w, from, to) PROVE Grows
  <2>1. sweep[w].user \in Users
    BY DEF SweeperTypeOK
  <2> QED BY <1>1, <2>1, BumpGrows DEF SweepIncr
<1>2. ASSUME UNCHANGED userVersion PROVE Grows
  BY <1>2 DEF Grows, StoreTypeOK
<1>3. CASE StartSweep(w) \/ PauseSweep(w) \/ SweepScopeStep(w) \/ SweeperStops(w)
  BY <1>2, <1>3 DEF StartSweep, PauseSweep, SweeperStops, SweepScopeStep, Scan, EndBatch, CheckEmpty, Delist,
                    SweepUser, serviceVars, storeVars
<1>4. CASE SweepUserStep(w)
  BY <1>1, <1>2, <1>4 DEF SweepUserStep, CheckSession, Prune, PruneState, CountRemaining, TakeOffline, TellOffline,
                          DeleteStates, SweepAggregate, SweepLast, TellTabs, serviceVars, storeVars
<1> QED BY <1>3, <1>4

LEMMA ApiGrows ==
  ASSUME StoreTypeOK, CallTyped, ApiTypeOK, ApiNext PROVE Grows
<1> PICK a \in Apis : \/ \E u \in Users : RequestDisconnect(a, u)
                      \/ RequestStep(a) \/ ApiStops(a)
  BY DEF ApiNext
<1>1. a \in Callers /\ request[a].user \in Users
  BY EngineAssumption DEF ApiTypeOK
<1>2. CASE DisconnectStep(a)
  BY <1>1, <1>2, DisconnectOnStore, StoreGrows
<1>3. CASE IncrListed(a)
  BY <1>1, <1>3, BumpGrows DEF IncrListed
<1>4. ASSUME UNCHANGED userVersion PROVE Grows
  BY <1>4 DEF Grows, StoreTypeOK
<1> QED BY <1>2, <1>3, <1>4 DEF RequestDisconnect, RequestStep, RemoveListed, DisconnectNext, TakeResult,
              AnnounceOffline, ReadRemaining, AnnounceRemaining, ApiStops, serviceVars, storeVars

LEMMA EngineGrows ==
  ASSUME TypeInv, [Next]_vars PROVE Grows
<1> USE DEF TypeInv
<1>1. CASE ByGateway(GatewayNext)
  BY <1>1, GatewayOnStore, StoreGrows DEF ByGateway
<1>2. CASE ByDebouncer(DebouncerNext)
  BY <1>2, DebouncerOnStore, StoreGrows DEF ByDebouncer
<1>3. CASE BySweeper(SweeperNext)
  BY <1>3, SweeperGrows DEF BySweeper
<1>4. CASE ByApi(ApiNext)
  BY <1>4, ApiGrows DEF ByApi
<1>5. CASE ExpiryNext
  BY <1>5, StoreGrows DEF ExpiryNext, Expire, StoreStep, Script
<1>6. CASE UNCHANGED vars
  BY <1>6, StoreGrows DEF vars, serviceVars, StoreStep
<1> QED BY <1>1, <1>2, <1>3, <1>4, <1>5, <1>6 DEF Next

-----------------------------------------------------------------------------
\* What a connection carries it was replied, or incremented itself.
LEMMA ConnVersions ==
  ASSUME StoreTypeOK, ConnTyped, GatewayNext
  PROVE  \A s \in Sessions :
           conn'[s].reply.version \in {conn[s].reply.version, 0, userVersion'[UserOf[s]]}
<1> USE StoreAssumption
<1> PICK s \in Sessions :
      \/ Dial(s) \/ ConnectStep(s) \/ Heartbeat(s)
      \/ \E state \in PresenceStates : SetState(s, state)
      \/ StateStep(s) \/ LoseConnection(s) \/ Schedule(s) \/ GatewayStops(s)
  BY DEF GatewayNext
<1> USE DEF ConnTyped, Conns
<1>1. ASSUME NEW k, conn' = [conn EXCEPT ![s] = k],
             k.reply.version \in {conn[s].reply.version, 0, userVersion'[UserOf[s]]}
      PROVE  \A t \in Sessions : conn'[t].reply.version \in {conn[t].reply.version, 0, userVersion'[UserOf[t]]}
  BY <1>1
<1>2. ASSUME NEW step, NEW state, conn' = [conn EXCEPT ![s].at = step, ![s].state = state]
      PROVE  \A t \in Sessions : conn'[t].reply.version = conn[t].reply.version
  BY <1>2
<1>3. ASSUME NEW step, conn' = [conn EXCEPT ![s].at = step]
      PROVE  \A t \in Sessions : conn'[t].reply.version = conn[t].reply.version
  BY <1>3
<1>4. CASE ConnectSession(s)
  <2> DEFINE r == ConnectReply(s)
  <2>1. PICK step \in {"hide", "device", "initstate"}, reply \in {r, [r EXCEPT !.transition = "invisible"]} :
          conn' = [conn EXCEPT ![s].at = step, ![s].reply = reply]
    <3> HIDE DEF r
    <3> QED BY <1>4, Zenon DEF ConnectSession, r
  <2>2. reply.version = userVersion'[UserOf[s]]
    BY <1>4 DEF ConnectSession, ConnectScript, ConnectReply
  <2>3. conn'[s].reply = reply /\ \A t \in Sessions \ {s} : conn'[t] = conn[t]
    BY <2>1
  <2> QED BY <2>2, <2>3
<1>5. CASE Hide(s) \/ CountDevice(s) \/ InitState(s) \/ InitLast(s) \/ WriteState(s) \/ CommitLast(s)
  BY <1>3, <1>5 DEF Hide, CountDevice, InitState, InitLast, WriteState, CommitLast, ConnGoto
<1>6. CASE ReadAggregate(s) \/ ReadAllStates(s)
  BY <1>2, <1>6 DEF ReadAggregate, ReadAllStates
<1>7. Up.reply.version = 0 /\ NoConn.reply.version = 0
  BY DEF Up, NoConn, NoReply
<1>8. CASE AnnounceConnect(s) \/ TellState(s) \/ Schedule(s) \/ GatewayStops(s)
  BY <1>1, <1>7, <1>8 DEF AnnounceConnect, TellState, Schedule, GatewayStops
<1>9. CASE CompareLast(s)
  BY <1>1, <1>3, <1>7, <1>9 DEF CompareLast
<1>10. CASE CommitVersion(s)
  <2>1. PICK v : v = userVersion[UserOf[s]] + 1 /\ v = userVersion'[UserOf[s]]
    BY <1>10, BumpGrows DEF CommitVersion
  <2>2. conn' = [conn EXCEPT ![s].at = "card", ![s].reply.version = v]
    BY <1>10, <2>1 DEF CommitVersion
  <2>3. conn'[s].reply.version = v /\ \A t \in Sessions \ {s} : conn'[t] = conn[t]
    BY <2>2 DEF Replies
  <2> QED BY <2>1, <2>3
<1>11. CASE CountTabs(s)
  <2>1. PICK n : conn' = [conn EXCEPT ![s].at = "tell", ![s].reply.count = n]
    BY <1>11 DEF CountTabs
  <2> QED BY <2>1 DEF Replies
<1>12. CASE Dial(s) \/ LoseConnection(s) \/ Heartbeat(s)
  BY <1>2, <1>3, <1>12 DEF Dial, LoseConnection, Heartbeat, ConnGoto
<1>13. CASE \E state \in PresenceStates : SetState(s, state)
  BY <1>2, <1>13 DEF SetState
<1> QED BY <1>4, <1>5, <1>6, <1>8, <1>9, <1>10, <1>11, <1>12, <1>13 DEF ConnectStep, StateStep

\* What a step of Disconnect keeps of its caller, once the script has run.
LEMMA ReplyKept ==
  ASSUME CallTyped, NEW c \in Callers, DisconnectStep(c), ~RunScript(c)
  PROVE  /\ call'[c].session = call[c].session /\ call'[c].reply = call[c].reply
         /\ \A e \in Callers \ {c} : call'[e] = call[e]
         /\ call[c].at \notin {"none", "returned"}
         /\ call'[c].at = "script" => call[c].at = "get"
         /\ call'[c].at # "get"
<1> USE DEF CallTyped, Calls
<1>1. CASE GetMeta(c) \/ ReadStates(c) \/ ReadLast(c)
  BY <1>1 DEF GetMeta, ReadStates, ReadLast
<1>2. CASE DropInvisible(c) \/ DropDevices(c) \/ DropUserStates(c)
  BY <1>2 DEF DropInvisible, DropDevices, DropUserStates, Goto
<1>3. CASE DecrementDevice(c) \/ DeleteState(c)
  BY <1>3 DEF DecrementDevice, DeleteState, Goto
<1>4. CASE SetLast(c)
  BY <1>4 DEF SetLast, Goto
<1> QED BY <1>1, <1>2, <1>3, <1>4 DEF DisconnectStep

LEMMA ScriptReplied ==
  ASSUME CallTyped, NEW c \in Callers, RunScript(c)
  PROVE  /\ call'[c].session = call[c].session /\ call'[c].reply = DisconnectReply(call[c].session)
         /\ \A e \in Callers \ {c} : call'[e] = call[e]
         /\ call'[c].at \notin {"none", "get", "script"}
<1> USE DEF CallTyped, Calls
<1>1. PICK step \in {"uninvis", "decdevice", "delstate"} :
        call' = [call EXCEPT ![c].reply = DisconnectReply(call[c].session), ![c].at = step]
  BY Zenon DEF RunScript
<1> QED BY <1>1

\* What a caller of Disconnect carries, and whose session it disconnects.
LEMMA CallVersions ==
  ASSUME StoreTypeOK, CallTyped, NEW c \in Callers, DisconnectStep(c)
  PROVE  /\ call'[c].session = call[c].session
         /\ call'[c].reply.version \in {call[c].reply.version, userVersion'[UserOfCall(c)]}
         /\ \A e \in Callers \ {c} : call'[e] = call[e]
<1>1. CASE RunScript(c)
  <2>1. DisconnectReply(call[c].session).version = userVersion'[UserOfCall(c)]
    BY <1>1 DEF RunScript, DisconnectScript, DisconnectReply, UserOfCall
  <2> QED BY <1>1, <2>1, ScriptReplied
<1>2. CASE ~RunScript(c)
  BY <1>2, ReplyKept
<1> QED BY <1>1, <1>2

\* A publication leaves a version in the view that was there or is the event's.
LEMMA PublishedVersion ==
  ASSUME ViewTypeOK, NEW u \in Users, NEW e, Publish(u, e)
  PROVE  \A w \in Users : \/ view'[w].version = view[w].version
                          \/ w = u /\ view'[w].version = e.version
BY DEF Publish, ViewTypeOK

-----------------------------------------------------------------------------
\* A version that was given out stays given out, whoever carries it on.
LEMMA VersionKept ==
  ASSUME StoreTypeOK, StoreTypeOK', Grows, NEW u \in Users, NEW v \in Nat, Given(u, v),
         NEW w \in {v, 0, userVersion'[u]}
  PROVE  w <= userVersion'[u]
<1> PICK new \in Nat : new = userVersion'[u]
  BY DEF StoreTypeOK
<1>1. v <= new
  BY GivenStays
<1> QED BY <1>1

LEMMA ConnGivenKept ==
  ASSUME TypeInv, TypeInv', Grows, ConnGiven,
         \A s \in Sessions : conn'[s].reply.version \in {conn[s].reply.version, 0, userVersion'[UserOf[s]]}
  PROVE  ConnGiven'
<1> SUFFICES ASSUME NEW s \in Sessions PROVE conn'[s].reply.version <= userVersion'[UserOf[s]]
  BY DEF ConnGiven, Given
<1>1. conn[s].reply.version \in Nat /\ UserOf[s] \in Users /\ Given(UserOf[s], conn[s].reply.version)
  BY StoreAssumption DEF TypeInv, ConnTyped, Conns, Replies, ConnGiven
<1> QED BY <1>1, VersionKept DEF TypeInv

LEMMA CallGivenKept ==
  ASSUME TypeInv, TypeInv', Grows, CallGiven,
         \A c \in Callers :
           \/ call'[c].reply.version = 0
           \/ /\ call'[c].session = call[c].session
              /\ call'[c].reply.version \in {call[c].reply.version, userVersion'[UserOfCall(c)]}
  PROVE  CallGiven'
<1> SUFFICES ASSUME NEW c \in Callers PROVE call'[c].reply.version <= userVersion'[UserOf[call'[c].session]]
  BY DEF CallGiven, Given, UserOfCall
<1>1. /\ call[c].reply.version \in Nat /\ UserOfCall(c) \in Users
      /\ Given(UserOfCall(c), call[c].reply.version)
  BY StoreAssumption DEF TypeInv, CallTyped, Calls, Replies, CallGiven, UserOfCall
<1>2. CASE call'[c].reply.version = 0
  <2>1. UserOf[call'[c].session] \in Users
    BY StoreAssumption DEF TypeInv, CallTyped, Calls
  <2> PICK new \in Nat : new = userVersion'[UserOf[call'[c].session]]
    BY <2>1 DEF TypeInv, StoreTypeOK
  <2> QED BY <1>2
<1>3. CASE call'[c].session = call[c].session
           /\ call'[c].reply.version \in {call[c].reply.version, userVersion'[UserOfCall(c)]}
  BY <1>1, <1>3, VersionKept DEF TypeInv, UserOfCall
<1> QED BY <1>2, <1>3

LEMMA ViewGivenKept ==
  ASSUME TypeInv, TypeInv', Grows, ViewGiven,
         \A u \in Users : view'[u].version = view[u].version \/ Given(u, view'[u].version)
  PROVE  ViewGiven'
<1> SUFFICES ASSUME NEW u \in Users PROVE view'[u].version <= userVersion'[u]
  BY DEF ViewGiven, Given
<1>1. view'[u].version \in Nat /\ Given(u, view'[u].version)
  BY DEF TypeInv, ViewTypeOK, ViewGiven
<1> QED BY <1>1, VersionKept DEF TypeInv

LEMMA SweepGivenKept ==
  ASSUME TypeInv, TypeInv', Grows, SweepGiven,
         \A w \in Sweepers : sweep'[w].at \in SweepTells =>
           \/ sweep[w].at \in SweepTells /\ sweep'[w].user = sweep[w].user /\ sweep'[w].version = sweep[w].version
           \/ sweep'[w].version = userVersion'[sweep'[w].user]
  PROVE  SweepGiven'
<1> SUFFICES ASSUME NEW w \in Sweepers, sweep'[w].at \in SweepTells
             PROVE  sweep'[w].version <= userVersion'[sweep'[w].user]
  BY DEF SweepGiven, Given
<1>1. /\ sweep[w].version \in Nat /\ sweep[w].user \in Users
      /\ sweep'[w].version \in Nat /\ sweep'[w].user \in Users
  BY DEF TypeInv, SweeperTypeOK
<1>2. CASE sweep[w].at \in SweepTells /\ sweep'[w].user = sweep[w].user /\ sweep'[w].version = sweep[w].version
  BY <1>1, <1>2, VersionKept DEF TypeInv, SweepGiven
<1>3. CASE sweep'[w].version = userVersion'[sweep'[w].user]
  BY <1>1, <1>3
<1> QED BY <1>2, <1>3

\* Only connect.lua adds to an index, and it adds to the one of the session's user.
LEMMA OwnedKept == ASSUME StoreTypeOK, Owned, StoreStep PROVE Owned'
<1> USE StoreAssumption DEF StoreTypeOK, Owned
<1>1. ASSUME NEW s \in Sessions, Script(s) PROVE Owned'
  <2>1. CASE ConnectScript(s)
    BY <2>1 DEF ConnectScript, ConnectSet
  <2>2. CASE DisconnectScript(s)
    BY <2>2 DEF DisconnectScript, DisconnectSet
  <2>3. CASE HeartbeatScript(s) \/ Age(s)
    BY <2>3 DEF HeartbeatScript, Age
  <2> QED BY <1>1, <2>1, <2>2, <2>3 DEF Script
<1>2. ASSUME UNCHANGED userSessions PROVE Owned'
  BY <1>2
<1> QED BY <1>1, <1>2 DEF StoreStep, Bump, storeVars

\* A request, as long as another process steps.
LEMMA RequestKept ==
  ASSUME TypeInv, TypeInv', Grows, RequestGiven, NEW a \in Apis, request'[a] = request[a], call'[a] = call[a]
  PROVE  RequestOK(a)'
<1>1. request[a].user \in Users /\ request[a].reply.version \in Nat /\ RequestOK(a)
  BY DEF TypeInv, ApiTypeOK, Replies, RequestGiven
<1>2. request[a].at \in {"result", "tell"} => request[a].reply.version <= userVersion'[request[a].user]
  BY <1>1, GivenStays DEF TypeInv, RequestOK
<1> QED BY <1>1, <1>2 DEF RequestOK, UserOfCall, Given

LEMMA RequestGivenLeft ==
  ASSUME TypeInv, TypeInv', Grows, RequestGiven, UNCHANGED request, \A a \in Apis : call'[a] = call[a]
  PROVE  RequestGiven'
BY RequestKept DEF RequestGiven

-----------------------------------------------------------------------------
\* Gateways.
LEMMA GatewayPublishes ==
  ASSUME TypeInv, ConnGiven, GatewayNext
  PROVE  \A u \in Users : view'[u].version = view[u].version \/ Given(u, view'[u].version)
<1> PICK s \in Sessions :
      \/ Dial(s) \/ ConnectStep(s) \/ Heartbeat(s)
      \/ \E state \in PresenceStates : SetState(s, state)
      \/ StateStep(s) \/ LoseConnection(s) \/ Schedule(s) \/ GatewayStops(s)
  BY DEF GatewayNext
<1>1. ASSUME NEW e, Publish(UserOf[s], e), e.version = conn[s].reply.version
      PROVE  \A u \in Users : view'[u].version = view[u].version \/ Given(u, view'[u].version)
  BY <1>1, PublishedVersion, StoreAssumption DEF TypeInv, ConnGiven
<1>2. CASE AnnounceConnect(s)
  BY <1>1, <1>2 DEF AnnounceConnect, PresenceEvent
<1>3. CASE TellState(s)
  BY <1>1, <1>3 DEF TellState, PresenceEvent
<1>4. CASE ~AnnounceConnect(s) /\ ~TellState(s)
  <2>1. UNCHANGED view
    BY <1>4 DEF Dial, ConnectStep, ConnectSession, Hide, CountDevice, InitState, InitLast, ReadAggregate, Heartbeat,
                SetState, StateStep, WriteState, ReadAllStates, CompareLast, CommitLast, CommitVersion, CountTabs,
                LoseConnection, Schedule, GatewayStops, serviceVars
  <2> QED BY <2>1
<1> QED BY <1>2, <1>3, <1>4

LEMMA GatewayGiven == ASSUME GivenInv, TypeInv', ByGateway(GatewayNext) PROVE GivenInv'
<1> USE DEF GivenInv
<1>1. StoreStep /\ UNCHANGED call
  BY GatewayOnStore, GatewayLeavesCalls DEF ByGateway
<1>2. Grows
  BY <1>1, StoreGrows DEF TypeInv
<1>3. ViewGiven'
  BY <1>2, GatewayPublishes, ViewGivenKept DEF ByGateway
<1>4. ConnGiven'
  BY <1>2, ConnVersions, ConnGivenKept DEF ByGateway, TypeInv
<1>5. CallGiven'
  BY <1>1, <1>2, CallGivenKept
<1>6. SweepGiven'
  BY <1>2, SweepGivenKept DEF ByGateway, sweeperVars
<1>7. Owned' /\ RequestGiven'
  BY <1>1, <1>2, OwnedKept, RequestGivenLeft DEF ByGateway, TypeInv
<1> QED BY <1>3, <1>4, <1>5, <1>6, <1>7

-----------------------------------------------------------------------------
\* Debouncers.
LEMMA DebouncerCalls ==
  ASSUME StoreTypeOK, CallTyped, DebouncerNext
  PROVE  /\ \A a \in Apis : call'[a] = call[a]
         /\ \A c \in Callers :
              \/ call'[c].reply.version = 0
              \/ /\ call'[c].session = call[c].session
                 /\ call'[c].reply.version \in {call[c].reply.version, userVersion'[UserOfCall(c)]}
<1> USE EngineAssumption DEF CallTyped
<1>1. CASE \/ \E j \in Jobs : JobExpires(j)
           \/ \E u \in Users : WindowPasses(u)
  BY <1>1 DEF JobExpires, WindowPasses, serviceVars
<1>2. ASSUME NEW d \in Debouncers,
             \/ EnterScope(d) \/ LeaveScope(d)
             \/ \E j \in Jobs : TakeJob(d, j) \/ DropOrphan(d, j)
             \/ ExecuteStep(d) \/ DebouncerStops(d)
      PROVE  /\ \A a \in Callers \ {d} : call'[a] = call[a]
             /\ \/ call'[d].reply.version = 0
                \/ /\ call'[d].session = call[d].session
                   /\ call'[d].reply.version \in {call[d].reply.version, userVersion'[UserOfCall(d)]}
  <2>1. NoCall.reply.version = 0
    BY DEF NoCall, NoReply
  <2>2. CASE FinishJob(d) \/ DebouncerStops(d)
    <3>1. call' = [call EXCEPT ![d] = NoCall]
      BY <2>2 DEF FinishJob, DebouncerStops
    <3> QED BY <2>1, <3>1
  <2>3. ASSUME NEW j \in Jobs, TakeJob(d, j)
        PROVE  call'[d].reply.version = 0 /\ \A a \in Callers \ {d} : call'[a] = call[a]
    <3> DEFINE k == [NoCall EXCEPT !.at = "get", !.session = j[1]]
    <3>1. k.reply.version = 0
      BY DEF NoCall, NoReply
    <3>2. call' = [call EXCEPT ![d] = k]
      BY <2>3 DEF TakeJob, StartDisconnect
    <3> HIDE DEF k
    <3> QED BY <3>1, <3>2
  <2>4. CASE DisconnectStep(d)
    BY <2>4, CallVersions
  <2>5. CASE \/ EnterScope(d) \/ LeaveScope(d) \/ RecordTransition(d) \/ AnnounceJob(d) \/ AnnouncePresence(d)
             \/ \E j \in Jobs : DropOrphan(d, j)
    BY <2>5 DEF EnterScope, LeaveScope, RecordTransition, AnnounceJob, AnnouncePresence, DropOrphan, serviceVars
  <2> QED BY <1>2, <2>2, <2>3, <2>4, <2>5 DEF ExecuteStep
<1> QED BY <1>1, <1>2 DEF DebouncerNext

LEMMA DebouncerPublishes ==
  ASSUME TypeInv, CallGiven, DebouncerNext
  PROVE  \A u \in Users : view'[u].version = view[u].version \/ Given(u, view'[u].version)
<1> USE EngineAssumption
<1>1. CASE \/ \E j \in Jobs : JobExpires(j)
           \/ \E u \in Users : WindowPasses(u)
  BY <1>1 DEF JobExpires, WindowPasses, serviceVars
<1>2. ASSUME NEW d \in Debouncers,
             \/ EnterScope(d) \/ LeaveScope(d)
             \/ \E j \in Jobs : TakeJob(d, j) \/ DropOrphan(d, j)
             \/ ExecuteStep(d) \/ DebouncerStops(d)
      PROVE  \A u \in Users : view'[u].version = view[u].version \/ Given(u, view'[u].version)
  <2>1. d \in Callers /\ UserOfCall(d) \in Users
    BY StoreAssumption DEF TypeInv, CallTyped, Calls, UserOfCall
  <2>2. ASSUME NEW e, Publish(UserOfCall(d), e), e.version = call[d].reply.version
        PROVE  \A u \in Users : view'[u].version = view[u].version \/ Given(u, view'[u].version)
    BY <2>1, <2>2, PublishedVersion DEF TypeInv, CallGiven
  <2>3. CASE AnnounceJob(d)
    BY <2>2, <2>3 DEF AnnounceJob, OfflineEvent, TabsEvent, PresenceEvent
  <2>4. CASE AnnouncePresence(d)
    BY <2>2, <2>4 DEF AnnouncePresence, PresenceEvent
  <2>5. CASE ~AnnounceJob(d) /\ ~AnnouncePresence(d)
    <3>1. UNCHANGED view
      BY <1>2, <2>5 DEF EnterScope, LeaveScope, TakeJob, DropOrphan, ExecuteStep, RecordTransition, FinishJob, DebouncerStops,
            DisconnectStep, GetMeta, RunScript, DropInvisible, DropDevices, DropUserStates, DecrementDevice,
            DeleteState, ReadStates, ReadLast, SetLast, serviceVars
    <3> QED BY <3>1
  <2> QED BY <2>3, <2>4, <2>5
<1> QED BY <1>1, <1>2 DEF DebouncerNext

LEMMA DebouncerGiven == ASSUME GivenInv, TypeInv', ByDebouncer(DebouncerNext) PROVE GivenInv'
<1> USE DEF GivenInv
<1>1. StoreStep
  BY DebouncerOnStore DEF ByDebouncer, TypeInv
<1>2. Grows
  BY <1>1, StoreGrows DEF TypeInv
<1>3. ViewGiven'
  BY <1>2, DebouncerPublishes, ViewGivenKept DEF ByDebouncer
<1>4. ConnGiven'
  BY <1>2, ConnGivenKept DEF ByDebouncer, gatewayVars
<1>5. CallGiven'
  BY <1>2, DebouncerCalls, CallGivenKept DEF ByDebouncer, TypeInv
<1>6. SweepGiven'
  BY <1>2, SweepGivenKept DEF ByDebouncer, sweeperVars
<1>7. Owned' /\ RequestGiven'
  BY <1>1, <1>2, OwnedKept, DebouncerCalls, RequestGivenLeft DEF ByDebouncer, TypeInv
<1> QED BY <1>3, <1>4, <1>5, <1>6, <1>7

-----------------------------------------------------------------------------
\* Sweepers.
LEMMA SweepVersions ==
  ASSUME StoreTypeOK, SweeperTypeOK, SweeperNext
  PROVE  \A w \in Sweepers : sweep'[w].at \in SweepTells =>
           \/ sweep[w].at \in SweepTells /\ sweep'[w].user = sweep[w].user /\ sweep'[w].version = sweep[w].version
           \/ sweep'[w].version = userVersion'[sweep'[w].user]
<1> USE DEF SweepTells
<1> PICK w \in Sweepers : \/ StartSweep(w) \/ PauseSweep(w)
                          \/ SweepScopeStep(w) \/ SweepUserStep(w)
                          \/ SweeperStops(w)
  BY DEF SweeperNext
<1> DEFINE Tells(x) == sweep'[x].at \in SweepTells =>
             \/ /\ sweep[x].at \in SweepTells
                /\ sweep'[x].user = sweep[x].user /\ sweep'[x].version = sweep[x].version
             \/ sweep'[x].version = userVersion'[sweep'[x].user]
<1> SUFFICES \A x \in Sweepers : Tells(x)
  OBVIOUS
<1>1. sweep \in [Sweepers -> Sweeps]
  BY DEF SweeperTypeOK, Sweeps
<1> USE DEF Sweeps
<1>2. ASSUME NEW k, k.at \notin SweepTells, sweep' = [sweep EXCEPT ![w] = k] PROVE \A x \in Sweepers : Tells(x)
  BY <1>1, <1>2
<1>3. IdleSweep.at = "idle" /\ NextUser(w).at = "user"
  BY DEF IdleSweep, NextUser
<1>4. ASSUME NEW to \in {"offline_tell", "tabs_agg"}, NEW from, SweepIncr(w, from, to) PROVE \A x \in Sweepers : Tells(x)
  <2>1. PICK v : v = userVersion[sweep[w].user] + 1 /\ v = userVersion'[sweep[w].user]
    BY <1>1, <1>4, BumpGrows DEF SweepIncr
  <2>2. sweep' = [sweep EXCEPT ![w].at = to, ![w].version = v]
    BY <1>4, <2>1 DEF SweepIncr
  <2>3. sweep'[w].version = v /\ sweep'[w].user = sweep[w].user /\ \A x \in Sweepers \ {w} : sweep'[x] = sweep[x]
    BY <1>1, <2>2
  <2> QED BY <2>1, <2>3
<1>5. CASE StartSweep(w) \/ PauseSweep(w) \/ SweeperStops(w)
  BY <1>1, <1>2, <1>3, <1>5 DEF StartSweep, PauseSweep, SweeperStops
<1>6. CASE SweepScopeStep(w)
  <2>1. CASE Scan(w)
    <3> DEFINE todo == onlineUsers \ sweep[w].passed
    <3>1. PICK batch \in SUBSET todo, missed \in SUBSET (Users \ onlineUsers) :
            sweep' = [sweep EXCEPT ![w].at = "user", ![w].batch = batch,
                                   ![w].passed = @ \cup batch \cup missed, ![w].last = (batch = todo)]
      BY <2>1 DEF Scan
    <3> DEFINE last == (batch = todo)
               passed == sweep[w].passed \cup batch \cup missed
               k == [sweep[w] EXCEPT !.at = "user", !.batch = batch, !.passed = passed, !.last = last]
    <3>2. sweep' = [sweep EXCEPT ![w] = k]
      BY <1>1, <3>1
    <3> HIDE DEF last, passed
    <3>3. k.at = "user"
      BY <1>1
    <3> HIDE DEF k
    <3> QED BY <1>2, <3>2, <3>3
  <2>2. ASSUME NEW u \in Users, SweepUser(w, u) PROVE \A x \in Sweepers : Tells(x)
    <3> DEFINE k == [sweep[w] EXCEPT !.at = "exists", !.batch = @ \ {u}, !.user = u,
                                     !.left = userSessions[u], !.pruned = FALSE]
    <3>1. sweep' = [sweep EXCEPT ![w] = k]
      BY <1>1, <2>2 DEF SweepUser
    <3>2. k.at = "exists"
      BY <1>1
    <3> HIDE DEF k
    <3> QED BY <1>2, <3>1, <3>2
  <2>3. CASE EndBatch(w)
    <3> DEFINE k == [IdleSweep EXCEPT !.at = "empty"]
    <3>1. k.at = "empty"
      BY DEF IdleSweep
    <3>2. sweep' = [sweep EXCEPT ![w] = k] \/ sweep' = [sweep EXCEPT ![w].at = "scan"]
      BY <2>3 DEF EndBatch
    <3> HIDE DEF k
    <3> QED BY <1>1, <1>2, <3>1, <3>2
  <2>4. CASE CheckEmpty(w) \/ Delist(w)
    <3>1. PICK step \in {"idle", "delist"} : sweep' = [sweep EXCEPT ![w].at = step]
      BY <2>4 DEF CheckEmpty, Delist, SweepGoto
    <3> QED BY <1>1, <3>1
  <2> QED BY <1>6, <2>1, <2>2, <2>3, <2>4 DEF SweepScopeStep
<1>7. ASSUME NEW s \in Sessions, CheckSession(w, s) PROVE \A x \in Sweepers : Tells(x)
  <2> DEFINE step == IF Alive(s) THEN "exists" ELSE "prune"
             dead == IF Alive(s) THEN sweep[w].dead ELSE s
             k == [sweep[w] EXCEPT !.left = @ \ {s}, !.at = step, !.dead = dead]
  <2>1. sweep' = [sweep EXCEPT ![w] = k]
    BY <1>1, <1>7 DEF CheckSession
  <2>2. step \notin SweepTells
    OBVIOUS
  <2> HIDE DEF step, dead
  <2>3. k.at = step
    BY <1>1
  <2> HIDE DEF k
  <2> QED BY <1>2, <2>1, <2>2, <2>3
<1>8. CASE Prune(w) \/ PruneState(w) \/ TakeOffline(w) \/ TellOffline(w)
  BY <1>1, <1>8 DEF Prune, PruneState, TakeOffline, TellOffline, SweepGoto
<1>9. CASE CountRemaining(w)
  BY <1>1, <1>2, <1>3, <1>9 DEF CountRemaining
<1>10. CASE DeleteStates(w) \/ TellTabs(w)
  BY <1>2, <1>3, <1>10 DEF DeleteStates, TellTabs
<1>11. CASE SweepAggregate(w) \/ SweepLast(w)
  BY <1>1, <1>11 DEF SweepAggregate, SweepLast, SweepGoto, At
<1> QED BY <1>4, <1>5, <1>6, <1>7, <1>8, <1>9, <1>10, <1>11 DEF SweepUserStep

LEMMA SweeperLeaves ==
  ASSUME SweeperTypeOK, StoreTypeOK, Owned, SweeperNext PROVE UNCHANGED call /\ Owned'
<1> USE DEF SweeperTypeOK, StoreTypeOK, Owned
<1> PICK w \in Sweepers : \/ StartSweep(w) \/ PauseSweep(w)
                          \/ SweepScopeStep(w) \/ SweepUserStep(w)
                          \/ SweeperStops(w)
  BY DEF SweeperNext
<1>1. UNCHANGED call
  BY DEF StartSweep, PauseSweep, SweeperStops, SweepScopeStep, Scan, EndBatch, CheckEmpty, Delist, SweepUser,
         SweepUserStep, CheckSession, Prune, PruneState, CountRemaining, TakeOffline, SweepIncr, TellOffline,
         DeleteStates, SweepAggregate, SweepLast, TellTabs, serviceVars
<1>2. CASE Prune(w)
  BY <1>1, <1>2 DEF Prune
<1>3. CASE ~Prune(w)
  <2>1. UNCHANGED userSessions
    BY <1>3 DEF StartSweep, PauseSweep, SweeperStops, SweepScopeStep, Scan, EndBatch, CheckEmpty, Delist, SweepUser,
         SweepUserStep, CheckSession, PruneState, CountRemaining, TakeOffline, SweepIncr, TellOffline,
         DeleteStates, SweepAggregate, SweepLast, TellTabs, serviceVars, storeVars
  <2> QED BY <1>1, <2>1
<1> QED BY <1>2, <1>3

LEMMA SweeperPublishes ==
  ASSUME TypeInv, SweepGiven, SweeperNext
  PROVE  \A u \in Users : view'[u].version = view[u].version \/ Given(u, view'[u].version)
<1> PICK w \in Sweepers : \/ StartSweep(w) \/ PauseSweep(w)
                          \/ SweepScopeStep(w) \/ SweepUserStep(w)
                          \/ SweeperStops(w)
  BY DEF SweeperNext
<1>1. sweep[w].user \in Users
  BY DEF TypeInv, SweeperTypeOK
<1>2. ASSUME NEW e, Publish(sweep[w].user, e), e.version = sweep[w].version, sweep[w].at \in SweepTells
      PROVE  \A u \in Users : view'[u].version = view[u].version \/ Given(u, view'[u].version)
  BY <1>1, <1>2, PublishedVersion DEF TypeInv, SweepGiven
<1>3. CASE TellOffline(w)
  BY <1>2, <1>3 DEF TellOffline, PresenceEvent, SweepGoto, At, SweepTells
<1>4. CASE TellTabs(w)
  BY <1>2, <1>4 DEF TellTabs, PresenceEvent, At, SweepTells
<1>5. CASE ~TellOffline(w) /\ ~TellTabs(w)
  <2>1. UNCHANGED view
    BY <1>5 DEF StartSweep, PauseSweep, SweeperStops, SweepScopeStep, Scan, EndBatch, CheckEmpty, Delist, SweepUser,
         SweepUserStep, CheckSession, Prune, PruneState, CountRemaining, TakeOffline, SweepIncr,
         DeleteStates, SweepAggregate, SweepLast, serviceVars
  <2> QED BY <2>1
<1> QED BY <1>3, <1>4, <1>5

LEMMA SweeperGiven == ASSUME GivenInv, TypeInv', BySweeper(SweeperNext) PROVE GivenInv'
<1> USE DEF GivenInv
<1>1. UNCHANGED call /\ Owned'
  BY SweeperLeaves DEF BySweeper, TypeInv
<1>2. Grows
  BY SweeperGrows DEF BySweeper, TypeInv
<1>3. ViewGiven'
  BY <1>2, SweeperPublishes, ViewGivenKept DEF BySweeper
<1>4. ConnGiven'
  BY <1>2, ConnGivenKept DEF BySweeper, gatewayVars
<1>5. CallGiven'
  BY <1>1, <1>2, CallGivenKept
<1>6. SweepGiven'
  BY <1>2, SweepVersions, SweepGivenKept DEF BySweeper, TypeInv
<1>7. RequestGiven'
  BY <1>1, <1>2, RequestGivenLeft DEF BySweeper
<1> QED BY <1>1, <1>3, <1>4, <1>5, <1>6, <1>7

-----------------------------------------------------------------------------
\* Requests.
LEMMA ApiCalls ==
  ASSUME StoreTypeOK, CallTyped, NEW a \in Apis,
         (\E u \in Users : RequestDisconnect(a, u)) \/ RequestStep(a) \/ ApiStops(a)
  PROVE  /\ \A c \in Callers \ {a} : call'[c] = call[c]
         /\ \/ call'[a].reply.version = 0
            \/ /\ call'[a].session = call[a].session
               /\ call'[a].reply.version \in {call[a].reply.version, userVersion'[UserOfCall(a)]}
<1> USE EngineAssumption DEF CallTyped
<1>1. NoCall.reply.version = 0
  BY DEF NoCall, NoReply
<1>2. CASE TakeResult(a) \/ ApiStops(a)
  <2>1. call' = [call EXCEPT ![a] = NoCall]
    BY <1>2 DEF TakeResult, ApiStops
  <2> QED BY <1>1, <2>1
<1>3. ASSUME NEW s \in Sessions, DisconnectNext(a, s)
      PROVE  call'[a].reply.version = 0 /\ \A c \in Callers \ {a} : call'[c] = call[c]
  <2> DEFINE k == [NoCall EXCEPT !.at = "get", !.session = s]
  <2>1. k.reply.version = 0
    BY DEF NoCall, NoReply
  <2>2. call' = [call EXCEPT ![a] = k]
    BY <1>3 DEF DisconnectNext, StartDisconnect
  <2> HIDE DEF k
  <2> QED BY <2>1, <2>2
<1>4. CASE DisconnectStep(a)
  BY <1>4, CallVersions
<1>5. CASE \/ \E u \in Users : RequestDisconnect(a, u)
           \/ RemoveListed(a) \/ IncrListed(a) \/ AnnounceOffline(a) \/ ReadRemaining(a) \/ AnnounceRemaining(a)
  BY <1>5 DEF RequestDisconnect, RemoveListed, IncrListed, AnnounceOffline, ReadRemaining, AnnounceRemaining, serviceVars
<1> QED BY <1>2, <1>3, <1>4, <1>5 DEF RequestStep

LEMMA ApiPublishes ==
  ASSUME TypeInv, RequestGiven, ApiNext
  PROVE  \A u \in Users : view'[u].version = view[u].version \/ Given(u, view'[u].version)
<1> PICK a \in Apis : \/ \E u \in Users : RequestDisconnect(a, u)
                      \/ RequestStep(a) \/ ApiStops(a)
  BY DEF ApiNext
<1>1. request[a].user \in Users
  BY DEF TypeInv, ApiTypeOK
<1>2. ASSUME NEW e, Publish(request[a].user, e), e.version = request[a].reply.version,
             request[a].at \in {"result", "tell"}
      PROVE  \A u \in Users : view'[u].version = view[u].version \/ Given(u, view'[u].version)
  BY <1>1, <1>2, PublishedVersion DEF TypeInv, RequestGiven, RequestOK
<1>3. CASE AnnounceOffline(a)
  BY <1>2, <1>3 DEF AnnounceOffline, PresenceEvent
<1>4. CASE AnnounceRemaining(a)
  BY <1>2, <1>4 DEF AnnounceRemaining, PresenceEvent
<1>5. CASE ~AnnounceOffline(a) /\ ~AnnounceRemaining(a)
  <2>1. UNCHANGED view
    BY <1>5 DEF RequestDisconnect, RequestStep, RemoveListed, IncrListed, DisconnectNext, TakeResult, ReadRemaining,
         ApiStops, DisconnectStep, GetMeta, RunScript, DropInvisible, DropDevices, DropUserStates, DecrementDevice,
         DeleteState, ReadStates, ReadLast, SetLast, serviceVars
  <2> QED BY <2>1
<1> QED BY <1>3, <1>4, <1>5

LEMMA ApiRequests ==
  ASSUME GivenInv, TypeInv', Grows, ApiNext PROVE RequestGiven'
<1> USE DEF GivenInv
<1> PICK a \in Apis : \/ \E u \in Users : RequestDisconnect(a, u)
                      \/ RequestStep(a) \/ ApiStops(a)
  BY DEF ApiNext
<1>1. request \in [Apis -> Requests] /\ request[a] \in Requests /\ RequestOK(a)
  BY DEF TypeInv, ApiTypeOK, Requests, RequestGiven
<1>2. /\ request[a].user \in Users /\ request[a].left \subseteq Sessions /\ request[a].reply.version \in Nat
  BY <1>1 DEF Requests, Replies
<1>3. a \in Callers /\ Callers = Debouncers \cup Apis
  BY EngineAssumption
<1>4. \A b \in Apis \ {a} : request'[b] = request[b] /\ call'[b] = call[b]
  <2>1. \A b \in Apis \ {a} : call'[b] = call[b]
    BY <1>3, ApiCalls DEF TypeInv
  <2>2. \A b \in Apis \ {a} : request'[b] = request[b]
    BY <1>1 DEF RequestDisconnect, RequestStep, RemoveListed, IncrListed, DisconnectNext, TakeResult,
                AnnounceOffline, ReadRemaining, AnnounceRemaining, ApiStops
  <2> QED BY <2>1, <2>2
<1>5. RequestOK(a)'
  <2>1. ASSUME NEW k, request' = [request EXCEPT ![a] = k],
               k.at \notin {"result", "tell", "disconnect"}, \A s \in k.left : UserOf[s] = k.user
        PROVE  RequestOK(a)'
    BY <1>1, <2>1 DEF RequestOK
  <2>2. NoRequest.at = "idle" /\ NoRequest.left = {}
    BY DEF NoRequest
  <2>3. ASSUME request' = [request EXCEPT ![a] = NoRequest] PROVE RequestOK(a)'
    BY <2>1, <2>2, <2>3
  <2>4. ASSUME NEW u \in Users, RequestDisconnect(a, u) PROVE RequestOK(a)'
    <3> DEFINE step == IF userSessions[u] = {} THEN "empty" ELSE "next"
               k == [request[a] EXCEPT !.at = step, !.user = u, !.left = userSessions[u]]
    <3>1. request' = [request EXCEPT ![a] = k]
      BY <2>4 DEF RequestDisconnect
    <3>2. step \in {"empty", "next"} /\ \A s \in userSessions[u] : UserOf[s] = u
      BY DEF Owned
    <3> HIDE DEF step
    <3>3. k.at = step /\ k.user = u /\ k.left = userSessions[u]
      BY <1>1 DEF Requests
    <3> HIDE DEF k
    <3> QED BY <2>1, <3>1, <3>2, <3>3
  <2>5. CASE RemoveListed(a)
    <3> DEFINE k == [request[a] EXCEPT !.at = "empty_incr"]
    <3>1. request' = [request EXCEPT ![a] = k] \/ request' = [request EXCEPT ![a] = NoRequest]
      BY <1>1, <2>5 DEF RemoveListed
    <3>2. k.at = "empty_incr" /\ k.user = request[a].user /\ k.left = request[a].left
      BY <1>1 DEF Requests
    <3> HIDE DEF k
    <3> QED BY <1>1, <2>1, <2>3, <3>1, <3>2 DEF RequestOK
  <2>6. CASE IncrListed(a)
    <3>1. PICK v : v = userVersion[request[a].user] + 1 /\ v = userVersion'[request[a].user]
      BY <1>2, <2>6, BumpGrows DEF IncrListed, TypeInv
    <3> DEFINE reply == [transition |-> "offline", version |-> v, count |-> 0]
    <3>2. request' = [request EXCEPT ![a].at = "result", ![a].reply = reply]
      BY <2>6, <3>1 DEF IncrListed
    <3>3. reply.version = v
      OBVIOUS
    <3> HIDE DEF reply
    <3>4. /\ request'[a].at = "result" /\ request'[a].user = request[a].user
          /\ request'[a].left = request[a].left /\ request'[a].reply.version = v
      BY <1>1, <3>2, <3>3 DEF Requests
    <3>5. request'[a].reply.version <= userVersion'[request'[a].user]
      BY <1>2, <3>1, <3>4 DEF TypeInv, StoreTypeOK
    <3> QED BY <1>1, <3>4, <3>5 DEF RequestOK, Given
  <2>7. ASSUME NEW s \in Sessions, DisconnectNext(a, s) PROVE RequestOK(a)'
    <3>1. /\ request'[a].at = "disconnect" /\ request'[a].user = request[a].user
          /\ request'[a].left = request[a].left \ {s}
      BY <1>1, <2>7 DEF DisconnectNext, Requests
    <3>2. call'[a].session = s
      BY <1>3, <2>7 DEF DisconnectNext, StartDisconnect, TypeInv, CallTyped, Calls, NoCall
    <3>3. UserOf[s] = request[a].user
      BY <1>1, <2>7 DEF DisconnectNext, RequestOK
    <3> QED BY <1>1, <3>1, <3>2, <3>3 DEF RequestOK, UserOfCall
  <2>8. CASE TakeResult(a)
    <3>1. /\ UserOfCall(a) = request[a].user /\ call[a].reply.version \in Nat
          /\ Given(request[a].user, call[a].reply.version)
      BY <1>1, <1>3, <2>8 DEF TakeResult, RequestOK, CallGiven, TypeInv, CallTyped, Calls, Replies
    <3>2. call[a].reply.version <= userVersion'[request[a].user]
      BY <1>2, <3>1, GivenStays DEF TypeInv
    <3> DEFINE step == IF request[a].left = {} THEN "result" ELSE "next"
    <3>3. request' = [request EXCEPT ![a].at = step, ![a].reply = call[a].reply]
      BY <2>8 DEF TakeResult
    <3>4. step \in {"result", "next"}
      OBVIOUS
    <3> HIDE DEF step
    <3>5. /\ request'[a].at = step /\ request'[a].user = request[a].user
          /\ request'[a].left = request[a].left /\ request'[a].reply = call[a].reply
      BY <1>1, <3>3 DEF Requests
    <3> QED BY <1>1, <3>2, <3>4, <3>5 DEF RequestOK, Given
  <2>9. CASE ReadRemaining(a)
    <3>1. CASE request' = [request EXCEPT ![a] = NoRequest]
      BY <2>3, <3>1
    <3>2. CASE request' # [request EXCEPT ![a] = NoRequest]
      <4> DEFINE agg == Aggregate(request[a].user)
      <4>1. request' = [request EXCEPT ![a] = [request[a] EXCEPT !.at = "tell", !.agg = agg]]
        BY <2>9, <3>2 DEF ReadRemaining
      <4>2. request[a].at = "result"
        BY <2>9 DEF ReadRemaining
      <4> HIDE DEF agg
      <4>3. /\ request'[a].at = "tell" /\ request'[a].user = request[a].user
            /\ request'[a].left = request[a].left /\ request'[a].reply = request[a].reply
        BY <1>1, <4>1 DEF Requests
      <4>4. request[a].reply.version <= userVersion'[request[a].user]
        BY <1>1, <1>2, <4>2, GivenStays DEF TypeInv, RequestOK
      <4> QED BY <1>1, <4>3, <4>4 DEF RequestOK, Given
    <3> QED BY <3>1, <3>2
  <2>10. CASE DisconnectStep(a) /\ UNCHANGED request
    <3>1. UserOfCall(a)' = UserOfCall(a)
      BY <1>3, <2>10, CallVersions DEF TypeInv, UserOfCall
    <3>2. request[a].at \in {"result", "tell"} => request[a].reply.version <= userVersion'[request[a].user]
      BY <1>1, <1>2, GivenStays DEF TypeInv, RequestOK
    <3> QED BY <1>1, <2>10, <3>1, <3>2 DEF RequestOK, Given
  <2>11. CASE AnnounceOffline(a) \/ AnnounceRemaining(a) \/ ApiStops(a)
    BY <2>3, <2>11 DEF AnnounceOffline, AnnounceRemaining, ApiStops
  <2> QED BY <2>4, <2>5, <2>6, <2>7, <2>8, <2>9, <2>10, <2>11 DEF RequestStep
<1> QED BY <1>4, <1>5, RequestKept DEF RequestGiven

\* disconnect.lua, run for a request, adds to no index, and nothing else of a
\* request writes one.
LEMMA ApiOwned == ASSUME StoreTypeOK, CallTyped, Owned, ApiNext PROVE Owned'
<1>1. ASSUME NEW s \in Sessions, DisconnectScript(s) PROVE Owned'
  BY <1>1, StoreAssumption DEF DisconnectScript, DisconnectSet, StoreTypeOK, Owned
<1>2. CASE UNCHANGED userSessions
  BY <1>2 DEF Owned
<1> QED BY <1>1, <1>2, ApiOnIndex

LEMMA ApiGiven == ASSUME GivenInv, TypeInv', ByApi(ApiNext) PROVE GivenInv'
<1> USE DEF GivenInv
<1>1. Grows
  BY ApiGrows DEF ByApi, TypeInv
<1>2. ViewGiven'
  BY <1>1, ApiPublishes, ViewGivenKept DEF ByApi
<1>3. ConnGiven'
  BY <1>1, ConnGivenKept DEF ByApi, gatewayVars
<1>4. CallGiven'
  <2>1. \A c \in Callers : \/ call'[c].reply.version = 0
                           \/ /\ call'[c].session = call[c].session
                              /\ call'[c].reply.version \in {call[c].reply.version, userVersion'[UserOfCall(c)]}
    BY ApiCalls DEF ByApi, ApiNext, TypeInv
  <2> QED BY <1>1, <2>1, CallGivenKept
<1>5. SweepGiven'
  BY <1>1, SweepGivenKept DEF ByApi, sweeperVars
<1>6. Owned' /\ RequestGiven'
  BY <1>1, ApiOwned, ApiRequests DEF ByApi, TypeInv
<1> QED BY <1>2, <1>3, <1>4, <1>5, <1>6

-----------------------------------------------------------------------------
LEMMA GivenInitial == Init => GivenInv
<1> SUFFICES ASSUME Init PROVE GivenInv
  OBVIOUS
<1>1. TypeInv
  BY TypeInitial
<1>2. \A u \in Users : userVersion[u] = 0 /\ userSessions[u] = {}
  BY DEF Init, ServiceInit, StoreInit
<1>3. ViewGiven
  BY <1>2 DEF Init, ServiceInit, ViewInit, Unheard, PresenceEvent, ViewGiven, Given
<1>4. ConnGiven
  BY <1>2, StoreAssumption DEF Init, GatewayInit, NoConn, NoReply, ConnGiven, Given
<1>5. CallGiven
  <2>1. \A c \in Callers : call[c].reply.version = 0 /\ call[c].session \in Sessions
    BY <1>1 DEF Init, ServiceInit, NoCall, NoReply, TypeInv, CallTyped, Calls
  <2> QED BY <1>2, <2>1, StoreAssumption DEF CallGiven, Given, UserOfCall
<1>6. SweepGiven
  BY DEF Init, SweeperInit, IdleSweep, SweepGiven, SweepTells
<1>7. RequestGiven
  BY DEF Init, ApiInit, NoRequest, RequestGiven, RequestOK
<1> QED BY <1>1, <1>2, <1>3, <1>4, <1>5, <1>6, <1>7 DEF GivenInv, Owned

LEMMA GivenInductive == ASSUME GivenInv, [Next]_vars PROVE GivenInv'
<1>1. TypeInv'
  BY TypeInductive DEF GivenInv
<1>2. CASE UNCHANGED <<gatewayVars, sweeperVars, request, call, view>> /\ StoreStep
  <2> USE DEF GivenInv
  <2>1. Grows
    BY <1>2, StoreGrows DEF TypeInv
  <2>2. ViewGiven' /\ ConnGiven' /\ CallGiven'
    BY <1>1, <1>2, <2>1, ViewGivenKept, ConnGivenKept, CallGivenKept DEF gatewayVars
  <2>3. SweepGiven' /\ RequestGiven' /\ Owned'
    BY <1>1, <1>2, <2>1, SweepGivenKept, RequestGivenLeft, OwnedKept DEF sweeperVars, TypeInv
  <2> QED BY <1>1, <2>2, <2>3
<1>3. CASE ExpiryNext
  BY <1>2, <1>3 DEF ExpiryNext, Expire, StoreStep, Script
<1>4. CASE UNCHANGED vars
  BY <1>2, <1>4 DEF vars, serviceVars, StoreStep
<1> QED BY <1>1, <1>3, <1>4, GatewayGiven, DebouncerGiven, SweeperGiven, ApiGiven DEF Next

\* Every version a connection, a Disconnect, a sweeper or a request carries has been
\* given out to the user it will be told about, whatever stops, expires or is lost in
\* between; and every index and every request holds sessions of its own user only.
THEOREM GivenInvariant == Spec => []GivenInv
<1> QED BY GivenInitial, GivenInductive, PTL DEF Spec

\* ViewNeverAhead, for the whole engine: no subscriber ever applies a version that INCR
\* has not reached, so no later event of that user can be taken for an old one.
THEOREM ViewNeverAheadAlways == Spec => []ViewNeverAhead
<1>1. GivenInv => ViewNeverAhead
  BY DEF GivenInv, ViewGiven, Given, ViewNeverAhead
<1> QED BY <1>1, GivenInvariant, PTL

\* Scripts, the INCR of a state change, of a sweep and of a request included, no step
\* of any process takes a version back: what a subscriber has applied stays old.
THEOREM VersionsOnlyGrow == Spec => [][Grows]_vars
<1>1. TypeInv /\ [Next]_vars => [Grows]_vars
  BY EngineGrows
<1>2. TypeInv /\ [Next]_vars => TypeInv'
  BY TypeInductive
<1> QED BY <1>1, <1>2, TypeInitial, PTL DEF Spec

-----------------------------------------------------------------------------
(***************************************************************************)
(* Nothing is left untold.  While events arrive, gateways and workers do   *)
(* not stop, sessions are visible and no cleaner is at work (Reliable),    *)
(* the newest version of a user has been applied, or somebody is about to  *)
(* tell exactly that version.  Only the offline event of a user that is    *)
(* flapping may be dropped, and then the user has no session left.         *)
(***************************************************************************)
Reliable == /\ NoCleaners
            /\ Invisible = {} /\ Faults \subseteq {"job_expires"}

TellingConn(s) == conn[s].at \in {"hide", "device", "initstate", "initlast", "aggregate", "announce", "card", "tell"}

TellingJob(d) == LET r == call[d].reply IN
  /\ worker[d].at \in {"execute", "announce"}
  /\ IF r.transition = "offline" THEN worker[d].at = "announce" /\ ~worker[d].flapping ELSE r.count > 0

\* Version v of u has been applied, or a connection or a job will tell it.
Sure(u, v) ==
  \/ view[u].version >= v
  \/ \E s \in Sessions : UserOf[s] = u /\ TellingConn(s) /\ conn[s].reply.version = v
  \/ \E d \in Debouncers : UserOfCall(d) = u /\ TellingJob(d) /\ call[d].reply.version = v

\* A job has taken u offline and does not know yet whether u is flapping.
Undecided(u, v) == \E d \in Debouncers :
  /\ UserOfCall(d) = u /\ worker[d].at = "execute"
  /\ call[d].reply.transition = "offline" /\ call[d].reply.version = v

\* A worker is in Disconnect only while it executes a job, and has a reply only
\* once the script has run.
CallWorker == \A d \in Debouncers :
  /\ call[d].at \notin {"none", "returned"} => worker[d].at = "execute"
  /\ call[d].at \in {"get", "script"} => call[d].reply = NoReply

SureOf(u) == LET v == userVersion[u] IN
  \/ Sure(u, v)
  \/ userSessions[u] = {} /\ Sure(u, v - 1) /\ (FlappingThreshold > 0 \/ Undecided(u, v))

SureInv == TypeInv /\ CallWorker /\ \A u \in Users : SureOf(u)

-----------------------------------------------------------------------------
LEMMA PublishedArrives ==
  ASSUME ViewTypeOK, "lost_event" \notin Faults, NEW u \in Users, NEW e, e.version \in Nat, Publish(u, e)
  PROVE  /\ view'[u].version >= e.version
         /\ \A w \in Users : view'[w].version >= view[w].version
<1>1. view' = [view EXCEPT ![u] = IF e.version > view[u].version THEN e ELSE view[u]]
  BY DEF Publish, ViewTypeOK
<1>2. \A w \in Users : view[w].version \in Nat
  BY DEF ViewTypeOK
<1>3. view'[u] = IF e.version > view[u].version THEN e ELSE view[u]
  BY <1>1 DEF ViewTypeOK
<1>4. \A w \in Users \ {u} : view'[w] = view[w]
  BY <1>1 DEF ViewTypeOK
<1>5. view'[u].version >= e.version /\ view'[u].version >= view[u].version
  BY <1>2, <1>3
<1> QED BY <1>2, <1>4, <1>5

LEMMA ViewStays ==
  ASSUME ViewTypeOK, UNCHANGED view PROVE \A w \in Users : view'[w].version >= view[w].version
BY DEF ViewTypeOK

\* A connection that has a version to tell goes on until it has told it.
LEMMA ConnTellsOn ==
  ASSUME Reliable, ConnTyped, ViewTypeOK, GatewayNext
  PROVE  /\ \A t \in Sessions : TellingConn(t) =>
              \/ TellingConn(t)' /\ conn'[t].reply.version = conn[t].reply.version
              \/ view'[UserOf[t]].version >= conn[t].reply.version
         /\ \A w \in Users : view'[w].version >= view[w].version
<1> USE StoreAssumption DEF TellingConn
<1> PICK s \in Sessions :
      \/ Dial(s) \/ ConnectStep(s) \/ Heartbeat(s)
      \/ \E state \in PresenceStates : SetState(s, state)
      \/ StateStep(s) \/ LoseConnection(s) \/ Schedule(s) \/ GatewayStops(s)
  BY DEF GatewayNext
<1>1. conn \in [Sessions -> Conns]
  BY DEF ConnTyped
<1> USE DEF Conns
<1> DEFINE Goes(t) == TellingConn(t) =>
              \/ TellingConn(t)' /\ conn'[t].reply.version = conn[t].reply.version
              \/ view'[UserOf[t]].version >= conn[t].reply.version
           Grown == \A w \in Users : view'[w].version >= view[w].version
<1>2. ASSUME NEW step, UNCHANGED view, conn' = [conn EXCEPT ![s].at = step],
             step \in {"device", "initstate", "initlast", "aggregate"} \/ ~TellingConn(s)
      PROVE  Grown /\ \A t \in Sessions : Goes(t)
  BY <1>1, <1>2, ViewStays
<1>3. ASSUME NEW step, NEW state, UNCHANGED view, conn' = [conn EXCEPT ![s].at = step, ![s].state = state],
             step = "announce" \/ ~TellingConn(s)
      PROVE  Grown /\ \A t \in Sessions : Goes(t)
  BY <1>1, <1>3, ViewStays
<1>4. ASSUME NEW e, Publish(UserOf[s], e), e.version = conn[s].reply.version, conn' = [conn EXCEPT ![s] = Up]
      PROVE  Grown /\ \A t \in Sessions : Goes(t)
  <2>1. e.version \in Nat /\ "lost_event" \notin Faults
    BY <1>1, <1>4 DEF Replies, Reliable
  <2>2. Grown /\ view'[UserOf[s]].version >= conn[s].reply.version
    BY <1>4, <2>1, PublishedArrives
  <2> QED BY <1>1, <1>4, <2>2
<1>5. ASSUME UNCHANGED view, ~TellingConn(s), \A t \in Sessions \ {s} : conn'[t] = conn[t]
      PROVE  Grown /\ \A t \in Sessions : Goes(t)
  BY <1>1, <1>5, ViewStays
<1>6. CASE Hide(s) \/ CountDevice(s) \/ InitState(s) \/ InitLast(s)
  BY <1>2, <1>6 DEF Hide, CountDevice, InitState, InitLast, ConnGoto
<1>7. CASE ReadAggregate(s) \/ ReadAllStates(s)
  BY <1>3, <1>7 DEF ReadAggregate, ReadAllStates, serviceVars
<1>8. CASE AnnounceConnect(s)
  <2>1. s \notin Invisible
    BY DEF Reliable
  <2> QED BY <1>4, <1>8, <2>1 DEF AnnounceConnect, PresenceEvent
<1>9. CASE TellState(s)
  BY <1>4, <1>9 DEF TellState, PresenceEvent
<1>10. CASE CountTabs(s)
  <2>1. PICK n : conn' = [conn EXCEPT ![s].at = "tell", ![s].reply.count = n]
    BY <1>10 DEF CountTabs
  <2>2. UNCHANGED view
    BY <1>10 DEF CountTabs, serviceVars
  <2>3. TellingConn(s)' /\ conn'[s].reply.version = conn[s].reply.version /\ \A t \in Sessions \ {s} : conn'[t] = conn[t]
    BY <1>1, <2>1 DEF Replies
  <2> QED BY <1>1, <2>2, <2>3, ViewStays
<1>11. CASE WriteState(s) \/ CommitLast(s) \/ LoseConnection(s) \/ Dial(s)
  BY <1>2, <1>11 DEF WriteState, CommitLast, LoseConnection, Dial, ConnGoto, serviceVars
<1>12. CASE ConnectSession(s) \/ CommitVersion(s)
  <2>1. \A t \in Sessions \ {s} : conn'[t] = conn[t]
    BY <1>1, <1>12 DEF ConnectSession, CommitVersion
  <2> QED BY <1>5, <1>12, <2>1 DEF ConnectSession, CommitVersion
<1>13. CASE CompareLast(s) \/ Heartbeat(s) \/ Schedule(s)
  <2>1. \A t \in Sessions \ {s} : conn'[t] = conn[t]
    BY <1>1, <1>13 DEF CompareLast, Heartbeat, Schedule
  <2> QED BY <1>5, <1>13, <2>1 DEF CompareLast, Heartbeat, Schedule, serviceVars
<1>14. CASE \E state \in PresenceStates : SetState(s, state)
  BY <1>3, <1>14 DEF SetState, serviceVars
<1>15. ~GatewayStops(s)
  BY DEF GatewayStops, Reliable
<1> QED BY <1>6, <1>7, <1>8, <1>9, <1>10, <1>11, <1>12, <1>13, <1>14, <1>15 DEF ConnectStep, StateStep

-----------------------------------------------------------------------------
\* Workers.  A step of one leaves the others and their calls where they are.
WorkerStep(d) == \/ EnterScope(d) \/ LeaveScope(d)
                 \/ \E j \in Jobs : TakeJob(d, j) \/ DropOrphan(d, j)
                 \/ ExecuteStep(d) \/ DebouncerStops(d)

LEMMA WorkersApart ==
  ASSUME CallTyped, DebouncerTypeOK, NEW d \in Debouncers, WorkerStep(d)
  PROVE  \A e \in Debouncers \ {d} : worker'[e] = worker[e] /\ call'[e] = call[e]
<1> USE EngineAssumption
<1>1. CASE DisconnectStep(d) /\ UNCHANGED <<jobVars, workerVars>>
  BY <1>1, ReplyKept, ScriptReplied DEF workerVars
<1>2. CASE RecordTransition(d) \/ AnnounceJob(d) \/ AnnouncePresence(d) \/ EnterScope(d) \/ LeaveScope(d)
           \/ \E j \in Jobs : DropOrphan(d, j)
  BY <1>2 DEF RecordTransition, AnnounceJob, AnnouncePresence, EnterScope, LeaveScope, DropOrphan,
              WorkerGoto, workerVars, serviceVars, DebouncerTypeOK
<1>3. CASE FinishJob(d) \/ DebouncerStops(d)
  BY <1>3 DEF FinishJob, DebouncerStops, CallTyped, DebouncerTypeOK
<1>4. ASSUME NEW j \in Jobs, TakeJob(d, j)
      PROVE  \A e \in Debouncers \ {d} : worker'[e] = worker[e] /\ call'[e] = call[e]
  BY <1>4 DEF TakeJob, StartDisconnect, CallTyped, DebouncerTypeOK
<1> QED BY <1>1, <1>2, <1>3, <1>4 DEF WorkerStep, ExecuteStep

LEMMA CallWorkerKept ==
  ASSUME CallTyped, DebouncerTypeOK, CallWorker, NEW d \in Debouncers, WorkerStep(d) PROVE CallWorker'
<1> USE EngineAssumption
<1>1. /\ call'[d].at \notin {"none", "returned"} => worker'[d].at = "execute"
      /\ call'[d].at \in {"get", "script"} => call'[d].reply = NoReply
  <2>1. CASE DisconnectStep(d) /\ UNCHANGED <<jobVars, workerVars>>
    <3>1. CASE RunScript(d)
      <4>1. worker'[d].at = "execute"
        BY <2>1, <3>1 DEF RunScript, CallWorker, workerVars
      <4> QED BY <3>1, <4>1, ScriptReplied
    <3>2. CASE ~RunScript(d)
      <4>1. call[d].at \notin {"none", "returned"} /\ worker' = worker
        BY <2>1, <3>2, ReplyKept DEF workerVars
      <4>2. worker'[d].at = "execute"
        BY <4>1 DEF CallWorker
      <4>3. call'[d].at \in {"get", "script"} => call[d].at = "get" /\ call'[d].reply = call[d].reply
        BY <2>1, <3>2, ReplyKept
      <4> QED BY <4>2, <4>3 DEF CallWorker
    <3> QED BY <3>1, <3>2
  <2>2. CASE RecordTransition(d) \/ AnnounceJob(d) \/ AnnouncePresence(d) \/ EnterScope(d) \/ LeaveScope(d)
             \/ \E j \in Jobs : DropOrphan(d, j)
    <3>1. call' = call
      BY <2>2 DEF RecordTransition, AnnounceJob, AnnouncePresence, EnterScope, LeaveScope, DropOrphan, serviceVars
    <3>2. call[d].at \notin {"none", "returned"} => worker'[d].at = "execute"
      BY <2>2 DEF RecordTransition, AnnounceJob, AnnouncePresence, EnterScope, LeaveScope, DropOrphan,
              WorkerGoto, workerVars, DebouncerTypeOK, CallWorker
    <3> QED BY <3>1, <3>2 DEF CallWorker
  <2>3. CASE FinishJob(d) \/ DebouncerStops(d)
    <3>1. call' = [call EXCEPT ![d] = NoCall]
      BY <2>3 DEF FinishJob, DebouncerStops
    <3> QED BY <3>1 DEF CallTyped, NoCall
  <2>4. ASSUME NEW j \in Jobs, TakeJob(d, j)
        PROVE  /\ call'[d].at \notin {"none", "returned"} => worker'[d].at = "execute"
               /\ call'[d].at \in {"get", "script"} => call'[d].reply = NoReply
    <3>1. worker'[d].at = "execute"
      BY <2>4 DEF TakeJob, DebouncerTypeOK
    <3>2. call'[d].reply = NoReply
      BY <2>4 DEF TakeJob, StartDisconnect, CallTyped, NoCall
    <3> QED BY <3>1, <3>2
  <2> QED BY <2>1, <2>2, <2>3, <2>4 DEF WorkerStep, ExecuteStep
<1> QED BY <1>1, WorkersApart DEF CallWorker

\* A step of a job whose script has run, up to its announcement.
LEMMA RepliedStep ==
  ASSUME Reliable, CallTyped, DebouncerTypeOK, CallWorker, NEW d \in Debouncers, WorkerStep(d),
         worker[d].at \in {"execute", "announce"}, call[d].reply # NoReply
  PROVE  \/ DisconnectStep(d) /\ ~RunScript(d) /\ UNCHANGED <<worker, view>>
         \/ RecordTransition(d)
         \/ AnnounceJob(d)
<1>1. ~RunScript(d)
  BY DEF RunScript, CallWorker
<1>2. ~DebouncerStops(d)
  BY DEF DebouncerStops, Reliable
<1>3. DisconnectStep(d) => UNCHANGED view
  BY DEF DisconnectStep, GetMeta, RunScript, DropInvisible, DropDevices, DropUserStates, DecrementDevice,
         DeleteState, ReadStates, ReadLast, SetLast
<1>4. ~EnterScope(d) /\ ~LeaveScope(d) /\ ~AnnouncePresence(d) /\ ~FinishJob(d)
  BY DEF EnterScope, LeaveScope, AnnouncePresence, FinishJob, WorkerGoto
<1>5. ASSUME NEW j \in Jobs PROVE ~TakeJob(d, j) /\ ~DropOrphan(d, j)
  BY DEF TakeJob, DropOrphan
<1> QED BY <1>1, <1>2, <1>3, <1>4, <1>5 DEF WorkerStep, ExecuteStep, workerVars

LEMMA WorkerPublishes ==
  ASSUME Reliable, CallTyped, ViewTypeOK, NEW d \in Debouncers, WorkerStep(d)
  PROVE  \A w \in Users : view'[w].version >= view[w].version
<1>1. d \in Callers /\ UserOfCall(d) \in Users /\ call[d].reply.version \in Nat
  BY EngineAssumption, StoreAssumption DEF CallTyped, Calls, Replies, UserOfCall
<1>2. ASSUME NEW e, Publish(UserOfCall(d), e), e.version = call[d].reply.version
      PROVE  \A w \in Users : view'[w].version >= view[w].version
  BY <1>1, <1>2, PublishedArrives DEF Reliable
<1>3. CASE AnnounceJob(d)
  BY <1>2, <1>3, ViewStays DEF AnnounceJob, OfflineEvent, TabsEvent, PresenceEvent
<1>4. CASE AnnouncePresence(d)
  BY <1>2, <1>4 DEF AnnouncePresence, PresenceEvent
<1>5. CASE ~AnnounceJob(d) /\ ~AnnouncePresence(d)
  <2>1. UNCHANGED view
    BY <1>5 DEF WorkerStep, EnterScope, LeaveScope, TakeJob, DropOrphan, ExecuteStep, RecordTransition, FinishJob,
         DebouncerStops, DisconnectStep, GetMeta, RunScript, DropInvisible, DropDevices, DropUserStates,
         DecrementDevice, DeleteState, ReadStates, ReadLast, SetLast, serviceVars
  <2> QED BY <2>1, ViewStays
<1> QED BY <1>3, <1>4, <1>5

\* recordTransition decides whether the offline event of the job will be told.
LEMMA RecordedStep ==
  ASSUME CallTyped, DebouncerTypeOK, NEW d \in Debouncers, RecordTransition(d)
  PROVE  /\ worker'[d].at = "announce" /\ UNCHANGED <<call, view>>
         /\ FlappingThreshold = 0 => ~worker'[d].flapping
<1> DEFINE u == UserOfCall(d)
           flapping == FlappingThreshold > 0 /\ Recorded(u) >= FlappingThreshold
<1>1. worker' = [worker EXCEPT ![d].at = "announce", ![d].flapping = flapping]
  BY DEF RecordTransition
<1>2. FlappingThreshold = 0 => flapping = FALSE
  OBVIOUS
<1> HIDE DEF flapping
<1>3. worker'[d].at = "announce" /\ worker'[d].flapping = flapping
  BY <1>1 DEF DebouncerTypeOK
<1>4. UNCHANGED <<call, view>>
  BY DEF RecordTransition, serviceVars
<1> QED BY <1>2, <1>3, <1>4

\* A job that has something to tell goes on until it has told it.
LEMMA JobTellsOn ==
  ASSUME Reliable, CallTyped, DebouncerTypeOK, ViewTypeOK, CallWorker, NEW d \in Debouncers,
         WorkerStep(d), TellingJob(d)
  PROVE  \/ /\ TellingJob(d)' /\ UserOfCall(d)' = UserOfCall(d)
            /\ call'[d].reply.version = call[d].reply.version
         \/ view'[UserOfCall(d)].version >= call[d].reply.version
<1>1. d \in Callers /\ UserOfCall(d) \in Users /\ call[d].reply.version \in Nat
  BY EngineAssumption, StoreAssumption DEF CallTyped, Calls, Replies, UserOfCall
<1>2. worker[d].at \in {"execute", "announce"} /\ call[d].reply # NoReply
  BY DEF TellingJob, NoReply
<1>3. CASE DisconnectStep(d) /\ ~RunScript(d) /\ UNCHANGED <<worker, view>>
  BY <1>1, <1>3, ReplyKept DEF TellingJob, UserOfCall
<1>4. CASE RecordTransition(d)
  <2>1. call[d].reply.transition # "offline"
    BY <1>4 DEF RecordTransition, TellingJob
  <2> QED BY <1>4, <2>1, RecordedStep DEF TellingJob, UserOfCall
<1>5. CASE AnnounceJob(d)
  <2>1. ASSUME NEW e, Publish(UserOfCall(d), e), e.version = call[d].reply.version
        PROVE  view'[UserOfCall(d)].version >= call[d].reply.version
    BY <1>1, <2>1, PublishedArrives DEF Reliable
  <2>2. worker[d].at = "announce"
    BY <1>5 DEF AnnounceJob, WorkerGoto
  <2>3. CASE call[d].reply.transition = "offline"
    BY <1>5, <2>1, <2>2, <2>3 DEF AnnounceJob, OfflineEvent, PresenceEvent, TellingJob
  <2>4. CASE call[d].reply.transition # "offline"
    <3>1. call[d].reply.count > 0
      BY <2>4 DEF TellingJob
    <3> QED BY <1>5, <2>1, <2>4, <3>1 DEF AnnounceJob, TabsEvent, PresenceEvent
  <2> QED BY <2>3, <2>4
<1> QED BY <1>2, <1>3, <1>4, <1>5, RepliedStep

\* A worker that never takes a user for flapping tells what it has found out.
LEMMA UndecidedGoesOn ==
  ASSUME Reliable, CallTyped, DebouncerTypeOK, CallWorker, NEW d \in Debouncers, WorkerStep(d),
         FlappingThreshold = 0, worker[d].at = "execute", call[d].reply.transition = "offline"
  PROVE  /\ UserOfCall(d)' = UserOfCall(d) /\ call'[d].reply = call[d].reply
         /\ worker'[d].at = "execute" \/ TellingJob(d)'
<1>1. d \in Callers /\ call[d].reply # NoReply
  BY EngineAssumption DEF NoReply
<1>2. CASE DisconnectStep(d) /\ ~RunScript(d) /\ UNCHANGED <<worker, view>>
  BY <1>1, <1>2, ReplyKept DEF UserOfCall
<1>3. CASE RecordTransition(d)
  BY <1>3, RecordedStep DEF TellingJob, UserOfCall
<1>4. ~AnnounceJob(d)
  BY DEF AnnounceJob, WorkerGoto
<1> QED BY <1>1, <1>2, <1>3, <1>4, RepliedStep

-----------------------------------------------------------------------------
LEMMA GatewayLeavesWorkers == ASSUME GatewayNext PROVE UNCHANGED workerVars
BY DEF GatewayNext, Dial, ConnectStep, ConnectSession, Hide, CountDevice, InitState, InitLast, ReadAggregate,
       AnnounceConnect, Heartbeat, SetState, StateStep, WriteState, ReadAllStates, CompareLast, CommitLast,
       CommitVersion, CountTabs, TellState, LoseConnection, Schedule, GatewayStops

\* With no cleaners, a step is one of a gateway, of a worker or of the clock.
LEMMA ReliableSteps ==
  ASSUME Reliable, TypeInv, [Next]_vars
  PROVE  \/ ByGateway(GatewayNext) /\ UNCHANGED <<call, worker>>
         \/ \E d \in Debouncers : WorkerStep(d) /\ UNCHANGED conn
         \/ UNCHANGED <<conn, call, worker, view, userVersion, userSessions>>
<1>1. CASE ByGateway(GatewayNext)
  BY <1>1, GatewayLeavesCalls, GatewayLeavesWorkers DEF ByGateway, workerVars
<1>2. CASE ByDebouncer(DebouncerNext)
  <2>1. CASE (\E j \in Jobs : JobExpires(j)) \/ (\E u \in Users : WindowPasses(u))
    BY <1>2, <2>1 DEF ByDebouncer, JobExpires, WindowPasses, serviceVars, storeVars, workerVars, gatewayVars
  <2>2. CASE \E d \in Debouncers : WorkerStep(d)
    BY <1>2, <2>2 DEF ByDebouncer, gatewayVars
  <2> QED BY <1>2, <2>1, <2>2 DEF ByDebouncer, DebouncerNext, WorkerStep
<1>3. CASE ExpiryNext
  BY <1>3 DEF ExpiryNext, Expire, Age, debouncerVars, workerVars, gatewayVars
<1>4. CASE UNCHANGED vars
  BY <1>4 DEF vars, serviceVars, storeVars, debouncerVars, workerVars, gatewayVars
<1>5. ~BySweeper(SweeperNext) /\ ~ByApi(ApiNext)
  BY DEF Reliable, NoCleaners, BySweeper, SweeperNext, ByApi, ApiNext
<1> QED BY <1>1, <1>2, <1>3, <1>4, <1>5 DEF Next

\* What somebody will tell is told, or somebody still will.
LEMMA SureKept ==
  ASSUME Reliable, TypeInv, CallWorker, [Next]_vars, NEW u \in Users, NEW v \in Int, Sure(u, v)
  PROVE  Sure(u, v)'
<1> USE DEF TypeInv
<1>1. \A w \in Users : view[w].version \in Nat
  BY DEF ViewTypeOK
<1>2. CASE ByGateway(GatewayNext) /\ UNCHANGED <<call, worker>>
  <2>1. \A w \in Users : view'[w].version >= view[w].version
    BY <1>2, ConnTellsOn DEF ByGateway
  <2>2. CASE view[u].version >= v
    BY <1>1, <2>1, <2>2, TypeInductive DEF Sure, ViewTypeOK
  <2>3. ASSUME NEW s \in Sessions, UserOf[s] = u, TellingConn(s), conn[s].reply.version = v PROVE Sure(u, v)'
    <3>1. \/ TellingConn(s)' /\ conn'[s].reply.version = conn[s].reply.version
          \/ view'[UserOf[s]].version >= conn[s].reply.version
      BY <1>2, <2>3, ConnTellsOn DEF ByGateway
    <3> QED BY <2>3, <3>1 DEF Sure
  <2>4. ASSUME NEW d \in Debouncers, UserOfCall(d) = u, TellingJob(d), call[d].reply.version = v PROVE Sure(u, v)'
    <3>1. UserOfCall(d)' = u /\ TellingJob(d)' /\ call'[d].reply.version = v
      BY <1>2, <2>4 DEF UserOfCall, TellingJob
    <3> QED BY <3>1 DEF Sure
  <2> QED BY <2>2, <2>3, <2>4 DEF Sure
<1>3. ASSUME NEW d \in Debouncers, WorkerStep(d), UNCHANGED conn PROVE Sure(u, v)'
  <2>1. \A w \in Users : view'[w].version >= view[w].version
    BY <1>3, WorkerPublishes
  <2>2. CASE view[u].version >= v
    BY <1>1, <2>1, <2>2, TypeInductive DEF Sure, ViewTypeOK
  <2>3. ASSUME NEW s \in Sessions, UserOf[s] = u, TellingConn(s), conn[s].reply.version = v PROVE Sure(u, v)'
    BY <1>3, <2>3 DEF Sure, TellingConn
  <2>4. ASSUME NEW e \in Debouncers, UserOfCall(e) = u, TellingJob(e), call[e].reply.version = v PROVE Sure(u, v)'
    <3>1. CASE e = d
      <4>1. \/ /\ TellingJob(d)' /\ UserOfCall(d)' = UserOfCall(d)
               /\ call'[d].reply.version = call[d].reply.version
            \/ view'[UserOfCall(d)].version >= call[d].reply.version
        BY <1>3, <2>4, <3>1, JobTellsOn
      <4> QED BY <2>4, <3>1, <4>1 DEF Sure
    <3>2. CASE e # d
      <4>1. worker'[e] = worker[e] /\ call'[e] = call[e]
        BY <1>3, <3>2, WorkersApart
      <4>2. UserOfCall(e)' = u /\ TellingJob(e)' /\ call'[e].reply.version = v
        BY <2>4, <4>1 DEF UserOfCall, TellingJob
      <4> QED BY <4>2 DEF Sure
    <3> QED BY <3>1, <3>2
  <2> QED BY <2>2, <2>3, <2>4 DEF Sure
<1>4. CASE UNCHANGED <<conn, call, worker, view, userVersion, userSessions>>
  BY <1>4 DEF Sure, TellingConn, TellingJob, UserOfCall
<1> QED BY <1>2, <1>3, <1>4, ReliableSteps

LEMMA UndecidedKept ==
  ASSUME Reliable, TypeInv, CallWorker, [Next]_vars, FlappingThreshold = 0,
         NEW u \in Users, NEW v \in Nat, Undecided(u, v)
  PROVE  Undecided(u, v)' \/ Sure(u, v)'
<1> PICK e \in Debouncers : /\ UserOfCall(e) = u /\ worker[e].at = "execute"
                            /\ call[e].reply.transition = "offline" /\ call[e].reply.version = v
  BY DEF Undecided
<1>1. CASE UNCHANGED <<call, worker>>
  BY <1>1 DEF Undecided, UserOfCall
<1>2. ASSUME NEW d \in Debouncers, WorkerStep(d) PROVE Undecided(u, v)' \/ Sure(u, v)'
  <2>1. CASE e = d
    <3>1. /\ UserOfCall(e)' = u /\ call'[e].reply = call[e].reply
          /\ worker'[e].at = "execute" \/ TellingJob(e)'
      BY <1>2, <2>1, UndecidedGoesOn DEF TypeInv
    <3> QED BY <3>1 DEF Undecided, Sure
  <2>2. CASE e # d
    <3>1. worker'[e] = worker[e] /\ call'[e] = call[e]
      BY <1>2, <2>2, WorkersApart DEF TypeInv
    <3> QED BY <3>1 DEF Undecided, UserOfCall
  <2> QED BY <2>1, <2>2
<1> QED BY <1>1, <1>2, ReliableSteps

-----------------------------------------------------------------------------
\* Whoever takes a new version will tell it, or has just taken the user offline.
LEMMA GatewayBumps ==
  ASSUME StoreTypeOK, ConnTyped, GatewayNext, NEW u \in Users, userVersion'[u] # userVersion[u]
  PROVE  \E s \in Sessions : UserOf[s] = u /\ TellingConn(s)' /\ conn'[s].reply.version = userVersion'[u]
<1> USE StoreAssumption DEF ConnTyped, Conns
<1> PICK s \in Sessions :
      \/ Dial(s) \/ ConnectStep(s) \/ Heartbeat(s)
      \/ \E state \in PresenceStates : SetState(s, state)
      \/ StateStep(s) \/ LoseConnection(s) \/ Schedule(s) \/ GatewayStops(s)
  BY DEF GatewayNext
<1>1. CASE ConnectSession(s)
  <2> DEFINE r == ConnectReply(s)
  <2>1. PICK step \in {"hide", "device", "initstate"}, reply \in {r, [r EXCEPT !.transition = "invisible"]} :
          conn' = [conn EXCEPT ![s].at = step, ![s].reply = reply]
    <3> HIDE DEF r
    <3> QED BY <1>1, Zenon DEF ConnectSession, r
  <2>2. reply.version = userVersion'[UserOf[s]]
    BY <1>1 DEF ConnectSession, ConnectScript, ConnectReply
  <2>3. UserOf[s] = u
    BY <1>1 DEF ConnectSession, ConnectScript, Bumped, StoreTypeOK
  <2>4. TellingConn(s)' /\ conn'[s].reply = reply
    BY <2>1 DEF TellingConn
  <2> QED BY <2>2, <2>3, <2>4
<1>2. CASE CommitVersion(s)
  <2>1. PICK v : v = userVersion[UserOf[s]] + 1 /\ v = userVersion'[UserOf[s]]
    BY <1>2, BumpGrows DEF CommitVersion
  <2>2. conn' = [conn EXCEPT ![s].at = "card", ![s].reply.version = v]
    BY <1>2, <2>1 DEF CommitVersion
  <2>3. TellingConn(s)' /\ conn'[s].reply.version = v
    BY <2>2 DEF TellingConn, Replies
  <2>4. UserOf[s] = u
    BY <1>2 DEF CommitVersion, Bumped, StoreTypeOK
  <2> QED BY <2>1, <2>3, <2>4
<1>3. CASE ~ConnectSession(s) /\ ~CommitVersion(s)
  <2>1. UNCHANGED userVersion
    BY <1>3 DEF Dial, ConnectStep, Hide, CountDevice, InitState, InitLast, ReadAggregate, AnnounceConnect, Heartbeat,
                HeartbeatScript, SetState, StateStep, WriteState, ReadAllStates, CompareLast, CommitLast, CountTabs,
                TellState, LoseConnection, Schedule, GatewayStops, serviceVars, storeVars
  <2> QED BY <2>1
<1> QED BY <1>1, <1>2, <1>3

LEMMA WorkerBumps ==
  ASSUME StoreTypeOK, CallTyped, DebouncerTypeOK, CallWorker, NEW d \in Debouncers, WorkerStep(d),
         NEW u \in Users, userVersion'[u] # userVersion[u]
  PROVE  /\ UserOfCall(d)' = u /\ call'[d].reply.version = userVersion'[u]
         /\ \/ TellingJob(d)'
            \/ /\ worker'[d].at = "execute" /\ call'[d].reply.transition = "offline"
               /\ userSessions[u] # {} /\ userSessions'[u] = {}
<1> USE EngineAssumption, StoreAssumption
<1> DEFINE s == call[d].session
<1>1. s \in Sessions /\ UserOf[s] \in Users
  BY DEF CallTyped, Calls
<1>2. RunScript(d) /\ UNCHANGED worker
  BY DEF WorkerStep, EnterScope, LeaveScope, TakeJob, DropOrphan, ExecuteStep, RecordTransition, AnnounceJob,
         AnnouncePresence, FinishJob, DebouncerStops, DisconnectStep, GetMeta, DropInvisible, DropDevices,
         DropUserStates, DecrementDevice, DeleteState, ReadStates, ReadLast, SetLast, serviceVars, storeVars, workerVars
<1>3. DisconnectScript(s) /\ worker[d].at = "execute"
  BY <1>2 DEF RunScript, CallWorker
<1>4. call'[d].session = s /\ call'[d].reply = DisconnectReply(s)
  BY <1>2, ScriptReplied
<1>5. UserOf[s] = u /\ DisconnectRemoves(s)
  BY <1>1, <1>3 DEF DisconnectScript, Bumped, StoreTypeOK
<1>6. userSessions'[u] = DisconnectSet(s) /\ s \in userSessions[u]
  BY <1>1, <1>3, <1>5 DEF DisconnectScript, DisconnectRemoves, StoreTypeOK
<1>7. IsFiniteSet(DisconnectSet(s)) /\ Cardinality(DisconnectSet(s)) \in Nat
  <2>1. DisconnectSet(s) \subseteq Sessions
    BY <1>1 DEF DisconnectSet, StoreTypeOK
  <2> QED BY <2>1, FS_Subset, FS_CardinalityType
<1>8. /\ call'[d].reply.version = userVersion'[u]
      /\ call'[d].reply.count = Cardinality(DisconnectSet(s))
      /\ call'[d].reply.transition = IF GoesOffline(s) THEN "offline" ELSE "none"
  BY <1>3, <1>4, <1>5 DEF DisconnectScript, DisconnectReply
<1>9. CASE GoesOffline(s)
  <2>1. DisconnectSet(s) = {}
    BY <1>7, <1>9, FS_EmptySet DEF GoesOffline
  <2> QED BY <1>2, <1>3, <1>4, <1>5, <1>6, <1>8, <1>9, <2>1 DEF UserOfCall
<1>10. CASE ~GoesOffline(s)
  <2>1. call'[d].reply.count > 0
    BY <1>5, <1>7, <1>8, <1>10 DEF GoesOffline
  <2> QED BY <1>2, <1>3, <1>4, <1>5, <1>8, <1>10, <2>1 DEF UserOfCall, TellingJob
<1> QED BY <1>9, <1>10

LEMMA BumpTold ==
  ASSUME Reliable, TypeInv, CallWorker, [Next]_vars, NEW u \in Users, NEW v \in Nat,
         userVersion'[u] = v, userVersion'[u] # userVersion[u]
  PROVE  \/ Sure(u, v)'
         \/ userSessions[u] # {} /\ userSessions'[u] = {} /\ Undecided(u, v)'
<1> USE DEF TypeInv
<1>1. CASE ByGateway(GatewayNext)
  BY <1>1, GatewayBumps DEF ByGateway, Sure
<1>2. ASSUME NEW d \in Debouncers, WorkerStep(d)
      PROVE  Sure(u, v)' \/ (userSessions[u] # {} /\ userSessions'[u] = {} /\ Undecided(u, v)')
  BY <1>2, WorkerBumps DEF Sure, Undecided
<1> QED BY <1>1, <1>2, ReliableSteps

LEMMA SureInductive == ASSUME Reliable, TellInv, SureInv, [Next]_vars PROVE SureInv'
<1>1. TypeInv /\ TypeInv' /\ CallWorker /\ \A u \in Users : SureOf(u)
  BY TypeInductive DEF SureInv
<1>2. CallWorker'
  BY <1>1, ReliableSteps, CallWorkerKept DEF TypeInv, CallWorker
<1>3. ASSUME NEW u \in Users PROVE SureOf(u)'
  <2> PICK old \in Nat : old = userVersion[u]
    BY <1>1 DEF TypeInv, StoreTypeOK
  <2> PICK new \in Nat : new = userVersion'[u]
    BY <1>1 DEF TypeInv, StoreTypeOK
  <2>1. \/ Sure(u, old)
        \/ userSessions[u] = {} /\ Sure(u, old - 1) /\ (FlappingThreshold > 0 \/ Undecided(u, old))
    BY <1>1 DEF SureOf
  <2>2. \/ Sure(u, new)'
        \/ userSessions'[u] = {} /\ Sure(u, new - 1)' /\ (FlappingThreshold > 0 \/ Undecided(u, new)')
    <3>1. MovedOn(u)
      BY <1>1, EngineOnStore, StoreMoves DEF Reliable, TypeInv
    <3>2. CASE new = old /\ userSessions'[u] = userSessions[u]
      <4>1. CASE Sure(u, old)
        BY <1>1, <3>2, <4>1, SureKept
      <4>2. CASE userSessions[u] = {} /\ Sure(u, old - 1) /\ (FlappingThreshold > 0 \/ Undecided(u, old))
        <5>1. Sure(u, old - 1)'
          BY <1>1, <4>2, SureKept
        <5>2. FlappingThreshold > 0 \/ Undecided(u, old)' \/ Sure(u, old)'
          BY <1>1, <4>2, UndecidedKept, EngineAssumption
        <5> QED BY <3>2, <4>2, <5>1, <5>2
      <4> QED BY <2>1, <4>1, <4>2
    <3>3. CASE new = old + 1
      <4> new # old
        BY <3>3
      <4>1. \/ Sure(u, new)'
            \/ userSessions[u] # {} /\ userSessions'[u] = {} /\ Undecided(u, new)'
        BY <1>1, BumpTold
      <4>2. CASE userSessions[u] # {} /\ userSessions'[u] = {} /\ Undecided(u, new)'
        <5>1. Sure(u, old)'
          BY <1>1, <2>1, <4>2, SureKept
        <5>2. old = new - 1
          BY <3>3
        <5> QED BY <4>2, <5>1, <5>2
      <4> QED BY <4>1, <4>2
    <3>4. \/ userVersion'[u] = userVersion[u] /\ userSessions'[u] = userSessions[u]
          \/ new = old + 1
      BY <3>1 DEF MovedOn
    <3> QED BY <3>2, <3>3, <3>4
  <2> QED BY <2>2 DEF SureOf
<1> QED BY <1>1, <1>2, <1>3 DEF SureInv

LEMMA SureInitial == Init => SureInv
<1> SUFFICES ASSUME Init PROVE SureInv
  OBVIOUS
<1>1. CallWorker
  BY EngineAssumption DEF Init, ServiceInit, NoCall, CallWorker
<1>2. \A u \in Users : view[u].version = 0 /\ userVersion[u] = 0
  BY DEF Init, ServiceInit, StoreInit, ViewInit, Unheard, PresenceEvent
<1> QED BY <1>1, <1>2, TypeInitial DEF SureInv, SureOf, Sure

\* Of every user the newest version has been applied or is about to be told, by a
\* connection or a job that carries exactly that version; only where a worker counts
\* transitions can the offline event of a user without sessions be missing.
THEOREM SureInvariant == Reliable => (Spec => []SureInv)
<1> SUFFICES ASSUME Reliable PROVE Spec => []SureInv
  OBVIOUS
<1>1. TellInv /\ SureInv /\ [Next]_vars => SureInv'
  BY SureInductive
<1>2. Spec => []TellInv
  BY TellInvariant DEF Reliable
<1> QED BY <1>1, <1>2, SureInitial, PTL DEF Spec

LEMMA SettledOf ==
  ASSUME TellInv, SureInv, Quiet, NEW u \in Users
  PROVE  \/ view[u].version = userVersion[u]
         \/ u \notin onlineUsers /\ FlappingThreshold > 0 /\ view[u].version = userVersion[u] - 1
<1> PICK v \in Nat : v = userVersion[u]
  BY DEF SureInv, TypeInv, StoreTypeOK
<1> PICK seen \in Nat : seen = view[u].version
  BY DEF SureInv, TypeInv, ViewTypeOK
<1>1. seen <= v
  BY DEF TellInv, ViewExact, Exact
<1>2. \A n : Sure(u, n) => seen >= n
  BY DEF Quiet, Sure, TellingConn, TellingJob
<1>3. ~Undecided(u, v)
  BY DEF Quiet, Undecided
<1>4. userSessions[u] = {} => u \notin onlineUsers
  BY DEF TellInv, EngineInv, StoreInv, OnlineIffSessions
<1>5. Sure(u, v) \/ (userSessions[u] = {} /\ Sure(u, v - 1) /\ FlappingThreshold > 0)
  BY <1>3 DEF SureInv, SureOf
<1> QED BY <1>1, <1>2, <1>4, <1>5

\* SettledViewOrFlapping: once connections are up or over and the queue is empty, a
\* subscriber knows the current version of every user, but for the one offline event
\* of a user that is offline and was taken for flapping.
THEOREM SettledAlwaysOrFlapping == Reliable => (Spec => []SettledViewOrFlapping)
<1> SUFFICES ASSUME Reliable PROVE Spec => []SettledViewOrFlapping
  OBVIOUS
<1>1. TellInv /\ SureInv => SettledViewOrFlapping
  BY SettledOf DEF SettledViewOrFlapping
<1>2. Spec => []TellInv
  BY TellInvariant DEF Reliable
<1> QED BY <1>1, <1>2, SureInvariant, PTL

\* SettledViewCurrent, as cmd/worker-debouncer runs the workers: with no flapping
\* detection the view settles on the current version of every user.
THEOREM SettledAlwaysCurrent == Reliable /\ FlappingThreshold = 0 => (Spec => []SettledViewCurrent)
<1> SUFFICES ASSUME Reliable, FlappingThreshold = 0 PROVE Spec => []SettledViewCurrent
  OBVIOUS
<1>1. TellInv /\ SureInv => SettledViewCurrent
  BY SettledOf DEF SettledViewCurrent
<1>2. Spec => []TellInv
  BY TellInvariant DEF Reliable
<1> QED BY <1>1, <1>2, SureInvariant, PTL

-----------------------------------------------------------------------------
(***************************************************************************)
(* What is left of a user that has gone offline.  With the one worker of a *)
(* deployment, which does not stop, and session ids used once, the script  *)
(* a job runs always finds its session: so the user is offline afterwards  *)
(* and the same job clears its keys one by one, or a session remains and   *)
(* the user still has keys.  A new session meanwhile makes the user one    *)
(* that has sessions.                                                      *)
(***************************************************************************)
OneWorker == /\ NoCleaners /\ MaxConns = 1
             /\ \A d, e \in Debouncers : d = e
             /\ "debouncer_stops" \notin Faults

Busy == {"execute", "announce", "presence", "cleanup"}

\* A worker is in Disconnect for the job it executes, and its session is indexed
\* until it has run the script.
CallJob == \A d \in Debouncers :
  /\ call[d].at \notin {"none", "returned"} => worker[d].at = "execute"
  /\ worker[d].at = "execute" => call[d].session = worker[d].job[1]
  /\ call[d].at \in {"get", "script"} => call[d].session \in userSessions[UserOfCall(d)]

\* So is the session of a job nobody has taken.
JobOpen(j) == \/ j[1] \in userSessions[UserOf[j[1]]]
              \/ \E d \in Debouncers : worker[d].at \in Busy /\ worker[d].job = j

JobsOpen == \A j \in jobQueue \cap jobMeta : JobOpen(j)

RemainSteps == {"decdevice", "delstate", "aggregate", "last", "setlast"}

Remain == \A d \in Debouncers : call[d].at \in RemainSteps => userSessions[UserOfCall(d)] # {}

\* A worker has yet to clear some of what u leaves behind.
Clears(u, steps) == \E d \in Debouncers : UserOfCall(d) = u /\ call[d].at \in steps

ForgetSteps == {"uninvis", "deldevices", "delstates"}

ForgetsOf(u) == userSessions[u] = {} =>
  /\ u \in invisibleUsers => Clears(u, {"uninvis"})
  /\ userDevices[u] # 0 => Clears(u, {"uninvis", "deldevices"})
  /\ lastPub[u] # NoState => Clears(u, ForgetSteps)
  /\ \A s \in Sessions : UserOf[s] = u /\ sessionStates[s] # NoState => Clears(u, ForgetSteps)

ForgetInv == /\ TypeInv /\ UpInv
             /\ CallJob /\ JobsOpen /\ Remain /\ \A u \in Users : ForgetsOf(u)

\* A step leaves the keys of u alone.
SideLeft(u) == /\ u \in invisibleUsers' <=> u \in invisibleUsers
               /\ userDevices'[u] = userDevices[u] /\ lastPub'[u] = lastPub[u]
               /\ \A s \in Sessions : UserOf[s] = u => sessionStates'[s] = sessionStates[s]

LEMMA ForgetsLeft ==
  ASSUME NEW u \in Users, ForgetsOf(u), userSessions'[u] = {} => userSessions[u] = {} /\ SideLeft(u),
         UNCHANGED call \/ ~Clears(u, ForgetSteps)
  PROVE  ForgetsOf(u)'
<1> SUFFICES ASSUME userSessions'[u] = {} PROVE ForgetsOf(u)'
  BY DEF ForgetsOf
<1>1. userSessions[u] = {} /\ SideLeft(u)
  OBVIOUS
<1>2. CASE UNCHANGED call
  BY <1>1, <1>2 DEF ForgetsOf, SideLeft, Clears, UserOfCall
<1>3. CASE ~Clears(u, ForgetSteps)
  <2>1. ~Clears(u, {"uninvis"}) /\ ~Clears(u, {"uninvis", "deldevices"})
    BY <1>3 DEF Clears, ForgetSteps
  <2> QED BY <1>1, <1>3, <2>1 DEF ForgetsOf, SideLeft
<1> QED BY <1>2, <1>3

-----------------------------------------------------------------------------
\* Gateways write the keys of users that have sessions.
LEMMA GatewaySide ==
  ASSUME TypeInv, \A s \in Sessions : Registered(s), GatewayNext, NEW u \in Users, userSessions[u] = {}
  PROVE  SideLeft(u)
<1> USE StoreAssumption DEF TypeInv, SideTyped
<1> PICK s \in Sessions :
      \/ Dial(s) \/ ConnectStep(s) \/ Heartbeat(s)
      \/ \E state \in PresenceStates : SetState(s, state)
      \/ StateStep(s) \/ LoseConnection(s) \/ Schedule(s) \/ GatewayStops(s)
  BY DEF GatewayNext
<1>1. UNCHANGED sideVars => SideLeft(u)
  BY DEF sideVars, SideLeft
<1>2. CASE Hide(s) \/ CountDevice(s)
  <2>1. UserOf[s] # u
    BY <1>2 DEF Hide, CountDevice, ConnGoto, Registered
  <2> QED BY <1>2, <2>1 DEF Hide, CountDevice, SideLeft
<1>3. CASE InitState(s) \/ InitLast(s)
  <2>1. UserOf[s] # u
    BY <1>3 DEF InitState, InitLast, ConnGoto, Registered
  <2> QED BY <1>3, <2>1 DEF InitState, InitLast, SideLeft
<1>4. CASE WriteState(s) \/ CommitLast(s)
  <2>1. UserOf[s] # u
    BY <1>4 DEF WriteState, CommitLast, ConnGoto, Registered
  <2> QED BY <1>4, <2>1 DEF WriteState, CommitLast, SideLeft
<1>5. CASE ConnectSession(s) \/ ReadAggregate(s) \/ AnnounceConnect(s)
  BY <1>1, <1>5 DEF ConnectSession, ReadAggregate, AnnounceConnect, serviceVars
<1>6. CASE ReadAllStates(s) \/ CompareLast(s) \/ CommitVersion(s) \/ CountTabs(s) \/ TellState(s)
  BY <1>1, <1>6 DEF ReadAllStates, CompareLast, CommitVersion, CountTabs, TellState, serviceVars
<1>7. CASE \/ Dial(s) \/ Heartbeat(s) \/ LoseConnection(s) \/ Schedule(s) \/ GatewayStops(s)
           \/ \E state \in PresenceStates : SetState(s, state)
  BY <1>1, <1>7 DEF Dial, Heartbeat, LoseConnection, Schedule, GatewayStops, SetState, serviceVars
<1> QED BY <1>2, <1>3, <1>4, <1>5, <1>6, <1>7 DEF ConnectStep, StateStep

LEMMA GatewayJobs ==
  ASSUME TypeInv, MadeInv, GatewayNext
  PROVE  \A j \in jobQueue' \cap jobMeta' :
           \/ j \in jobQueue \cap jobMeta
           \/ \E s \in Sessions : j = <<s, 1>> /\ conn[s].at = "closing"
<1> PICK s \in Sessions :
      \/ Dial(s) \/ ConnectStep(s) \/ Heartbeat(s)
      \/ \E state \in PresenceStates : SetState(s, state)
      \/ StateStep(s) \/ LoseConnection(s) \/ Schedule(s) \/ GatewayStops(s)
  BY DEF GatewayNext
<1>1. CASE Schedule(s)
  <2>1. conn[s].at = "closing" /\ made[s] = 1
    BY <1>1 DEF Schedule, MadeInv
  <2>2. ScheduleDisconnect(<<s, 1>>)
    BY <1>1, <2>1 DEF Schedule
  <2> DEFINE new == <<s, 1>>
  <2>3. jobQueue' = jobQueue \cup {new} /\ jobMeta' = jobMeta \cup {new}
    BY <2>2 DEF ScheduleDisconnect
  <2> HIDE DEF new
  <2>4. \A j \in jobQueue' \cap jobMeta' : j \in jobQueue \cap jobMeta \/ j = new
    BY <2>3
  <2> QED BY <2>1, <2>4 DEF new
<1>2. CASE Dial(s)
  BY <1>2 DEF Dial, CancelDisconnect
<1>3. CASE ~Schedule(s) /\ ~Dial(s)
  <2>1. UNCHANGED jobVars
    BY <1>3 DEF ConnectStep, ConnectSession, Hide, CountDevice, InitState, InitLast, ReadAggregate,
          AnnounceConnect, Heartbeat, SetState, StateStep, WriteState, ReadAllStates, CompareLast, CommitLast,
          CommitVersion, CountTabs, TellState, LoseConnection, GatewayStops
  <2> QED BY <2>1 DEF jobVars
<1> QED BY <1>1, <1>2, <1>3

LEMMA GatewayForgets ==
  ASSUME ForgetInv, ByGateway(GatewayNext)
  PROVE  CallJob' /\ JobsOpen' /\ Remain' /\ \A u \in Users : ForgetsOf(u)'
<1> USE DEF ForgetInv
<1>1. GatewayNext /\ UNCHANGED <<call, worker>>
  BY GatewayLeavesCalls, GatewayLeavesWorkers DEF ByGateway, workerVars
<1>2. \A u \in Users : userSessions[u] \subseteq userSessions'[u]
  BY <1>1, GatewayAdds DEF TypeInv
<1>3. \A d \in Debouncers : UserOfCall(d) \in Users
  BY EngineAssumption, StoreAssumption DEF TypeInv, CallTyped, Calls, UserOfCall
<1>4. CallJob' /\ Remain'
  BY <1>1, <1>2, <1>3 DEF CallJob, Remain, UserOfCall
<1>5. JobsOpen'
  <2> SUFFICES ASSUME NEW j \in jobQueue' \cap jobMeta' PROVE JobOpen(j)'
    BY DEF JobsOpen
  <2>1. CASE j \in jobQueue \cap jobMeta
    <3>1. JobOpen(j) /\ j[1] \in Sessions
      BY <2>1 DEF JobsOpen, TypeInv, DebouncerTypeOK, Jobs
    <3> QED BY <1>1, <1>2, <3>1, StoreAssumption DEF JobOpen
  <2>2. ASSUME NEW s \in Sessions, j = <<s, 1>>, conn[s].at = "closing" PROVE JobOpen(j)'
    <3>1. s \in userSessions[UserOf[s]]
      BY <2>2 DEF UpInv, Registered
    <3> QED BY <1>2, <2>2, <3>1, StoreAssumption DEF JobOpen
  <2> QED BY <1>1, <2>1, <2>2, GatewayJobs DEF UpInv
<1>6. ASSUME NEW u \in Users PROVE ForgetsOf(u)'
  <2>1. userSessions'[u] = {} => userSessions[u] = {} /\ SideLeft(u)
    BY <1>1, <1>2, GatewaySide DEF UpInv
  <2> QED BY <1>1, <2>1, ForgetsLeft
<1> QED BY <1>4, <1>5, <1>6

-----------------------------------------------------------------------------
\* Steps of the worker that leave the index and the keys of all users alone.
LEMMA JobsRemain ==
  ASSUME JobsOpen, UNCHANGED userSessions, jobQueue' \cap jobMeta' \subseteq jobQueue \cap jobMeta,
         \A d \in Debouncers : worker[d].at \in Busy => worker'[d].at \in Busy /\ worker'[d].job = worker[d].job
  PROVE  JobsOpen'
BY DEF JobsOpen, JobOpen

LEMMA NobodyClears ==
  ASSUME CallJob, NEW d \in Debouncers, \A e \in Debouncers : e = d, worker[d].at # "execute", NEW u
  PROVE  ~Clears(u, ForgetSteps)
BY DEF CallJob, Clears, ForgetSteps

LEMMA WorkerAround ==
  ASSUME OneWorker, ForgetInv, NEW d \in Debouncers, WorkerStep(d), ~DisconnectStep(d)
  PROVE  CallJob' /\ JobsOpen' /\ Remain' /\ \A u \in Users : ForgetsOf(u)'
<1> USE EngineAssumption DEF ForgetInv, OneWorker
<1>1. d \in Callers /\ \A e \in Debouncers : e = d
  OBVIOUS
<1>2. UNCHANGED <<userSessions, sideVars>>
  BY DEF WorkerStep, EnterScope, LeaveScope, TakeJob, DropOrphan, ExecuteStep, RecordTransition, AnnounceJob,
         AnnouncePresence, FinishJob, DebouncerStops, serviceVars, storeVars
<1>3. \A u \in Users : SideLeft(u)
  BY <1>2 DEF sideVars, SideLeft
<1>4. CASE RecordTransition(d) \/ AnnounceJob(d) \/ AnnouncePresence(d) \/ EnterScope(d) \/ LeaveScope(d)
           \/ \E j \in Jobs : DropOrphan(d, j)
  <2>1. UNCHANGED call /\ jobQueue' \cap jobMeta' \subseteq jobQueue \cap jobMeta
    BY <1>4 DEF RecordTransition, AnnounceJob, AnnouncePresence, EnterScope, LeaveScope, DropOrphan, serviceVars, jobVars
  <2>2. /\ worker'[d].at # "execute" /\ (worker[d].at = "execute" => call[d].at \in {"none", "returned"})
        /\ worker[d].at \in Busy => worker'[d].at \in Busy /\ worker'[d].job = worker[d].job
    <3> USE DEF TypeInv, DebouncerTypeOK, Busy
    <3>1. CASE RecordTransition(d)
      BY <3>1 DEF RecordTransition
    <3>2. CASE AnnounceJob(d) \/ AnnouncePresence(d)
      BY <3>2 DEF AnnounceJob, AnnouncePresence, WorkerGoto, AfterAnnounce
    <3>3. CASE EnterScope(d) \/ LeaveScope(d)
      BY <3>3 DEF EnterScope, LeaveScope, WorkerGoto, IdleWorker
    <3>4. CASE \E j \in Jobs : DropOrphan(d, j)
      BY <3>4 DEF DropOrphan, workerVars
    <3> QED BY <1>4, <3>1, <3>2, <3>3, <3>4
  <2>3. CallJob' /\ Remain'
    BY <1>1, <1>2, <2>1, <2>2 DEF CallJob, Remain, UserOfCall
  <2>4. JobsOpen'
    BY <1>1, <1>2, <2>1, <2>2, JobsRemain
  <2> QED BY <1>2, <1>3, <2>1, <2>3, <2>4, ForgetsLeft
<1>5. CASE FinishJob(d)
  <2>1. worker[d].at = "cleanup" /\ worker'[d].at = "scope" /\ call'[d].at = "none"
    BY <1>1, <1>5 DEF FinishJob, IdleWorker, NoCall, TypeInv, CallTyped, DebouncerTypeOK
  <2>2. CallJob' /\ Remain'
    BY <1>1, <2>1 DEF CallJob, Remain, RemainSteps
  <2>3. JobsOpen'
    <3> SUFFICES ASSUME NEW j \in jobQueue' \cap jobMeta' PROVE JobOpen(j)'
      BY DEF JobsOpen
    <3>1. j \in jobQueue \cap jobMeta /\ j # worker[d].job
      BY <1>5 DEF FinishJob
    <3>2. j[1] \in userSessions[UserOf[j[1]]]
      BY <1>1, <3>1 DEF JobsOpen, JobOpen
    <3> QED BY <1>2, <3>2 DEF JobOpen
  <2> QED BY <1>1, <1>2, <1>3, <2>1, <2>2, <2>3, NobodyClears, ForgetsLeft
<1>6. ASSUME NEW j \in Jobs, TakeJob(d, j) PROVE CallJob' /\ JobsOpen' /\ Remain' /\ \A u \in Users : ForgetsOf(u)'
  <2>1. /\ worker[d].at = "scope" /\ j \in jobQueue \cap jobMeta /\ UNCHANGED jobVars
        /\ worker'[d].at = "execute" /\ worker'[d].job = j
        /\ call'[d].at = "get" /\ call'[d].session = j[1]
    BY <1>1, <1>6 DEF TakeJob, StartDisconnect, NoCall, TypeInv, CallTyped, DebouncerTypeOK
  <2>2. \A k \in jobQueue \cap jobMeta : k[1] \in userSessions[UserOf[k[1]]]
    BY <1>1, <2>1 DEF JobsOpen, JobOpen, Busy
  <2>3. CallJob' /\ Remain'
    BY <1>1, <1>2, <2>1, <2>2 DEF CallJob, Remain, RemainSteps, UserOfCall
  <2>4. JobsOpen'
    BY <1>2, <2>1, <2>2 DEF JobsOpen, JobOpen, jobVars
  <2> QED BY <1>1, <1>2, <1>3, <2>1, <2>3, <2>4, NobodyClears, ForgetsLeft
<1>7. ~DebouncerStops(d)
  BY DEF DebouncerStops
<1> QED BY <1>4, <1>5, <1>6, <1>7 DEF WorkerStep, ExecuteStep

-----------------------------------------------------------------------------
\* A step of Disconnect writes keys of its own user only.
LEMMA DisconnectSide ==
  ASSUME TypeInv, NEW d \in Callers, DisconnectStep(d), NEW u \in Users, u # UserOfCall(d)
  PROVE  SideLeft(u) /\ userSessions'[u] = userSessions[u]
<1>1. call[d].session \in Sessions /\ UserOfCall(d) \in Users
  BY StoreAssumption DEF TypeInv, CallTyped, Calls, UserOfCall
<1>2. SideLeft(u)
  <2> USE <1>1 DEF TypeInv, SideTyped, SideLeft
  <2>1. CASE DropInvisible(d) \/ DropDevices(d) \/ DecrementDevice(d)
    BY <2>1 DEF DropInvisible, DropDevices, DecrementDevice
  <2>2. CASE DropUserStates(d)
    BY <2>2 DEF DropUserStates, DropStates
  <2>3. CASE DeleteState(d) \/ SetLast(d)
    BY <2>3 DEF DeleteState, SetLast, UserOfCall
  <2>4. CASE GetMeta(d) \/ RunScript(d) \/ ReadStates(d) \/ ReadLast(d)
    BY <2>4 DEF GetMeta, RunScript, ReadStates, ReadLast, sideVars
  <2> QED BY <2>1, <2>2, <2>3, <2>4 DEF DisconnectStep
<1>3. userSessions'[u] = userSessions[u]
  <2>1. CASE RunScript(d)
    BY <1>1, <2>1 DEF RunScript, DisconnectScript, UserOfCall, TypeInv, StoreTypeOK
  <2>2. CASE ~RunScript(d)
    BY <2>2 DEF DisconnectStep, GetMeta, DropInvisible, DropDevices, DropUserStates, DecrementDevice,
                DeleteState, ReadStates, ReadLast, SetLast, storeVars
  <2> QED BY <2>1, <2>2
<1> QED BY <1>2, <1>3

\* The only worker is in Disconnect for one user: nothing is left to clear of another.
LEMMA OthersForgotten ==
  ASSUME ForgetInv, NEW d \in Debouncers, \A e \in Debouncers : e = d, DisconnectStep(d),
         NEW u \in Users, u # UserOfCall(d)
  PROVE  ForgetsOf(u)'
<1>1. d \in Callers
  BY EngineAssumption
<1>2. SideLeft(u) /\ userSessions'[u] = userSessions[u]
  BY <1>1, DisconnectSide DEF ForgetInv
<1>3. ~Clears(u, ForgetSteps)
  BY DEF Clears
<1> QED BY <1>2, <1>3, ForgetsLeft DEF ForgetInv

\* The script: the session was indexed, so the user goes offline or keeps a session.
LEMMA ScriptForgets ==
  ASSUME OneWorker, ForgetInv, NEW d \in Debouncers, RunScript(d), UNCHANGED <<jobVars, workerVars>>
  PROVE  CallJob' /\ JobsOpen' /\ Remain' /\ \A u \in Users : ForgetsOf(u)'
<1> USE EngineAssumption, StoreAssumption DEF ForgetInv, OneWorker
<1> DEFINE s == call[d].session
<1>1. d \in Callers /\ \A e \in Debouncers : e = d
  OBVIOUS
<1> PICK u \in Users : u = UserOfCall(d)
  BY <1>1 DEF TypeInv, CallTyped, Calls, UserOfCall
<1>2. /\ s \in Sessions /\ u = UserOf[s]
      /\ worker[d].at = "execute" /\ s = worker[d].job[1] /\ s \in userSessions[u]
  BY <1>1 DEF RunScript, TypeInv, CallTyped, Calls, UserOfCall, CallJob
<1>3. /\ userSessions' = [userSessions EXCEPT ![u] = DisconnectSet(s)]
      /\ call'[d].session = s /\ UNCHANGED sideVars
  BY <1>1, ScriptReplied DEF RunScript, DisconnectScript, UserOfCall, TypeInv
<1>4. /\ call'[d].at \in {"uninvis", "decdevice", "delstate"}
      /\ call'[d].at = "uninvis" <=> DisconnectSet(s) = {}
  <2>1. DisconnectSet(s) \subseteq Sessions
    BY <1>2 DEF DisconnectSet, TypeInv, StoreTypeOK
  <2>2. GoesOffline(s) <=> DisconnectSet(s) = {}
    BY <1>2, <2>1, FS_Subset, FS_EmptySet DEF GoesOffline, DisconnectRemoves
  <2> DEFINE step == IF GoesOffline(s) THEN "uninvis" ELSE IF call[d].device THEN "decdevice" ELSE "delstate"
  <2>3. call' = [call EXCEPT ![d].reply = DisconnectReply(s), ![d].at = step]
    BY DEF RunScript
  <2>4. step \in {"uninvis", "decdevice", "delstate"} /\ (step = "uninvis" <=> GoesOffline(s))
    OBVIOUS
  <2> HIDE DEF step
  <2>5. call'[d].at = step
    BY <1>1, <2>3 DEF TypeInv, CallTyped, Calls
  <2> QED BY <2>2, <2>4, <2>5
<1>5. CallJob'
  BY <1>1, <1>2, <1>3, <1>4 DEF CallJob, workerVars
<1>6. Remain'
  <2>1. call'[d].at \in RemainSteps => userSessions'[u] # {}
    BY <1>2, <1>3, <1>4 DEF RemainSteps, TypeInv, StoreTypeOK
  <2> QED BY <1>1, <1>2, <1>3, <2>1 DEF Remain, UserOfCall
<1>7. JobsOpen'
  <2> SUFFICES ASSUME NEW j \in jobQueue \cap jobMeta PROVE JobOpen(j)'
    BY DEF JobsOpen, jobVars
  <2>1. JobOpen(j) /\ j \in Sessions \X (1..1) /\ worker[d].job \in Sessions \X (1..1)
    BY DEF JobsOpen, TypeInv, DebouncerTypeOK, Jobs
  <2>2. CASE j[1] = s
    <3>1. j = worker[d].job
      BY <1>2, <2>1, <2>2
    <3> QED BY <1>2, <3>1 DEF JobOpen, Busy, workerVars
  <2>3. CASE j[1] # s
    <3>1. j[1] \in userSessions[UserOf[j[1]]] => j[1] \in userSessions'[UserOf[j[1]]]
      BY <1>2, <1>3, <2>1, <2>3 DEF DisconnectSet, TypeInv, StoreTypeOK
    <3> QED BY <2>1, <3>1 DEF JobOpen, workerVars
  <2> QED BY <2>2, <2>3
<1>8. ForgetsOf(u)'
  <2>1. CASE call'[d].at = "uninvis"
    <3>1. Clears(u, {"uninvis"})' /\ Clears(u, {"uninvis", "deldevices"})' /\ Clears(u, ForgetSteps)'
      BY <1>2, <1>3, <2>1 DEF Clears, ForgetSteps, UserOfCall
    <3> QED BY <3>1 DEF ForgetsOf
  <2>2. CASE call'[d].at # "uninvis"
    <3>1. userSessions'[u] # {}
      BY <1>2, <1>3, <1>4, <2>2 DEF TypeInv, StoreTypeOK
    <3> QED BY <3>1 DEF ForgetsOf
  <2> QED BY <2>1, <2>2
<1>9. \A w \in Users : ForgetsOf(w)'
  BY <1>1, <1>8, OthersForgotten DEF DisconnectStep
<1> QED BY <1>5, <1>6, <1>7, <1>9

\* After the script: each key is cleared while nothing but the next one is awaited.
LEMMA ClearedForgets ==
  ASSUME OneWorker, ForgetInv, NEW d \in Debouncers, DisconnectStep(d), ~RunScript(d),
         NEW u \in Users, u = UserOfCall(d)
  PROVE  ForgetsOf(u)'
<1> USE EngineAssumption DEF ForgetInv, OneWorker
<1>1. d \in Callers /\ (\A e \in Debouncers : e = d) /\ UserOfCall(d)' = u /\ ForgetsOf(u)
  BY ReplyKept DEF UserOfCall, TypeInv
<1>2. \A steps : /\ Clears(u, steps) <=> call[d].at \in steps
                 /\ Clears(u, steps)' <=> call'[d].at \in steps
  BY <1>1 DEF Clears
<1>3. UNCHANGED userSessions
  BY DEF DisconnectStep, GetMeta, DropInvisible, DropDevices, DropUserStates, DecrementDevice,
         DeleteState, ReadStates, ReadLast, SetLast, storeVars
<1>4. CASE userSessions[u] # {}
  BY <1>3, <1>4 DEF ForgetsOf
<1>5. CASE userSessions[u] = {}
  <2>1. call[d].at \notin RemainSteps /\ call[d].at # "get"
    BY <1>1, <1>5 DEF Remain, CallJob
  <2>2. CASE DropInvisible(d)
    <3>1. /\ call[d].at = "uninvis" /\ call'[d].at = "deldevices"
          /\ u \notin invisibleUsers' /\ UNCHANGED <<userDevices, sessionStates, lastPub>>
      BY <1>1, <2>2 DEF DropInvisible, Goto, TypeInv, CallTyped
    <3> QED BY <1>1, <1>2, <1>5, <3>1 DEF ForgetsOf, ForgetSteps
  <2>3. CASE DropDevices(d)
    <3>1. /\ call[d].at = "deldevices" /\ call'[d].at = "delstates"
          /\ userDevices'[u] = 0 /\ UNCHANGED <<invisibleUsers, sessionStates, lastPub>>
      BY <1>1, <2>3 DEF DropDevices, Goto, TypeInv, CallTyped, SideTyped
    <3> QED BY <1>1, <1>2, <1>5, <3>1 DEF ForgetsOf, ForgetSteps
  <2>4. CASE DropUserStates(d)
    <3>1. /\ call[d].at = "delstates" /\ UNCHANGED <<invisibleUsers, userDevices>>
          /\ lastPub'[u] = NoState /\ \A s \in Sessions : UserOf[s] = u => sessionStates'[s] = NoState
      BY <1>1, <2>4 DEF DropUserStates, DropStates, Goto, TypeInv, SideTyped
    <3> QED BY <1>1, <1>2, <1>5, <3>1 DEF ForgetsOf
  <2>5. DropInvisible(d) \/ DropDevices(d) \/ DropUserStates(d)
    BY <2>1 DEF DisconnectStep, GetMeta, DecrementDevice, DeleteState, ReadStates, ReadLast, SetLast, Goto, RemainSteps
  <2> QED BY <2>2, <2>3, <2>4, <2>5
<1> QED BY <1>4, <1>5

LEMMA AfterScriptForgets ==
  ASSUME OneWorker, ForgetInv, NEW d \in Debouncers, DisconnectStep(d), ~RunScript(d),
         UNCHANGED <<jobVars, workerVars>>
  PROVE  CallJob' /\ JobsOpen' /\ Remain' /\ \A u \in Users : ForgetsOf(u)'
<1> USE EngineAssumption DEF ForgetInv, OneWorker
<1>1. /\ d \in Callers /\ (\A e \in Debouncers : e = d)
      /\ call'[d].session = call[d].session /\ UserOfCall(d)' = UserOfCall(d)
      /\ call[d].at \notin {"none", "returned"}
      /\ call'[d].at \in {"get", "script"} => call[d].at \in {"get", "script"}
  BY ReplyKept DEF UserOfCall, TypeInv
<1>2. UNCHANGED userSessions
  BY DEF DisconnectStep, GetMeta, DropInvisible, DropDevices, DropUserStates, DecrementDevice,
         DeleteState, ReadStates, ReadLast, SetLast, storeVars
<1>3. CallJob'
  BY <1>1, <1>2 DEF CallJob, workerVars
<1>4. JobsOpen'
  BY <1>2, JobsRemain DEF jobVars, workerVars
<1>5. Remain'
  <2>1. call'[d].at \in RemainSteps => call[d].at \in RemainSteps
    <3> USE <1>1 DEF RemainSteps, TypeInv, CallTyped, Calls
    <3>1. CASE GetMeta(d) \/ ReadStates(d) \/ ReadLast(d)
      BY <3>1 DEF GetMeta, ReadStates, ReadLast
    <3>2. CASE DropInvisible(d) \/ DropDevices(d) \/ DropUserStates(d)
      BY <3>2 DEF DropInvisible, DropDevices, DropUserStates, Goto
    <3>3. CASE DecrementDevice(d) \/ DeleteState(d) \/ SetLast(d)
      BY <3>3 DEF DecrementDevice, DeleteState, SetLast, Goto
    <3> QED BY <3>1, <3>2, <3>3 DEF DisconnectStep
  <2> QED BY <1>1, <1>2, <2>1 DEF Remain
<1>6. \A u \in Users : ForgetsOf(u)'
  BY <1>1, ClearedForgets, OthersForgotten
<1> QED BY <1>3, <1>4, <1>5, <1>6

-----------------------------------------------------------------------------
LEMMA ForgetInductive ==
  ASSUME OneWorker, TellInv, ForgetInv, [Next]_vars PROVE ForgetInv'
<1> USE DEF OneWorker
<1>1. TypeInv' /\ UpInv'
  BY TypeInductive, UpInductive DEF ForgetInv, TellInv
<1>2. CASE ByGateway(GatewayNext)
  BY <1>1, <1>2, GatewayForgets DEF ForgetInv
<1>3. ASSUME NEW d \in Debouncers, WorkerStep(d) PROVE ForgetInv'
  <2>1. CASE DisconnectStep(d)
    <3>1. UNCHANGED <<jobVars, workerVars>>
      <4>1. call[d].at \notin {"none", "returned"}
        BY <2>1 DEF DisconnectStep, GetMeta, RunScript, DropInvisible, DropDevices, DropUserStates, DecrementDevice,
                    DeleteState, ReadStates, ReadLast, SetLast, Goto
      <4>2. worker[d].at = "execute"
        BY <4>1 DEF ForgetInv, CallJob
      <4> QED BY <1>3, <4>1, <4>2 DEF WorkerStep, ExecuteStep, EnterScope, LeaveScope, TakeJob, DropOrphan,
                    RecordTransition, AnnounceJob, AnnouncePresence, FinishJob, DebouncerStops, WorkerGoto
    <3> QED BY <1>1, <2>1, <3>1, ScriptForgets, AfterScriptForgets DEF ForgetInv
  <2>2. CASE ~DisconnectStep(d)
    BY <1>1, <1>3, <2>2, WorkerAround DEF ForgetInv
  <2> QED BY <2>1, <2>2
<1>4. CASE \/ \E j \in Jobs : JobExpires(j)
           \/ \E u \in Users : WindowPasses(u)
           \/ ExpiryNext
           \/ UNCHANGED vars
  <2>1. /\ UNCHANGED <<call, worker, userSessions, sideVars>>
        /\ jobQueue' \cap jobMeta' \subseteq jobQueue \cap jobMeta
    BY <1>4 DEF JobExpires, WindowPasses, ExpiryNext, Expire, Age, vars, serviceVars, storeVars, debouncerVars,
                jobVars, workerVars
  <2>2. CallJob' /\ Remain' /\ JobsOpen'
    BY <2>1, JobsRemain DEF ForgetInv, CallJob, Remain, UserOfCall
  <2>3. \A u \in Users : ForgetsOf(u)'
    BY <2>1, ForgetsLeft DEF ForgetInv, SideLeft, sideVars
  <2> QED BY <1>1, <2>2, <2>3 DEF ForgetInv
<1>5. ~BySweeper(SweeperNext) /\ ~ByApi(ApiNext)
  BY DEF NoCleaners, BySweeper, SweeperNext, ByApi, ApiNext
<1>6. ByDebouncer(DebouncerNext) => \/ \E d \in Debouncers : WorkerStep(d)
                                    \/ \E j \in Jobs : JobExpires(j)
                                    \/ \E u \in Users : WindowPasses(u)
  BY DEF ByDebouncer, DebouncerNext, WorkerStep
<1> QED BY <1>2, <1>3, <1>4, <1>5, <1>6 DEF Next

LEMMA ForgetInitial == Init => ForgetInv
<1> SUFFICES ASSUME Init PROVE ForgetInv
  OBVIOUS
<1>1. \A d \in Debouncers : call[d].at = "none" /\ worker[d].at = "idle"
  BY EngineAssumption DEF Init, ServiceInit, DebouncerInit, NoCall, IdleWorker
<1>2. CallJob /\ Remain /\ JobsOpen
  BY <1>1 DEF CallJob, Remain, RemainSteps, JobsOpen, Init, DebouncerInit
<1>3. \A u \in Users : ForgetsOf(u)
  BY DEF Init, ServiceInit, ForgetsOf
<1> QED BY <1>2, <1>3, TypeInitial, UpInitial DEF ForgetInv

\* Whatever a user without sessions has left is still to be cleared by the job that
\* took it offline, though new sessions register at any time in between.
THEOREM ForgetInvariant == OneWorker => (Spec => []ForgetInv)
<1> SUFFICES ASSUME OneWorker PROVE Spec => []ForgetInv
  OBVIOUS
<1>1. TellInv /\ ForgetInv /\ [Next]_vars => ForgetInv'
  BY ForgetInductive
<1>2. Spec => []TellInv
  BY TellInvariant DEF OneWorker
<1> QED BY <1>1, <1>2, ForgetInitial, PTL DEF Spec

\* OfflineForgotten: once nothing is under way, a user without sessions is not marked
\* invisible, has no device counted, no state and no last published state, although the
\* Disconnect that took it offline clears them in three round trips of their own.
THEOREM OfflineAlwaysForgotten == OneWorker => (Spec => []OfflineForgotten)
<1> SUFFICES ASSUME OneWorker PROVE Spec => []OfflineForgotten
  OBVIOUS
<1>1. ForgetInv => OfflineForgotten
  <2> SUFFICES ASSUME ForgetInv, Quiet, NEW u \in Users, userSessions[u] = {}
               PROVE  /\ u \notin invisibleUsers /\ userDevices[u] = 0 /\ lastPub[u] = NoState
                      /\ \A s \in Sessions : UserOf[s] = u => sessionStates[s] = NoState
    BY DEF OfflineForgotten
  <2>1. ~Clears(u, {"uninvis"}) /\ ~Clears(u, {"uninvis", "deldevices"}) /\ ~Clears(u, ForgetSteps)
    BY DEF Quiet, ForgetInv, CallJob, Clears, ForgetSteps
  <2> QED BY <2>1 DEF ForgetInv, ForgetsOf
<1> QED BY <1>1, ForgetInvariant, PTL

-----------------------------------------------------------------------------
(***************************************************************************)
(* The jobs of connections that are over.  A session stays indexed after   *)
(* its connection only while a job waits that will take it out: a worker   *)
(* that gives the job up has run the script for it, and what the script    *)
(* took out only a new connection could put back.  That holds with any     *)
(* number of connections under one session id, since a job is about a      *)
(* connection that is over (Ended) and a new one makes it a job about an   *)
(* earlier one.                                                            *)
(***************************************************************************)
\* No gateway dies and no job outlives its metadata: what else would take the
\* session out is the sweeper.
JobsStay == {"gateway_stops", "job_expires"} \cap Faults = {}

\* The connection job j is about is over.
Ended(j) == j[2] <= made[j[1]] /\ (j[2] = made[j[1]] => conn[j[1]].at = "idle")

JobsEnded == /\ \A j \in jobQueue \cap jobMeta : Ended(j)
             /\ \A d \in Debouncers : worker[d].at \in Busy => Ended(worker[d].job)

\* Worker d has run the script for the job it executes.
RanScript(d) == \/ worker[d].at \in Busy \ {"execute"}
                \/ worker[d].at = "execute" /\ call[d].at \notin {"get", "script"}

\* A job whose script has run has removed the session of the connection it is about.
Gone(j) == j[2] = made[j[1]] => j[1] \notin userSessions[UserOf[j[1]]]

CallOfJob == \A d \in Debouncers : worker[d].at = "execute" => call[d].session = worker[d].job[1]

RanGone == \A d \in Debouncers : RanScript(d) => Gone(worker[d].job)

\* The session of a connection that is over leaves the index or has a job.
Waits(s) == conn[s].at = "idle" /\ s \in userSessions[UserOf[s]] => <<s, made[s]>> \in jobQueue \cap jobMeta

EndedInv == TypeInv /\ JobsEnded /\ CallOfJob /\ RanGone /\ \A s \in Sessions : Waits(s)

-----------------------------------------------------------------------------
LEMMA EndedKept ==
  ASSUME ConnTyped, MadeTyped, GatewayNext, NEW j \in Jobs, Ended(j)
  PROVE  Ended(j)' /\ (j[2] = made'[j[1]] => j[2] = made[j[1]])
<1> USE EngineAssumption DEF MadeTyped
<1> PICK s \in Sessions : Moves(s) /\ \A t \in Sessions \ {s} : conn'[t] = conn[t]
  BY ConnMoves
<1> PICK t \in Sessions, n \in Nat : t = j[1] /\ n = j[2]
  BY DEF Jobs
<1> PICK old \in Nat : old = made[t]
  OBVIOUS
<1>1. CASE s = t /\ conn[s].at = "idle"
  <2>1. made'[t] = old + 1
    BY <1>1 DEF Moves, ConnectSession
  <2> QED BY <2>1 DEF Ended
<1>2. CASE s = t /\ conn[s].at # "idle"
  <2>1. made'[t] = old /\ n <= old /\ n # old
    BY <1>2 DEF Moves, Ended
  <2> QED BY <2>1 DEF Ended
<1>3. CASE s # t
  <2>1. made'[t] = old /\ conn'[t] = conn[t]
    BY <1>3 DEF Moves
  <2> QED BY <2>1 DEF Ended
<1> QED BY <1>1, <1>2, <1>3

\* A session enters the index when its connection registers.
LEMMA GatewayRegisters ==
  ASSUME StoreTypeOK, ConnTyped, GatewayNext, NEW t \in Sessions,
         t \in userSessions'[UserOf[t]], t \notin userSessions[UserOf[t]]
  PROVE  conn'[t].at # "idle"
<1> USE StoreAssumption
<1> PICK s \in Sessions :
      \/ Dial(s) \/ ConnectStep(s) \/ Heartbeat(s)
      \/ \E state \in PresenceStates : SetState(s, state)
      \/ StateStep(s) \/ LoseConnection(s) \/ Schedule(s) \/ GatewayStops(s)
  BY DEF GatewayNext
<1>1. CASE ConnectSession(s)
  <2>1. s = t
    BY <1>1 DEF ConnectSession, ConnectScript, ConnectSet, StoreTypeOK
  <2>2. PICK reply \in {ConnectReply(s), [ConnectReply(s) EXCEPT !.transition = "invisible"]} :
          conn' = [conn EXCEPT
            ![s].at = IF s \in Invisible THEN "hide" ELSE IF s \in Typed THEN "device" ELSE "initstate",
            ![s].reply = reply]
    BY <1>1, Zenon DEF ConnectSession
  <2> QED BY <2>1, <2>2 DEF ConnTyped, Conns
<1>2. CASE ~ConnectSession(s)
  <2>1. UNCHANGED userSessions
    BY <1>2 DEF ConnectStep, Hide, CountDevice, InitState, InitLast, ReadAggregate, AnnounceConnect, Dial,
          Heartbeat, HeartbeatScript, SetState, StateStep, WriteState, ReadAllStates, CompareLast, CommitLast,
          CommitVersion, CountTabs, TellState, LoseConnection, Schedule, GatewayStops, serviceVars, storeVars
  <2> QED BY <2>1
<1> QED BY <1>1, <1>2

\* A connection that comes to its end schedules its job; jobs of others stay.
LEMMA GatewaySchedules ==
  ASSUME ConnTyped, MadeTyped, GatewayNext, "gateway_stops" \notin Faults, NEW t \in Sessions, conn'[t].at = "idle"
  PROVE  /\ made'[t] = made[t]
         /\ \/ <<t, made[t]>> \in jobQueue' \cap jobMeta'
            \/ /\ conn[t].at = "idle"
               /\ <<t, made[t]>> \notin jobQueue \cap jobMeta
<1> USE DEF ConnTyped, Conns, ConnSteps, MadeTyped
<1> PICK s \in Sessions :
      \/ Dial(s) \/ ConnectStep(s) \/ Heartbeat(s)
      \/ \E state \in PresenceStates : SetState(s, state)
      \/ StateStep(s) \/ LoseConnection(s) \/ Schedule(s) \/ GatewayStops(s)
  BY DEF GatewayNext
<1>1. CASE Dial(s)
  <2>1. s # t /\ made'[t] = made[t] /\ conn'[t] = conn[t]
    BY <1>1 DEF Dial, ConnGoto
  <2>2. <<t, made[t]>>[1] # s
    BY <2>1
  <2>3. <<t, made[t]>> \in jobQueue \cap jobMeta => <<t, made[t]>> \in jobQueue' \cap jobMeta'
    BY <1>1, <2>2 DEF Dial, CancelDisconnect
  <2> QED BY <2>1, <2>3
<1>2. CASE Schedule(s)
  <2>1. made' = made /\ (t = s \/ conn'[t] = conn[t])
    BY <1>2 DEF Schedule
  <2>2. t = s => <<t, made[t]>> \in jobQueue' \cap jobMeta'
    BY <1>2 DEF Schedule, ScheduleDisconnect
  <2>3. jobQueue \cap jobMeta \subseteq jobQueue' \cap jobMeta'
    BY <1>2 DEF Schedule, ScheduleDisconnect
  <2> QED BY <2>1, <2>2, <2>3
<1>3. CASE ~Dial(s) /\ ~Schedule(s)
  <2>1. made' = made /\ UNCHANGED jobVars
    BY <1>3 DEF ConnectStep, ConnectSession, Hide, CountDevice, InitState, InitLast, ReadAggregate,
          AnnounceConnect, Heartbeat, SetState, StateStep, WriteState, ReadAllStates, CompareLast, CommitLast,
          CommitVersion, CountTabs, TellState, LoseConnection, GatewayStops
  <2>2. conn'[t] = conn[t]
    <3>1. CASE ConnectSession(s)
      <4>1. PICK reply \in {ConnectReply(s), [ConnectReply(s) EXCEPT !.transition = "invisible"]} :
              conn' = [conn EXCEPT
                ![s].at = IF s \in Invisible THEN "hide" ELSE IF s \in Typed THEN "device" ELSE "initstate",
                ![s].reply = reply]
        BY <3>1, Zenon DEF ConnectSession
      <4> QED BY <4>1
    <3>2. CASE Hide(s) \/ CountDevice(s) \/ InitState(s) \/ InitLast(s) \/ ReadAggregate(s)
      BY <3>2 DEF Hide, CountDevice, InitState, InitLast, ReadAggregate, ConnGoto
    <3>3. CASE AnnounceConnect(s) \/ TellState(s)
      BY <3>3 DEF AnnounceConnect, TellState, Up, NoConn
    <3>4. CASE WriteState(s) \/ ReadAllStates(s) \/ CompareLast(s) \/ CommitLast(s)
      BY <3>4 DEF WriteState, ReadAllStates, CompareLast, CommitLast, ConnGoto, Up, NoConn
    <3>5. CASE CommitVersion(s) \/ CountTabs(s)
      BY <3>5 DEF CommitVersion, CountTabs
    <3>6. CASE Heartbeat(s) \/ LoseConnection(s)
      BY <3>6 DEF Heartbeat, LoseConnection, ConnGoto
    <3>7. CASE \E state \in PresenceStates : SetState(s, state)
      BY <3>7 DEF SetState
    <3>8. ~GatewayStops(s)
      BY DEF GatewayStops
    <3> QED BY <1>3, <3>1, <3>2, <3>3, <3>4, <3>5, <3>6, <3>7, <3>8 DEF ConnectStep, StateStep
  <2> QED BY <2>1, <2>2 DEF jobVars
<1> QED BY <1>1, <1>2, <1>3

\* A job that was not there before is about the connection that has just ended.
LEMMA GatewayJobsNew ==
  ASSUME GatewayNext, NEW j \in jobQueue' \cap jobMeta', j \notin jobQueue \cap jobMeta
  PROVE  \E s \in Sessions : j = <<s, made[s]>> /\ conn' = [conn EXCEPT ![s] = NoConn] /\ made' = made
<1> PICK s \in Sessions :
      \/ Dial(s) \/ ConnectStep(s) \/ Heartbeat(s)
      \/ \E state \in PresenceStates : SetState(s, state)
      \/ StateStep(s) \/ LoseConnection(s) \/ Schedule(s) \/ GatewayStops(s)
  BY DEF GatewayNext
<1> DEFINE new == <<s, made[s]>>
<1>1. CASE Schedule(s)
  <2>1. ScheduleDisconnect(new) /\ conn' = [conn EXCEPT ![s] = NoConn] /\ made' = made
    BY <1>1 DEF Schedule
  <2>2. jobQueue' = jobQueue \cup {new} /\ jobMeta' = jobMeta \cup {new}
    BY <2>1 DEF ScheduleDisconnect
  <2> HIDE DEF new
  <2>3. j = new
    BY <2>2
  <2> QED BY <2>1, <2>3 DEF new
<1>2. CASE Dial(s)
  BY <1>2 DEF Dial, CancelDisconnect
<1>3. CASE ~Schedule(s) /\ ~Dial(s)
  <2>1. UNCHANGED jobVars
    BY <1>3 DEF ConnectStep, ConnectSession, Hide, CountDevice, InitState, InitLast, ReadAggregate,
          AnnounceConnect, Heartbeat, SetState, StateStep, WriteState, ReadAllStates, CompareLast, CommitLast,
          CommitVersion, CountTabs, TellState, LoseConnection, GatewayStops
  <2> QED BY <2>1 DEF jobVars
<1> QED BY <1>1, <1>2, <1>3

LEMMA GatewayEnded ==
  ASSUME JobsStay, EndedInv, TypeInv', ByGateway(GatewayNext) PROVE EndedInv'
<1> USE DEF EndedInv
<1>1. /\ GatewayNext /\ UNCHANGED <<call, worker>> /\ "gateway_stops" \notin Faults
      /\ StoreTypeOK /\ ConnTyped /\ MadeTyped
  BY GatewayLeavesCalls, GatewayLeavesWorkers DEF ByGateway, workerVars, JobsStay, TypeInv
<1>2. /\ jobQueue \cap jobMeta \subseteq Jobs
      /\ \A d \in Debouncers : worker[d].job \in Jobs
  BY DEF TypeInv, DebouncerTypeOK
<1>3. JobsEnded'
  <2>1. ASSUME NEW j \in jobQueue' \cap jobMeta', j \notin jobQueue \cap jobMeta PROVE Ended(j)'
    <3> PICK s \in Sessions : j = <<s, made[s]>> /\ conn' = [conn EXCEPT ![s] = NoConn] /\ made' = made
      BY <1>1, <2>1, GatewayJobsNew
    <3> PICK n \in Nat : n = made[s]
      BY <1>1, EngineAssumption DEF MadeTyped
    <3>1. conn'[s].at = "idle"
      BY <1>1 DEF ConnTyped, NoConn
    <3> QED BY <3>1 DEF Ended
  <2>2. \A j \in jobQueue \cap jobMeta : Ended(j)'
    BY <1>1, <1>2, EndedKept DEF JobsEnded
  <2>3. \A d \in Debouncers : worker'[d].at \in Busy => Ended(worker[d].job)'
    BY <1>1, <1>2, EndedKept DEF JobsEnded
  <2> QED BY <2>1, <2>2, <2>3 DEF JobsEnded
<1>4. CallOfJob'
  BY <1>1 DEF CallOfJob
<1>5. RanGone'
  <2> SUFFICES ASSUME NEW d \in Debouncers, RanScript(d)' PROVE Gone(worker[d].job)'
    BY <1>1 DEF RanGone, Gone
  <2> PICK j \in Jobs : j = worker[d].job
    BY <1>2
  <2> PICK s \in Sessions : s = j[1]
    BY DEF Jobs
  <2>1. Ended(j) /\ Gone(j)
    BY <1>1 DEF RanScript, Busy, RanGone, JobsEnded
  <2> SUFFICES ASSUME j[2] = made'[s] PROVE s \notin userSessions'[UserOf[s]]
    BY <1>1 DEF Gone
  <2>2. j[2] = made[s] /\ conn'[s].at = "idle"
    BY <1>1, <2>1, EndedKept DEF Ended
  <2>3. s \notin userSessions[UserOf[s]]
    BY <2>1, <2>2 DEF Gone
  <2> QED BY <1>1, <2>2, <2>3, GatewayRegisters
<1>6. ASSUME NEW s \in Sessions PROVE Waits(s)'
  <2> SUFFICES ASSUME conn'[s].at = "idle", s \in userSessions'[UserOf[s]]
               PROVE  <<s, made'[s]>> \in jobQueue' \cap jobMeta'
    BY DEF Waits
  <2>1. s \in userSessions[UserOf[s]]
    BY <1>1, GatewayRegisters
  <2> QED BY <1>1, <2>1, GatewaySchedules DEF Waits
<1> QED BY <1>3, <1>4, <1>5, <1>6

-----------------------------------------------------------------------------
\* Everyone else only takes sessions out of the index.
Shrinks == \A s \in Sessions : s \in userSessions'[UserOf[s]] => s \in userSessions[UserOf[s]]

LEMMA ScriptShrinks == ASSUME StoreTypeOK, NEW s \in Sessions, DisconnectScript(s) PROVE Shrinks
BY StoreAssumption DEF StoreTypeOK, DisconnectScript, DisconnectSet, Shrinks

LEMMA SweeperShrinks ==
  ASSUME StoreTypeOK, SweeperTypeOK, SweeperNext PROVE Shrinks /\ UNCHANGED call
<1> PICK w \in Sweepers : \/ StartSweep(w) \/ PauseSweep(w)
                          \/ SweepScopeStep(w) \/ SweepUserStep(w)
                          \/ SweeperStops(w)
  BY DEF SweeperNext
<1>1. UNCHANGED call
  BY DEF StartSweep, PauseSweep, SweeperStops, SweepScopeStep, Scan, EndBatch, CheckEmpty, Delist, SweepUser,
         SweepUserStep, CheckSession, Prune, PruneState, CountRemaining, TakeOffline, SweepIncr, TellOffline,
         DeleteStates, SweepAggregate, SweepLast, TellTabs, serviceVars
<1>2. CASE Prune(w)
  BY <1>2, StoreAssumption DEF Prune, SweeperTypeOK, StoreTypeOK, Shrinks
<1>3. CASE ~Prune(w)
  <2>1. UNCHANGED userSessions
    BY <1>3 DEF StartSweep, PauseSweep, SweeperStops, SweepScopeStep, Scan, EndBatch, CheckEmpty, Delist, SweepUser,
         SweepUserStep, CheckSession, PruneState, CountRemaining, TakeOffline, SweepIncr, TellOffline,
         DeleteStates, SweepAggregate, SweepLast, TellTabs, serviceVars, storeVars
  <2> QED BY <1>1, <2>1 DEF Shrinks
<1> QED BY <1>1, <1>2, <1>3

LEMMA OthersEnded ==
  ASSUME EndedInv, TypeInv', Shrinks, UNCHANGED <<gatewayVars, jobVars, worker>>,
         \A d \in Debouncers : call'[d] = call[d]
  PROVE  EndedInv'
<1> USE DEF EndedInv, gatewayVars, jobVars
<1>1. \A j : Ended(j)' <=> Ended(j)
  BY DEF Ended
<1>2. JobsEnded'
  BY <1>1 DEF JobsEnded, Ended
<1>3. CallOfJob'
  BY DEF CallOfJob
<1>4. RanGone'
  <2> SUFFICES ASSUME NEW d \in Debouncers, RanScript(d)' PROVE Gone(worker[d].job)'
    BY DEF RanGone, Gone
  <2> PICK j \in Jobs : j = worker[d].job
    BY DEF TypeInv, DebouncerTypeOK
  <2>1. Gone(j) /\ j[1] \in Sessions
    BY DEF RanScript, RanGone, Jobs
  <2> QED BY <2>1 DEF Gone, Shrinks
<1>5. \A s \in Sessions : Waits(s)'
  BY DEF Waits, Shrinks
<1> QED BY <1>2, <1>3, <1>4, <1>5

-----------------------------------------------------------------------------
\* What is to be shown of a step of worker d.
LEMMA WorkerEnded ==
  ASSUME EndedInv, TypeInv', NEW d \in Debouncers, WorkerStep(d), UNCHANGED gatewayVars, Shrinks,
         jobQueue' \cap jobMeta' \subseteq jobQueue \cap jobMeta,
         worker'[d].at \in Busy => Ended(worker'[d].job),
         worker'[d].at = "execute" => call'[d].session = worker'[d].job[1],
         RanScript(d)' => Gone(worker[d].job)',
         \A s \in Sessions : Waits(s)'
  PROVE  EndedInv'
<1> USE DEF EndedInv, gatewayVars
<1>1. \A e \in Debouncers \ {d} : worker'[e] = worker[e] /\ call'[e] = call[e]
  BY WorkersApart DEF TypeInv
<1>2. JobsEnded'
  <2>1. \A j : Ended(j) => Ended(j)'
    BY DEF Ended
  <2>2. \A e \in Debouncers : worker'[e].at \in Busy => Ended(worker'[e].job)
    BY <1>1 DEF JobsEnded
  <2>3. \A e \in Debouncers : worker'[e].at \in Busy => Ended(worker[e].job)'
    BY <2>2 DEF Ended
  <2>4. \A j \in jobQueue' \cap jobMeta' : Ended(j)'
    BY <2>1 DEF JobsEnded
  <2> QED BY <2>3, <2>4 DEF JobsEnded
<1>3. CallOfJob'
  BY <1>1 DEF CallOfJob
<1>4. RanGone'
  <2> SUFFICES ASSUME NEW e \in Debouncers, e # d, RanScript(e)' PROVE Gone(worker[e].job)'
    BY DEF RanGone
  <2> PICK j \in Jobs : j = worker[e].job /\ worker'[e].job = j
    BY <1>1 DEF TypeInv, DebouncerTypeOK
  <2>1. Gone(j) /\ j[1] \in Sessions
    BY <1>1 DEF RanScript, RanGone, Jobs
  <2> QED BY <2>1 DEF Gone, Shrinks
<1> QED BY <1>2, <1>3, <1>4

\* Nothing of Disconnect runs before the script but the GET.
LEMMA BeforeScript ==
  ASSUME CallTyped, NEW c \in Callers, DisconnectStep(c), ~RunScript(c), call[c].at \in {"get", "script"}
  PROVE  call'[c].at = "script"
<1>1. GetMeta(c)
  BY DEF DisconnectStep, RunScript, GetMeta, DropInvisible, DropDevices, DropUserStates, DecrementDevice,
         DeleteState, ReadStates, ReadLast, SetLast, Goto
<1> QED BY <1>1 DEF GetMeta, CallTyped, Calls

LEMMA WorkerStays ==
  ASSUME JobsStay, EndedInv, TypeInv', NEW d \in Debouncers, WorkerStep(d), UNCHANGED gatewayVars
  PROVE  EndedInv'
<1> USE EngineAssumption DEF EndedInv
<1>1. /\ d \in Callers /\ StoreTypeOK /\ CallTyped /\ DebouncerTypeOK
      /\ call[d].session \in Sessions /\ worker[d].job \in Jobs /\ worker[d].job[1] \in Sessions
  BY DEF TypeInv, CallTyped, Calls, DebouncerTypeOK, Jobs
<1>2. /\ worker[d].at \in Busy => Ended(worker[d].job)
      /\ worker[d].at = "execute" => call[d].session = worker[d].job[1]
      /\ RanScript(d) => Gone(worker[d].job)
  BY DEF JobsEnded, CallOfJob, RanGone
<1>3. ASSUME UNCHANGED userSessions
      PROVE  /\ Shrinks
             /\ RanScript(d) /\ worker'[d].job = worker[d].job => Gone(worker[d].job)'
             /\ UNCHANGED jobVars => \A s \in Sessions : Waits(s)'
  <2>1. Shrinks
    BY <1>3 DEF Shrinks
  <2>2. RanScript(d) /\ worker'[d].job = worker[d].job => Gone(worker[d].job)'
    BY <1>2, <1>3 DEF Gone, gatewayVars
  <2>3. UNCHANGED jobVars => \A s \in Sessions : Waits(s)'
    BY <1>3 DEF Waits, gatewayVars, jobVars
  <2> QED BY <2>1, <2>2, <2>3
<1>4. CASE DisconnectStep(d) /\ UNCHANGED <<jobVars, workerVars>>
  <2>1. /\ call'[d].session = call[d].session /\ UNCHANGED <<worker, jobVars>>
        /\ RanScript(d)' => RanScript(d) \/ RunScript(d)
    BY <1>1, <1>4, ReplyKept, ScriptReplied, BeforeScript DEF workerVars, RanScript
  <2>2. CASE RunScript(d)
    <3> PICK s \in Sessions : s = call[d].session
      BY <1>1
    <3>1. DisconnectScript(s)
      BY <2>2 DEF RunScript
    <3>2. Shrinks /\ s \notin userSessions'[UserOf[s]]
      BY <1>1, <3>1, ScriptShrinks, StoreAssumption DEF DisconnectScript, DisconnectSet, StoreTypeOK
    <3>3. RanScript(d)' => Gone(worker[d].job)'
      <4>1. CASE worker[d].at = "execute"
        BY <1>2, <2>1, <3>2, <4>1 DEF Gone
      <4>2. CASE worker[d].at # "execute"
        <5>1. RanScript(d)' => Gone(worker[d].job)
          BY <1>2, <2>1, <4>2 DEF RanScript
        <5> QED BY <1>1, <2>1, <3>2, <5>1 DEF Gone, Shrinks, gatewayVars
      <4> QED BY <4>1, <4>2
    <3>4. \A t \in Sessions : Waits(t)'
      BY <2>1, <3>2 DEF Waits, Shrinks, gatewayVars, jobVars
    <3> QED BY <1>2, <2>1, <3>2, <3>3, <3>4, WorkerEnded DEF jobVars
  <2>3. CASE ~RunScript(d)
    <3>1. UNCHANGED userSessions
      BY <1>4, <2>3 DEF DisconnectStep, GetMeta, DropInvisible, DropDevices, DropUserStates, DecrementDevice,
                  DeleteState, ReadStates, ReadLast, SetLast, storeVars
    <3> QED BY <1>2, <1>3, <2>1, <2>3, <3>1, WorkerEnded DEF jobVars
  <2> QED BY <2>2, <2>3
<1>5. CASE RecordTransition(d) \/ AnnounceJob(d) \/ AnnouncePresence(d) \/ EnterScope(d) \/ LeaveScope(d)
           \/ (\E j \in Jobs : DropOrphan(d, j)) \/ DebouncerStops(d)
  <2>1. /\ jobQueue' \cap jobMeta' = jobQueue \cap jobMeta /\ UNCHANGED userSessions
    BY <1>5 DEF RecordTransition, AnnounceJob, AnnouncePresence, EnterScope, LeaveScope, DropOrphan,
                DebouncerStops, serviceVars, storeVars, jobVars
  <2>2. /\ worker'[d].at # "execute"
        /\ worker'[d].at \in Busy => RanScript(d) /\ worker'[d].job = worker[d].job
    <3> USE <1>1 DEF DebouncerTypeOK, Busy, RanScript
    <3>1. CASE RecordTransition(d)
      BY <3>1 DEF RecordTransition
    <3>2. CASE AnnounceJob(d) \/ AnnouncePresence(d)
      BY <3>2 DEF AnnounceJob, AnnouncePresence, WorkerGoto, AfterAnnounce
    <3>3. CASE EnterScope(d) \/ LeaveScope(d) \/ DebouncerStops(d)
      BY <3>3 DEF EnterScope, LeaveScope, DebouncerStops, WorkerGoto, IdleWorker
    <3>4. CASE \E j \in Jobs : DropOrphan(d, j)
      BY <3>4 DEF DropOrphan, workerVars
    <3> QED BY <1>5, <3>1, <3>2, <3>3, <3>4
  <2>3. /\ RanScript(d)' => worker'[d].at \in Busy
        /\ RanScript(d) => worker[d].at \in Busy
    BY DEF RanScript, Busy
  <2>4. \A s \in Sessions : Waits(s)'
    BY <2>1 DEF Waits, gatewayVars
  <2> QED BY <1>2, <1>3, <2>1, <2>2, <2>3, <2>4, WorkerEnded
<1>6. CASE FinishJob(d)
  <2> PICK j \in Jobs : j = worker[d].job
    BY <1>1
  <2>1. /\ worker'[d].at = "scope" /\ UNCHANGED userSessions
        /\ jobQueue' = jobQueue \ {j} /\ jobMeta' = jobMeta \ {j}
    BY <1>1, <1>6 DEF FinishJob, IdleWorker, DebouncerTypeOK, storeVars
  <2>2. Gone(j)
    BY <1>2, <1>6 DEF FinishJob, RanScript, Busy
  <2>3. ASSUME NEW s \in Sessions PROVE Waits(s)'
    <3>1. s \in userSessions[UserOf[s]] => <<s, made[s]>> # j
      BY <2>2 DEF Gone
    <3> QED BY <2>1, <3>1 DEF Waits, gatewayVars
  <2>4. ~RanScript(d)' /\ worker'[d].at \notin Busy
    BY <2>1 DEF RanScript, Busy
  <2> QED BY <1>3, <2>1, <2>3, <2>4, WorkerEnded DEF Busy
<1>7. ASSUME NEW j \in Jobs, TakeJob(d, j) PROVE EndedInv'
  <2>1. /\ j \in jobQueue \cap jobMeta /\ UNCHANGED <<jobVars, userSessions>>
        /\ worker'[d].at = "execute" /\ worker'[d].job = j
        /\ call'[d].at = "get" /\ call'[d].session = j[1]
    BY <1>1, <1>7 DEF TakeJob, StartDisconnect, NoCall, CallTyped, DebouncerTypeOK, storeVars
  <2>2. Ended(j) /\ ~RanScript(d)'
    BY <2>1 DEF JobsEnded, RanScript, Busy
  <2> QED BY <1>3, <2>1, <2>2, WorkerEnded DEF jobVars
<1> QED BY <1>4, <1>5, <1>6, <1>7 DEF WorkerStep, ExecuteStep

-----------------------------------------------------------------------------
LEMMA EndedInductive == ASSUME JobsStay, EndedInv, [Next]_vars PROVE EndedInv'
<1> USE EngineAssumption
<1>1. TypeInv /\ TypeInv'
  BY TypeInductive DEF EndedInv
<1>2. StoreTypeOK /\ CallTyped /\ ApiTypeOK /\ SweeperTypeOK
  BY <1>1 DEF TypeInv
<1>3. ASSUME UNCHANGED <<session, userSessions>> \/ \E s \in Sessions : DisconnectScript(s) PROVE Shrinks
  BY <1>2, <1>3, ScriptShrinks DEF Shrinks
<1>4. CASE ByGateway(GatewayNext)
  BY <1>1, <1>4, GatewayEnded
<1>5. CASE ByDebouncer(DebouncerNext)
  <2>1. ASSUME NEW d \in Debouncers, WorkerStep(d) PROVE EndedInv'
    BY <1>1, <1>5, <2>1, WorkerStays DEF ByDebouncer
  <2>2. ASSUME NEW j \in Jobs PROVE ~JobExpires(j)
    BY DEF JobExpires, JobsStay
  <2>3. ASSUME NEW u \in Users, WindowPasses(u) PROVE EndedInv'
    <3>1. UNCHANGED <<gatewayVars, jobVars, worker, call, userSessions>>
      BY <1>5, <2>3 DEF WindowPasses, ByDebouncer, serviceVars, storeVars
    <3> QED BY <1>1, <3>1, OthersEnded DEF Shrinks
  <2> QED BY <1>5, <2>1, <2>2, <2>3 DEF ByDebouncer, DebouncerNext, WorkerStep
<1>6. CASE BySweeper(SweeperNext)
  BY <1>1, <1>2, <1>6, SweeperShrinks, OthersEnded DEF BySweeper, debouncerVars, workerVars
<1>7. CASE ByApi(ApiNext)
  <2>1. Shrinks
    BY <1>2, <1>3, <1>7, ApiOnIndex DEF ByApi
  <2>2. \A d \in Debouncers : call'[d] = call[d]
    <3> PICK a \in Apis : (\E u \in Users : RequestDisconnect(a, u)) \/ RequestStep(a) \/ ApiStops(a)
      BY <1>7 DEF ByApi, ApiNext
    <3> QED BY <1>2, ApiCalls
  <2> QED BY <1>1, <1>7, <2>1, <2>2, OthersEnded DEF ByApi, debouncerVars, workerVars
<1>8. CASE ExpiryNext \/ UNCHANGED vars
  <2>1. UNCHANGED <<gatewayVars, jobVars, worker, call, userSessions>>
    BY <1>8 DEF ExpiryNext, Expire, Age, debouncerVars, workerVars, vars, serviceVars, storeVars
  <2> QED BY <1>1, <2>1, OthersEnded DEF Shrinks
<1> QED BY <1>4, <1>5, <1>6, <1>7, <1>8 DEF Next

LEMMA EndedInitial == Init => EndedInv
<1> SUFFICES ASSUME Init PROVE EndedInv
  OBVIOUS
<1>1. \A d \in Debouncers : worker[d].at = "idle"
  BY DEF Init, DebouncerInit, IdleWorker
<1>2. JobsEnded /\ CallOfJob /\ RanGone
  BY <1>1 DEF JobsEnded, CallOfJob, RanGone, RanScript, Busy, Init, DebouncerInit
<1>3. \A s \in Sessions : Waits(s)
  BY StoreAssumption DEF Waits, Init, ServiceInit, StoreInit
<1> QED BY <1>2, <1>3, TypeInitial DEF EndedInv

\* As long as no gateway dies and no job outlives its TTL, the session of a connection
\* that is over is out of the index or has a job that will take it out: with any
\* number of workers, of connections under one id, of sweepers and requests, and
\* workers that stop anywhere.
THEOREM EndedInvariant == JobsStay => (Spec => []EndedInv)
<1> SUFFICES ASSUME JobsStay PROVE Spec => []EndedInv
  OBVIOUS
<1>1. EndedInv /\ [Next]_vars => EndedInv'
  BY EndedInductive
<1> QED BY <1>1, EndedInitial, PTL DEF Spec

\* Even with sweepers and requests, and session ids used again, what is indexed once
\* nothing is under way is connected: no closed session outlives its job.
THEOREM SettledOnlyConnected ==
  JobsStay => (Spec => [](Quiet => \A s \in Sessions : s \in userSessions[UserOf[s]] => conn[s].at = "up"))
<1> SUFFICES ASSUME JobsStay
             PROVE  Spec => [](Quiet => \A s \in Sessions : s \in userSessions[UserOf[s]] => conn[s].at = "up")
  OBVIOUS
<1>1. EndedInv => (Quiet => \A s \in Sessions : s \in userSessions[UserOf[s]] => conn[s].at = "up")
  BY DEF EndedInv, Waits, Quiet
<1> QED BY <1>1, EndedInvariant, PTL

\* SettledOnlineExact: once nothing is under way, the index of every user holds exactly
\* the sessions that are connected, and exactly the users with one are listed online.
THEOREM SettledAlwaysExact ==
  NoCleaners /\ MaxConns = 1 /\ JobsStay => (Spec => []SettledOnlineExact)
<1> SUFFICES ASSUME NoCleaners, MaxConns = 1, JobsStay PROVE Spec => []SettledOnlineExact
  OBVIOUS
<1>1. EndedInv /\ GivenInv /\ ConnectedIsOnline /\ OnlineIffSessions => SettledOnlineExact
  <2> SUFFICES ASSUME EndedInv, GivenInv, ConnectedIsOnline, OnlineIffSessions, Quiet
               PROVE  /\ \A u \in Users : userSessions[u] = {s \in Sessions : UserOf[s] = u /\ conn[s].at = "up"}
                      /\ onlineUsers = {UserOf[s] : s \in {t \in Sessions : conn[t].at = "up"}}
    BY DEF SettledOnlineExact
  <2> USE StoreAssumption
  <2>1. \A s \in Sessions : s \in userSessions[UserOf[s]] <=> conn[s].at = "up"
    <3> SUFFICES ASSUME NEW s \in Sessions PROVE s \in userSessions[UserOf[s]] <=> conn[s].at = "up"
      OBVIOUS
    <3>1. conn[s].at = "idle" => s \notin userSessions[UserOf[s]]
      BY DEF Quiet, EndedInv, Waits
    <3> QED BY <3>1 DEF Quiet, ConnectedIsOnline
  <2>2. \A u \in Users : \A s \in userSessions[u] : s \in Sessions /\ UserOf[s] = u
    BY DEF GivenInv, Owned, TypeInv, StoreTypeOK
  <2>3. ASSUME NEW u \in Users
        PROVE  userSessions[u] = {s \in Sessions : UserOf[s] = u /\ conn[s].at = "up"}
    BY <2>1, <2>2
  <2>4. onlineUsers = {UserOf[s] : s \in {t \in Sessions : conn[t].at = "up"}}
    BY <2>1, <2>2 DEF OnlineIffSessions
  <2> QED BY <2>3, <2>4
<1> QED BY <1>1, EndedInvariant, GivenInvariant, ConnectedAlwaysOnline, EngineOnlineIndexed, PTL
=============================================================================
