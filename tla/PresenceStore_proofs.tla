------------------------ MODULE PresenceStore_proofs ------------------------
(***************************************************************************)
(* What the three Lua scripts guarantee for every set of users and         *)
(* sessions, proved from the scripts alone: the index of sessions and the  *)
(* list of online users agree, versions order every change of status, and  *)
(* the store implements PresenceAbs.                                       *)
(***************************************************************************)
EXTENDS PresenceStore, FiniteSetTheorems, TLAPS

StoreInv == /\ StoreTypeOK
            /\ OnlineIffSessions
            /\ LiveSessionIndexed
            /\ OnlineScopeListed

-----------------------------------------------------------------------------
\* SCARD after SADD is one exactly when the session added is the only one.
LEMMA FirstSession ==
  ASSUME NEW s \in Sessions, StoreTypeOK
  PROVE  Cardinality(ConnectSet(s)) = 1 <=> userSessions[UserOf[s]] \subseteq {s}
<1> USE StoreAssumption
<1>1. UserOf[s] \in Users
  OBVIOUS
<1>2. IsFiniteSet(ConnectSet(s)) /\ s \in ConnectSet(s)
  <2>1. ConnectSet(s) \subseteq Sessions /\ s \in ConnectSet(s)
    BY <1>1 DEF StoreTypeOK, ConnectSet
  <2> QED BY <2>1, FS_Subset
<1>3. ASSUME Cardinality(ConnectSet(s)) = 1
      PROVE  ConnectSet(s) = {s}
  <2>1. PICK x : ConnectSet(s) = {x}
    BY <1>2, <1>3, FS_Singleton
  <2> QED BY <2>1, <1>2
<1>4. ASSUME ConnectSet(s) = {s}
      PROVE  Cardinality(ConnectSet(s)) = 1
  BY <1>4, FS_Singleton
<1> QED BY <1>3, <1>4 DEF ConnectSet

\* SCARD after SREM is zero exactly when no other session was indexed.
LEMMA LastSession ==
  ASSUME NEW s \in Sessions, StoreTypeOK
  PROVE  GoesOffline(s) <=> userSessions[UserOf[s]] = {s}
<1> USE StoreAssumption
<1>1. UserOf[s] \in Users
  OBVIOUS
<1>2. IsFiniteSet(DisconnectSet(s))
  <2>1. DisconnectSet(s) \subseteq Sessions
    BY <1>1 DEF StoreTypeOK, DisconnectSet
  <2> QED BY <2>1, FS_Subset
<1>3. Cardinality(DisconnectSet(s)) = 0 <=> DisconnectSet(s) = {}
  BY <1>2, FS_EmptySet
<1> QED BY <1>3 DEF GoesOffline, DisconnectRemoves, DisconnectSet

-----------------------------------------------------------------------------
\* connect.lua keeps the invariant.
LEMMA ConnectKeeps ==
  ASSUME NEW s \in Sessions, StoreInv, ConnectScript(s)
  PROVE  StoreInv'
<1> DEFINE u == UserOf[s]
<1> USE StoreAssumption
<1>1. u \in Users
  OBVIOUS
<1>2. Cardinality(ConnectSet(s)) = 1 <=> userSessions[u] \subseteq {s}
  BY FirstSession DEF StoreInv
<1>3. StoreTypeOK'
  BY <1>1 DEF StoreInv, StoreTypeOK, ConnectScript, ConnectSet, Bumped
<1>4. OnlineIffSessions'
  <2>1. userSessions' = [userSessions EXCEPT ![u] = @ \cup {s}]
    BY DEF ConnectScript, ConnectSet
  <2>2. CASE userSessions[u] \subseteq {s}
    <3>1. onlineUsers' = onlineUsers \cup {u}
      BY <1>2, <2>2 DEF ConnectScript
    <3> QED BY <1>1, <2>1, <3>1 DEF StoreInv, StoreTypeOK, OnlineIffSessions
  <2>3. CASE ~(userSessions[u] \subseteq {s})
    <3>1. onlineUsers' = onlineUsers /\ userSessions[u] # {}
      BY <1>2, <2>3 DEF ConnectScript
    <3> QED BY <1>1, <2>1, <3>1 DEF StoreInv, StoreTypeOK, OnlineIffSessions
  <2> QED BY <2>2, <2>3
<1>5. LiveSessionIndexed'
  BY <1>1 DEF StoreInv, StoreTypeOK, LiveSessionIndexed, ConnectScript, ConnectSet, Alive
<1>6. OnlineScopeListed'
  BY DEF StoreInv, OnlineScopeListed, ConnectScript
<1> QED BY <1>3, <1>4, <1>5, <1>6 DEF StoreInv

\* disconnect.lua keeps the invariant.
LEMMA DisconnectKeeps ==
  ASSUME NEW s \in Sessions, StoreInv, DisconnectScript(s)
  PROVE  StoreInv'
<1> DEFINE u == UserOf[s]
<1> USE StoreAssumption
<1>1. u \in Users
  OBVIOUS
<1>2. GoesOffline(s) <=> userSessions[u] = {s}
  BY LastSession DEF StoreInv
<1>3. StoreTypeOK'
  BY <1>1 DEF StoreInv, StoreTypeOK, DisconnectScript, DisconnectSet, Bumped
<1>4. OnlineIffSessions'
  <2>1. userSessions' = [userSessions EXCEPT ![u] = @ \ {s}]
    BY DEF DisconnectScript, DisconnectSet
  <2>2. onlineUsers' = IF userSessions[u] = {s} THEN onlineUsers \ {u} ELSE onlineUsers
    BY <1>2 DEF DisconnectScript
  <2> QED BY <1>1, <2>1, <2>2 DEF StoreInv, StoreTypeOK, OnlineIffSessions
<1>5. LiveSessionIndexed'
  BY <1>1 DEF StoreInv, StoreTypeOK, LiveSessionIndexed, DisconnectScript, DisconnectSet, Alive
<1>6. OnlineScopeListed'
  BY DEF StoreInv, OnlineScopeListed, DisconnectScript
<1> QED BY <1>3, <1>4, <1>5, <1>6 DEF StoreInv

\* heartbeat.lua and the expiry of keys only move the TTL of a live key.
LEMMA ClockKeeps ==
  ASSUME NEW s \in Sessions, StoreInv, HeartbeatScript(s) \/ Age(s)
  PROVE  StoreInv'
<1> USE StoreAssumption
<1>1. StoreTypeOK'
  BY DEF StoreInv, StoreTypeOK, HeartbeatScript, Age, Alive
<1>2. OnlineIffSessions' /\ OnlineScopeListed'
  BY DEF StoreInv, OnlineIffSessions, OnlineScopeListed, HeartbeatScript, Age
<1>3. LiveSessionIndexed'
  BY DEF StoreInv, StoreTypeOK, LiveSessionIndexed, HeartbeatScript, Age, Alive
<1> QED BY <1>1, <1>2, <1>3 DEF StoreInv

LEMMA StoreInductive == StoreInv /\ [StoreNext]_storeVars => StoreInv'
<1> SUFFICES ASSUME StoreInv, [StoreNext]_storeVars PROVE StoreInv'
  OBVIOUS
<1>1. CASE UNCHANGED storeVars
  BY <1>1 DEF StoreInv, StoreTypeOK, OnlineIffSessions, LiveSessionIndexed, OnlineScopeListed,
              Alive, storeVars
<1>2. ASSUME NEW s \in Sessions, Connect(s) PROVE StoreInv'
  BY <1>2, ConnectKeeps DEF Connect
<1>3. ASSUME NEW s \in Sessions, DisconnectScript(s) PROVE StoreInv'
  BY <1>3, DisconnectKeeps
<1>4. ASSUME NEW s \in Sessions, HeartbeatScript(s) \/ Age(s) PROVE StoreInv'
  BY <1>4, ClockKeeps
<1> QED BY <1>1, <1>2, <1>3, <1>4 DEF StoreNext

LEMMA StoreInitial == StoreInit => StoreInv
<1> SUFFICES ASSUME StoreInit PROVE StoreInv
  OBVIOUS
<1> USE StoreAssumption
<1>1. StoreTypeOK
  <2>1. session \in [Sessions -> 0..SessionTTL]
    <3>1. 0 \in 0..SessionTTL
      OBVIOUS
    <3> QED BY <3>1 DEF StoreInit
  <2>2. userSessions \in [Users -> SUBSET Sessions]
    BY DEF StoreInit
  <2>3. /\ onlineUsers \subseteq Users /\ scopeActive \in BOOLEAN
        /\ userVersion \in [Users -> Nat]
    BY DEF StoreInit
  <2> QED BY <2>1, <2>2, <2>3 DEF StoreTypeOK
<1>2. OnlineIffSessions
  BY DEF StoreInit, OnlineIffSessions
<1>3. LiveSessionIndexed
  BY DEF StoreInit, LiveSessionIndexed, Alive
<1>4. OnlineScopeListed
  BY DEF StoreInit, OnlineScopeListed
<1> QED BY <1>1, <1>2, <1>3, <1>4 DEF StoreInv

\* Every reachable state of the store is well typed, lists online exactly the
\* users with an indexed session, indexes every session whose key lives, and
\* keeps the scope listed while anybody is online (the three Lua scripts).
THEOREM StoreInvariant == StoreSpec => []StoreInv
<1> QED BY StoreInitial, StoreInductive, PTL DEF StoreSpec

\* Online users are the users with a session, in every reachable state.
THEOREM OnlineIsIndexed == StoreSpec => []OnlineIffSessions
<1>1. StoreInv => OnlineIffSessions
  BY DEF StoreInv
<1> QED BY <1>1, StoreInvariant, PTL

-----------------------------------------------------------------------------
\* A script, or the expiry of a key: all that happens to the store.
Script(s) == ConnectScript(s) \/ HeartbeatScript(s) \/ DisconnectScript(s) \/ Age(s)

LEMMA ScriptKeeps == ASSUME NEW s \in Sessions, StoreInv, Script(s) PROVE StoreInv'
BY ConnectKeeps, DisconnectKeeps, ClockKeeps DEF Script

\* What VersionOrdersStatus says of one step.
Ordered == \A u \in Users :
  /\ userVersion'[u] \in {userVersion[u], userVersion[u] + 1}
  /\ ((u \in onlineUsers) # (u \in onlineUsers')) => userVersion'[u] = userVersion[u] + 1

LEMMA ScriptOrdered == ASSUME NEW s \in Sessions, StoreInv, Script(s) PROVE Ordered
<1> USE StoreAssumption
<1>1. CASE ConnectScript(s)
  <2>1. userVersion' = Bumped(UserOf[s], s \notin userSessions[UserOf[s]])
    BY <1>1 DEF ConnectScript, ConnectAdds
  <2>2. onlineUsers' \in {onlineUsers, onlineUsers \cup {UserOf[s]}}
    BY <1>1 DEF ConnectScript
  <2>3. ASSUME UserOf[s] \notin onlineUsers PROVE s \notin userSessions[UserOf[s]]
    BY <2>3 DEF StoreInv, StoreTypeOK, OnlineIffSessions
  <2> QED BY <2>1, <2>2, <2>3 DEF StoreInv, StoreTypeOK, Bumped, Ordered
<1>2. CASE DisconnectScript(s)
  <2>1. userVersion' = Bumped(UserOf[s], s \in userSessions[UserOf[s]])
    BY <1>2 DEF DisconnectScript, DisconnectRemoves
  <2>2. /\ onlineUsers' \in {onlineUsers, onlineUsers \ {UserOf[s]}}
        /\ onlineUsers' # onlineUsers => s \in userSessions[UserOf[s]]
    BY <1>2 DEF DisconnectScript, GoesOffline, DisconnectRemoves
  <2> QED BY <2>1, <2>2 DEF StoreInv, StoreTypeOK, Bumped, Ordered
<1>3. CASE HeartbeatScript(s) \/ Age(s)
  BY <1>3 DEF HeartbeatScript, Age, Ordered
<1> QED BY <1>1, <1>2, <1>3 DEF Script

\* A step of the store moves a version by at most one and moves it whenever a
\* user comes online or goes offline.
THEOREM VersionsOrderStatus == StoreSpec => VersionOrdersStatus
<1>1. ASSUME StoreInv, StoreNext PROVE Ordered
  BY <1>1, ScriptOrdered DEF StoreNext, Connect, Script
<1>2. ASSUME StoreInv, [StoreNext]_storeVars PROVE [Ordered]_storeVars
  BY <1>1, <1>2
<1> QED BY <1>2, StoreInvariant, PTL DEF StoreSpec, VersionOrdersStatus, Ordered

-----------------------------------------------------------------------------
\* A script that adds or removes a session is the one step that also moves the
\* user on or off the online list and takes the next version; every other
\* script is invisible.
LEMMA ScriptImplements ==
  ASSUME NEW s \in Sessions, StoreInv, Script(s)
  PROVE  [Abs!Next]_(Abs!absVars)
<1> USE StoreAssumption
<1>1. CASE ConnectScript(s) /\ s \notin userSessions[UserOf[s]]
  <2>1. Cardinality(ConnectSet(s)) = 1 <=> userSessions[UserOf[s]] \subseteq {s}
    BY FirstSession DEF StoreInv
  <2>2. onlineUsers' = onlineUsers \cup {UserOf[s]}
    BY <1>1, <2>1 DEF ConnectScript, StoreInv, StoreTypeOK, OnlineIffSessions
  <2>3. Abs!Open(s)
    BY <1>1, <2>2 DEF ConnectScript, ConnectSet, ConnectAdds, Bumped, Abs!Open
  <2> QED BY <2>3 DEF Abs!Next
<1>2. CASE ConnectScript(s) /\ s \in userSessions[UserOf[s]]
  <2>1. onlineUsers' = onlineUsers
    BY <1>2 DEF ConnectScript, StoreInv, StoreTypeOK, OnlineIffSessions
  <2>2. userSessions' = userSessions
    BY <1>2 DEF ConnectScript, ConnectSet, StoreInv, StoreTypeOK
  <2> QED BY <1>2, <2>1, <2>2 DEF ConnectScript, ConnectAdds, Bumped, Abs!absVars
<1>3. CASE DisconnectScript(s) /\ s \in userSessions[UserOf[s]]
  <2>1. GoesOffline(s) <=> userSessions[UserOf[s]] = {s}
    BY LastSession DEF StoreInv
  <2>2. Abs!Close(s)
    BY <1>3, <2>1 DEF DisconnectScript, DisconnectSet, DisconnectRemoves, Bumped, Abs!Close
  <2> QED BY <2>2 DEF Abs!Next
<1>4. CASE DisconnectScript(s) /\ s \notin userSessions[UserOf[s]]
  <2>1. userSessions' = userSessions
    BY <1>4 DEF DisconnectScript, DisconnectSet, StoreInv, StoreTypeOK
  <2> QED BY <1>4, <2>1 DEF DisconnectScript, GoesOffline, DisconnectRemoves, Bumped, Abs!absVars
<1>5. CASE HeartbeatScript(s) \/ Age(s)
  BY <1>5 DEF HeartbeatScript, Age, Abs!absVars
<1> QED BY <1>1, <1>2, <1>3, <1>4, <1>5 DEF Script

\* The store implements the abstract promise.
THEOREM StoreImplementsAbs == StoreSpec => AbsSpec
<1>1. StoreInit => Abs!Init
  BY DEF StoreInit, Abs!Init
<1>2. ASSUME StoreInv, StoreNext PROVE [Abs!Next]_(Abs!absVars)
  BY <1>2, ScriptImplements DEF StoreNext, Connect, Script
<1>3. ASSUME UNCHANGED storeVars PROVE UNCHANGED Abs!absVars
  BY <1>3 DEF storeVars, Abs!absVars
<1>4. ASSUME StoreInv, [StoreNext]_storeVars PROVE [Abs!Next]_(Abs!absVars)
  BY <1>2, <1>3, <1>4
<1> QED BY <1>1, <1>4, StoreInvariant, PTL DEF StoreSpec, AbsSpec, Abs!Spec
=============================================================================
