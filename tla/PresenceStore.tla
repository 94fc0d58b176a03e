--------------------------- MODULE PresenceStore ---------------------------
(***************************************************************************)
(* The Redis keys of one scope (pkg/presence/keys.go) that decide who is   *)
(* online, and the three Lua scripts that are the only atomic operations   *)
(* on them: connect.lua, heartbeat.lua and disconnect.lua.                 *)
(*                                                                         *)
(* A script is an operator that constrains the primed keys, with another   *)
(* operator for the reply it returns; the modules that model the callers   *)
(* take both.  StoreSpec is the store with nothing but the scripts and the *)
(* expiry of session keys, the reference the callers are compared with.    *)
(***************************************************************************)
EXTENDS Integers, FiniteSets

CONSTANTS Users,       \* user ids
          Sessions,    \* session ids
          UserOf,      \* UserOf[s]: the user session s belongs to
          SessionTTL,  \* the TTL of a session key, in ticks
          MaxVersion   \* bound: StoreSpec opens no session of a user at this version

ASSUME StoreAssumption == /\ IsFiniteSet(Sessions) /\ Sessions # {}
                          /\ UserOf \in [Sessions -> Users]
                          /\ SessionTTL \in Nat \ {0}
                          /\ MaxVersion \in Nat

VARIABLES
  session,       \* presence:session:{scope}:{s} - ticks to live, 0: no key
  userSessions,  \* presence:user_sessions:{scope}:{u} - SET of sessions
  onlineUsers,   \* presence:online_users:{scope} - SET of users
  userVersion,   \* presence:user_version:{scope}:{u} - counter, 0: no key
  scopeActive    \* whether presence:scopes holds this scope

storeVars == <<session, userSessions, onlineUsers, userVersion, scopeActive>>

\* Whether the key of session s exists (EXISTS).
Alive(s) == session[s] > 0

StoreTypeOK == /\ session \in [Sessions -> 0..SessionTTL]
               /\ userSessions \in [Users -> SUBSET Sessions]
               /\ onlineUsers \subseteq Users
               /\ userVersion \in [Users -> Nat]
               /\ scopeActive \in BOOLEAN

StoreInit == /\ session = [s \in Sessions |-> 0]
             /\ userSessions = [u \in Users |-> {}]
             /\ onlineUsers = {}
             /\ userVersion = [u \in Users |-> 0]
             /\ scopeActive = FALSE

-----------------------------------------------------------------------------
\* INCR of u's version when b holds.
Bumped(u, b) == IF b THEN [userVersion EXCEPT ![u] = @ + 1] ELSE userVersion

\* connect.lua: the session key is (re)written, the session indexed, and the
\* user listed online whenever the count after SADD is one.
ConnectSet(s) == userSessions[UserOf[s]] \cup {s}

ConnectAdds(s) == s \notin userSessions[UserOf[s]]

\* Mutant: the scope is not listed.
ConnectUnlisted(s) == LET u == UserOf[s] IN
  /\ session' = [session EXCEPT ![s] = SessionTTL]
  /\ userSessions' = [userSessions EXCEPT ![u] = ConnectSet(s)]
  /\ userVersion' = Bumped(u, ConnectAdds(s))
  /\ onlineUsers' = IF Cardinality(ConnectSet(s)) = 1 THEN onlineUsers \cup {u} ELSE onlineUsers
  /\ UNCHANGED scopeActive

ConnectScript(s) == LET u == UserOf[s] IN
  /\ session' = [session EXCEPT ![s] = SessionTTL]
  /\ userSessions' = [userSessions EXCEPT ![u] = ConnectSet(s)]
  /\ userVersion' = Bumped(u, ConnectAdds(s))
  /\ onlineUsers' = IF Cardinality(ConnectSet(s)) = 1 THEN onlineUsers \cup {u} ELSE onlineUsers
  /\ scopeActive' = (scopeActive \/ Cardinality(ConnectSet(s)) = 1)

ConnectReply(s) ==
  [transition |-> IF Cardinality(ConnectSet(s)) = 1 THEN "online" ELSE "none",
   version    |-> Bumped(UserOf[s], ConnectAdds(s))[UserOf[s]],
   count      |-> Cardinality(ConnectSet(s))]

\* Mutant: the TTL is added to what is left.
HeartbeatAddsTTL(s) ==
  /\ session' = IF Alive(s) THEN [session EXCEPT ![s] = @ + SessionTTL] ELSE session
  /\ UNCHANGED <<userSessions, onlineUsers, userVersion, scopeActive>>

\* heartbeat.lua: extends the key, and never creates one.
HeartbeatScript(s) ==
  /\ session' = IF Alive(s) THEN [session EXCEPT ![s] = SessionTTL] ELSE session
  /\ UNCHANGED <<userSessions, onlineUsers, userVersion, scopeActive>>

HeartbeatReply(s) == IF Alive(s) THEN "OK" ELSE "UNKNOWN"

\* disconnect.lua: only a session that was still indexed counts as removed.
DisconnectSet(s) == userSessions[UserOf[s]] \ {s}

DisconnectRemoves(s) == s \in userSessions[UserOf[s]]

\* Mutants: SCARD read before SREM, and off by one.
OfflineCountedBefore(s) == DisconnectRemoves(s) /\ Cardinality(userSessions[UserOf[s]]) = 0

OfflineOneEarly(s) == DisconnectRemoves(s) /\ Cardinality(DisconnectSet(s)) <= 1

GoesOffline(s) == DisconnectRemoves(s) /\ Cardinality(DisconnectSet(s)) = 0

\* Mutants: no INCR at all, and INCR only when the user goes offline.
DisconnectSilent(s) == LET u == UserOf[s] IN
  /\ session' = [session EXCEPT ![s] = 0]
  /\ userSessions' = [userSessions EXCEPT ![u] = DisconnectSet(s)]
  /\ onlineUsers' = IF GoesOffline(s) THEN onlineUsers \ {u} ELSE onlineUsers
  /\ UNCHANGED <<userVersion, scopeActive>>

DisconnectBumpsOffline(s) == LET u == UserOf[s] IN
  /\ session' = [session EXCEPT ![s] = 0]
  /\ userSessions' = [userSessions EXCEPT ![u] = DisconnectSet(s)]
  /\ userVersion' = Bumped(u, GoesOffline(s))
  /\ onlineUsers' = IF GoesOffline(s) THEN onlineUsers \ {u} ELSE onlineUsers
  /\ UNCHANGED scopeActive

DisconnectScript(s) == LET u == UserOf[s] IN
  /\ session' = [session EXCEPT ![s] = 0]
  /\ userSessions' = [userSessions EXCEPT ![u] = DisconnectSet(s)]
  /\ userVersion' = Bumped(u, DisconnectRemoves(s))
  /\ onlineUsers' = IF GoesOffline(s) THEN onlineUsers \ {u} ELSE onlineUsers
  /\ UNCHANGED scopeActive

\* Mutant: the count is the one before SREM.
DisconnectReplyBefore(s) ==
  [transition |-> IF GoesOffline(s) THEN "offline" ELSE "none",
   version    |-> Bumped(UserOf[s], DisconnectRemoves(s))[UserOf[s]],
   count      |-> Cardinality(userSessions[UserOf[s]])]

DisconnectReply(s) ==
  [transition |-> IF GoesOffline(s) THEN "offline" ELSE "none",
   version    |-> Bumped(UserOf[s], DisconnectRemoves(s))[UserOf[s]],
   count      |-> Cardinality(DisconnectSet(s))]

\* Redis counts a session key's TTL down and drops the key at zero.
Age(s) == /\ Alive(s)
          /\ session' = [session EXCEPT ![s] = @ - 1]
          /\ UNCHANGED <<userSessions, onlineUsers, userVersion, scopeActive>>

-----------------------------------------------------------------------------
Connect(s) == userVersion[UserOf[s]] < MaxVersion /\ ConnectScript(s)

StoreNext == \E s \in Sessions : Connect(s) \/ HeartbeatScript(s) \/ DisconnectScript(s) \/ Age(s)

StoreSpec == StoreInit /\ [][StoreNext]_storeVars

-----------------------------------------------------------------------------
\* A user is listed online exactly while a session of it is indexed: what the
\* readers of online_users (LookupUsers, IsUserOnline, GetOnlineUsers) rely on
\* although the two sets are different keys.
OnlineIffSessions == onlineUsers = {u \in Users : userSessions[u] # {}}

\* A session whose key has not expired is in its user's index, so neither a
\* count of the index nor a sweep over it can miss a live session.
LiveSessionIndexed == \A s \in Sessions : Alive(s) => s \in userSessions[UserOf[s]]

\* The workers reach a user only through presence:scopes; a scope with a user
\* online is in it.
OnlineScopeListed == onlineUsers # {} => scopeActive

\* A user never changes between online and offline without a new version, and
\* no version is ever taken back: subscribers drop what is not newer.
VersionOrdersStatus == [][\A u \in Users :
  /\ userVersion'[u] \in {userVersion[u], userVersion[u] + 1}
  /\ ((u \in onlineUsers) # (u \in onlineUsers')) => userVersion'[u] = userVersion[u] + 1]_storeVars

\* The store implements the abstract promise of PresenceAbs.
Abs == INSTANCE PresenceAbs WITH
         sessions <- userSessions, online <- onlineUsers, version <- userVersion
AbsSpec == Abs!Spec
=============================================================================
