-------------------------- MODULE PresenceService --------------------------
(***************************************************************************)
(* The rest of the keys of pkg/presence/keys.go that follow a user, and    *)
(* Service.Disconnect (service.go), the one operation every worker shares. *)
(* It is a chain of Redis round trips around disconnect.lua and each round *)
(* trip is a step here, so that other processes run between them: call[c]  *)
(* says how far caller c has got and what it has read.                     *)
(***************************************************************************)
EXTENDS EventBus

CONSTANTS Invisible,  \* sessions opened with meta.Invisible
          Typed,      \* sessions opened with a meta.DeviceType (one type)
          Callers     \* processes that call Disconnect

VARIABLES
  invisibleUsers,  \* presence:invisible_users:{scope} - SET of users
  userDevices,     \* presence:user_devices:{scope}:{u} - count of the type
  sessionStates,   \* presence:session_states:{scope}:{u}, by session
  lastPub,         \* presence:last_pub_presence:{scope}:{u}
  call             \* call[c]: the Disconnect caller c is in

sideVars == <<invisibleUsers, userDevices, sessionStates, lastPub>>
serviceVars == <<storeVars, sideVars, view, call>>

NoReply == [transition |-> "none", version |-> 0, count |-> 0]
NoCall == [at |-> "none", session |-> CHOOSE s \in Sessions : TRUE,
           device |-> FALSE, reply |-> NoReply, agg |-> NoState, changed |-> FALSE]

CallSteps == {"none", "get", "script", "uninvis", "deldevices", "delstates",
              "decdevice", "delstate", "aggregate", "last", "setlast", "returned"}

Replies == [transition : {"online", "invisible", "offline", "none"}, version : Nat, count : Nat]

ServiceTypeOK ==
  /\ StoreTypeOK /\ ViewTypeOK
  /\ invisibleUsers \subseteq Users
  /\ userDevices \in [Users -> Int]
  /\ sessionStates \in [Sessions -> PresenceStates \cup {NoState}]
  /\ lastPub \in [Users -> PresenceStates \cup {NoState}]
  /\ call \in [Callers -> [at : CallSteps, session : Sessions, device : BOOLEAN, reply : Replies,
                           agg : PresenceStates \cup {NoState}, changed : BOOLEAN]]

ServiceInit ==
  /\ StoreInit /\ ViewInit
  /\ invisibleUsers = {}
  /\ userDevices = [u \in Users |-> 0]
  /\ sessionStates = [s \in Sessions |-> NoState]
  /\ lastPub = [u \in Users |-> NoState]
  /\ call = [c \in Callers |-> NoCall]

-----------------------------------------------------------------------------
\* aggregateSessionStates: do-not-disturb wins over idle, idle over active; a
\* user with no recorded state counts as active (GetPresenceAggregate).
StatesOf(u) == {sessionStates[s] : s \in {t \in Sessions : UserOf[t] = u}}

Aggregate(u) == IF "dnd" \in StatesOf(u) THEN "dnd"
                ELSE IF "idle" \in StatesOf(u) THEN "idle" ELSE "active"

\* Mutant: the state hash stays.
DropLastOnly(u) == /\ lastPub' = [lastPub EXCEPT ![u] = NoState]
                   /\ UNCHANGED sessionStates

\* DEL of the user's state hash and of its last published state.
DropStates(u) ==
  /\ sessionStates' = [s \in Sessions |-> IF UserOf[s] = u THEN NoState ELSE sessionStates[s]]
  /\ lastPub' = [lastPub EXCEPT ![u] = NoState]

-----------------------------------------------------------------------------
\* Disconnect, one Redis round trip at a time.
Goto(c, from, to) == call[c].at = from /\ call' = [call EXCEPT ![c].at = to]

UserOfCall(c) == UserOf[call[c].session]

StartDisconnect(c, s) == call' = [call EXCEPT ![c] = [NoCall EXCEPT !.at = "get", !.session = s]]

\* GET of the session: the device type is known only while the key lives.
GetMeta(c) ==
  /\ call[c].at = "get"
  /\ call' = [call EXCEPT ![c].at = "script",
                          ![c].device = Alive(call[c].session) /\ call[c].session \in Typed]
  /\ UNCHANGED <<storeVars, sideVars, view>>

RunScript(c) == LET s == call[c].session IN
  /\ call[c].at = "script"
  /\ DisconnectScript(s)
  /\ call' = [call EXCEPT ![c].reply = DisconnectReply(s),
                          ![c].at = IF GoesOffline(s) THEN "uninvis"
                                    ELSE IF call[c].device THEN "decdevice" ELSE "delstate"]
  /\ UNCHANGED <<sideVars, view>>

\* The user went offline: forget invisibility, devices and states in turn.
DropInvisible(c) ==
  /\ Goto(c, "uninvis", "deldevices")
  /\ invisibleUsers' = invisibleUsers \ {UserOfCall(c)}
  /\ UNCHANGED <<storeVars, userDevices, sessionStates, lastPub, view>>

DropDevices(c) ==
  /\ Goto(c, "deldevices", "delstates")
  /\ userDevices' = [userDevices EXCEPT ![UserOfCall(c)] = 0]
  /\ UNCHANGED <<storeVars, invisibleUsers, sessionStates, lastPub, view>>

DropUserStates(c) ==
  /\ Goto(c, "delstates", "returned")
  /\ DropStates(UserOfCall(c))
  /\ UNCHANGED <<storeVars, invisibleUsers, userDevices, view>>

\* Other sessions remain: one device less, one state less, a new aggregate.
DecrementDevice(c) ==
  /\ Goto(c, "decdevice", "delstate")
  /\ userDevices' = [userDevices EXCEPT ![UserOfCall(c)] = @ - 1]
  /\ UNCHANGED <<storeVars, invisibleUsers, sessionStates, lastPub, view>>

DeleteState(c) ==
  /\ Goto(c, "delstate", "aggregate")
  /\ sessionStates' = [sessionStates EXCEPT ![call[c].session] = NoState]
  /\ UNCHANGED <<storeVars, invisibleUsers, userDevices, lastPub, view>>

ReadStates(c) ==
  /\ call[c].at = "aggregate"
  /\ call' = [call EXCEPT ![c].at = "last", ![c].agg = Aggregate(UserOfCall(c))]
  /\ UNCHANGED <<storeVars, sideVars, view>>

ReadLast(c) == LET changed == call[c].agg # lastPub[UserOfCall(c)] IN
  /\ call[c].at = "last"
  /\ call' = [call EXCEPT ![c].at = IF changed THEN "setlast" ELSE "returned",
                          ![c].changed = changed]
  /\ UNCHANGED <<storeVars, sideVars, view>>

SetLast(c) ==
  /\ Goto(c, "setlast", "returned")
  /\ lastPub' = [lastPub EXCEPT ![UserOfCall(c)] = call[c].agg]
  /\ UNCHANGED <<storeVars, invisibleUsers, userDevices, sessionStates, view>>

DisconnectStep(c) ==
  \/ GetMeta(c)     \/ RunScript(c)
  \/ DropInvisible(c) \/ DropDevices(c) \/ DropUserStates(c)
  \/ DecrementDevice(c) \/ DeleteState(c) \/ ReadStates(c) \/ ReadLast(c) \/ SetLast(c)

\* Session keys age whatever the processes do.
Expire(s) == Age(s) /\ UNCHANGED <<sideVars, view, call>>
=============================================================================
