-------------------------------- MODULE Api --------------------------------
(***************************************************************************)
(* The request of the HTTP API that changes presence: disconnect a user    *)
(* (handleDisconnectUser of cmd/api/main.go, Service.DisconnectUser of     *)
(* service.go), which disconnects the sessions found one after the other   *)
(* and announces the last result.                                          *)
(***************************************************************************)
EXTENDS PresenceService

CONSTANT Apis  \* request handlers

VARIABLE request  \* request[a]: the request handler a serves

ApiSteps == {"idle", "next", "disconnect", "empty", "empty_incr", "result", "tell"}

NoRequest == [at |-> "idle", user |-> CHOOSE u \in Users : TRUE, left |-> {}, reply |-> NoReply, agg |-> NoState]

ApiTypeOK == request \in [Apis -> [at : ApiSteps, user : Users, left : SUBSET Sessions, reply : Replies,
                                   agg : PresenceStates \cup {NoState}]]

ApiInit == request = [a \in Apis |-> NoRequest]

ApiGoto(a, from, to) == request[a].at = from /\ request' = [request EXCEPT ![a].at = to]

-----------------------------------------------------------------------------
\* SMEMBERS of the user's sessions decides which of two ways is taken.
RequestDisconnect(a, u) ==
  /\ request[a].at = "idle"
  /\ request' = [request EXCEPT ![a].at = IF userSessions[u] = {} THEN "empty" ELSE "next",
                                ![a].user = u, ![a].left = userSessions[u]]
  /\ UNCHANGED serviceVars

\* Mutant: the index found empty is deleted too.
RemoveListedAndIndex(a) == LET u == request[a].user IN
  /\ request[a].at = "empty"
  /\ onlineUsers' = onlineUsers \ {u}
  /\ userSessions' = [userSessions EXCEPT ![u] = {}]
  /\ request' = [request EXCEPT ![a] = IF u \in onlineUsers THEN [@ EXCEPT !.at = "empty_incr"]
                                       ELSE NoRequest]
  /\ UNCHANGED <<session, userVersion, scopeActive, sideVars, view, call>>

\* No session was found: SREM, and INCR when the user was listed after all.
RemoveListed(a) == LET u == request[a].user IN
  /\ request[a].at = "empty"
  /\ onlineUsers' = onlineUsers \ {u}
  /\ request' = [request EXCEPT ![a] = IF u \in onlineUsers THEN [@ EXCEPT !.at = "empty_incr"]
                                       ELSE NoRequest]
  /\ UNCHANGED <<session, userSessions, userVersion, scopeActive, sideVars, view, call>>

\* Mutant: GET and add one, which stores nothing.
GetListed(a) == LET u == request[a].user IN
  /\ request[a].at = "empty_incr"
  /\ request' = [request EXCEPT ![a].at = "result",
       ![a].reply = [transition |-> "offline", version |-> userVersion[u] + 1, count |-> 0]]
  /\ UNCHANGED serviceVars

IncrListed(a) == LET u == request[a].user IN
  /\ request[a].at = "empty_incr"
  /\ userVersion' = Bumped(u, TRUE)
  /\ request' = [request EXCEPT ![a].at = "result",
       ![a].reply = [transition |-> "offline", version |-> userVersion[u] + 1, count |-> 0]]
  /\ UNCHANGED <<session, userSessions, onlineUsers, scopeActive, sideVars, view, call>>

\* Sessions were found: Disconnect each of them, in any order.
DisconnectNext(a, s) ==
  /\ request[a].at = "next" /\ s \in request[a].left
  /\ request' = [request EXCEPT ![a].at = "disconnect", ![a].left = @ \ {s}]
  /\ StartDisconnect(a, s)
  /\ UNCHANGED <<storeVars, sideVars, view>>

TakeResult(a) ==
  /\ request[a].at = "disconnect" /\ call[a].at = "returned"
  /\ request' = [request EXCEPT ![a].at = IF request[a].left = {} THEN "result" ELSE "next",
                                ![a].reply = call[a].reply]
  /\ call' = [call EXCEPT ![a] = NoCall]
  /\ UNCHANGED <<storeVars, sideVars, view>>

\* The handler announces the last result: offline, or the tabs that remain.
AnnounceOffline(a) == LET r == request[a] IN
  /\ r.at = "result" /\ r.reply.transition = "offline"
  /\ Publish(r.user, PresenceEvent("user_offline", r.reply.version, r.reply.count, NoState))
  /\ request' = [request EXCEPT ![a] = NoRequest]
  /\ UNCHANGED <<storeVars, sideVars, call>>

ReadRemaining(a) == LET r == request[a] IN
  /\ r.at = "result" /\ r.reply.transition # "offline"
  /\ request' = [request EXCEPT ![a] = IF r.reply.count > 0
                   THEN [r EXCEPT !.at = "tell", !.agg = Aggregate(r.user)] ELSE NoRequest]
  /\ UNCHANGED serviceVars

AnnounceRemaining(a) == LET r == request[a] IN
  /\ r.at = "tell"
  /\ Publish(r.user, PresenceEvent("user_tabs", r.reply.version, r.reply.count, r.agg))
  /\ request' = [request EXCEPT ![a] = NoRequest]
  /\ UNCHANGED <<storeVars, sideVars, call>>

\* The request is cancelled (its context ends) or the server stops.
ApiStops(a) ==
  /\ "api_stops" \in Faults
  /\ request[a].at # "idle"
  /\ request' = [request EXCEPT ![a] = NoRequest]
  /\ call' = [call EXCEPT ![a] = NoCall]
  /\ UNCHANGED <<storeVars, sideVars, view>>

RequestStep(a) ==
  \/ RemoveListed(a) \/ IncrListed(a)
  \/ \E s \in Sessions : DisconnectNext(a, s)
  \/ DisconnectStep(a) /\ UNCHANGED request
  \/ TakeResult(a) \/ AnnounceOffline(a) \/ ReadRemaining(a) \/ AnnounceRemaining(a)

ApiNext == \E a \in Apis : \/ \E u \in Users : RequestDisconnect(a, u)
                           \/ RequestStep(a) \/ ApiStops(a)
=============================================================================
