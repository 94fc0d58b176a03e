------------------------------- MODULE Fanout -------------------------------
(***************************************************************************)
(* How an event reaches a browser: from the Redis channel of a scope       *)
(* through the subscription of one gateway (pkg/events/pubsub.go), the     *)
(* broadcast to the clients of the scope (broadcastToScope of              *)
(* pkg/ws/hub.go) and the send channel and WritePump of each               *)
(* (pkg/ws/client.go).  Nothing in the chain waits for the next stage: a   *)
(* full channel drops.  Hub.tla has how clients come and go; here joining  *)
(* and leaving are one step each, for the hub does them under its mutex.   *)
(*                                                                         *)
(* Every subscription has a channel and a goroutine of its own, and that   *)
(* of a cancelled one runs on until its channel is empty: old ones may     *)
(* broadcast next to the current one.                                      *)
(***************************************************************************)
EXTENDS Sequences, SequencesExt, Naturals, FiniteSets

CONSTANTS Clients, Users,
          Owner,           \* Owner[c]: the user of client c
          MaxFriends,      \* MaxFriendSubscriptions, 0: no limit
          EventBuffer,     \* the capacity of the channel Subscribe returns
          SendBuffer,      \* SlowConsumerBuffer
          DisconnectSlow,  \* DisconnectSlowConsumers
          MaxEvents,       \* bound: events published
          MaxSubs          \* bound: subscriptions made

ASSUME FanoutAssumption == /\ Owner \in [Clients -> Users] /\ MaxFriends \in Nat
                           /\ EventBuffer \in Nat \ {0} /\ SendBuffer \in Nat \ {0}
                           /\ DisconnectSlow \in BOOLEAN
                           /\ MaxEvents \in Nat /\ MaxSubs \in Nat

Subs == 1..MaxSubs
Events == [number : 1..MaxEvents, user : Users]

VARIABLES
  published,    \* events published so far
  current,      \* the subscription in the map, 0: none
  opened,       \* subscriptions made so far
  link,         \* link[i]: what Redis and go-redis hold for subscription i
  buffer,       \* buffer[i]: its channel
  sending,      \* sending[i]: the event its goroutine broadcasts, and to whom still
  connections,  \* the clients of the scope
  closed,       \* clients that were closed, by either side
  friends,      \* subscribedUsers
  queue,        \* queue[c]: the channel send
  got,          \* got[c]: what was written to its WebSocket
  due,          \* history: the events published while c was there that it wants
  overflowed    \* history: the events a full channel of a subscription dropped

subVars == <<current, opened, link, buffer, sending>>
peerVars == <<friends, queue, got>>
fanoutVars == <<published, subVars, connections, closed, peerVars, due, overflowed>>

Resting == [event |-> <<>>, left |-> {}]

FanoutTypeOK ==
  /\ published \in 0..MaxEvents /\ current \in 0..opened /\ opened \in 0..MaxSubs
  /\ link \in [Subs -> Seq(Events)]
  /\ buffer \in [Subs -> Seq(Events)] /\ \A i \in Subs : Len(buffer[i]) <= EventBuffer
  /\ \A i \in Subs : /\ sending[i].event \in {<<>>} \cup {<<e>> : e \in Events}
                     /\ sending[i].left \subseteq Clients
  /\ connections \subseteq Clients /\ closed \subseteq Clients
  /\ friends \in [Clients -> SUBSET Users]
  /\ \A c \in Clients : MaxFriends > 0 => Cardinality(friends[c]) <= MaxFriends
  /\ queue \in [Clients -> Seq(Events)] /\ \A c \in Clients : Len(queue[c]) <= SendBuffer
  /\ got \in [Clients -> Seq(Events)] /\ due \in [Clients -> SUBSET Events]
  /\ overflowed \subseteq Events

FanoutInit ==
  /\ published = 0 /\ current = 0 /\ opened = 0
  /\ link = [i \in Subs |-> <<>>] /\ buffer = [i \in Subs |-> <<>>]
  /\ sending = [i \in Subs |-> Resting]
  /\ connections = {} /\ closed = {}
  /\ friends = [c \in Clients |-> {}] /\ queue = [c \in Clients |-> <<>>]
  /\ got = [c \in Clients |-> <<>>] /\ due = [c \in Clients |-> {}] /\ overflowed = {}

\* A client wants what is about its own user or one it follows.
Wants(c, e, following) == e.user = Owner[c] \/ e.user \in following

-----------------------------------------------------------------------------
\* Mutant: cancel() is forgotten, and every subscription made goes on receiving.
PublishToAll(u) == LET e == [number |-> published + 1, user |-> u] IN
  /\ published < MaxEvents
  /\ published' = published + 1
  /\ link' = [i \in Subs |-> IF i <= opened THEN Append(link[i], e) ELSE link[i]]
  /\ UNCHANGED <<current, opened, buffer, sending, connections, closed, peerVars, due, overflowed>>

\* PUBLISH reaches whoever is subscribed at that moment.
PublishEvent(u) == LET e == [number |-> published + 1, user |-> u] IN
  /\ published < MaxEvents
  /\ published' = published + 1
  /\ link' = [i \in Subs |-> IF i = current THEN Append(link[i], e) ELSE link[i]]
  /\ due' = [c \in Clients |-> IF current > 0 /\ c \in connections /\ Wants(c, e, friends[c])
                               THEN due[c] \cup {e} ELSE due[c]]
  /\ UNCHANGED <<current, opened, buffer, sending, connections, closed, peerVars, overflowed>>

\* addClient: a client that finds no subscription makes one.  When Subscribe fails
\* the client stays, without events, until another one comes.
Join(c) ==
  /\ c \notin connections \cup closed
  /\ connections' = connections \cup {c}
  /\ \/ UNCHANGED <<current, opened>>
     \/ current = 0 /\ opened < MaxSubs /\ opened' = opened + 1 /\ current' = opened + 1
  /\ UNCHANGED <<published, link, buffer, sending, closed, peerVars, due, overflowed>>

\* The WebSocket fails, or the peer leaves.
Fail(c) ==
  /\ c \in connections \ closed
  /\ closed' = closed \cup {c}
  /\ UNCHANGED <<published, subVars, connections, peerVars, due, overflowed>>

\* Mutant: the subscription goes with any client, not only with the last.
LeaveAlways(c) ==
  /\ c \in connections /\ c \in closed
  /\ connections' = connections \ {c}
  /\ current' = 0
  /\ UNCHANGED <<published, opened, link, buffer, sending, closed, peerVars, due, overflowed>>

\* removeClient: the last client takes the subscription with it; what Redis has
\* sent and go-redis has not read is lost, what it has read is still broadcast.
Leave(c) ==
  /\ c \in connections /\ c \in closed
  /\ connections' = connections \ {c}
  /\ IF connections = {c} /\ current > 0
     THEN /\ current' = 0
          /\ \E n \in 0..Len(link[current]) : link' = [link EXCEPT ![current] = SubSeq(@, 1, n)]
     ELSE UNCHANGED <<current, link>>
  /\ UNCHANGED <<published, opened, buffer, sending, closed, peerVars, due, overflowed>>

\* Mutant: the limit lets one more through.
SubscribeOneMore(c, list) ==
  /\ c \in connections \ closed /\ list # friends[c]
  /\ MaxFriends > 0 => Cardinality(list) <= MaxFriends + 1
  /\ friends' = [friends EXCEPT ![c] = list]
  /\ due' = [due EXCEPT ![c] = {e \in @ : Wants(c, e, list)}]
  /\ UNCHANGED <<published, subVars, connections, closed, queue, got, overflowed>>

\* handleSubscribeFriends: the list, cut to the limit, replaces the last one.
SubscribeFriends(c, list) ==
  /\ c \in connections \ closed /\ list # friends[c]
  /\ MaxFriends > 0 => Cardinality(list) <= MaxFriends
  /\ friends' = [friends EXCEPT ![c] = list]
  /\ due' = [due EXCEPT ![c] = {e \in @ : Wants(c, e, list)}]
  /\ UNCHANGED <<published, subVars, connections, closed, queue, got, overflowed>>

-----------------------------------------------------------------------------
\* The goroutine of Subscribe: a full channel drops the event.
Relay(i) == LET e == Head(link[i]) IN
  /\ link[i] # <<>>
  /\ link' = [link EXCEPT ![i] = Tail(@)]
  /\ IF Len(buffer[i]) < EventBuffer
     THEN buffer' = [buffer EXCEPT ![i] = Append(@, e)] /\ UNCHANGED overflowed
     ELSE overflowed' = overflowed \cup {e} /\ UNCHANGED buffer
  /\ UNCHANGED <<published, current, opened, sending, connections, closed, peerVars, due>>

\* broadcastToScope takes the clients of the moment ...
Broadcast(i) ==
  /\ sending[i] = Resting /\ buffer[i] # <<>>
  /\ buffer' = [buffer EXCEPT ![i] = Tail(@)]
  /\ sending' = IF connections = {} THEN sending
                ELSE [sending EXCEPT ![i] = [event |-> <<Head(buffer[i])>>, left |-> connections]]
  /\ UNCHANGED <<published, current, opened, link, connections, closed, peerVars, due, overflowed>>

\* ... and tries each: what it does not want is skipped, what a closed one would
\* get is lost, what does not fit is dropped and may cost the connection.
Sent(i, c) == IF sending[i].left = {c} THEN [sending EXCEPT ![i] = Resting]
              ELSE [sending EXCEPT ![i].left = @ \ {c}]

\* Mutant: only friends are looked up, not the client itself.
FriendsOnly(c, e) == e.user \in friends[c]

Passes(c, e) == Wants(c, e, friends[c])

Offer(i, c) == LET e == Head(sending[i].event) IN
  /\ c \in sending[i].left
  /\ sending' = Sent(i, c)
  /\ IF Passes(c, e) /\ c \notin closed /\ Len(queue[c]) < SendBuffer
     THEN queue' = [queue EXCEPT ![c] = Append(@, e)]
     ELSE UNCHANGED queue
  /\ closed' = IF Passes(c, e) /\ DisconnectSlow /\ Len(queue[c]) = SendBuffer
               THEN closed \cup {c} ELSE closed
  /\ UNCHANGED <<published, current, opened, link, buffer, connections, friends, got, due, overflowed>>

\* WritePump.  (What a connection being closed still lets out of its queue makes no
\* difference to the properties, which take got and queue together.)
Write(c) ==
  /\ queue[c] # <<>> /\ c \notin closed
  /\ queue' = [queue EXCEPT ![c] = Tail(@)]
  /\ got' = [got EXCEPT ![c] = Append(@, Head(queue[c]))]
  /\ UNCHANGED <<published, subVars, connections, closed, friends, due, overflowed>>

-----------------------------------------------------------------------------
SubStep(i) == Relay(i) \/ Broadcast(i) \/ \E c \in Clients : Offer(i, c)

FanoutNext ==
  \/ \E u \in Users : PublishEvent(u)
  \/ \E c \in Clients : \/ Join(c) \/ Fail(c) \/ Leave(c) \/ Write(c)
                        \/ \E list \in SUBSET Users : SubscribeFriends(c, list)
  \/ \E i \in Subs : SubStep(i)

FanoutSpec == FanoutInit /\ [][FanoutNext]_fanoutVars

\* Goroutines run on, and a write succeeds or fails within WriteTimeout.
FanoutLiveSpec == /\ FanoutSpec
                  /\ \A i \in Subs : WF_fanoutVars(SubStep(i))
                  /\ \A c \in Clients : WF_fanoutVars(Write(c))

-----------------------------------------------------------------------------
Handed(c) == got[c] \o queue[c]

\* No client is handed an event twice, although the goroutines of subscriptions
\* that were replaced broadcast to the clients of the next.
AtMostOnce == \A c \in Clients : IsInjective(Handed(c))

\* What is still on its way to c through the current subscription.
OnItsWay(c, e) == /\ current > 0
                  /\ \/ e \in ToSet(link[current]) \cup ToSet(buffer[current])
                     \/ sending[current].event = <<e>> /\ c \in sending[current].left

\* A client whose connection is open has missed nothing it wants of what was
\* published while it was there: it has it, will get it, or the channel of the
\* subscription was full.  A client too slow for its own channel is closed.
OpenMissesNothing == DisconnectSlow => \A c \in connections \ closed : \A e \in due[c] :
  e \in ToSet(Handed(c)) \/ e \in overflowed \/ OnItsWay(c, e)

\* ... and it does get it in the end.
WantedArrives == \A c \in Clients : \A e \in Events :
  e \in due[c] ~> \/ e \in ToSet(got[c]) \/ c \in closed
                  \/ e \in overflowed \/ e \notin due[c]
=============================================================================
