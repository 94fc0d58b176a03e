---------------------------- MODULE Fanout_proofs ----------------------------
(***************************************************************************)
(* Proofs about Fanout, for any clients, users, events and subscriptions   *)
(* and any sizes of the channels.                                          *)
(*                                                                         *)
(* An event is in one place of one subscription at most - what Redis and   *)
(* go-redis hold, the channel, the broadcast - and a client that has it is *)
(* offered it no more: that is why nobody gets it twice.  Nobody who stays *)
(* misses it, since every place either hands it on, or is a full channel,  *)
(* or closes the client.                                                   *)
(***************************************************************************)
EXTENDS Fanout, FiniteSetTheorems, SequenceTheorems, TLAPS

\* Sequences without repetition.
Has(q, e) == \E k \in 1..Len(q) : q[k] = e
Once(q) == \A j, k \in 1..Len(q) : q[j] = q[k] => j = k

LEMMA AppendHas ==
  ASSUME NEW S, NEW q \in Seq(S), NEW e \in S
  PROVE  /\ Append(q, e) \in Seq(S) /\ Len(Append(q, e)) = Len(q) + 1
         /\ \A f : Has(Append(q, e), f) <=> (Has(q, f) \/ f = e)
         /\ Once(q) /\ ~Has(q, e) => Once(Append(q, e))
<1> DEFINE r == Append(q, e)
<1>1. /\ r \in Seq(S) /\ Len(r) = Len(q) + 1 /\ Len(q) \in Nat
      /\ \A k \in 1..Len(q) : r[k] = q[k]
      /\ r[Len(q) + 1] = e
  BY AppendProperties, LenProperties
<1> HIDE DEF r
<1>2. ASSUME NEW f PROVE Has(r, f) <=> (Has(q, f) \/ f = e)
  <2>1. Has(r, f) => (Has(q, f) \/ f = e)
    <3> SUFFICES ASSUME NEW k \in 1..Len(r), r[k] = f PROVE Has(q, f) \/ f = e
      BY DEF Has
    <3>1. k \in 1..Len(q) \/ k = Len(q) + 1
      BY <1>1
    <3> QED BY <1>1, <3>1 DEF Has
  <2>2. Has(q, f) => Has(r, f)
    <3> SUFFICES ASSUME NEW k \in 1..Len(q), q[k] = f PROVE Has(r, f)
      BY DEF Has
    <3>1. k \in 1..Len(r) /\ r[k] = f
      BY <1>1
    <3> QED BY <3>1 DEF Has
  <2>3. Len(q) + 1 \in 1..Len(r)
    BY <1>1
  <2>4. Has(r, e)
    BY <1>1, <2>3 DEF Has
  <2> QED BY <2>1, <2>2, <2>4
<1>3. ASSUME Once(q), ~Has(q, e) PROVE Once(r)
  <2> SUFFICES ASSUME NEW j \in 1..Len(r), NEW k \in 1..Len(r), r[j] = r[k] PROVE j = k
    BY DEF Once
  <2>1. \A i \in 1..Len(r) : \/ i \in 1..Len(q) /\ r[i] = q[i] /\ r[i] # e
                             \/ i = Len(q) + 1 /\ r[i] = e
    <3> TAKE i \in 1..Len(r)
    <3>1. i \in 1..Len(q) \/ i = Len(q) + 1
      BY <1>1
    <3>2. \A n \in 1..Len(q) : q[n] # e
      BY <1>3 DEF Has
    <3>3. CASE i = Len(q) + 1
      BY <1>1, <3>3
    <3>4. CASE i \in 1..Len(q)
      BY <1>1, <3>2, <3>4
    <3> QED BY <3>1, <3>3, <3>4
  <2> QED BY <1>3, <2>1 DEF Once
<1> QED BY <1>1, <1>2, <1>3 DEF r

LEMMA TailHas ==
  ASSUME NEW S, NEW q \in Seq(S), q # <<>>
  PROVE  /\ Head(q) \in S /\ Has(q, Head(q)) /\ Tail(q) \in Seq(S) /\ Len(Tail(q)) = Len(q) - 1
         /\ \A f : Has(q, f) <=> (Has(Tail(q), f) \/ f = Head(q))
         /\ Once(q) => Once(Tail(q)) /\ ~Has(Tail(q), Head(q))
<1> DEFINE r == Tail(q)
<1>1. /\ Head(q) \in S /\ r \in Seq(S) /\ Len(r) = Len(q) - 1 /\ Len(q) \in Nat \ {0}
      /\ \A k \in 1..Len(r) : r[k] = q[k + 1]
      /\ Head(q) = q[1]
  BY HeadTailProperties, EmptySeq
<1> HIDE DEF r
<1>2. \A k \in 1..Len(r) : k + 1 \in 1..Len(q) /\ r[k] = q[k + 1] /\ k + 1 # 1
  BY <1>1
<1>3. \A k \in 1..Len(q) : k = 1 \/ \E j \in 1..Len(r) : r[j] = q[k]
  <2> SUFFICES ASSUME NEW k \in 1..Len(q), k # 1 PROVE \E j \in 1..Len(r) : r[j] = q[k]
    OBVIOUS
  <2>1. PICK j \in 1..Len(r) : j + 1 = k
    <3>1. k - 1 \in 1..Len(r) /\ (k - 1) + 1 = k
      BY <1>1
    <3> QED BY <3>1
  <2> QED BY <1>1, <2>1
<1>4. Has(q, Head(q))
  <2>1. 1 \in 1..Len(q)
    BY <1>1
  <2> QED BY <1>1, <2>1 DEF Has
<1>5. ASSUME NEW f PROVE Has(q, f) <=> (Has(r, f) \/ f = Head(q))
  <2>1. Has(q, f) => (Has(r, f) \/ f = Head(q))
    BY <1>1, <1>3 DEF Has
  <2>2. Has(r, f) => Has(q, f)
    BY <1>2 DEF Has
  <2> QED BY <1>4, <2>1, <2>2
<1>6. ASSUME Once(q) PROVE Once(r) /\ ~Has(r, Head(q))
  <2>1. ~Has(r, Head(q))
    <3> SUFFICES ASSUME NEW k \in 1..Len(r), r[k] = Head(q) PROVE FALSE
      BY DEF Has
    <3>1. 1 \in 1..Len(q)
      BY <1>1
    <3> QED BY <1>1, <1>2, <1>6, <3>1 DEF Once
  <2>2. Once(r)
    <3> SUFFICES ASSUME NEW j \in 1..Len(r), NEW k \in 1..Len(r), r[j] = r[k] PROVE j = k
      BY DEF Once
    <3>1. j + 1 = k + 1
      BY <1>2, <1>6 DEF Once
    <3> QED BY <3>1
  <2> QED BY <2>1, <2>2
<1> QED BY <1>1, <1>4, <1>5, <1>6 DEF r

LEMMA PrefixHas ==
  ASSUME NEW S, NEW q \in Seq(S), NEW n \in 0..Len(q)
  PROVE  /\ SubSeq(q, 1, n) \in Seq(S)
         /\ \A f : Has(SubSeq(q, 1, n), f) => Has(q, f)
         /\ Once(q) => Once(SubSeq(q, 1, n))
<1> DEFINE r == SubSeq(q, 1, n)
<1>1. Len(q) \in Nat /\ \A k \in 1..n : q[k] \in S
  BY LenProperties, ElementOfSeq
<1>2. /\ r \in Seq(S) /\ Len(r) = n
      /\ \A k \in 1..Len(r) : k \in 1..Len(q) /\ r[k] = q[k]
  <2>1. /\ r \in Seq(S) /\ Len(r) = IF 1 <= n THEN n - 1 + 1 ELSE 0
        /\ \A k \in 1..(n - 1 + 1) : r[k] = q[1 + k - 1]
    BY <1>1, SubSeqProperties
  <2>2. Len(r) = n
    BY <1>1, <2>1
  <2>3. \A k \in 1..n : k \in 1..Len(q) /\ k \in 1..(n - 1 + 1) /\ 1 + k - 1 = k
    BY <1>1
  <2> HIDE DEF r
  <2> QED BY <2>1, <2>2, <2>3
<1> HIDE DEF r
<1>3. \A f : Has(r, f) => Has(q, f)
  BY <1>2 DEF Has
<1>4. Once(q) => Once(r)
  BY <1>2 DEF Once
<1> QED BY <1>2, <1>3, <1>4 DEF r

LEMMA EmptyHas == /\ \A S : <<>> \in Seq(S)
                  /\ Len(<<>>) = 0 /\ Once(<<>>) /\ \A f : ~Has(<<>>, f)
<1>1. Len(<<>>) = 0 /\ \A S : <<>> \in Seq(S)
  BY EmptySeq
<1> QED BY <1>1 DEF Once, Has

LEMMA HasIsIn == ASSUME NEW S, NEW q \in Seq(S), NEW f PROVE f \in ToSet(q) <=> Has(q, f)
BY LenProperties DEF ToSet, Has

LEMMA ConcatHas ==
  ASSUME NEW S, NEW p \in Seq(S), NEW q \in Seq(S)
  PROVE  /\ \A f : f \in ToSet(p \o q) <=> (Has(p, f) \/ Has(q, f))
         /\ Once(p) /\ Once(q) /\ (\A f \in S : ~(Has(p, f) /\ Has(q, f))) => IsInjective(p \o q)
<1> PICK r : r = p \o q
  OBVIOUS
<1>1. /\ r \in Seq(S) /\ Len(r) = Len(p) + Len(q) /\ Len(p) \in Nat /\ Len(q) \in Nat
      /\ \A k \in 1..Len(p) + Len(q) : r[k] = IF k <= Len(p) THEN p[k] ELSE q[k - Len(p)]
  BY ConcatProperties, LenProperties
<1>2. \A k \in 1..Len(p) : k \in 1..Len(r) /\ r[k] = p[k]
  <2>1. \A k \in 1..Len(p) : k \in 1..Len(p) + Len(q) /\ k <= Len(p)
    BY <1>1
  <2> QED BY <1>1, <2>1
<1>3. \A k \in 1..Len(q) : k + Len(p) \in 1..Len(r) /\ r[k + Len(p)] = q[k]
  <2>1. \A k \in 1..Len(q) : k + Len(p) \in 1..Len(p) + Len(q) /\ ~(k + Len(p) <= Len(p)) /\ (k + Len(p)) - Len(p) = k
    BY <1>1
  <2> QED BY <1>1, <2>1
<1>4. \A k \in 1..Len(r) : \/ k \in 1..Len(p) /\ r[k] = p[k]
                           \/ ~(k <= Len(p)) /\ k - Len(p) \in 1..Len(q) /\ r[k] = q[k - Len(p)]
  BY <1>1
<1>5. \A f : Has(r, f) <=> (Has(p, f) \/ Has(q, f))
  <2> TAKE f
  <2>1. Has(r, f) => (Has(p, f) \/ Has(q, f))
    BY <1>4 DEF Has
  <2>2. Has(p, f) => Has(r, f)
    BY <1>2 DEF Has
  <2>3. Has(q, f) => Has(r, f)
    BY <1>3 DEF Has
  <2> QED BY <2>1, <2>2, <2>3
<1>6. ASSUME Once(p), Once(q), \A f \in S : ~(Has(p, f) /\ Has(q, f)) PROVE IsInjective(r)
  <2> SUFFICES ASSUME NEW j \in 1..Len(r), NEW k \in 1..Len(r), r[j] = r[k] PROVE j = k
    BY <1>1, LenProperties DEF IsInjective
  <2>1. r[j] \in S
    BY <1>1, ElementOfSeq
  <2>2. CASE j \in 1..Len(p) /\ k \in 1..Len(p)
    BY <1>2, <1>6, <2>2 DEF Once
  <2>3. CASE j \notin 1..Len(p) /\ k \notin 1..Len(p)
    <3>1. j - Len(p) = k - Len(p)
      BY <1>4, <1>6, <2>3 DEF Once
    <3> QED BY <1>1, <3>1
  <2>4. CASE j \in 1..Len(p) /\ k \notin 1..Len(p)
    BY <1>2, <1>4, <1>6, <2>1, <2>4 DEF Has
  <2>5. CASE j \notin 1..Len(p) /\ k \in 1..Len(p)
    BY <1>2, <1>4, <1>6, <2>1, <2>5 DEF Has
  <2> QED BY <2>2, <2>3, <2>4, <2>5
<1> QED BY <1>1, <1>5, <1>6, HasIsIn

-----------------------------------------------------------------------------
\* Types.
SendTyped == /\ sending \in [Subs -> [event : {<<>>} \cup {<<e>> : e \in Events}, left : SUBSET Clients]]
             /\ \A i \in Subs : sending[i].left # {} => sending[i].event # <<>>
Typed == FanoutTypeOK /\ SendTyped

LEMMA BeingSent ==
  ASSUME SendTyped, NEW i \in Subs, NEW c \in sending[i].left
  PROVE  /\ c \in Clients /\ Head(sending[i].event) \in Events
         /\ sending[i].event = <<Head(sending[i].event)>>
<1>1. PICK e \in Events : sending[i].event = <<e>>
  BY DEF SendTyped
<1> QED BY <1>1 DEF SendTyped

LEMMA SentTyped ==
  ASSUME SendTyped, NEW i \in Subs, NEW c \in sending[i].left, sending' = Sent(i, c)
  PROVE  SendTyped'
<1>1. CASE sending[i].left = {c}
  BY <1>1 DEF SendTyped, Sent, Resting
<1>2. CASE sending[i].left # {c}
  BY <1>2 DEF SendTyped, Sent
<1> QED BY <1>1, <1>2

LEMMA InitTyped == FanoutInit => Typed
<1> SUFFICES ASSUME FanoutInit PROVE Typed
  OBVIOUS
<1>1. Cardinality({}) = 0 /\ MaxFriends \in Nat /\ MaxSubs \in Nat /\ MaxEvents \in Nat /\ EventBuffer \in Nat /\ SendBuffer \in Nat
  BY FS_EmptySet, FanoutAssumption
<1>2. <<>> \in Seq(Events) /\ Len(<<>>) = 0
  BY EmptyHas
<1>3. SendTyped
  BY DEF FanoutInit, SendTyped, Resting
<1>4. FanoutTypeOK
  BY <1>1, <1>2 DEF FanoutInit, FanoutTypeOK, Resting
<1> QED BY <1>3, <1>4 DEF Typed

LEMMA NextTyped ==
  ASSUME Typed, [FanoutNext]_fanoutVars
  PROVE  Typed'
<1> USE FanoutAssumption DEF Typed, Subs
<1>1. CASE \E u \in Users : PublishEvent(u)
  <2> PICK u \in Users : PublishEvent(u)
    BY <1>1
  <2>1. [number |-> published + 1, user |-> u] \in Events
    BY DEF PublishEvent, FanoutTypeOK, Events
  <2>2. \A q \in Seq(Events) : Append(q, [number |-> published + 1, user |-> u]) \in Seq(Events)
    BY <2>1, AppendHas
  <2> QED BY <2>1, <2>2 DEF PublishEvent, FanoutTypeOK, SendTyped, peerVars
<1>2. CASE \E c \in Clients : Join(c) \/ Fail(c)
  <2> PICK c \in Clients : Join(c) \/ Fail(c)
    BY <1>2
  <2>1. SendTyped'
    BY DEF Join, Fail, SendTyped, subVars
  <2>2. CASE Join(c)
    <3>1. current' \in 0..opened' /\ opened' \in 0..MaxSubs
      BY <2>2 DEF Join, FanoutTypeOK
    <3> QED BY <2>1, <2>2, <3>1 DEF Join, FanoutTypeOK, peerVars
  <2>3. CASE Fail(c)
    BY <2>1, <2>3 DEF Fail, FanoutTypeOK, peerVars, subVars
  <2> QED BY <2>1, <2>2, <2>3
<1>3. CASE \E c \in Clients : Leave(c)
  <2> PICK c \in Clients : Leave(c)
    BY <1>3
  <2>1. \A i \in Subs : \A n \in 0..Len(link[i]) : SubSeq(link[i], 1, n) \in Seq(Events)
    BY PrefixHas DEF FanoutTypeOK
  <2>2. SendTyped'
    BY DEF Leave, SendTyped
  <2>3. link' \in [Subs -> Seq(Events)] /\ current' \in 0..opened
    <3>1. CASE connections = {c} /\ current > 0
      <4>1. current \in Subs
        BY <3>1 DEF FanoutTypeOK
      <4>2. PICK n \in 0..Len(link[current]) : link' = [link EXCEPT ![current] = SubSeq(link[current], 1, n)]
        BY <3>1 DEF Leave
      <4> DEFINE rest == SubSeq(link[current], 1, n)
      <4>3. rest \in Seq(Events) /\ link' = [link EXCEPT ![current] = rest] /\ current' = 0
        BY <2>1, <3>1, <4>1, <4>2 DEF Leave
      <4> HIDE DEF rest
      <4>4. link' \in [Subs -> Seq(Events)]
        BY <4>3 DEF FanoutTypeOK
      <4>5. 0 \in 0..opened
        BY DEF FanoutTypeOK
      <4> QED BY <4>3, <4>4, <4>5
    <3>2. CASE ~(connections = {c} /\ current > 0)
      BY <3>2 DEF Leave, FanoutTypeOK
    <3> QED BY <3>1, <3>2
  <2> QED BY <2>2, <2>3 DEF Leave, FanoutTypeOK, peerVars
<1>4. CASE \E c \in Clients : Write(c)
  <2> PICK c \in Clients : Write(c)
    BY <1>4
  <2>1. /\ Tail(queue[c]) \in Seq(Events) /\ Len(Tail(queue[c])) = Len(queue[c]) - 1
        /\ Append(got[c], Head(queue[c])) \in Seq(Events)
    BY TailHas, AppendHas DEF Write, FanoutTypeOK
  <2>2. Len(queue[c]) \in Nat
    BY LenProperties DEF FanoutTypeOK
  <2>3. SendTyped'
    BY DEF Write, subVars, SendTyped
  <2> DEFINE rest == Tail(queue[c])
             more == Append(got[c], Head(queue[c]))
  <2>4. queue' = [queue EXCEPT ![c] = rest] /\ got' = [got EXCEPT ![c] = more]
    BY DEF Write
  <2>5. rest \in Seq(Events) /\ more \in Seq(Events) /\ Len(rest) <= Len(queue[c]) /\ Len(rest) \in Nat
    BY <2>1, <2>2, LenProperties
  <2> HIDE DEF rest, more
  <2>6. /\ queue' \in [Clients -> Seq(Events)] /\ got' \in [Clients -> Seq(Events)]
        /\ \A d \in Clients : Len(queue'[d]) <= SendBuffer
    <3>1. Len(rest) <= SendBuffer
      BY <2>2, <2>5 DEF FanoutTypeOK
    <3> QED BY <2>4, <2>5, <3>1 DEF FanoutTypeOK
  <2> QED BY <2>3, <2>6 DEF Write, FanoutTypeOK, subVars
<1>5. CASE \E c \in Clients : \E list \in SUBSET Users : SubscribeFriends(c, list)
  BY <1>5 DEF SubscribeFriends, FanoutTypeOK, SendTyped, subVars
<1>6. CASE \E i \in Subs : Relay(i)
  <2> PICK i \in Subs : Relay(i)
    BY <1>6
  <2>1. /\ Tail(link[i]) \in Seq(Events) /\ Head(link[i]) \in Events
        /\ Append(buffer[i], Head(link[i])) \in Seq(Events)
        /\ Len(Append(buffer[i], Head(link[i]))) = Len(buffer[i]) + 1 /\ Len(buffer[i]) \in Nat
    BY TailHas, AppendHas, LenProperties DEF Relay, FanoutTypeOK
  <2>2. SendTyped'
    BY DEF Relay, SendTyped
  <2>3. CASE Len(buffer[i]) < EventBuffer
    <3>1. /\ buffer' \in [Subs -> Seq(Events)] /\ \A j \in Subs : Len(buffer'[j]) <= EventBuffer
      <4> DEFINE r == Append(buffer[i], Head(link[i]))
      <4>1. buffer' = [buffer EXCEPT ![i] = r]
        BY <2>3 DEF Relay
      <4>2. r \in Seq(Events) /\ Len(r) <= EventBuffer
        BY <2>1, <2>3
      <4> HIDE DEF r
      <4> QED BY <4>1, <4>2 DEF FanoutTypeOK
    <3> QED BY <2>1, <2>2, <2>3, <3>1 DEF Relay, FanoutTypeOK, peerVars
  <2>4. CASE ~(Len(buffer[i]) < EventBuffer)
    BY <2>1, <2>2, <2>4 DEF Relay, FanoutTypeOK, peerVars
  <2> QED BY <2>3, <2>4
<1>7. CASE \E i \in Subs : Broadcast(i)
  <2> PICK i \in Subs : Broadcast(i)
    BY <1>7
  <2>1. /\ Tail(buffer[i]) \in Seq(Events) /\ Head(buffer[i]) \in Events
        /\ Len(Tail(buffer[i])) = Len(buffer[i]) - 1 /\ Len(buffer[i]) \in Nat
    BY TailHas, LenProperties DEF Broadcast, FanoutTypeOK
  <2>2. SendTyped'
    BY <2>1 DEF Broadcast, SendTyped, FanoutTypeOK
  <2>3. FanoutTypeOK'
    BY <2>1, <2>2 DEF Broadcast, FanoutTypeOK, SendTyped, peerVars
  <2> QED BY <2>2, <2>3
<1>8. CASE \E i \in Subs : \E c \in Clients : Offer(i, c)
  <2> PICK i \in Subs, c \in Clients : Offer(i, c)
    BY <1>8
  <2>1. SendTyped'
    BY SentTyped DEF Offer
  <2>2. Head(sending[i].event) \in Events
    BY BeingSent DEF Offer
  <2>3. /\ Append(queue[c], Head(sending[i].event)) \in Seq(Events) /\ Len(queue[c]) \in Nat
        /\ Len(Append(queue[c], Head(sending[i].event))) = Len(queue[c]) + 1
    BY <2>2, AppendHas, LenProperties DEF FanoutTypeOK
  <2>4. queue' \in [Clients -> Seq(Events)] /\ \A d \in Clients : Len(queue'[d]) <= SendBuffer
    <3> DEFINE r == Append(queue[c], Head(sending[i].event))
    <3>1. \/ queue' = queue
          \/ queue' = [queue EXCEPT ![c] = r] /\ Len(queue[c]) < SendBuffer
      BY DEF Offer
    <3>2. r \in Seq(Events) /\ (Len(queue[c]) < SendBuffer => Len(r) <= SendBuffer)
      BY <2>3
    <3> HIDE DEF r
    <3> QED BY <3>1, <3>2 DEF FanoutTypeOK
  <2>5. closed' \subseteq Clients
    BY DEF Offer, FanoutTypeOK
  <2> QED BY <2>1, <2>4, <2>5 DEF Offer, FanoutTypeOK, SendTyped
<1>9. CASE UNCHANGED fanoutVars
  BY <1>9 DEF fanoutVars, subVars, peerVars, FanoutTypeOK, SendTyped
<1> QED BY <1>1, <1>2, <1>3, <1>4, <1>5, <1>6, <1>7, <1>8, <1>9 DEF FanoutNext, SubStep

-----------------------------------------------------------------------------
\* Nobody gets an event twice.
Carries(i, e) == Has(link[i], e) \/ Has(buffer[i], e) \/ sending[i].event = <<e>>
Given(c, e) == Has(got[c], e) \/ Has(queue[c], e)

PlacesOnce == \A i \in Subs :
  /\ Once(link[i]) /\ Once(buffer[i])
  /\ \A e \in Events : /\ ~(Has(link[i], e) /\ Has(buffer[i], e))
                       /\ sending[i].event = <<e>> => ~Has(link[i], e) /\ ~Has(buffer[i], e)
OneSubscription == \A i, j \in Subs : \A e \in Events : Carries(i, e) /\ Carries(j, e) => i = j
GivenOnce == \A c \in Clients :
  /\ Once(got[c]) /\ Once(queue[c])
  /\ \A e \in Events : ~(Has(got[c], e) /\ Has(queue[c], e))
NotOffered == \A c \in Clients : \A i \in Subs : \A e \in Events : Given(c, e) =>
  ~Has(link[i], e) /\ ~Has(buffer[i], e) /\ (sending[i].event = <<e>> => c \notin sending[i].left)
Numbered == \A e \in Events :
  (\E i \in Subs : Carries(i, e)) \/ (\E c \in Clients : Given(c, e)) => e.number <= published

OnceInv == PlacesOnce /\ OneSubscription /\ GivenOnce /\ NotOffered /\ Numbered

LEMMA InitOnce == FanoutInit => OnceInv
<1> SUFFICES ASSUME FanoutInit PROVE OnceInv
  OBVIOUS
<1>1. \A i \in Subs : /\ Once(link[i]) /\ Once(buffer[i])
                      /\ \A e \in Events : ~Has(link[i], e) /\ ~Has(buffer[i], e) /\ sending[i].event # <<e>>
  BY EmptyHas DEF FanoutInit, Resting
<1>2. \A c \in Clients : /\ Once(got[c]) /\ Once(queue[c])
                         /\ \A e \in Events : ~Has(got[c], e) /\ ~Has(queue[c], e)
  BY EmptyHas DEF FanoutInit
<1> QED BY <1>1, <1>2 DEF OnceInv, PlacesOnce, OneSubscription, GivenOnce, NotOffered, Numbered, Carries, Given

\* What is lost from a place changes nothing.
LEMMA LostOnce ==
  ASSUME OnceInv, UNCHANGED <<published, buffer, sending, queue, got>>,
         \A i \in Subs : Once(link'[i]) /\ \A e \in Events : Has(link'[i], e) => Has(link[i], e)
  PROVE  OnceInv'
BY DEF OnceInv, PlacesOnce, OneSubscription, GivenOnce, NotOffered, Numbered, Carries, Given

LEMMA PublishOnce ==
  ASSUME Typed, OnceInv, NEW u \in Users, PublishEvent(u)
  PROVE  OnceInv'
<1> DEFINE e == [number |-> published + 1, user |-> u]
<1>1. e \in Events /\ e.number = published + 1 /\ published \in Nat
  BY FanoutAssumption DEF PublishEvent, Typed, FanoutTypeOK, Events
<1>2. \A i \in Subs : link'[i] = IF i = current THEN Append(link[i], e) ELSE link[i]
  BY DEF PublishEvent
<1>3. published' = published + 1 /\ UNCHANGED <<buffer, sending, queue, got>>
  BY DEF PublishEvent, peerVars
<1> HIDE DEF e
<1>4. ~(e.number <= published)
  BY <1>1
<1>5. /\ \A i \in Subs : ~Carries(i, e)
      /\ \A c \in Clients : ~Given(c, e)
  BY <1>1, <1>4 DEF OnceInv, Numbered
<1>6. \A i \in Subs :
        /\ Once(link'[i])
        /\ \A f \in Events : Has(link'[i], f) <=> \/ Has(link[i], f)
                                                  \/ i = current /\ f = e
  <2> TAKE i \in Subs
  <2>1. link[i] \in Seq(Events) /\ Once(link[i]) /\ ~Has(link[i], e)
    BY <1>5 DEF Typed, FanoutTypeOK, OnceInv, PlacesOnce, Carries
  <2> QED BY <1>1, <1>2, <2>1, AppendHas
<1>7. PlacesOnce'
  BY <1>3, <1>5, <1>6 DEF OnceInv, PlacesOnce, Carries
<1>8. OneSubscription'
  BY <1>3, <1>5, <1>6 DEF OnceInv, OneSubscription, Carries
<1>9. GivenOnce'
  BY <1>3 DEF OnceInv, GivenOnce
<1>10. NotOffered'
  BY <1>3, <1>5, <1>6 DEF OnceInv, NotOffered, Given
<1>11. Numbered'
  <2>1. \A f \in Events : f.number \in Nat
    BY DEF Events
  <2>2. \A f \in Events : f.number <= published => f.number <= published'
    BY <1>1, <1>3, <2>1
  <2>3. e.number <= published'
    BY <1>1, <1>3
  <2> QED BY <1>3, <1>6, <2>2, <2>3 DEF OnceInv, Numbered, Carries, Given
<1> QED BY <1>7, <1>8, <1>9, <1>10, <1>11 DEF OnceInv

LEMMA RelayOnce ==
  ASSUME Typed, OnceInv, NEW i \in Subs, Relay(i)
  PROVE  OnceInv'
<1> PICK e : e = Head(link[i])
  OBVIOUS
<1>1. UNCHANGED <<published, sending, queue, got>>
  BY DEF Relay, peerVars
<1>2. link[i] \in Seq(Events) /\ buffer[i] \in Seq(Events) /\ link[i] # <<>> /\ Once(link[i]) /\ Once(buffer[i])
  BY DEF Relay, Typed, FanoutTypeOK, OnceInv, PlacesOnce
<1>3. /\ e \in Events /\ Has(link[i], e) /\ Once(Tail(link[i])) /\ ~Has(Tail(link[i]), e)
      /\ \A f : Has(link[i], f) <=> (Has(Tail(link[i]), f) \/ f = e)
  BY <1>2, TailHas
<1>4. ~Has(buffer[i], e) /\ sending[i].event # <<e>>
  BY <1>3 DEF OnceInv, PlacesOnce
<1>5. /\ Once(Append(buffer[i], e))
      /\ \A f : Has(Append(buffer[i], e), f) <=> (Has(buffer[i], f) \/ f = e)
  BY <1>2, <1>3, <1>4, AppendHas
<1>6. \A j \in Subs : link'[j] = IF j = i THEN Tail(link[i]) ELSE link[j]
  BY DEF Relay, Typed, FanoutTypeOK
<1>7. \A j \in Subs : buffer'[j] = buffer[j] \/ (j = i /\ buffer'[j] = Append(buffer[i], e))
  BY DEF Relay, Typed, FanoutTypeOK
<1>8. \A j \in Subs :
        /\ Once(link'[j]) /\ Once(buffer'[j])
        /\ \A f \in Events : /\ Has(link'[j], f) => Has(link[j], f) /\ ~(j = i /\ f = e)
                             /\ Has(buffer'[j], f) => Has(buffer[j], f) \/ (j = i /\ f = e)
  BY <1>3, <1>5, <1>6, <1>7 DEF OnceInv, PlacesOnce
<1>9. \A j \in Subs : \A f \in Events : Carries(j, f)' => Carries(j, f)
  BY <1>1, <1>3, <1>8 DEF Carries
<1>10. PlacesOnce'
  BY <1>1, <1>4, <1>8 DEF OnceInv, PlacesOnce
<1>11. OneSubscription'
  BY <1>9 DEF OnceInv, OneSubscription
<1>12. GivenOnce'
  BY <1>1 DEF OnceInv, GivenOnce
<1>13. NotOffered'
  BY <1>1, <1>3, <1>8 DEF OnceInv, NotOffered, Given
<1>14. Numbered'
  BY <1>1, <1>9 DEF OnceInv, Numbered, Given
<1> QED BY <1>10, <1>11, <1>12, <1>13, <1>14 DEF OnceInv

LEMMA BroadcastOnce ==
  ASSUME Typed, OnceInv, NEW i \in Subs, Broadcast(i)
  PROVE  OnceInv'
<1> PICK e : e = Head(buffer[i])
  OBVIOUS
<1>1. UNCHANGED <<published, link, queue, got>> /\ sending[i].event = <<>>
  BY DEF Broadcast, peerVars, Resting
<1>2. buffer[i] \in Seq(Events) /\ buffer[i] # <<>> /\ Once(buffer[i])
  BY DEF Broadcast, Typed, FanoutTypeOK, OnceInv, PlacesOnce
<1>3. /\ e \in Events /\ Has(buffer[i], e) /\ Once(Tail(buffer[i])) /\ ~Has(Tail(buffer[i]), e)
      /\ \A f : Has(buffer[i], f) <=> (Has(Tail(buffer[i]), f) \/ f = e)
  BY <1>2, TailHas
<1>4. \A j \in Subs : buffer'[j] = IF j = i THEN Tail(buffer[i]) ELSE buffer[j]
  BY DEF Broadcast, Typed, FanoutTypeOK
<1>5. \A j \in Subs : sending'[j] = sending[j] \/ (j = i /\ sending'[j].event = <<e>>)
  BY DEF Broadcast, Typed, SendTyped
<1>6. \A j \in Subs :
        /\ Once(buffer'[j])
        /\ \A f \in Events : /\ Has(buffer'[j], f) => Has(buffer[j], f) /\ ~(j = i /\ f = e)
                             /\ sending'[j].event = <<f>> => \/ sending[j].event = <<f>> /\ sending'[j] = sending[j]
                                                             \/ j = i /\ f = e
  BY <1>1, <1>3, <1>4, <1>5 DEF OnceInv, PlacesOnce
<1>7. \A j \in Subs : \A f \in Events : Carries(j, f)' => Carries(j, f)
  BY <1>1, <1>3, <1>6 DEF Carries
<1>8. ~Has(link[i], e) /\ \A c \in Clients : ~Given(c, e)
  BY <1>3 DEF OnceInv, PlacesOnce, NotOffered
<1>9. PlacesOnce'
  BY <1>1, <1>6, <1>8 DEF OnceInv, PlacesOnce
<1>10. OneSubscription'
  BY <1>7 DEF OnceInv, OneSubscription
<1>11. GivenOnce'
  BY <1>1 DEF OnceInv, GivenOnce
<1>12. NotOffered'
  BY <1>1, <1>6, <1>8 DEF OnceInv, NotOffered, Given
<1>13. Numbered'
  BY <1>1, <1>7 DEF OnceInv, Numbered, Given
<1> QED BY <1>9, <1>10, <1>11, <1>12, <1>13 DEF OnceInv

LEMMA OfferOnce ==
  ASSUME Typed, OnceInv, NEW i \in Subs, NEW c \in Clients, Offer(i, c)
  PROVE  OnceInv'
<1> PICK e : e = Head(sending[i].event)
  OBVIOUS
<1>1. UNCHANGED <<published, link, buffer, got>> /\ c \in sending[i].left
  BY DEF Offer
<1>2. e \in Events /\ sending[i].event = <<e>>
  BY <1>1, BeingSent DEF Typed
<1>3. queue[c] \in Seq(Events) /\ Once(queue[c]) /\ ~Has(queue[c], e) /\ ~Has(got[c], e)
  BY <1>1, <1>2 DEF Typed, FanoutTypeOK, OnceInv, GivenOnce, NotOffered, Given
<1>4. /\ Once(Append(queue[c], e))
      /\ \A f : Has(Append(queue[c], e), f) <=> (Has(queue[c], f) \/ f = e)
  BY <1>2, <1>3, AppendHas
<1>5. \A d \in Clients : queue'[d] = queue[d] \/ (d = c /\ queue'[d] = Append(queue[c], e))
  BY DEF Offer, Typed, FanoutTypeOK
<1>6. \A d \in Clients :
        /\ Once(queue'[d])
        /\ \A f \in Events : Has(queue'[d], f) => Has(queue[d], f) \/ (d = c /\ f = e)
  BY <1>4, <1>5 DEF OnceInv, GivenOnce
<1>7. \A j \in Subs : \A f \in Events : sending'[j].event = <<f>> =>
        /\ sending[j].event = <<f>> /\ sending'[j].left \subseteq sending[j].left
        /\ j = i => c \notin sending'[j].left
  BY DEF Offer, Sent, Resting, Typed, SendTyped
<1>8. \A j \in Subs : ~Has(link[j], e) /\ ~Has(buffer[j], e) /\ (sending[j].event = <<e>> => j = i)
  BY <1>2 DEF OnceInv, PlacesOnce, OneSubscription, Carries
<1>9. \A j \in Subs : \A f \in Events : Carries(j, f)' => Carries(j, f)
  BY <1>1, <1>7 DEF Carries
<1>10. PlacesOnce'
  BY <1>1, <1>7 DEF OnceInv, PlacesOnce
<1>11. OneSubscription'
  BY <1>9 DEF OnceInv, OneSubscription
<1>12. GivenOnce'
  BY <1>1, <1>3, <1>6 DEF OnceInv, GivenOnce
<1>13. NotOffered'
  BY <1>1, <1>6, <1>7, <1>8 DEF OnceInv, NotOffered, Given
<1>14. Numbered'
  BY <1>1, <1>2, <1>6, <1>9 DEF OnceInv, Numbered, Given, Carries
<1> QED BY <1>10, <1>11, <1>12, <1>13, <1>14 DEF OnceInv

LEMMA WriteOnce ==
  ASSUME Typed, OnceInv, NEW c \in Clients, Write(c)
  PROVE  OnceInv'
<1> PICK e : e = Head(queue[c])
  OBVIOUS
<1>1. UNCHANGED <<published, link, buffer, sending>>
  BY DEF Write, subVars
<1>2. /\ queue[c] \in Seq(Events) /\ queue[c] # <<>> /\ Once(queue[c])
      /\ got[c] \in Seq(Events) /\ Once(got[c])
  BY DEF Write, Typed, FanoutTypeOK, OnceInv, GivenOnce
<1>3. /\ e \in Events /\ Has(queue[c], e) /\ Once(Tail(queue[c])) /\ ~Has(Tail(queue[c]), e)
      /\ \A f : Has(queue[c], f) <=> (Has(Tail(queue[c]), f) \/ f = e)
  BY <1>2, TailHas
<1>4. ~Has(got[c], e)
  BY <1>3 DEF OnceInv, GivenOnce
<1>5. /\ Once(Append(got[c], e))
      /\ \A f : Has(Append(got[c], e), f) <=> (Has(got[c], f) \/ f = e)
  BY <1>2, <1>3, <1>4, AppendHas
<1>6. \A d \in Clients : /\ queue'[d] = IF d = c THEN Tail(queue[c]) ELSE queue[d]
                        /\ got'[d] = IF d = c THEN Append(got[c], e) ELSE got[d]
  BY DEF Write, Typed, FanoutTypeOK
<1>7. \A d \in Clients :
        /\ Once(queue'[d]) /\ Once(got'[d])
        /\ \A f \in Events : /\ Has(queue'[d], f) => Has(queue[d], f) /\ ~(d = c /\ f = e)
                             /\ Has(got'[d], f) => Has(got[d], f) \/ (d = c /\ f = e)
  BY <1>3, <1>5, <1>6 DEF OnceInv, GivenOnce
<1>8. \A d \in Clients : \A f \in Events : Given(d, f)' => Given(d, f)
  BY <1>3, <1>7 DEF Given
<1>9. PlacesOnce' /\ OneSubscription'
  BY <1>1 DEF OnceInv, PlacesOnce, OneSubscription, Carries
<1>10. GivenOnce'
  BY <1>4, <1>7 DEF OnceInv, GivenOnce
<1>11. NotOffered'
  BY <1>1, <1>8 DEF OnceInv, NotOffered
<1>12. Numbered'
  BY <1>1, <1>8 DEF OnceInv, Numbered, Carries
<1> QED BY <1>9, <1>10, <1>11, <1>12 DEF OnceInv

LEMMA NextOnce ==
  ASSUME Typed, OnceInv, [FanoutNext]_fanoutVars
  PROVE  OnceInv'
<1>1. CASE UNCHANGED <<published, link, buffer, sending, queue, got>>
  BY <1>1, LostOnce DEF OnceInv, PlacesOnce
<1>2. CASE \E c \in Clients : Leave(c)
  <2> PICK c \in Clients : Leave(c)
    BY <1>2
  <2>1. \A i \in Subs : link'[i] = link[i] \/ \E n \in 0..Len(link[i]) : link'[i] = SubSeq(link[i], 1, n)
    BY DEF Leave, Typed, FanoutTypeOK
  <2>2. \A i \in Subs : Once(link'[i]) /\ \A e \in Events : Has(link'[i], e) => Has(link[i], e)
    <3> TAKE i \in Subs
    <3>1. link[i] \in Seq(Events) /\ Once(link[i])
      BY DEF Typed, FanoutTypeOK, OnceInv, PlacesOnce
    <3> QED BY <2>1, <3>1, PrefixHas
  <2> QED BY <2>2, LostOnce DEF Leave, peerVars
<1>3. CASE \E c \in Clients : Join(c) \/ Fail(c) \/ \E list \in SUBSET Users : SubscribeFriends(c, list)
  BY <1>1, <1>3 DEF Join, Fail, SubscribeFriends, subVars, peerVars
<1>4. CASE UNCHANGED fanoutVars
  BY <1>1, <1>4 DEF fanoutVars, subVars, peerVars
<1> QED BY <1>2, <1>3, <1>4, PublishOnce, RelayOnce, BroadcastOnce, OfferOnce, WriteOnce DEF FanoutNext, SubStep

LEMMA OnceIsEnough == Typed /\ OnceInv => AtMostOnce
<1> SUFFICES ASSUME Typed, OnceInv, NEW c \in Clients PROVE IsInjective(Handed(c))
  BY DEF AtMostOnce
<1>1. /\ got[c] \in Seq(Events) /\ queue[c] \in Seq(Events) /\ Once(got[c]) /\ Once(queue[c])
      /\ \A e \in Events : ~(Has(got[c], e) /\ Has(queue[c], e))
  BY DEF Typed, FanoutTypeOK, OnceInv, GivenOnce
<1> QED BY <1>1, ConcatHas DEF Handed

-----------------------------------------------------------------------------
\* Who stays misses nothing.  Without a subscription, as for who has not come yet,
\* there is nothing to miss.
Arrives(c, e) == \/ Has(got[c], e) \/ Has(queue[c], e) \/ e \in overflowed
                 \/ /\ current > 0
                    /\ \/ Has(link[current], e) \/ Has(buffer[current], e)
                       \/ sending[current].event = <<e>> /\ c \in sending[current].left

Open == connections \ closed

MissInv ==
  /\ \A c \in Clients \ (connections \cup closed) : due[c] = {}
  /\ \A c \in Open : due[c] # {} => current > 0
  /\ \A c \in Open : \A e \in due[c] : Wants(c, e, friends[c]) /\ Arrives(c, e)

LEMMA MissIsEnough == Typed /\ MissInv => OpenMissesNothing
<1> SUFFICES ASSUME Typed, MissInv, NEW c \in Open, NEW e \in due[c]
             PROVE  e \in ToSet(Handed(c)) \/ e \in overflowed \/ OnItsWay(c, e)
  BY DEF OpenMissesNothing, Open
<1>1. c \in Clients
  BY DEF Typed, FanoutTypeOK, Open
<1>2. e \in ToSet(Handed(c)) <=> (Has(got[c], e) \/ Has(queue[c], e))
  BY <1>1, ConcatHas DEF Handed, Typed, FanoutTypeOK
<1>3. ASSUME current > 0
      PROVE  /\ e \in ToSet(link[current]) <=> Has(link[current], e)
             /\ e \in ToSet(buffer[current]) <=> Has(buffer[current], e)
  <2>1. current \in Subs
    BY <1>3, FanoutAssumption DEF Typed, FanoutTypeOK, Subs
  <2> QED BY <2>1, HasIsIn DEF Typed, FanoutTypeOK
<1> QED BY <1>2, <1>3 DEF MissInv, Arrives, OnItsWay

\* It is enough that what arrives still does, for whom is still there.
LEMMA StillArrives ==
  ASSUME MissInv, UNCHANGED <<current, due, friends, connections>>, closed \subseteq closed',
         \A c \in Open' : \A e \in due[c] : Arrives(c, e) => Arrives(c, e)'
  PROVE  MissInv'
<1>1. Open' \subseteq Open
  BY DEF Open
<1> QED BY <1>1 DEF MissInv, Wants

LEMMA PublishMisses ==
  ASSUME Typed, MissInv, NEW u \in Users, PublishEvent(u)
  PROVE  MissInv'
<1> PICK e : e = [number |-> published + 1, user |-> u]
  OBVIOUS
<1>1. e \in Events
  BY FanoutAssumption DEF PublishEvent, Typed, FanoutTypeOK, Events
<1>2. \A i \in Subs : link'[i] = IF i = current THEN Append(link[i], e) ELSE link[i]
  BY DEF PublishEvent
<1>3. UNCHANGED <<current, buffer, sending, connections, closed, friends, queue, got, overflowed>>
  BY DEF PublishEvent, peerVars
<1>4. \A c \in Clients : \/ due'[c] = due[c]
                         \/ /\ due'[c] = due[c] \cup {e} /\ current > 0
                            /\ c \in connections /\ Wants(c, e, friends[c])
  BY DEF PublishEvent
<1>5. ASSUME current > 0 PROVE \A f : Has(link'[current], f) <=> (Has(link[current], f) \/ f = e)
  <2>1. current \in Subs
    BY <1>5, FanoutAssumption DEF Typed, FanoutTypeOK, Subs
  <2>2. link[current] \in Seq(Events)
    BY <2>1 DEF Typed, FanoutTypeOK
  <2> QED BY <1>1, <1>2, <2>1, <2>2, AppendHas
<1>6. Open \subseteq Clients /\ Open' = Open
  BY <1>3 DEF Open, Typed, FanoutTypeOK
<1>7. \A c \in Open : \A f \in due'[c] : Wants(c, f, friends[c]) /\ Arrives(c, f)'
  <2> SUFFICES ASSUME NEW c \in Open, NEW f \in due'[c] PROVE Wants(c, f, friends[c]) /\ Arrives(c, f)'
    OBVIOUS
  <2>1. CASE f \in due[c]
    BY <1>3, <1>5, <2>1 DEF MissInv, Arrives
  <2>2. CASE f \notin due[c]
    <3>1. f = e /\ current > 0 /\ Wants(c, f, friends[c])
      BY <1>4, <1>6, <2>2
    <3> QED BY <1>3, <1>5, <3>1 DEF Arrives
  <2> QED BY <2>1, <2>2
<1>8. \A c \in Open : due'[c] # {} => current' > 0
  BY <1>3, <1>4, <1>6 DEF MissInv
<1>9. \A c \in Clients \ (connections \cup closed) : due'[c] = {}
  BY <1>4 DEF MissInv
<1> QED BY <1>3, <1>6, <1>7, <1>8, <1>9 DEF MissInv, Wants

LEMMA JoinMisses ==
  ASSUME Typed, MissInv, NEW c \in Clients, Join(c)
  PROVE  MissInv'
<1>1. /\ connections' = connections \cup {c} /\ c \notin connections \cup closed
      /\ UNCHANGED <<link, buffer, sending, closed, friends, queue, got, due, overflowed>>
      /\ current' = current \/ current = 0
  BY DEF Join, peerVars
<1>2. due[c] = {}
  BY <1>1 DEF MissInv
<1>3. \A d \in Open' : d \in Open \/ d = c
  BY <1>1 DEF Open
<1>4. \A d \in Open' : due[d] # {} => d \in Open /\ current > 0 /\ current' = current
  BY <1>1, <1>2, <1>3 DEF MissInv
<1>5. \A d \in Open' : \A e \in due[d] : Arrives(d, e)'
  BY <1>1, <1>4 DEF MissInv, Arrives
<1> QED BY <1>1, <1>4, <1>5 DEF MissInv, Wants

LEMMA GoneMisses ==
  ASSUME Typed, MissInv, NEW c \in Clients, Fail(c) \/ Leave(c)
  PROVE  MissInv'
<1>1. CASE Fail(c)
  <2>1. /\ connections' = connections /\ closed' = closed \cup {c} /\ c \in connections
        /\ UNCHANGED <<current, link, buffer, sending, friends, queue, got, due, overflowed>>
    BY <1>1 DEF Fail, subVars, peerVars
  <2> QED BY <2>1, StillArrives DEF Arrives
<1>2. CASE Leave(c)
  <2>1. /\ connections' = connections \ {c} /\ c \in connections /\ c \in closed
        /\ UNCHANGED <<buffer, sending, closed, friends, queue, got, due, overflowed>>
        /\ connections = {c} \/ UNCHANGED <<current, link>>
    BY <1>2 DEF Leave, peerVars
  <2>2. Open' = Open /\ connections' \cup closed' = connections \cup closed
    BY <2>1 DEF Open
  <2>3. CASE connections = {c}
    <3>1. Open' = {}
      BY <2>1, <2>3 DEF Open
    <3> QED BY <2>1, <2>2, <3>1 DEF MissInv
  <2>4. CASE UNCHANGED <<current, link>>
    BY <2>1, <2>2, <2>4 DEF MissInv, Arrives, Wants
  <2> QED BY <2>1, <2>3, <2>4
<1> QED BY <1>1, <1>2

LEMMA FriendsMisses ==
  ASSUME Typed, MissInv, NEW c \in Clients, NEW list \in SUBSET Users, SubscribeFriends(c, list)
  PROVE  MissInv'
<1>1. UNCHANGED <<current, link, buffer, sending, connections, closed, queue, got, overflowed>>
  BY DEF SubscribeFriends, subVars
<1>2. \A d \in Clients : \/ d # c /\ friends'[d] = friends[d] /\ due'[d] = due[d]
                         \/ d = c /\ friends'[d] = list /\ due'[d] = {e \in due[d] : Wants(d, e, list)}
  BY DEF SubscribeFriends, Typed, FanoutTypeOK
<1>3. Open' = Open /\ Open \subseteq Clients
  BY <1>1 DEF Open, Typed, FanoutTypeOK
<1>4. \A d \in Clients : due'[d] \subseteq due[d]
  BY <1>2
<1>5. \A d \in Open : \A e \in due'[d] : Wants(d, e, friends'[d]) /\ Arrives(d, e)'
  BY <1>1, <1>2, <1>3, <1>4 DEF MissInv, Arrives
<1>6. \A d \in Open : due'[d] # {} => current' > 0
  BY <1>1, <1>3, <1>4 DEF MissInv
<1>7. \A d \in Clients \ (connections' \cup closed') : due'[d] = {}
  BY <1>1, <1>4 DEF MissInv
<1> QED BY <1>3, <1>5, <1>6, <1>7 DEF MissInv, Wants

LEMMA RelayMisses ==
  ASSUME Typed, MissInv, NEW i \in Subs, Relay(i)
  PROVE  MissInv'
<1> PICK e : e = Head(link[i])
  OBVIOUS
<1>1. UNCHANGED <<current, sending, connections, closed, friends, queue, got, due>>
  BY DEF Relay, peerVars
<1>2. link[i] \in Seq(Events) /\ buffer[i] \in Seq(Events) /\ link[i] # <<>>
  BY DEF Relay, Typed, FanoutTypeOK
<1>3. e \in Events /\ \A f : Has(link[i], f) <=> (Has(Tail(link[i]), f) \/ f = e)
  BY <1>2, TailHas
<1>4. \A f : Has(Append(buffer[i], e), f) <=> (Has(buffer[i], f) \/ f = e)
  BY <1>2, <1>3, AppendHas
<1>5. /\ \A j \in Subs : j # i => link'[j] = link[j] /\ buffer'[j] = buffer[j]
      /\ link'[i] = Tail(link[i])
      /\ \/ buffer'[i] = Append(buffer[i], e) /\ overflowed' = overflowed
         \/ buffer'[i] = buffer[i] /\ overflowed' = overflowed \cup {e}
  <2>1. \/ buffer' = [buffer EXCEPT ![i] = Append(buffer[i], e)] /\ overflowed' = overflowed
        \/ buffer' = buffer /\ overflowed' = overflowed \cup {e}
    BY DEF Relay
  <2> QED BY <2>1 DEF Relay, Typed, FanoutTypeOK
<1>6. current > 0 => current \in Subs
  BY FanoutAssumption DEF Typed, FanoutTypeOK, Subs
<1>7. \A c, f : Arrives(c, f) => Arrives(c, f)'
  BY <1>1, <1>3, <1>4, <1>5, <1>6 DEF Arrives
<1> QED BY <1>1, <1>7, StillArrives

LEMMA BroadcastMisses ==
  ASSUME Typed, MissInv, NEW i \in Subs, Broadcast(i)
  PROVE  MissInv'
<1> PICK e : e = Head(buffer[i])
  OBVIOUS
<1>1. UNCHANGED <<current, link, connections, closed, friends, queue, got, due, overflowed>>
  BY DEF Broadcast, peerVars
<1>2. buffer[i] \in Seq(Events) /\ buffer[i] # <<>> /\ sending[i] = Resting
  BY DEF Broadcast, Typed, FanoutTypeOK
<1>3. \A f : Has(buffer[i], f) <=> (Has(Tail(buffer[i]), f) \/ f = e)
  BY <1>2, TailHas
<1>4. /\ buffer'[i] = Tail(buffer[i]) /\ \A j \in Subs \ {i} : buffer'[j] = buffer[j]
      /\ \A j \in Subs \ {i} : sending'[j] = sending[j]
      /\ connections # {} => sending'[i] = [event |-> <<e>>, left |-> connections]
  BY DEF Broadcast, Typed, FanoutTypeOK, SendTyped
<1>5. current > 0 => current \in Subs
  BY FanoutAssumption DEF Typed, FanoutTypeOK, Subs
<1>6. \A c \in Open : \A f : Arrives(c, f) => Arrives(c, f)'
  <2> SUFFICES ASSUME NEW c \in Open, NEW f, Arrives(c, f) PROVE Arrives(c, f)'
    OBVIOUS
  <2>1. c \in connections
    BY DEF Open
  <2>2. CASE current = i
    <3>1. sending'[current].event = <<e>> /\ c \in sending'[current].left
      BY <1>4, <2>1, <2>2
    <3>2. c \notin sending[current].left
      BY <1>2, <2>2 DEF Resting
    <3> QED BY <1>1, <1>3, <1>4, <2>2, <3>1, <3>2 DEF Arrives
  <2>3. CASE current # i
    BY <1>1, <1>4, <1>5, <2>3 DEF Arrives
  <2> QED BY <2>2, <2>3
<1>7. Open' = Open
  BY <1>1 DEF Open
<1> QED BY <1>1, <1>6, <1>7, StillArrives

LEMMA OfferMisses ==
  ASSUME DisconnectSlow, Typed, MissInv, NEW i \in Subs, NEW c \in Clients, Offer(i, c)
  PROVE  MissInv'
<1> PICK e : e = Head(sending[i].event)
  OBVIOUS
<1>1. /\ UNCHANGED <<current, link, buffer, connections, friends, got, due, overflowed>>
      /\ closed \subseteq closed' /\ c \in sending[i].left
  BY DEF Offer
<1>2. e \in Events /\ sending[i].event = <<e>> /\ i \in Subs
  BY <1>1, BeingSent DEF Typed
<1>3. queue[c] \in Seq(Events) /\ Len(queue[c]) \in Nat /\ Len(queue[c]) <= SendBuffer
  BY LenProperties DEF Typed, FanoutTypeOK
<1>4. \A f : Has(Append(queue[c], e), f) <=> (Has(queue[c], f) \/ f = e)
  BY <1>2, <1>3, AppendHas
<1>5. /\ \A d \in Clients : queue'[d] = queue[d] \/ (d = c /\ queue'[d] = Append(queue[c], e))
      /\ Passes(c, e) /\ c \notin closed /\ Len(queue[c]) < SendBuffer => queue'[c] = Append(queue[c], e)
      /\ Passes(c, e) /\ Len(queue[c]) = SendBuffer => c \in closed'
  BY DEF Offer, Typed, FanoutTypeOK
<1>6. \A j \in Subs : \A d \in sending[j].left : d # c \/ j # i =>
        sending'[j].event = sending[j].event /\ d \in sending'[j].left
  BY DEF Offer, Sent, Typed, SendTyped
<1>7. ASSUME NEW d \in Open', NEW f \in due[d], Arrives(d, f) PROVE Arrives(d, f)'
  <2>1. d \in Clients /\ d \in Open /\ d \notin closed'
    BY <1>1, <1>7 DEF Open, Typed, FanoutTypeOK
  <2>2. Has(queue[d], f) => Has(queue'[d], f)
    BY <1>4, <1>5, <2>1
  <2>3. CASE current = i /\ d = c /\ sending[i].event = <<f>>
    <3>1. f = e
      BY <1>2, <2>3
    <3>2. Passes(c, e)
      BY <1>7, <2>1, <2>3, <3>1 DEF MissInv, Passes
    <3>3. Has(queue'[c], e)
      <4>1. Len(queue[c]) # SendBuffer /\ c \notin closed
        BY <1>1, <1>5, <2>1, <2>3, <3>2
      <4>2. Len(queue[c]) < SendBuffer
        BY <1>3, <4>1, FanoutAssumption
      <4> QED BY <1>4, <1>5, <3>2, <4>1, <4>2
    <3> QED BY <2>3, <3>1, <3>3 DEF Arrives
  <2>4. CASE ~(current = i /\ d = c /\ sending[i].event = <<f>>)
    <3>1. current > 0 => current \in Subs
      BY FanoutAssumption DEF Typed, FanoutTypeOK, Subs
    <3>2. current > 0 /\ sending[current].event = <<f>> /\ d \in sending[current].left =>
            sending'[current].event = <<f>> /\ d \in sending'[current].left
      BY <1>6, <2>4, <3>1
    <3> QED BY <1>1, <1>7, <2>2, <3>2 DEF Arrives
  <2> QED BY <2>3, <2>4
<1> QED BY <1>1, <1>7, StillArrives

LEMMA WriteMisses ==
  ASSUME Typed, MissInv, NEW c \in Clients, Write(c)
  PROVE  MissInv'
<1> PICK e : e = Head(queue[c])
  OBVIOUS
<1>1. UNCHANGED <<current, link, buffer, sending, connections, closed, friends, due, overflowed>>
  BY DEF Write, subVars
<1>2. queue[c] \in Seq(Events) /\ queue[c] # <<>> /\ got[c] \in Seq(Events)
  BY DEF Write, Typed, FanoutTypeOK
<1>3. e \in Events /\ \A f : Has(queue[c], f) <=> (Has(Tail(queue[c]), f) \/ f = e)
  BY <1>2, TailHas
<1>4. \A f : Has(Append(got[c], e), f) <=> (Has(got[c], f) \/ f = e)
  BY <1>2, <1>3, AppendHas
<1>5. \A d \in Clients : /\ queue'[d] = IF d = c THEN Tail(queue[c]) ELSE queue[d]
                        /\ got'[d] = IF d = c THEN Append(got[c], e) ELSE got[d]
  BY DEF Write, Typed, FanoutTypeOK
<1>6. \A d \in Clients : \A f : Arrives(d, f) => Arrives(d, f)'
  BY <1>1, <1>3, <1>4, <1>5 DEF Arrives
<1>7. Open' \subseteq Clients
  BY <1>1 DEF Open, Typed, FanoutTypeOK
<1> QED BY <1>1, <1>6, <1>7, StillArrives

LEMMA NextMisses ==
  ASSUME DisconnectSlow, Typed, MissInv, [FanoutNext]_fanoutVars
  PROVE  MissInv'
<1>1. CASE UNCHANGED fanoutVars
  BY <1>1 DEF fanoutVars, subVars, peerVars, MissInv, Arrives, Open, Wants
<1> QED BY <1>1, PublishMisses, JoinMisses, GoneMisses, FriendsMisses, RelayMisses, BroadcastMisses, OfferMisses, WriteMisses
        DEF FanoutNext, SubStep

-----------------------------------------------------------------------------
\* The types of Fanout; with them the limits of every channel (EventBuffer,
\* SlowConsumerBuffer) and of subscribedUsers (MaxFriendSubscriptions).
THEOREM FanoutTypes == FanoutSpec => []Typed
<1>1. [FanoutNext]_fanoutVars /\ Typed => Typed'
  BY NextTyped
<1> QED BY <1>1, InitTyped, PTL DEF FanoutSpec

THEOREM FanoutTypeCorrect == FanoutSpec => []FanoutTypeOK
<1>1. Typed => FanoutTypeOK
  BY DEF Typed
<1> QED BY <1>1, FanoutTypes, PTL

\* No client is handed an event twice (broadcastToScope and the goroutines of
\* cancelled subscriptions).
THEOREM FanoutAtMostOnce == FanoutSpec => []AtMostOnce
<1>1. Typed /\ OnceInv /\ [FanoutNext]_fanoutVars => OnceInv'
  BY NextOnce
<1> QED BY <1>1, InitOnce, OnceIsEnough, FanoutTypes, PTL DEF FanoutSpec

\* With DISCONNECT_SLOW_CONSUMERS a client that is still connected misses only what
\* the channel of the subscription had no room for.
THEOREM FanoutMissesNothing == FanoutSpec => []OpenMissesNothing
<1>1. CASE DisconnectSlow
  <2>1. FanoutInit => MissInv
    BY DEF FanoutInit, MissInv, Open
  <2>2. Typed /\ MissInv /\ [FanoutNext]_fanoutVars => MissInv'
    BY <1>1, NextMisses
  <2> QED BY <2>1, <2>2, MissIsEnough, FanoutTypes, PTL DEF FanoutSpec
<1>2. CASE ~DisconnectSlow
  <2>1. OpenMissesNothing
    BY <1>2 DEF OpenMissesNothing
  <2> QED BY <2>1, PTL
<1> QED BY <1>1, <1>2
=============================================================================
