-------------------------- MODULE Heartbeat_proofs --------------------------
(***************************************************************************)
(* Proofs about Heartbeat: with durations that fit, a client that lives    *)
(* keeps its session and its connection, whatever the delays.              *)
(***************************************************************************)
EXTENDS Heartbeat, TLAPS

\* A clock that was set to total at most ago ago and has left until it runs out.
SetWithin(total, left, ago) == total <= left + ago

\* The most that may have passed since the session key was set when a heartbeat is sent after n
\* others were refused, less the time since the one before it was sent.
Owed(n) == RateLimit + Delay - 1 + n * MaxGap

\* lastHeartbeat is never more than Delay behind the key.
Accepted == /\ pump.at = "script" => stamped = RateLimit
            /\ pump.at = "read" /\ stamped < RateLimit => SetWithin(SessionTTL, key, stamped + Delay)
            /\ pump.at \in {"joined", "stamp"} => SetWithin(SessionTTL, key, pump.age)

\* The newest heartbeat under way is the last one sent, and each other one, the
\* one in the pump too, was followed by the next in time.
Sent == /\ \A a \in wire : quiet <= a
        /\ wire # {} => quiet \in wire
        /\ \A a \in wire : a = quiet \/ \E b \in wire : b < a /\ a <= b + MaxGap
        /\ pump.at \in {"connect", "joined"} => pump.age <= quiet + Delay
        /\ pump.at \in {"script", "stamp"} => quiet >= 0
        /\ pump.at = "script" => \/ wire = {} /\ pump.age = quiet
                                 \/ \E b \in wire : pump.age <= b + MaxGap

\* Some heartbeat that is under way was sent in time.
Renewed == /\ pump.at = "read" /\ wire = {} => SetWithin(SessionTTL, key, quiet + Owed(lost))
           /\ pump.at = "read" /\ wire # {} => \E a \in wire : SetWithin(SessionTTL, key, a + Owed(lost + 1))
           /\ pump.at = "script" => SetWithin(SessionTTL, key, pump.age + Owed(lost + 1))

\* The read deadline was set after the last ping but one.
Answered == /\ pings = {} => SetWithin(PongWait, deadline, ticker)
            /\ pings # {} => \E p \in pings : SetWithin(PongWait, deadline, p + PingPeriod)

Kept == pump.at # "closed" /\ Accepted /\ Sent /\ Renewed /\ Answered

KeptInv == BeatTypeOK /\ (up /\ ~ended => Kept)

-----------------------------------------------------------------------------
\* How SetWithin moves with time.
LEMMA SetNow == ASSUME NEW total \in Int, NEW ago \in Nat PROVE SetWithin(total, total, ago)
BY DEF SetWithin

LEMMA SetMore == ASSUME NEW total \in Int, NEW left \in Int, NEW ago \in Int, NEW more \in Int,
                        SetWithin(total, left, ago), ago <= more
                 PROVE  SetWithin(total, left, more)
BY DEF SetWithin

LEMMA SetTick == ASSUME NEW total \in Int, NEW left \in Int, NEW later \in Int, NEW ago \in Int,
                        SetWithin(total, left, ago), left - 1 <= later
                 PROVE  SetWithin(total, later, ago + 1)
BY DEF SetWithin

\* What is owed grows by the longest gap with each heartbeat refused, and fits
\* into the TTL as long as no more are refused than MaxLost.
LEMMA OwedGrows ==
  ASSUME HeartbeatAssumption, NEW n \in 0..MaxLost
  PROVE  /\ Owed(n) \in Int /\ Owed(n + 1) = Owed(n) + MaxGap
         /\ RateLimit + Delay - 1 <= Owed(n)
         /\ TTLFits => Delay + Owed(n + 1) < SessionTTL
<1>1. /\ n \in Nat /\ MaxLost \in Nat /\ MaxGap \in Nat /\ n <= MaxLost
      /\ RateLimit \in Nat /\ Delay \in Nat /\ SessionTTL \in Nat
  BY DEF HeartbeatAssumption
<1>2. n * MaxGap \in Nat
  BY <1>1
<1>3. (n + 1) * MaxGap = n * MaxGap + MaxGap
  BY <1>1
<1>4. (MaxLost + 1) * MaxGap = MaxLost * MaxGap + MaxGap /\ MaxLost * MaxGap \in Nat
  BY <1>1
<1>5. n * MaxGap <= MaxLost * MaxGap
  <2>1. PICK k \in Nat : MaxLost = n + k
    BY <1>1
  <2>2. (n + k) * MaxGap = n * MaxGap + k * MaxGap /\ k * MaxGap \in Nat
    BY <1>1, <2>1
  <2> QED BY <1>1, <1>2, <2>1, <2>2
<1> QED BY <1>1, <1>2, <1>3, <1>4, <1>5 DEF Owed, TTLFits

\* Types are kept by every step.
LEMMA BeatTypesKept == HeartbeatAssumption /\ BeatTypeOK /\ [BeatNext]_beatVars => BeatTypeOK'
<1> SUFFICES ASSUME HeartbeatAssumption, BeatTypeOK, [BeatNext]_beatVars PROVE BeatTypeOK'
  OBVIOUS
<1> USE DEF HeartbeatAssumption, BeatTypeOK, PumpSteps
<1>1. CASE SendHeartbeat
  BY <1>1 DEF SendHeartbeat, timerVars
<1>2. CASE ClientDies
  BY <1>2 DEF ClientDies, timerVars
<1>3. CASE Connect \/ FinishConnect \/ Stamp
  BY <1>3 DEF Connect, FinishConnect, Stamp, Reading, timerVars, clientVars
<1>4. ASSUME NEW a \in wire, ReadHeartbeat(a) PROVE BeatTypeOK'
  BY <1>4 DEF ReadHeartbeat, Reject, Accept, timerVars, clientVars
<1>5. CASE Extend
  BY <1>5 DEF Extend, timerVars, clientVars
<1>6. CASE Refused
  BY <1>6 DEF Refused, Reading, timerVars, clientVars
<1>7. CASE SessionUnknown \/ ReadTimeout
  BY <1>7 DEF SessionUnknown, ReadTimeout, CloseConnection, Closed, timerVars, clientVars
<1>8. ASSUME NEW p \in pings, ReadPong(p) PROVE BeatTypeOK'
  BY <1>8 DEF ReadPong, clientVars
<1>9. CASE Ping
  BY <1>9 DEF Ping, clientVars
<1>10. CASE Tick
  <2>1. wire' \subseteq 0..Delay
    BY <1>10 DEF Tick, Later
  <2>2. pings' \subseteq 0..RoundTrip
    BY <1>10 DEF Tick, Later
  <2>3. pump' \in [at : PumpSteps, age : 0..Delay]
    BY <1>10 DEF Tick, Busy
  <2>4. key' \in 0..SessionTTL /\ deadline' \in 0..PongWait
    BY <1>10 DEF Tick, Less
  <2>5. quiet' \in (0 - Delay)..MaxGap
    BY <1>10 DEF Tick
  <2> QED BY <1>10, <2>1, <2>2, <2>3, <2>4, <2>5 DEF Tick
<1>11. CASE UNCHANGED beatVars
  BY <1>11 DEF beatVars, clientVars, timerVars
<1>12. CASE EndSession
  BY <1>12 DEF EndSession, timerVars
<1> QED BY <1>1, <1>2, <1>3, <1>4, <1>5, <1>6, <1>7, <1>8, <1>9, <1>10, <1>11, <1>12 DEF BeatNext, BeatStep, PumpStep

-----------------------------------------------------------------------------
\* Sent and Accepted say nothing of what is owed; each step keeps them.
LEMMA SentKept ==
  ASSUME HeartbeatAssumption, BeatTypeOK, BeatTypeOK', up, up', pump.at # "closed", Sent, BeatStep
  PROVE  Sent'
<1> USE DEF HeartbeatAssumption, BeatTypeOK, PumpSteps
<1>1. CASE SendHeartbeat
  <2>1. quiet' = 0 /\ wire' = wire \cup {0} /\ UNCHANGED pump /\ quiet > 0 /\ quiet <= MaxGap
    BY <1>1 DEF SendHeartbeat
  <2>2. \A a \in wire : a > 0
    BY <2>1 DEF Sent
  <2>3. \A a \in wire' : a = quiet' \/ \E b \in wire' : b < a /\ a <= b + MaxGap
    BY <2>1, <2>2 DEF Sent
  <2>4. pump.at = "script" => \E b \in wire' : pump.age <= b + MaxGap
    BY <2>1 DEF Sent
  <2> QED BY <2>1, <2>2, <2>3, <2>4 DEF Sent
<1>2. CASE ClientDies
  BY <1>2 DEF ClientDies
<1>3. CASE Connect
  BY <1>3 DEF Connect, Sent, clientVars
<1>4. CASE FinishConnect \/ Stamp \/ Refused
  BY <1>4 DEF FinishConnect, Stamp, Refused, Reading, Sent, clientVars
<1>5. ASSUME NEW a \in wire, ReadHeartbeat(a) PROVE Sent'
  <2>1. /\ wire' = wire \ {a} /\ quiet' = quiet /\ \A b \in wire : b <= a
        /\ pump' = pump \/ pump' = [at |-> "script", age |-> a]
        /\ pump.at = "read" /\ quiet >= 0 /\ quiet \in wire
    BY <1>5 DEF ReadHeartbeat, Reject, Accept, clientVars, Sent
  <2>2. ASSUME wire' # {} PROVE quiet \in wire'
    <3>1. PICK b \in wire : b # a
      BY <2>1, <2>2
    <3>2. b < a /\ quiet <= b
      BY <2>1, <3>1 DEF Sent
    <3> QED BY <2>1, <3>2
  <2>3. \A c \in wire' : c = quiet' \/ \E b \in wire' : b < c /\ c <= b + MaxGap
    <3> SUFFICES ASSUME NEW c \in wire', c # quiet
                 PROVE  \E b \in wire' : b < c /\ c <= b + MaxGap
      BY <2>1
    <3>1. PICK b \in wire : b < c /\ c <= b + MaxGap
      BY <2>1 DEF Sent
    <3>2. b # a
      BY <2>1, <3>1
    <3> QED BY <2>1, <3>1, <3>2
  <2>4. a = quiet => wire' = {}
    BY <2>1 DEF Sent
  <2>5. a # quiet => \E b \in wire' : a <= b + MaxGap
    BY <2>1 DEF Sent
  <2>6. (\A c \in wire' : quiet' <= c)
    BY <2>1 DEF Sent
  <2> QED BY <2>1, <2>2, <2>3, <2>4, <2>5, <2>6 DEF Sent
<1>6. CASE Extend
  BY <1>6 DEF Extend, Sent, clientVars
<1>7. CASE SessionUnknown \/ ReadTimeout
  <2>1. wire' = {} /\ pump'.at = "closed"
    BY <1>7 DEF SessionUnknown, ReadTimeout, CloseConnection, Closed
  <2> QED BY <2>1 DEF Sent
<1>8. CASE Ping \/ \E p \in pings : ReadPong(p)
  BY <1>8 DEF Ping, ReadPong, Sent, clientVars
<1>9. CASE Tick
  <2>1. /\ wire' = {a + 1 : a \in wire} /\ pump'.at = pump.at /\ quiet' = quiet + 1
        /\ pump.at # "read" => pump'.age = pump.age + 1
    BY <1>9 DEF Tick, Later, Busy
  <2>2. \A c \in wire' : c - 1 \in wire
    BY <2>1
  <2>3. \A a \in wire : a + 1 \in wire'
    BY <2>1
  <2>4. ASSUME NEW c \in wire'
        PROVE  quiet' <= c /\ (c = quiet' \/ \E b \in wire' : b < c /\ c <= b + MaxGap)
    <3>1. c - 1 \in wire /\ quiet <= c - 1
      BY <2>2 DEF Sent
    <3>2. CASE c - 1 = quiet
      BY <2>1, <3>1, <3>2
    <3>3. CASE \E b \in wire : b < c - 1 /\ c - 1 <= b + MaxGap
      <4>1. PICK b \in wire : b < c - 1 /\ c - 1 <= b + MaxGap
        BY <3>3
      <4>2. b + 1 \in wire' /\ b + 1 < c /\ c <= (b + 1) + MaxGap
        BY <2>3, <3>1, <4>1
      <4> QED BY <2>1, <3>1, <4>2
    <3> QED BY <3>1, <3>2, <3>3 DEF Sent
  <2>5. wire' # {} => quiet' \in wire'
    BY <2>1, <2>2, <2>3 DEF Sent
  <2>6. pump'.at = "script" => \/ wire' = {} /\ pump'.age = quiet'
                               \/ \E b \in wire' : pump'.age <= b + MaxGap
    <3> SUFFICES ASSUME pump'.at = "script", wire # {} PROVE \E b \in wire' : pump'.age <= b + MaxGap
      BY <2>1, <2>2 DEF Sent
    <3>1. PICK b \in wire : pump.age <= b + MaxGap
      BY <2>1 DEF Sent
    <3>2. b + 1 \in wire' /\ pump'.age <= (b + 1) + MaxGap
      BY <2>1, <2>3, <3>1
    <3> QED BY <3>2
  <2> QED BY <2>1, <2>4, <2>5, <2>6 DEF Sent
<1> QED BY <1>1, <1>2, <1>3, <1>4, <1>5, <1>6, <1>7, <1>8, <1>9 DEF BeatStep, PumpStep

\* The numbers of a state, for the arithmetic of a step.
Numbers == /\ RateLimit \in Nat /\ 0 < RateLimit /\ Delay \in Nat /\ MaxGap \in Nat
           /\ SessionTTL \in Nat /\ PongWait \in Nat /\ PingPeriod \in Nat
           /\ quiet \in Int /\ quiet <= MaxGap
           /\ pump.age \in Nat /\ pump.age <= Delay
           /\ stamped \in Nat /\ stamped <= RateLimit
           /\ key \in Nat /\ key <= SessionTTL
           /\ deadline \in Nat /\ ticker \in Nat
           /\ \A a \in wire : a \in Nat /\ a <= Delay
           /\ \A p \in pings : p \in Nat

LEMMA NumbersHold ==
  ASSUME HeartbeatAssumption, BeatTypeOK, BeatTypeOK'
  PROVE  Numbers /\ Numbers'
<1>1. Numbers
  BY DEF HeartbeatAssumption, BeatTypeOK, Numbers
<1>2. Numbers'
  <2>1. /\ quiet' \in Int /\ quiet' <= MaxGap /\ pump'.age \in Nat /\ pump'.age <= Delay
        /\ stamped' \in Nat /\ stamped' <= RateLimit /\ deadline' \in Nat /\ ticker' \in Nat
    BY DEF HeartbeatAssumption, BeatTypeOK
  <2>2. key' \in Nat /\ key' <= SessionTTL
    BY DEF HeartbeatAssumption, BeatTypeOK
  <2>3. (\A a \in wire' : a \in Nat /\ a <= Delay) /\ (\A p \in pings' : p \in Nat)
    BY DEF HeartbeatAssumption, BeatTypeOK
  <2> QED BY <1>1, <2>1, <2>2, <2>3 DEF Numbers
<1> QED BY <1>1, <1>2

LEMMA AcceptedKept ==
  ASSUME HeartbeatAssumption, BeatTypeOK, BeatTypeOK', up, up', pump.at # "closed", pump'.at # "closed",
         Accepted, BeatStep
  PROVE  Accepted'
<1>n. Numbers /\ Numbers'
  BY NumbersHold
<1>0. pump \in [at : PumpSteps, age : 0..Delay] /\ pump' \in [at : PumpSteps, age : 0..Delay]
  BY DEF BeatTypeOK
<1>z. ASSUME NEW ago \in Nat PROVE SetWithin(SessionTTL, SessionTTL, ago)
  BY <1>n, SetNow DEF Numbers
<1>1. CASE SendHeartbeat
  BY <1>1 DEF SendHeartbeat, Accepted
<1>2. CASE ClientDies
  BY <1>2 DEF ClientDies
<1>3. CASE Connect
  <2>1. pump'.at = "joined" /\ key' = SessionTTL /\ pump'.age \in Nat
    BY <1>0, <1>3, <1>n DEF Connect, Numbers
  <2> QED BY <1>z, <2>1 DEF Accepted
<1>4. CASE FinishConnect \/ Stamp
  <2>1. /\ pump'.at = "read" /\ stamped' = 0 /\ key' = key
        /\ pump.at \in {"joined", "stamp"}
    BY <1>4 DEF FinishConnect, Stamp, Reading
  <2>2. SetWithin(SessionTTL, key, 0 + Delay)
    BY <1>n, <2>1, SetMore DEF Accepted, Numbers
  <2> QED BY <2>1, <2>2 DEF Accepted
<1>5. ASSUME NEW a \in wire, ReadHeartbeat(a) PROVE Accepted'
  <2>1. key' = key /\ stamped' = stamped /\ pump.at = "read"
    BY <1>5 DEF ReadHeartbeat, Reject, Accept
  <2>2. pump' = pump \/ (pump'.at = "script" /\ stamped = RateLimit)
    BY <1>5 DEF ReadHeartbeat, Reject, Accept
  <2> QED BY <2>1, <2>2 DEF Accepted
<1>6. CASE Extend
  <2>1. pump'.at = "stamp" /\ key' = SessionTTL /\ pump'.age \in Nat
    BY <1>0, <1>6, <1>n DEF Extend, Numbers
  <2> QED BY <1>z, <2>1 DEF Accepted
<1>7. CASE Refused
  <2>1. pump'.at = "read" /\ stamped' = stamped /\ pump.at = "script"
    BY <1>7 DEF Refused, Reading
  <2>2. ~(stamped' < RateLimit)
    BY <1>n, <2>1 DEF Accepted, Numbers
  <2> QED BY <2>1, <2>2 DEF Accepted
<1>8. CASE SessionUnknown \/ ReadTimeout
  BY <1>8 DEF SessionUnknown, ReadTimeout, CloseConnection, Closed
<1>9. CASE Ping \/ \E p \in pings : ReadPong(p)
  BY <1>9 DEF Ping, ReadPong, Accepted
<1>10. CASE Tick
  <2>1. /\ pump'.at = pump.at
        /\ pump.at # "read" => pump'.age = pump.age + 1
        /\ stamped' = IF stamped < RateLimit THEN stamped + 1 ELSE stamped
    BY <1>0, <1>10 DEF Tick, Busy
  <2>2. key - 1 <= key'
    BY <1>n, <1>10 DEF Tick, Less, Numbers
  <2>3. ASSUME NEW ago \in Nat, SetWithin(SessionTTL, key, ago) PROVE SetWithin(SessionTTL, key', ago + 1)
    BY <1>n, <2>2, <2>3, SetTick DEF Numbers
  <2>4. ASSUME pump.at = "read", stamped' < RateLimit PROVE SetWithin(SessionTTL, key', stamped' + Delay)
    <3>1. stamped < RateLimit /\ stamped' = stamped + 1
      BY <1>n, <2>1, <2>4 DEF Numbers
    <3>2. SetWithin(SessionTTL, key', (stamped + Delay) + 1)
      BY <1>n, <2>3, <2>4, <3>1 DEF Accepted, Numbers
    <3>3. (stamped + Delay) + 1 = stamped' + Delay
      BY <1>n, <3>1 DEF Numbers
    <3> QED BY <3>2, <3>3
  <2>5. ASSUME pump.at \in {"joined", "stamp"} PROVE SetWithin(SessionTTL, key', pump'.age)
    <3>1. pump.age \in Nat /\ SetWithin(SessionTTL, key, pump.age)
      BY <1>n, <2>5 DEF Accepted, Numbers
    <3>2. SetWithin(SessionTTL, key', pump.age + 1)
      BY <2>3, <3>1
    <3>3. pump'.age = pump.age + 1
      BY <2>1, <2>5
    <3> QED BY <3>2, <3>3
  <2>6. pump.at = "script" => stamped' = RateLimit
    BY <2>1, <1>n DEF Accepted, Numbers
  <2>7. pump'.at = pump.at
    BY <2>1
  <2> QED BY <2>4, <2>5, <2>6, <2>7 DEF Accepted
<1> QED BY <1>1, <1>2, <1>3, <1>4, <1>5, <1>6, <1>7, <1>8, <1>9, <1>10 DEF BeatStep, PumpStep

\* The heart of the matter: what may have passed since the key was set never
\* exceeds what is owed to the next heartbeat.
LEMMA RenewedKept ==
  ASSUME HeartbeatAssumption, BeatTypeOK, BeatTypeOK', up, up', pump.at # "closed", pump'.at # "closed",
         Accepted, Sent, Renewed, Sent', BeatStep
  PROVE  Renewed'
<1> DEFINE Fresh(k, ago) == SetWithin(SessionTTL, k, ago)
<1>n. Numbers /\ Numbers'
  BY NumbersHold
<1>r. pump \in [at : PumpSteps, age : 0..Delay] /\ pump' \in [at : PumpSteps, age : 0..Delay]
  BY DEF BeatTypeOK
<1>l. lost \in 0..MaxLost /\ lost' \in 0..MaxLost
  BY DEF BeatTypeOK
<1>o. \A n \in 0..MaxLost : /\ Owed(n) \in Nat /\ Owed(n + 1) \in Nat
                            /\ Owed(n + 1) = Owed(n) + MaxGap
                            /\ RateLimit + Delay - 1 <= Owed(n)
  <2> SUFFICES ASSUME NEW n \in 0..MaxLost
               PROVE  /\ Owed(n) \in Nat /\ Owed(n + 1) \in Nat
                      /\ Owed(n + 1) = Owed(n) + MaxGap
                      /\ RateLimit + Delay - 1 <= Owed(n)
    OBVIOUS
  <2>1. /\ Owed(n) \in Int /\ Owed(n + 1) = Owed(n) + MaxGap
        /\ RateLimit + Delay - 1 <= Owed(n)
    BY OwedGrows
  <2> QED BY <1>n, <2>1 DEF Numbers
<1>0. /\ Owed(lost) \in Nat /\ Owed(lost + 1) \in Nat
      /\ Owed(lost + 1) = Owed(lost) + MaxGap
      /\ RateLimit + Delay - 1 <= Owed(lost)
  BY <1>l, <1>o
<1>m. ASSUME NEW k \in Nat, NEW ago \in Int, NEW more \in Int, Fresh(k, ago), ago <= more PROVE Fresh(k, more)
  BY <1>n, <1>m, SetMore DEF Numbers
<1>1. CASE SendHeartbeat
  <2>1. /\ quiet' = 0 /\ wire' = wire \cup {0} /\ UNCHANGED <<pump, key, lost>>
    BY <1>1 DEF SendHeartbeat
  <2>2. pump.at = "read" /\ wire = {} => Fresh(key, 0 + Owed(lost + 1))
    BY <1>0, <1>m, <1>n DEF Renewed, Numbers
  <2> QED BY <2>1, <2>2 DEF Renewed
<1>2. CASE ClientDies
  BY <1>2 DEF ClientDies
<1>3. CASE Connect
  <2>1. pump'.at = "joined"
    BY <1>3, <1>r DEF Connect
  <2> QED BY <2>1 DEF Renewed
<1>4. CASE FinishConnect
  <2>1. /\ key' = key /\ UNCHANGED <<wire, quiet>> /\ pump'.at = "read"
        /\ Fresh(key, pump.age) /\ pump.age <= quiet + Delay /\ lost' = lost
    BY <1>4 DEF FinishConnect, Reading, clientVars, Accepted, Sent
  <2>2. Fresh(key, quiet + Owed(lost))
    BY <1>0, <1>m, <1>n, <2>1 DEF Numbers
  <2>3. \A a \in wire : Fresh(key, a + Owed(lost + 1))
    BY <1>0, <1>m, <1>n, <2>1 DEF Numbers
  <2> QED BY <2>1, <2>2, <2>3 DEF Renewed
<1>5. ASSUME NEW a \in wire, ReadHeartbeat(a) PROVE Renewed'
  <2>1. /\ wire' = wire \ {a} /\ UNCHANGED <<quiet, key, lost>> /\ \A b \in wire : b <= a
        /\ pump.at = "read" /\ quiet >= 0
    BY <1>n, <1>5 DEF ReadHeartbeat, clientVars, Sent, Numbers
  <2>2. CASE Accept(a)
    <3>1. pump' = [at |-> "script", age |-> a]
      BY <2>2 DEF Accept
    <3>2. PICK b \in wire : Fresh(key, b + Owed(lost + 1))
      BY <2>1 DEF Renewed
    <3>3. Fresh(key, a + Owed(lost + 1))
      BY <1>0, <1>m, <1>n, <2>1, <3>2 DEF Numbers
    <3> QED BY <2>1, <3>1, <3>3 DEF Renewed
  <2>3. CASE Reject(a)
    <3>1. pump' = pump /\ stamped < RateLimit /\ Fresh(key, stamped + Delay)
      BY <2>1, <2>3 DEF Reject, Accepted
    <3>2. Fresh(key, quiet + Owed(lost))
      BY <1>0, <1>m, <1>n, <2>1, <3>1 DEF Numbers
    <3>3. \A b \in wire : Fresh(key, b + Owed(lost + 1))
      BY <1>0, <1>m, <1>n, <3>1 DEF Numbers
    <3> QED BY <2>1, <3>1, <3>2, <3>3 DEF Renewed
  <2> QED BY <1>5, <2>2, <2>3 DEF ReadHeartbeat
<1>6. CASE Extend
  <2>1. pump'.at = "stamp"
    BY <1>6, <1>r DEF Extend
  <2> QED BY <2>1 DEF Renewed
<1>7. CASE Stamp
  <2>1. /\ UNCHANGED <<key, quiet, wire, lost>> /\ pump'.at = "read"
        /\ Fresh(key, pump.age) /\ quiet >= 0
    BY <1>7 DEF Stamp, Reading, clientVars, Accepted, Sent
  <2>2. Fresh(key, quiet + Owed(lost))
    BY <1>0, <1>m, <1>n, <2>1 DEF Numbers
  <2>3. \A a \in wire : Fresh(key, a + Owed(lost + 1))
    BY <1>0, <1>m, <1>n, <2>1 DEF Numbers
  <2> QED BY <2>1, <2>2, <2>3 DEF Renewed
<1>8. CASE Refused
  <2>1. /\ pump.at = "script" /\ pump'.at = "read" /\ lost' = lost + 1
        /\ UNCHANGED <<wire, quiet>> /\ key' \in {key, SessionTTL}
    BY <1>8 DEF Refused, Reading, clientVars
  <2>o. Owed(lost + 1) \in Nat /\ Owed(lost + 2) \in Nat /\ Owed(lost + 2) = Owed(lost + 1) + MaxGap
    <3>1. lost + 1 \in 0..MaxLost /\ (lost + 1) + 1 = lost + 2
      BY <1>l, <2>1
    <3> QED BY <1>o, <3>1
  <2>p. Owed(lost') = Owed(lost + 1) /\ Owed(lost' + 1) = Owed(lost + 2)
    <3>1. lost' + 1 = lost + 2
      BY <1>l, <2>1
    <3> QED BY <2>1, <3>1
  <2>2. Fresh(key', pump.age + Owed(lost + 1))
    <3>1. Fresh(key, pump.age + Owed(lost + 1))
      BY <2>1 DEF Renewed
    <3>2. Fresh(SessionTTL, pump.age + Owed(lost + 1))
      BY <1>n, <2>o, SetNow DEF Numbers
    <3> QED BY <2>1, <3>1, <3>2
  <2>3. CASE wire = {} /\ pump.age = quiet
    <3>1. wire' = {} /\ pump'.at = "read" /\ Fresh(key', quiet' + Owed(lost'))
      BY <2>1, <2>2, <2>3, <2>p
    <3> QED BY <3>1 DEF Renewed
  <2>4. CASE \E b \in wire : pump.age <= b + MaxGap
    <3>1. PICK b \in wire : pump.age <= b + MaxGap
      BY <2>4
    <3>2. Fresh(key', b + Owed(lost + 2))
      BY <1>m, <1>n, <2>o, <2>2, <3>1 DEF Numbers
    <3>3. b \in wire' /\ pump'.at = "read" /\ Fresh(key', b + Owed(lost' + 1))
      BY <2>1, <2>p, <3>1, <3>2
    <3> QED BY <3>3 DEF Renewed
  <2> QED BY <2>1, <2>3, <2>4 DEF Sent
<1>9. CASE SessionUnknown \/ ReadTimeout
  BY <1>9 DEF SessionUnknown, ReadTimeout, CloseConnection, Closed
<1>10. CASE Ping \/ \E p \in pings : ReadPong(p)
  BY <1>10 DEF Ping, ReadPong, Renewed, clientVars
<1>11. CASE Tick
  <2>1. /\ wire' = {a + 1 : a \in wire} /\ pump'.at = pump.at /\ quiet' = quiet + 1
        /\ pump.at # "read" => pump'.age = pump.age + 1
        /\ lost' = lost
    BY <1>r, <1>11 DEF Tick, Later, Busy
  <2>2. key - 1 <= key'
    BY <1>n, <1>11 DEF Tick, Less, Numbers
  <2>t. ASSUME NEW n \in Int, NEW o \in Nat, Fresh(key, n + o) PROVE Fresh(key', (n + 1) + o)
    <3>1. Fresh(key', (n + o) + 1)
      BY <1>n, <2>2, <2>t, SetTick DEF Numbers
    <3>2. (n + o) + 1 = (n + 1) + o
      OBVIOUS
    <3> QED BY <3>1, <3>2
  <2>3. ASSUME pump.at = "read", wire # {} PROVE \E a \in wire' : Fresh(key', a + Owed(lost' + 1))
    <3>1. PICK a \in wire : Fresh(key, a + Owed(lost + 1))
      BY <2>3 DEF Renewed
    <3>2. a + 1 \in wire'
      BY <2>1
    <3>3. Fresh(key', (a + 1) + Owed(lost + 1))
      BY <1>0, <1>n, <2>t, <3>1 DEF Numbers
    <3> QED BY <2>1, <3>2, <3>3
  <2>4. pump.at = "read" /\ wire = {} => Fresh(key', quiet' + Owed(lost'))
    BY <1>0, <1>n, <2>1, <2>t DEF Renewed, Numbers
  <2>5. pump.at = "script" => Fresh(key', pump'.age + Owed(lost' + 1))
    BY <1>0, <1>n, <2>1, <2>t DEF Renewed, Numbers
  <2>6. wire' = {} <=> wire = {}
    BY <2>1
  <2> QED BY <2>1, <2>3, <2>4, <2>5, <2>6 DEF Renewed
<1> QED BY <1>1, <1>2, <1>3, <1>4, <1>5, <1>6, <1>7, <1>8, <1>9, <1>10, <1>11 DEF BeatStep, PumpStep

LEMMA AnsweredKept ==
  ASSUME HeartbeatAssumption, BeatTypeOK, BeatTypeOK', up, up', pump.at # "closed", pump'.at # "closed",
         Answered, BeatStep
  PROVE  Answered'
<1> DEFINE Fresh(left, ago) == SetWithin(PongWait, left, ago)
<1>n. Numbers /\ Numbers'
  BY NumbersHold
<1>1. CASE Ping
  <2>1. ticker = PingPeriod /\ ticker' = 0 /\ pings' = pings \cup {0} /\ deadline' = deadline
    BY <1>1 DEF Ping
  <2>2. pings = {} => Fresh(deadline, 0 + PingPeriod)
    BY <1>n, <2>1 DEF Answered, Numbers
  <2> QED BY <2>1, <2>2 DEF Answered
<1>2. CASE \E p \in pings : ReadPong(p)
  <2>1. deadline' = PongWait /\ ticker' = ticker /\ pings' \subseteq pings
    BY <1>2 DEF ReadPong
  <2>2. Fresh(PongWait, ticker) /\ \A p \in pings : Fresh(PongWait, p + PingPeriod)
    BY <1>n, SetNow DEF Numbers
  <2> QED BY <2>1, <2>2 DEF Answered
<1>3. CASE Tick
  <2>1. pings' = {p + 1 : p \in pings} /\ ticker' = ticker + 1
    BY <1>3 DEF Tick, Later
  <2>2. deadline - 1 <= deadline'
    BY <1>3, <1>n DEF Tick, Less, Numbers
  <2>3. CASE pings = {}
    <3>1. pings' = {}
      BY <2>1, <2>3
    <3>2. Fresh(deadline', ticker + 1)
      BY <1>n, <2>2, <2>3, SetTick DEF Answered, Numbers
    <3> QED BY <2>1, <3>1, <3>2 DEF Answered
  <2>4. CASE pings # {}
    <3>1. PICK p \in pings : Fresh(deadline, p + PingPeriod)
      BY <2>4 DEF Answered
    <3>2. p + 1 \in pings' /\ pings' # {}
      BY <2>1
    <3>3. Fresh(deadline', (p + PingPeriod) + 1)
      BY <1>n, <2>2, <3>1, SetTick DEF Numbers
    <3>4. (p + PingPeriod) + 1 = (p + 1) + PingPeriod
      BY <1>n DEF Numbers
    <3> QED BY <3>2, <3>3, <3>4 DEF Answered
  <2> QED BY <2>3, <2>4
<1>4. CASE UNCHANGED <<pings, timerVars>>
  BY <1>4 DEF Answered, timerVars
<1>5. CASE SessionUnknown \/ ReadTimeout \/ ClientDies
  BY <1>5 DEF SessionUnknown, ReadTimeout, CloseConnection, Closed, ClientDies
<1> QED BY <1>1, <1>2, <1>3, <1>4, <1>5
        DEF BeatStep, PumpStep, SendHeartbeat, Connect, FinishConnect, ReadHeartbeat, Extend, Refused, Stamp

\* With durations that fit, no step closes the connection of a client that lives.
LEMMA StaysOpen ==
  ASSUME HeartbeatAssumption, TTLFits, DeadlineFits, BeatTypeOK, BeatTypeOK', up, up', Kept, BeatStep
  PROVE  pump'.at # "closed"
<1>n. Numbers
  BY NumbersHold
<1>r. pump \in [at : PumpSteps, age : 0..Delay]
  BY DEF BeatTypeOK
<1>1. ~SessionUnknown
  <2> SUFFICES ASSUME pump.at = "script", key = 0 PROVE FALSE
    BY DEF SessionUnknown
  <2>1. Owed(lost + 1) \in Int /\ Delay + Owed(lost + 1) < SessionTTL
    <3>1. lost \in 0..MaxLost
      BY DEF BeatTypeOK
    <3>2. Owed(lost) \in Int /\ Owed(lost + 1) = Owed(lost) + MaxGap /\ Delay + Owed(lost + 1) < SessionTTL
      BY <3>1, OwedGrows
    <3> QED BY <1>n, <3>2 DEF Numbers
  <2> QED BY <1>n, <2>1 DEF Kept, Renewed, Numbers, SetWithin
<1>2. ~ReadTimeout
  <2> SUFFICES ASSUME deadline = 0 PROVE FALSE
    BY DEF ReadTimeout
  <2>1. RoundTrip \in Nat /\ (\A p \in pings : p <= RoundTrip) /\ ticker <= PingPeriod
    BY DEF HeartbeatAssumption, BeatTypeOK
  <2> QED BY <1>n, <2>1 DEF Kept, Answered, DeadlineFits, Numbers, SetWithin
<1>3. CASE Tick
  BY <1>r, <1>3 DEF Tick, Busy, Kept
<1>4. CASE \E a \in wire : ReadHeartbeat(a)
  BY <1>4 DEF ReadHeartbeat, Reject, Accept, Kept
<1>5. CASE Connect \/ Extend
  BY <1>r, <1>5 DEF Connect, Extend
<1>6. CASE FinishConnect \/ Refused \/ Stamp
  BY <1>6 DEF FinishConnect, Refused, Stamp, Reading
<1>7. CASE UNCHANGED pump
  BY <1>7 DEF Kept
<1> QED BY <1>1, <1>2, <1>3, <1>4, <1>5, <1>6, <1>7 DEF BeatStep, PumpStep, SendHeartbeat, ClientDies, Ping, ReadPong

-----------------------------------------------------------------------------
LEMMA BeatTypesInitial == BeatInit => BeatTypeOK
<1> SUFFICES ASSUME BeatInit PROVE BeatTypeOK
  OBVIOUS
<1>1. up \in BOOLEAN /\ ended \in BOOLEAN
  BY DEF BeatInit
<1> QED BY <1>1, HeartbeatAssumption DEF BeatInit, BeatTypeOK, HeartbeatAssumption, PumpSteps

\* For any durations, also those that do not fit and a client that dies: the ages of
\* a ping, of a heartbeat on the wire and of what the pump works on, the rest of the
\* TTL and the rest of the read deadline stay within the bounds that the waits of
\* handleHeartbeat, heartbeatPump and SetReadDeadline give them.
THEOREM HeartbeatTypeCorrect == BeatSpec => []BeatTypeOK
<1>1. BeatTypeOK /\ [BeatNext]_beatVars => BeatTypeOK'
  BY HeartbeatAssumption, BeatTypesKept
<1> QED BY <1>1, BeatTypesInitial, PTL DEF BeatSpec

\* KeptInv is an invariant when the durations fit: it says of a client that
\* lives when its heartbeats were sent, what the gateway made of them and how
\* old the session key may be (handleHeartbeat and heartbeatPump).
THEOREM HeartbeatInvariant == TTLFits /\ DeadlineFits => (BeatSpec => []KeptInv)
<1> SUFFICES ASSUME TTLFits, DeadlineFits PROVE BeatSpec => []KeptInv
  OBVIOUS
<1>1. BeatInit => KeptInv
  <2> SUFFICES ASSUME BeatInit PROVE KeptInv
    OBVIOUS
  <2>1. BeatTypeOK
    BY BeatTypesInitial
  <2>2. Kept
    BY <2>1, HeartbeatAssumption DEF BeatInit, Kept, Accepted, Sent, Renewed, Answered, HeartbeatAssumption, SetWithin
  <2> QED BY <2>1, <2>2 DEF KeptInv
<1>2. KeptInv /\ [BeatNext]_beatVars => KeptInv'
  <2> SUFFICES ASSUME KeptInv, [BeatNext]_beatVars PROVE KeptInv'
    OBVIOUS
  <2>1. BeatTypeOK /\ BeatTypeOK'
    BY HeartbeatAssumption, BeatTypesKept DEF KeptInv
  <2>2. CASE UNCHANGED beatVars
    BY <2>1, <2>2 DEF beatVars, clientVars, timerVars, KeptInv, Kept, Accepted, Sent, Renewed, Answered
  <2>3. CASE EndSession
    BY <2>1, <2>3 DEF EndSession, KeptInv
  <2>4. ASSUME BeatStep, up', ~ended' PROVE Kept'
    <3>0. (up' => up) /\ UNCHANGED ended
      BY <2>4 DEF BeatStep, PumpStep, SendHeartbeat, ClientDies, Connect, FinishConnect, ReadHeartbeat, Extend, Refused, SessionUnknown,
         ReadTimeout, CloseConnection, Stamp, ReadPong, Ping, Tick, clientVars
    <3>1. up /\ ~ended
      BY <2>4, <3>0
    <3>2. Kept
      BY <3>1 DEF KeptInv
    <3>3. pump'.at # "closed"
      BY <2>1, <2>4, <3>1, <3>2, HeartbeatAssumption, StaysOpen
    <3>4. Accepted'
      BY <2>1, <2>4, <3>1, <3>2, <3>3, HeartbeatAssumption, AcceptedKept DEF Kept
    <3>5. Sent'
      BY <2>1, <2>4, <3>1, <3>2, HeartbeatAssumption, SentKept DEF Kept
    <3>6. Renewed'
      BY <2>1, <2>4, <3>1, <3>2, <3>3, <3>5, HeartbeatAssumption, RenewedKept DEF Kept
    <3>7. Answered'
      BY <2>1, <2>4, <3>1, <3>2, <3>3, HeartbeatAssumption, AnsweredKept DEF Kept
    <3> QED BY <3>3, <3>4, <3>5, <3>6, <3>7 DEF Kept
  <2> QED BY <2>1, <2>2, <2>3, <2>4 DEF KeptInv, BeatNext
<1> QED BY <1>1, <1>2, PTL DEF BeatSpec

\* A client that sends its heartbeats keeps its session, for any durations that
\* fit: neither the rate limit, nor delays, nor refused commands let the session
\* key expire under it.
THEOREM SessionAlwaysKept == TTLFits /\ DeadlineFits => (BeatSpec => []SessionKept)
<1> SUFFICES ASSUME TTLFits, DeadlineFits PROVE BeatSpec => []SessionKept
  OBVIOUS
<1>1. KeptInv => SessionKept
  <2> SUFFICES ASSUME KeptInv, up, ~ended, pump.at \notin {"connect", "closed"}, key = 0 PROVE FALSE
    BY HeartbeatAssumption DEF SessionKept, KeptInv, BeatTypeOK, HeartbeatAssumption
  <2> USE HeartbeatAssumption DEF KeptInv, BeatTypeOK, HeartbeatAssumption, PumpSteps
  <2>1. /\ Owed(lost) \in Int /\ Owed(lost + 1) = Owed(lost) + MaxGap
        /\ RateLimit + Delay - 1 <= Owed(lost) /\ Delay + Owed(lost + 1) < SessionTTL
    BY OwedGrows
  <2> QED BY <2>1 DEF Kept, Accepted, Sent, Renewed, SetWithin
<1> QED BY <1>1, HeartbeatInvariant, PTL

\* ... and its connection: the gateway closes it neither for want of the session
\* nor because the read deadline passes while it answers pings.
THEOREM ConnectionAlwaysKept == TTLFits /\ DeadlineFits => (BeatSpec => []ConnectionKept)
<1> SUFFICES ASSUME TTLFits, DeadlineFits PROVE BeatSpec => []ConnectionKept
  OBVIOUS
<1>1. KeptInv => ConnectionKept
  BY DEF KeptInv, Kept, ConnectionKept
<1> QED BY <1>1, HeartbeatInvariant, PTL
=============================================================================
