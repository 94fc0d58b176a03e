----------------------------- MODULE Heartbeat -----------------------------
(***************************************************************************)
(* How long things take: the one connection of a session, its heartbeats   *)
(* and pings, and the three clocks that may end it - the TTL of its        *)
(* session key, the rate limit of the gateway and the read deadline of the *)
(* WebSocket (handleHeartbeat, ReadPump and WritePump of pkg/ws/client.go; *)
(* heartbeatPump of pkg/sdk/client.go).  Durations are ticks of whatever   *)
(* length; every clock is kept as the time since, or until, something.     *)
(*                                                                         *)
(* Two bounds stand for the network and the goroutines: Delay for a        *)
(* heartbeat from the client's write to the end of its handler (and for    *)
(* the dial), RoundTrip for a ping from its write to the reading of the    *)
(* pong.                                                                   *)
(***************************************************************************)
EXTENDS Integers

CONSTANTS SessionTTL,   \* SESSION_TTL
          RateLimit,    \* HEARTBEAT_RATE_LIMIT
          MinGap,       \* the client's heartbeats are MinGap ..
          MaxGap,       \*   .. MaxGap apart: 15 to 18 s in the SDK
          PingPeriod,   \* PING_PERIOD
          PongWait,     \* PONG_WAIT
          Delay, RoundTrip,
          MaxLost       \* heartbeats in a row that Redis may refuse

ASSUME HeartbeatAssumption ==
  /\ SessionTTL \in Nat \ {0} /\ RateLimit \in Nat \ {0}
  /\ MinGap \in Nat \ {0} /\ MaxGap \in Nat /\ MinGap <= MaxGap
  /\ PingPeriod \in Nat \ {0} /\ PongWait \in Nat \ {0}
  /\ Delay \in Nat /\ RoundTrip \in Nat /\ MaxLost \in Nat

VARIABLES
  up,       \* the client runs and can be reached
  quiet,    \* since its last heartbeat, or since it knows of the connection
  wire,     \* the ages of the heartbeats the gateway has yet to read
  pings,    \* the ages of the pings whose pong it has yet to read
  pump,     \* the ReadPump: where it is, and the age of what it handles
  stamped,  \* since lastHeartbeat, RateLimit when longer ago
  lost,     \* heartbeats refused by Redis since the last that was not
  key,      \* until the session key expires, 0: no key
  ended,    \* the session was disconnected through the API
  deadline, \* until the read deadline
  ticker    \* since the last tick of the WritePump

clientVars == <<up, quiet, ended>>
timerVars == <<deadline, ticker>>
beatVars == <<clientVars, wire, pings, pump, stamped, lost, key, timerVars>>

PumpSteps == {"connect", "joined", "read", "script", "stamp", "closed"}

BeatTypeOK == /\ up \in BOOLEAN /\ ended \in BOOLEAN /\ quiet \in (0 - Delay)..MaxGap
              /\ wire \subseteq 0..Delay /\ pings \subseteq 0..RoundTrip
              /\ pump \in [at : PumpSteps, age : 0..Delay]
              /\ stamped \in 0..RateLimit /\ lost \in 0..MaxLost
              /\ key \in 0..SessionTTL
              /\ deadline \in 0..PongWait /\ ticker \in 0..PingPeriod

BeatInit == /\ up = TRUE /\ ended = FALSE /\ quiet \in (0 - Delay)..0
            /\ wire = {} /\ pings = {}
            /\ pump = [at |-> "connect", age |-> 0]
            /\ stamped = RateLimit /\ lost = 0 /\ key = 0
            /\ deadline = PongWait /\ ticker = 0

Reading == [at |-> "read", age |-> 0]
Closed == [at |-> "closed", age |-> 0]

\* A busy pump has yet to finish what it handles.
Busy == pump.at \notin {"read", "closed"}

-----------------------------------------------------------------------------
\* The client.
SendHeartbeat == /\ up /\ pump.at # "closed" /\ quiet >= MinGap
                 /\ quiet' = 0 /\ wire' = wire \cup {0}
                 /\ UNCHANGED <<up, ended, pings, pump, stamped, lost, key, timerVars>>

\* The client or the network is gone without a word; some of what is under
\* way still arrives, no pong does.
ClientDies == /\ up /\ up' = FALSE
              /\ \E arriving \in SUBSET wire : wire' = arriving
              /\ pings' = {}
              /\ UNCHANGED <<quiet, ended, pump, stamped, lost, key, timerVars>>

\* DisconnectUser deletes the session key and tells no gateway.
EndSession == /\ key > 0 /\ pump.at # "closed" /\ ~ended
              /\ ended' = TRUE /\ key' = 0
              /\ UNCHANGED <<up, quiet, wire, pings, pump, stamped, lost, timerVars>>

-----------------------------------------------------------------------------
\* connect(): the session key is set, lastHeartbeat only when all is done.
Connect == /\ pump.at = "connect"
           /\ pump' = [pump EXCEPT !.at = "joined"]
           /\ key' = SessionTTL
           /\ UNCHANGED <<clientVars, wire, pings, stamped, lost, timerVars>>

FinishConnect == /\ pump.at = "joined"
                 /\ pump' = Reading /\ stamped' = 0
                 /\ UNCHANGED <<clientVars, wire, pings, lost, key, timerVars>>

\* Mutant: a rejected heartbeat moves lastHeartbeat too.
RejectStamped(a) == /\ stamped < RateLimit
                    /\ stamped' = 0
                    /\ UNCHANGED pump

\* handleHeartbeat: too soon after the last accepted one ...
Reject(a) == /\ stamped < RateLimit
             /\ UNCHANGED <<pump, stamped>>

\* ... or on to heartbeat.lua.
Accept(a) == /\ stamped = RateLimit
             /\ pump' = [at |-> "script", age |-> a]
             /\ UNCHANGED stamped

\* Messages come in the order they were sent, and only before the deadline.
ReadHeartbeat(a) == /\ pump.at = "read" /\ deadline > 0
                    /\ a \in wire /\ \A b \in wire : b <= a
                    /\ wire' = wire \ {a}
                    /\ Reject(a) \/ Accept(a)
                    /\ UNCHANGED <<clientVars, pings, lost, key, timerVars>>

\* Mutant: what is left of the TTL is kept.
ExtendAdds == /\ pump.at = "script" /\ key > 0
              /\ key' = key + SessionTTL /\ lost' = 0
              /\ pump' = [pump EXCEPT !.at = "stamp"]
              /\ UNCHANGED <<clientVars, wire, pings, stamped, timerVars>>

\* The script extends the key; Redis may refuse, or do it and the answer is
\* lost; without a key the gateway closes the connection.
Extend == /\ pump.at = "script" /\ key > 0
          /\ key' = SessionTTL /\ lost' = 0
          /\ pump' = [pump EXCEPT !.at = "stamp"]
          /\ UNCHANGED <<clientVars, wire, pings, stamped, timerVars>>

Refused == /\ pump.at = "script" /\ lost < MaxLost
           /\ lost' = lost + 1 /\ pump' = Reading
           /\ key' \in {key, IF key > 0 THEN SessionTTL ELSE key}
           /\ UNCHANGED <<clientVars, wire, pings, stamped, timerVars>>

CloseConnection == /\ pump' = Closed /\ wire' = {} /\ pings' = {}
                   /\ UNCHANGED <<clientVars, stamped, lost, key, timerVars>>

\* Mutant: ErrSessionUnknown is taken for any other error.
UnknownRetried == pump.at = "script" /\ key = 0 /\ pump' = Reading
                  /\ UNCHANGED <<clientVars, wire, pings, stamped, lost, key, timerVars>>

SessionUnknown == pump.at = "script" /\ key = 0 /\ CloseConnection

Stamp == /\ pump.at = "stamp"
         /\ pump' = Reading /\ stamped' = 0
         /\ UNCHANGED <<clientVars, wire, pings, lost, key, timerVars>>

-----------------------------------------------------------------------------
\* Mutant: the ping sets the deadline.
PingAndWait == /\ pump.at # "closed" /\ ticker = PingPeriod
               /\ ticker' = 0 /\ deadline' = PongWait
               /\ pings' = IF up THEN pings \cup {0} ELSE pings
               /\ UNCHANGED <<clientVars, wire, pump, stamped, lost, key>>

\* The WritePump pings at each tick; writing succeeds whoever listens.
Ping == /\ pump.at # "closed" /\ ticker = PingPeriod
        /\ ticker' = 0
        /\ pings' = IF up THEN pings \cup {0} ELSE pings
        /\ UNCHANGED <<clientVars, wire, pump, stamped, lost, key, deadline>>

\* Mutant: the deadline of ReadPump is set once, by no pong.
ReadPongOnly(p) == /\ pump.at = "read" /\ deadline > 0 /\ p \in pings
                   /\ pings' = pings \ {p}
                   /\ UNCHANGED <<clientVars, wire, pump, stamped, lost, key, timerVars>>

\* Only a pong moves the read deadline; a heartbeat does not.
ReadPong(p) == /\ pump.at = "read" /\ deadline > 0 /\ p \in pings
               /\ pings' = pings \ {p}
               /\ deadline' = PongWait
               /\ UNCHANGED <<clientVars, wire, pump, stamped, lost, key, ticker>>

ReadTimeout == pump.at = "read" /\ deadline = 0 /\ CloseConnection

-----------------------------------------------------------------------------
\* Ages go up, what is left goes down.
Later(ages) == {a + 1 : a \in ages}
Less(n) == IF n > 0 THEN n - 1 ELSE 0

\* Time passes while nobody is late: the client with a heartbeat, the network
\* and the pump with what is under way, the WritePump with a ping, a read that
\* has timed out with its return.
Tick == /\ pump.at # "closed" => /\ up => quiet < MaxGap
                                 /\ ticker < PingPeriod
                                 /\ ~(pump.at = "read" /\ deadline = 0)
        /\ \A a \in wire : a < Delay
        /\ \A p \in pings : p < RoundTrip
        /\ Busy => pump.age < Delay
        /\ pump.at # "closed" \/ key > 0
        /\ quiet' = IF up /\ pump.at # "closed" THEN quiet + 1 ELSE quiet
        /\ wire' = Later(wire) /\ pings' = Later(pings)
        /\ pump' = IF Busy THEN [pump EXCEPT !.age = @ + 1] ELSE pump
        /\ stamped' = IF stamped < RateLimit THEN stamped + 1 ELSE stamped
        /\ key' = Less(key)
        /\ deadline' = Less(deadline)
        /\ ticker' = IF pump.at # "closed" THEN ticker + 1 ELSE ticker
        /\ UNCHANGED <<up, ended, lost>>

PumpStep == \/ Connect \/ FinishConnect
            \/ \E a \in wire : ReadHeartbeat(a)
            \/ Extend \/ Refused \/ SessionUnknown \/ Stamp
            \/ \E p \in pings : ReadPong(p)
            \/ ReadTimeout

BeatStep == SendHeartbeat \/ ClientDies \/ PumpStep \/ Ping \/ Tick
BeatNext == BeatStep \/ EndSession

BeatSpec == BeatInit /\ [][BeatNext]_beatVars

\* Time passes and goroutines run on, the client's too.
BeatLiveSpec == /\ BeatSpec /\ WF_beatVars(PumpStep) /\ WF_beatVars(Ping) /\ WF_beatVars(Tick)
                /\ WF_beatVars(SendHeartbeat)

-----------------------------------------------------------------------------
\* What the durations must be for a client that lives to keep its session: a
\* heartbeat may be the last one under the rate limit, up to MaxLost more may
\* be refused, and the next comes after the longest gap.
TTLFits == RateLimit + (MaxLost + 1) * MaxGap + 2 * Delay <= SessionTTL

DeadlineFits == PingPeriod + RoundTrip < PongWait

\* The session of a client that sends its heartbeats never expires, however
\* they are timed, rate limited, delayed and refused.
SessionKept == (up /\ ~ended /\ pump.at \notin {"connect", "closed"}) => key > 0

\* ... and its connection stays open: neither does a heartbeat find the session
\* gone nor does the read deadline pass although pongs are on their way.
ConnectionKept == up /\ ~ended => pump.at # "closed"

\* A client that is gone is noticed on both sides: its connection is closed, for
\* the disconnect to be scheduled, and its session expires, for the sweeper.
DeadNoticed == ~up ~> pump.at = "closed" /\ key = 0

\* The connection of a session that was disconnected is closed in the end, although
\* nobody tells the gateway: by the next heartbeat that gets through, or the deadline.
EndedNoticed == ended ~> pump.at = "closed"
=============================================================================
