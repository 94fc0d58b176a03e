--------------------------- MODULE SdkConnection ---------------------------
(***************************************************************************)
(* A Connection of the Go SDK (pkg/sdk/client.go): the readPump and the    *)
(* heartbeatPump that every successful dial starts, the goroutine that     *)
(* reconnects with backoff, and Close, over the fields they share.         *)
(*                                                                         *)
(* Dials are numbered; the pumps started by dial k, and the reconnecting   *)
(* goroutine started by the reader of dial k, are reader[k], beat[k] and   *)
(* recon[k].  Events are those of one user, named by their version.        *)
(***************************************************************************)
EXTENDS Sequences, Integers, FiniteSets

CONSTANTS MaxDials,     \* bound: dials in a behaviour
          MaxVersion,   \* bound: versions 1..MaxVersion are sent, in any order and again
          BufferSize,   \* capacity of eventCh
          MaxAttempts   \* ReconnectConfig.MaxAttempts, 0 for no limit

ASSUME SdkAssumption == /\ MaxDials \in Nat \ {0} /\ MaxVersion \in Nat
                        /\ BufferSize \in Nat \ {0} /\ MaxAttempts \in Nat

VARIABLES
  state,     \* the atomic ConnectionState
  conn,      \* the dial whose WebSocket c.conn holds
  open,      \* dials whose WebSocket is open
  dials,     \* dials made
  reader,    \* reader[k]: readPump, the WebSocket it reads and the version it holds
  beat,      \* beat[k]: heartbeatPump, and the WebSocket it writes
  recon,     \* recon[k]: reconnectWithBackoff, and its attempt
  closer,    \* Close: how far it is
  eventCh,   \* the buffered channel of events
  lastSeen,  \* lastSeenVersion of the user
  reset,     \* ResetVersions has been called
  panicked   \* a goroutine sent on the closed channel

readVars == <<eventCh, lastSeen, reset, panicked>>
sdkVars == <<state, conn, open, dials, reader, beat, recon, closer, readVars>>

Dials == 1..MaxDials
ReaderSteps == {"none", "check", "read", "dedup", "deliver", "failed", "report", "again", "return", "gone"}
ReconSteps == {"none", "loop", "backoff", "wait", "connect", "dial", "install", "connected", "start", "gone"}
CloseSteps == {"none", "done", "channel", "conn", "returned"}
States == {"disconnected", "connecting", "connected", "reconnecting", "closed"}

SdkTypeOK ==
  /\ state \in States /\ conn \in Dials /\ open \subseteq Dials /\ dials \in Dials
  /\ reader \in [Dials -> [at : ReaderSteps, on : Dials, version : 0..MaxVersion]]
  /\ beat \in [Dials -> [at : {"none", "tick", "write", "gone"}, conn : Dials]]
  /\ recon \in [Dials -> [at : ReconSteps, attempt : 0..MaxAttempts, new : Dials]]
  /\ closer \in CloseSteps
  /\ eventCh \in Seq(1..MaxVersion) /\ Len(eventCh) <= BufferSize
  /\ lastSeen \in 0..MaxVersion
  /\ reset \in BOOLEAN /\ panicked \in BOOLEAN

\* Connect returned to the program: the first dial succeeded.
SdkInit ==
  /\ state = "connected" /\ conn = 1 /\ open = {1} /\ dials = 1
  /\ reader = [k \in Dials |-> [at |-> IF k = 1 THEN "check" ELSE "none", on |-> 1, version |-> 0]]
  /\ beat = [k \in Dials |-> [at |-> IF k = 1 THEN "tick" ELSE "none", conn |-> 1]]
  /\ recon = [k \in Dials |-> [at |-> "none", attempt |-> 0, new |-> 1]]
  /\ closer = "none"
  /\ eventCh = <<>> /\ lastSeen = 0
  /\ reset = FALSE /\ panicked = FALSE

\* The channels done and eventCh, which Close closes one after the other.
Done == closer \in {"channel", "conn", "returned"}
ChannelClosed == closer \in {"conn", "returned"}

-----------------------------------------------------------------------------
\* readPump, from one look at done to the next; what it holds is a variable of
\* one iteration.
ReaderGoto(k, from, to) == reader[k].at = from /\ reader' = [reader EXCEPT ![k].at = to]

CheckDone(k) ==
  /\ reader[k].at = "check"
  /\ reader' = [reader EXCEPT ![k] =
       [at |-> IF Done THEN "return" ELSE "read", on |-> conn, version |-> 0]]
  /\ UNCHANGED <<state, conn, open, dials, beat, recon, closer, readVars>>

ReadEvent(k, v) ==
  /\ reader[k].at = "read" /\ reader[k].on \in open
  /\ reader' = [reader EXCEPT ![k].at = "dedup", ![k].version = v]
  /\ UNCHANGED <<state, conn, open, dials, beat, recon, closer, readVars>>

\* Mutant: an event of the version seen last passes.
DedupOlder(k) == LET new == reader[k].version >= lastSeen IN
  /\ ReaderGoto(k, "dedup", IF new THEN "deliver" ELSE "check")
  /\ lastSeen' = IF new THEN reader[k].version ELSE lastSeen
  /\ UNCHANGED <<state, conn, open, dials, beat, recon, closer, eventCh, reset, panicked>>

Dedup(k) == LET new == reader[k].version > lastSeen IN
  /\ ReaderGoto(k, "dedup", IF new THEN "deliver" ELSE "check")
  /\ lastSeen' = IF new THEN reader[k].version ELSE lastSeen
  /\ UNCHANGED <<state, conn, open, dials, beat, recon, closer, eventCh, reset, panicked>>

\* A send that does not block: a full channel drops the event, a closed one
\* panics.
Deliver(k) ==
  /\ ReaderGoto(k, "deliver", "check")
  /\ panicked' = ChannelClosed
  /\ eventCh' = IF ~ChannelClosed /\ Len(eventCh) < BufferSize
                THEN Append(eventCh, reader[k].version) ELSE eventCh
  /\ UNCHANGED <<state, conn, open, dials, beat, recon, closer, lastSeen, reset>>

ReadFails(k) ==
  /\ reader[k].on \notin open
  /\ ReaderGoto(k, "read", "failed")
  /\ UNCHANGED <<state, conn, open, dials, beat, recon, closer, readVars>>

CheckClosing(k) ==
  /\ ReaderGoto(k, "failed", IF Done THEN "return" ELSE "report")
  /\ UNCHANGED <<state, conn, open, dials, beat, recon, closer, readVars>>

Report(k) ==
  /\ ReaderGoto(k, "report", "again")
  /\ state' = "disconnected"
  /\ UNCHANGED <<conn, open, dials, beat, recon, closer, readVars>>

\* Mutant: the pump goes on reading once it has started the reconnection.
ReconnectReadOn(k) ==
  /\ ReaderGoto(k, "again", "check")
  /\ recon' = IF state = "closed" THEN recon ELSE [recon EXCEPT ![k].at = "loop"]
  /\ UNCHANGED <<state, conn, open, dials, beat, closer, readVars>>

StartReconnect(k) ==
  /\ ReaderGoto(k, "again", "return")
  /\ recon' = IF state = "closed" THEN recon ELSE [recon EXCEPT ![k].at = "loop"]
  /\ UNCHANGED <<state, conn, open, dials, beat, closer, readVars>>

\* Mutant: nothing is closed on the way out.
ReturnOpen(k) ==
  /\ ReaderGoto(k, "return", "gone")
  /\ UNCHANGED <<state, conn, open, dials, beat, recon, closer, readVars>>

\* The deferred close is of whatever c.conn holds by then.
ReturnReader(k) ==
  /\ ReaderGoto(k, "return", "gone")
  /\ open' = open \ {conn}
  /\ UNCHANGED <<state, conn, dials, beat, recon, closer, readVars>>

ReaderStep(k) == \/ CheckDone(k) \/ Dedup(k) \/ Deliver(k) \/ ReadFails(k)
                 \/ CheckClosing(k) \/ Report(k) \/ StartReconnect(k) \/ ReturnReader(k)

-----------------------------------------------------------------------------
\* reconnectWithBackoff, and connect when its delay is over.
ReconGoto(k, from, to) == recon[k].at = from /\ recon' = [recon EXCEPT ![k].at = to]

Loop(k) == /\ ReconGoto(k, "loop", IF Done THEN "gone" ELSE "backoff")
           /\ UNCHANGED <<state, conn, open, dials, reader, beat, closer, readVars>>

\* Mutant: one attempt more.
BackoffOneMore(k) == LET spent == MaxAttempts > 0 /\ recon[k].attempt > MaxAttempts IN
  /\ ReconGoto(k, "backoff", IF spent THEN "gone" ELSE "wait")
  /\ state' = IF spent THEN "disconnected" ELSE "reconnecting"
  /\ UNCHANGED <<conn, open, dials, reader, beat, closer, readVars>>

Backoff(k) == LET spent == MaxAttempts > 0 /\ recon[k].attempt >= MaxAttempts IN
  /\ ReconGoto(k, "backoff", IF spent THEN "gone" ELSE "wait")
  /\ state' = IF spent THEN "disconnected" ELSE "reconnecting"
  /\ UNCHANGED <<conn, open, dials, reader, beat, closer, readVars>>

\* Mutant: the delay is not cut short, and the dial gives up without a word.
WaitThenQuit(k) == /\ ReconGoto(k, "wait", "gone")
                   /\ UNCHANGED <<state, conn, open, dials, reader, beat, closer, readVars>>

Wait(k) == /\ \/ Done /\ ReconGoto(k, "wait", "gone")
              \/ ReconGoto(k, "wait", "connect")
           /\ UNCHANGED <<state, conn, open, dials, reader, beat, closer, readVars>>

Connect(k) == /\ ReconGoto(k, "connect", "dial")
              /\ state' = "connecting"
              /\ UNCHANGED <<conn, open, dials, reader, beat, closer, readVars>>

Dial(k) == /\ recon[k].at = "dial" /\ dials < MaxDials
           /\ dials' = dials + 1
           /\ open' = open \cup {dials + 1}
           /\ recon' = [recon EXCEPT ![k].at = "install", ![k].new = dials + 1]
           /\ UNCHANGED <<state, conn, reader, beat, closer, readVars>>

\* Attempts are counted while there is a limit to them.
DialFails(k) == /\ recon[k].at = "dial"
                /\ state' = "disconnected"
                /\ recon' = [recon EXCEPT ![k].at = "loop",
                                ![k].attempt = IF MaxAttempts > 0 THEN @ + 1 ELSE 0]
                /\ UNCHANGED <<conn, open, dials, reader, beat, closer, readVars>>

Install(k) == /\ ReconGoto(k, "install", "connected")
              /\ conn' = recon[k].new
              /\ UNCHANGED <<state, open, dials, reader, beat, closer, readVars>>

Connected(k) == /\ ReconGoto(k, "connected", "start")
                /\ state' = "connected"
                /\ UNCHANGED <<conn, open, dials, reader, beat, closer, readVars>>

StartPumps(k) == LET n == recon[k].new IN
  /\ ReconGoto(k, "start", "gone")
  /\ reader' = [reader EXCEPT ![n].at = "check"]
  /\ beat' = [beat EXCEPT ![n].at = "tick"]
  /\ UNCHANGED <<state, conn, open, dials, closer, readVars>>

ReconStep(k) == \/ Loop(k) \/ Backoff(k) \/ Wait(k) \/ Connect(k) \/ Dial(k) \/ DialFails(k)
                \/ Install(k) \/ Connected(k) \/ StartPumps(k)

-----------------------------------------------------------------------------
\* heartbeatPump: at a tick it writes to the WebSocket c.conn holds, when the
\* connection is connected; it ends with done or a failed write.  Its copy of
\* c.conn is a variable of one tick.
Beat(k) ==
  /\ beat[k].at = "tick" /\ ~Done /\ state = "connected"
  /\ beat' = [beat EXCEPT ![k] = [at |-> "write", conn |-> conn]]
  /\ UNCHANGED <<state, conn, open, dials, reader, recon, closer, readVars>>

WriteBeat(k) ==
  /\ beat[k].at = "write"
  /\ beat' = [beat EXCEPT ![k] =
       [at |-> IF beat[k].conn \in open THEN "tick" ELSE "gone", conn |-> 1]]
  /\ UNCHANGED <<state, conn, open, dials, reader, recon, closer, readVars>>

EndBeat(k) ==
  /\ beat[k].at = "tick" /\ Done
  /\ beat' = [beat EXCEPT ![k].at = "gone"]
  /\ UNCHANGED <<state, conn, open, dials, reader, recon, closer, readVars>>

\* Close, one effect at a time.  Disconnect is Close after a close frame, whose
\* effect is Break.
CloseGoto(from, to) == closer = from /\ closer' = to

CloseState == /\ CloseGoto("none", "done")
              /\ state' = "closed"
              /\ UNCHANGED <<conn, open, dials, reader, beat, recon, readVars>>

CloseChannels == /\ \/ CloseGoto("done", "channel") \/ CloseGoto("channel", "conn")
                 /\ UNCHANGED <<state, conn, open, dials, reader, beat, recon, readVars>>

CloseConn == /\ CloseGoto("conn", "returned")
             /\ open' = open \ {conn}
             /\ UNCHANGED <<state, conn, dials, reader, beat, recon, readVars>>

\* The network or the gateway ends a WebSocket; the program takes an event.
Break(k) == /\ k \in open /\ dials < MaxDials
            /\ open' = open \ {k}
            /\ UNCHANGED <<state, conn, dials, reader, beat, recon, closer, readVars>>

TakeEvent == /\ eventCh # <<>>
             /\ eventCh' = Tail(eventCh)
             /\ UNCHANGED <<state, conn, open, dials, reader, beat, recon, closer, lastSeen, reset, panicked>>

\* ResetVersions, for a program that has fetched a snapshot; once here, and
\* when there is something to forget.
ResetVersions ==
  /\ ~reset /\ lastSeen > 0
  /\ lastSeen' = 0 /\ reset' = TRUE
  /\ UNCHANGED <<state, conn, open, dials, reader, beat, recon, closer, eventCh, panicked>>

SdkNext == /\ ~panicked
           /\ \/ \E k \in Dials : \/ \E v \in 1..MaxVersion : ReadEvent(k, v)
                                  \/ ReaderStep(k) \/ ReconStep(k)
                                  \/ Beat(k) \/ WriteBeat(k) \/ EndBeat(k) \/ Break(k)
              \/ CloseState \/ CloseChannels \/ CloseConn \/ TakeEvent \/ ResetVersions

SdkSpec == SdkInit /\ [][SdkNext]_sdkVars

\* Goroutines run on and a server that answers again and again is reached.
SdkFairness == /\ \A k \in Dials : /\ WF_sdkVars(~panicked /\ ReaderStep(k))
                                   /\ WF_sdkVars(~panicked /\ ReconStep(k))
                                   /\ SF_sdkVars(~panicked /\ Dial(k))
                                   /\ WF_sdkVars(~panicked /\ (WriteBeat(k) \/ EndBeat(k)))
               /\ WF_sdkVars(~panicked /\ (CloseChannels \/ CloseConn))

SdkLiveSpec == SdkSpec /\ SdkFairness

-----------------------------------------------------------------------------
\* Reading readPumps, and goroutines that are about to start one.
Reading == {k \in Dials : reader[k].at \notin {"none", "return", "gone"}}
Reconnecting == {k \in Dials : recon[k].at \notin {"none", "gone"}}

\* At most one readPump reads or is about to be started: events are handled
\* one at a time and no two goroutines ever reconnect.
OneReader == Cardinality(Reading) + Cardinality(Reconnecting) <= 1

\* The program receives each version at most once and in order, whatever the
\* server sends again after a reconnection (the promise of Events), as long as
\* it has not asked to start again by ResetVersions.
EventsInOrder == ~reset => \A i, j \in 1..Len(eventCh) : i < j => eventCh[i] < eventCh[j]

\* The limit of attempts ended the reconnection of reader k.
AttemptsSpent(k) == MaxAttempts > 0 /\ recon[k].attempt = MaxAttempts

\* Once its loss has been reported a WebSocket is replaced and the connection
\* is connected again, unless the attempts are used up or Close is called.
LostReconnects == \A k \in Dials :
  (reader[k].at = "again" /\ dials < MaxDials)
    ~> state = "connected" \/ AttemptsSpent(k) \/ closer # "none" \/ panicked

\* After Close every goroutine ends and every WebSocket is closed, even one
\* that was being dialled.
CloseEndsAll == Done ~> \/ panicked
                        \/ /\ open = {}
                           /\ \A k \in Dials : /\ reader[k].at \in {"none", "gone"}
                                               /\ recon[k].at \in {"none", "gone"}
                                               /\ beat[k].at \in {"none", "gone"}

\* Close never makes the program panic.
NoPanic == ~panicked
=============================================================================
