# A verification of user_engine in TLA+

user_engine keeps, for every *scope* (tenant, workspace), who is online. Gateways
hold the WebSockets of clients, a debouncer worker turns closed connections into
disconnects after a delay, a sweeper worker cleans up what nobody closed, an HTTP
API reads and changes the same state, and webhook workers forward events. All of
them share nothing but Redis. Three Lua scripts are atomic; everything else is a
chain of Redis round trips, and other processes run between any two of them. That
is where this code can go wrong and where tests hardly reach, so that is what is
modelled here: TLC checks the interleavings on small instances and TLAPS proves
what holds of the store and of the engine for all of them.

## 1. The system

| Component | State it keeps | Operations | Interacts with |
|---|---|---|---|
| Presence store (`pkg/presence/keys.go`, `lua/*.lua`) | session keys with a TTL, `user_sessions`, `online_users`, `user_version`, `scopes` | `connect.lua`, `heartbeat.lua`, `disconnect.lua`, expiry | everyone, through Redis |
| Presence service (`service.go`, `presence_state.go`) | `invisible_users`, `user_devices`, `session_states`, `last_pub_presence` | Connect, Heartbeat, Disconnect, DisconnectUser, SetSessionPresenceState, look-ups | called by gateways, workers and the API |
| Debouncer (`debouncer.go`) | job queue, job metadata with a TTL, index of jobs per session, transitions | ScheduleDisconnect, CancelDisconnect (gateway); ProcessDueJobs, executeJob, recordTransition (worker) | Service.Disconnect, event bus |
| Gateway connection (`pkg/ws/client.go`) | one goroutine per connection | connect, heartbeat, presence_state, end of the connection | service, debouncer, event bus, hub |
| Hub (`pkg/ws/hub.go`) | map of connections, subscriptions, two channels, `closing` | HandleWebSocket, Run, Unregister, broadcast, Shutdown | the goroutines of the clients |
| Sweeper (`sweeper.go`) | cursor | Tick, sweepScope, sweepUser | the keys directly, event bus |
| HTTP API (`cmd/api/main.go`) | none | disconnect a user; read operations | service, event bus |
| Event bus (`pkg/events`) | none: Redis Pub/Sub | Publish, Subscribe | publishers and gateways |
| Go SDK (`pkg/sdk/client.go`) | connection state, WebSocket, event channel, last versions | Connect, Close, reconnection, heartbeats | a gateway |
| Webhooks (`pkg/webhooks`) | a Redis stream and its consumer group | Publish, Run, deliver, PublishRetry | HTTP endpoints |
| Configuration, authentication, health, metrics, start-up, examples, scripts | | | not modelled: no presence operation depends on their state |

What is hard, and what makes each part correct:

* **Several actors, no transactions.** The sweeper, the API and the debouncer each
  read, decide and write in separate round trips. Correct means: `online_users`
  agrees with `user_sessions`; a live session is in its index; the scope of an
  online user is listed.
* **Ordering by version.** Pub/Sub forgets, and subscribers apply an event only if
  its version is newer. Correct means: no two states of a user share a version,
  the event of a version tells what that version stands for, and when everything
  has come to rest a subscriber is current.
* **Late and cancelled work.** Jobs run after the fact, perhaps twice, perhaps
  after a reconnection. Correct means: an open connection is never disconnected
  by a job of an earlier one, and each closed one is.
* **Crashes and expiry.** Gateways and workers stop anywhere, keys expire by
  themselves. Correct means: zombies are swept, a stop loses no consistency.
* **Goroutines, channels and mutexes** in the hub and the SDK. Correct means: one
  reader, versions in order, subscriptions that follow the map, an end for every
  goroutine after Close, a disconnect job for every connection.
* **Clocks that race.** The TTL of a session, the rate limit of heartbeats, the read
  deadline and the ping period are set apart from each other. Correct means: a
  client that lives keeps its session and its connection, one that is gone loses
  both.
* **Channels that drop.** An event passes a subscription, a broadcast and the channel
  of each client, and none waits for the next. Correct means: nobody gets an event
  twice, and an open client misses nothing but what a full channel dropped.
* **At-least-once queues.** Webhook attempts stay bounded, a delivered event is
  not sent again, an undelivered one is not lost before its first attempt.

## 2. The modules

```
PresenceAbs        what the store promises                    (abstract)
PresenceStore      keys, scripts, expiry                      implements PresenceAbs
  EventBus         events and the view of a subscriber
    PresenceService  the other keys; Service.Disconnect by round trips
      Debouncer      jobs and workers
        Gateway      connections
      Sweeper        the sweeper
      Api            the disconnect request
        Engine       all of them over the same keys           implements PresenceAbs
Hub                the gateway's hub and the goroutines around it
SdkConnection      the goroutines of an SDK connection
Heartbeat          the clocks of one connection: heartbeats, TTL, pings, deadline
Fanout             events from the Redis channel to the WebSockets of a gateway
WebhookWorker      stream, workers, retries

PresenceStore_proofs, Engine_proofs (uses the former), EngineTypes_proofs (uses both),
Hub_proofs, SdkConnection_proofs, Heartbeat_proofs, WebhookWorker_proofs,
Fanout_proofs      theorems about these modules
MCEngine, MCHub, MCFanout   instances for TLC
```

**PresenceStore** has one variable per key. A session key is the number of ticks
it has left, 0 when there is none. A script is an operator on the primed keys
(`ConnectScript`) with a second operator for its reply (`ConnectReply`), so that
the callers take both. `StoreSpec` lets the scripts and expiry run in any order
for any session; it is the reference for the callers and the subject of the
proofs. The module also shows what the scripts rely on: `disconnect.lua` decides
by SCARD *and* by what SREM returned, `connect.lua` by SCARD alone.

**EventBus** is one subscriber that listens from the start and applies an event
when its version is newer, as `readPump` of the SDK does. A failed PUBLISH is
logged and forgotten by all publishers, so a lost event changes nothing else.

**PresenceService** splits `Service.Disconnect` at its Redis calls (GET, EVALSHA,
SREM, DEL, DEL or HINCRBY, HDEL, HGETALL, GET, SET); `call[c]` is the program
counter and the local variables of caller `c`. The callers are the debouncer
workers and the API requests.

**Debouncer**, **Gateway**, **Sweeper** and **Api** are processes of that kind
too. A job is the session and the number of the connection that scheduled it. The
sweeper's SSCAN cursor is the set of users it has passed. `Gateway` allows a
session id to be used by several connections one after the other (`MaxConns`):
the gateway makes a fresh one each time, `examples/embedded` does not.

**Engine** is their disjunction. **Hub** looks at the gateway from the other side:
the two channels `Run` receives from, the map under its mutex, `closing`, the
four steps of `Shutdown`, and main (`process`), which a signal makes return beside
them: nobody waits for the goroutine that runs `Shutdown` (`cmd/gateway/main.go:59-63`)
or for a pump, and once main has closed Redis and returned, all of them end where they
are (`ReturnMain`, `Exit`). **SdkConnection** numbers the dials and has a reader, a
heartbeat and a reconnecting goroutine for each, and `ResetVersions`, which the
application may call at any time. `Disconnect` is `Close` after a close frame, which
does no more than break the connection first. **WebhookWorker** has the stream,
the pending list and what a worker holds in memory.

**Heartbeat** is the one module where time counts. A `Tick` passes while nobody is
late; every clock is a time since or until something, so that no absolute time is
kept. It has the client that sends a heartbeat every `MinGap` to `MaxGap`, those
still under way, the ReadPump with the rate limit (`handleHeartbeat`), the session
key, the WritePump with its pings, and the read deadline, which only a pong moves.
`Delay` bounds the way of a heartbeat from the write to the end of its handler,
`RoundTrip` that of a ping, and Redis may refuse `MaxLost` heartbeats in a row. The
session may be disconnected through the API (`EndSession`), of which the gateway only
learns by the next heartbeat that the rate limit lets through.

**Fanout** follows events from `Publish` through the goroutine of `Subscribe` and its
channel, `broadcastToScope`, the channel of each client and its WritePump. A
subscription ends with the last client of the scope, but its goroutine runs on
until its channel is empty, next to the one of the next subscription. `Join` and
`Leave` are the parts of `addClient` and `removeClient` under the mutex, of which
**Hub** has the rest. `due` and `overflowed` are history: what a client wanted when
it was published, and what a full channel of a subscription dropped.

Round trips are merged in these places only, and each comment says why: the
SMEMBERS and the pipeline of CancelDisconnect, the commands of a pipeline nobody
can look into, a mutex and the reads under it. The pipeline of
SetSessionPresenceState, which other processes can look into, is three steps.

## 3. What TLC checks

All runs are exhaustive on their instance. *Passing* runs:

| Run | Instance | Properties |
|---|---|---|
| MCGateway | 2 tabs of a user, 2 debouncers, flapping threshold 2, fairness | TypeOK, NewestViewExact, ConnectedIsOnline, SettledViewOrFlapping, SettledOnlineExact, VersionOrdersStatus, **AbsSpec**, ClosedSessionRemoved |
| MCFaults | 2 tabs, one invisible, 1 state change; gateway and worker stop, jobs expire, events are lost | OnlineIffSessions, NewestViewExact, OnlineScopeListed |
| MCSideKeys | 2 tabs with devices, one invisible, 1 state change, 1 debouncer; gateways stop, jobs expire, events are lost | OfflineForgotten |
| MCApi | 2 tabs, 1 debouncer, 1 API request that may be cancelled | LiveSessionIndexed, ViewNeverAhead |
| MCSweeper | 2 tabs, one with a device type, 1 debouncer, 1 sweeper that stops anywhere | LiveSessionIndexed, ViewNeverAhead |
| MCTwoUsers | 2 users with a tab each, gateways stop, one user per SSCAN, fairness | ZombieSwept |
| MCHub | 2 connections of a user, channels of one, slow consumers, a signal, Shutdown and the exit of main, fairness | HubTypeOK, OpenIsTracked, SubscribedIffConnected, EndedSchedules |
| MCFanout | 2 clients of 2 users, 2 events, 2 subscriptions one after the other, channels of one, slow consumers closed, fairness | FanoutTypeOK, AtMostOnce, OpenMissesNothing, WantedArrives |
| MCHeartbeat | the production durations in seconds, delays of 2 s, one refused heartbeat in a row, fairness | BeatTypeOK, SessionKept, ConnectionKept, DeadNoticed, EndedNoticed |
| MCSdk | 2 dials, 2 versions, a channel of two, one retry, Close and ResetVersions at any time, fairness | SdkTypeOK, OneReader, EventsInOrder, LostReconnects, CloseEndsAll |
| MCWebhook | 2 events, 2 workers, 3 retries, stops and failing commands, fairness | WebhookTypeOK, AttemptsBounded, DeliveredOnce, UnpostedKept, EventSettles |

Together they say: as long as only gateways and debouncers are at work the engine
*implements* `PresenceAbs`, its events are right, even when jobs are executed twice, and
at rest exactly the connected users are online; crashes and lost events cost events,
never consistency; the sweeper and the API never lose a live session; zombies are swept
while their user and scope are listed; what the other keys of a user hold is forgotten
with its last session; a living client keeps its session, and its events reach it.

A *violation* run checks one sentence of the repository's own text against the
code, and TLC shows how it fails (`PROJECT.json`, `findings`, has the lines):

| Run | Property | What happens |
|---|---|---|
| MCSweepRace | SessionsMeanOnline | a session opens between the sweeper's SCARD (`sweeper.go:226`) and SREM (`:241`): connected, but not listed online |

### What the models also show

These follow from the same actions. TLC finds each in seconds when the statement
in the middle is added as an invariant (or, for zombies, as a leads-to) to an
instance with the actors named (Heartbeat: with the durations named); they are kept
as text, to hold the number of runs down.

| Where | The statement that fails | How |
|---|---|---|
| `debouncer.go:360` | `SettledViewCurrent`: a late offline event is told eventually (`README.md:663`) | the worker stops after the script and before the event; the repeated job removes nothing and finds nothing to tell |
| `sdk/client.go:593` | `NoPanic`: Close ends the connection (`sdk/client.go:471`) | Close closes the event channel (`:476`) a reader is about to send on, which panics |
| `config/dev.go:15` | `SessionKept` in development (`docs/django_implementation_guide.md:28`, `:240-243`) | the TTL is 12 s, the Go SDK sends every 15 to 18 s whatever HEARTBEAT_INTERVAL says (`sdk/client.go:602-603`) |
| `service.go:306` | `OfflineForgotten` with two debouncers | one has run disconnect.lua for a tab that was not the last, the other takes the user offline and deletes the counts, then the first decrements |
| `sweeper.go:111` | `ZombieSwept` with two sweepers | they share the cursor: one stores it, the other deletes it or runs ahead of it, again and again |
| `service.go:189` | an invisible user is never shown online (`README.md:433`) | `connect.lua` has listed it, SADD to `invisible_users` is the next round trip; LookupUsers reads both keys in between |
| `service.go:302` | a connected invisible session is marked | the offline chain of an earlier session's Disconnect clears the mark after the next one has set it |
| `ws/hub.go:353` | a client gets events in the order of their publication | the goroutine of a cancelled subscription still has older ones when the next subscription delivers |
| `config/base.go:123` | `OpenMissesNothing` with the default DISCONNECT_SLOW_CONSUMERS=false | a full channel drops the event and the client stays, unaware |
| `sweeper.go:268`, `service.go:337` | `NewestViewExact`: the newest event carries the current tab count | a sweeper counts, or DisconnectUser finds no session, then a tab connects, then they take a version for what they found |
| `service.go:337` | a user with sessions is listed | the window of MCSweepRace, in DisconnectUser |
| `sweeper.go:164` | every zombie is swept | a scope is delisted while a session opens in it; neither worker visits it any more |
| `debouncer.go:333` | a cancelled job does nothing | with a session id used again (`examples/embedded`), a job whose metadata was read before the cancellation disconnects the new connection |
| `ws/client.go:156` | a normal close is immediate (`docs/SESSION_AND_TAB_TRACKING_ANALYSIS.md:138`) | every close is debounced, `normalClose` is only logged |
| `debouncer.go:343` | a suppressed offline event follows later (`README.md:519`) | it is dropped, `OfflineDelay` is read nowhere |
| `debouncer.go:280` | suppression above the threshold (`README.md:518`) | it starts at the threshold |
| `presence_state.go:143` | the published state is the aggregate | two tabs change state, the older aggregate is written last |
| `service.go:269` | the device count is the number of sessions with a type | the session key has expired before its type is read |
| `service.go:302`, `debouncer.go:378`, `service.go:370` | invisible means an invisible session is connected, and is not told or listed (`README.md:433`, `:447`) | the mark outlives its session; tab events and the online list show invisible users |
| `cmd/gateway/main.go:62` | `EndedSchedules` without its exemption: a hub that is shut down gracefully (`ws/hub.go:167`) leaves a job for every connection that ends | `Shutdown` runs in a goroutine nobody waits for; ListenAndServe returns at once (`pkg/app/app.go:97-101`), main closes Redis (`main.go:33`) and exits before the pumps have scheduled; only the TTL and the sweeper remove those sessions |
| `sdk/client.go:646` | `EventsInOrder` after ResetVersions | the versions seen are forgotten while older events are still in the channel, or about to be read |
| `ws/hub.go:161` | an unregistered client leaves the map | `Run` may receive the unregistration first |
| `ws/hub.go:243` | no user has more connections than the cap | two requests are counted before either is in the map |
| `ws/hub.go:293`, `:155` | cleared maps stay clear; Shutdown closes every client | `addClient` has passed its check; the register channel is not drained |
| `sdk/client.go:541` | a closed connection stays in StateClosed | the goroutines store their state without looking |
| `sdk/client.go:387` | one goroutine sends heartbeats | the old one goes on with the new WebSocket |
| `sdk/client.go:594` | a full buffer drops the oldest event (its own comment) | it drops the newest |

### Bounds

* Users and sessions: two tabs of a user give every race about a user's count
  (0, 1, 2 and the way back); two users only matter to the sweeper's scan. A scope
  shares no key with another but `scopes`, of which it owns one element.
* `SessionTTL = 1`: a key is there or not, and it may expire at any time, since
  expiry is an action of its own. Two ticks would only add ways to wait.
* `MaxConns`: connections per session id. 1 in most runs, as in the gateway.
* `MaxStates`: presence_state messages; one in MCFaults, none elsewhere.
* `MaxVersion` bounds StoreSpec: no session of a user *opens* at that version.
* `FlappingThreshold = 0` is what `cmd/worker-debouncer` leaves it at. MCGateway has
  2: since the window of transitions may pass at any time, its behaviours include
  those in which nothing is suppressed. Counts above the threshold are not told
  apart from it.
* Hub: channels of capacity one are full as soon as two clients meet.
* SDK: two dials are the first and its replacement, `MaxDials` also bounds breaks;
  two versions and a channel of two show order and repetition. ResetVersions is called
  once at most, when something has been seen: nothing is said of the order after it.
* `subscribe_fails` (Hub) is in no run: subscribing fails there only once the
  context is done. A scope whose subscription fails gets no events until its next
  client, which SubscribedIffConnected would report. `schedule_fails`, an error of
  Redis in `scheduleDisconnect` (`ws/client.go:156-162`), is in no run either: it is
  logged and not tried again, so EndedSchedules fails by it alone. Hub_proofs covers it.
* Fanout: two subscriptions are an old one and its successor; a second event is what
  an order or an overflow takes. With one client in the scope the subscription ends.
* Heartbeat: the durations are those of `config/prod.go` and `base.go`, in seconds.
  TTLFits is tight for them: 5 s rate limit, two gaps of 18 s and two delays of 2 s
  are the TTL of 45 s.
* Webhooks: the three retries of the default configuration; batches of two and two
  workers let a retry overtake.

Deadlock is not checked where the system may rest: all clients gone and all jobs
done (Engine, Hub, Sdk, Webhook, Fanout), or the connection closed and the key
gone (Heartbeat).

### Fairness

Safety needs none. `LiveSpec` and its kin assume what goroutines and Redis give:
a goroutine that has something to do goes on (WF on the steps of connections,
workers and sweeps); a worker that polls again and again gets to every due job
(SF on taking a job: due jobs are read oldest first, and a job leaves the queue
when it is done); a sweep gets as far as one SSCAN before its budget is used up
(SF on scanning: the budget is looked at before the first SSCAN, and is 100 ms).
In Hub the goroutines run on only while the process lives, and nothing is assumed of
when main returns after a signal: before, between or after the steps of Shutdown and of
the pumps, which is why EndedSchedules promises a job only as long as main has not. In
the engine such an end of a gateway is `gateway_stops`, orderly or not.
Outside Heartbeat nothing is assumed of clients, gateways that die, or requests; nor that keys
expire. In the SDK a server that answers now and then is reached (SF on Dial). In
Heartbeat time passes (WF on Tick) and a client that runs sends what its ticker asks
for (WF on SendHeartbeat, the goroutine of the SDK); in Fanout the goroutines of
subscriptions run on and a write ends within WriteTimeout (WF), while nobody need join, leave or fail.

## 4. What is proved

`PresenceStore_proofs`, for all users, sessions, owners and TTLs (from
`StoreAssumption`: finitely many sessions, each with one owner, TTL at least one):

* **StoreInvariant**: `StoreSpec => []StoreInv`. The inductive invariant is the
  types and `OnlineIffSessions`, `LiveSessionIndexed`, `OnlineScopeListed`. That an
  index is finite, so that SCARD counts it, comes from `StoreAssumption`. Why the
  conjunction is needed:
  `connect.lua` lists a user only when SCARD is one after SADD. That keeps
  `OnlineIffSessions` only because it held before (a user with another session is
  listed already) and because a set of one element after adding `s` is `{s}`
  (lemma `FirstSession`; `LastSession` is its counterpart for SREM).
* **OnlineIsIndexed** (`OnlineIffSessions`) follows.
* **VersionsOrderStatus**: no step of any script changes whether a user is online
  without one new version.
* **StoreImplementsAbs**: `StoreSpec => AbsSpec`. Each script maps to Open, Close
  or a stutter; heartbeats and expiry stutter.

`Engine_proofs`, for any users, sessions, debouncers, connections and faults, mostly
under `NoCleaners` (no sweeper, no API request), since what the cleaners break is
listed above:

* **EngineInvariant**: `EngineOnStore` says that every step of every process does to
  the store what one script does, or takes a new version, or nothing; so the
  invariant of the store carries over. **EngineOnlineIndexed**
  (`OnlineIffSessions`), **EngineScopeListed** (`OnlineScopeListed`),
  **EngineVersionsOrder** (`VersionOrdersStatus`) and **EngineImplementsAbs**
  (`AbsSpec`) follow from the same lemma.
* **NewestViewAlwaysExact** (`NewestViewExact`). The invariant, `TellInv`, says of
  every place that carries a version and a count (a connection that connects or
  changes its state, a call of Disconnect, a job, a subscriber's view) that the
  count is exact if the version is still the user's, and that no version is
  ahead. It survives because whatever changes the count takes a new version with it.
* **ConnectedAlwaysOnline** (`ConnectedIsOnline`), when a session id is used once: a
  job names a connection that has ended, so no job that any worker holds can be
  about a connection that is up.

`EngineTypes_proofs`, for the whole engine, sweepers, API and faults included:

* **EngineTypeCorrect** (`TypeOK`).
* **ViewNeverAheadAlways** (`ViewNeverAhead`). No subscriber applies a version that the
  store has not given out. `GivenInv` says it of every place a version is carried: a
  connection, a call of Disconnect, a sweep on its way to an event, a request, a view.
  That needs `Owned` (an index holds the user's own sessions), since a request carries
  the reply for a session it has read out of an index under the name of the user it was
  asked about; and it survives because **VersionsOnlyGrow**.
* **LiveAlwaysIndexed** (`LiveSessionIndexed`), when a session id is used once. A
  sweeper prunes on an EXISTS that is round trips old, and it has read the index
  earlier still. `LiveInv` says that whatever it has read has been opened before and
  that a key found gone stays gone: only a new connection could bring it back.

The same module has what holds of the engine *at rest* (`Quiet`). There something has
to have happened, so each theorem leaves out the faults that prevent it; none bounds
users, sessions, or (but for `OneWorker`) workers:

* **SettledAlwaysExact** (`SettledOnlineExact`), under `NoCleaners`, `MaxConns = 1` and

      JobsStay == {"gateway_stops", "job_expires"} \cap Faults = {}

  Workers may stop anywhere and events may be lost. The invariant, `EndedInv`, needs
  neither of the first two: a session whose connection is over is out of the index or
  has its job in the queue, with sweepers, requests and session ids used again. A job is
  taken out of the queue only when its script has run (`RanScript`), and the script has
  taken the session out (`Gone`), which only a new connection would undo, and then the
  job is no longer about the newest one (`Ended`). A gateway that dies or metadata that
  expires leaves a session without a job: that is what the sweeper is for.
  **SettledOnlyConnected** is the half that needs JobsStay only: what is indexed is
  connected.
* **SettledAlwaysOrFlapping** (`SettledViewOrFlapping`), under

      Reliable == NoCleaners /\ Invisible = {} /\ Faults \subseteq {"job_expires"}

  for any number of connections, workers and any threshold; **SettledAlwaysCurrent**
  says that with flapping detection off nothing at all stays untold. `SureInv` names who
  will tell the newest version of each user: a connection that has registered and not
  yet announced, a job between script and announcement, or nobody because a subscriber
  has it. The two exceptions are an offline event that detection has suppressed or may
  still suppress; then the version before it is told, as the user has no session left.
  Each condition of `Reliable` is needed: an invisible connection announces nothing, a
  lost event is lost, a stopped gateway or worker forgets what it was about to tell, and
  a sweeper tells only what it counted.
* **OfflineAlwaysForgotten** (`OfflineForgotten`), under

      OneWorker == /\ NoCleaners /\ MaxConns = 1
                   /\ \A d, e \in Debouncers : d = e
                   /\ "debouncer_stops" \notin Faults

  with gateways that stop, jobs that expire, invisible sessions and devices. `ForgetInv`
  says which step of the one Disconnect under way will still clear each key of a user
  without sessions (`ForgetsOf`), that a Disconnect with sessions left still has them when it
  writes (`Remain`), and that a job's session is indexed until the job has run
  (`JobsOpen`): a script that found nothing to remove would clear nothing. With two
  workers the property is false (section 3).

`Heartbeat_proofs`, for any durations that satisfy

    TTLFits      == RateLimit + (MaxLost + 1) * MaxGap + 2 * Delay <= SessionTTL
    DeadlineFits == PingPeriod + RoundTrip < PongWait

**SessionAlwaysKept** (`SessionKept`), **ConnectionAlwaysKept** (`ConnectionKept`) and
**HeartbeatTypeCorrect** (`BeatTypeOK`).
`KeptInv` follows a heartbeat that is owed: it bounds how long ago the key was set by
what has been sent, rejected and refused since. The code's own check of the durations
(`config.go:216`, TTL at least two intervals) is weaker than TTLFits.

`Fanout_proofs`, for any clients, users, events, subscriptions and sizes of the channels:

* **FanoutTypeCorrect** (`FanoutTypeOK`).
* **FanoutAtMostOnce** (`AtMostOnce`). `OnceInv` says that an event is with one
  subscription only and there in one place only - what Redis and go-redis hold, the
  channel, the broadcast - and that a client that has it is not among those it will
  still be offered to. So the goroutines of old subscriptions do no harm.
* **FanoutMissesNothing** (`OpenMissesNothing`). `MissInv` adds that a client without a
  subscription has nothing due; the step that matters is `Offer` to a full channel,
  which closes the client.

`WebhookWorker_proofs`, for any events, workers, batch sizes, retries and both faults:
**AttemptsAlwaysBounded**, **DeliveredOnlyOnce**, **UnpostedAlwaysKept** and
**WebhookTypeCorrect**. The invariant (`Placed`) is that an event has at most one
message that can still be worked on, on the stream, in a batch or with a retry, and
that its attempt number counts the POSTs.

`SdkConnection_proofs`, for any number of dials, versions and attempts and any size
of the event channel (`SdkAssumption`):

* **SdkInvariant**: `SdkSpec => []SdkInv`, by one lemma per conjunct and kind of
  goroutine. Neither `OneReader` nor `EventsInOrder` is inductive. `OneTurn` says
  of which goroutines at most one may be there *and* that a reader and a
  reconnection never coexist, so that a reader that stops hands its turn on;
  `AttemptLeft` keeps the counter of a waiting reconnection in its type. The order
  of the channel needs `HoldsNewest`: a reader past the version check, at its
  send, holds the version the connection saw last, which is newer than all in the
  channel (`ChannelSeen` for the time before). That stays true only because no
  other reader can raise the version meanwhile, which is `OneTurn` again.
  All of it is said of the time until `ResetVersions` is called.
* **OneReaderAlways** (`OneReader`), **EventsAlwaysInOrder** (`EventsInOrder`) and
  **SdkTypeCorrect** (`SdkTypeOK`).

`Hub_proofs`, for any clients, users and scopes, any cap and any capacity of the
channels (`HubAssumption`), with the end of the process at any time after a signal:

* **HubInvariant**: `HubSpec => []HubInv`. To `HubTypeOK` and `OpenIsTracked` it
  adds `Stopping` (Shutdown clears the map only after it has set the flag),
  `Leaving` (a client in the unregister channel no longer reads, so removing it
  removes no open connection), `AddingInAdd` and `PumpOfRequest`.
* **HubTypes** (`HubTypeOK`) and **OpenAlwaysTracked** (`OpenIsTracked`) follow.
* **SubscriptionsFollow**: `HubSpec => []SubscribedIffConnected` when
  `subscribe_fails` is no fault; with it the property is false.

Every invariant that a passing run checks, and both action properties, are theorems.
TLC found each inductive invariant to hold on small instances before its proof.

Only model-checked are the liveness properties: ClosedSessionRemoved, ZombieSwept,
EndedSchedules, WantedArrives, DeadNoticed, EndedNoticed, LostReconnects, CloseEndsAll
and EventSettles. Fairness is defined with ENABLED, of which the provers know nothing,
and most of these leads-tos need an induction over a queue or a count as well.
Their safety halves are theorems: nothing that has to be done is forgotten
(`EndedInv` for ClosedSessionRemoved, `Placed` for EventSettles). `SessionsMeanOnline` has no
theorem, as it is false.

## 5. What is not modelled

Outside Heartbeat, time: debounce delay, TTL and backoff are "any time". JSON and
HTTP, authentication and origins, metrics, Redis Cluster, the read operations and
their endpoints (one pipeline each, which changes nothing; two replies of a pipeline
need not fit together, see `service.go:189` above), Redis errors other than those
that end an operation early, and go-redis's own retries of a command whose answer was
lost: a script, an XADD or an INCR may then run twice, which no caller notices (a webhook
event could be on the stream twice). In the engine the pub/sub buffers are the fault
`lost_event`; Fanout has them in detail. The SDK never recognises `reconnect_required`
(`pkg/sdk/client.go:561-575` asks for an empty type and a non-empty one) and the
deployed debouncer has no flapping detection (`cmd/worker-debouncer/main.go:52-57`):
neither needs a model to be seen, and the models follow the code.

## 6. Plan

Done in this order: store, event bus, service, debouncer, gateway, sweeper, API,
engine; hub, SDK, webhooks; proofs about the store, the SDK and the hub; the clocks of
a connection, the fan-out of events, what the side keys leave behind; proofs about the
engine, the clocks and the webhooks; the whole engine's versions, and the engine at rest.

Left:

1. ZombieSwept with two tabs of the same user and both workers at work: the state
   space of the composition is beyond a run of minutes.
2. An abstract specification of what the webhooks promise (each event is open, POSTed,
   then settled once), and of the fan-out, with the refinement proved as it is for the
   engine.
3. `calculateDelay` and `calculateBackoff`, pure functions of the attempt.
