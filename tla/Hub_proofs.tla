----------------------------- MODULE Hub_proofs -----------------------------
(***************************************************************************)
(* What the hub of a gateway guarantees for any number of clients, users   *)
(* and scopes and any capacity of its channels: an open connection stays   *)
(* in the map until its own end, and the subscriptions follow the map.     *)
(***************************************************************************)
EXTENDS Hub, FiniteSetTheorems, SequenceTheorems, TLAPS

\* Shutdown begins by setting the flag, after the context is done.
Stopping == shutdown.at # "none" => closing /\ cancelled

\* A client in the unregister channel has stopped reading for good.
Leaving == \A i \in 1..Len(unregister) : pump[unregister[i]] \in {"schedule", "gone"}

\* addClient has a client only while it runs.
AddingInAdd == run # "add" => adding = {}

\* A pump is started by the request that was accepted.
PumpOfRequest == \A c \in Clients : pump[c] # "none" => request[c] = "accepted"

HubInv == /\ HubTypeOK /\ Stopping /\ Leaving /\ AddingInAdd /\ PumpOfRequest
          /\ OpenIsTracked

-----------------------------------------------------------------------------
\* Receiving from a channel: the rest is a part of what was in it.
LEMMA Received ==
  ASSUME NEW S, NEW q \in Seq(S), q # <<>>
  PROVE  /\ Head(q) \in S /\ Tail(q) \in Seq(S)
         /\ Len(Tail(q)) = Len(q) - 1 /\ Len(q) \in Nat \ {0}
         /\ \A i \in 1..Len(Tail(q)) : i + 1 \in 1..Len(q) /\ Tail(q)[i] = q[i + 1]
<1>1. /\ Head(q) \in S /\ Tail(q) \in Seq(S)
      /\ Len(Tail(q)) = Len(q) - 1 /\ Len(q) \in Nat \ {0}
      /\ \A i \in 1..Len(Tail(q)) : Tail(q)[i] = q[i + 1]
  BY HeadTailProperties, EmptySeq
<1>2. \A i \in 1..Len(Tail(q)) : i + 1 \in 1..Len(q)
  BY <1>1
<1> QED BY <1>1, <1>2

\* What Run takes off the register channel is all that leaves it.
LEMMA QueuedRest ==
  ASSUME register \in Seq(Clients), register # <<>>
  PROVE  Queued = {Head(register)} \cup {Tail(register)[i] : i \in 1..Len(Tail(register))}
<1>1. /\ Len(Tail(register)) = Len(register) - 1 /\ Len(register) \in Nat \ {0}
      /\ \A i \in 1..Len(Tail(register)) : i + 1 \in 1..Len(register) /\ Tail(register)[i] = register[i + 1]
  BY Received
<1>2. Head(register) = register[1] /\ 1 \in 1..Len(register)
  BY <1>1
<1>3. ASSUME NEW i \in 1..Len(register), i # 1
      PROVE  i - 1 \in 1..Len(Tail(register)) /\ Tail(register)[i - 1] = register[i]
  <2>1. i - 1 \in 1..Len(Tail(register))
    BY <1>1, <1>3
  <2>2. Tail(register)[i - 1] = register[(i - 1) + 1]
    BY <1>1, <2>1
  <2>3. (i - 1) + 1 = i
    OBVIOUS
  <2> QED BY <2>1, <2>2, <2>3
<1>4. ASSUME NEW i \in 1..Len(register)
      PROVE  register[i] \in {Head(register)} \cup {Tail(register)[j] : j \in 1..Len(Tail(register))}
  BY <1>2, <1>3
<1>5. ASSUME NEW j \in 1..Len(Tail(register))
      PROVE  Tail(register)[j] \in Queued
  BY <1>1 DEF Queued
<1>6. Head(register) \in Queued
  BY <1>2 DEF Queued
<1> QED BY <1>4, <1>5, <1>6 DEF Queued

\* Sending: what was in the channel stays, and the new client is in it.
LEMMA Sent ==
  ASSUME NEW S, NEW q \in Seq(S), NEW c \in S
  PROVE  /\ Append(q, c) \in Seq(S) /\ Len(Append(q, c)) = Len(q) + 1 /\ Len(q) \in Nat
         /\ \A i \in 1..Len(Append(q, c)) :
              Append(q, c)[i] = c \/ (i \in 1..Len(q) /\ Append(q, c)[i] = q[i])
         /\ {q[i] : i \in 1..Len(q)} \cup {c} = {Append(q, c)[i] : i \in 1..Len(Append(q, c))}
<1>1. /\ Append(q, c) \in Seq(S) /\ Len(Append(q, c)) = Len(q) + 1 /\ Len(q) \in Nat
      /\ \A i \in 1..Len(q) : Append(q, c)[i] = q[i]
      /\ Append(q, c)[Len(q) + 1] = c
  BY AppendProperties
<1>2. \A i \in 1..Len(Append(q, c)) : i \in 1..Len(q) \/ i = Len(q) + 1
  BY <1>1
<1>3. \A i \in 1..Len(q) : i \in 1..Len(Append(q, c))
  BY <1>1
<1>4. Len(q) + 1 \in 1..Len(Append(q, c))
  BY <1>1
<1> QED BY <1>1, <1>2, <1>3, <1>4

-----------------------------------------------------------------------------
LEMMA HubInitInv == HubInit => HubInv
<1> SUFFICES ASSUME HubInit PROVE HubInv
  OBVIOUS
<1> USE HubAssumption
<1>1. HubTypeOK
  <2>1. <<>> \in Seq(Clients) /\ Len(<<>>) = 0
    OBVIOUS
  <2>2. request \in [Clients -> RequestSteps] /\ pump \in [Clients -> PumpSteps]
    BY DEF HubInit, RequestSteps, PumpSteps
  <2>3. shutdown \in [at : ShutdownSteps, left : SUBSET Clients]
    BY DEF HubInit, ShutdownSteps
  <2>4. /\ closed = {} /\ connected = {} /\ scheduled = {} /\ adding = {} /\ connections = {}
        /\ subscriptions = {} /\ register = <<>> /\ unregister = <<>> /\ run = "select"
        /\ closing \in BOOLEAN /\ stopped \in BOOLEAN /\ cancelled \in BOOLEAN
        /\ process = "serving"
    BY DEF HubInit
  <2> QED BY <2>1, <2>2, <2>3, <2>4 DEF HubTypeOK
<1>2. Stopping /\ AddingInAdd /\ OpenIsTracked /\ PumpOfRequest
  BY DEF HubInit, Stopping, AddingInAdd, OpenIsTracked, PumpOfRequest
<1>3. Leaving
  BY DEF HubInit, Leaving
<1> QED BY <1>1, <1>2, <1>3 DEF HubInv

\* The request: it adds to the register channel before its pump starts.
LEMMA RequestKeeps ==
  ASSUME HubInv, NEW c \in Clients, Accept(c) \/ RequestStep(c)
  PROVE  HubInv'
<1> USE HubAssumption
<1>0. HubTypeOK /\ Stopping /\ Leaving /\ AddingInAdd /\ PumpOfRequest /\ OpenIsTracked
  BY DEF HubInv
<1>1. CASE Accept(c) \/ Count(c)
  <2>1. request' \in [Clients -> RequestSteps]
    BY <1>0, <1>1 DEF Accept, Count, HubTypeOK, RequestSteps
  <2>2. UNCHANGED <<pump, closed, connected, scheduled, register, unregister, loopVars, stopVars>>
    BY <1>1 DEF Accept, Count
  <2>3. HubTypeOK'
    BY <1>0, <2>1, <2>2 DEF HubTypeOK, loopVars, stopVars
  <2>4. PumpOfRequest'
    BY <1>0, <1>1 DEF Accept, Count, PumpOfRequest, HubTypeOK
  <2> QED BY <1>0, <2>2, <2>3, <2>4 DEF HubInv, Stopping, Leaving, AddingInAdd, OpenIsTracked, Queued, loopVars, stopVars
<1>2. CASE Register(c)
  <2>1. request' \in [Clients -> RequestSteps]
    BY <1>0, <1>2 DEF Register, HubTypeOK, RequestSteps
  <2>2. UNCHANGED <<connected, scheduled, unregister, loopVars, stopVars>>
    BY <1>2 DEF Register
  <2>3. CASE /\ Len(register) < QueueSize /\ register' = Append(register, c)
             /\ pump' = [pump EXCEPT ![c] = "connect"] /\ UNCHANGED closed
    <3>a. register \in Seq(Clients)
      BY <1>0 DEF HubTypeOK
    <3>b. /\ Append(register, c) \in Seq(Clients)
          /\ Len(Append(register, c)) = Len(register) + 1 /\ Len(register) \in Nat
          /\ {register[i] : i \in 1..Len(register)} \cup {c}
               = {Append(register, c)[i] : i \in 1..Len(Append(register, c))}
      BY <3>a, Sent
    <3>1. /\ register' \in Seq(Clients) /\ Len(register') <= QueueSize
          /\ Queued' = Queued \cup {c}
      BY <2>3, <3>b DEF Queued
    <3>2. pump' \in [Clients -> PumpSteps]
      BY <1>0, <2>3 DEF HubTypeOK, PumpSteps
    <3>3. HubTypeOK'
      BY <1>0, <2>1, <2>2, <2>3, <3>1, <3>2 DEF HubTypeOK, loopVars, stopVars
    <3>4. OpenIsTracked'
      BY <1>0, <2>2, <2>3, <3>1 DEF OpenIsTracked, HubTypeOK, loopVars, stopVars
    <3>5. Leaving'
      <4>1. \A i \in 1..Len(unregister) : unregister[i] \in Clients /\ unregister[i] # c
        BY <1>0, <1>2 DEF Leaving, PumpOfRequest, Register, HubTypeOK
      <4> QED BY <1>0, <2>2, <2>3, <4>1 DEF Leaving, HubTypeOK
    <3>6. PumpOfRequest'
      BY <1>0, <1>2, <2>3 DEF PumpOfRequest, Register, HubTypeOK
    <3> QED BY <1>0, <2>2, <3>3, <3>4, <3>5, <3>6 DEF HubInv, Stopping, AddingInAdd, loopVars, stopVars
  <2>4. CASE closed' = closed \cup {c} /\ UNCHANGED <<pump, register>>
    <3>1. HubTypeOK'
      BY <1>0, <2>1, <2>2, <2>4 DEF HubTypeOK, loopVars, stopVars
    <3>2. PumpOfRequest'
      BY <1>0, <1>2, <2>4 DEF PumpOfRequest, Register, HubTypeOK
    <3> QED BY <1>0, <2>2, <2>4, <3>1, <3>2 DEF HubInv, Stopping, Leaving, AddingInAdd, OpenIsTracked, Queued, loopVars, stopVars
  <2> QED BY <1>2, <2>3, <2>4 DEF Register
<1> QED BY <1>1, <1>2 DEF RequestStep

\* The pump: once it leaves the read loop it never reads again.
LEMMA PumpKeeps ==
  ASSUME HubInv, NEW c \in Clients, PumpStep(c) \/ ReadFails(c) \/ SlowConsumer(c)
  PROVE  HubInv'
<1> USE HubAssumption
<1>0. HubTypeOK /\ Stopping /\ Leaving /\ AddingInAdd /\ PumpOfRequest /\ OpenIsTracked
  BY DEF HubInv
<1>a. \A i \in 1..Len(unregister) : unregister[i] \in Clients
  BY <1>0 DEF HubTypeOK
<1>1. CASE ConnectPump(c) \/ ReadFails(c) \/ StartUnregister(c) \/ Schedule(c)
  <2>1. /\ pump' \in [Clients -> PumpSteps]
        /\ \A o \in Clients \ {c} : pump'[o] = pump[o]
    BY <1>0, <1>1 DEF ConnectPump, ReadFails, StartUnregister, Schedule, HubTypeOK, PumpSteps
  <2>2. connected' \subseteq Clients /\ scheduled' \subseteq connected'
    BY <1>0, <1>1 DEF ConnectPump, ReadFails, StartUnregister, Schedule, HubTypeOK
  <2>3. UNCHANGED <<request, closed, register, unregister, loopVars, stopVars>>
    BY <1>1 DEF ConnectPump, ReadFails, StartUnregister, Schedule
  <2>4. /\ pump[c] # "none"
        /\ pump'[c] \in {"connect", "read"} => pump[c] \in {"connect", "read"}
        /\ pump[c] \in {"schedule", "gone"} => pump'[c] \in {"schedule", "gone"}
    BY <1>0, <1>1 DEF ConnectPump, ReadFails, StartUnregister, Schedule, HubTypeOK
  <2>5. HubTypeOK'
    BY <1>0, <2>1, <2>2, <2>3 DEF HubTypeOK, loopVars, stopVars
  <2>6. Leaving'
    BY <1>0, <1>a, <2>1, <2>3, <2>4 DEF Leaving
  <2>7. OpenIsTracked'
    BY <1>0, <2>1, <2>3, <2>4 DEF OpenIsTracked, Queued, loopVars, stopVars
  <2>8. PumpOfRequest'
    BY <1>0, <2>1, <2>3, <2>4 DEF PumpOfRequest
  <2> QED BY <1>0, <2>3, <2>5, <2>6, <2>7, <2>8 DEF HubInv, Stopping, AddingInAdd, loopVars, stopVars
<1>2. CASE SendUnregister(c)
  <2>1. /\ pump' \in [Clients -> PumpSteps] /\ pump[c] = "send" /\ pump'[c] = "schedule"
        /\ \A o \in Clients \ {c} : pump'[o] = pump[o]
    BY <1>0, <1>2 DEF SendUnregister, HubTypeOK, PumpSteps
  <2>2. UNCHANGED <<request, closed, connected, scheduled, register, loopVars, stopVars>>
    BY <1>2 DEF SendUnregister
  <2>3. /\ unregister' \in Seq(Clients) /\ Len(unregister') <= QueueSize
        /\ \A i \in 1..Len(unregister') : \/ unregister'[i] = c
                                          \/ i \in 1..Len(unregister) /\ unregister'[i] = unregister[i]
    <3>a. unregister \in Seq(Clients) /\ Len(unregister) <= QueueSize
      BY <1>0 DEF HubTypeOK
    <3>1. CASE Len(unregister) < QueueSize /\ unregister' = Append(unregister, c)
      <4>1. /\ Append(unregister, c) \in Seq(Clients)
            /\ Len(Append(unregister, c)) = Len(unregister) + 1 /\ Len(unregister) \in Nat
            /\ \A i \in 1..Len(Append(unregister, c)) :
                 \/ Append(unregister, c)[i] = c
                 \/ i \in 1..Len(unregister) /\ Append(unregister, c)[i] = unregister[i]
        BY <3>a, Sent
      <4> QED BY <3>1, <4>1
    <3>2. CASE UNCHANGED unregister
      BY <3>a, <3>2
    <3> QED BY <1>2, <3>1, <3>2 DEF SendUnregister
  <2>4. HubTypeOK'
    BY <1>0, <2>1, <2>2, <2>3 DEF HubTypeOK, loopVars, stopVars
  <2>5. Leaving'
    <3> SUFFICES ASSUME NEW i \in 1..Len(unregister')
                 PROVE  pump'[unregister'[i]] \in {"schedule", "gone"}
      BY DEF Leaving
    <3>1. CASE unregister'[i] = c
      BY <2>1, <3>1
    <3>2. CASE i \in 1..Len(unregister) /\ unregister'[i] = unregister[i]
      BY <1>0, <1>a, <2>1, <3>2 DEF Leaving
    <3> QED BY <2>3, <3>1, <3>2
  <2>6. OpenIsTracked'
    BY <1>0, <2>1, <2>2 DEF OpenIsTracked, Queued, loopVars, stopVars
  <2>7. PumpOfRequest'
    BY <1>0, <2>1, <2>2 DEF PumpOfRequest
  <2> QED BY <1>0, <2>2, <2>4, <2>5, <2>6, <2>7 DEF HubInv, Stopping, AddingInAdd, loopVars, stopVars
<1>3. CASE SlowConsumer(c)
  <2>1. closed' = closed \cup {c}
    BY <1>3 DEF SlowConsumer
  <2>2. UNCHANGED <<request, pump, connected, scheduled, register, unregister, loopVars, stopVars>>
    BY <1>3 DEF SlowConsumer
  <2>3. HubTypeOK'
    BY <1>0, <2>1, <2>2 DEF HubTypeOK, loopVars, stopVars
  <2> QED BY <1>0, <2>1, <2>2, <2>3 DEF HubInv, Stopping, Leaving, AddingInAdd, PumpOfRequest, OpenIsTracked,
         Queued, loopVars, stopVars
<1> QED BY <1>1, <1>2, <1>3 DEF PumpStep

\* The loop: what it takes off the register channel it adds, unless the hub
\* is closing, and it removes only clients that have left.
LEMMA RunKeeps ==
  ASSUME HubInv, RunStep
  PROVE  HubInv'
<1> USE HubAssumption
<1>0. HubTypeOK /\ Stopping /\ Leaving /\ AddingInAdd /\ PumpOfRequest /\ OpenIsTracked
  BY DEF HubInv
<1>1. CASE ReceiveRegister
  <2> DEFINE c == Head(register)
  <2>1. /\ c \in Clients /\ Tail(register) \in Seq(Clients)
        /\ Len(Tail(register)) = Len(register) - 1 /\ Len(register) \in Nat
        /\ Queued = {c} \cup {Tail(register)[i] : i \in 1..Len(Tail(register))}
    <3>1. register \in Seq(Clients) /\ register # <<>>
      BY <1>0, <1>1 DEF HubTypeOK, ReceiveRegister
    <3>2. /\ Head(register) \in Clients /\ Tail(register) \in Seq(Clients)
          /\ Len(Tail(register)) = Len(register) - 1 /\ Len(register) \in Nat \ {0}
      BY <3>1, Received
    <3> QED BY <3>1, <3>2, QueuedRest
  <2>2. /\ register' = Tail(register) /\ run = "select"
        /\ UNCHANGED <<request, pump, connected, scheduled, unregister, connections, subscriptions, stopVars>>
        /\ \/ closing /\ closed' = closed \cup {c} /\ run' = run /\ adding' = adding
           \/ ~closing /\ closed' = closed /\ run' = "add" /\ adding' = {c}
    BY <1>1 DEF ReceiveRegister
  <2>3. Queued = {c} \cup Queued'
    BY <2>1, <2>2 DEF Queued
  <2> HIDE DEF c
  <2>4. Len(register') <= QueueSize
    BY <1>0, <2>1, <2>2 DEF HubTypeOK
  <2>5. HubTypeOK'
    BY <1>0, <2>1, <2>2, <2>4 DEF HubTypeOK, stopVars
  <2>6. OpenIsTracked'
    BY <1>0, <2>2, <2>3 DEF OpenIsTracked, AddingInAdd, stopVars
  <2>7. AddingInAdd'
    BY <1>0, <2>2 DEF AddingInAdd
  <2> QED BY <1>0, <2>2, <2>5, <2>6, <2>7 DEF HubInv, Stopping, Leaving, PumpOfRequest, stopVars
<1>2. CASE AddClient
  <2>1. /\ connections' = connections \cup adding /\ run' = "select" /\ adding' = {}
        /\ UNCHANGED <<clientVars, register, unregister, stopVars>>
    BY <1>2 DEF AddClient
  <2>2. subscriptions' \subseteq Scopes
    BY <1>0, <1>2 DEF AddClient, HubTypeOK
  <2>3. HubTypeOK'
    BY <1>0, <2>1, <2>2 DEF HubTypeOK, clientVars, stopVars
  <2>4. OpenIsTracked'
    BY <1>0, <2>1 DEF OpenIsTracked, Queued, clientVars, stopVars
  <2> QED BY <1>0, <2>1, <2>3, <2>4 DEF HubInv, Stopping, Leaving, AddingInAdd, PumpOfRequest, clientVars, stopVars
<1>3. CASE RemoveClient
  <2> DEFINE c == Head(unregister)
  <2>1. /\ c \in Clients /\ Tail(unregister) \in Seq(Clients)
        /\ Len(Tail(unregister)) = Len(unregister) - 1 /\ Len(unregister) \in Nat \ {0}
        /\ \A i \in 1..Len(Tail(unregister)) :
             i + 1 \in 1..Len(unregister) /\ Tail(unregister)[i] = unregister[i + 1]
    <3>1. unregister \in Seq(Clients) /\ unregister # <<>>
      BY <1>0, <1>3 DEF HubTypeOK, RemoveClient
    <3> QED BY <3>1, Received
  <2>2. c = unregister[1]
    BY <2>1
  <2>3. pump[c] \in {"schedule", "gone"}
    BY <1>0, <2>1, <2>2 DEF Leaving
  <2>4. /\ unregister' = Tail(unregister) /\ connections' = connections \ {c}
        /\ closed' \in {closed, closed \cup {c}} /\ subscriptions' \subseteq subscriptions
        /\ UNCHANGED <<request, pump, connected, scheduled, register, run, adding, stopVars>>
    BY <1>3 DEF RemoveClient
  <2>5. Len(unregister') <= QueueSize
    BY <1>0, <2>1, <2>4 DEF HubTypeOK
  <2>6. Leaving'
    BY <1>0, <2>1, <2>4 DEF Leaving
  <2> HIDE DEF c
  <2>7. HubTypeOK'
    BY <1>0, <2>1, <2>4, <2>5 DEF HubTypeOK, stopVars
  <2>8. OpenIsTracked'
    BY <1>0, <2>3, <2>4 DEF OpenIsTracked, Queued, stopVars
  <2> QED BY <1>0, <2>4, <2>6, <2>7, <2>8 DEF HubInv, Stopping, AddingInAdd, PumpOfRequest, stopVars
<1>4. CASE ReturnRun
  <2>1. /\ run = "select" /\ run' = "returned"
        /\ UNCHANGED <<clientVars, register, unregister, adding, connections, subscriptions, stopVars>>
    BY <1>4 DEF ReturnRun
  <2>2. HubTypeOK'
    BY <1>0, <2>1 DEF HubTypeOK, clientVars, stopVars
  <2> QED BY <1>0, <2>1, <2>2 DEF HubInv, Stopping, Leaving, AddingInAdd, PumpOfRequest, OpenIsTracked,
         Queued, clientVars, stopVars
<1> QED BY <1>1, <1>2, <1>3, <1>4 DEF RunStep

\* A signal, the steps of Shutdown, and the end of main.
LEMMA ShutdownKeeps ==
  ASSUME HubInv, Signal \/ ShutdownStep \/ ReturnMain \/ Exit
  PROVE  HubInv'
<1>0. HubTypeOK /\ Stopping /\ Leaving /\ AddingInAdd /\ PumpOfRequest /\ OpenIsTracked
  BY DEF HubInv
<1>1. UNCHANGED <<request, pump, connected, scheduled, register, unregister, run, adding>>
  BY DEF Signal, ShutdownStep, StartShutdown, ClearMaps, CloseClients, StopLoop, ReturnMain, Exit, clientVars, loopVars
<1>2. closing' = closing \/ closing' = TRUE
  BY DEF Signal, ShutdownStep, StartShutdown, ClearMaps, CloseClients, StopLoop, ReturnMain, Exit
<1>3. Stopping'
  BY <1>0 DEF Stopping, HubTypeOK, Signal, ShutdownStep, StartShutdown, ClearMaps, CloseClients, StopLoop, ReturnMain, Exit
<1>4. closing' \/ (connections' = connections /\ closed' = closed)
  BY <1>0 DEF Stopping, Signal, ShutdownStep, StartShutdown, ClearMaps, CloseClients, StopLoop, ReturnMain, Exit, clientVars, loopVars
<1>5. HubTypeOK'
  <2>1. shutdown' \in [at : ShutdownSteps, left : SUBSET Clients]
    BY <1>0 DEF HubTypeOK, ShutdownSteps, Signal, ShutdownStep, StartShutdown, ClearMaps, CloseClients, StopLoop, ReturnMain, Exit
  <2>2. closed' \subseteq Clients /\ connections' \subseteq Clients /\ subscriptions' \subseteq Scopes
    BY <1>0 DEF HubTypeOK, Signal, ShutdownStep, StartShutdown, ClearMaps, CloseClients, StopLoop, ReturnMain, Exit, clientVars, loopVars
  <2>3. closing' \in BOOLEAN /\ stopped' \in BOOLEAN /\ cancelled' \in BOOLEAN
    BY <1>0 DEF HubTypeOK, Signal, ShutdownStep, StartShutdown, ClearMaps, CloseClients, StopLoop, ReturnMain, Exit
  <2>4. process' \in {"serving", "returning", "exited"}
    BY <1>0 DEF HubTypeOK, Signal, ShutdownStep, StartShutdown, ClearMaps, CloseClients, StopLoop, ReturnMain, Exit
  <2> QED BY <1>0, <1>1, <2>1, <2>2, <2>3, <2>4 DEF HubTypeOK
<1>6. Leaving' /\ AddingInAdd' /\ PumpOfRequest'
  BY <1>0, <1>1 DEF Leaving, AddingInAdd, PumpOfRequest
<1>7. OpenIsTracked'
  BY <1>0, <1>1, <1>2, <1>4 DEF OpenIsTracked, Queued
<1> QED BY <1>3, <1>5, <1>6, <1>7 DEF HubInv

-----------------------------------------------------------------------------
\* Types, tracked connections, and where the steps of Shutdown, Unregister,
\* addClient and the pumps stand towards each other (pkg/ws/hub.go).
THEOREM HubInvariant == HubSpec => []HubInv
<1>1. HubInit => HubInv
  BY HubInitInv
<1>2. HubInv /\ [HubNext]_hubVars => HubInv'
  <2> SUFFICES ASSUME HubInv, [HubNext]_hubVars
               PROVE  HubInv'
    OBVIOUS
  <2>1. ASSUME NEW c \in Clients, Accept(c) \/ RequestStep(c)
        PROVE  HubInv'
    BY <2>1, RequestKeeps
  <2>2. ASSUME NEW c \in Clients, PumpStep(c) \/ ReadFails(c) \/ SlowConsumer(c)
        PROVE  HubInv'
    BY <2>2, PumpKeeps
  <2>3. CASE RunStep
    BY <2>3, RunKeeps
  <2>4. CASE Signal \/ ShutdownStep \/ ReturnMain \/ Exit
    BY <2>4, ShutdownKeeps
  <2>5. CASE UNCHANGED hubVars
    BY <2>5 DEF hubVars, clientVars, loopVars, stopVars, HubInv, HubTypeOK, Stopping, Leaving, AddingInAdd,
       PumpOfRequest, OpenIsTracked, Queued
  <2> QED BY <2>1, <2>2, <2>3, <2>4, <2>5 DEF HubNext
<1> QED BY <1>1, <1>2, PTL DEF HubSpec

\* Every variable of the hub keeps its type and no channel its capacity
\* exceeded.
THEOREM HubTypes == HubSpec => []HubTypeOK
<1>1. HubInv => HubTypeOK
  BY DEF HubInv
<1> QED BY <1>1, HubInvariant, PTL

\* While the hub is not closing, a client that is open and reads is in the map
\* or on its way there: no end of another client takes it out.
THEOREM OpenAlwaysTracked == HubSpec => []OpenIsTracked
<1>1. HubInv => OpenIsTracked
  BY DEF HubInv
<1> QED BY <1>1, HubInvariant, PTL

\* The hub is subscribed to the scopes of its clients and to no other, as long
\* as subscribing succeeds.
THEOREM SubscriptionsFollow ==
  ASSUME "subscribe_fails" \notin HubFaults
  PROVE  HubSpec => []SubscribedIffConnected
<1>1. HubInit => SubscribedIffConnected
  BY DEF HubInit, SubscribedIffConnected
<1>2. HubInv /\ SubscribedIffConnected /\ [HubNext]_hubVars => SubscribedIffConnected'
  <2> SUFFICES ASSUME HubInv, SubscribedIffConnected, [HubNext]_hubVars
               PROVE  SubscribedIffConnected'
    OBVIOUS
  <2>0. HubTypeOK /\ Stopping
    BY DEF HubInv
  <2>1. CASE UNCHANGED <<connections, subscriptions>>
    <3>1. cancelled' \/ cancelled' = cancelled
      BY DEF HubNext, hubVars, clientVars, loopVars, stopVars, Accept, RequestStep, Count, Register, PumpStep,
         ConnectPump, StartUnregister, SendUnregister, Schedule, ReadFails, SlowConsumer, RunStep, ReceiveRegister,
         AddClient, RemoveClient, ReturnRun, Signal, ShutdownStep, StartShutdown, ClearMaps, CloseClients, StopLoop, ReturnMain, Exit
    <3> QED BY <2>1, <3>1 DEF SubscribedIffConnected
  <2>2. CASE AddClient
    BY <2>2 DEF AddClient, SubscribedIffConnected, stopVars
  <2>3. CASE RemoveClient
    BY <2>0, <2>3 DEF RemoveClient, SubscribedIffConnected, InScope, stopVars
  <2>4. CASE ClearMaps
    BY <2>0, <2>4 DEF ClearMaps, Stopping, SubscribedIffConnected
  <2> QED BY <2>1, <2>2, <2>3, <2>4 DEF HubNext, hubVars, clientVars, loopVars, stopVars, Accept, RequestStep,
         Count, Register, PumpStep, ConnectPump, StartUnregister, SendUnregister, Schedule, ReadFails, SlowConsumer,
         RunStep, ReceiveRegister, ReturnRun, Signal, ShutdownStep, StartShutdown, CloseClients, StopLoop,
         ReturnMain, Exit
<1> QED BY <1>1, <1>2, HubInvariant, PTL DEF HubSpec
=============================================================================
