------------------------ MODULE SdkConnection_proofs ------------------------
(***************************************************************************)
(* What the goroutines of an SDK connection guarantee for any number of    *)
(* dials, versions and attempts and any size of the channel: one of them   *)
(* reads or reconnects at a time, and the program gets versions in order.  *)
(***************************************************************************)
EXTENDS SdkConnection, FiniteSetTheorems, SequenceTheorems, TLAPS

\* One goroutine holds the turn: the reader, or the reconnection it started,
\* or the reader that one started.
OneTurn == /\ \A k, l \in Reading : k = l
           /\ \A k, l \in Reconnecting : k = l
           /\ Reading = {} \/ Reconnecting = {}

\* While a limit is set, a reconnection that waits or dials has an attempt left.
AttemptLeft == \A k \in Dials :
  (recon[k].at \in {"wait", "connect", "dial"} /\ MaxAttempts > 0) => recon[k].attempt < MaxAttempts

\* A reader past the version check holds a version.
HoldsVersion == \A k \in Dials : reader[k].at = "deliver" => reader[k].version > 0

\* What is in the channel is not newer than the version seen last, and the
\* reader about to deliver holds that version, newer than all in the channel:
\* until the versions seen are forgotten.
ChannelSeen == ~reset => \A i \in 1..Len(eventCh) : eventCh[i] <= lastSeen

HoldsNewest == ~reset => \A k \in Dials : reader[k].at = "deliver" =>
  /\ reader[k].version = lastSeen
  /\ \A i \in 1..Len(eventCh) : eventCh[i] < lastSeen

Order == HoldsVersion /\ EventsInOrder /\ ChannelSeen /\ HoldsNewest

SdkInv == SdkTypeOK /\ OneTurn /\ AttemptLeft /\ Order

-----------------------------------------------------------------------------
Readers == [Dials -> [at : ReaderSteps, on : Dials, version : 0..MaxVersion]]
Beats == [Dials -> [at : {"none", "tick", "write", "gone"}, conn : Dials]]
Recons == [Dials -> [at : ReconSteps, attempt : 0..MaxAttempts, new : Dials]]

\* A goroutine that only moves on keeps its type.
LEMMA GotoTypes ==
  ASSUME NEW k \in Dials, reader \in Readers, recon \in Recons
  PROVE  /\ \A to \in ReaderSteps : [reader EXCEPT ![k].at = to] \in Readers
         /\ \A to \in ReconSteps : [recon EXCEPT ![k].at = to] \in Recons
BY DEF Readers, Recons

\* Nor does one lose it that writes another of its fields as well.
LEMMA MoveTypes ==
  ASSUME NEW k \in Dials, reader \in Readers, recon \in Recons
  PROVE  /\ \A to \in ReaderSteps, d \in Dials :
              [reader EXCEPT ![k] = [at |-> to, on |-> d, version |-> 0]] \in Readers
         /\ \A to \in ReaderSteps, v \in 0..MaxVersion :
              [reader EXCEPT ![k].at = to, ![k].version = v] \in Readers
         /\ \A to \in ReconSteps, d \in Dials :
              [recon EXCEPT ![k].at = to, ![k].new = d] \in Recons
         /\ \A to \in ReconSteps, n \in 0..MaxAttempts :
              [recon EXCEPT ![k].at = to, ![k].attempt = n] \in Recons
<1>1. ASSUME NEW to \in ReaderSteps
      PROVE  [reader EXCEPT ![k].at = to] \in Readers
  BY <1>1 DEF Readers
<1>2. ASSUME NEW to \in ReconSteps
      PROVE  [recon EXCEPT ![k].at = to] \in Recons
  BY <1>2 DEF Recons
<1>3. ASSUME NEW to \in ReaderSteps, NEW d \in Dials
      PROVE  [reader EXCEPT ![k] = [at |-> to, on |-> d, version |-> 0]] \in Readers
  <2>1. 0 \in 0..MaxVersion
    BY SdkAssumption
  <2> QED BY <1>3, <2>1 DEF Readers
<1>4. ASSUME NEW to \in ReaderSteps, NEW v \in 0..MaxVersion
      PROVE  [reader EXCEPT ![k].at = to, ![k].version = v] \in Readers
  <2> DEFINE r == [reader EXCEPT ![k].at = to]
  <2>1. r \in Readers
    BY <1>1
  <2> HIDE DEF r
  <2>2. [r EXCEPT ![k].version = v] \in Readers
    BY <2>1 DEF Readers
  <2> QED BY <2>2 DEF r
<1>5. ASSUME NEW to \in ReconSteps, NEW d \in Dials
      PROVE  [recon EXCEPT ![k].at = to, ![k].new = d] \in Recons
  <2> DEFINE r == [recon EXCEPT ![k].at = to]
  <2>1. r \in Recons
    BY <1>2
  <2> HIDE DEF r
  <2>2. [r EXCEPT ![k].new = d] \in Recons
    BY <2>1 DEF Recons
  <2> QED BY <2>2 DEF r
<1>6. ASSUME NEW to \in ReconSteps, NEW n \in 0..MaxAttempts
      PROVE  [recon EXCEPT ![k].at = to, ![k].attempt = n] \in Recons
  <2> DEFINE r == [recon EXCEPT ![k].at = to]
  <2>1. r \in Recons
    BY <1>2
  <2> HIDE DEF r
  <2>2. [r EXCEPT ![k].attempt = n] \in Recons
    BY <2>1 DEF Recons
  <2> QED BY <2>2 DEF r
<1> QED BY <1>3, <1>4, <1>5, <1>6

LEMMA InitInv == SdkInit => SdkInv
<1> SUFFICES ASSUME SdkInit PROVE SdkInv
  OBVIOUS
<1> USE SdkAssumption
<1>1. SdkTypeOK
  <2>1. 1 \in Dials
    BY DEF Dials
  <2>2. reader \in Readers
    BY <2>1 DEF SdkInit, Readers, ReaderSteps
  <2>3. beat \in Beats
    BY <2>1 DEF SdkInit, Beats
  <2>4. recon \in Recons
    BY <2>1 DEF SdkInit, Recons, ReconSteps
  <2>5. eventCh \in Seq(1..MaxVersion) /\ Len(eventCh) <= BufferSize
    BY DEF SdkInit
  <2>6. state \in States /\ closer \in CloseSteps
    BY DEF SdkInit, States, CloseSteps
  <2>7. conn \in Dials /\ open \subseteq Dials /\ dials \in Dials /\ lastSeen \in 0..MaxVersion
    BY <2>1 DEF SdkInit
  <2>8. reset \in BOOLEAN /\ panicked \in BOOLEAN
    BY DEF SdkInit
  <2> QED
    BY <2>2, <2>3, <2>4, <2>5, <2>6, <2>7, <2>8 DEF SdkTypeOK, Readers, Beats, Recons
<1>2. OneTurn
  BY DEF SdkInit, OneTurn, Reading, Reconnecting
<1>3. AttemptLeft /\ Order
  BY DEF SdkInit, AttemptLeft, Order, HoldsVersion, EventsInOrder, ChannelSeen, HoldsNewest, Dials
<1> QED BY <1>1, <1>2, <1>3 DEF SdkInv

-----------------------------------------------------------------------------
\* The steps of a reader, ReadEvent included, keep the types.
LEMMA ReaderTypes ==
  ASSUME SdkInv, NEW k \in Dials, ReaderStep(k) \/ \E v \in 1..MaxVersion : ReadEvent(k, v)
  PROVE  SdkTypeOK'
<1> USE SdkAssumption
<1>0. SdkTypeOK /\ reader \in Readers /\ recon \in Recons
  BY DEF SdkInv, SdkTypeOK, Readers, Recons
<1>g. \A to \in ReaderSteps : [reader EXCEPT ![k].at = to] \in Readers
  BY <1>0, GotoTypes
<1>1. CASE CheckDone(k)
  <2>1. \A to \in ReaderSteps : [reader EXCEPT ![k] = [at |-> to, on |-> conn, version |-> 0]] \in Readers
    BY <1>0, MoveTypes DEF SdkTypeOK
  <2>2. reader' \in Readers
    BY <1>1, <2>1 DEF CheckDone, ReaderSteps
  <2> QED BY <1>1, <1>0, <2>2 DEF CheckDone, SdkTypeOK, Readers, readVars
<1>2. CASE \E v \in 1..MaxVersion : ReadEvent(k, v)
  <2>1. PICK v \in 1..MaxVersion : ReadEvent(k, v)
    BY <1>2
  <2>2. [reader EXCEPT ![k].at = "dedup", ![k].version = v] \in Readers
    <3>1. v \in 0..MaxVersion
      OBVIOUS
    <3> QED BY <1>0, <3>1, MoveTypes DEF ReaderSteps
  <2> QED BY <1>0, <2>1, <2>2 DEF ReadEvent, SdkTypeOK, Readers, readVars
<1>3. CASE Dedup(k)
  <2>1. reader' \in Readers
    BY <1>3, <1>g DEF Dedup, ReaderGoto, ReaderSteps
  <2>2. lastSeen' \in 0..MaxVersion
    BY <1>3, <1>0 DEF Dedup, SdkTypeOK, Readers
  <2> QED BY <1>3, <1>0, <2>1, <2>2 DEF Dedup, SdkTypeOK, Readers
<1>4. CASE Deliver(k)
  <2>1. reader' \in Readers
    BY <1>4, <1>g DEF Deliver, ReaderGoto, ReaderSteps
  <2>2. eventCh' \in Seq(1..MaxVersion) /\ Len(eventCh') <= BufferSize
    <3>1. reader[k].version \in 1..MaxVersion
      BY <1>4, <1>0 DEF Deliver, ReaderGoto, HoldsVersion, Order, SdkInv, SdkTypeOK
    <3>2. CASE eventCh' = eventCh
      BY <3>2, <1>0 DEF SdkTypeOK
    <3>3. CASE Len(eventCh) < BufferSize /\ eventCh' = Append(eventCh, reader[k].version)
      BY <3>1, <3>3, <1>0 DEF SdkTypeOK
    <3> QED BY <1>4, <3>2, <3>3 DEF Deliver
  <2>3. panicked' \in BOOLEAN
    BY <1>4 DEF Deliver, ChannelClosed
  <2> QED BY <1>4, <1>0, <2>1, <2>2, <2>3 DEF Deliver, SdkTypeOK, Readers
<1>5. CASE ReadFails(k)
  <2>1. reader' \in Readers
    BY <1>5, <1>g DEF ReadFails, ReaderGoto, ReaderSteps
  <2> QED BY <1>5, <1>0, <2>1 DEF ReadFails, SdkTypeOK, Readers, readVars
<1>6. CASE CheckClosing(k)
  <2>1. reader' \in Readers
    BY <1>6, <1>g DEF CheckClosing, ReaderGoto, ReaderSteps
  <2> QED BY <1>6, <1>0, <2>1 DEF CheckClosing, SdkTypeOK, Readers, readVars
<1>7. CASE Report(k)
  <2>1. reader' \in Readers /\ state' \in States
    BY <1>7, <1>g DEF Report, ReaderGoto, ReaderSteps, States
  <2> QED BY <1>7, <1>0, <2>1 DEF Report, SdkTypeOK, Readers, readVars
<1>8. CASE StartReconnect(k)
  <2>1. reader' \in Readers
    BY <1>8, <1>g DEF StartReconnect, ReaderGoto, ReaderSteps
  <2>2. recon' \in Recons
    BY <1>8, <1>0, GotoTypes DEF StartReconnect, ReconSteps
  <2> QED BY <1>8, <1>0, <2>1, <2>2 DEF StartReconnect, SdkTypeOK, Readers, Recons, readVars
<1>9. CASE ReturnReader(k)
  <2>1. reader' \in Readers
    BY <1>9, <1>g DEF ReturnReader, ReaderGoto, ReaderSteps
  <2> QED BY <1>9, <1>0, <2>1 DEF ReturnReader, SdkTypeOK, Readers, readVars
<1> QED BY <1>1, <1>2, <1>3, <1>4, <1>5, <1>6, <1>7, <1>8, <1>9 DEF ReaderStep

\* So do those of a reconnection: it dials only while a dial is left, and
\* counts an attempt only while one is.
LEMMA ReconTypes ==
  ASSUME SdkInv, NEW k \in Dials, ReconStep(k)
  PROVE  SdkTypeOK'
<1> USE SdkAssumption
<1>0. SdkTypeOK /\ reader \in Readers /\ beat \in Beats /\ recon \in Recons
  BY DEF SdkInv, SdkTypeOK, Readers, Beats, Recons
<1>g. \A to \in ReconSteps : [recon EXCEPT ![k].at = to] \in Recons
  BY <1>0, GotoTypes
<1>1. CASE Loop(k)
  <2>1. recon' \in Recons
    BY <1>1, <1>g DEF Loop, ReconGoto, ReconSteps
  <2> QED BY <1>1, <1>0, <2>1 DEF Loop, SdkTypeOK, Recons, readVars
<1>2. CASE Backoff(k)
  <2>1. recon' \in Recons /\ state' \in States
    BY <1>2, <1>g DEF Backoff, ReconGoto, ReconSteps, States
  <2> QED BY <1>2, <1>0, <2>1 DEF Backoff, SdkTypeOK, Recons, readVars
<1>3. CASE Wait(k)
  <2>1. recon' \in Recons
    BY <1>3, <1>g DEF Wait, ReconGoto, ReconSteps
  <2> QED BY <1>3, <1>0, <2>1 DEF Wait, SdkTypeOK, Recons, readVars
<1>4. CASE Connect(k)
  <2>1. recon' \in Recons /\ state' \in States
    BY <1>4, <1>g DEF Connect, ReconGoto, ReconSteps, States
  <2> QED BY <1>4, <1>0, <2>1 DEF Connect, SdkTypeOK, Recons, readVars
<1>5. CASE Dial(k)
  <2>1. dials + 1 \in Dials
    BY <1>5, <1>0 DEF Dial, Dials, SdkTypeOK
  <2>2. [recon EXCEPT ![k].at = "install", ![k].new = dials + 1] \in Recons
    BY <1>0, <2>1, MoveTypes DEF ReconSteps
  <2> QED BY <1>5, <1>0, <2>1, <2>2 DEF Dial, SdkTypeOK, Recons, readVars
<1>6. CASE DialFails(k)
  <2> DEFINE n == IF MaxAttempts > 0 THEN recon[k].attempt + 1 ELSE 0
  <2>1. n \in 0..MaxAttempts
    BY <1>6, <1>0 DEF DialFails, SdkInv, AttemptLeft, Recons
  <2>2. [recon EXCEPT ![k].at = "loop", ![k].attempt = n] \in Recons
    <3> HIDE DEF n
    <3> QED BY <1>0, <2>1, MoveTypes DEF ReconSteps
  <2>3. recon' = [recon EXCEPT ![k].at = "loop", ![k].attempt = n]
    BY <1>6, <1>0 DEF DialFails, Recons
  <2>5. UNCHANGED <<conn, open, dials, reader, beat, closer, readVars>>
    BY <1>6 DEF DialFails
  <2>4. state' \in States
    BY <1>6 DEF DialFails, States
  <2> HIDE DEF n
  <2> QED BY <1>0, <2>2, <2>3, <2>4, <2>5 DEF SdkTypeOK, Recons, readVars
<1>7. CASE Install(k)
  <2>1. recon' \in Recons /\ conn' \in Dials
    BY <1>7, <1>g, <1>0 DEF Install, ReconGoto, ReconSteps, Recons
  <2> QED BY <1>7, <1>0, <2>1 DEF Install, SdkTypeOK, Recons, readVars
<1>8. CASE Connected(k)
  <2>1. recon' \in Recons /\ state' \in States
    BY <1>8, <1>g DEF Connected, ReconGoto, ReconSteps, States
  <2> QED BY <1>8, <1>0, <2>1 DEF Connected, SdkTypeOK, Recons, readVars
<1>9. CASE StartPumps(k)
  <2>1. recon[k].new \in Dials
    BY <1>0 DEF Recons
  <2>2. recon' \in Recons
    BY <1>9, <1>g DEF StartPumps, ReconGoto, ReconSteps
  <2>3. reader' \in Readers
    BY <1>9, <1>0, <2>1, GotoTypes DEF StartPumps, ReaderSteps
  <2>4. beat' \in Beats
    BY <1>9, <1>0, <2>1 DEF StartPumps, Beats
  <2> QED BY <1>9, <1>0, <2>2, <2>3, <2>4 DEF StartPumps, SdkTypeOK, Readers, Beats, Recons, readVars
<1> QED BY <1>1, <1>2, <1>3, <1>4, <1>5, <1>6, <1>7, <1>8, <1>9 DEF ReconStep

\* And those of the heartbeats, of Close, the network and the program.
LEMMA OtherTypes ==
  ASSUME SdkInv,
         \/ \E k \in Dials : Beat(k) \/ WriteBeat(k) \/ EndBeat(k) \/ Break(k)
         \/ CloseState \/ CloseChannels \/ CloseConn \/ TakeEvent
  PROVE  SdkTypeOK'
<1> USE SdkAssumption
<1>0. SdkTypeOK /\ beat \in Beats
  BY DEF SdkInv, SdkTypeOK, Beats
<1>1. ASSUME NEW k \in Dials, Beat(k) \/ WriteBeat(k) \/ EndBeat(k)
      PROVE  SdkTypeOK'
  <2>0. /\ [beat EXCEPT ![k].at = "gone"] \in Beats
        /\ \A to \in {"tick", "write", "gone"}, d \in Dials :
             [beat EXCEPT ![k] = [at |-> to, conn |-> d]] \in Beats
    BY <1>0 DEF Beats
  <2>1. beat' \in Beats
    <3>1. CASE Beat(k)
      BY <1>0, <2>0, <3>1 DEF Beat, SdkTypeOK
    <3>2. CASE WriteBeat(k)
      <4>1. 1 \in Dials
        BY DEF Dials
      <4> QED BY <2>0, <3>2, <4>1 DEF WriteBeat
    <3>3. CASE EndBeat(k)
      BY <2>0, <3>3 DEF EndBeat
    <3> QED BY <1>1, <3>1, <3>2, <3>3
  <2> QED BY <1>0, <1>1, <2>1 DEF Beat, WriteBeat, EndBeat, SdkTypeOK, Beats, readVars
<1>2. ASSUME NEW k \in Dials, Break(k)
      PROVE  SdkTypeOK'
  BY <1>0, <1>2 DEF Break, SdkTypeOK, readVars
<1>3. CASE CloseState
  <2>1. state' \in States /\ closer' \in CloseSteps
    BY <1>3 DEF CloseState, CloseGoto, States, CloseSteps
  <2> QED BY <1>0, <1>3, <2>1 DEF CloseState, SdkTypeOK, readVars
<1>4. CASE CloseChannels \/ CloseConn
  <2>1. closer' \in CloseSteps
    BY <1>4 DEF CloseChannels, CloseConn, CloseGoto, CloseSteps
  <2> QED BY <1>0, <1>4, <2>1 DEF CloseChannels, CloseConn, SdkTypeOK, readVars
<1>5. CASE TakeEvent
  <2>1. eventCh' \in Seq(1..MaxVersion) /\ Len(eventCh') = Len(eventCh) - 1
    BY <1>0, <1>5, HeadTailProperties DEF TakeEvent, SdkTypeOK
  <2> QED BY <1>0, <1>5, <2>1 DEF TakeEvent, SdkTypeOK
<1> QED BY <1>1, <1>2, <1>3, <1>4, <1>5

-----------------------------------------------------------------------------
\* The turn is handed over, never doubled.
LEMMA ReaderTurn ==
  ASSUME SdkInv, NEW k \in Dials, ReaderStep(k) \/ \E v \in 1..MaxVersion : ReadEvent(k, v)
  PROVE  OneTurn'
<1>0. OneTurn /\ reader \in Readers /\ recon \in Recons
  BY DEF SdkInv, SdkTypeOK, Readers, Recons
<1>1. CASE ~StartReconnect(k)
  <2>1. recon' = recon
    BY <1>1 DEF ReaderStep, CheckDone, ReadEvent, Dedup, Deliver, ReadFails, CheckClosing, Report, ReturnReader
  <2>2. ASSUME NEW j \in Dials, j # k
        PROVE  reader'[j] = reader[j]
    BY <1>0, <1>1, <2>2 DEF ReaderStep, CheckDone, ReadEvent, Dedup, Deliver, ReadFails, CheckClosing,
       Report, ReturnReader, ReaderGoto, Readers
  <2>3. k \in Reading \/ reader'[k].at = "gone"
    BY <1>0, <1>1 DEF ReaderStep, CheckDone, ReadEvent, Dedup, Deliver, ReadFails, CheckClosing,
       Report, ReturnReader, ReaderGoto, Readers, Reading
  <2>4. Reading' \subseteq Reading /\ Reconnecting' = Reconnecting
    BY <2>1, <2>2, <2>3 DEF Reading, Reconnecting
  <2> QED BY <1>0, <2>4 DEF OneTurn
<1>2. CASE StartReconnect(k)
  <2>1. k \in Reading /\ Reconnecting = {} /\ Reading \subseteq {k}
    BY <1>0, <1>2 DEF StartReconnect, ReaderGoto, OneTurn, Reading
  <2>2. Reading' = {}
    BY <1>0, <1>2, <2>1 DEF StartReconnect, ReaderGoto, Readers, Reading
  <2>3. Reconnecting' \subseteq {k}
    BY <1>0, <1>2, <2>1 DEF StartReconnect, Recons, Reconnecting
  <2> QED BY <2>2, <2>3 DEF OneTurn
<1> QED BY <1>1, <1>2

LEMMA ReconTurn ==
  ASSUME SdkInv, NEW k \in Dials, ReconStep(k)
  PROVE  OneTurn'
<1>0. OneTurn /\ reader \in Readers /\ recon \in Recons
  BY DEF SdkInv, SdkTypeOK, Readers, Recons
<1>1. CASE ~StartPumps(k)
  <2>1. reader' = reader
    BY <1>1 DEF ReconStep, Loop, Backoff, Wait, Connect, Dial, DialFails, Install, Connected
  <2>2. ASSUME NEW j \in Dials, j # k
        PROVE  recon'[j] = recon[j]
    BY <1>0, <1>1, <2>2 DEF ReconStep, Loop, Backoff, Wait, Connect, Dial, DialFails, Install, Connected,
       ReconGoto, Recons
  <2>3. k \in Reconnecting
    BY <1>1 DEF ReconStep, Loop, Backoff, Wait, Connect, Dial, DialFails, Install, Connected,
       ReconGoto, Reconnecting
  <2>4. Reading' = Reading /\ Reconnecting' \subseteq Reconnecting
    BY <2>1, <2>2, <2>3 DEF Reading, Reconnecting
  <2> QED BY <1>0, <2>4 DEF OneTurn
<1>2. CASE StartPumps(k)
  <2>1. k \in Reconnecting /\ Reading = {} /\ Reconnecting \subseteq {k}
    BY <1>0, <1>2 DEF StartPumps, ReconGoto, OneTurn, Reconnecting
  <2>2. Reconnecting' = {}
    BY <1>0, <1>2, <2>1 DEF StartPumps, ReconGoto, Recons, Reconnecting
  <2>3. Reading' \subseteq {recon[k].new}
    BY <1>0, <1>2, <2>1 DEF StartPumps, Readers, Reading
  <2> QED BY <2>2, <2>3 DEF OneTurn
<1> QED BY <1>1, <1>2

-----------------------------------------------------------------------------
\* A reconnection goes on to wait only with an attempt left.
LEMMA ReconAttempts ==
  ASSUME SdkInv, NEW k \in Dials, ReconStep(k)
  PROVE  AttemptLeft'
<1> USE SdkAssumption
<1>0. AttemptLeft /\ recon \in Recons
  BY DEF SdkInv, SdkTypeOK, Recons
<1>1. ASSUME NEW j \in Dials, j # k
      PROVE  recon'[j] = recon[j]
  BY <1>0, <1>1 DEF ReconStep, Loop, Backoff, Wait, Connect, Dial, DialFails, Install, Connected,
     StartPumps, ReconGoto, Recons
<1>2. (recon'[k].at \in {"wait", "connect", "dial"} /\ MaxAttempts > 0) => recon'[k].attempt < MaxAttempts
  <2>1. CASE Backoff(k)
    BY <1>0, <2>1 DEF Backoff, ReconGoto, Recons
  <2>2. CASE Wait(k) \/ Connect(k)
    BY <1>0, <2>2 DEF Wait, Connect, ReconGoto, Recons, AttemptLeft
  <2>3. CASE Loop(k) \/ Dial(k) \/ DialFails(k) \/ Install(k) \/ Connected(k) \/ StartPumps(k)
    <3>1. recon'[k].at \in {"backoff", "loop", "install", "connected", "start", "gone"}
      BY <1>0, <2>3 DEF Loop, Dial, DialFails, Install, Connected, StartPumps, ReconGoto, Recons
    <3> QED BY <3>1
  <2> QED BY <2>1, <2>2, <2>3 DEF ReconStep
<1> QED BY <1>0, <1>1, <1>2 DEF AttemptLeft

LEMMA ReaderAttempts ==
  ASSUME SdkInv, NEW k \in Dials, ReaderStep(k) \/ \E v \in 1..MaxVersion : ReadEvent(k, v)
  PROVE  AttemptLeft'
<1>0. AttemptLeft /\ recon \in Recons
  BY DEF SdkInv, SdkTypeOK, Recons
<1>1. CASE ~StartReconnect(k)
  <2>1. recon' = recon
    BY <1>1 DEF ReaderStep, CheckDone, ReadEvent, Dedup, Deliver, ReadFails, CheckClosing, Report, ReturnReader
  <2> QED BY <1>0, <2>1 DEF AttemptLeft
<1>2. CASE StartReconnect(k)
  BY <1>0, <1>2 DEF StartReconnect, AttemptLeft, Recons
<1> QED BY <1>1, <1>2

-----------------------------------------------------------------------------
\* What the channel holds stays in order: only the one reader adds to it, and
\* what it adds is newer than all there is.
LEMMA ReaderOrder ==
  ASSUME SdkInv, NEW k \in Dials, ReaderStep(k) \/ \E v \in 1..MaxVersion : ReadEvent(k, v)
  PROVE  Order'
<1> USE SdkAssumption
<1>0. /\ Order /\ OneTurn /\ reader \in Readers
      /\ eventCh \in Seq(1..MaxVersion) /\ lastSeen \in 0..MaxVersion
  BY DEF SdkInv, SdkTypeOK, Readers, Order
<1>a. Len(eventCh) \in Nat /\ \A i \in 1..Len(eventCh) : eventCh[i] \in Nat
  BY <1>0
<1>b. reset' = reset
  BY DEF ReaderStep, CheckDone, ReadEvent, Dedup, Deliver, ReadFails, CheckClosing, Report, StartReconnect,
     ReturnReader, readVars
<1>v. HoldsVersion'
  <2> SUFFICES ASSUME NEW j \in Dials, reader'[j].at = "deliver"
               PROVE  reader'[j].version > 0
    BY DEF HoldsVersion
  <2>1. CASE Dedup(k)
    <3>1. j = k => reader[k].version > lastSeen /\ reader'[k].version = reader[k].version
      BY <1>0, <2>1 DEF Dedup, ReaderGoto, Readers
    <3>2. j # k => reader'[j] = reader[j]
      BY <1>0, <2>1 DEF Dedup, ReaderGoto, Readers
    <3>3. reader[k].version \in Nat
      BY <1>0 DEF Readers
    <3> QED BY <1>0, <3>1, <3>2, <3>3 DEF Order, HoldsVersion
  <2>2. CASE ~Dedup(k)
    <3>1. reader'[j] = reader[j]
      BY <1>0, <2>2 DEF ReaderStep, CheckDone, ReadEvent, Deliver, ReadFails, CheckClosing, Report,
         StartReconnect, ReturnReader, ReaderGoto, Readers
    <3> QED BY <1>0, <3>1 DEF Order, HoldsVersion
  <2> QED BY <2>1, <2>2
<1>r. CASE reset
  BY <1>b, <1>r, <1>v DEF Order, EventsInOrder, ChannelSeen, HoldsNewest
<1> SUFFICES ASSUME ~reset
             PROVE  Order'
  BY <1>r
<1> USE <1>b
<1>1. CASE Dedup(k)
  <2>1. eventCh' = eventCh /\ lastSeen' >= lastSeen /\ lastSeen' \in Nat
    BY <1>0, <1>1 DEF Dedup, Readers
  <2>2. EventsInOrder' /\ ChannelSeen'
    BY <1>0, <1>a, <2>1 DEF Order, EventsInOrder, ChannelSeen
  <2>3. ASSUME NEW j \in Dials, reader'[j].at = "deliver"
        PROVE  j = k /\ reader[k].version > lastSeen
    <3>1. k \in Reading
      BY <1>1 DEF Dedup, ReaderGoto, Reading
    <3>2. CASE j # k
      <4>1. j \in Reading
        BY <1>0, <1>1, <2>3, <3>2 DEF Dedup, ReaderGoto, Readers, Reading
      <4> QED BY <1>0, <3>1, <3>2, <4>1 DEF OneTurn
    <3>3. CASE j = k
      BY <1>0, <1>1, <2>3, <3>3 DEF Dedup, ReaderGoto, Readers
    <3> QED BY <3>2, <3>3
  <2>4. reader[k].version > lastSeen => lastSeen' = reader[k].version /\ reader'[k].version = reader[k].version
    BY <1>0, <1>1 DEF Dedup, ReaderGoto, Readers
  <2>5. HoldsNewest'
    BY <1>0, <1>a, <2>1, <2>3, <2>4 DEF Order, HoldsNewest, ChannelSeen
  <2> QED BY <1>v, <2>2, <2>5 DEF Order
<1>2. CASE Deliver(k)
  <2>1. /\ lastSeen' = lastSeen /\ reader[k].version = lastSeen
        /\ \A i \in 1..Len(eventCh) : eventCh[i] < lastSeen
    BY <1>0, <1>2 DEF Deliver, ReaderGoto, Order, HoldsNewest
  <2>2. \A j \in Dials : reader'[j].at # "deliver"
    <3>1. k \in Reading
      BY <1>2 DEF Deliver, ReaderGoto, Reading
    <3>2. ASSUME NEW j \in Dials, j # k
          PROVE  reader'[j].at # "deliver"
      <4>1. j \notin Reading
        BY <1>0, <3>1, <3>2 DEF OneTurn
      <4> QED BY <1>0, <1>2, <3>2, <4>1 DEF Deliver, ReaderGoto, Readers, Reading
    <3>3. reader'[k].at # "deliver"
      BY <1>0, <1>2 DEF Deliver, ReaderGoto, Readers
    <3> QED BY <3>2, <3>3
  <2>3. CASE eventCh' = eventCh
    BY <1>0, <1>v, <2>1, <2>2, <2>3 DEF Order, EventsInOrder, ChannelSeen, HoldsNewest
  <2>4. CASE eventCh' = Append(eventCh, lastSeen)
    <3>1. /\ Len(eventCh') = Len(eventCh) + 1
          /\ eventCh'[Len(eventCh) + 1] = lastSeen
          /\ \A i \in 1..Len(eventCh) : eventCh'[i] = eventCh[i]
      BY <1>0, <2>4
    <3>2. EventsInOrder'
      <4> SUFFICES ASSUME NEW i \in 1..Len(eventCh'), NEW j \in 1..Len(eventCh'), i < j
                   PROVE  eventCh'[i] < eventCh'[j]
        BY DEF EventsInOrder
      <4>1. i \in 1..Len(eventCh)
        BY <1>a, <3>1
      <4>2. CASE j \in 1..Len(eventCh)
        BY <1>0, <3>1, <4>1, <4>2 DEF Order, EventsInOrder
      <4>3. CASE j = Len(eventCh) + 1
        BY <2>1, <3>1, <4>1, <4>3
      <4> QED BY <1>a, <3>1, <4>2, <4>3
    <3>3. ChannelSeen'
      <4> SUFFICES ASSUME NEW i \in 1..Len(eventCh')
                   PROVE  eventCh'[i] <= lastSeen'
        BY DEF ChannelSeen
      <4>1. CASE i \in 1..Len(eventCh)
        BY <1>0, <1>a, <2>1, <3>1, <4>1
      <4>2. CASE i = Len(eventCh) + 1
        BY <1>0, <2>1, <3>1, <4>2
      <4> QED BY <1>a, <3>1, <4>1, <4>2
    <3> QED BY <1>v, <2>2, <3>2, <3>3 DEF Order, HoldsNewest
  <2> QED BY <1>2, <2>1, <2>3, <2>4 DEF Deliver
<1>3. CASE ~Dedup(k) /\ ~Deliver(k)
  <2>1. eventCh' = eventCh /\ lastSeen' = lastSeen
    BY <1>3 DEF ReaderStep, CheckDone, ReadEvent, ReadFails, CheckClosing, Report, StartReconnect,
       ReturnReader, readVars
  <2>2. ASSUME NEW j \in Dials, reader'[j].at = "deliver"
        PROVE  reader'[j] = reader[j]
    BY <1>0, <1>3, <2>2 DEF ReaderStep, CheckDone, ReadEvent, ReadFails, CheckClosing, Report,
       StartReconnect, ReturnReader, ReaderGoto, Readers
  <2> QED BY <1>0, <1>v, <2>1, <2>2 DEF Order, EventsInOrder, ChannelSeen, HoldsNewest
<1> QED BY <1>1, <1>2, <1>3

LEMMA ReconOrder ==
  ASSUME SdkInv, NEW k \in Dials, ReconStep(k)
  PROVE  Order'
<1>0. Order /\ reader \in Readers /\ recon \in Recons
  BY DEF SdkInv, SdkTypeOK, Readers, Recons, Order
<1>1. eventCh' = eventCh /\ lastSeen' = lastSeen /\ reset' = reset
  BY DEF ReconStep, Loop, Backoff, Wait, Connect, Dial, DialFails, Install, Connected, StartPumps, readVars
<1>2. ASSUME NEW j \in Dials, reader'[j].at = "deliver"
      PROVE  reader'[j] = reader[j]
  BY <1>0, <1>2 DEF ReconStep, Loop, Backoff, Wait, Connect, Dial, DialFails, Install, Connected,
     StartPumps, Readers
<1> QED BY <1>0, <1>1, <1>2 DEF Order, HoldsVersion, EventsInOrder, ChannelSeen, HoldsNewest

\* Heartbeats, Close and the network touch none of this; taking an event
\* leaves a shorter channel in the same order.
LEMMA OtherKeeps ==
  ASSUME SdkInv,
         \/ \E k \in Dials : Beat(k) \/ WriteBeat(k) \/ EndBeat(k) \/ Break(k)
         \/ CloseState \/ CloseChannels \/ CloseConn \/ TakeEvent
  PROVE  OneTurn' /\ AttemptLeft' /\ Order'
<1>0. OneTurn /\ AttemptLeft /\ Order /\ eventCh \in Seq(1..MaxVersion)
  BY DEF SdkInv, SdkTypeOK, Order
<1>1. reader' = reader /\ recon' = recon /\ lastSeen' = lastSeen /\ reset' = reset
  BY DEF Beat, WriteBeat, EndBeat, Break, CloseState, CloseChannels, CloseConn, TakeEvent, readVars
<1>2. OneTurn' /\ AttemptLeft'
  BY <1>0, <1>1 DEF OneTurn, AttemptLeft, Reading, Reconnecting
<1>3. CASE eventCh' = eventCh
  BY <1>0, <1>1, <1>2, <1>3 DEF Order, HoldsVersion, EventsInOrder, ChannelSeen, HoldsNewest
<1>4. CASE TakeEvent
  <2>1. /\ Len(eventCh') = Len(eventCh) - 1 /\ Len(eventCh) \in Nat /\ Len(eventCh') \in Nat
        /\ \A i \in 1..Len(eventCh') : eventCh'[i] = eventCh[i + 1]
    BY <1>0, <1>4, HeadTailProperties DEF TakeEvent
  <2>2. \A i \in 1..Len(eventCh') : i + 1 \in 1..Len(eventCh)
    BY <2>1
  <2>3. EventsInOrder'
    BY <1>0, <1>1, <2>1, <2>2 DEF Order, EventsInOrder
  <2>4. HoldsVersion' /\ ChannelSeen' /\ HoldsNewest'
    BY <1>0, <1>1, <2>1, <2>2 DEF Order, HoldsVersion, ChannelSeen, HoldsNewest
  <2> QED BY <1>2, <2>3, <2>4 DEF Order
<1> QED BY <1>3, <1>4 DEF Beat, WriteBeat, EndBeat, Break, CloseState, CloseChannels, CloseConn, readVars

\* ResetVersions gives up the order and nothing else.
LEMMA ResetKeeps ==
  ASSUME SdkInv, ResetVersions
  PROVE  SdkInv'
<1> USE SdkAssumption
<1>1. SdkTypeOK /\ OneTurn /\ AttemptLeft /\ HoldsVersion
  BY DEF SdkInv, Order
<1>2. /\ lastSeen' = 0 /\ reset' = TRUE
      /\ UNCHANGED <<state, conn, open, dials, reader, beat, recon, closer, eventCh, panicked>>
  BY DEF ResetVersions
<1>3. SdkTypeOK'
  BY <1>1, <1>2 DEF SdkTypeOK
<1>4. OneTurn' /\ AttemptLeft' /\ HoldsVersion'
  BY <1>1, <1>2 DEF OneTurn, Reading, Reconnecting, AttemptLeft, HoldsVersion
<1> QED BY <1>2, <1>3, <1>4 DEF SdkInv, Order, EventsInOrder, ChannelSeen, HoldsNewest

-----------------------------------------------------------------------------
\* Types, the one turn, the attempt left and the order of the channel hold
\* throughout (pkg/sdk/client.go, readPump and reconnectWithBackoff).
THEOREM SdkInvariant == SdkSpec => []SdkInv
<1>1. SdkInit => SdkInv
  BY InitInv
<1>2. SdkInv /\ [SdkNext]_sdkVars => SdkInv'
  <2> SUFFICES ASSUME SdkInv, [SdkNext]_sdkVars
               PROVE  SdkInv'
    OBVIOUS
  <2>1. ASSUME NEW k \in Dials, ReaderStep(k) \/ \E v \in 1..MaxVersion : ReadEvent(k, v)
        PROVE  SdkInv'
    BY <2>1, ReaderTypes, ReaderTurn, ReaderAttempts, ReaderOrder DEF SdkInv
  <2>2. ASSUME NEW k \in Dials, ReconStep(k)
        PROVE  SdkInv'
    BY <2>2, ReconTypes, ReconTurn, ReconAttempts, ReconOrder DEF SdkInv
  <2>3. CASE \/ \E k \in Dials : Beat(k) \/ WriteBeat(k) \/ EndBeat(k) \/ Break(k)
             \/ CloseState \/ CloseChannels \/ CloseConn \/ TakeEvent
    BY <2>3, OtherTypes, OtherKeeps DEF SdkInv
  <2>4. CASE UNCHANGED sdkVars
    BY <2>4 DEF sdkVars, readVars, SdkInv, SdkTypeOK, OneTurn, Reading, Reconnecting, AttemptLeft,
       Order, HoldsVersion, EventsInOrder, ChannelSeen, HoldsNewest
  <2>5. CASE ResetVersions
    BY <2>5, ResetKeeps
  <2> QED BY <2>1, <2>2, <2>3, <2>4, <2>5 DEF SdkNext
<1> QED BY <1>1, <1>2, PTL DEF SdkSpec

\* Whatever interleaving of readers, heartbeats, reconnections and Close, every
\* goroutine is at one of its steps with a connection that was dialled, no
\* reconnection attempt is counted beyond the maximum and the channel never holds
\* more than its buffer (client.go).
THEOREM SdkTypeCorrect == SdkSpec => []SdkTypeOK
<1>1. SdkInv => SdkTypeOK
  BY DEF SdkInv
<1> QED BY <1>1, SdkInvariant, PTL

\* At most one readPump reads or is about to be started by a reconnection,
\* however many dials there have been.
THEOREM OneReaderAlways == SdkSpec => []OneReader
<1>1. SdkInv => OneReader
  <2> SUFFICES ASSUME SdkInv
               PROVE  OneReader
    OBVIOUS
  <2>1. /\ \A k, l \in Reading : k = l
        /\ \A k, l \in Reconnecting : k = l
        /\ Reading = {} \/ Reconnecting = {}
    BY DEF SdkInv, OneTurn
  <2>2. Reading = {} \/ \E k : Reading = {k}
    BY <2>1
  <2>3. Reconnecting = {} \/ \E k : Reconnecting = {k}
    BY <2>1
  <2>4. Cardinality(Reading) \in {0, 1} /\ (Reading = {} => Cardinality(Reading) = 0)
    BY <2>2, FS_EmptySet, FS_Singleton
  <2>5. Cardinality(Reconnecting) \in {0, 1} /\ (Reconnecting = {} => Cardinality(Reconnecting) = 0)
    BY <2>3, FS_EmptySet, FS_Singleton
  <2> QED BY <2>1, <2>4, <2>5 DEF OneReader
<1> QED BY <1>1, SdkInvariant, PTL

\* The program receives the versions in order and none of them twice, for any
\* order in which the server sends them and any size of the channel, until it
\* calls ResetVersions.
THEOREM EventsAlwaysInOrder == SdkSpec => []EventsInOrder
<1>1. SdkInv => EventsInOrder
  BY DEF SdkInv, Order
<1> QED BY <1>1, SdkInvariant, PTL
=============================================================================
