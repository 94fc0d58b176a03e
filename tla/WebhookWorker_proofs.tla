------------------------ MODULE WebhookWorker_proofs ------------------------
(***************************************************************************)
(* Proofs about WebhookWorker, for any number of events and workers, any   *)
(* sizes and both faults.                                                  *)
(*                                                                         *)
(* An event has at most one message that can still be worked on.  It lies  *)
(* on the stream, in a batch or with a retry goroutine, and its attempt    *)
(* number counts the POSTs made: that is what bounds the attempts and ends *)
(* them with the first success.  A message that only the pending list      *)
(* still holds is worked on by nobody.                                     *)
(***************************************************************************)
EXTENDS WebhookWorker, SequenceTheorems, TLAPS

OutOfStream(e) == \A i \in 1..Len(stream) : stream[i].event # e
OutOfBatch(w, e) == \A i \in 1..Len(batch[w]) : batch[w][i].event # e
OutOfRetries(w, e) == \A m \in retries[w] : m.event # e
OutOfWorker(w, e) == OutOfBatch(w, e) /\ OutOfRetries(w, e)

\* Where the one message of an event is, if it has one.
Nowhere(e) == /\ OutOfStream(e) /\ \A w \in Workers : OutOfWorker(w, e)
              /\ posted[e] <= RetryAttempts + 1

OnStream(e) == /\ \A w \in Workers : OutOfWorker(w, e)
               /\ \E i \in 1..Len(stream) :
                    /\ stream[i].event = e /\ posted[e] <= stream[i].attempt
                    /\ \A j \in 1..Len(stream) : j # i => stream[j].event # e

InBatch(e, w) == /\ OutOfStream(e) /\ OutOfRetries(w, e)
                 /\ \A v \in Workers \ {w} : OutOfWorker(v, e)
                 /\ \E i \in 1..Len(batch[w]) :
                      /\ batch[w][i].event = e
                      /\ \/ posted[e] <= batch[w][i].attempt
                         \/ i = 1 /\ failed[w] # "none" /\ posted[e] <= batch[w][i].attempt + 1
                      /\ \A j \in 1..Len(batch[w]) : j # i => batch[w][j].event # e

InRetries(e, w) == /\ OutOfStream(e) /\ OutOfBatch(w, e)
                   /\ \A v \in Workers \ {w} : OutOfWorker(v, e)
                   /\ \E m \in retries[w] :
                        /\ m.event = e /\ posted[e] <= m.attempt + 1 /\ MayRetry(m)
                        /\ \A n \in retries[w] : n # m => n.event # e

Placed(e) == \/ Nowhere(e) \/ OnStream(e)
             \/ \E w \in Workers : InBatch(e, w) \/ InRetries(e, w)

\* Nothing has been done yet for an event nobody has published.
Untouched(e) == OutOfStream(e) /\ posted[e] = 0 /\ \A w \in Workers : OutOfWorker(w, e)

\* The outcome of a POST is about the head of the batch.
HeadPosted(w) == failed[w] # "none" => batch[w] # <<>> /\ posted[Head(batch[w]).event] > 0

WebhookInv == /\ WebhookTypeOK
              /\ \A e \in Events : Placed(e)
              /\ \A e \in Events \ published : Untouched(e)
              /\ \A w \in Workers : HeadPosted(w)
              /\ DeliveredOnce /\ UnpostedKept

LEMMA WebhookInitial == WebhookInit => WebhookInv
<1> USE WebhookAssumption
<1> SUFFICES ASSUME WebhookInit PROVE WebhookInv
  OBVIOUS
<1>1. Len(stream) = 0 /\ \A w \in Workers : Len(batch[w]) = 0
  BY DEF WebhookInit
<1>2. WebhookTypeOK
  BY EmptySeq DEF WebhookInit, WebhookTypeOK
<1>3. \A e \in Events : Untouched(e) /\ Nowhere(e)
  BY <1>1 DEF WebhookInit, Untouched, Nowhere, OutOfStream, OutOfWorker, OutOfBatch, OutOfRetries
<1> QED BY <1>2, <1>3 DEF WebhookInit, WebhookInv, Placed, HeadPosted, DeliveredOnce, UnpostedKept

-----------------------------------------------------------------------------
\* Publish puts an event on the stream that was nowhere before.
LEMMA PublishKeeps == ASSUME WebhookInv, NEW e \in Events, Publish(e) PROVE WebhookInv'
<1> USE WebhookAssumption
<1> DEFINE m == [event |-> e, attempt |-> 0]
<1>1. /\ stream' = Append(stream, m) /\ published' = published \cup {e} /\ e \notin published
      /\ UNCHANGED <<pending, batch, failed, retries, posted, delivered, givenUp, dropped>>
  BY DEF Publish
<1>2. m \in Messages /\ stream \in Seq(Messages)
  BY DEF Messages, WebhookInv, WebhookTypeOK
<1>3. /\ stream' \in Seq(Messages) /\ Len(stream') = Len(stream) + 1 /\ Len(stream) \in Nat
      /\ \A i \in 1..Len(stream) : stream'[i] = stream[i]
      /\ stream'[Len(stream) + 1] = m
  BY <1>1, <1>2, AppendProperties, LenProperties
<1>4. m.event = e /\ m.attempt = 0
  OBVIOUS
<1> HIDE DEF m
<1>5. WebhookTypeOK'
  BY <1>1, <1>3 DEF WebhookInv, WebhookTypeOK
<1>6. Untouched(e)
  BY <1>1 DEF WebhookInv
<1>7. OnStream(e)'
  <2>1. \A w \in Workers : OutOfWorker(w, e)'
    BY <1>1, <1>6 DEF Untouched, OutOfWorker, OutOfBatch, OutOfRetries
  <2>2. posted'[e] = 0
    BY <1>1, <1>6 DEF Untouched
  <2>3. \A j \in 1..Len(stream') : j # Len(stream) + 1 => stream'[j].event # e
    BY <1>3, <1>6 DEF Untouched, OutOfStream
  <2> QED BY <1>3, <1>4, <2>1, <2>2, <2>3 DEF OnStream
<1>8. ASSUME NEW f \in Events, f # e PROVE Placed(f) => Placed(f)'
  <2>1. \A w \in Workers : /\ OutOfBatch(w, f)' <=> OutOfBatch(w, f)
                           /\ OutOfRetries(w, f)' <=> OutOfRetries(w, f)
    BY <1>1 DEF OutOfBatch, OutOfRetries
  <2>2. OutOfStream(f) => OutOfStream(f)'
    BY <1>3, <1>4, <1>8 DEF OutOfStream
  <2>3. OnStream(f) => OnStream(f)'
    <3> SUFFICES ASSUME OnStream(f) PROVE OnStream(f)'
      OBVIOUS
    <3>1. PICK i \in 1..Len(stream) : /\ stream[i].event = f /\ posted[f] <= stream[i].attempt
                                      /\ \A j \in 1..Len(stream) : j # i => stream[j].event # f
      BY DEF OnStream
    <3>2. i \in 1..Len(stream') /\ stream'[i] = stream[i] /\ posted'[f] = posted[f]
      BY <1>1, <1>3
    <3>3. \A j \in 1..Len(stream') : j # i => stream'[j].event # f
      BY <1>3, <1>4, <1>8, <3>1
    <3>4. \A w \in Workers : OutOfWorker(w, f)'
      BY <2>1 DEF OnStream, OutOfWorker
    <3> QED BY <3>1, <3>2, <3>3, <3>4 DEF OnStream
  <2>4. Nowhere(f) => Nowhere(f)'
    BY <1>1, <2>1, <2>2 DEF Nowhere, OutOfWorker
  <2>5. ASSUME NEW w \in Workers PROVE (InBatch(f, w) => InBatch(f, w)') /\ (InRetries(f, w) => InRetries(f, w)')
    BY <1>1, <2>1, <2>2 DEF InBatch, InRetries, OutOfWorker, MayRetry
  <2> QED BY <2>3, <2>4, <2>5 DEF Placed
<1>9. \A f \in Events \ published' : Untouched(f)'
  BY <1>1, <1>3, <1>4 DEF WebhookInv, Untouched, OutOfStream, OutOfWorker, OutOfBatch, OutOfRetries
<1>10. \A w \in Workers : HeadPosted(w)'
  BY <1>1 DEF WebhookInv, HeadPosted
<1>11. DeliveredOnce'
  BY <1>1, <1>3, <1>4 DEF WebhookInv, WebhookTypeOK, DeliveredOnce
<1>12. UnpostedKept'
  BY <1>1, <1>3, <1>4 DEF WebhookInv, UnpostedKept
<1> QED BY <1>5, <1>7, <1>8, <1>9, <1>10, <1>11, <1>12 DEF WebhookInv, Placed
-----------------------------------------------------------------------------
\* Read moves the head of the stream into an empty batch.
LEMMA ReadKeeps == ASSUME WebhookInv, NEW w \in Workers, Read(w) PROVE WebhookInv'
<1> USE WebhookAssumption
<1> PICK n \in Nat : n = ReadSize
  BY LenProperties DEF ReadSize, WebhookInv, WebhookTypeOK
<1>1. /\ batch[w] = <<>> /\ stream # <<>>
      /\ batch' = [batch EXCEPT ![w] = SubSeq(stream, 1, n)]
      /\ stream' = SubSeq(stream, n + 1, Len(stream))
      /\ pending' = pending \cup {stream[i] : i \in 1..n}
      /\ UNCHANGED <<failed, retries, published, posted, delivered, givenUp, dropped>>
  BY DEF Read
<1>2. stream \in Seq(Messages) /\ batch \in [Workers -> Seq(Messages)] /\ Len(stream) \in Nat /\ n <= Len(stream)
  BY LenProperties DEF WebhookInv, WebhookTypeOK, ReadSize
<1>3. \A i \in 1..Len(stream) : stream[i] \in Messages
  BY <1>2, ElementOfSeq
<1>4. /\ batch'[w] \in Seq(Messages) /\ Len(batch'[w]) = n
      /\ \A i \in 1..n : batch'[w][i] = stream[i]
  <2>1. \A i \in 1..n : stream[i] \in Messages
    BY <1>2, <1>3
  <2>2. batch'[w] = SubSeq(stream, 1, n)
    BY <1>1, <1>2
  <2> QED BY <2>1, <2>2, SubSeqProperties
<1>5. /\ stream' \in Seq(Messages) /\ Len(stream') = Len(stream) - n
      /\ \A i \in 1..(Len(stream) - n) : stream'[i] = stream[i + n]
  <2>1. \A i \in (n + 1)..Len(stream) : stream[i] \in Messages
    BY <1>3
  <2>2. /\ SubSeq(stream, n + 1, Len(stream)) \in Seq(Messages)
        /\ Len(SubSeq(stream, n + 1, Len(stream))) = IF n + 1 <= Len(stream) THEN Len(stream) - (n + 1) + 1 ELSE 0
        /\ \A i \in 1..(Len(stream) - (n + 1) + 1) :
             SubSeq(stream, n + 1, Len(stream))[i] = stream[n + 1 + i - 1]
    BY <1>2, <2>1, SubSeqProperties
  <2> QED BY <1>1, <1>2, <2>2
<1>6. \A v \in Workers \ {w} : batch'[v] = batch[v]
  BY <1>1, <1>2
<1>7. Len(batch[w]) = 0 /\ failed[w] = "none"
  BY <1>1, EmptySeq DEF WebhookInv, HeadPosted, WebhookTypeOK
<1>8. WebhookTypeOK'
  <2>1. batch' \in [Workers -> Seq(Messages)]
    BY <1>1, <1>2, <1>4
  <2>2. pending' \subseteq Messages
    BY <1>1, <1>2, <1>3 DEF WebhookInv, WebhookTypeOK
  <2> QED BY <1>1, <1>5, <2>1, <2>2 DEF WebhookInv, WebhookTypeOK
<1>9. \A v \in Workers, e \in Events :
        /\ OutOfRetries(v, e)' <=> OutOfRetries(v, e)
        /\ v # w => (OutOfBatch(v, e)' <=> OutOfBatch(v, e))
        /\ OutOfStream(e) => OutOfBatch(w, e)' /\ OutOfStream(e)'
  <2> TAKE v \in Workers, e \in Events
  <2>1. OutOfRetries(v, e)' <=> OutOfRetries(v, e)
    BY <1>1 DEF OutOfRetries
  <2>2. v # w => (OutOfBatch(v, e)' <=> OutOfBatch(v, e))
    BY <1>6 DEF OutOfBatch
  <2>3. ASSUME OutOfStream(e) PROVE OutOfBatch(w, e)'
    <3>1. \A i \in 1..n : i \in 1..Len(stream) /\ batch'[w][i] = stream[i]
      BY <1>2, <1>4
    <3> QED BY <1>4, <2>3, <3>1 DEF OutOfBatch, OutOfStream
  <2>4. ASSUME OutOfStream(e) PROVE OutOfStream(e)'
    <3>1. \A i \in 1..Len(stream') : i + n \in 1..Len(stream) /\ stream'[i] = stream[i + n]
      BY <1>2, <1>5
    <3> QED BY <2>4, <3>1 DEF OutOfStream
  <2> QED BY <2>1, <2>2, <2>3, <2>4
<1>10. ASSUME NEW e \in Events, Placed(e) PROVE Placed(e)'
  <2>1. CASE Nowhere(e)
    BY <1>1, <1>9, <2>1 DEF Nowhere, OutOfWorker, Placed
  <2>2. CASE OnStream(e)
    <3> PICK i \in 1..Len(stream) : /\ stream[i].event = e /\ posted[e] <= stream[i].attempt
                                    /\ \A j \in 1..Len(stream) : j # i => stream[j].event # e
      BY <2>2 DEF OnStream
    <3>1. CASE i <= n
      <4>1. /\ i \in 1..Len(batch'[w]) /\ batch'[w][i].event = e /\ posted'[e] <= batch'[w][i].attempt
            /\ \A j \in 1..Len(batch'[w]) : j # i => batch'[w][j].event # e
        <5>1. i \in 1..n /\ batch'[w][i] = stream[i] /\ posted'[e] = posted[e]
          BY <1>1, <1>2, <1>4, <3>1
        <5>2. ASSUME NEW j \in 1..n, j # i PROVE batch'[w][j].event # e
          <6>1. j \in 1..Len(stream) /\ batch'[w][j] = stream[j]
            BY <1>2, <1>4
          <6> QED BY <5>2, <6>1
        <5> QED BY <1>4, <5>1, <5>2
      <4>2. OutOfStream(e)'
        <5>1. ASSUME NEW j \in 1..Len(stream') PROVE stream'[j].event # e
          <6>1. j + n \in 1..Len(stream) /\ j + n # i /\ stream'[j] = stream[j + n]
            BY <1>2, <1>5, <3>1
          <6> QED BY <6>1
        <5> QED BY <5>1 DEF OutOfStream
      <4> QED BY <1>9, <2>2, <4>1, <4>2 DEF OnStream, OutOfWorker, InBatch, Placed
    <3>2. CASE i > n
      <4>1. /\ i - n \in 1..Len(stream') /\ stream'[i - n].event = e /\ posted'[e] <= stream'[i - n].attempt
            /\ \A j \in 1..Len(stream') : j # i - n => stream'[j].event # e
        <5>1. i - n \in 1..(Len(stream) - n) /\ stream'[i - n] = stream[i]
          <6>1. i - n \in 1..(Len(stream) - n) /\ (i - n) + n = i
            BY <1>2, <3>2
          <6> QED BY <1>5, <6>1
        <5>2. ASSUME NEW j \in 1..(Len(stream) - n), j # i - n PROVE stream'[j].event # e
          <6>1. j + n \in 1..Len(stream) /\ j + n # i
            BY <1>2, <5>2
          <6> QED BY <1>5, <6>1
        <5> QED BY <1>1, <1>5, <5>1, <5>2
      <4>2. OutOfBatch(w, e)'
        <5>1. ASSUME NEW k \in 1..Len(batch'[w]) PROVE batch'[w][k].event # e
          <6>1. k \in 1..n /\ k \in 1..Len(stream) /\ k # i
            BY <1>2, <1>4, <3>2
          <6>2. batch'[w][k] = stream[k]
            BY <1>4, <6>1
          <6> QED BY <6>1, <6>2
        <5> QED BY <5>1 DEF OutOfBatch
      <4> QED BY <1>9, <2>2, <4>1, <4>2 DEF OnStream, OutOfWorker, Placed
    <3> QED BY <3>1, <3>2
  <2>3. ASSUME NEW v \in Workers, InBatch(e, v) PROVE Placed(e)'
    <3>1. v # w
      BY <1>7, <2>3 DEF InBatch
    <3>2. batch'[v] = batch[v]
      BY <1>6, <3>1
    <3> QED BY <1>1, <1>9, <2>3, <3>1, <3>2 DEF InBatch, OutOfWorker, Placed
  <2>4. ASSUME NEW v \in Workers, InRetries(e, v) PROVE Placed(e)'
    <3>1. OutOfBatch(v, e)'
      BY <1>9, <2>4 DEF InRetries
    <3> QED BY <1>1, <1>9, <2>4, <3>1 DEF InRetries, OutOfWorker, MayRetry, Placed
  <2> QED BY <1>10, <2>1, <2>2, <2>3, <2>4 DEF Placed
<1>11. \A e \in Events \ published' : Untouched(e)'
  BY <1>1, <1>9 DEF WebhookInv, Untouched, OutOfWorker
<1>12. \A v \in Workers : HeadPosted(v)'
  BY <1>1, <1>6, <1>7 DEF WebhookInv, HeadPosted
<1>13. DeliveredOnce'
  BY <1>1, <1>2, <1>4, <1>5, <1>6 DEF WebhookInv, DeliveredOnce
<1>14. UnpostedKept'
  <2> SUFFICES ASSUME NEW e \in published, posted[e] = 0
               PROVE  \/ \E i \in 1..Len(stream') : stream'[i].event = e
                      \/ \E m \in pending' : m.event = e
    BY <1>1 DEF UnpostedKept
  <2>1. CASE \E m \in pending : m.event = e
    BY <1>1, <2>1
  <2>2. CASE \E i \in 1..Len(stream) : stream[i].event = e
    <3> PICK i \in 1..Len(stream) : stream[i].event = e
      BY <2>2
    <3>1. CASE i <= n
      BY <1>1, <3>1
    <3>2. CASE i > n
      <4>1. i - n \in 1..Len(stream') /\ stream'[i - n].event = e
        BY <1>2, <1>5, <3>2
      <4> QED BY <4>1
    <3> QED BY <3>1, <3>2
  <2> QED BY <2>1, <2>2 DEF WebhookInv, UnpostedKept
<1> QED BY <1>8, <1>10, <1>11, <1>12, <1>13, <1>14 DEF WebhookInv

-----------------------------------------------------------------------------
\* Deliver counts one more POST of the head of the batch.
LEMMA DeliverKeeps == ASSUME WebhookInv, NEW w \in Workers, Deliver(w) PROVE WebhookInv'
<1> USE WebhookAssumption
<1> PICK m : m = Head(batch[w])
  OBVIOUS
<1> PICK e : e = m.event
  OBVIOUS
<1>1. /\ batch[w] # <<>> /\ failed[w] = "none"
      /\ posted' = [posted EXCEPT ![e] = @ + 1]
      /\ \/ failed' = [failed EXCEPT ![w] = "no"] /\ delivered' = delivered \cup {e}
         \/ failed' = [failed EXCEPT ![w] = "yes"] /\ UNCHANGED delivered
      /\ UNCHANGED <<stream, pending, batch, retries, published, givenUp, dropped>>
  BY DEF Deliver
<1>2. /\ batch[w] \in Seq(Messages) /\ Len(batch[w]) \in Nat /\ Len(batch[w]) > 0
      /\ m = batch[w][1] /\ m \in Messages
  <2>1. batch[w] \in Seq(Messages)
    BY DEF WebhookInv, WebhookTypeOK
  <2> QED BY <1>1, <2>1, EmptySeq, HeadTailProperties
<1>3. e \in Events /\ m.attempt \in 0..RetryAttempts /\ posted[e] \in Nat
  BY <1>2 DEF Messages, WebhookInv, WebhookTypeOK
<1>4. ~OutOfBatch(w, e)
  BY <1>2 DEF OutOfBatch
<1>5. InBatch(e, w)
  BY <1>3, <1>4 DEF WebhookInv, Placed, Nowhere, OnStream, InBatch, InRetries, OutOfWorker
<1>6. e \in published
  BY <1>3, <1>4 DEF WebhookInv, Untouched, OutOfWorker
<1>7. WebhookTypeOK'
  <2> USE DEF WebhookInv, WebhookTypeOK
  <2>1. posted' \in [Events -> Nat]
    BY <1>1, <1>3
  <2>2. failed' \in [Workers -> {"none", "yes", "no"}]
    BY <1>1
  <2>3. delivered' \subseteq published'
    BY <1>1, <1>6
  <2> QED BY <1>1, <2>1, <2>2, <2>3
<1>8. \A v \in Workers, f \in Events :
        /\ OutOfStream(f)' <=> OutOfStream(f)
        /\ OutOfBatch(v, f)' <=> OutOfBatch(v, f)
        /\ OutOfRetries(v, f)' <=> OutOfRetries(v, f)
        /\ OutOfWorker(v, f)' <=> OutOfWorker(v, f)
  BY <1>1 DEF OutOfStream, OutOfBatch, OutOfRetries, OutOfWorker
<1>9. InBatch(e, w)'
  <2> PICK i \in 1..Len(batch[w]) :
        /\ batch[w][i].event = e
        /\ \/ posted[e] <= batch[w][i].attempt
           \/ i = 1 /\ failed[w] # "none" /\ posted[e] <= batch[w][i].attempt + 1
        /\ \A j \in 1..Len(batch[w]) : j # i => batch[w][j].event # e
    BY <1>5 DEF InBatch
  <2>1. i = 1 /\ posted[e] <= batch[w][1].attempt
    BY <1>1, <1>2
  <2>2. posted'[e] <= batch[w][1].attempt + 1
    BY <1>1, <1>2, <1>3, <2>1 DEF WebhookInv, WebhookTypeOK
  <2>3. failed'[w] # "none"
    BY <1>1 DEF WebhookInv, WebhookTypeOK
  <2>4. \E j \in 1..Len(batch'[w]) :
          /\ batch'[w][j].event = e
          /\ \/ posted'[e] <= batch'[w][j].attempt
             \/ j = 1 /\ failed'[w] # "none" /\ posted'[e] <= batch'[w][j].attempt + 1
          /\ \A k \in 1..Len(batch'[w]) : k # j => batch'[w][k].event # e
    BY <1>1, <1>2, <2>1, <2>2, <2>3
  <2>5. OutOfStream(e)' /\ OutOfRetries(w, e)' /\ \A v \in Workers \ {w} : OutOfWorker(v, e)'
    BY <1>3, <1>5, <1>8 DEF InBatch
  <2> QED BY <2>4, <2>5 DEF InBatch
<1>10. ASSUME NEW f \in Events, f # e, Placed(f) PROVE Placed(f)'
  <2>1. posted'[f] = posted[f]
    BY <1>1, <1>10 DEF WebhookInv, WebhookTypeOK
  <2>2. ASSUME NEW v \in Workers PROVE failed[v] # "none" => failed'[v] # "none"
    BY <1>1 DEF WebhookInv, WebhookTypeOK
  <2>3. Nowhere(f) => Nowhere(f)'
    BY <1>8, <2>1 DEF Nowhere
  <2>4. OnStream(f) => OnStream(f)'
    BY <1>1, <1>8, <2>1 DEF OnStream
  <2>5. ASSUME NEW v \in Workers, InBatch(f, v) PROVE InBatch(f, v)'
    BY <1>1, <1>8, <2>1, <2>2, <2>5 DEF InBatch
  <2>6. ASSUME NEW v \in Workers, InRetries(f, v) PROVE InRetries(f, v)'
    BY <1>1, <1>8, <2>1, <2>6 DEF InRetries, MayRetry
  <2> QED BY <1>10, <2>3, <2>4, <2>5, <2>6 DEF Placed
<1>11. \A f \in Events \ published' : Untouched(f)'
  BY <1>1, <1>3, <1>6, <1>8 DEF WebhookInv, WebhookTypeOK, Untouched
<1>12. \A v \in Workers : HeadPosted(v)'
  <2> TAKE v \in Workers
  <2>1. posted'[e] > 0
    BY <1>1, <1>3 DEF WebhookInv, WebhookTypeOK
  <2>2. CASE v = w
    BY <1>1, <2>1, <2>2 DEF HeadPosted
  <2>3. CASE v # w
    <3>1. failed'[v] = failed[v]
      BY <1>1, <2>3 DEF WebhookInv, WebhookTypeOK
    <3> SUFFICES ASSUME failed[v] # "none" PROVE batch[v] # <<>> /\ posted'[Head(batch[v]).event] > 0
      BY <1>1, <3>1 DEF HeadPosted
    <3>2. batch[v] # <<>> /\ posted[Head(batch[v]).event] > 0
      BY DEF WebhookInv, HeadPosted
    <3>3. Head(batch[v]).event \in Events
      <4>1. batch[v] \in Seq(Messages)
        BY DEF WebhookInv, WebhookTypeOK
      <4>2. Head(batch[v]) \in Messages
        BY <3>2, <4>1, HeadTailProperties
      <4> QED BY <4>2 DEF Messages
    <3> QED BY <1>1, <1>3, <3>2, <3>3 DEF WebhookInv, WebhookTypeOK
  <2> QED BY <2>2, <2>3
<1>13. DeliveredOnce'
  <2>1. \A f \in delivered, v \in Workers : f # e /\ (v = w => OutOfBatch(v, f)) /\ (failed'[v] = failed[v] \/ v = w)
    <3>1. \A f \in delivered : f # e
      BY <1>1, <1>2 DEF WebhookInv, DeliveredOnce
    <3>2. \A f \in delivered : OutOfBatch(w, f)
      BY <1>1 DEF WebhookInv, DeliveredOnce, OutOfBatch
    <3> QED BY <1>1, <3>1, <3>2 DEF WebhookInv, WebhookTypeOK
  <2>2. \A f \in delivered : \A v \in Workers :
          /\ \A i \in 1..Len(batch'[v]) : batch'[v][i].event = f => i = 1 /\ failed'[v] = "no"
          /\ \A k \in retries'[v] : k.event # f
          /\ \A i \in 1..Len(stream') : stream'[i].event # f
    BY <1>1, <2>1 DEF WebhookInv, DeliveredOnce, OutOfBatch
  <2>3. CASE UNCHANGED delivered
    BY <2>2, <2>3 DEF DeliveredOnce
  <2>4. CASE failed' = [failed EXCEPT ![w] = "no"] /\ delivered' = delivered \cup {e}
    <3>1. failed'[w] = "no"
      BY <2>4 DEF WebhookInv, WebhookTypeOK
    <3>2. \A i \in 1..Len(batch[w]) : batch[w][i].event = e => i = 1
      BY <1>2, <1>5 DEF InBatch
    <3>3. \A v \in Workers :
            /\ \A i \in 1..Len(batch'[v]) : batch'[v][i].event = e => i = 1 /\ failed'[v] = "no"
            /\ \A k \in retries'[v] : k.event # e
            /\ \A i \in 1..Len(stream') : stream'[i].event # e
      BY <1>1, <1>5, <3>1, <3>2 DEF InBatch, OutOfWorker, OutOfBatch, OutOfRetries, OutOfStream
    <3> QED BY <2>2, <2>4, <3>3 DEF DeliveredOnce
  <2> QED BY <1>1, <2>3, <2>4
<1>14. UnpostedKept'
  <2>1. \A f \in published : posted'[f] = 0 => posted[f] = 0
    BY <1>1, <1>3 DEF WebhookInv, WebhookTypeOK
  <2> QED BY <1>1, <2>1 DEF WebhookInv, UnpostedKept
<1>15. \A f \in Events : Placed(f)'
  BY <1>9, <1>10 DEF WebhookInv, Placed
<1> QED BY <1>7, <1>11, <1>12, <1>13, <1>14, <1>15 DEF WebhookInv
-----------------------------------------------------------------------------
\* Finish takes the head off the batch; its event waits for a retry or is done with.
LEMMA FinishKeeps == ASSUME WebhookInv, NEW w \in Workers, Finish(w) PROVE WebhookInv'
<1> USE WebhookAssumption
<1> PICK m : m = Head(batch[w])
  OBVIOUS
<1> PICK e : e = m.event
  OBVIOUS
<1>1. /\ batch[w] # <<>> /\ failed[w] # "none"
      /\ batch' = [batch EXCEPT ![w] = Tail(@)] /\ failed' = [failed EXCEPT ![w] = "none"]
      /\ retries' = IF failed[w] = "yes" /\ MayRetry(m) THEN [retries EXCEPT ![w] = @ \cup {m}] ELSE retries
      /\ givenUp' = IF failed[w] = "yes" /\ ~MayRetry(m) THEN givenUp \cup {e} ELSE givenUp
      /\ pending' = pending \ {m} \/ pending' = pending
      /\ UNCHANGED <<stream, published, posted, delivered, dropped>>
  BY DEF Finish
<1>2. /\ batch[w] \in Seq(Messages) /\ Len(batch[w]) \in Nat /\ Len(batch[w]) > 0
      /\ m = batch[w][1] /\ m \in Messages
      /\ Tail(batch[w]) \in Seq(Messages) /\ Len(Tail(batch[w])) = Len(batch[w]) - 1
      /\ \A i \in 1..(Len(batch[w]) - 1) : Tail(batch[w])[i] = batch[w][i + 1]
  <2>1. batch[w] \in Seq(Messages)
    BY DEF WebhookInv, WebhookTypeOK
  <2> QED BY <1>1, <2>1, EmptySeq, HeadTailProperties
<1>3. /\ batch'[w] \in Seq(Messages) /\ Len(batch'[w]) = Len(batch[w]) - 1
      /\ \A i \in 1..(Len(batch[w]) - 1) : batch'[w][i] = batch[w][i + 1]
      /\ failed'[w] = "none"
      /\ \A v \in Workers \ {w} : batch'[v] = batch[v] /\ failed'[v] = failed[v] /\ retries'[v] = retries[v]
      /\ retries'[w] = IF failed[w] = "yes" /\ MayRetry(m) THEN retries[w] \cup {m} ELSE retries[w]
  BY <1>1, <1>2 DEF WebhookInv, WebhookTypeOK
<1>4. /\ e \in Events /\ m.attempt \in 0..RetryAttempts /\ posted[e] \in Nat
      /\ retries[w] \subseteq Messages
  BY <1>2 DEF Messages, WebhookInv, WebhookTypeOK
<1>5. ~OutOfBatch(w, e)
  BY <1>2 DEF OutOfBatch
<1>6. InBatch(e, w)
  BY <1>4, <1>5 DEF WebhookInv, Placed, Nowhere, OnStream, InBatch, InRetries, OutOfWorker
<1>7. e \in published /\ posted[e] > 0
  <2>1. e \in published
    BY <1>4, <1>5 DEF WebhookInv, Untouched, OutOfWorker
  <2>2. posted[e] > 0
    BY <1>1 DEF WebhookInv, HeadPosted
  <2> QED BY <2>1, <2>2
<1>8. WebhookTypeOK'
  <2> USE DEF WebhookInv, WebhookTypeOK
  <2>1. batch' \in [Workers -> Seq(Messages)]
    BY <1>1, <1>2
  <2>2. retries' \in [Workers -> SUBSET Messages]
    BY <1>1, <1>2
  <2>3. failed' \in [Workers -> {"none", "yes", "no"}]
    BY <1>1
  <2>4. givenUp' \subseteq published' /\ pending' \subseteq Messages
    BY <1>1, <1>7
  <2> QED BY <1>1, <2>1, <2>2, <2>3, <2>4
<1>9. /\ posted[e] <= m.attempt + 1
      /\ \A i \in 1..Len(batch[w]) : i # 1 => batch[w][i].event # e
  <2> PICK i \in 1..Len(batch[w]) :
        /\ batch[w][i].event = e
        /\ \/ posted[e] <= batch[w][i].attempt
           \/ i = 1 /\ failed[w] # "none" /\ posted[e] <= batch[w][i].attempt + 1
        /\ \A j \in 1..Len(batch[w]) : j # i => batch[w][j].event # e
    BY <1>6 DEF InBatch
  <2>1. i = 1
    BY <1>2
  <2> QED BY <1>2, <1>4, <2>1
<1>10. \A f \in Events : OutOfStream(f)' <=> OutOfStream(f)
  BY <1>1 DEF OutOfStream
<1>11. \A v \in Workers \ {w}, f \in Events : OutOfWorker(v, f)' <=> OutOfWorker(v, f)
  BY <1>3 DEF OutOfWorker, OutOfBatch, OutOfRetries
<1>12. \A f \in Events : OutOfBatch(w, f) => OutOfBatch(w, f)'
  <2> TAKE f \in Events
  <2> SUFFICES ASSUME OutOfBatch(w, f), NEW i \in 1..(Len(batch[w]) - 1) PROVE batch'[w][i].event # f
    BY <1>3 DEF OutOfBatch
  <2>1. i + 1 \in 1..Len(batch[w]) /\ batch'[w][i] = batch[w][i + 1]
    BY <1>2, <1>3
  <2> QED BY <2>1 DEF OutOfBatch
<1>13. OutOfBatch(w, e)'
  <2> SUFFICES ASSUME NEW i \in 1..(Len(batch[w]) - 1) PROVE batch'[w][i].event # e
    BY <1>3 DEF OutOfBatch
  <2>1. i + 1 \in 1..Len(batch[w]) /\ i + 1 # 1 /\ batch'[w][i] = batch[w][i + 1]
    BY <1>2, <1>3
  <2> QED BY <1>9, <2>1
<1>14. Placed(e)'
  <2>1. OutOfStream(e)' /\ OutOfRetries(w, e) /\ \A v \in Workers \ {w} : OutOfWorker(v, e)'
    BY <1>4, <1>6, <1>10, <1>11 DEF InBatch
  <2>2. CASE failed[w] = "yes" /\ MayRetry(m)
    <3>1. /\ m \in retries'[w] /\ m.event = e /\ posted'[e] <= m.attempt + 1 /\ MayRetry(m)'
          /\ \A n \in retries'[w] : n # m => n.event # e
      BY <1>1, <1>3, <1>9, <2>1, <2>2 DEF OutOfRetries, MayRetry
    <3> QED BY <1>13, <2>1, <3>1 DEF InRetries, Placed
  <2>3. CASE ~(failed[w] = "yes" /\ MayRetry(m))
    <3>1. OutOfWorker(w, e)'
      BY <1>3, <1>13, <2>1, <2>3 DEF OutOfWorker, OutOfRetries
    <3>2. posted'[e] <= RetryAttempts + 1
      BY <1>1, <1>4, <1>9
    <3> QED BY <2>1, <3>1, <3>2 DEF Nowhere, Placed
  <2> QED BY <2>2, <2>3
<1>15. ASSUME NEW f \in Events, f # e, Placed(f) PROVE Placed(f)'
  <2>1. OutOfRetries(w, f) => OutOfRetries(w, f)'
    BY <1>3, <1>15 DEF OutOfRetries
  <2>2. posted'[f] = posted[f]
    BY <1>1
  <2>3. CASE Nowhere(f)
    BY <1>10, <1>11, <1>12, <2>1, <2>2, <2>3 DEF Nowhere, OutOfWorker, Placed
  <2>4. CASE OnStream(f)
    BY <1>1, <1>11, <1>12, <2>1, <2>2, <2>4 DEF OnStream, OutOfWorker, Placed
  <2>5. CASE InBatch(f, w)
    <3> PICK i \in 1..Len(batch[w]) :
          /\ batch[w][i].event = f
          /\ \/ posted[f] <= batch[w][i].attempt
             \/ i = 1 /\ failed[w] # "none" /\ posted[f] <= batch[w][i].attempt + 1
          /\ \A j \in 1..Len(batch[w]) : j # i => batch[w][j].event # f
      BY <2>5 DEF InBatch
    <3>1. i # 1
      BY <1>2, <1>15
    <3>2. i - 1 \in 1..(Len(batch[w]) - 1) /\ batch'[w][i - 1] = batch[w][i]
      <4>1. i - 1 \in 1..(Len(batch[w]) - 1) /\ (i - 1) + 1 = i
        BY <1>2, <3>1
      <4> QED BY <1>3, <4>1
    <3>3. ASSUME NEW j \in 1..(Len(batch[w]) - 1), j # i - 1 PROVE batch'[w][j].event # f
      <4>1. j + 1 \in 1..Len(batch[w]) /\ j + 1 # i /\ batch'[w][j] = batch[w][j + 1]
        BY <1>2, <1>3, <3>3
      <4> QED BY <4>1
    <3>4. \E k \in 1..Len(batch'[w]) :
            /\ batch'[w][k].event = f /\ posted'[f] <= batch'[w][k].attempt
            /\ \A j \in 1..Len(batch'[w]) : j # k => batch'[w][j].event # f
      BY <1>3, <2>2, <3>1, <3>2, <3>3
    <3> QED BY <1>10, <1>11, <2>1, <2>5, <3>4 DEF InBatch, Placed
  <2>6. CASE InRetries(f, w)
    <3> PICK n \in retries[w] : /\ n.event = f /\ posted[f] <= n.attempt + 1 /\ MayRetry(n)
                                /\ \A k \in retries[w] : k # n => k.event # f
      BY <2>6 DEF InRetries
    <3>1. /\ n \in retries'[w] /\ posted'[f] <= n.attempt + 1 /\ MayRetry(n)'
          /\ \A k \in retries'[w] : k # n => k.event # f
      BY <1>3, <1>15, <2>2 DEF MayRetry
    <3> QED BY <1>10, <1>11, <1>12, <2>6, <3>1 DEF InRetries, Placed
  <2>7. ASSUME NEW v \in Workers \ {w}, InBatch(f, v) \/ InRetries(f, v) PROVE Placed(f)'
    <3>1. OutOfWorker(w, f)'
      BY <1>12, <2>1, <2>7 DEF InBatch, InRetries, OutOfWorker
    <3>2. \A u \in Workers \ {v} : OutOfWorker(u, f)'
      BY <1>11, <2>7, <3>1 DEF InBatch, InRetries
    <3>3. batch'[v] = batch[v] /\ failed'[v] = failed[v] /\ retries'[v] = retries[v]
      BY <1>3
    <3>4. CASE InBatch(f, v)
      BY <1>10, <2>2, <3>2, <3>3, <3>4 DEF InBatch, OutOfRetries, Placed
    <3>5. CASE InRetries(f, v)
      BY <1>10, <2>2, <3>2, <3>3, <3>5 DEF InRetries, OutOfBatch, MayRetry, Placed
    <3> QED BY <2>7, <3>4, <3>5
  <2> QED BY <1>15, <2>3, <2>4, <2>5, <2>6, <2>7 DEF Placed
<1>16. \A f \in Events \ published' : Untouched(f)'
  <2> TAKE f \in Events \ published'
  <2>1. f # e /\ Untouched(f)
    BY <1>1, <1>7 DEF WebhookInv
  <2>2. OutOfWorker(w, f)'
    BY <1>3, <1>12, <2>1 DEF Untouched, OutOfWorker, OutOfRetries
  <2> QED BY <1>1, <1>10, <1>11, <2>1, <2>2 DEF Untouched
<1>17. \A v \in Workers : HeadPosted(v)'
  BY <1>1, <1>3 DEF WebhookInv, HeadPosted
<1>18. DeliveredOnce'
  <2> SUFFICES ASSUME NEW d \in delivered, NEW v \in Workers
               PROVE  /\ \A i \in 1..Len(batch'[v]) : batch'[v][i].event = d => i = 1 /\ failed'[v] = "no"
                      /\ \A n \in retries'[v] : n.event # d
                      /\ \A i \in 1..Len(stream') : stream'[i].event # d
    BY <1>1 DEF DeliveredOnce
  <2>1. /\ \A i \in 1..Len(batch[v]) : batch[v][i].event = d => i = 1 /\ failed[v] = "no"
        /\ \A n \in retries[v] : n.event # d
        /\ \A i \in 1..Len(stream) : stream[i].event # d
    BY DEF WebhookInv, DeliveredOnce
  <2>2. CASE v # w
    BY <1>1, <1>3, <2>1, <2>2
  <2>3. CASE v = w
    <3>1. ASSUME NEW i \in 1..(Len(batch[w]) - 1) PROVE batch'[w][i].event # d
      <4>1. i + 1 \in 1..Len(batch[w]) /\ i + 1 # 1 /\ batch'[w][i] = batch[w][i + 1]
        BY <1>2, <1>3
      <4> QED BY <2>1, <2>3, <4>1
    <3>2. failed[w] = "yes" => e # d
      BY <1>2, <2>1, <2>3
    <3> QED BY <1>1, <1>3, <2>1, <2>3, <3>1, <3>2
  <2> QED BY <2>2, <2>3
<1>19. UnpostedKept'
  BY <1>1, <1>7 DEF WebhookInv, UnpostedKept
<1>20. \A f \in Events : Placed(f)'
  BY <1>14, <1>15 DEF WebhookInv
<1> QED BY <1>8, <1>16, <1>17, <1>18, <1>19, <1>20 DEF WebhookInv

-----------------------------------------------------------------------------
\* FireRetry puts the next attempt on the stream, or drops the event.
LEMMA FireRetryKeeps == ASSUME WebhookInv, NEW w \in Workers, NEW m \in Messages, FireRetry(w, m) PROVE WebhookInv'
<1> USE WebhookAssumption
<1> DEFINE next == [m EXCEPT !.attempt = @ + 1]
<1> PICK e : e = m.event
  OBVIOUS
<1>1. /\ m \in retries[w]
      /\ retries' = [retries EXCEPT ![w] = @ \ {m}]
      /\ \/ stream' = Append(stream, next) /\ UNCHANGED dropped
         \/ dropped' = dropped \cup {e} /\ UNCHANGED stream
      /\ UNCHANGED <<pending, batch, failed, published, posted, delivered, givenUp>>
  BY DEF FireRetry
<1>2. e \in Events /\ m.attempt \in 0..RetryAttempts /\ ~OutOfRetries(w, e)
  BY <1>1 DEF Messages, OutOfRetries
<1>3. InRetries(e, w) /\ e \in published
  <2>1. InRetries(e, w)
    BY <1>2 DEF WebhookInv, Placed, Nowhere, OnStream, InBatch, InRetries, OutOfWorker
  <2>2. e \in published
    BY <1>2 DEF WebhookInv, Untouched, OutOfWorker
  <2> QED BY <2>1, <2>2
<1>4. /\ posted[e] <= m.attempt + 1 /\ m.attempt < RetryAttempts
      /\ \A n \in retries[w] : n # m => n.event # e
  BY <1>1, <1>3 DEF InRetries, MayRetry
<1>5. next \in Messages /\ next.event = e /\ next.attempt = m.attempt + 1
  BY <1>2, <1>4 DEF Messages
<1> HIDE DEF next
<1>6. stream \in Seq(Messages) /\ Len(stream) \in Nat
  BY LenProperties DEF WebhookInv, WebhookTypeOK
<1>7. stream' = Append(stream, next) =>
        /\ stream' \in Seq(Messages) /\ Len(stream') = Len(stream) + 1
        /\ \A i \in 1..Len(stream) : stream'[i] = stream[i]
        /\ stream'[Len(stream) + 1] = next
  BY <1>5, <1>6, AppendProperties
<1>8. WebhookTypeOK'
  BY <1>1, <1>3, <1>6, <1>7 DEF WebhookInv, WebhookTypeOK
<1>9. /\ retries'[w] = retries[w] \ {m}
      /\ \A v \in Workers \ {w} : retries'[v] = retries[v]
  BY <1>1 DEF WebhookInv, WebhookTypeOK
<1>10. \A v \in Workers, f \in Events :
         /\ OutOfBatch(v, f)' <=> OutOfBatch(v, f)
         /\ OutOfRetries(v, f) => OutOfRetries(v, f)'
         /\ OutOfWorker(v, f) => OutOfWorker(v, f)'
  BY <1>1, <1>9 DEF OutOfBatch, OutOfRetries, OutOfWorker
<1>11. \A f \in Events : f # e /\ OutOfStream(f) => OutOfStream(f)'
  BY <1>1, <1>5, <1>6, <1>7 DEF OutOfStream
<1>12. Placed(e)'
  <2>1. \A v \in Workers : OutOfWorker(v, e)'
    <3>1. OutOfRetries(w, e)'
      BY <1>4, <1>9 DEF OutOfRetries
    <3> QED BY <1>2, <1>3, <1>10, <3>1 DEF InRetries, OutOfWorker
  <2>2. CASE stream' = Append(stream, next)
    <3>1. \A j \in 1..Len(stream') : j # Len(stream) + 1 => stream'[j].event # e
      BY <1>3, <1>6, <1>7, <2>2 DEF InRetries, OutOfStream
    <3>2. /\ Len(stream) + 1 \in 1..Len(stream') /\ stream'[Len(stream) + 1].event = e
          /\ posted'[e] <= stream'[Len(stream) + 1].attempt
      BY <1>1, <1>4, <1>5, <1>6, <1>7, <2>2
    <3> QED BY <2>1, <3>1, <3>2 DEF OnStream, Placed
  <2>3. CASE UNCHANGED stream
    <3>1. OutOfStream(e)'
      BY <1>3, <2>3 DEF InRetries, OutOfStream
    <3>2. posted'[e] <= RetryAttempts + 1
      BY <1>1, <1>2, <1>4 DEF WebhookInv, WebhookTypeOK
    <3> QED BY <2>1, <3>1, <3>2 DEF Nowhere, Placed
  <2> QED BY <1>1, <2>2, <2>3
<1>13. ASSUME NEW f \in Events, f # e, Placed(f) PROVE Placed(f)'
  <2>1. CASE Nowhere(f)
    BY <1>1, <1>10, <1>11, <1>13, <2>1 DEF Nowhere, Placed
  <2>2. CASE OnStream(f)
    <3>1. PICK i \in 1..Len(stream) : /\ stream[i].event = f /\ posted[f] <= stream[i].attempt
                                      /\ \A j \in 1..Len(stream) : j # i => stream[j].event # f
      BY <2>2 DEF OnStream
    <3>2. i \in 1..Len(stream') /\ stream'[i] = stream[i]
      BY <1>1, <1>6, <1>7
    <3>3. ASSUME NEW j \in 1..Len(stream'), j # i PROVE stream'[j].event # f
      <4>1. CASE UNCHANGED stream
        BY <3>1, <3>3, <4>1
      <4>2. CASE stream' = Append(stream, next) /\ j = Len(stream) + 1
        BY <1>5, <1>7, <1>13, <4>2
      <4>3. CASE stream' = Append(stream, next) /\ j # Len(stream) + 1
        <5>1. j \in 1..Len(stream) /\ stream'[j] = stream[j]
          BY <1>6, <1>7, <4>3
        <5> QED BY <3>1, <3>3, <5>1
      <4> QED BY <1>1, <4>1, <4>2, <4>3
    <3>4. posted'[f] <= stream'[i].attempt /\ stream'[i].event = f
      BY <1>1, <3>1, <3>2
    <3> QED BY <1>10, <2>2, <3>2, <3>3, <3>4 DEF OnStream, Placed
  <2>3. ASSUME NEW v \in Workers, InBatch(f, v) PROVE Placed(f)'
    BY <1>1, <1>10, <1>11, <1>13, <2>3 DEF InBatch, Placed
  <2>4. ASSUME NEW v \in Workers, InRetries(f, v) PROVE Placed(f)'
    <3> PICK n \in retries[v] : /\ n.event = f /\ posted[f] <= n.attempt + 1 /\ MayRetry(n)
                                /\ \A k \in retries[v] : k # n => k.event # f
      BY <2>4 DEF InRetries
    <3>1. /\ n \in retries'[v] /\ posted'[f] <= n.attempt + 1 /\ MayRetry(n)'
          /\ \A k \in retries'[v] : k # n => k.event # f
      BY <1>1, <1>9, <1>13 DEF MayRetry
    <3> QED BY <1>10, <1>11, <1>13, <2>4, <3>1 DEF InRetries, Placed
  <2> QED BY <1>13, <2>1, <2>2, <2>3, <2>4 DEF Placed
<1>14. \A f \in Events \ published' : Untouched(f)'
  BY <1>1, <1>3, <1>10, <1>11 DEF WebhookInv, Untouched
<1>15. \A v \in Workers : HeadPosted(v)'
  BY <1>1 DEF WebhookInv, HeadPosted
<1>16. DeliveredOnce'
  <2>1. e \notin delivered
    BY <1>1 DEF WebhookInv, DeliveredOnce
  <2> QED BY <1>1, <1>5, <1>6, <1>7, <1>9, <2>1 DEF WebhookInv, DeliveredOnce
<1>17. UnpostedKept'
  BY <1>1, <1>6, <1>7 DEF WebhookInv, UnpostedKept
<1>18. \A f \in Events : Placed(f)'
  BY <1>12, <1>13 DEF WebhookInv
<1> QED BY <1>8, <1>14, <1>15, <1>16, <1>17, <1>18 DEF WebhookInv

-----------------------------------------------------------------------------
\* WorkerStops forgets what the worker held, all of it still pending.
LEMMA StopKeeps == ASSUME WebhookInv, NEW w \in Workers, WorkerStops(w) PROVE WebhookInv'
<1> USE WebhookAssumption
<1>1. /\ batch' = [batch EXCEPT ![w] = <<>>] /\ failed' = [failed EXCEPT ![w] = "none"]
      /\ retries' = [retries EXCEPT ![w] = {}] /\ dropped' = dropped \cup {m.event : m \in Held(w)}
      /\ UNCHANGED <<stream, pending, published, posted, delivered, givenUp>>
  BY DEF WorkerStops
<1>2. /\ batch'[w] = <<>> /\ Len(batch'[w]) = 0 /\ failed'[w] = "none" /\ retries'[w] = {}
      /\ \A v \in Workers \ {w} : batch'[v] = batch[v] /\ failed'[v] = failed[v] /\ retries'[v] = retries[v]
  BY <1>1, EmptySeq DEF WebhookInv, WebhookTypeOK
<1>3. batch[w] \in Seq(Messages) /\ retries[w] \subseteq Messages
  BY DEF WebhookInv, WebhookTypeOK
<1>4. \A m \in Held(w) : m.event \in published
  <2> TAKE m \in Held(w)
  <2>1. m \in Messages
    BY <1>3, ElementOfSeq DEF Held
  <2>2. m.event \in Events /\ ~OutOfWorker(w, m.event)
    BY <2>1 DEF Messages, Held, OutOfWorker, OutOfBatch, OutOfRetries
  <2> QED BY <2>2 DEF WebhookInv, Untouched
<1>5. WebhookTypeOK'
  BY <1>1, <1>4, EmptySeq DEF WebhookInv, WebhookTypeOK
<1>6. \A f \in Events : /\ OutOfStream(f)' <=> OutOfStream(f)
                        /\ OutOfWorker(w, f)'
                        /\ \A v \in Workers \ {w} : OutOfWorker(v, f)' <=> OutOfWorker(v, f)
  BY <1>1, <1>2 DEF OutOfStream, OutOfWorker, OutOfBatch, OutOfRetries
<1>7. ASSUME NEW f \in Events, Placed(f) PROVE Placed(f)'
  <2>1. CASE Nowhere(f)
    BY <1>1, <1>6, <2>1 DEF Nowhere, Placed
  <2>2. CASE OnStream(f)
    BY <1>1, <1>6, <2>2 DEF OnStream, Placed
  <2>3. CASE InBatch(f, w) \/ InRetries(f, w)
    <3>1. posted[f] <= RetryAttempts + 1
      <4>1. PICK m \in Messages : posted[f] <= m.attempt + 1
        <5>1. CASE InBatch(f, w)
          <6> PICK i \in 1..Len(batch[w]) : posted[f] <= batch[w][i].attempt \/ posted[f] <= batch[w][i].attempt + 1
            BY <5>1 DEF InBatch
          <6>1. batch[w][i] \in Messages
            BY <1>3, ElementOfSeq
          <6>2. batch[w][i].attempt \in 0..RetryAttempts /\ posted[f] \in Nat
            BY <6>1 DEF Messages, WebhookInv, WebhookTypeOK
          <6>3. posted[f] <= batch[w][i].attempt + 1
            BY <6>2
          <6> QED BY <6>1, <6>3
        <5>2. CASE InRetries(f, w)
          BY <1>3, <5>2 DEF InRetries
        <5> QED BY <2>3, <5>1, <5>2
      <4>2. m.attempt \in 0..RetryAttempts /\ posted[f] \in Nat
        BY DEF Messages, WebhookInv, WebhookTypeOK
      <4> QED BY <4>1, <4>2
    <3>2. OutOfStream(f) /\ \A v \in Workers \ {w} : OutOfWorker(v, f)
      BY <2>3 DEF InBatch, InRetries
    <3>3. OutOfStream(f)' /\ \A v \in Workers : OutOfWorker(v, f)'
      BY <1>6, <3>2
    <3> QED BY <1>1, <3>1, <3>3 DEF Nowhere, Placed
  <2>4. ASSUME NEW v \in Workers \ {w}, InBatch(f, v) \/ InRetries(f, v) PROVE Placed(f)'
    <3>1. \A u \in Workers \ {v} : OutOfWorker(u, f)'
      BY <1>6, <2>4 DEF InBatch, InRetries
    <3>2. batch'[v] = batch[v] /\ failed'[v] = failed[v] /\ retries'[v] = retries[v]
      BY <1>2
    <3> QED BY <1>1, <1>6, <2>4, <3>1, <3>2 DEF InBatch, InRetries, OutOfBatch, OutOfRetries, MayRetry, Placed
  <2> QED BY <1>7, <2>1, <2>2, <2>3, <2>4 DEF Placed
<1>8. \A f \in Events \ published' : Untouched(f)'
  BY <1>1, <1>6 DEF WebhookInv, Untouched
<1>9. \A v \in Workers : HeadPosted(v)'
  BY <1>1, <1>2 DEF WebhookInv, HeadPosted
<1>10. DeliveredOnce'
  BY <1>1, <1>2 DEF WebhookInv, DeliveredOnce
<1>11. UnpostedKept'
  BY <1>1 DEF WebhookInv, UnpostedKept
<1> QED BY <1>5, <1>7, <1>8, <1>9, <1>10, <1>11 DEF WebhookInv
-----------------------------------------------------------------------------
LEMMA WebhookInductive == WebhookInv /\ [WebhookNext]_webhookVars => WebhookInv'
<1> SUFFICES ASSUME WebhookInv, [WebhookNext]_webhookVars PROVE WebhookInv'
  OBVIOUS
<1>1. ASSUME NEW e \in Events, Publish(e) PROVE WebhookInv'
  BY <1>1, PublishKeeps
<1>2. ASSUME NEW w \in Workers, WorkerStep(w) PROVE WebhookInv'
  <2>1. CASE Read(w)
    BY <2>1, ReadKeeps
  <2>2. CASE Deliver(w)
    BY <2>2, DeliverKeeps
  <2>3. CASE Finish(w)
    BY <2>3, FinishKeeps
  <2>4. ASSUME NEW m \in Messages, FireRetry(w, m) PROVE WebhookInv'
    BY <2>4, FireRetryKeeps
  <2> QED BY <1>2, <2>1, <2>2, <2>3, <2>4 DEF WorkerStep
<1>3. ASSUME NEW w \in Workers, WorkerStops(w) PROVE WebhookInv'
  BY <1>3, StopKeeps
<1>4. CASE UNCHANGED webhookVars
  <2>1. WebhookTypeOK'
    BY <1>4 DEF WebhookInv, WebhookTypeOK, webhookVars
  <2>2. \A e \in Events : Placed(e)'
    BY <1>4 DEF WebhookInv, webhookVars, Placed, Nowhere, OnStream, InBatch, InRetries, MayRetry,
                OutOfStream, OutOfWorker, OutOfBatch, OutOfRetries
  <2>3. \A e \in Events \ published' : Untouched(e)'
    BY <1>4 DEF WebhookInv, webhookVars, Untouched, OutOfStream, OutOfWorker, OutOfBatch, OutOfRetries
  <2>4. \A w \in Workers : HeadPosted(w)'
    BY <1>4 DEF WebhookInv, webhookVars, HeadPosted
  <2>5. DeliveredOnce' /\ UnpostedKept'
    BY <1>4 DEF WebhookInv, webhookVars, DeliveredOnce, UnpostedKept
  <2> QED BY <2>1, <2>2, <2>3, <2>4, <2>5 DEF WebhookInv
<1> QED BY <1>1, <1>2, <1>3, <1>4 DEF WebhookNext

\* The one message of every event is in the state its attempt number says,
\* whichever workers read, deliver, retry, stop or fail to acknowledge.
THEOREM WebhookInvariant == WebhookSpec => []WebhookInv
<1>1. WebhookInit => WebhookInv
  BY WebhookInitial
<1>2. WebhookInv /\ [WebhookNext]_webhookVars => WebhookInv'
  BY WebhookInductive
<1> QED BY <1>1, <1>2, PTL DEF WebhookSpec

\* Type correctness: no event is delivered, given up or dropped that was not
\* published, and attempt numbers stay within the retries configured.
THEOREM WebhookTypeCorrect == WebhookSpec => []WebhookTypeOK
<1>1. WebhookInv => WebhookTypeOK
  BY DEF WebhookInv
<1> QED BY <1>1, WebhookInvariant, PTL

\* No event is POSTed more than RetryAttempts + 1 times, by however many
\* workers and through all their faults.
THEOREM AttemptsAlwaysBounded == WebhookSpec => []AttemptsBounded
<1>1. WebhookInv => AttemptsBounded
  <2> USE WebhookAssumption
  <2> SUFFICES ASSUME WebhookInv, NEW e \in Events PROVE posted[e] <= RetryAttempts + 1
    BY DEF AttemptsBounded
  <2>1. posted[e] \in Nat /\ stream \in Seq(Messages)
    BY DEF WebhookInv, WebhookTypeOK
  <2>2. ASSUME NEW m \in Messages, posted[e] <= m.attempt \/ posted[e] <= m.attempt + 1
        PROVE posted[e] <= RetryAttempts + 1
    <3>1. m.attempt \in 0..RetryAttempts
      BY DEF Messages
    <3> QED BY <2>1, <2>2, <3>1
  <2>3. CASE OnStream(e)
    <3>1. PICK i \in 1..Len(stream) : posted[e] <= stream[i].attempt
      BY <2>3 DEF OnStream
    <3> QED BY <2>1, <2>2, <3>1, ElementOfSeq
  <2>4. ASSUME NEW w \in Workers, InBatch(e, w) PROVE posted[e] <= RetryAttempts + 1
    <3>1. PICK i \in 1..Len(batch[w]) : posted[e] <= batch[w][i].attempt \/ posted[e] <= batch[w][i].attempt + 1
      BY <2>4 DEF InBatch
    <3>2. batch[w][i] \in Messages
      BY ElementOfSeq DEF WebhookInv, WebhookTypeOK
    <3> QED BY <2>2, <3>1, <3>2
  <2>5. ASSUME NEW w \in Workers, InRetries(e, w) PROVE posted[e] <= RetryAttempts + 1
    <3>1. PICK m \in retries[w] : posted[e] <= m.attempt + 1
      BY <2>5 DEF InRetries
    <3>2. m \in Messages
      BY <3>1 DEF WebhookInv, WebhookTypeOK
    <3> QED BY <2>2, <3>1, <3>2
  <2> QED BY <2>3, <2>4, <2>5 DEF WebhookInv, Placed, Nowhere
<1> QED BY <1>1, WebhookInvariant, PTL

\* An event whose POST was answered with 2xx is on no stream, in no retry and
\* in no batch but at its head, waiting to be acknowledged.
THEOREM DeliveredOnlyOnce == WebhookSpec => []DeliveredOnce
<1>1. WebhookInv => DeliveredOnce
  BY DEF WebhookInv
<1> QED BY <1>1, WebhookInvariant, PTL

\* What nobody has POSTed yet is still on the stream or in the pending list.
THEOREM UnpostedAlwaysKept == WebhookSpec => []UnpostedKept
<1>1. WebhookInv => UnpostedKept
  BY DEF WebhookInv
<1> QED BY <1>1, WebhookInvariant, PTL
=============================================================================
