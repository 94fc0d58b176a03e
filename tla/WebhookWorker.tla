--------------------------- MODULE WebhookWorker ---------------------------
(***************************************************************************)
(* Webhook delivery (pkg/webhooks): events put on a Redis stream, and      *)
(* workers of one consumer group that read them in batches, POST them,     *)
(* put a failed one back on the stream after a delay and acknowledge what  *)
(* they read.  A message is an event and its attempt number.               *)
(*                                                                         *)
(* What a worker has read and not acknowledged stays in the group's        *)
(* pending list under the worker's name; a worker that starts again takes  *)
(* a new name and reads new messages only.                                 *)
(***************************************************************************)
EXTENDS Sequences, Naturals, FiniteSets

CONSTANTS Events,         \* events published
          Workers,
          BatchSize,      \* WebhookBatchSize
          RetryAttempts,  \* WebhookRetryAttempts
          WebhookFaults   \* "worker_stops", "redis_fails"

ASSUME WebhookAssumption == BatchSize \in Nat \ {0} /\ RetryAttempts \in Nat

Messages == [event : Events, attempt : 0..RetryAttempts]

VARIABLES
  stream,     \* messages the group has not handed out, oldest first
  pending,    \* messages handed out and not acknowledged
  batch,      \* batch[w]: the messages worker w still has to process
  failed,     \* failed[w]: whether the POST of the head of batch[w] failed,
              \* "none" before it is made
  retries,    \* retries[w]: messages whose retry goroutine waits in w
  published,  \* events given to Producer.Publish
  posted,     \* posted[e]: POSTs of event e that were made
  delivered,  \* events whose POST was answered with 2xx
  givenUp,    \* events whose last attempt failed
  dropped     \* events whose last message was dropped: its worker stopped
              \* while holding it, or putting its retry on the stream failed

webhookVars == <<stream, pending, batch, failed, retries, published, posted, delivered, givenUp, dropped>>

WebhookTypeOK ==
  /\ stream \in Seq(Messages) /\ pending \subseteq Messages
  /\ batch \in [Workers -> Seq(Messages)]
  /\ failed \in [Workers -> {"none", "yes", "no"}]
  /\ retries \in [Workers -> SUBSET Messages]
  /\ published \subseteq Events /\ delivered \subseteq published
  /\ givenUp \subseteq published /\ dropped \subseteq published
  /\ posted \in [Events -> Nat]

WebhookInit ==
  /\ stream = <<>> /\ pending = {}
  /\ batch = [w \in Workers |-> <<>>] /\ failed = [w \in Workers |-> "none"]
  /\ retries = [w \in Workers |-> {}]
  /\ published = {} /\ delivered = {} /\ givenUp = {} /\ dropped = {}
  /\ posted = [e \in Events |-> 0]

-----------------------------------------------------------------------------
\* Producer.Publish.
Publish(e) ==
  /\ e \notin published
  /\ published' = published \cup {e}
  /\ stream' = Append(stream, [event |-> e, attempt |-> 0])
  /\ UNCHANGED <<pending, batch, failed, retries, posted, delivered, givenUp, dropped>>

ReadSize == IF Len(stream) < BatchSize THEN Len(stream) ELSE BatchSize

\* Mutant: messages are acknowledged as they are read.
ReadAcknowledged(w) ==
  /\ batch[w] = <<>> /\ stream # <<>>
  /\ batch' = [batch EXCEPT ![w] = SubSeq(stream, 1, ReadSize)]
  /\ stream' = SubSeq(stream, ReadSize + 1, Len(stream))
  /\ UNCHANGED <<pending, failed, retries, published, posted, delivered, givenUp, dropped>>

\* XREADGROUP of new messages, when the last batch is done.
Read(w) ==
  /\ batch[w] = <<>> /\ stream # <<>>
  /\ batch' = [batch EXCEPT ![w] = SubSeq(stream, 1, ReadSize)]
  /\ stream' = SubSeq(stream, ReadSize + 1, Len(stream))
  /\ pending' = pending \cup {stream[i] : i \in 1..ReadSize}
  /\ UNCHANGED <<failed, retries, published, posted, delivered, givenUp, dropped>>

\* deliver: the POST is answered with 2xx, or not - in time, or at all.
Deliver(w) == LET e == Head(batch[w]).event IN
  /\ batch[w] # <<>> /\ failed[w] = "none"
  /\ posted' = [posted EXCEPT ![e] = @ + 1]
  /\ \/ /\ failed' = [failed EXCEPT ![w] = "no"]
        /\ delivered' = delivered \cup {e}
     \/ /\ failed' = [failed EXCEPT ![w] = "yes"]
        /\ UNCHANGED delivered
  /\ UNCHANGED <<stream, pending, batch, retries, published, givenUp, dropped>>

\* Mutant: one attempt more.
RetryOnceMore(m) == m.attempt <= RetryAttempts

MayRetry(m) == m.attempt < RetryAttempts

\* Mutants: no retry at all, and one whatever the answer was.
AckOnly(w) == LET m == Head(batch[w]) IN
  /\ batch[w] # <<>> /\ failed[w] # "none"
  /\ batch' = [batch EXCEPT ![w] = Tail(@)]
  /\ failed' = [failed EXCEPT ![w] = "none"]
  /\ givenUp' = IF failed[w] = "yes" /\ ~MayRetry(m) THEN givenUp \cup {m.event} ELSE givenUp
  /\ pending' = pending \ {m}
  /\ UNCHANGED <<stream, retries, published, posted, delivered, dropped>>

RetryAnyway(w) == LET m == Head(batch[w]) IN
  /\ batch[w] # <<>> /\ failed[w] # "none"
  /\ batch' = [batch EXCEPT ![w] = Tail(@)]
  /\ failed' = [failed EXCEPT ![w] = "none"]
  /\ retries' = IF MayRetry(m) THEN [retries EXCEPT ![w] = @ \cup {m}] ELSE retries
  /\ givenUp' = IF MayRetry(m) THEN givenUp ELSE givenUp \cup {m.event}
  /\ pending' = pending \ {m}
  /\ UNCHANGED <<stream, published, posted, delivered, dropped>>

\* A failed message waits for its retry in a goroutine, or is given up; then
\* the message is acknowledged in any case (an XACK that fails is logged).
Finish(w) == LET m == Head(batch[w]) IN
  /\ batch[w] # <<>> /\ failed[w] # "none"
  /\ batch' = [batch EXCEPT ![w] = Tail(@)]
  /\ failed' = [failed EXCEPT ![w] = "none"]
  /\ retries' = IF failed[w] = "yes" /\ MayRetry(m) THEN [retries EXCEPT ![w] = @ \cup {m}] ELSE retries
  /\ givenUp' = IF failed[w] = "yes" /\ ~MayRetry(m) THEN givenUp \cup {m.event} ELSE givenUp
  /\ \/ pending' = pending \ {m}
     \/ "redis_fails" \in WebhookFaults /\ pending' = pending
  /\ UNCHANGED <<stream, published, posted, delivered, dropped>>

\* Mutant: the worker and PublishRetry both count the attempt.
FireRetryTwo(w, m) ==
  /\ m \in retries[w]
  /\ retries' = [retries EXCEPT ![w] = @ \ {m}]
  /\ \/ /\ stream' = Append(stream, [m EXCEPT !.attempt = @ + 2])
        /\ UNCHANGED dropped
     \/ /\ "redis_fails" \in WebhookFaults
        /\ dropped' = dropped \cup {m.event}
        /\ UNCHANGED stream
  /\ UNCHANGED <<pending, batch, failed, published, posted, delivered, givenUp>>

\* The delay is over: PublishRetry adds the event again, one attempt on.
FireRetry(w, m) ==
  /\ m \in retries[w]
  /\ retries' = [retries EXCEPT ![w] = @ \ {m}]
  /\ \/ /\ stream' = Append(stream, [m EXCEPT !.attempt = @ + 1])
        /\ UNCHANGED dropped
     \/ /\ "redis_fails" \in WebhookFaults
        /\ dropped' = dropped \cup {m.event}
        /\ UNCHANGED stream
  /\ UNCHANGED <<pending, batch, failed, published, posted, delivered, givenUp>>

\* The messages in the memory of a worker.
Held(w) == {batch[w][i] : i \in 1..Len(batch[w])} \cup retries[w]

\* The worker stops; what it held in memory is gone.
WorkerStops(w) ==
  /\ "worker_stops" \in WebhookFaults
  /\ Held(w) # {}
  /\ dropped' = dropped \cup {m.event : m \in Held(w)}
  /\ batch' = [batch EXCEPT ![w] = <<>>]
  /\ failed' = [failed EXCEPT ![w] = "none"]
  /\ retries' = [retries EXCEPT ![w] = {}]
  /\ UNCHANGED <<stream, pending, published, posted, delivered, givenUp>>

WorkerStep(w) == Read(w) \/ Deliver(w) \/ Finish(w) \/ \E m \in Messages : FireRetry(w, m)

WebhookNext == \/ \E e \in Events : Publish(e)
               \/ \E w \in Workers : WorkerStep(w) \/ WorkerStops(w)

WebhookSpec == WebhookInit /\ [][WebhookNext]_webhookVars

\* A worker's loop runs on and the timers of its retries fire.
WebhookFairness == \A w \in Workers :
  /\ WF_webhookVars(Read(w) \/ Deliver(w) \/ Finish(w))
  /\ \A m \in Messages : WF_webhookVars(FireRetry(w, m))

WebhookLiveSpec == WebhookSpec /\ WebhookFairness

-----------------------------------------------------------------------------
\* An endpoint gets an event at most once more than the retries configured,
\* through crashes and failing acknowledgements too.
AttemptsBounded == \A e \in Events : posted[e] <= RetryAttempts + 1

\* No endpoint gets an event again that it has answered with 2xx.
DeliveredOnce == \A e \in delivered : \A w \in Workers :
  /\ \A i \in 1..Len(batch[w]) :
       batch[w][i].event = e => i = 1 /\ failed[w] = "no"
  /\ \A m \in retries[w] : m.event # e
  /\ \A i \in 1..Len(stream) : stream[i].event # e

\* Every published event is delivered in the end, or given up after its last
\* attempt.  Two things only end it early: a worker stops while it holds the
\* event, or the command that puts its retry on the stream fails.
EventSettles == \A e \in Events :
  e \in published ~> e \in delivered \cup givenUp \cup dropped

\* An event no worker has POSTed yet is with the group, unread or pending:
\* no crash and no failing command of Redis loses it before its first attempt.
UnpostedKept == \A e \in published : posted[e] = 0 =>
  \/ \E i \in 1..Len(stream) : stream[i].event = e
  \/ \E m \in pending : m.event = e
=============================================================================
