\* Two events, two workers that may stop, batches of two, three retries; Redis may
\* fail; fairness.
SPECIFICATION WebhookLiveSpec
CONSTANTS
  Events = {e1, e2}
  Workers = {w1, w2}
  BatchSize = 2
  RetryAttempts = 3
  WebhookFaults = {"worker_stops", "redis_fails"}
INVARIANTS WebhookTypeOK AttemptsBounded DeliveredOnce UnpostedKept
PROPERTIES EventSettles
CHECK_DEADLOCK FALSE
