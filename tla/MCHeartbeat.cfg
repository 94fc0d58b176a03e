\* The durations of the production configuration in seconds (pkg/config/base.go
\* and prod.go) and the longest delays they fit: clients that heartbeat every 4
\* to 18 s, so that the rate limit of 5 s rejects some, and one heartbeat in a
\* row that Redis refuses; fairness.
SPECIFICATION BeatLiveSpec
CONSTANTS
  SessionTTL = 45
  RateLimit = 5
  MinGap = 4
  MaxGap = 18
  PingPeriod = 54
  PongWait = 60
  Delay = 2
  RoundTrip = 5
  MaxLost = 1
INVARIANTS BeatTypeOK SessionKept ConnectionKept
PROPERTIES DeadNoticed EndedNoticed
CHECK_DEADLOCK FALSE
