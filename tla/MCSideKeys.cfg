\* Two tabs with devices, one invisible, and a state change; the one worker of a
\* deployment, which does not stop; everything else may fail.
SPECIFICATION Spec
CONSTANTS
  a = a
  b = b
  a1 = a1
  a2 = a2
  b1 = b1
  Users = {a}
  Sessions = {a1, a2}
  UserOf <- TwoOf
  SessionTTL = 1
  MaxVersion = 0
  Faults = {"gateway_stops", "job_expires", "lost_event"}
  Invisible = {a2}
  Typed = {a1, a2}
  Debouncers = {d1}
  FlappingThreshold = 0
  MaxConns = 1
  MaxStates = 1
  Sweepers = {}
  ScanCount = 1
  Apis = {}
  Callers = {d1}
INVARIANTS OfflineForgotten
CHECK_DEADLOCK FALSE
