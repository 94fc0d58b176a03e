\* Two tabs of a user, a debouncer and a request of the
\* API that disconnects the user.
SPECIFICATION Spec
CONSTANTS
  a = a
  b = b
  a1 = a1
  a2 = a2
  b1 = b1
  Users = {a}
  Sessions = {a1, a2}
  UserOf <- TwoOf
  SessionTTL = 1
  MaxVersion = 0
  Faults = {"api_stops"}
  Invisible = {}
  Typed = {}
  Debouncers = {d1}
  FlappingThreshold = 0
  MaxConns = 1
  MaxStates = 0
  Sweepers = {}
  ScanCount = 1
  Apis = {r1}
  Callers = {d1, r1}
INVARIANTS LiveSessionIndexed ViewNeverAhead
CHECK_DEADLOCK FALSE
