\* Two tabs of a user, one of them typed, a debouncer and a sweeper.
SPECIFICATION Spec
CONSTANTS
  a = a
  b = b
  a1 = a1
  a2 = a2
  b1 = b1
  Users = {a}
  Sessions = {a1, a2}
  UserOf <- TwoOf
  SessionTTL = 1
  MaxVersion = 0
  Faults = {"sweeper_stops"}
  Invisible = {}
  Typed = {a1}
  Debouncers = {d1}
  FlappingThreshold = 0
  MaxConns = 1
  MaxStates = 0
  Sweepers = {w1}
  ScanCount = 1
  Apis = {}
  Callers = {d1}
INVARIANTS LiveSessionIndexed ViewNeverAhead
CHECK_DEADLOCK FALSE
