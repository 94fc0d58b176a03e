\* A session opens between the SCARD and the SREM of a sweep.
SPECIFICATION Spec
CONSTANTS
  a = a
  b = b
  a1 = a1
  a2 = a2
  b1 = b1
  Users = {a}
  Sessions = {a1, a2}
  UserOf <- TwoOf
  SessionTTL = 1
  MaxVersion = 0
  Faults = {"gateway_stops"}
  Invisible = {}
  Typed = {}
  Debouncers = {}
  FlappingThreshold = 0
  MaxConns = 1
  MaxStates = 0
  Sweepers = {w1}
  ScanCount = 1
  Apis = {}
  Callers = {}
INVARIANTS SessionsMeanOnline
CHECK_DEADLOCK FALSE
