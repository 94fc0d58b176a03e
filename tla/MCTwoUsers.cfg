\* Two users with a session each, one user per SSCAN: the sweeper pauses in the
\* middle of a scan and resumes at the stored cursor; fairness.
SPECIFICATION LiveSpec
CONSTANTS
  a = a
  b = b
  a1 = a1
  a2 = a2
  b1 = b1
  Users = {a, b}
  Sessions = {a1, b1}
  UserOf <- OneEach
  SessionTTL = 1
  MaxVersion = 0
  Faults = {"gateway_stops"}
  Invisible = {}
  Typed = {}
  Debouncers = {}
  FlappingThreshold = 0
  MaxConns = 1
  MaxStates = 0
  Sweepers = {w1}
  ScanCount = 1
  Apis = {}
  Callers = {}
PROPERTIES ZombieSwept
CHECK_DEADLOCK FALSE
