\* Two tabs of a user, two debouncer workers that detect flapping at the second
\* transition, nothing fails; fairness.
SPECIFICATION LiveSpec
CONSTANTS
  a = a
  b = b
  a1 = a1
  a2 = a2
  b1 = b1
  Users = {a}
  Sessions = {a1, a2}
  UserOf <- TwoOf
  SessionTTL = 1
  MaxVersion = 0
  Faults = {}
  Invisible = {}
  Typed = {}
  Debouncers = {d1, d2}
  FlappingThreshold = 2
  MaxConns = 1
  MaxStates = 0
  Sweepers = {}
  ScanCount = 1
  Apis = {}
  Callers = {d1, d2}
INVARIANTS TypeOK NewestViewExact ConnectedIsOnline SettledViewOrFlapping SettledOnlineExact
PROPERTIES VersionOrdersStatus AbsSpec ClosedSessionRemoved
CHECK_DEADLOCK FALSE
