\* Two connections of a user in one scope, channels of one; slow consumers and
\* a shutdown; fairness.
SPECIFICATION HubLiveSpec
CONSTANTS
  c1 = c1
  c2 = c2
  c3 = c3
  a = a
  b = b
  s1 = s1
  s2 = s2
  Clients = {c1, c2}
  Scopes = {s1, s2}
  Owner <- TwoAndOne
  ScopeOf <- OneScope
  MaxPerUser = 2
  QueueSize = 1
  HubFaults = {"slow_consumer", "shutdown"}
INVARIANTS HubTypeOK OpenIsTracked SubscribedIffConnected
PROPERTIES EndedSchedules
CHECK_DEADLOCK FALSE
