\* Two clients of a user each, two events in channels of one, two
\* subscriptions; slow consumers are disconnected; fairness.
SPECIFICATION FanoutLiveSpec
CONSTANTS
  c1 = c1
  c2 = c2
  a = a
  b = b
  Clients = {c1, c2}
  Users = {a, b}
  Owner <- OneEach
  MaxFriends = 1
  EventBuffer = 1
  SendBuffer = 1
  DisconnectSlow = TRUE
  MaxEvents = 2
  MaxSubs = 2
INVARIANTS FanoutTypeOK AtMostOnce OpenMissesNothing
PROPERTIES WantedArrives
CHECK_DEADLOCK FALSE
