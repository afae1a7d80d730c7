SPECIFICATION StreamSpec
CONSTANTS
  Absent = Absent
  Text = Text
  e1 = e1
  e2 = e2
  x1 = x1
  Servers = {s1, s2}
  Fanout = TRUE
  MaxEvents = 2
  MaxPerIp = 2
  Clients = {e2}
  TraceIds = {x1}
  Follows <- MCFollows
  MaxMade = 3
  MaxStored = 3
  MaxHalfOpen = 1
  MaxRestarts = 1
SYMMETRY Processes
INVARIANTS
  EventsExact
  SlotsKept
CHECK_DEADLOCK FALSE
