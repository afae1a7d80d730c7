SPECIFICATION StreamSpec
CONSTANTS
  Absent = Absent
  Text = Text
  e1 = e1
  e2 = e2
  x1 = x1
  Servers = {s1}
  Fanout = FALSE
  MaxEvents = 2
  MaxPerIp = 2
  Clients = {e1, e2}
  TraceIds = {x1}
  Follows <- MCFollows
  MaxMade = 4
  MaxStored = 4
  MaxHalfOpen = 1
  MaxRestarts = 1
INVARIANTS
  ToldToResync
CHECK_DEADLOCK FALSE
