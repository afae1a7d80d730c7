CONSTANTS
  Runtimes = {r1, r2}
  UriOf <- MCUriOf
  CapabilitiesOf <- MCCapabilitiesOf
  AutoHandle = {r1, r2}
  TaskCalls <- MCTaskCalls
  Agents <- MCAgents
  RegistryUri = 2
  Capabilities = {c1, c2}
  Traces = {t1}
  r1 = r1
  r2 = r2
  c1 = c1
  c2 = c2
  t1 = t1
  MaxSends = 4
  MaxWaits = 0
  MaxBoxes = 1
  TraceLimit = 4
  RoutingMode = "first"
  None = None
SPECIFICATION FairSpec
INVARIANTS
  NoCircularWait
PROPERTIES
  AnswerSettles
  CallsEnd
CHECK_DEADLOCK FALSE
