CONSTANTS
  Runtimes = {r1, r2, r3}
  UriOf <- MCUriOf
  CapabilitiesOf <- MCCapabilitiesOf
  AutoHandle = {r3}
  TaskCalls <- MCTaskCalls
  Agents <- MCAgents
  RegistryUri = 2
  Capabilities = {c1}
  Traces = {t1}
  r1 = r1
  r2 = r2
  r3 = r3
  c1 = c1
  t1 = t1
  MaxSends = 3
  MaxWaits = 1
  MaxBoxes = 2
  TraceLimit = 3
  RoutingMode = "first"
  None = None
SPECIFICATION Spec
PROPERTY AnswerAlwaysSettles
SYMMETRY MCSymmetry
CHECK_DEADLOCK FALSE
