SPECIFICATION SendsSpec
CONSTANTS
  Agents <- MCAgents
  RegistryUri = 2
  Capabilities = {c1}
  Handlers = {h1}
  Traces = {t1}
  Inputs <- MCInputs
  RegisterCalls <- MCRegisterCalls
  c1 = c1
  h1 = h1
  t1 = t1
  MaxSends = 2
  MaxWaits = 1
  MaxBoxes = 2
  TraceLimit = 1
  RoutingMode = "all"
  None = None
  Undefined = Undefined
  AgentCount = 3
  Mailbox = {3}
  Offers = {"premium", "standard"}
  OfferedBy <- MCOfferedBy
  TaskErrors = {"E1"}
  Asked <- MCAsked
INVARIANTS
  IndexMatchesAgents
  MailboxExact
  AtMostOnce
  TraceKeepsNewest
  AuditTrue
  AttemptsBounded
  NoneLeftOut
PROPERTIES
  WaiterSettles
  SendEnds
CHECK_DEADLOCK FALSE
