SPECIFICATION GraphsSpec
CONSTANTS
  Inputs <- MCInputs
  Traces <- MCTraces
  None = None
  a = a
  b = b
  c = c
  MemoryLimit = 3
  MaxRecords = 3
  MaxDepth = 5
  Undefined = Undefined
  ReplyTo <- MCReplyTo
  Exported <- MCExported
  TraceLimit = 3
  MaxSends = 3
  MaxStarts = 2
  Uris = {1, 2, 3}
  Skills = {p, q}
  p = p
  q = q
  Workers <- MCWorkers
  Identities <- MCIdentities
  MaxFound = 2
  MaxHydrations = 3
  Histories = {h1, h2}
  PageSize = 1
  MaxEntries = 3
  MaxTime = 1
  t1 = t1
  t2 = t2
  TraceNames = {t1, t2}
  AgentNames = {a}
  Links <- MCLinks
  Limits = {1, 2}
  Unset = Unset
  MaxInputs = 3
  MaxHappenings = 2
INVARIANTS
  HydrationCompletes
CHECK_DEADLOCK FALSE
