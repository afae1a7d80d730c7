SPECIFICATION CallsSpec
CONSTANTS
  None = None
  Runs = {r1}
  Workflows = {w1}
  ValidPlans <- MCPlans
  BatchesOf <- MCBatchesOf
  p = p
  q = q
  Calls = {p, q}
  Attempts <- MCAttempts
  RetriesHttp = {p}
  Pipelines = {p}
  MaxLength = 3
  NotYet = NotYet
  NoMessage = NoMessage
  MaxPolls <- MCMaxPolls
  t1 = t1
  t2 = t2
  m1 = m1
  m2 = m2
  m3 = m3
  TraceOf <- MCTraceOf
  Begun <- MCBegun
  Responses = {m2}
  Undefined = Undefined
  MaxNotices = 1
  MaxClicks = 2
  MaxFaults = 1
INVARIANT FeedOfSelectedTrace
CHECK_DEADLOCK FALSE
