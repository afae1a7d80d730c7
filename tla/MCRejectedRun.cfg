SPECIFICATION FairSpec
CONSTANTS
  None = None
  Runs = {r1}
  Workflows = {w1}
  ValidPlans <- MCPlans
  BatchesOf <- MCBatchesOf

PROPERTY
  StoredRunsEnd
CHECK_DEADLOCK FALSE
