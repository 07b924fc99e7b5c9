SPECIFICATION FairSpec
CONSTANTS
  Calls = {c1, c2}
  Users = {u1}
  Keys = {k1, k2}
  Workers = {w1, w2}
  None = None
  Limit = 2
  MaxRetry = 1
  Scarce = {c1}
  FaultBudget <- Retryable
CHECK_DEADLOCK FALSE
INVARIANTS
  FailedReturnsUnit
  OneChargePerKey
  RefusedLeavesNoJob
  StatusTellsScore
PROPERTIES
  EveryJobSettles
