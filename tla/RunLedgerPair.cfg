CONSTANTS
  Run = {1, 2}
  Steps = 1
  Policy <- PairPolicy
  Workflow <- Workflows
  Direct = {2}
  Filters = {"research", "paper", "any"}
  Limit = 1
  Reserve = 1
  MaxUsage = 0
  WallClock = 2
  LeaseTime = 1
  MaxDelay = 0
  MaxAttempts = 1
  MaxTime = 2
SPECIFICATION Spec
INVARIANTS
  LiveLeaseHoldsNewestToken
CHECK_DEADLOCK FALSE
