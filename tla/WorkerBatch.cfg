CONSTANTS
  Run = {1}
  Steps = 2
  Policy <- BatchPolicy
  Workflow <- OneWorkflow
  Direct = {}
  Filters = {"research"}
  Limit = 2
  Reserve = 1
  MaxUsage = 1
  WallClock = 1
  LeaseTime = 1
  MaxDelay = 0
  MaxAttempts = 2
  MaxTime = 1
  Worker = {w1}
  MaxCrashes = 0
  MaxRetries = 0
SPECIFICATION WorkerSpec
INVARIANTS
  OneBatchPerAuthorization
CHECK_DEADLOCK FALSE
