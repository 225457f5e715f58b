CONSTANTS
  Run = {1}
  Steps = 2
  Policy <- BatchPolicy
  Workflow <- OneWorkflow
  Direct = {}
  Filters = {"research"}
  Limit = 2
  Reserve = 1
  MaxUsage = 2
  WallClock = 2
  LeaseTime = 1
  MaxDelay = 0
  MaxAttempts = 4
  MaxTime = 2
  Worker = {w1, w2}
  MaxCrashes = 1
  MaxRetries = 1
SPECIFICATION WorkerSpec
INVARIANTS
  WorkersInOrder
  BatchesDecided
PROPERTIES
  FencedWorkerHarmless
CHECK_DEADLOCK FALSE
