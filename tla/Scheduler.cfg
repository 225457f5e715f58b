CONSTANTS
  Node = {1, 2, 3}
  Plans <- ThreePlans
  MaxExecutions = 2
  Impatient = FALSE
  MaxCalls = 3
SPECIFICATION SchedulerSpec
INVARIANTS
  RunsOnUpstreamResults
  GateHolds
  StartsExplained
  NothingLeftBehind
PROPERTIES
  CompletedIsSettled
  ExecutionEnds
CHECK_DEADLOCK FALSE
