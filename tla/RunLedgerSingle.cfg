CONSTANTS
  Run = {1}
  Steps = 2
  Policy <- ResearchPolicy
  Workflow <- Workflows
  Direct = {}
  Filters = {"research"}
  Limit = 1
  Reserve = 1
  MaxUsage = 2
  WallClock = 1
  LeaseTime = 1
  MaxDelay = 1
  MaxAttempts = 3
  MaxTime = 2
SPECIFICATION Spec
INVARIANTS
  InFlightAgreement
  PaidCallNotReplayed
  WaitingRunIsResumable
  DeliveredIsComplete
  QuietWhenOver
PROPERTIES
  TerminalIsFinal
  NoCallAfterCancel
CHECK_DEADLOCK FALSE
