CONSTANTS
  Run = {1}
  Steps = 3
  Policy <- PaperPolicy
  Workflow <- PaperOnly
  Direct = {}
  Filters = {"paper"}
  Limit = 2
  Reserve = 1
  MaxUsage = 2
  WallClock = 2
  LeaseTime = 1
  MaxDelay = 0
  MaxAttempts = 2
  MaxTime = 1
  Question = {q1, q2}
  Passage = {p1, p2}
  Finding = {f1, f2}
  MaxQuestions = 2
  MaxQueries = 1
  MaxEvidence = 1
  MaxClaims = 1
  MaxBatchTries = 2
  MaxMishaps = 1
  MayOverlap = FALSE
SPECIFICATION PartSpec
INVARIANTS
  BudgetHeld
  OnlyAcceptedClaimsDelivered
  SoleAttemptCitesItsEvidence
PROPERTIES
  StepLifeHolds
CHECK_DEADLOCK FALSE
