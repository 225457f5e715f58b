CONSTANTS
  Question = {q1, q2}
  Passage = {p1, p2}
  Finding = {f1, f2}
  MaxQuestions = 2
  MaxQueries = 1
  MaxEvidence = 1
  MaxClaims = 1
  MaxBatchTries = 2
  MaxMishaps = 1
  MayOverlap = FALSE
SPECIFICATION ResearchSpec
INVARIANT SubquestionsVerifiedIndependently
CHECK_DEADLOCK FALSE
