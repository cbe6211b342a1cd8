SPECIFICATION Spec
CONSTANTS
  Runners = {r1, r2, page}
  Live = {r1, r2}
  Keys = {k1}
  MaxRetries = 2
  Schemas = {FALSE, TRUE}
  LossySend = TRUE
  MaxCrashes = 1
  MaxJobs = 3
  r1 = r1
  r2 = r2
  r3 = r3
  page = page
INVARIANTS
  TypeOK
  JobsOK
  SuppressionJustified
  FailedAfterRetries
  OneSentPerRunner
  SentIsDelivered
SYMMETRY LiveSymmetry
CHECK_DEADLOCK FALSE
