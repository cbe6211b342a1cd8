SPECIFICATION Spec
CONSTANTS
  Runners = {r1, r2}
  Live = {r1, r2}
  Keys = {k1}
  MaxRetries = 1
  Schemas = {FALSE}
  LossySend = FALSE
  MaxCrashes = 0
  MaxJobs = 2
  r1 = r1
  r2 = r2
  r3 = r3
  page = page
INVARIANT OneDelivery
CHECK_DEADLOCK FALSE
