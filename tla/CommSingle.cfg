SPECIFICATION FairSpec
CONSTANTS
  Runners = {r1, page}
  Live = {r1}
  Keys = {k1, k2}
  MaxRetries = 2
  Schemas = {FALSE, TRUE}
  LossySend = FALSE
  MaxCrashes = 0
  MaxJobs = 3
  r1 = r1
  r2 = r2
  r3 = r3
  page = page
INVARIANT RetriesCutShort
PROPERTIES
  MailerSpec
  
CHECK_DEADLOCK FALSE
