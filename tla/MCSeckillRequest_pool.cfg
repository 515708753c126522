SPECIFICATION FairSpec
CONSTANTS
  c1 = c1
  c2 = c2
  r1 = r1
  r2 = r2
  Calls = {c1, c2}
  RequestIDs = {r1, r2}
  MintedID <- Distinct
  MaxAttempts = 1
  QueueWorkers = 1
  SubmitErrors = {}
  RedisVolatile = FALSE
PROPERTY QueuedJobFinishes
CHECK_DEADLOCK FALSE
