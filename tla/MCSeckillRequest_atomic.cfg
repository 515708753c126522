SPECIFICATION Spec
CONSTANTS
  c1 = c1
  c2 = c2
  r1 = r1
  r2 = r2
  Calls = {c1, c2}
  RequestIDs = {r1}
  MintedID <- Colliding
  MaxAttempts = 2
  QueueWorkers = 1
  SubmitErrors = {"SoldOut", "LowBalance", "Other"}
  RedisVolatile = FALSE
INVARIANT EnqueueIsAtomic
CHECK_DEADLOCK FALSE
