SPECIFICATION Spec
CONSTANTS
  c1 = c1
  c2 = c2
  r1 = r1
  r2 = r2
  Calls = {c1, c2}
  RequestIDs = {r1}
  MintedID <- Colliding
  MaxAttempts = 3
  QueueWorkers = 1
  SubmitErrors = {"SoldOut", "LowBalance", "Other"}
  RedisVolatile = TRUE
INVARIANT TypeOK
INVARIANT SuccessIsBacked
INVARIANT OnePurchasePerRequest
INVARIANT QueuedIsNeverLost
PROPERTY DegradedIsNotProcessed
PROPERTY NeverBackToWaiting
CHECK_DEADLOCK FALSE
