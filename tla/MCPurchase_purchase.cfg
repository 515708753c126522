SPECIFICATION FairSpec
CONSTANTS
  c1 = c1
  c2 = c2
  r1 = r1
  s2 = s2
  u1 = u1
  Calls = {c1, c2}
  RequestIDs = {r1}
  MintedID <- Colliding
  MaxAttempts = 2
  QueueWorkers = 1
  SubmitErrors = {"Other"}
  RedisVolatile = FALSE
  Rivals = {s2}
  Users = {u1}
  Buyer <- SameBuyer
  Amount = 2
  InitialStock = 3
  InitialUsers = {u1}
  InitialBalance = 5
  RollbackCodes = {409}
  MaxTimeouts = 0
INVARIANT SuccessIsKept
INVARIANT CompletedIsNotWaiting
INVARIANT DegradedAtFirst
PROPERTY QueuedJobFinishes
PROPERTY SuccessIsSold
PROPERTY SoldAsPromised
PROPERTY PromiseKept
CHECK_DEADLOCK FALSE
