SPECIFICATION FairSpec
CONSTANTS
  s1 = s1
  s2 = s2
  s3 = s3
  u1 = u1
  u2 = u2
  Sagas = {s1, s2, s3}
  Users = {u1, u2}
  Buyer <- Purchases
  Amount = 2
  InitialStock = 3
  InitialUsers = {u1}
  InitialBalance = 3
  RollbackCodes = {400, 404}
  MaxTimeouts = 1
INVARIANT SucceededIsComplete
INVARIANT FailedIsRefunded
PROPERTY RefundIsLast
PROPERTY SagaFinishes
CHECK_DEADLOCK FALSE
