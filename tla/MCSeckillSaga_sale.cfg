SPECIFICATION Spec
CONSTANTS
  s1 = s1
  s2 = s2
  s3 = s3
  u1 = u1
  u2 = u2
  Sagas = {s1, s2, s3}
  Users = {u1, u2}
  Buyer <- Purchases
  Amount = 2
  InitialStock = 5
  InitialUsers = {u1}
  InitialBalance = 5
  RollbackCodes = {409}
  MaxTimeouts = 2
INVARIANT TypeOK
INVARIANT NoOversell
INVARIANT PaidBeforeDelivered
INVARIANT NoTimeoutNoRepeat
INVARIANT TablesMatchLog
PROPERTY SaleAsPromised
CHECK_DEADLOCK FALSE
