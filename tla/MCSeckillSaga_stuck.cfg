SPECIFICATION FairSpec
CONSTANTS
  s1 = s1
  s2 = s2
  s3 = s3
  u1 = u1
  u2 = u2
  Sagas = {s1, s2}
  Users = {u1, u2}
  Buyer <- OneEach
  Amount = 2
  InitialStock = 3
  InitialUsers = {u1, u2}
  InitialBalance = 3
  RollbackCodes = {409}
  MaxTimeouts = 0
PROPERTY SagaFinishes
CHECK_DEADLOCK FALSE
