SPECIFICATION FairSpec
CONSTANTS
  r1 = r1
  r2 = r2
  r3 = r3
  p1 = p1
  p2 = p2
  Readers = {r1, r2, r3}
  Replica <- TwoReplicas
  LocksHold = TRUE
  MaxUpdates = 2
INVARIANT TypeOK
INVARIANT OneFiller
INVARIANT OneFlightPerReplica
INVARIANT OneQueryPerMiss
INVARIANT CurrentEntryIsDropped
PROPERTY FillsNeverGoBack
PROPERTY ReaderReturns
CHECK_DEADLOCK FALSE
