SPECIFICATION FairSpec
CONSTANTS
  QueueNames <- SomeNames
  QueueWorkers <- SomeWorkers
  MaxLive = 2
INVARIANT TypeOK
INVARIANT JobsUseOpenClients
INVARIANT CallsUseOpenClients
INVARIANT JobsAreServed
PROPERTY ShutdownEnds
CHECK_DEADLOCK FALSE
