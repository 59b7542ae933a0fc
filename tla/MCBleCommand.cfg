CONSTANTS
  t1 = t1
  t2 = t2
  t3 = t3
  Transactions <- MCTransactions
  Requests <- MCRequests
  Depth = 2
  FramesPerRun = 2
  PriorityDepth = 1
  QueueCapacity = 3
  EventsPerRun = 3
  NoisePerRun = 1
SPECIFICATION FairSpec
INVARIANTS
  TypeOK
  PendingIsInFlight
PROPERTIES
  ExecutedOnce
  SaveAnsweredByItsOwn
  SaveIsAnswered
