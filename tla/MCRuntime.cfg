SPECIFICATION RuntimeSpec
CHECK_DEADLOCK FALSE
CONSTANTS
  Clients = {cl1, cl2}
  Capacity = 2
  MaxEvents = 4
  a1 = a1
  a2 = a2
  Attaches <- MCAttaches
  MaxConcurrentJobs = 2
  Percents = {40, 100}
  MaxMissed = 1
  MaxPrinted = 4
  PipeLines = 2
INVARIANTS
  TypeOK
  RegisteredChannelsOpen
  SentInOrder
  BurstKept
  AttachedMeansServed
  CompleteMeansReady
  QueuedProfileExplained
  OutputComplete
PROPERTIES
  StreamsEnd
  HangupReleases
  RowsOnlyAdvance
  AttachesEnd
  StreamReturns
