SPECIFICATION FairSpec
CHECK_DEADLOCK FALSE
CONSTANTS
  c1 = c1
  c2 = c2
  Calls <- MCCalls
  Initialize = Initialize
  Initialized = Initialized
  ListTools = ListTools
  ServerIDs <- MCCollidingIDs
  Foreign = Foreign
  None = None
INVARIANTS
  TypeOK
  AnswersAreOwn
  ChannelsUsedOnce
  NoWaiterForgotten
PROPERTIES
  CallsReturn
  ReaderEnds
