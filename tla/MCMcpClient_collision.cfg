SPECIFICATION Spec
CHECK_DEADLOCK FALSE
CONSTANTS
  c1 = c1
  c2 = c2
  Calls = {c1}
  Initialize = Initialize
  Initialized = Initialized
  ListTools = ListTools
  ServerIDs <- MCCollidingIDs
  Foreign = Foreign
  None = None
INVARIANTS
  ServerRequestsIgnored
