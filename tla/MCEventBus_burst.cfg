SPECIFICATION Spec
CHECK_DEADLOCK FALSE
CONSTANTS
  a = a
  b = b
  Clients <- MCClients
  Capacity = 1
  MaxEvents = 3
INVARIANTS
  FinalEventDelivered
