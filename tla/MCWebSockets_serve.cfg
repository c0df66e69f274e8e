CONSTANTS
  c1 = c1
  c2 = c2
  b1 = b1
  b2 = b2
  b3 = b3
  None = None
  Clients = {c1, c2}
  Broadcasts = {b1, b2, b3}
  QueueSize = 1
  ClientsLeave = TRUE
SPECIFICATION FairChannel
INVARIANTS RegistryIsLive ReturnedMeansServed
PROPERTY EvictedLeaves
CHECK_DEADLOCK FALSE
