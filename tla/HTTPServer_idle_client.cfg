SPECIFICATION FairSpec
CONSTANTS
  Conns = {c1, c2}
  Workers = {w1, w2}
  Capacity = 1
  NoSocket = NoSocket
  MaxResponses = 1
  Requests <- HealthOnly
  Faults = {}
PROPERTY MaxRequestsExits
CHECK_DEADLOCK FALSE
