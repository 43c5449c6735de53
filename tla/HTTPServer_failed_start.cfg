SPECIFICATION PatientSpec
CONSTANTS
  Conns = {c1}
  Workers = {w1, w2}
  Capacity = 1
  NoSocket = NoSocket
  MaxResponses = 1
  Requests <- HealthOnly
  Faults = {"spawn"}
PROPERTY FailedStartReturns
CHECK_DEADLOCK FALSE
