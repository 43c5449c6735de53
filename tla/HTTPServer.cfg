SPECIFICATION PatientSpec
CONSTANTS
  Conns = {c1, c2}
  Workers = {w1, w2}
  Capacity = 1
  NoSocket = NoSocket
  MaxResponses = 1
  Requests <- QueryOnly
  Faults = {"bind", "accept", "signal"}
INVARIANTS OneOwner AnsweredOnce DestroyedLast
PROPERTIES StopReturns AcceptedAreClosed
CHECK_DEADLOCK FALSE
