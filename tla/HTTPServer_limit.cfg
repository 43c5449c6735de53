SPECIFICATION Spec
CONSTANTS
  Conns = {c1, c2, c3, c4}
  Workers = {w1}
  Capacity = 1
  NoSocket = NoSocket
  MaxResponses = 1
  Requests <- MixedRequests
  Faults = {"memory", "spawn"}
INVARIANTS AnswersMatch CountedOnce BoundedOvershoot
SYMMETRY Symmetry
CHECK_DEADLOCK FALSE
