SPECIFICATION FairSpec
CONSTANTS
  Sockets = {s1, s2, s3, s4}
  Workers = {w1, w2, w3}
  Capacity = 2
  NoSocket = NoSocket
INVARIANTS RingOK WorkConserving SingleOwner
PROPERTIES ImplementsFifo EverySocketServed
CHECK_DEADLOCK FALSE
