SPECIFICATION Spec
CONSTANTS
  Order = 4
  MaxId = 13
  FirstCapacity = 8
  Users <- MixedUsers
  NameSize = 4
  Nothing = Nothing
  CallocFails = {"first leaf", "right leaf", "root", "right parent"}
  TableAllocFails = TRUE
INVARIANTS TypeOK QueriesAgree AllOrNothing OwnedOnce
CHECK_DEADLOCK FALSE
