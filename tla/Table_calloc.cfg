SPECIFICATION Spec
CONSTANTS
  Order = 4
  MaxId = 5
  FirstCapacity = 8
  Users <- MixedUsers
  NameSize = 4
  Nothing = Nothing
  CallocFails = {"root", "right parent"}
  TableAllocFails = FALSE
INVARIANT NoDanglingIndex
CHECK_DEADLOCK FALSE
