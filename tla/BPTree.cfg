SPECIFICATION Spec
CONSTANTS
  Order = 3
  Keys <- Six
  Values = {v1, v2}
  Nothing = Nothing
  CallocFails = {"first leaf", "right leaf"}
INVARIANTS SearchFindsAll WellLinked DestroyFreesAll
PROPERTY ImplementsIndex
