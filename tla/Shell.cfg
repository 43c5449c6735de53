SPECIFICATION Spec
CONSTANTS
  Starts <- AllStarts
  BufferSize = 12
  IntSize = 16
  LongMax = 31
  UIntSize = 8
  ULongMax = 31
  MaxPort = 7
INVARIANTS StatementsCovered UsedIndexHonest ErrorsExplained AgesCompare ArgumentsAsTold OneStatementPerLine
CHECK_DEADLOCK FALSE
