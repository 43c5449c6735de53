SPECIFICATION FairSpec
CONSTANTS
  Threads = {t1, t2}
  Stmts <- OneOfEach
  NoStmt = NoStmt
  NoResult = NoResult
  Timed = TRUE
  LeafSize = 1
  MaxRequests = 3
  MaxId = 3
  IntSize = 16
  LongMax = 31
INVARIANTS LockDiscipline TableExclusion NoHalfInsert IdsIncrease MetricsAddUp
PROPERTIES Linearizable CallsReturn
CHECK_DEADLOCK FALSE
