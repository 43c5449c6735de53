SPECIFICATION FairSpec
CONSTANTS
  Threads = {t1, t2, t3}
  Stmts <- TableStmts
  NoStmt = NoStmt
  NoResult = NoResult
  Timed = TRUE
  LeafSize = 1
  MaxRequests = 3
  MaxId = 3
  IntSize = 16
  LongMax = 31
PROPERTY PhaseGate
CHECK_DEADLOCK FALSE
