SPECIFICATION GraphSpec
CONSTANTS
  t1 = t1
  t2 = t2
  s1 = s1
  Order <- MCOrder
  SessionOf <- MCSessionOf
  Results = FALSE
  MaxLines = 2
  MaxGen = 1
  MaxChanges = 2
INVARIANTS
  RowsOnce
  WalkSettles
PROPERTIES
  HistoryKept
  LinesIndexed
CHECK_DEADLOCK FALSE
