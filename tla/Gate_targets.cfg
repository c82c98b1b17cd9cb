\* The smallest operations, and every kind of statement over two tables.
SPECIFICATION GateSpec
CONSTANTS
  Column = {0, 1}
  Value  = {v1}
  Table  = {t1, t2}
  Whitelist = {t1}
  MaxLeaves = 2
CHECK_DEADLOCK FALSE
INVARIANT
  OnlyListedWritten
