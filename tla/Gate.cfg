\* Three columns, the empty name among them, two values, two tables of which one
\* is allowed, a target clause of two leaves.
SPECIFICATION GateSpec
CONSTANTS
  Column = {0, 1, 2}
  Value  = {v1, v2}
  Table  = {t1, t2}
  Whitelist = {t1}
  MaxLeaves = 2
\* One request: it ends when it is answered.
CHECK_DEADLOCK FALSE
INVARIANTS
  BuildInv
  MeansTheOperation
  GateIsExact
  BuiltFailsOnNamesOnly
