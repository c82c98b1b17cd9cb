SPECIFICATION FairSpec
CONSTANTS
  Previews = {p1}
  Confirms = {c1, c2}
  MaxConns = 2
INVARIANTS
  TxInv
  PreviewLeavesNothing
  EarlyErrorIsFinal
PROPERTIES
  CallsEnd
  LocksEnd
  ImplementsOutcome
CHECK_DEADLOCK FALSE
