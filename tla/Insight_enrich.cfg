\* A cap of eight rows, every measured count, a deadline shorter than two calls.
SPECIFICATION Spec
CONSTANTS
  MaxRows = 8
  Budget = 3
  CallTimeout = 2
  None = None
INVARIANTS
  InsightInv
  WithinBudget
\* One preview: it ends when it is answered.
CHECK_DEADLOCK FALSE
