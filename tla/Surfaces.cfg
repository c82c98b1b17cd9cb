\* Every environment, then every request, and every text of five bytes or less
\* the model may write.
SPECIFICATION Spec
CONSTANTS
  MaxText = 5
  None = None
CHECK_DEADLOCK FALSE
INVARIANTS
  OnlyTheLetInWork
  RefusalMeansNoEffect
  FirstObject
