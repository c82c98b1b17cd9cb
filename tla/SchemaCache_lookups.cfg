\* Two suggestions at once, two lists of tables, one ALTER.
SPECIFICATION Spec
CONSTANTS
  Lookup = {l1, l2}
  Tables = {k1, k2}
  TTL = 2
  FetchMax = 1
  MaxVersion = 1
  None = None
INVARIANTS
  CacheInv
  ServedIsRecent
  AnswersItsQuestion
PROPERTIES
  ModelIsAsked
