\* Does the cap of the preview bind the commit?
SPECIFICATION Spec
CONSTANTS
  Token = {t1}
  Request = {r1, r2}
  UI = UI
  MCP = MCP
  None = None
  TTL = 1
  RowBound = 2
  MaxRows = 1
  Statement = {s1, s2}
  Allowed = {s1}
INVARIANTS
  CommitWithinCap
