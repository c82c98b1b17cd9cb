\* One token, three requests racing for it; every request ends.
SPECIFICATION FairSpec
CONSTANTS
  Token = {t1}
  Request = {r1, r2, r3}
  UI = UI
  MCP = MCP
  None = None
  TTL = 1
  RowBound = 1
  MaxRows = 1
  Statement = {s1, s2}
  Allowed = {s1}
PROPERTIES
  RequestsEnd
