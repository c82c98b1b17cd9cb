\* Any caller, any order: two tokens, two statements, an entry lives two ticks.
SPECIFICATION CallsSpec
CONSTANTS
  Token = {t1, t2}
  Statement = {s1, s2}
  UI = UI
  MCP = MCP
  None = None
  TTL = 2
  RowBound = 0
INVARIANTS
  HandedOutOnce
PROPERTIES
  NotAfterExpiry
  OnlyItsOwnCallRemoves
  NoCallExtends
  TokensAreCollected
