\* Two tokens, two statements, two requests of the page in flight.
SPECIFICATION UISpec
SYMMETRY Sym
CONSTANTS
  Token = {t1, t2}
  Stmt = {q1, q2}
  Slot = {s1, s2}
  None = None
  UI = UI
  MCP = MCP
  Origin = {UI, MCP}
INVARIANTS
  PageInv
  
  DoneIsTrue
  NotStuck
