\* Two tokens, two requests; s1 passes the guards, s2 does not; the cap is one
\* row and a statement may affect up to two.
SPECIFICATION Spec
CONSTANTS
  Token = {t1, t2}
  Request = {r1, r2}
  UI = UI
  MCP = MCP
  None = None
  TTL = 1
  RowBound = 2
  MaxRows = 1
  Statement = {s1, s2}
  Allowed = {s1}
SYMMETRY Symmetry
INVARIANTS
  IInv
  AtMostOneCommit
  AgentNeedsApproval
  RejectedNeverCommits
  NoBlindCommit
  UndisturbedCommitAsPreviewed
  NothingPendingIsHidden
PROPERTIES
  ProposalSurvives
  ImplementsLifecycle
