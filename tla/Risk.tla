-------------------------------- MODULE Risk --------------------------------
(***************************************************************************)
(* internal/api/ai.go: the risk signal shown beside a preview.  The code   *)
(* compares affected/maxRows, a float64, with 0.25, 0.5 and 0.75; here the *)
(* comparisons are cross-multiplied, which is the same for the row counts  *)
(* a float64 holds exactly.                                                *)
(***************************************************************************)
EXTENDS Integers

Low    == "low"
Medium == "medium"
High   == "high"
Levels == {Low, Medium, High}

riskRank(level) ==
  IF level = High THEN 2 ELSE IF level = Medium THEN 1 ELSE 0

\* affected/maxRows >= num/4, where the ratio of a cap that is not positive is
\* taken to be 0.
AtLeastQuarters(num, affected, maxRows) ==
  maxRows > 0 /\ 4 * affected >= num * maxRows

heuristicRisk(op, affected, maxRows) ==
  IF \/ op = "DELETE" /\ AtLeastQuarters(2, affected, maxRows)
     \/ AtLeastQuarters(3, affected, maxRows)
  THEN High
  ELSE IF op = "DELETE" \/ AtLeastQuarters(1, affected, maxRows) THEN Medium
  ELSE Low

\* Variant: the model's opinion replaces the heuristic.
combineModelWins(a, b) == b

combineRisk(a, b) == IF riskRank(b) > riskRank(a) THEN b ELSE a

\* anthropic.go normalizeRisk: what the model says is one of the levels, or is
\* taken for medium.
normalizeRisk(word) == IF word \in {Low, High} THEN word ELSE Medium
=============================================================================
