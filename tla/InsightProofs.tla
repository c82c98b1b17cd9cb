--------------------------- MODULE InsightProofs ---------------------------
(***************************************************************************)
(* Proofs about the AI block of a preview: its risk for every row count    *)
(* and cap, its time for every budget.                                     *)
(***************************************************************************)
EXTENDS Insight, TLAPS

\* The heuristic gives one of the three levels.
LEMMA HeuristicLevel ==
  ASSUME NEW op, NEW n \in Nat, NEW m \in Int
  PROVE  heuristicRisk(op, n, m) \in Levels
  BY DEF heuristicRisk, Levels

\* combineRisk is the higher of the two levels: it is one of them and no lower
\* than either.
LEMMA CombineIsMax ==
  ASSUME NEW a \in Levels, NEW b \in Levels
  PROVE  /\ combineRisk(a, b) \in {a, b}
         /\ riskRank(combineRisk(a, b)) >= riskRank(a)
         /\ riskRank(combineRisk(a, b)) >= riskRank(b)
  BY DEF combineRisk, riskRank, Levels, Low, Medium, High

LEMMA NormalizeLevel ==
  ASSUME NEW w PROVE normalizeRisk(w) \in Levels
  BY DEF normalizeRisk, Levels

\* More rows under the same cap are never shown as less risky: no count at
\* which the heuristic drops (ai.go:159-178), for every cap, zero and negative
\* ones included.
THEOREM RiskMonotone ==
  ASSUME NEW op \in Op, NEW n \in Nat, NEW k \in Nat, n <= k, NEW m \in Int
  PROVE  riskRank(heuristicRisk(op, n, m)) <= riskRank(heuristicRisk(op, k, m))
<1>1. \A i \in {1, 2, 3} :
         AtLeastQuarters(i, n, m) => AtLeastQuarters(i, k, m)
  BY DEF AtLeastQuarters
<1>2. QED
  BY <1>1 DEF heuristicRisk, riskRank, Low, Medium, High

\* A DELETE is shown as no less risky than an UPDATE or INSERT of as many rows.
THEOREM DeleteIsRiskier ==
  ASSUME NEW op \in Op, NEW n \in Nat, NEW m \in Int
  PROVE  riskRank(heuristicRisk(op, n, m))
           <= riskRank(heuristicRisk("DELETE", n, m))
  BY DEF heuristicRisk, riskRank, Low, Medium, High
-----------------------------------------------------------------------------
LEMMA InitInsight == Init => InsightInv
<1> SUFFICES ASSUME Init PROVE InsightInv
  OBVIOUS
<1>n. left \in 0..Budget /\ call \in 0..CallTimeout /\ waited \in Nat
  BY InsightAssumption DEF Init
<1>1. TypeOK
  BY <1>n, Zenon DEF Init, TypeOK
<1>2. RiskFloor
  BY DEF Init, RiskFloor
<1>3. QED
  BY <1>1, <1>2, InsightAssumption DEF Init, InsightInv

\* Steps that leave the block, the request and the history of time alone.
LEMMA Stands ==
  ASSUME RiskFloor, UNCHANGED <<request, insight>>
  PROVE  RiskFloor'
  BY DEF RiskFloor, Baseline

LEMMA EnrichStep == InsightInv /\ Enrich => InsightInv'
<1> SUFFICES ASSUME InsightInv, Enrich PROVE InsightInv'
  OBVIOUS
<1>1. Baseline \in Levels
  BY InsightAssumption, HeuristicLevel
  DEF InsightInv, TypeOK, Requests, Baseline
<1>2. insight' \in Insights /\ insight'.risk = Baseline
  BY <1>1 DEF Enrich, Insights, Block
<1>3. /\ step = "start" /\ step' = "explain"
      /\ UNCHANGED <<request, left, call, waited>>
      /\ Baseline' = Baseline
  BY DEF Enrich, Baseline
<1>4. riskRank(insight'.risk) >= riskRank(Baseline)
  BY <1>2 DEF riskRank
<1>5. RiskFloor'
  BY <1>3, <1>4 DEF RiskFloor, riskRank
<1>6. QED
  BY <1>2, <1>3, <1>5, NoneInsight, InsightAssumption DEF InsightInv, TypeOK

\* What the model says can only raise the risk.
LEMMA ExplainedStep ==
  ASSUME NEW w \in Words, InsightInv, Explained(w), insight # None
  PROVE  InsightInv'
<1> DEFINE said == normalizeRisk(w)
<1>1. said \in Levels
  BY NormalizeLevel
<1>2. insight \in Insights /\ insight.risk \in Levels
  BY DEF InsightInv, TypeOK, Insights
<1>3. /\ insight' \in Insights
      /\ insight'.risk = combineRisk(insight.risk, said)
  BY <1>1, <1>2, CombineIsMax DEF Explained, Insights, Block
<1>4. riskRank(insight'.risk) >= riskRank(insight.risk)
  BY <1>1, <1>2, <1>3, CombineIsMax
<1>5. riskRank(insight.risk) >= riskRank(Baseline)
  BY DEF InsightInv, RiskFloor
<1>6. /\ step = "explain" /\ step' = "review" /\ call' = CallTimeout
      /\ UNCHANGED <<request, left, waited>>
      /\ Baseline' = Baseline
  BY DEF Explained, Baseline
<1>7. riskRank(insight.risk) \in 0..2 /\ riskRank(insight'.risk) \in 0..2
         /\ riskRank(Baseline) \in 0..2
  BY DEF riskRank
<1>8. riskRank(insight'.risk) >= riskRank(Baseline)
  BY <1>4, <1>5, <1>7
<1>9. RiskFloor'
  BY <1>6, <1>8 DEF RiskFloor, riskRank
<1>10. insight' # None
  BY <1>3, NoneInsight
<1>11. QED
  BY <1>3, <1>6, <1>9, <1>10, InsightAssumption DEF InsightInv, TypeOK

LEMMA ReviewedStep ==
  ASSUME InsightInv, Reviewed, insight # None
  PROVE  InsightInv'
<1>1. insight \in Insights
  BY DEF InsightInv, TypeOK
<1>2. insight' \in Insights /\ insight'.risk = insight.risk
  BY <1>1 DEF Reviewed, Insights, Block
<1>3. RiskFloor'
  BY <1>2 DEF Reviewed, InsightInv, RiskFloor, Baseline
<1>4. QED
  BY <1>2, <1>3, InsightAssumption DEF Reviewed, InsightInv, TypeOK

LEMMA StepInsight == InsightInv /\ [Next]_vars => InsightInv'
<1> SUFFICES ASSUME InsightInv, [Next]_vars PROVE InsightInv'
  OBVIOUS
<1> USE InsightAssumption
<1>f. RiskFloor
  BY DEF InsightInv
<1>1. CASE Skip
  BY <1>1, Stands DEF Skip, InsightInv, TypeOK
<1>2. CASE Enrich
  BY <1>2, EnrichStep
<1>3. ASSUME NEW w \in Words, Explained(w) PROVE InsightInv'
  BY <1>3, ExplainedStep DEF InsightInv, Explained
<1>4. CASE ExplainFails
  BY <1>4, Stands DEF ExplainFails, InsightInv, TypeOK
<1>5. CASE Reviewed
  BY <1>5, ReviewedStep DEF InsightInv, Reviewed
<1>6. CASE ReviewFails
  BY <1>6, Stands DEF ReviewFails, InsightInv, TypeOK
<1>7. CASE Wait
  BY <1>7, Stands DEF Wait, InTime, InsightInv, TypeOK
<1>8. CASE UNCHANGED vars
  BY <1>8, Stands DEF vars, InsightInv, TypeOK
<1>9. QED
  BY <1>1, <1>2, <1>3, <1>4, <1>5, <1>6, <1>7, <1>8 DEF Next, Answer

\* Type correctness, the floor under the risk and the bookkeeping of time, for
\* every cap, budget and timeout.
THEOREM InsightInvariance == Spec => []InsightInv
  BY InitInsight, StepInsight, PTL DEF Spec

\* A preview is held up by aiPreviewTimeout and two AI_TIMEOUTs at most.
THEOREM DelayIsBounded == Spec => []WithinBudget
<1>1. InsightInv => WithinBudget
  BY InsightAssumption DEF InsightInv, TypeOK, WithinBudget
<1>2. QED
  BY <1>1, InsightInvariance, PTL

\* A DELETE of half the cap or more is shown as high, whatever the model said.
THEOREM LargeDeletesAreHigh == Spec => []LargeDeleteIsHigh
<1>1. InsightInv => LargeDeleteIsHigh
  <2> SUFFICES ASSUME InsightInv, insight # None, request.op = "DELETE",
                      MaxRows > 0, 2 * request.rows >= MaxRows
               PROVE  insight.risk = High
    BY DEF LargeDeleteIsHigh
  <2>1. request.rows \in Nat /\ MaxRows \in Nat
    BY InsightAssumption DEF InsightInv, TypeOK, Requests
  <2>2. AtLeastQuarters(2, request.rows, MaxRows)
    BY <2>1 DEF AtLeastQuarters
  <2>3. Baseline = High
    BY <2>2 DEF Baseline, heuristicRisk
  <2>4. riskRank(insight.risk) >= 2
    BY <2>3 DEF InsightInv, RiskFloor, riskRank
  <2>5. QED
    BY <2>4 DEF riskRank
<1>2. QED
  BY <1>1, InsightInvariance, PTL
=============================================================================
