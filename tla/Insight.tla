------------------------------ MODULE Insight ------------------------------
(***************************************************************************)
(* The optional AI block of a preview: internal/api enrichPreview over the *)
(* client of internal/ai.  It runs after the token was issued, with one    *)
(* deadline (aiPreviewTimeout) for two calls in a row, each with a timeout *)
(* of its own (AI_TIMEOUT).  Whatever the provider does, the preview must  *)
(* be answered, in time, with a risk no lower than the heuristic one.      *)
(***************************************************************************)
EXTENDS Risk

CONSTANTS
  MaxRows,      \* MAX_AFFECTED_ROWS
  Budget,       \* aiPreviewTimeout in ticks
  CallTimeout,  \* AI_TIMEOUT in ticks
  None          \* no AI block: "ai": null

ASSUME InsightAssumption ==
  /\ MaxRows \in Nat
  /\ Budget \in Nat
  /\ CallTimeout \in Nat

VARIABLES
  step,     \* "start", "explain", "review", "answered"
  request,  \* the operation, the rows measured, whether AI is on and wanted
  insight,  \* AIInsight, or None
  left,     \* what is left of the context's deadline
  call,     \* what is left of the running call's own timeout
  waited    \* history: ticks since the enrichment began

vars == <<step, request, insight, left, call, waited>>

Op       == {"INSERT", "UPDATE", "DELETE"}
Words    == Levels \cup {"other"}   \* what a model may write for a level
Requests == [op : Op, rows : 0..MaxRows, enabled : BOOLEAN, wanted : BOOLEAN]
Insights == [risk : Levels, explained : BOOLEAN, reviewed : BOOLEAN]

ASSUME NoneInsight == None \notin Insights

TypeOK ==
  /\ step    \in {"start", "explain", "review", "answered"}
  /\ request \in Requests
  /\ insight \in Insights \cup {None}
  /\ left    \in 0..Budget
  /\ call    \in 0..CallTimeout
  /\ waited  \in Nat

\* A preview that was measured within the cap and has its token.
Init ==
  /\ step    = "start"
  /\ request \in Requests
  /\ insight = None
  /\ left    = Budget
  /\ call    = CallTimeout
  /\ waited  = 0

Block(r, e, v) == [risk |-> r, explained |-> e, reviewed |-> v]

Baseline == heuristicRisk(request.op, request.rows, MaxRows)

-----------------------------------------------------------------------------
\* "ai": false, or no AI_API_KEY.
Skip ==
  /\ step = "start"
  /\ ~request.wanted \/ ~request.enabled
  /\ step' = "answered"
  /\ UNCHANGED <<request, insight, left, call, waited>>

Enrich ==
  /\ step = "start"
  /\ request.wanted /\ request.enabled
  /\ step' = "explain"
  /\ insight' = Block(Baseline, FALSE, FALSE)
  /\ UNCHANGED <<request, left, call, waited>>

InTime == left > 0 /\ call > 0

\* ExplainImpact answered: the model's level, or medium when its answer was
\* not the JSON it was asked for.
Explained(word) ==
  /\ step = "explain" /\ InTime
  /\ step' = "review"
  /\ insight' =
       Block(combineRisk(insight.risk, normalizeRisk(word)), TRUE, FALSE)
  /\ call' = CallTimeout
  /\ UNCHANGED <<request, left, waited>>

\* Variant: each call has the whole of the time.
ExplainFailsRestarts ==
  /\ step = "explain"
  /\ step' = "review"
  /\ call' = CallTimeout
  /\ left' = Budget
  /\ UNCHANGED <<request, insight, waited>>

\* The provider failed, or a deadline is over.
ExplainFails ==
  /\ step = "explain"
  /\ step' = "review"
  /\ call' = CallTimeout
  /\ UNCHANGED <<request, insight, left, waited>>

Reviewed ==
  /\ step = "review" /\ InTime
  /\ step' = "answered"
  /\ insight' = Block(insight.risk, insight.explained, TRUE)
  /\ UNCHANGED <<request, left, call, waited>>

ReviewFails ==
  /\ step = "review"
  /\ step' = "answered"
  /\ UNCHANGED <<request, insight, left, call, waited>>

\* A tick while the provider has not answered.
Wait ==
  /\ step \in {"explain", "review"} /\ InTime
  /\ left' = left - 1
  /\ call' = call - 1
  /\ waited' = waited + 1
  /\ UNCHANGED <<step, request, insight>>

Answer ==
  \/ Skip \/ Enrich
  \/ \E word \in Words : Explained(word)
  \/ ExplainFails \/ Reviewed \/ ReviewFails

Next == Answer \/ Wait

Spec == Init /\ [][Next]_vars

-----------------------------------------------------------------------------
\* The risk shown is never below the deterministic one, whatever the model
\* says and however its calls fail (ai.go:112-114, "no subestimar").
RiskFloor ==
  insight # None => riskRank(insight.risk) >= riskRank(Baseline)

\* A DELETE of half the cap or more is shown as high, always.
LargeDeleteIsHigh ==
  insight # None /\ request.op = "DELETE" /\ MaxRows > 0
    /\ 2 * request.rows >= MaxRows => insight.risk = High

\* Two calls share one deadline: the block costs a preview aiPreviewTimeout at
\* most, and two AI_TIMEOUTs at most.
WithinBudget == waited <= Budget /\ waited <= 2 * CallTimeout

-----------------------------------------------------------------------------
\* The floor under the risk, and how far the clock can have run at each step.
InsightInv ==
  /\ TypeOK
  /\ RiskFloor
  /\ step \in {"explain", "review"} => insight # None
  /\ waited + left = Budget
  /\ step \in {"start", "explain"} => waited + call <= CallTimeout
  /\ waited + call <= 2 * CallTimeout
=============================================================================
