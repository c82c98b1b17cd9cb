--------------------------- MODULE TxEngineProofs ---------------------------
(***************************************************************************)
(* Preview and Confirm keep their promises for any number of calls and     *)
(* connections.                                                            *)
(***************************************************************************)
EXTENDS TxEngine, TLAPS

LEMMA TxInit == Init => TxInv
BY TxAssumption
   DEF Init, TxInv, TypeOK, CallInv, EffectInv, Places, Answers, TxState, Calls

\* What the call does keeps the invariant.
LEMMA CallStep ==
  ASSUME TxInv, NEW c \in Calls,
         \/ Start(c) \/ Proceed(c) \/ BeginFails(c) \/ CommitNotSent(c)
  PROVE  TxInv'
<1> USE TxAssumption DEF TxInv, Goto, Tell, Server
<1>1. CASE Start(c)
  <2>1. TypeOK' /\ CallInv'
    BY <1>1 DEF Start, TypeOK, CallInv, Places
  <2>2. EffectInv'
    BY <1>1 DEF Start, TypeOK, CallInv, EffectInv
  <2> QED
    BY <2>1, <2>2
<1>2. CASE Begin(c)
  <2>1. TypeOK' /\ CallInv'
    BY <1>2 DEF Begin, TypeOK, CallInv, Places, TxState
  <2>2. EffectInv'
    BY <1>2 DEF Begin, TypeOK, CallInv, EffectInv
  <2> QED
    BY <2>1, <2>2
<1>3. CASE BeginFails(c)
  <2>1. TypeOK' /\ CallInv'
    BY <1>3 DEF BeginFails, TypeOK, CallInv, Places, Answers
  <2>2. EffectInv'
    BY <1>3 DEF BeginFails, TypeOK, CallInv, EffectInv
  <2> QED
    BY <2>1, <2>2
<1>4. CASE ExecReturns(c)
  <2>1. TypeOK' /\ CallInv'
    BY <1>4 DEF ExecReturns, TypeOK, CallInv, Places, Answers
  <2>2. EffectInv'
    BY <1>4 DEF ExecReturns, TypeOK, CallInv, EffectInv
  <2> QED
    BY <2>1, <2>2
<1>5. CASE ExecErrs(c)
  <2>1. TypeOK' /\ CallInv'
    BY <1>5 DEF ExecErrs, TypeOK, CallInv, Places, Answers
  <2>2. EffectInv'
    BY <1>5 DEF ExecErrs, TypeOK, CallInv, EffectInv
  <2> QED
    BY <2>1, <2>2
<1>6. CASE SendCommit(c)
  <2>1. TypeOK' /\ CallInv'
    BY <1>6 DEF SendCommit, TypeOK, CallInv, Places, TxState
  <2>2. EffectInv'
    BY <1>6 DEF SendCommit, TypeOK, CallInv, EffectInv
  <2> QED
    BY <2>1, <2>2
<1>7. CASE CommitNotSent(c)
  <2>1. TypeOK' /\ CallInv'
    BY <1>7 DEF CommitNotSent, TypeOK, CallInv, Places, Answers
  <2>2. EffectInv'
    BY <1>7 DEF CommitNotSent, TypeOK, CallInv, EffectInv
  <2> QED
    BY <2>1, <2>2
<1>8. CASE CommitAcked(c)
  <2>1. TypeOK' /\ CallInv'
    BY <1>8 DEF CommitAcked, TypeOK, CallInv, Places, Answers
  <2>2. EffectInv'
    BY <1>8 DEF CommitAcked, TypeOK, CallInv, EffectInv
  <2> QED
    BY <2>1, <2>2
<1>9. CASE CommitErrs(c)
  <2>1. TypeOK' /\ CallInv'
    BY <1>9 DEF CommitErrs, TypeOK, CallInv, Places, Answers
  <2>2. EffectInv'
    BY <1>9 DEF CommitErrs, TypeOK, CallInv, EffectInv
  <2> QED
    BY <2>1, <2>2
<1>10. CASE Rollback(c)
  <2>1. TypeOK' /\ CallInv'
    BY <1>10 DEF Rollback, TypeOK, CallInv, Places, TxState
  <2>2. EffectInv'
    BY <1>10 DEF Rollback, TypeOK, CallInv, EffectInv
  <2> QED
    BY <2>1, <2>2
<1> QED
  BY <1>1, <1>2, <1>3, <1>4, <1>5, <1>6, <1>7, <1>8, <1>9, <1>10 DEF Proceed

\* What the server does, and what is lost, keeps it.
LEMMA ServerStep ==
  ASSUME TxInv, NEW c \in Calls,
         Serve(c) \/ ServerAborts(c) \/ LinkLost(c)
  PROVE  TxInv'
<1> USE TxAssumption DEF TxInv, Server
<1>1. CASE ServerRuns(c)
  <2>1. TypeOK' /\ CallInv'
    BY <1>1 DEF ServerRuns, TypeOK, CallInv, TxState
  <2>2. EffectInv'
    BY <1>1 DEF ServerRuns, TypeOK, CallInv, EffectInv
  <2> QED
    BY <2>1, <2>2
<1>2. CASE ServerAborts(c)
  <2>1. TypeOK' /\ CallInv'
    BY <1>2 DEF ServerAborts, TypeOK, CallInv, TxState
  <2>2. EffectInv'
    BY <1>2 DEF ServerAborts, TypeOK, CallInv, EffectInv
  <2> QED
    BY <2>1, <2>2
<1>3. CASE ServerDecides(c)
  <2>1. TypeOK' /\ CallInv'
    BY <1>3 DEF ServerDecides, TypeOK, CallInv, TxState
  <2>2. EffectInv'
    BY <1>3 DEF ServerDecides, TypeOK, CallInv, EffectInv
  <2> QED
    BY <2>1, <2>2
<1>4. CASE ServerGivesUp(c)
  <2>1. TypeOK' /\ CallInv'
    BY <1>4 DEF ServerGivesUp, TypeOK, CallInv, TxState
  <2>2. EffectInv'
    BY <1>4 DEF ServerGivesUp, TypeOK, CallInv, EffectInv
  <2> QED
    BY <2>1, <2>2
<1>5. CASE LinkLost(c)
  <2>1. TypeOK' /\ CallInv'
    BY <1>5 DEF LinkLost, TypeOK, CallInv
  <2>2. EffectInv'
    BY <1>5 DEF LinkLost, TypeOK, CallInv, EffectInv
  <2> QED
    BY <2>1, <2>2
<1> QED
  BY <1>1, <1>2, <1>3, <1>4, <1>5 DEF Serve

LEMMA CrashStep ==
  ASSUME TxInv, Crash
  PROVE  TxInv'
<1> USE TxAssumption DEF TxInv, Crash, Running
<1>1. TypeOK'
  BY DEF TypeOK, Places, Answers
<1>2. CallInv'
  BY DEF TypeOK, CallInv
<1>3. EffectInv'
  BY DEF TypeOK, CallInv, EffectInv
<1> QED
  BY <1>1, <1>2, <1>3

\* Whatever calls run, fail, are cut off or are killed, and whatever the server
\* does in the meantime, the engine stays in TxInv.
THEOREM TxInvariance == Spec => []TxInv
<1>1. Init => TxInv
  BY TxInit
<1>2. TxInv /\ [Next]_vars => TxInv'
  <2> SUFFICES ASSUME TxInv, [Next]_vars PROVE TxInv'
    OBVIOUS
  <2>1. CASE UNCHANGED vars
    BY <2>1 DEF vars, TxInv, TypeOK, CallInv, EffectInv
  <2> QED
    BY <2>1, CallStep, ServerStep, CrashStep DEF Next
<1> QED
  BY <1>1, <1>2, PTL DEF Spec

-----------------------------------------------------------------------------
\* A preview is never committed.
THEOREM PreviewsLeaveNothing == Spec => []PreviewLeavesNothing
<1>1. TxInv => PreviewLeavesNothing
  BY TxAssumption DEF TxInv, EffectInv, PreviewLeavesNothing, Calls
<1> QED
  BY <1>1, TxInvariance, PTL

\* After an error of Begin or Exec the statement has no effect, now or later.
THEOREM EarlyErrorsAreFinal == Spec => []EarlyErrorIsFinal
<1>1. TxInv => EarlyErrorIsFinal
  BY DEF TxInv, EffectInv, EarlyErrorIsFinal
<1> QED
  BY <1>1, TxInvariance, PTL

\* A Confirm without an error is in the database.
THEOREM OkMeansCommitted == Spec => []OkIsCommitted
<1>1. TxInv => OkIsCommitted
  BY DEF TxInv, EffectInv, OkIsCommitted, Calls
<1> QED
  BY <1>1, TxInvariance, PTL

-----------------------------------------------------------------------------
\* Steps that leave answers and effects alone are invisible to the caller.
LEMMA Silent ==
  ASSUME told' = told,
         \A c \in Calls : EffectOf'[c] = EffectOf[c]
  PROVE  UNCHANGED <<told, EffectOf>>
BY DEF EffectOf

\* One call's effect changes, the others' stay.
LEMMA EffectMoves ==
  ASSUME NEW c \in Calls, NEW e, EffectOf'[c] = e,
         \A d \in Calls \ {c} : EffectOf'[d] = EffectOf[d]
  PROVE  EffectOf' = [EffectOf EXCEPT ![c] = e]
BY DEF EffectOf

LEMMA CallOutcome ==
  ASSUME TxInv, NEW c \in Calls,
         \/ Start(c) \/ Proceed(c) \/ BeginFails(c) \/ CommitNotSent(c)
  PROVE  \/ Outcome!TellOk(c) \/ Outcome!TellEarly(c)
         \/ Outcome!TellInDoubt(c)
         \/ UNCHANGED <<told, EffectOf>>
<1> USE TxAssumption DEF TxInv, TypeOK, CallInv, EffectInv, Goto, Tell, Server
<1>1. CASE Start(c)
  BY <1>1, Silent DEF Start, EffectOf
<1>2. CASE Begin(c)
  BY <1>2, Silent DEF Begin, EffectOf
<1>3. CASE BeginFails(c) \/ ExecErrs(c)
  <2>1. /\ EffectOf[c] # "landed" /\ EffectOf'[c] = "never"
        /\ \A d \in Calls \ {c} : EffectOf'[d] = EffectOf[d]
    BY <1>3 DEF BeginFails, ExecErrs, EffectOf
  <2>2. EffectOf' = [EffectOf EXCEPT ![c] = "never"]
    BY <2>1, EffectMoves
  <2> QED
    BY <1>3, <2>1, <2>2
       DEF BeginFails, ExecErrs, Outcome!TellEarly, Outcome!Tell
<1>4. CASE ExecReturns(c)
  <2>1. \A d \in Calls : EffectOf'[d] = EffectOf[d]
    BY <1>4 DEF ExecReturns, EffectOf
  <2>2. EffectOf' = EffectOf
    BY <2>1 DEF EffectOf
  <2> QED
    BY <1>4, <2>2 DEF ExecReturns, Outcome!TellOk, Outcome!Tell
<1>5. CASE SendCommit(c)
  BY <1>5, Silent DEF SendCommit, EffectOf
<1>6. CASE CommitNotSent(c)
  <2>1. /\ EffectOf[c] = "possible" /\ EffectOf'[c] = "never"
        /\ \A d \in Calls \ {c} : EffectOf'[d] = EffectOf[d]
    BY <1>6 DEF CommitNotSent, EffectOf
  <2>2. EffectOf' = [EffectOf EXCEPT ![c] = "never"]
    BY <2>1, EffectMoves
  <2> QED
    BY <1>6, <2>1, <2>2
       DEF CommitNotSent, Outcome!TellInDoubt, Outcome!Tell
<1>7. CASE CommitAcked(c) \/ CommitErrs(c)
  <2>1. \A d \in Calls : EffectOf'[d] = EffectOf[d]
    BY <1>7 DEF CommitAcked, CommitErrs, EffectOf
  <2>2. EffectOf' = EffectOf
    BY <2>1 DEF EffectOf
  <2>3. CommitAcked(c) => EffectOf[c] = "landed"
    BY DEF CommitAcked, EffectOf
  <2> QED
    BY <1>7, <2>2, <2>3
       DEF CommitAcked, CommitErrs, Outcome!TellOk, Outcome!TellInDoubt,
           Outcome!Tell
<1>8. CASE Rollback(c)
  BY <1>8, Silent DEF Rollback, EffectOf
<1> QED
  BY <1>1, <1>2, <1>3, <1>4, <1>5, <1>6, <1>7, <1>8 DEF Proceed

LEMMA ServerOutcome ==
  ASSUME TxInv, NEW c \in Calls,
         Serve(c) \/ ServerAborts(c) \/ LinkLost(c)
  PROVE  Outcome!Land(c) \/ Outcome!Vanish(c) \/ UNCHANGED <<told, EffectOf>>
<1> USE TxAssumption DEF TxInv, TypeOK, CallInv, EffectInv, Server
<1>1. CASE ServerRuns(c) \/ ServerAborts(c) \/ ServerGivesUp(c) \/ LinkLost(c)
  BY <1>1, Silent
  DEF ServerRuns, ServerAborts, ServerGivesUp, LinkLost, EffectOf
<1>2. CASE ServerDecides(c)
  <2>1. /\ EffectOf[c] = "possible" /\ EffectOf'[c] \in {"landed", "never"}
        /\ \A d \in Calls \ {c} : EffectOf'[d] = EffectOf[d]
    BY <1>2 DEF ServerDecides, EffectOf
  <2>2. \/ EffectOf' = [EffectOf EXCEPT ![c] = "landed"]
        \/ EffectOf' = [EffectOf EXCEPT ![c] = "never"]
    BY <2>1, EffectMoves
  <2> QED
    BY <1>2, <2>1, <2>2 DEF ServerDecides, Outcome!Land, Outcome!Vanish
<1> QED
  BY <1>1, <1>2 DEF Serve

LEMMA KillWitness ==
  ASSUME NEW dead \in SUBSET Calls, NEW kept \in SUBSET Calls,
         \A c \in dead : told[c] = "running",
         told' = [c \in Calls |-> IF c \in dead THEN "killed" ELSE told[c]],
         EffectOf' = [c \in Calls |->
           IF c \in dead /\ c \notin kept /\ EffectOf[c] = "possible"
           THEN "never" ELSE EffectOf[c]]
  PROVE  Outcome!Kill
BY Zenon DEF Outcome!Kill, Outcome!Calls, Calls

LEMMA CrashOutcome ==
  ASSUME TxInv, Crash
  PROVE  Outcome!Kill
<1> DEFINE dead == {c \in Calls : c \in Running /\ told[c] = "running"}
           kept == {c \in Calls : tx[c] = "sent"}
<1> USE TxAssumption DEF TxInv, TypeOK, CallInv, EffectInv, Crash, Running
<1>1. \A c \in dead : told[c] = "running"
  OBVIOUS
<1>2. told' = [c \in Calls |-> IF c \in dead THEN "killed" ELSE told[c]]
  OBVIOUS
<1>3. ASSUME NEW c \in Calls
      PROVE  EffectOf'[c] =
               IF c \in dead /\ c \notin kept /\ EffectOf[c] = "possible"
               THEN "never" ELSE EffectOf[c]
  BY DEF EffectOf
<1>4. EffectOf' = [c \in Calls |->
         IF c \in dead /\ c \notin kept /\ EffectOf[c] = "possible"
         THEN "never" ELSE EffectOf[c]]
  BY <1>3 DEF EffectOf
<1>5. dead \in SUBSET Calls /\ kept \in SUBSET Calls
  OBVIOUS
<1> HIDE DEF dead, kept
<1> QED
  BY <1>1, <1>2, <1>4, <1>5, KillWitness

\* Whatever happens in between, each call is answered once and its statement
\* lands at most once, as the answer says: what Service takes a call to be.
THEOREM TxRefinement == Spec => ImplementsOutcome
<1>1. Init => Outcome!OutcomeInit
  BY TxAssumption DEF Init, EffectOf, Outcome!OutcomeInit, Outcome!Calls, Calls
<1>2. TxInv /\ [Next]_vars => [Outcome!OutcomeNext]_<<told, EffectOf>>
  <2> SUFFICES ASSUME TxInv, [Next]_vars
               PROVE  Outcome!OutcomeNext \/ UNCHANGED <<told, EffectOf>>
    OBVIOUS
  <2>1. CASE UNCHANGED vars
    BY <2>1, Silent DEF vars, EffectOf
  <2>2. ASSUME NEW c \in Calls,
               \/ Start(c) \/ Proceed(c) \/ BeginFails(c) \/ CommitNotSent(c)
        PROVE  Outcome!OutcomeNext \/ UNCHANGED <<told, EffectOf>>
    BY <2>2, CallOutcome DEF Outcome!OutcomeNext, Outcome!Calls, Calls
  <2>3. ASSUME NEW c \in Calls, Serve(c) \/ ServerAborts(c) \/ LinkLost(c)
        PROVE  Outcome!OutcomeNext \/ UNCHANGED <<told, EffectOf>>
    BY <2>3, ServerOutcome DEF Outcome!OutcomeNext, Outcome!Calls, Calls
  <2>4. CASE Crash
    BY <2>4, CrashOutcome DEF Outcome!OutcomeNext
  <2> QED
    BY <2>1, <2>2, <2>3, <2>4 DEF Next
<1> QED
  BY <1>1, <1>2, TxInvariance, PTL
     DEF Spec, ImplementsOutcome, Outcome!OutcomeSpec, Outcome!outcomeVars
=============================================================================
