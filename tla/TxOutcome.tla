----------------------------- MODULE TxOutcome -----------------------------
(***************************************************************************)
(* What engine.Engine promises of Preview and Confirm, whatever happens    *)
(* between the service and the database: one answer to each call, and an   *)
(* effect that lands at most once.  This is what Service takes a database  *)
(* call to be: Land then Tell is ExecCommits, an early error is ExecFails, *)
(* an error of COMMIT is ExecUnheard, and Land after it is LateCommit.     *)
(***************************************************************************)
CONSTANTS Previews, Confirms     \* the calls of each kind

VARIABLES
  told,     \* what the caller of each call was told
  effect    \* what its statement has done to the data

outcomeVars == <<told, effect>>

Calls   == Previews \cup Confirms
Answers == {"running", "ok", "begin", "exec", "commit", "killed"}
Effects == {"possible", "landed", "never"}

OutcomeInit ==
  /\ told   = [c \in Calls |-> "running"]
  /\ effect = [c \in Calls |-> IF c \in Confirms THEN "possible" ELSE "never"]

\* The statement is committed: at most once, never for a preview, and perhaps
\* after its caller was told of an error or was killed.
Land(c) ==
  /\ effect[c] = "possible"
  /\ effect' = [effect EXCEPT ![c] = "landed"]
  /\ UNCHANGED told

Vanish(c) ==
  /\ effect[c] = "possible"
  /\ effect' = [effect EXCEPT ![c] = "never"]
  /\ UNCHANGED told

Tell(c, answer) ==
  /\ told[c] = "running"
  /\ told' = [told EXCEPT ![c] = answer]

TellOk(c) ==
  /\ Tell(c, "ok")
  /\ c \in Confirms => effect[c] = "landed"
  /\ UNCHANGED effect

\* An error before COMMIT: from now on the statement can have no effect.
TellEarly(c) ==
  /\ \E step \in {"begin", "exec"} : Tell(c, step)
  /\ effect[c] # "landed"
  /\ effect' = [effect EXCEPT ![c] = "never"]

\* An error of COMMIT says nothing of the effect.
TellInDoubt(c) ==
  /\ c \in Confirms
  /\ Tell(c, "commit")
  /\ \/ UNCHANGED effect
     \/ effect[c] = "possible" /\ effect' = [effect EXCEPT ![c] = "never"]

\* The process dies with some calls running: what was not sent will not land.
Kill ==
  \E dead, kept \in SUBSET Calls :
    /\ \A c \in dead : told[c] = "running"
    /\ told' = [c \in Calls |-> IF c \in dead THEN "killed" ELSE told[c]]
    /\ effect' = [c \in Calls |->
         IF c \in dead /\ c \notin kept /\ effect[c] = "possible"
         THEN "never" ELSE effect[c]]

OutcomeNext ==
  \/ \E c \in Calls :
       Land(c) \/ Vanish(c) \/ TellOk(c) \/ TellEarly(c) \/ TellInDoubt(c)
  \/ Kill

OutcomeSpec == OutcomeInit /\ [][OutcomeNext]_outcomeVars
=============================================================================
