--------------------------- MODULE TokenLifecycle ---------------------------
(***************************************************************************)
(* The promise: the life of a preview token, as store.go draws it above    *)
(* `type State`.                                                           *)
(*                                                                         *)
(*   previewed ---- Take, only origin=ui ---------------> executed         *)
(*   previewed ---- RequestApproval, only origin=mcp ---> pending_approval *)
(*   pending_approval ---- Approve ---------------------> executed         *)
(*   pending_approval ---- Reject ----------------------> rejected         *)
(*                                                                         *)
(* executed, rejected and expired are terminal.  The store lives in        *)
(* memory, so a restart of the process makes every open token "lost",      *)
(* the one terminal state the drawing leaves out.                          *)
(***************************************************************************)
CONSTANTS Token, Origin, UI, MCP

VARIABLES
  life,     \* life[t]: the state of token t
  source    \* source[t]: who asked for the preview, once there is one

lifeVars == <<life, source>>

Open     == {"previewed", "pending_approval"}
Terminal == {"executed", "rejected", "expired", "lost"}
Lives    == {"unissued"} \cup Open \cup Terminal

LifeInit ==
  /\ life   = [t \in Token |-> "unissued"]
  /\ source = [t \in Token |-> UI]

Move(t, from, to) ==
  /\ life[t] = from
  /\ life' = [life EXCEPT ![t] = to]
  /\ UNCHANGED source

Issue(t, o) ==
  /\ life[t] = "unissued"
  /\ life'   = [life EXCEPT ![t] = "previewed"]
  /\ source' = [source EXCEPT ![t] = o]

TakeUI(t)  == source[t] = UI  /\ Move(t, "previewed", "executed")
Propose(t) == source[t] = MCP /\ Move(t, "previewed", "pending_approval")
Accept(t)  == Move(t, "pending_approval", "executed")
Refuse(t)  == Move(t, "pending_approval", "rejected")

\* Time passes for several tokens at once, a restart for all of them.
Expire(S) ==
  /\ \A t \in S : life[t] \in Open
  /\ life' = [t \in Token |-> IF t \in S THEN "expired" ELSE life[t]]
  /\ UNCHANGED source

Lose ==
  /\ life' = [t \in Token |-> IF life[t] \in Open THEN "lost" ELSE life[t]]
  /\ UNCHANGED source

LifeNext ==
  \/ \E t \in Token, o \in Origin : Issue(t, o)
  \/ \E t \in Token : TakeUI(t) \/ Propose(t) \/ Accept(t) \/ Refuse(t)
  \/ \E S \in SUBSET Token : Expire(S)
  \/ Lose

LifeSpec == LifeInit /\ [][LifeNext]_lifeVars
=============================================================================
