----------------------------- MODULE StoreCalls -----------------------------
(***************************************************************************)
(* The store under callers that call any method on any token in any order, *)
(* as its tests do: what internal/store promises by itself, before the     *)
(* service restricts who calls what.                                       *)
(***************************************************************************)
EXTENDS TokenStore

VARIABLES
  reply,   \* the last call: method, token, the error it returned
  handed,  \* history: how many times each token's entry was handed out
  pastDue  \* history: tokens that were once outdated

callVars == <<items, issued, reply, handed, pastDue>>

NoReply == [op |-> "none", tok |-> {}, err |-> OK]

Callers == {"Take", "RequestApproval", "Peek", "Approve", "Reject"}
Consuming == {"Take", "Approve", "Reject"}

CallsTypeOK ==
  /\ StoreTypeOK
  /\ reply \in [op : Callers \cup {"none", "ListPending"},
                tok : SUBSET Token, err : StoreErrors]
  /\ handed \in [Token -> Nat]
  /\ pastDue \subseteq Token

-----------------------------------------------------------------------------
Method(op, t, err) ==
  CASE op = "Take"               -> Take(t, err)
    [] op = "RequestApproval"    -> RequestApproval(t, err)
    [] op = "Peek"               -> Peek(t, err)
    [] op \in {"Approve", "Reject"} -> ResolvePending(t, err)

Call(op, t) ==
  \E err \in StoreErrors :
    /\ Method(op, t, err)
    /\ reply' = [op |-> op, tok |-> {t}, err |-> err]
    /\ handed' = IF op \in Consuming /\ err = OK
                 THEN [handed EXCEPT ![t] = @ + 1] ELSE handed
    /\ UNCHANGED pastDue

CallPut(t, e) ==
  /\ Put(t, e)
  /\ UNCHANGED <<reply, handed, pastDue>>

CallList ==
  \E out \in SUBSET Token :
    /\ ListPending(out)
    /\ reply' = [op |-> "ListPending", tok |-> out, err |-> OK]
    /\ UNCHANGED <<handed, pastDue>>

CallGC == GC /\ UNCHANGED <<reply, handed, pastDue>>

CallTick ==
  /\ Tick
  /\ pastDue' = pastDue \cup {t \in Token : Live(t) /\ items[t].left = 0}
  /\ UNCHANGED <<reply, handed>>

CallsInit ==
  /\ StoreInit
  /\ reply = NoReply
  /\ handed = [t \in Token |-> 0]
  /\ pastDue = {}

CallsNext ==
  \/ \E t \in Token, e \in Entry : CallPut(t, e)
  \/ \E t \in Token, op \in Callers : Call(op, t)
  \/ CallList
  \/ CallGC
  \/ CallTick

\* main.runGC ticks until the process ends, and time passes; no caller is
\* obliged to call.
CallsSpec ==
  /\ CallsInit /\ [][CallsNext]_callVars
  /\ WF_callVars(CallTick)
  /\ WF_callVars(CallGC)

-----------------------------------------------------------------------------
\* One token, one use: whatever the callers do, Take, Approve and Reject hand
\* a token's entry out once at most (store.go, "de un solo uso").
HandedOutOnce == CallsTypeOK /\ \A t \in Token : handed[t] <= 1

\* A token that was outdated once is never handed out from then on, even by
\* the call that meets it before the collector does.
NotAfterExpiry ==
  [][\A t \in pastDue : handed'[t] = handed[t]]_callVars

\* Nobody loses somebody else's token: an entry that is still valid leaves the
\* map only in the call that hands out that entry.
OnlyItsOwnCallRemoves ==
  [][\A t \in Token :
       Live(t) /\ items'[t] = None => handed'[t] = handed[t] + 1]_callVars

\* The five minutes run from the preview: no call, asking for approval
\* included, gives a token more time or changes what it will execute.
NoCallExtends ==
  [][\A t \in Token : Present(t) /\ items'[t] # None =>
       /\ items'[t].left <= items[t].left
       /\ items'[t].entry = items[t].entry]_callVars

\* A token nobody confirms does not stay in memory: it is gone at last.
TokensAreCollected ==
  \A t \in Token : Present(t) ~> ~Present(t)
=============================================================================
