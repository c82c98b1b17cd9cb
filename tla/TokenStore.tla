----------------------------- MODULE TokenStore -----------------------------
(***************************************************************************)
(* internal/store: the in-memory map token -> entry with a TTL.  Every     *)
(* method holds the mutex from its first line to its return, so each is    *)
(* one atomic action here.  An action takes the error it returns as its    *)
(* last argument: Take(t, OK) is a Take that hands the entry out.          *)
(*                                                                         *)
(* The clock is kept as what is left of each entry: left = expiresAt - now *)
(* in ticks, held at -1 once negative, so that "now.After(expiresAt)" is   *)
(* left < 0.  Callers that use these actions are in StoreCalls (any order  *)
(* of calls) and Service (the calls the service makes).                    *)
(***************************************************************************)
EXTENDS Integers

CONSTANTS
  Token,      \* the tokens newToken can draw
  Statement,  \* the statements entries can hold
  UI, MCP,    \* store.OriginUI, store.OriginMCP
  TTL,        \* tokenTTL, in ticks of the clock
  RowBound,   \* bound: no statement affects more rows than this
  None        \* no entry under this token

ASSUME StoreAssumption ==
  /\ TTL \in Nat
  /\ RowBound \in Nat
  /\ UI # MCP

VARIABLES
  items,      \* Store.items: what is in the map under each token
  issued      \* tokens drawn so far; 128 random bits do not repeat

storeVars == <<items, issued>>

OK            == "ok"
ErrNotFound   == "ErrNotFound"
ErrWrongState == "ErrWrongState"
StoreErrors   == {OK, ErrNotFound, ErrWrongState}

Origin == {UI, MCP}
States == {"previewed", "pending_approval"}
Entry  == [sql : Statement, rows : 0..RowBound, origin : Origin]
Item   == [entry : Entry, state : States, left : -1..TTL]

ASSUME NoneAssumption ==
  None \notin Item /\ None \notin Entry /\ None \notin Token

StoreTypeOK ==
  /\ items \in [Token -> Item \cup {None}]
  /\ issued \subseteq Token

-----------------------------------------------------------------------------
\* `it, ok := s.items[token]` and `s.now().After(it.expiresAt)`.
Present(t)   == items[t] # None
NeverAfter(t) == FALSE                    \* variant: the clock is not read
After(t)     == items[t].left < 0
Live(t)      == Present(t) /\ ~After(t)
OutdatedEarly(t) == Present(t) /\ items[t].left <= 0   \* variant: off by one
Outdated(t)  == Present(t) /\ After(t)

Delete(t)    == items' = [items EXCEPT ![t] = None]

StoreInit ==
  /\ items = [t \in Token |-> None]
  /\ issued = {}

-----------------------------------------------------------------------------
\* PutWithOrigin: newToken draws a token nobody holds.
Put(t, e) ==
  /\ t \notin issued
  /\ issued' = issued \cup {t}
  /\ items' = [items EXCEPT ![t] =
                 [entry |-> e, state |-> "previewed", left |-> TTL]]

\* Variant: the token can be used again.
TakeKeeps(t, err) ==
  /\ err = IF Live(t) THEN OK ELSE ErrNotFound
  /\ IF Live(t) THEN UNCHANGED items ELSE Delete(t)
  /\ UNCHANGED issued

\* Take deletes the entry whether or not it is outdated, and looks at neither
\* its origin nor its state.
Take(t, err) ==
  /\ err = IF Live(t) THEN OK ELSE ErrNotFound
  /\ Delete(t)
  /\ UNCHANGED issued

\* Variant: the proposal starts a new TTL.
RequestRenews(t, err) ==
  /\ \/ ~Live(t) /\ err = ErrNotFound /\ Delete(t)
     \/ /\ Live(t) /\ items[t].state # "previewed"
        /\ err = ErrWrongState
        /\ UNCHANGED items
     \/ /\ Live(t) /\ items[t].state = "previewed"
        /\ err = OK
        /\ items' = [items EXCEPT ![t].state = "pending_approval",
                                 ![t].left = TTL]
  /\ UNCHANGED issued

RequestApproval(t, err) ==
  /\ \/ ~Live(t) /\ err = ErrNotFound /\ Delete(t)
     \/ /\ Live(t) /\ items[t].state # "previewed"
        /\ err = ErrWrongState
        /\ UNCHANGED items
     \/ /\ Live(t) /\ items[t].state = "previewed"
        /\ err = OK
        /\ items' = [items EXCEPT ![t].state = "pending_approval"]
  /\ UNCHANGED issued

Peek(t, err) ==
  /\ \/ ~Live(t) /\ err = ErrNotFound /\ Delete(t)
     \/ Live(t) /\ err = OK /\ UNCHANGED items
  /\ UNCHANGED issued

\* Variants: the state is not looked at; the entry is not deleted.
ResolveAnyState(t, err) ==
  /\ err = IF Live(t) THEN OK ELSE ErrNotFound
  /\ Delete(t)
  /\ UNCHANGED issued

ResolveKeeps(t, err) ==
  /\ \/ ~Live(t) /\ err = ErrNotFound /\ Delete(t)
     \/ /\ Live(t)
        /\ err = IF items[t].state = "pending_approval" THEN OK
                 ELSE ErrWrongState
        /\ UNCHANGED items
  /\ UNCHANGED issued

\* resolvePending, which is both Approve and Reject.
ResolvePending(t, err) ==
  /\ \/ ~Live(t) /\ err = ErrNotFound /\ Delete(t)
     \/ /\ Live(t) /\ items[t].state # "pending_approval"
        /\ err = ErrWrongState
        /\ UNCHANGED items
     \/ /\ Live(t) /\ items[t].state = "pending_approval"
        /\ err = OK
        /\ Delete(t)
  /\ UNCHANGED issued

\* Variant: a proposal is never dropped.
SweepPreviewed ==
  /\ items' = [t \in Token |->
                 IF Outdated(t) /\ items[t].state = "previewed"
                 THEN None ELSE items[t]]
  /\ UNCHANGED issued

\* ListPending and GC both drop what is outdated on their way.
Sweep ==
  /\ items' = [t \in Token |-> IF Outdated(t) THEN None ELSE items[t]]
  /\ UNCHANGED issued

Listed(t) ==
  /\ Live(t)
  /\ items[t].entry.origin = MCP
  /\ items[t].state = "pending_approval"

ListPending(out) == out = {t \in Token : Listed(t)} /\ Sweep

GC == (\E t \in Token : Outdated(t)) /\ Sweep

\* The wall clock, one tick.
Tick ==
  /\ \E t \in Token : Live(t)
  /\ items' = [t \in Token |->
                 IF Live(t) THEN [items[t] EXCEPT !.left = @ - 1] ELSE items[t]]
  /\ UNCHANGED issued

\* The process ends and starts again: the map was in memory only.
Forget ==
  /\ items' = [t \in Token |-> None]
  /\ UNCHANGED issued
=============================================================================
