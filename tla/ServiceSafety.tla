--------------------------- MODULE ServiceSafety ---------------------------
(***************************************************************************)
(* What the service must never do, what it must do at last, and the life   *)
(* of a token that it implements.                                          *)
(***************************************************************************)
EXTENDS Service

Executed(t) == commits[t] > 0

\* A token authorises one COMMIT: two confirms, two approvals, or a retry after
\* an answer that was lost, never run its statement twice, also when the COMMIT
\* given up for lost is carried out late (service.go Confirm, store.go Take).
AtMostOneCommit == \A t \in Token : commits[t] <= 1

\* Human in the loop: what an agent previewed reaches the database only
\* through a human's Approve, however the calls are interleaved
\* (store.go OriginMCP, service.go Confirm).
AgentNeedsApproval ==
  \A t \in Token :
    Executed(t) /\ book[t].origin = MCP => fate[t] = "approved"

\* An approval and a rejection of one token can race: when the rejection has
\* been accepted, nothing of that token is in the database, on its way there or
\* about to be.
RejectedNeverCommits ==
  \A t \in Token : fate[t] = "rejected" =>
    /\ ~Executed(t)
    /\ sent[t] = None
    /\ \A r \in Request : pc[r] = "exec" => tok[r] # t

\* No blind execution: the statement committed is the one that was previewed
\* under this token, it had passed the guards, and its measured impact was
\* within the cap (service.go preview, steps 2 to 5).
NoBlindCommit ==
  \A t \in Token : Executed(t) =>
    /\ run[t].sql = book[t].sql
    /\ run[t].sql \in Allowed
    /\ book[t].rows <= MaxRows

\* Where no other writer interfered, the human saw the truth: the rows the
\* commit affects are the rows the preview reported.
UndisturbedCommitAsPreviewed ==
  \A t \in Token : Executed(t) /\ run[t].sql \notin drifted =>
    run[t].rows = book[t].rows

\* A human is told "executed" only of what is in the database, whatever
\* failed, raced or restarted in between.
AckedIsCommitted == \A t \in acked : Executed(t)

\* A token being executed is in nobody else's hands: it has left the map, no
\* other request holds it, nothing of it is committed or on its way.
SoleHolder ==
  \A r \in Request : pc[r] = "exec" =>
    /\ ~Present(tok[r])
    /\ ~Executed(tok[r])
    /\ sent[tok[r]] = None
    /\ \A q \in Request \ {r} : pc[q] = "exec" => tok[q] # tok[r]

\* Nothing waits for an approval that the approvals screen does not show:
\* every valid pending token is listed (store.go ListPending filters on both
\* origin and state, RequestApproval looks at the state only).
NothingPendingIsHidden ==
  \A t \in Token :
    Live(t) /\ items[t].state = "pending_approval" => Listed(t)

\* A proposal stays until a human decides on it: no confirm, list or agent
\* call makes a valid pending token disappear (service.go:198-200).
ProposalSurvives ==
  [][\A t \in Token :
       Live(t) /\ items[t].state = "pending_approval" /\ items'[t] = None
       => fate'[t] \in {"approved", "rejected", "lost"}]_vars

\* Every request that was started is answered.
RequestsEnd == \A r \in Request : pc[r] # "idle" ~> pc[r] = "idle"

\* config.go:43-45: MAX_AFFECTED_ROWS caps the rows a statement may affect.
CommitWithinCap ==
  \A t \in Token : Executed(t) => run[t].rows <= MaxRows

-----------------------------------------------------------------------------
(* The life of each token, read off the service's state.                   *)

LifeOf == [t \in Token |->
  IF t \notin issued THEN "unissued"
  ELSE IF Live(t) THEN items[t].state
  ELSE IF fate[t] \in {"confirmed", "approved"} THEN "executed"
  ELSE IF fate[t] \in {"rejected", "lost"} THEN fate[t]
  ELSE "expired"]

SourceOf == [t \in Token |-> IF t \in issued THEN book[t].origin ELSE UI]

Lifecycle == INSTANCE TokenLifecycle WITH life <- LifeOf, source <- SourceOf

\* The service, with its two-step Peek/Take and Peek/RequestApproval, moves
\* each token only as store.go:57-74 draws it.
ImplementsLifecycle == Lifecycle!LifeSpec

-----------------------------------------------------------------------------
(* The inductive invariant behind the properties above.                    *)

\* What is in the map is as it was issued, and nobody has used it yet.
StoreInv ==
  \A t \in Token : Present(t) =>
    /\ t \in issued
    /\ items[t].entry = book[t]
    /\ fate[t] = "open"
    /\ items[t].state = "pending_approval" => book[t].origin = MCP

\* An issued token was measured within the cap; one that is not issued is
\* untouched.
BookInv ==
  \A t \in Token :
    IF t \in issued
    THEN book[t] \in Entry /\ book[t].sql \in Allowed /\ book[t].rows <= MaxRows
    ELSE book[t] = None /\ fate[t] = "open"

\* The way a token left fits who asked for it, and only a token that left to
\* be executed is in the database.
FateInv ==
  \A t \in Token :
    /\ fate[t] = "confirmed" => book[t].origin = UI
    /\ fate[t] \in {"approved", "rejected"} => book[t].origin = MCP
    /\ commits[t] \in {0, 1}
    /\ Executed(t) =>
         fate[t] \in {"confirmed", "approved"} /\ run[t] \in Run
           /\ run[t].sql = book[t].sql

\* What a request knows of its token between two steps is still so.
RequestInv ==
  \A r \in Request :
    /\ pc[r] = "put" =>
         held[r] \in Entry /\ held[r].sql \in Allowed /\ held[r].rows <= MaxRows
    /\ pc[r] = "take" => tok[r] \in issued /\ book[tok[r]].origin = UI
    /\ pc[r] = "mark" => tok[r] \in issued /\ book[tok[r]].origin = MCP
    /\ pc[r] = "exec" =>
         /\ tok[r] \in issued
         /\ held[r] = book[tok[r]]
         /\ fate[tok[r]] \in {"confirmed", "approved"}
         /\ commits[tok[r]] = 0
         /\ sent[tok[r]] = None
    /\ pc[r] = "reply" => tok[r] \in issued /\ Executed(tok[r])

\* A COMMIT that is on its way is that of a consumed token, and its first.
SentInv ==
  \A t \in Token : sent[t] # None =>
    /\ t \in issued
    /\ sent[t] = book[t]
    /\ fate[t] \in {"confirmed", "approved"}
    /\ commits[t] = 0

HolderInv ==
  \A r, q \in Request :
    pc[r] = "exec" /\ pc[q] = "exec" /\ tok[r] = tok[q] => r = q

IInv ==
  /\ TypeOK
  /\ StoreInv
  /\ BookInv
  /\ FateInv
  /\ RequestInv
  /\ SentInv
  /\ HolderInv
  /\ AckedIsCommitted

\* As long as nobody has changed what a statement would affect, every
\* measurement of it and every commit of it agree.
ImpactInv ==
  \A s \in Statement \ drifted :
    /\ \A t \in issued : book[t].sql = s => book[t].rows = impact[s]
    /\ \A r \in Request :
         pc[r] = "put" /\ held[r].sql = s => held[r].rows = impact[s]
    /\ \A t \in Token :
         Executed(t) /\ run[t].sql = s => run[t].rows = impact[s]
=============================================================================
