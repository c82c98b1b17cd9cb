------------------------------ MODULE Service ------------------------------
(***************************************************************************)
(* internal/api Service: preview and confirm, asking for approval,         *)
(* approving and rejecting, run by concurrent request goroutines against   *)
(* one token store and one database.                                       *)
(*                                                                         *)
(* A request is cut exactly where another goroutine can get in between:    *)
(* at each acquisition of the store's mutex and at each database call.     *)
(* What it does alone (decoding, parsing, the guards) belongs to the step  *)
(* before.  A return that has changed nothing (a refused statement, a      *)
(* failed measurement, an unknown token) leaves the request idle: it is a  *)
(* stuttering step.                                                        *)
(***************************************************************************)
EXTENDS TokenStore

CONSTANTS
  Request,   \* the request goroutines that can be in flight together
  Allowed,   \* statements that resolveSQL, Parse and guard.Check let through
  MaxRows    \* MAX_AFFECTED_ROWS

ASSUME ServiceAssumption ==
  /\ Allowed \subseteq Statement
  /\ MaxRows \in Int

VARIABLES
  pc,        \* where each request is
  tok,       \* the token it works on
  held,      \* the entry it holds: the one it will Put, or the one it took
  impact,    \* how many rows each statement would affect now
  sent       \* the entry of each token whose COMMIT nobody waits for any more

\* History, which no step reads.
VARIABLES
  book,      \* the entry each token was issued for
  fate,      \* how each token left the store
  commits,   \* how many times its statement was committed
  run,       \* what its commit executed and how many rows that affected
  acked,     \* tokens whose execution a human was told of
  drifted    \* statements whose impact has changed

requestVars == <<pc, tok, held>>
history     == <<book, fate, commits, run, acked, drifted>>
vars        == <<items, issued, pc, tok, held, impact, sent, book, fate,
                 commits, run, acked, drifted>>

Places == {"idle", "put", "take", "mark", "exec", "reply"}
Fates  == {"open", "confirmed", "approved", "rejected", "lost"}
Run    == [sql : Statement, rows : 0..RowBound]

TypeOK ==
  /\ StoreTypeOK
  /\ pc      \in [Request -> Places]
  /\ tok     \in [Request -> Token \cup {None}]
  /\ held    \in [Request -> Entry \cup {None}]
  /\ impact  \in [Statement -> 0..RowBound]
  /\ sent    \in [Token -> Entry \cup {None}]
  /\ book    \in [Token -> Entry \cup {None}]
  /\ fate    \in [Token -> Fates]
  /\ commits \in [Token -> Nat]
  /\ run     \in [Token -> Run \cup {None}]
  /\ acked   \subseteq Token
  /\ drifted \subseteq Statement

Init ==
  /\ StoreInit
  /\ pc      = [r \in Request |-> "idle"]
  /\ tok     = [r \in Request |-> None]
  /\ held    = [r \in Request |-> None]
  /\ impact  \in [Statement -> 0..RowBound]
  /\ sent    = [t \in Token |-> None]
  /\ book    = [t \in Token |-> None]
  /\ fate    = [t \in Token |-> "open"]
  /\ commits = [t \in Token |-> 0]
  /\ run     = [t \in Token |-> None]
  /\ acked   = {}
  /\ drifted = {}

-----------------------------------------------------------------------------
\* Request r moves to place p working on token t with entry e.
At(r, p, t, e) ==
  /\ pc'   = [pc EXCEPT ![r] = p]
  /\ tok'  = [tok EXCEPT ![r] = t]
  /\ held' = [held EXCEPT ![r] = e]

Return(r) == At(r, "idle", None, None)

Consume(t, how) == fate' = [fate EXCEPT ![t] = how]

-----------------------------------------------------------------------------
(* POST /preview (origin ui) and the agent's preview (origin mcp).         *)

\* guard.CheckAffectedRows
WithinCapOrOneMore(n) == n <= MaxRows + 1          \* variant: off by one
WithinCap(n) == n <= MaxRows

\* Variant: the row count of the driver is not read.
MeasureUnread(r, s, o) ==
  /\ pc[r] = "idle"
  /\ s \in Allowed
  /\ WithinCap(impact[s])
  /\ At(r, "put", None, [sql |-> s, rows |-> 0, origin |-> o])
  /\ UNCHANGED <<items, issued, impact, sent, history>>

\* The statement passes the guards, runs and is rolled back: the rows it would
\* affect are known, nothing else has changed.
Measure(r, s, o) ==
  /\ pc[r] = "idle"
  /\ s \in Allowed
  /\ WithinCap(impact[s])
  /\ At(r, "put", None, [sql |-> s, rows |-> impact[s], origin |-> o])
  /\ UNCHANGED <<items, issued, impact, sent, history>>

EmitToken(r, t) ==
  /\ pc[r] = "put"
  /\ Put(t, held[r])
  /\ book' = [book EXCEPT ![t] = held[r]]
  /\ Return(r)
  /\ UNCHANGED <<impact, sent, fate, commits, run, acked, drifted>>

\* newToken failed: no token, no entry.
EmitFails(r) ==
  /\ pc[r] = "put"
  /\ Return(r)
  /\ UNCHANGED <<items, issued, impact, sent, history>>

-----------------------------------------------------------------------------
(* POST /confirm: Peek, gate on the origin, Take, execute.  The mutex is   *)
(* free between Peek and Take.                                             *)

AnyOrigin(e) == TRUE                       \* variant: the gate is forgotten
ByHuman(e) == e.origin # MCP

\* Variant: the token is consumed before its origin is looked at.
ConfirmTakesFirst(r, t) ==
  /\ pc[r] = "idle"
  /\ \E err \in StoreErrors : Take(t, err)
  /\ UNCHANGED <<requestVars, impact, sent, history>>

ConfirmPeek(r, t) ==
  /\ pc[r] = "idle"
  /\ \/ Peek(t, OK) /\ ByHuman(items[t].entry) /\ At(r, "take", t, None)
     \/ Peek(t, OK) /\ ~ByHuman(items[t].entry) /\ UNCHANGED requestVars
     \/ Peek(t, ErrNotFound) /\ UNCHANGED requestVars
  /\ UNCHANGED <<impact, sent, history>>

ConfirmTake(r) ==
  /\ pc[r] = "take"
  /\ \/ /\ Take(tok[r], OK)
        /\ At(r, "exec", tok[r], items[tok[r]].entry)
        /\ Consume(tok[r], "confirmed")
     \/ /\ Take(tok[r], ErrNotFound)
        /\ Return(r)
        /\ UNCHANGED fate
  /\ UNCHANGED <<impact, sent, book, commits, run, acked, drifted>>

-----------------------------------------------------------------------------
(* The agent's confirm: it asks for approval and executes nothing.         *)

\* Variant: a human's token can be proposed.
AskPeekAny(r, t) ==
  /\ pc[r] = "idle"
  /\ \/ Peek(t, OK) /\ At(r, "mark", t, None)
     \/ Peek(t, ErrNotFound) /\ UNCHANGED requestVars
  /\ UNCHANGED <<impact, sent, history>>

AskPeek(r, t) ==
  /\ pc[r] = "idle"
  /\ \/ Peek(t, OK) /\ ~ByHuman(items[t].entry) /\ At(r, "mark", t, None)
     \/ Peek(t, OK) /\ ByHuman(items[t].entry) /\ UNCHANGED requestVars
     \/ Peek(t, ErrNotFound) /\ UNCHANGED requestVars
  /\ UNCHANGED <<impact, sent, history>>

\* Variant: asks again until the answer is yes.
AskMarkRetries(r) ==
  /\ pc[r] = "mark"
  /\ RequestApproval(tok[r], OK)
  /\ Return(r)
  /\ UNCHANGED <<impact, sent, history>>

AskMark(r) ==
  /\ pc[r] = "mark"
  /\ \E err \in StoreErrors : RequestApproval(tok[r], err)
  /\ Return(r)
  /\ UNCHANGED <<impact, sent, history>>

-----------------------------------------------------------------------------
(* POST /pending/{token}/approve and /reject, GET /pending.                *)

Approve(r, t) ==
  /\ pc[r] = "idle"
  /\ \/ /\ ResolvePending(t, OK)
        /\ At(r, "exec", t, items[t].entry)
        /\ Consume(t, "approved")
     \/ /\ \E err \in {ErrNotFound, ErrWrongState} : ResolvePending(t, err)
        /\ UNCHANGED <<requestVars, fate>>
  /\ UNCHANGED <<impact, sent, book, commits, run, acked, drifted>>

Reject(r, t) ==
  /\ pc[r] = "idle"
  /\ \/ ResolvePending(t, OK) /\ Consume(t, "rejected")
     \/ /\ \E err \in {ErrNotFound, ErrWrongState} : ResolvePending(t, err)
        /\ UNCHANGED fate
  /\ UNCHANGED <<requestVars, impact, sent, book, commits, run, acked,
                 drifted>>

ListApprovals(r) ==
  /\ pc[r] = "idle"
  /\ \E out \in SUBSET Token : ListPending(out)
  /\ UNCHANGED <<requestVars, impact, sent, history>>

-----------------------------------------------------------------------------
(* execute: the statement runs again in a transaction, with COMMIT.        *)

Committed(t, e) ==
  /\ commits' = [commits EXCEPT ![t] = @ + 1]
  /\ run' = [run EXCEPT ![t] = [sql |-> e.sql, rows |-> impact[e.sql]]]

ExecCommits(r) ==
  /\ pc[r] = "exec"
  /\ Committed(tok[r], held[r])
  /\ At(r, "reply", tok[r], None)
  /\ UNCHANGED <<items, issued, impact, sent, book, fate, acked, drifted>>

\* The COMMIT was sent and its answer is lost: the caller gets an error and
\* does not know, nor do we, whether the statement is or will be in the
\* database.
ExecUnheard(r) ==
  /\ pc[r] = "exec"
  /\ sent' = [sent EXCEPT ![tok[r]] = held[r]]
  /\ Return(r)
  /\ UNCHANGED <<items, issued, impact, history>>

\* The database carries such a COMMIT out, if it does at all: nothing obliges
\* it to.
LateCommit(t) ==
  /\ sent[t] # None
  /\ Committed(t, sent[t])
  /\ sent' = [sent EXCEPT ![t] = None]
  /\ UNCHANGED <<items, issued, requestVars, impact, book, fate, acked,
                 drifted>>

\* Begin, Exec or Commit failed, or the client went away: rolled back.
ExecFails(r) ==
  /\ pc[r] = "exec"
  /\ Return(r)
  /\ UNCHANGED <<items, issued, impact, sent, history>>

Reply(r) ==
  /\ pc[r] = "reply"
  /\ acked' = acked \cup {tok[r]}
  /\ Return(r)
  /\ UNCHANGED <<items, issued, impact, sent, book, fate, commits, run,
                 drifted>>

\* The client is no longer there to be told.
ReplyLost(r) ==
  /\ pc[r] = "reply"
  /\ Return(r)
  /\ UNCHANGED <<items, issued, impact, sent, history>>

-----------------------------------------------------------------------------
(* What goes on around the requests.                                       *)

CollectGarbage == GC /\ UNCHANGED <<requestVars, impact, sent, history>>

Clock == Tick /\ UNCHANGED <<requestVars, impact, sent, history>>

\* Other writers, and the statements committed here, change what a statement
\* would affect.
Drift(s, n) ==
  /\ impact[s] # n
  /\ impact'  = [impact EXCEPT ![s] = n]
  /\ drifted' = drifted \cup {s}
  /\ UNCHANGED <<items, issued, requestVars, sent, book, fate, commits, run,
                 acked>>

\* The process is killed and started again: requests and tokens are gone, what
\* was committed stays, and a COMMIT may have been on its way.
Restart ==
  /\ Forget
  /\ pc'   = [r \in Request |-> "idle"]
  /\ tok'  = [r \in Request |-> None]
  /\ held' = [r \in Request |-> None]
  /\ sent' = [t \in Token |->
       IF \E r \in Request : pc[r] = "exec" /\ tok[r] = t
       THEN held[CHOOSE r \in Request : pc[r] = "exec" /\ tok[r] = t]
       ELSE sent[t]]
  /\ fate' = [t \in Token |-> IF Live(t) THEN "lost" ELSE fate[t]]
  /\ UNCHANGED <<impact, book, commits, run, acked, drifted>>

Begin(r) ==
  \/ \E s \in Statement, o \in Origin : Measure(r, s, o)
  \/ \E t \in Token :
       ConfirmPeek(r, t) \/ AskPeek(r, t) \/ Approve(r, t) \/ Reject(r, t)
  \/ ListApprovals(r)

Continue(r) ==
  \/ \E t \in Token : EmitToken(r, t)
  \/ EmitFails(r) \/ ConfirmTake(r) \/ AskMark(r)
  \/ ExecCommits(r) \/ ExecUnheard(r) \/ ExecFails(r)
  \/ Reply(r) \/ ReplyLost(r)

Next ==
  \/ \E r \in Request : Begin(r) \/ Continue(r)
  \/ \E t \in Token : LateCommit(t)
  \/ CollectGarbage
  \/ Clock
  \/ \E s \in Allowed, n \in 0..RowBound : Drift(s, n)
  \/ Restart

Spec == Init /\ [][Next]_vars

\* A goroutine that can run does run; a database call returns, if only with an
\* error; runGC's ticker fires; time passes.
Fairness ==
  /\ \A r \in Request : WF_vars(Continue(r))
  /\ WF_vars(CollectGarbage)
  /\ WF_vars(Clock)

FairSpec == Spec /\ Fairness
=============================================================================
