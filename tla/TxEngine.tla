------------------------------ MODULE TxEngine ------------------------------
(***************************************************************************)
(* Preview and Confirm of the engines, internal/engine/postgres.go and     *)
(* mysql.go: Begin, Exec, COMMIT or nothing, and the deferred Rollback,    *)
(* over a pool of connections and a database server that goes its own way  *)
(* once a connection is lost.                                              *)
(*                                                                         *)
(* A context that is cancelled (the HTTP client went away) makes the       *)
(* driver drop the connection or not send the next command: LinkLost and   *)
(* CommitNotSent.  All statements touch the same rows, so that each waits  *)
(* for the one before it: the worst case.                                  *)
(***************************************************************************)
EXTENDS Naturals, FiniteSets

CONSTANTS
  Previews,  \* calls of Engine.Preview
  Confirms,  \* calls of Engine.Confirm
  MaxConns   \* size of the connection pool

ASSUME TxAssumption ==
  /\ Previews \cap Confirms = {}
  /\ MaxConns \in Nat \ {0}

Calls == Previews \cup Confirms

VARIABLES
  pc,       \* where each call is
  told,     \* its result, set before the deferred Rollback runs
  conns,    \* calls that have a connection of the pool
  link,     \* calls whose connection reaches the server
  tx        \* each call's transaction, on the server

vars == <<pc, told, conns, link, tx>>

Places  == {"idle", "wait", "exec", "commit", "ack", "rollback", "done"}
Answers == {"running", "ok", "begin", "exec", "commit", "killed"}
TxState == {"none", "open", "changed", "sent", "committed", "undone"}

Init ==
  /\ pc    = [c \in Calls |-> "idle"]
  /\ told  = [c \in Calls |-> "running"]
  /\ conns = {}
  /\ link  = {}
  /\ tx    = [c \in Calls |-> "none"]

-----------------------------------------------------------------------------
Goto(c, p) == pc' = [pc EXCEPT ![c] = p]
Tell(c, answer) == told' = [told EXCEPT ![c] = answer]
Server(c, s) == tx' = [tx EXCEPT ![c] = s]

\* Whose uncommitted rows others must wait for.
Locking == {c \in Calls : tx[c] \in {"changed", "sent"}}

-----------------------------------------------------------------------------
(* The call.                                                               *)

Start(c) ==
  /\ pc[c] = "idle"
  /\ Goto(c, "wait")
  /\ UNCHANGED <<told, conns, link, tx>>

\* pool.Begin, db.BeginTx: a connection is free, the transaction is opened.
Begin(c) ==
  /\ pc[c] = "wait"
  /\ Cardinality(conns) < MaxConns
  /\ Goto(c, "exec")
  /\ conns' = conns \cup {c}
  /\ link'  = link \cup {c}
  /\ Server(c, "open")
  /\ UNCHANGED told

\* No server, or the context ended while waiting for a connection.
BeginFails(c) ==
  /\ pc[c] = "wait"
  /\ Goto(c, "done")
  /\ Tell(c, "begin")
  /\ UNCHANGED <<conns, link, tx>>

\* Variant: a preview commits too.
ExecReturnsToCommit(c) ==
  /\ pc[c] = "exec"
  /\ c \in link /\ tx[c] = "changed"
  /\ Goto(c, "commit")
  /\ UNCHANGED <<told, conns, link, tx>>

\* Variant: a preview that went well returns without the deferred Rollback.
ExecReturnsLeavesOpen(c) ==
  /\ pc[c] = "exec"
  /\ c \in link /\ tx[c] = "changed"
  /\ \/ c \in Previews /\ Goto(c, "done") /\ Tell(c, "ok")
     \/ c \in Confirms /\ Goto(c, "commit") /\ UNCHANGED told
  /\ UNCHANGED <<conns, link, tx>>

ExecReturns(c) ==
  /\ pc[c] = "exec"
  /\ c \in link /\ tx[c] = "changed"
  /\ \/ c \in Previews /\ Goto(c, "rollback") /\ Tell(c, "ok")
     \/ c \in Confirms /\ Goto(c, "commit") /\ UNCHANGED told
  /\ UNCHANGED <<conns, link, tx>>

\* Variant: no deferred Rollback on this path.
ExecErrsLeaks(c) ==
  /\ pc[c] = "exec"
  /\ c \notin link \/ tx[c] \in {"undone", "changed"}
  /\ Goto(c, "done")
  /\ Tell(c, "exec")
  /\ UNCHANGED <<conns, link, tx>>

\* The connection is lost, the statement failed, or it ran and RowsAffected
\* could not be read.
ExecErrs(c) ==
  /\ pc[c] = "exec"
  /\ c \notin link \/ tx[c] \in {"undone", "changed"}
  /\ Goto(c, "rollback")
  /\ Tell(c, "exec")
  /\ UNCHANGED <<conns, link, tx>>

SendCommit(c) ==
  /\ pc[c] = "commit"
  /\ c \in link
  /\ Goto(c, "ack")
  /\ Server(c, "sent")
  /\ UNCHANGED <<told, conns, link>>

\* The context has ended, or the connection is lost.
CommitNotSent(c) ==
  /\ pc[c] = "commit"
  /\ Goto(c, "rollback")
  /\ Tell(c, "commit")
  /\ UNCHANGED <<conns, link, tx>>

CommitAcked(c) ==
  /\ pc[c] = "ack"
  /\ c \in link /\ tx[c] = "committed"
  /\ Goto(c, "rollback")
  /\ Tell(c, "ok")
  /\ UNCHANGED <<conns, link, tx>>

\* Variant: a COMMIT whose answer is lost is tried again from the start.
CommitErrsRetries(c) ==
  /\ pc[c] = "ack"
  /\ c \notin link \/ tx[c] = "undone"
  /\ Goto(c, "wait")
  /\ conns' = conns \ {c}
  /\ link'  = link \ {c}
  /\ UNCHANGED <<told, tx>>

\* The server refused, or nobody knows what it did.
CommitErrs(c) ==
  /\ pc[c] = "ack"
  /\ c \notin link \/ tx[c] = "undone"
  /\ Goto(c, "rollback")
  /\ Tell(c, "commit")
  /\ UNCHANGED <<conns, link, tx>>

\* Variant: the deferred function commits.
RollbackCommits(c) ==
  /\ pc[c] = "rollback"
  /\ Goto(c, "done")
  /\ conns' = conns \ {c}
  /\ link'  = link \ {c}
  /\ IF c \in link /\ tx[c] = "changed" THEN Server(c, "sent") ELSE UNCHANGED tx
  /\ UNCHANGED told

\* The deferred Rollback: over a connection that works it ends the transaction,
\* after a COMMIT it does nothing; in any case the connection leaves this call.
Rollback(c) ==
  /\ pc[c] = "rollback"
  /\ Goto(c, "done")
  /\ conns' = conns \ {c}
  /\ link'  = link \ {c}
  /\ IF c \in link /\ tx[c] \in {"open", "changed"} THEN Server(c, "undone")
                                                    ELSE UNCHANGED tx
  /\ UNCHANGED told

-----------------------------------------------------------------------------
(* The server and what lies in between.                                    *)

\* It runs the statement once no other holds the rows, also for a caller that
\* has gone.
ServerRuns(c) ==
  /\ tx[c] = "open"
  /\ Locking = {}
  /\ Server(c, "changed")
  /\ UNCHANGED <<pc, told, conns, link>>

\* A constraint, a lock timeout, a deadlock, a cancel request.
ServerAborts(c) ==
  /\ tx[c] = "open"
  /\ Server(c, "undone")
  /\ UNCHANGED <<pc, told, conns, link>>

\* A COMMIT under way is carried out or is not, whoever is still there.
ServerDecides(c) ==
  /\ tx[c] = "sent"
  /\ Server(c, "committed") \/ Server(c, "undone")
  /\ UNCHANGED <<pc, told, conns, link>>

\* It notices that the connection is gone and rolls back.
ServerGivesUp(c) ==
  /\ tx[c] \in {"open", "changed"} /\ c \notin link
  /\ Server(c, "undone")
  /\ UNCHANGED <<pc, told, conns, link>>

LinkLost(c) ==
  /\ c \in link
  /\ link' = link \ {c}
  /\ UNCHANGED <<pc, told, conns, tx>>

Running == {c \in Calls : pc[c] \notin {"idle", "done"}}

\* The process is killed: no deferred Rollback runs, the sockets close.
Crash ==
  /\ pc'    = [c \in Calls |-> IF c \in Running THEN "done" ELSE pc[c]]
  /\ told'  = [c \in Calls |-> IF c \in Running /\ told[c] = "running"
                               THEN "killed" ELSE told[c]]
  /\ conns' = {}
  /\ link'  = {}
  /\ UNCHANGED tx

Proceed(c) ==
  \/ Begin(c) \/ ExecReturns(c) \/ ExecErrs(c)
  \/ SendCommit(c) \/ CommitAcked(c) \/ CommitErrs(c)
  \/ c \notin link /\ CommitNotSent(c)
  \/ Rollback(c)

Serve(c) == ServerRuns(c) \/ ServerDecides(c) \/ ServerGivesUp(c)

Next ==
  \/ \E c \in Calls :
       \/ Start(c) \/ Proceed(c) \/ BeginFails(c) \/ CommitNotSent(c)
       \/ Serve(c) \/ ServerAborts(c) \/ LinkLost(c)
  \/ Crash

Spec == Init /\ [][Next]_vars

\* A connection that becomes free goes to who waits for it; a command over a
\* connection that works is answered, over a lost one it fails; the server does
\* what it was asked and notices connections that are gone.
Fairness == \A c \in Calls : WF_vars(Proceed(c)) /\ WF_vars(Serve(c))

FairSpec == Spec /\ Fairness
-----------------------------------------------------------------------------
TypeOK ==
  /\ pc    \in [Calls -> Places]
  /\ told  \in [Calls -> Answers]
  /\ conns \subseteq Calls
  /\ link  \subseteq conns
  /\ tx    \in [Calls -> TxState]

\* What the places of a call say of its connection, its transaction and its
\* answer.
CallInv ==
  \A c \in Calls :
    /\ pc[c] \in {"idle", "wait"} => tx[c] = "none" /\ c \notin conns
    /\ pc[c] \in {"idle", "wait", "exec", "commit", "ack"} =>
         told[c] = "running"
    /\ pc[c] \in {"rollback", "done"} => told[c] # "running"
    /\ c \in conns <=> pc[c] \in {"exec", "commit", "ack", "rollback"}
    /\ pc[c] = "exec" => tx[c] \in {"open", "changed", "undone"}
    /\ pc[c] = "commit" => tx[c] \in {"changed", "undone"}
    /\ pc[c] \in {"commit", "ack"} => c \in Confirms
    /\ pc[c] = "commit" /\ c \in link => tx[c] = "changed"
    /\ pc[c] = "ack" => tx[c] \in {"sent", "committed", "undone"}

\* Who may have been committed, and what that says of the answer.
EffectInv ==
  \A c \in Calls :
    /\ tx[c] \in {"sent", "committed"} =>
         c \in Confirms /\ told[c] \in {"running", "ok", "commit", "killed"}
    /\ tx[c] \in {"sent", "committed"} /\ told[c] = "running" => pc[c] = "ack"
    /\ told[c] = "ok" => IF c \in Confirms THEN tx[c] = "committed"
                         ELSE tx[c] \notin {"sent", "committed"}

TxInv == TypeOK /\ CallInv /\ EffectInv

\* A preview measures and leaves nothing: whatever fails, is lost or is killed,
\* and however late the server acts, its statement is not committed
\* (engine.go, Preview).
PreviewLeavesNothing == \A c \in Previews : tx[c] \notin {"sent", "committed"}

\* An error that is not one of COMMIT is a promise: the statement has had no
\* effect and will have none, even if the server was still running it when its
\* caller was told.
EarlyErrorIsFinal ==
  \A c \in Calls : told[c] \in {"begin", "exec"} =>
    tx[c] \notin {"sent", "committed"}

\* A Confirm that returns rows has them in the database, for good.
OkIsCommitted == \A c \in Confirms : told[c] = "ok" => tx[c] = "committed"

\* Every call is answered: no lost connection, lock or error path keeps the
\* pool's connections from those who wait for one.
CallsEnd == \A c \in Calls : pc[c] = "wait" ~> pc[c] = "done"

\* Rows are not locked for ever by a call that failed, was cancelled or died.
LocksEnd == \A c \in Calls : c \in Locking ~> c \notin Locking

-----------------------------------------------------------------------------
EffectOf == [c \in Calls |->
  IF tx[c] = "committed" THEN "landed"
  ELSE IF \/ tx[c] = "sent"
          \/ c \in Confirms /\ pc[c] \in {"idle", "wait", "exec", "commit"}
       THEN "possible"
       ELSE "never"]

Outcome == INSTANCE TxOutcome WITH effect <- EffectOf

\* Both functions keep the promise the service relies on.
ImplementsOutcome == Outcome!OutcomeSpec
=============================================================================
