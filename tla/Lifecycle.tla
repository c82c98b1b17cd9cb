----------------------------- MODULE Lifecycle -----------------------------
(***************************************************************************)
(* The process from its start to its end (src/cmd/deitafix/main.go).       *)
(*                                                                         *)
(* run() opens the engine, serves until the listener fails or a signal     *)
(* comes, lets Shutdown wait for the requests in flight for at most        *)
(* shutdownTimeout, and closes the engine on its way out.  Shutdown stops  *)
(* waiting at its deadline but cancels nobody.                             *)
(*                                                                         *)
(* External: net/http's Shutdown, and the two pools.  Closing pgxpool      *)
(* waits until every connection is given back; database/sql returns at     *)
(* once and closes a busy connection when it comes back.                   *)
(***************************************************************************)
EXTENDS Naturals, FiniteSets

CONSTANTS
  Req,       \* requests of the process's life: a bound
  Stream,    \* those that are MCP event streams, open as long as the client is
  PoolSize   \* connections of the pool

ASSUME LifecycleAssumption == Stream \subseteq Req /\ PoolSize \in Nat \ {0}

VARIABLES
  proc,       \* where run() is
  motor,      \* cfg.Engine
  signalled,  \* the context of signal.NotifyContext is done
  pool,       \* the engine's pool
  code,       \* what run() will return: 0 for nil, 1 for an error
  at          \* at[r]: where a request is

processVars == <<proc, motor, signalled, pool, code, at>>

Busy == {r \in Req : at[r] \in {"accepted", "holding", "replying", "stream"}}
Holding == {r \in Req : at[r] = "holding"}

ProcessInit ==
  /\ proc = "starting" /\ motor \in {"postgres", "mysql"}
  /\ signalled = FALSE
  /\ pool = "none" /\ code = 0
  /\ at = [r \in Req |-> "none"]

\* SIGTERM or SIGINT.  A second one changes nothing: the context is done.
Signal ==
  /\ proc # "exited" /\ ~signalled
  /\ signalled' = TRUE
  /\ UNCHANGED <<proc, motor, pool, code, at>>

\* The configuration is refused, or the engine cannot be opened, also because
\* the signal came first.
StartFails ==
  /\ proc = "starting"
  /\ proc' = "exited" /\ code' = 1
  /\ UNCHANGED <<motor, signalled, pool, at>>

Started ==
  /\ proc = "starting"
  /\ proc' = "serving" /\ pool' = "open"
  /\ UNCHANGED <<motor, signalled, code, at>>

\* errCh: the port is taken, or accepting fails later on.  Nobody waits for the
\* requests in flight.
ListenFails ==
  /\ proc = "serving"
  /\ proc' = "closing" /\ code' = 1
  /\ UNCHANGED <<motor, signalled, pool, at>>

SeesSignal ==
  /\ proc = "serving" /\ signalled
  /\ proc' = "draining"
  /\ UNCHANGED <<motor, signalled, pool, code, at>>

\* Variant: srv.Close in the place of srv.Shutdown.
DrainedAtOnce ==
  /\ proc = "draining"
  /\ proc' = "closing"
  /\ UNCHANGED <<motor, signalled, pool, code, at>>

Drained ==
  /\ proc = "draining" /\ Busy = {}
  /\ proc' = "closing"
  /\ UNCHANGED <<motor, signalled, pool, code, at>>

\* Variant: Shutdown is given a context without a deadline.
DeadlineNever == FALSE

Deadline ==
  /\ proc = "draining"
  /\ proc' = "closing" /\ code' = 1
  /\ UNCHANGED <<motor, signalled, pool, at>>

\* The deferred eng.Close: no connection is handed out from here on.
ClosePool ==
  /\ proc = "closing" /\ pool = "open"
  /\ pool' = "closed"
  /\ UNCHANGED <<proc, motor, signalled, code, at>>

\* Close returns, run returns, and the process takes what is left with it.
Exit ==
  /\ proc = "closing" /\ pool = "closed"
  /\ motor = "postgres" => Holding = {}
  /\ proc' = "exited"
  /\ at' = [r \in Req |-> IF r \in Busy THEN "cut" ELSE at[r]]
  /\ UNCHANGED <<motor, signalled, pool, code>>

-----------------------------------------------------------------------------
(* A request: it waits for a connection, uses it, gives it back, answers.  *)

Goes(r, from, to) ==
  /\ proc # "exited" /\ at[r] = from
  /\ at' = [at EXCEPT ![r] = to]
  /\ UNCHANGED <<proc, motor, signalled, pool, code>>

Accept(r) ==
  /\ proc = "serving"
  /\ Goes(r, "none", IF r \in Stream THEN "stream" ELSE "accepted")

Acquire(r) ==
  /\ pool = "open" /\ Cardinality(Holding) < PoolSize
  /\ Goes(r, "accepted", "holding")

\* A closed pool refuses: the request answers 500.
AcquireFails(r) == pool = "closed" /\ Goes(r, "accepted", "replying")

DatabaseDone(r) == Goes(r, "holding", "replying")

Reply(r) == Goes(r, "replying", "answered")

ClientLeaves(r) == r \in Stream /\ Goes(r, "stream", "answered")

Proceed(r) == Acquire(r) \/ AcquireFails(r) \/ Reply(r)

Run == StartFails \/ Started \/ SeesSignal \/ Drained \/ Deadline \/ ClosePool
         \/ Exit

ProcessNext ==
  \/ Run \/ Signal \/ ListenFails
  \/ \E r \in Req : \/ Accept(r) \/ Proceed(r)
                    \/ DatabaseDone(r) \/ ClientLeaves(r)

\* The process goes on, its deadline passes, and database calls end; the
\* clients of the streams may stay for ever.
ProcessFairness ==
  /\ WF_processVars(Run)
  /\ \A r \in Req : /\ WF_processVars(Proceed(r))
                    /\ WF_processVars(DatabaseDone(r))

ProcessSpec == ProcessInit /\ [][ProcessNext]_processVars /\ ProcessFairness

-----------------------------------------------------------------------------
ProcessTypeOK ==
  /\ proc \in {"starting", "serving", "draining", "closing", "exited"}
  /\ motor \in {"postgres", "mysql"}
  /\ signalled \in BOOLEAN
  /\ pool \in {"none", "open", "closed"} /\ code \in {0, 1}
  /\ at \in [Req -> {"none", "accepted", "holding", "replying", "stream",
                     "answered", "cut"}]

\* An orderly end cuts nobody: run returns nil only when every request that was
\* accepted has been answered, and the pool is closed under a request only after
\* the deadline or a failure of the listener (main.go:125, "shutdown graceful").
DrainedCutsNobody ==
  /\ ProcessTypeOK
  /\ Cardinality(Holding) <= PoolSize
  /\ pool = "closed" /\ Busy # {} => code = 1
  /\ code = 0 => \A r \in Req : at[r] # "cut"
  /\ code = 0 /\ proc = "exited" => signalled /\ Busy = {}

\* After a signal the process ends, whatever the clients of streams do.
SignalEndsIt == signalled ~> proc = "exited"
=============================================================================
