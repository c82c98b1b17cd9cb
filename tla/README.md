# deitafix: TLA+ models, checks and proofs

deitafix lets a person, or an agent on a person's behalf, repair data in a
production database: a statement is *previewed* (run and rolled back, its row
count measured), a one-use *token* is issued for it, and a human *confirms* the
token, which runs the statement again and commits it. What an agent previews is
executed only after a human has approved it.

The models are about what tests of this code can hardly reach: requests that
interleave between two acquisitions of the store's mutex, tokens that expire in
the middle, acknowledgements that are lost, restarts, data that changes between
preview and confirm, shared deadlines, a page whose answers arrive late, a
shutdown with requests in flight.

Contents: [inventory](#inventory) - [modules](#modules) -
[state and actions](#state-and-actions) - [runs](#runs) -
[fairness](#fairness) - [proofs](#proofs) - [findings](#findings) -
[limits](#limits) - [plan](#plan)

## Inventory

| component | source | state | operations |
|---|---|---|---|
| token store | `internal/store` | `items`: token to entry, state, `expiresAt`; one mutex | Put, Take, Peek, RequestApproval, Approve, Reject, ListPending, GC |
| service | `internal/api/service.go` | none of its own; each request is a goroutine | Preview, PreviewMCP, Confirm, RequestApproval, ListPending, Approve, Reject, Ready |
| engines | `internal/engine/{postgres,mysql,open}.go` | connection pool | Preview (rollback), Confirm (commit), Columns, Ping, Close |
| schema cache | `internal/engine/introspect.go` | `cached`, `cachedAt`, `key`; one mutex | Columns |
| AI of the service | `internal/api/ai.go` | none | SuggestSQL, enrichPreview, heuristicRisk |
| AI client | `internal/ai` | none | SuggestSQL, ExplainImpact, ReviewStatement, JSON extraction, prompts |
| guards | `internal/guard` | none | Check, CheckAffectedRows |
| parsers | `internal/engine/*_parse.go` | none | classification of one parsed statement |
| bounded SQL | `internal/engine/build.go` | none | BuildSQL |
| HTTP surface | `internal/api/{router,approval}.go` | switches and credentials, fixed at start | routes, bearer auth, handlers, error to status |
| MCP surface | `internal/mcp` | none | tools `preview` and `confirm` |
| configuration | `internal/config` | none | Load |
| web UI | `internal/ui` | the page's own | preview, confirm, approvals |
| process | `cmd/deitafix` | none | start, collector, orderly shutdown |

How they interact. Both surfaces call the service; the HTTP surface with origin
`ui`, the MCP surface with origin `mcp`. The service calls the guards and an
engine's parser, the engine's Preview and Confirm, and the store. Everything the
requests share is behind two mutexes, the store's and the schema cache's, and
neither is held while the database or the model is asked. A collector goroutine
(`runGC`) shares the store. The AI is called after the token exists.

What is hard, and what makes each component correct:

* **store** - six places notice expiry, each in its own way. A token is handed
  out once, never after its time, only by a call made for it; no call renews
  it; abandoned tokens are collected.
* **service** - Confirm is Peek, then Take; the agent's confirm is Peek, then
  RequestApproval; each pair is two critical sections. One commit per token;
  nothing of an agent's without an approval; nothing after a rejection; nothing
  that was not previewed within the guards and the cap; no "executed" that is
  not so; every request answered.
* **engines** - a COMMIT can take effect and its acknowledgement be lost; a
  statement runs on after its caller was told of an error; calls share a pool
  and wait for each other's locks. A preview leaves nothing, an early error is
  final, "ok" is committed, every call gives its connection back.
* **schema cache** - the fetch runs outside the mutex. Answers are for the
  tables asked for and of bounded age; the model is asked although a lookup
  failed or was too slow.
* **AI of the service** - two calls under one deadline. The risk shown is never
  below the heuristic; the preview is answered in time.
* **guards, parsers, bounded SQL** - pure. Of the statements on one table and of
  the bounded operations exactly those that should get through do, whichever
  parser read them; a statement on several is the matter of a
  [finding](#findings). A bounded operation is built into a statement that means
  the same, and builder, parser and guards agree on it.
* **surfaces, configuration** - two groups of routes, each behind a switch and a
  credential of its own, set up from a dozen variables. Nobody gets anything done
  who was not let in; a refusal means that nothing has changed.
* **web UI** - requests overlap, answers come late, the form stays open, one
  flag serves all. What runs is what was on the screen at the click; success is
  shown only for what is so; the buttons come back.
* **process** - an orderly end cuts no request off; a signal ends the process.
* **AI client** - the model writes what it likes around the JSON it was asked
  for. What is read is the object at the first brace, whole.

PROJECT.json lists every hazard at the line where it bites, with the properties
that would catch it.

## Modules

| module | what it is |
|---|---|
| `TokenLifecycle` | abstract: the life of a token as drawn in `store.go:57-65`, plus "lost" at a restart |
| `TokenStore` | the store's methods as atomic actions, each with the error it returns |
| `StoreCalls` | the store under arbitrary callers, with its promises |
| `Service` | concurrent requests over `TokenStore` and a database that changes by itself |
| `ServiceSafety` | properties of `Service`, its refinement mapping to `TokenLifecycle`, its inductive invariant |
| `MCService` | symmetry for TLC |
| `ServiceProofs` | proofs about `StoreCalls` and about `Service`, the refinement of `TokenLifecycle` among them |
| `SchemaCache`, `SchemaCacheProofs` | the cache under concurrent lookups, and proofs |
| `TxOutcome` | abstract: what `Engine` promises of a call, one answer and an effect that lands at most once |
| `TxEngine`, `TxEngineProofs` | Preview and Confirm over a pool and a database server, and proofs |
| `BoundedSQL` | `buildBoundedSQL`, one turn of a loop at a time |
| `Gate`, `GateProofs` | a request through `resolveSQL`, builder, parser and guards, and proofs about it and the builder |
| `WebUI`, `MCWebUI`, `WebUIProofs` | the page over `TokenLifecycle`: handlers cut at their awaits, answers late or lost; symmetry for TLC; proofs |
| `ModelReply`, `ModelReplyProofs` | one call to the model, with the scan that cuts the JSON object out, and lemmas that tie the scan to a grammar |
| `Surfaces` | environment, router, middleware, handlers of both surfaces with the calls to the model, error to status |
| `Lifecycle` | the process from start to end, with requests, event streams and a pool |
| `ProcessProofs` | proofs about `Lifecycle`, `Surfaces` and the call to the model within it |
| `Risk`, `Insight`, `InsightProofs` | the risk functions, the enrichment of one preview, and proofs |

`Service` and `StoreCalls` EXTEND `TokenStore`: the same store actions are
driven once by the service's own calls and once by every call there is. `Gate`
EXTENDS `BoundedSQL`, whose steps are one stretch of its way. `TxOutcome` is what
`Service` assumes of a database call: `Land` with `TellOk` is `ExecCommits`,
`TellEarly` is `ExecFails`, `TellInDoubt` is `ExecUnheard`, and `Land` after it
is `LateCommit`. `WebUI` EXTENDS `TokenLifecycle`, which `Service` is proved to
implement, and puts the page in front of it. `Surfaces` EXTENDS `ModelReply`:
a suggestion is one call to the model, a preview two. The correspondence of
names is by inspection; that `TxEngine` implements `TxOutcome` is checked and
proved.

An operator whose comment begins with "Variant" is a plausible bug of the
operator that follows it. No specification uses it; it is kept to show that a
property would notice.

## State and actions

**TokenStore.** `items[t]` is the map's entry: what was previewed (`sql`, the
measured `rows`, the `origin`), its `state` and `left`, the time until
`expiresAt` in ticks. `After(t)`, that is `now.After(expiresAt)`, is
`left < 0`: an entry is good at the very instant it expires, as in the code.
`executed`, `rejected` and `expired` are never stored in `items`: the code
deletes instead, and so does the model. Arguments, operation and table of an
entry travel with its `sql`. Tokens are 128 random bits; the model never draws
one twice (`issued`).

**Service.** One request is at `idle`, or between two steps:

| place | the code is | next step |
|---|---|---|
| `put` | after `engine.Preview` and the cap, before `PutWithOrigin` | `EmitToken`, `EmitFails` |
| `take` | in Confirm between Peek and Take | `ConfirmTake` |
| `mark` | in RequestApproval between Peek and the store's call | `AskMark` |
| `exec` | in `execute`, the token consumed, the database at work | `ExecCommits`, `ExecFails`, `ExecUnheard` |
| `reply` | with a result for its client | `Reply`, `ReplyLost` |

`impact[s]` is how many rows statement `s` would affect now; `Drift` changes it
at any moment. `Restart` empties the store and ends every request but keeps what
was committed. `book`, `fate`, `commits`, `run`, `acked` and `drifted` are
history, which no action reads.

**SchemaCache.** A lookup is at `fetch` (miss, the query is out), `store` (the
database has read, the result is not stored), or done: `served`, `fetched`,
`failed`; then the suggestion is at `model`, with the columns of its tables or
with none. The only caller always asks for the whitelist; a second list of tables
is there to test the comparison of keys, which the cache makes for callers it
does not have yet. `cachedAge` is `now - cachedAt`; `readAge` is the history of when the
database was really read.

**TxEngine.** A call is at `wait` (for a connection), `exec`, `commit` (about to
send it), `ack` (COMMIT sent), `rollback` (the deferred function) or `done`.
`told` is the result, set where the code returns it, before the deferred
Rollback runs. `conns` holds the pool's connections, `link` those that still
reach the server, `tx` each transaction as the server has it. The server's
actions, and `LinkLost`, are not in the code: they are what a database may do
with what the code asks of it. A context that ends while a command runs makes
both drivers drop the connection; while none runs, it makes the next command
fail (`BeginFails`, `CommitNotSent`). The two engines differ in one error path,
`RowsAffected` of MySQL, which `ExecErrs` includes.

**BoundedSQL.** `phase` is the loop, `left` the columns it has still to write,
`text` and `args` what it has written. Columns are numbers, in the place of
strings, for their order alone; 0 is the empty name, which the builder quotes
like any other. `Read(i)` is the value the database binds to the
i-th "column = placeholder": by number for Postgres, by position for MySQL.

**Gate.** A request is at `resolve`, `build`, `judge` or `answered`; `tree` is
what a parser returns, as far as the code looks at it, and `verdict` the error.
The engine fixes parser and placeholders together, as `Open` does. The target
clause is its leaves in reading order, of which TiDB's parser may have several.
`writes` are the tables the statement writes; no code reads it, the requirements
do. `Grammatical` ties it to the rest as the two grammars do: in Postgres a
statement writes its relation and whatever members of its WITH clause write, in
MySQL one or several of the tables it joins. A built statement is one on one
table; it does not parse under Postgres if one of its columns is called nothing.

**Insight.** `left` is what remains of `aiPreviewTimeout`, `call` of the running
call's `AI_TIMEOUT`. The model's opinion is one of the levels or "other"
(empty, misspelt, or not the JSON it was asked for).

**WebUI.** `page` is the Alpine component's `this`, as far as something depends on
it: `shown` is `previewedStmt`, `form` what the fields would send (both modes are
one value), `preview` and `result` the token behind the numbers on the screen.
A handler is one action up to its first `await`, and one from an answer to its
next `await` or its end. A slot of `calls` is a fetch in flight: "sent" until the
server has done something for it, then "ok", or "bad" if the page is told of an
error although it was done. A list travels in the slot, so it can be old when it
arrives. `book`, `life` and `source` are the server's; `ran` and `clicked` are
history. What is disabled while loading is so by `Free`; the links of the header
and the form are not.

**Surfaces.** `stage` is how far the process (`boot`, `exited`, `idle`) or the one
request at hand has got: `probe`, `page`, `flag` (requireEnabled), `auth`
(bearerAuth), `decode`, `service`, `model` (a call of `ModelReply` is under way),
`answered`. `did` collects what was done for the request, whatever its answer.

**Lifecycle.** `proc` is where `run` is, `code` what it will return. A request is accepted, waits for a
connection, holds one, replies, is answered, or is "cut" by the end of the
process. `motor` matters for `Exit` alone: pgxpool's Close waits for connections
that are handed out, database/sql's does not.

**ModelReply.** `pos`, `depth`, `inStr` and `escaped` are the scan's variables.
A byte is a brace ("open", "close"), a quote, a backslash or another one. `result` is what the
method of the client returns, after the scan and what `json.Unmarshal` makes of
the object.

## Runs

| run | expected | bounds | question |
|---|---|---|---|
| `Store_calls` | pass, 14,286 states | 2 tokens, 2 statements, TTL 2 | what the store promises by itself |
| `Service_safety` | pass, 514,929 states | 2 tokens, 2 requests, 2 statements (one refused), TTL 1, 0..2 rows, cap 1 | what the service must never do; it implements the token life |
| `Service_liveness` | pass, 55,228 states | 1 token, 3 requests | every request is answered |
| `SchemaCache_lookups` | pass, 114,738 states | 2 lookups, 2 lists of tables, TTL 2, deadline 1, 1 ALTER | age and fit of answers; the model is asked whatever fails |
| `TxEngine` | pass, 30,086 states | 1 preview, 2 confirms, pool of 2 | what a caller is told against what the server does; connections and locks end |
| `Gate` | pass, 99,704 states | 3 columns (one without a name), 2 values, 2 tables (one allowed), 2 leaves, either engine, every kind of tree | of one table, exactly what should get through does; a built statement means its operation |
| `Insight_enrich` | pass, 1,589 states | cap 8, every operation and count; budget 3 < 2 timeouts of 2 | risk floor, time |
| `WebUI` | pass, 1,065,030 states | 2 tokens, 2 statements, 2 requests in flight | what runs was on the screen; success is true; the buttons come back |
| `Surfaces` | pass, 1,482,842 states | every environment and request, model texts of up to 5 bytes | who gets what done, what an answer tells, what is read of a reply |
| `Lifecycle` | pass, 1,172 states | 2 requests, 1 stream, pool of 1, either engine | orderly end; a signal ends it |
| `Service_cap` | violation | 1 token, 2 requests | see [findings](#findings) |
| `Gate_targets` | violation | 2 columns, 1 value, 2 tables (one allowed), 2 leaves | see [findings](#findings) |

Why these bounds are enough. Two requests are enough for every race here,
because a step of a request depends on its own place and on one token's entry;
three are used for liveness, so that two can lose. Two tokens show that nothing
done to one touches the other. A TTL of one tick lets a token be good, at its
last instant and outdated; two in the store's own run separate "no time passed"
from "some". The cap of one row with statements of up to two rows has counts
below, at and above the cap. A budget of three ticks and timeouts of two make
either limit the one that ends the second call. A cap of eight makes every
quarter a whole number, so every threshold is met exactly and missed by one.
Three calls on two connections make one wait for the pool while another waits
for a lock. Three columns in two clauses of different length let the numbering
of WHERE start at 1, 2, 3 or 4, and one of them is the empty name; two leaves are the least that tell the first
table from another. Two requests in flight let every answer meet a page that has
moved on. A pool of one makes one request wait for the other. Five bytes hold a
nested object with a byte beside it, a string with a brace in it, and an escaped
quote or backslash in a string that is not closed; larger texts were tried up to
seven bytes, which hold an escaped brace or quote in a whole object. The theorems
hold without any of these bounds.

Bounds in the modules: `Slot` (requests of one page in flight), `Req` (requests in
the life of a process), `MaxText` (bytes of the model's text), `RowBound` (rows a statement can affect), `MaxVersion`
(number of ALTERs), `left` held at -1 and ages held at `Old` once no comparison
can tell them apart; `MaxConns` and `MaxLeaves` (size of the pool, and of a
target clause). MySQL's pool has no limit in the code, which is a `MaxConns` not
below the number of calls. Deadlock is checked everywhere but where the model is
one life that ends: one preview (`Insight`), one request (`Gate`), a process
(`Lifecycle`, `Surfaces`), and calls each of which is made once (`TxEngine`).

## Fairness

* `StoreCalls`: weak fairness of the clock and of the collector (`runGC` runs
  until the process ends). No caller is obliged to call, so collection depends
  on nobody.
* `Service` (`FairSpec`): weak fairness of each request's own steps, the
  collector and the clock. The Go scheduler runs every runnable goroutine, the
  mutex is not held across any wait, and a database call returns, if only with an
  error. That last is an assumption on the driver: `execute` sets no timeout of
  its own. No new request and no restart is ever forced.
* `SchemaCache`: weak fairness of each lookup's steps. The query runs under
  `schemaTimeout`; the clock waits for a lookup whose time is over. The call to
  the model ends, with an answer or an error, under `AI_TIMEOUT`.
* `TxEngine` (`FairSpec`): weak fairness of each call's own next step, so a free
  connection goes to who waits for it and a command over a lost connection fails;
  and of the server: it carries out what it was asked once the rows are free,
  decides a COMMIT, and notices connections that are gone. Nothing obliges a
  connection to be lost, a context to end or the process to die.
* `Lifecycle`: weak fairness of `run`'s own steps, Shutdown's deadline included,
  of each request's own steps and of the database's answers. That last one is
  again an assumption. No client of a stream is obliged to leave, and no signal
  to come.
* `WebUI`, `Surfaces`, `Insight` and `Gate` state safety only.

## Proofs

TLAPS proves, for every value of the constants that satisfies the named
assumptions (sets of any size, any TTL, cap, budget and timeout):

* `ServiceProofs`: `Invariance` and, from it, `CommitsOnce`, `HumanInTheLoop`,
  `RejectionIsFinal`, `NothingBlind`, `NoFalseReply`, `Exclusive`,
  `NothingHidden`, `PreviewToldTheTruth`, `ProposalsSurvive`; and `Refinement`,
  the service implements `TokenLifecycle`. Of the store by itself:
  `CallsInvariance`, `OneUse`, `NothingAfterExpiry`, `NobodyElseRemoves`,
  `NothingExtends`.
* `SchemaCacheProofs`: `CacheInvariance`, `BoundedStaleness`, `RightTables`.
* `TxEngineProofs`: `TxInvariance`, `PreviewsLeaveNothing`,
  `EarlyErrorsAreFinal`, `OkMeansCommitted`, and `TxRefinement`, the engines
  implement `TxOutcome`.
* `GateProofs`: `BuildInvariance`, `BuildIsFaithful`, `TextDetermined` of the
  builder; `GateInvariance`, `GateExact`, `BuiltIsRefusedForItsNames`.
* `WebUIProofs`: `ScreenIsRight`, `OnlyWhatWasShown`, `SuccessIsReal`,
  `NeverStuck`.
* `InsightProofs`: `InsightInvariance`, `DelayIsBounded`, `LargeDeletesAreHigh`,
  `RiskMonotone`, `DeleteIsRiskier`.
* `ProcessProofs`: `LifecycleInvariance`, `OrderlyEnd` of the process;
  `SurfaceInvariance`, `LetIn`, `RefusedForNothing` of what it answers;
  `ReplyInvariance`, `CutOutWhole` of what it reads of a model's text, from the
  lemmas of `ModelReplyProofs`.

Assumptions: `StoreAssumption`, `NoneAssumption`, `ServiceAssumption`,
`CacheAssumption`, `NoneColumns`, `InsightAssumption`, `NoneInsight`,
`TxAssumption`, `ColumnAssumption`, `GateAssumption`, `WebUIAssumption`,
`LifecycleAssumption`, `ModelReplyAssumption`: bounds are natural numbers, a pool has a connection,
`None` and the like are no values of the sets they stand beside, the two origins
differ, no call is both a preview and a confirm, columns are ordered like
numbers.

The argument for the service. No property above is inductive: from a state in
which two requests are at `exec` with one token, each step alone is innocent.
`IInv` says why such a state is never reached:

* `StoreInv`: what is in the map is as it was issued and has not been used
  (`fate` is "open"), and is pending only if it is an agent's.
* `RequestInv`: what a request learned at Peek still holds at its second step,
  because the origin of a token never changes; a request at `exec` holds the
  entry the token was issued with, and nothing of it is committed or under way.
* `SentInv`: a COMMIT that was given up is that of a consumed token and would be
  its first.
* `HolderInv`: two requests at `exec` hold different tokens. Only `ConfirmTake`
  and `Approve` bring a request there, and both delete a present entry; a token
  at `exec` is not open, so by `StoreInv` not present.
* `FateInv`, `BookInv`: the way a token left fits its origin, and only such a
  token is committed, once, with the statement it was issued for.

Peek needs no token to be kept: `RequestInv` says nothing of presence between
Peek and Take. That the gap is harmless is just this.

`PreviewToldTheTruth` needs `ImpactInv` besides: as long as a statement has not
drifted, every measurement and every commit of it agree with `impact`.
`Refinement` maps a token that is not issued, live, consumed, rejected, lost or
else (absent or outdated, still "open") to the abstract states; expiry is the step
of the clock that makes `left` negative, whenever the entry is deleted later.

For the engines, `EarlyErrorIsFinal` is not inductive: a transaction that is
"changed" could be committed later. `TxInv` adds where a COMMIT can come from:
only a confirm at `commit` sends one, it then is at `ack`, and leaves it with
"ok" or an error of COMMIT; whoever was told an earlier error never was there.
`TxRefinement` maps a transaction that can still be committed to "possible"; a
confirm that is told an early error, or whose deferred Rollback is due without
a COMMIT sent, is "never" from that step on, and what the server does with it
afterwards is a stutter.

For the builder, `BuildInv` says that text and arguments are aligned
(`Aligned`), that a loop has written just the columns it no longer has before it,
all smaller than those (`Remaining`), and that what was refused at the start
cannot be met later (`Admitted`). `GateInv` carries it along and says which
answer each place is on the way to. `GateExact` needs besides that the leftmost
table exists when any table does, which rests on the well-ordering of the
naturals (`LeastNatural`), that it is one of those named (`TableNamed`), and that
it is the one table of a statement that has one (`OneTableRead`).

For the page, `PageInv` says what every request in flight carries: a preview's
token belongs to its statement, and a confirm or an approval in flight is for a
statement that was on the screen (`CallFits`). That is why a late answer is
harmless: it brings its own statement with it, and the history of the click was
written when the request was sent. `ExecutedAsShown`, `DoneIsTrue` and `NotStuck`
are inductive beside it.

For the store by itself, `CallsInv` ties the map to what was handed out: an entry
that is present has been drawn and not been handed out, and a token that was once
outdated is outdated or gone. `Put` draws a token that was never drawn, so nothing
comes back. The action properties follow from what each method does to the map
(`MethodDoes`, `SweepDoes`, `TickDoes`), whichever error it returns.

For the process, `LifecycleInv` says that between `Drained` and the end nobody is
busy as long as the code is 0: requests are accepted while `proc` is "serving"
only. It carries that the requests that hold a connection are finitely many,
so that their number can be counted in a pool of any size.

For what it answers, `SurfaceInv` says what a request has passed once it is at a
stage: who is at `decode` or beyond carries the credential of its surface
(`Credential`) behind the switch, and until the service is called nothing has been
done for it. `CallReturns` is the table of what each call of the service may
return with what it has done by then; the two promises are read off it
(`GoodAnswer`). A preview waiting for the model holds a token that nobody has been
told of; `Asked` says that it can only end in an answer.

For the scan of a model's text, `FirstObject` speaks of its end only. `ReplyInv`
says what each byte leaves to be read: text[first brace .. j] is an object exactly
if the bytes from `pos` to j are in `Expected(depth, inStr, escaped)`. That is a
language read off the grammar and not off the scan: the rest of an object, a
closing brace, and so on outwards (`Rest[d]`), with the rest of a string before it
(`RestInString`), and any byte before that (`RestEscaped`). Each branch of the
scan is one lemma on the words of such a language that begin with a given byte
(`OutsideByte`, `InStringByte`, `EscapedByte`); at the last brace only the empty
word is left, so one object begins at the first brace and the scan has met its
end (`Whole`); at the end of a text that never closed, the empty word is not among
the words expected, so there is none (`Never`). An induction over the length of a
word is a descent from a shortest counterexample, which exists because the
naturals are well-founded (`LeastNatural`, `WFMin`); the recursive functions of
the grammar are shown to meet their own equations from their values up to each
length (`QuotedDef`, `PiecesDef`, `RestDef`).

Some of the theorems are not properties of a run, being conjuncts or plain
consequences of an invariant that is (`NoFalseReply` and `Exclusive` of `IInv`,
`OkMeansCommitted` of `TxInv`, `TextDetermined` of `BuildInv`,
`LargeDeletesAreHigh` of `InsightInv`), or the invariant behind one that is
(`GateInvariance`, `CallsInvariance`, `LifecycleInvariance`,
`SurfaceInvariance`, `ReplyInvariance`).

Only model-checked: liveness (`TokensAreCollected`, `RequestsEnd`,
`ModelIsAsked`, `CallsEnd`, `LocksEnd`, `SignalEndsIt`), which is out of the
prover's reach. Every invariant, safety action property and refinement that a
passing run checks has a theorem.

## Findings

Two places where the code does not do what its documentation says have a run
in which TLC finds the behaviour.

* `Service_cap`: `config.go:43` calls MAX_AFFECTED_ROWS the cap on rows a
  statement may affect; the next line speaks of the preview only ("if the preview
  measures more rows, the operation is aborted"), and that is what the code does.
  `execute` does not compare again, so a commit after a drift can exceed the cap.
* `Gate_targets`: `SECURITY.md:56` says a table off the whitelist is refused, and
  `:104` that a WITH clause only reads. Each parser reports one table of a
  statement, `parsePostgres` that of the top-level statement and `parseMySQL` the
  leftmost of the join, and `guard.Check` compares that one. What else the
  statement writes (a member of its WITH clause in Postgres, another target of
  the join in MySQL) is not looked at by the guards. The grants of the database
  user, which the documents name as the second line, are not modelled.

Others were met while modelling; the models follow the code in each.

* `index.html:9-10` says every error of the backend is shown as it is. `doApprove`
  writes the message of a refused approval (649) and then calls `loadPending`,
  which begins by clearing it (609): the human sees the list again and no reason
  (`ApproveFailed`).
* `store.go:35-37` and `245-247` promise ErrWrongState for a token that was
  already resolved. The entry is deleted when it is resolved; the answer is
  ErrNotFound (`ResolvePending`).
* `introspect.go:81-82` says two fetches in flight bring the same result. With an
  ALTER in between they do not, and the older one can be stored last.
  `ServedIsRecent` says how old it can get.
* `service.go:70-73,164-165` and the README promise a null AI block after a
  failure of the AI. The code returns a partial block with the heuristic risk, as
  the comment of `enrichPreview` says (`ExplainFails`, `ReviewFails`).
* `index.html:562` says Cancel goes back without executing anything. It is
  disabled while loading, but the answer to another request clears that flag; a
  click then looks like a cancellation of what is being executed (`cancel`).
* `main.go:32` calls `shutdownTimeout` the margin for closing connections.
  Shutdown keeps to it, but the deferred `eng.Close` of Postgres waits for
  connections in use without a limit (`Exit`).
* `build.go` trims and checks the table's name and not the columns'
  (66-90). A column without a name is built into the statement, and is refused
  later: as `ErrParse` by the Postgres parser, by the server under MySQL
  (`BuiltTree`).
* `docs/API.md:501` keeps 500 for failures. Two refusals of `buildBoundedSQL` have
  no name for `statusForError` to know, and get 500 (`BuildErrors`).
* `anthropic.go:300-301` promises the first balanced object of the text. Only the
  first brace is tried (`FirstObject`).
* Two comments are out of date without an effect on behaviour: `router.go:125`
  and `config.go:69` call the page of the approvals `/pending`; it is
  `/approvals`.

## Limits

* In `Service` a statement is opaque: what `resolveSQL`, the parser and
  `guard.Check` let through is the set `Allowed`, and a database call is one step
  with its outcomes. `Gate` and `TxEngine` are what stands behind either, and are
  not composed with it.
* `impact` abstracts the database to row counts. Isolation levels and triggers
  are not modelled; in `TxEngine` every statement locks the same rows. The
  driver's row count is taken as it is.
* Quoting of identifiers is text; a name that is not empty is taken to come back
  from the parser as it went in (so `BuiltTree`).
* Float comparisons in `heuristicRisk` are cross-multiplied, which is the same
  for row counts a float64 holds exactly.
* One clock; the monotonic clock of the runtime does not go back.
* `WebUI` has no restart of the server, no reload of the page, and no request that
  the server finishes after the page has given up on it. An answer that is lost
  while the statement runs is "bad".
* `Surfaces` takes one request at a time and keeps of a call its errors and
  effects; `Service` has what requests do to each other. Methods other than a
  route's own (405) are not asked. Some environments are left out: two tokens that
  are the same text, an MCP path that is another route's.
* `ModelReply` leaves `json.Unmarshal` open: whether it can read an object, and
  whether the fields are blank, is any choice. Not modelled of `internal/ai`:
  prompts, severities, the encoding of the request.
* Layout, wording, logging, prompts, third-party parsers, drivers, the MCP
  transport and the deployment files are left out.

## Plan

In order of importance; each with its MC configuration, then its proofs where
they are worth having.

1. *(done)* `TokenStore`, `Service`, `TokenLifecycle`: tokens and the human in
   the loop. Proofs: inductive invariant, every safety property, refinement.
2. *(done)* `SchemaCache`, `Risk`, `Insight`.
3. *(done)* `TxOutcome`, `TxEngine`: the transaction inside a database call, and
   that it implements the one step `Service` takes it to be.
4. *(done)* `BoundedSQL`, `Gate`: from a request to a statement that may run.
5. *(done)* `WebUI`: the page's state machine with overlapping requests and late
   answers. Proofs: the page's invariant, what runs was shown, success is true.
6. *(done)* `Lifecycle`: start, signal, shutdown with requests in flight, end.
7. *(done)* `Surfaces`: environment, routes, switches, credentials, handlers of
   both surfaces, errors to statuses.
8. *(done)* `ModelReply`: one call to the model, and the brace matcher against a
   grammar. Composed with `Surfaces`.
9. *(done)* Proofs of the promises of `StoreCalls`, `Lifecycle`, `Surfaces`
   and `ModelReply`.
10. Open: that two parsers given the same tree of one
    table give the same answer; `Service` under a restart in front of `WebUI`.
