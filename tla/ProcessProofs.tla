--------------------------- MODULE ProcessProofs ---------------------------
(***************************************************************************)
(* The process and what it answers.  Its end cuts nobody it promised to    *)
(* wait for, for any number of requests, streams and connections; nothing  *)
(* is done for a request that was not let in, nor kept of one that was     *)
(* refused, whatever the model writes.                                     *)
(***************************************************************************)
EXTENDS Surfaces, Lifecycle, ModelReplyProofs, FiniteSetTheorems, TLAPS

-----------------------------------------------------------------------------
(* Lifecycle.                                                              *)

\* Why an orderly end is orderly: the code stays 0 only on the way through
\* Drained, which met no busy request, and then none is accepted any more.
LifecycleInv ==
  /\ ProcessTypeOK
  /\ IsFiniteSet(Holding) /\ Cardinality(Holding) <= PoolSize
  /\ pool = "closed" => proc \in {"closing", "exited"}
  /\ proc = "draining" => signalled
  /\ proc \in {"closing", "exited"} /\ code = 0 => signalled /\ Busy = {}
  /\ code = 0 => \A r \in Req : at[r] # "cut"

LEMMA InitLifecycle == ProcessInit => LifecycleInv
<1> SUFFICES ASSUME ProcessInit PROVE LifecycleInv
  OBVIOUS
<1>1. ProcessTypeOK
  BY DEF ProcessInit, ProcessTypeOK
<1>2. Holding = {}
  BY DEF ProcessInit, Holding
<1>3. IsFiniteSet(Holding) /\ Cardinality(Holding) <= PoolSize
  BY <1>2, FS_EmptySet, LifecycleAssumption
<1> QED
  BY <1>1, <1>3 DEF ProcessInit, LifecycleInv

\* A step in which no request gets a connection leaves the pool within its
\* size.
LEMMA NoMoreHolding ==
  ASSUME LifecycleInv, Holding' \subseteq Holding
  PROVE  (IsFiniteSet(Holding) /\ Cardinality(Holding) <= PoolSize)'
<1>1. /\ IsFiniteSet(Holding') /\ Cardinality(Holding') <= Cardinality(Holding)
      /\ Cardinality(Holding') \in Nat /\ Cardinality(Holding) \in Nat
  BY FS_Subset, FS_CardinalityType DEF LifecycleInv
<1> QED
  BY <1>1, LifecycleAssumption DEF LifecycleInv

\* run() alone: the requests stay where they are until the end cuts them.
LEMMA RunInv ==
  ASSUME LifecycleInv, Run \/ Signal \/ ListenFails
  PROVE  LifecycleInv'
<1> USE DEF LifecycleInv, ProcessTypeOK
<1>1. CASE UNCHANGED at
  <2>1. Holding' = Holding /\ Busy' = Busy
    BY <1>1 DEF Holding, Busy
  <2>2. CASE StartFails
    BY <2>1, <2>2, NoMoreHolding DEF StartFails
  <2>3. CASE Started
    BY <2>1, <2>3, NoMoreHolding DEF Started
  <2>4. CASE SeesSignal
    BY <2>1, <2>4, NoMoreHolding DEF SeesSignal
  <2>5. CASE Drained
    BY <2>1, <2>5, NoMoreHolding DEF Drained
  <2>6. CASE Deadline
    BY <2>1, <2>6, NoMoreHolding DEF Deadline
  <2>7. CASE ClosePool
    BY <2>1, <2>7, NoMoreHolding DEF ClosePool
  <2>8. CASE Exit
    BY <1>1, <2>1, <2>8, NoMoreHolding DEF Exit
  <2>9. CASE Signal
    BY <2>1, <2>9, NoMoreHolding DEF Signal
  <2>10. CASE ListenFails
    BY <2>1, <2>10, NoMoreHolding DEF ListenFails
  <2> QED
    BY <2>2, <2>3, <2>4, <2>5, <2>6, <2>7, <2>8, <2>9, <2>10 DEF Run
<1>2. CASE Exit
  <2>1. /\ \A r \in Req : at'[r] = IF r \in Busy THEN "cut" ELSE at[r]
        /\ at' \in [Req -> {"none", "accepted", "holding", "replying",
                            "stream", "answered", "cut"}]
    BY <1>2 DEF Exit
  <2>2. Busy' = {} /\ Holding' = {}
    BY <2>1 DEF Busy, Holding
  <2>3. (IsFiniteSet(Holding) /\ Cardinality(Holding) <= PoolSize)'
    BY <2>2, NoMoreHolding
  <2>4. code = 0 => \A r \in Req : at'[r] = at[r]
    BY <1>2, <2>1 DEF Exit
  <2> QED
    BY <1>2, <2>1, <2>2, <2>3, <2>4 DEF Exit
<1> QED
  BY <1>1, <1>2
  DEF Run, StartFails, Started, SeesSignal, Drained, Deadline, ClosePool,
      Signal, ListenFails

\* A request that moves on: it is accepted while the process serves, and gets a
\* connection only if one is free.
LEMMA RequestInv ==
  ASSUME LifecycleInv, NEW r \in Req,
         Accept(r) \/ Proceed(r) \/ DatabaseDone(r) \/ ClientLeaves(r)
  PROVE  LifecycleInv'
<1> DEFINE Steps == {"none", "accepted", "holding", "replying", "stream",
                     "answered"}
<1>1. PICK from \in Steps \ {"answered"}, to \in Steps :
        /\ Goes(r, from, to)
        /\ from = "none" => proc = "serving"
        /\ to \in {"accepted", "stream"} => from = "none"
        /\ to = "holding" => Cardinality(Holding) < PoolSize
  BY DEF Accept, Proceed, Acquire, AcquireFails, DatabaseDone, Reply,
         ClientLeaves
<1>2. /\ at \in [Req -> Steps \cup {"cut"}] /\ at[r] = from
      /\ at' = [at EXCEPT ![r] = to]
      /\ UNCHANGED <<proc, motor, signalled, pool, code>>
  BY <1>1 DEF Goes, LifecycleInv, ProcessTypeOK
<1>3. ProcessTypeOK'
  BY <1>2 DEF LifecycleInv, ProcessTypeOK
<1>4. (IsFiniteSet(Holding) /\ Cardinality(Holding) <= PoolSize)'
  <2>1. CASE to = "holding"
    <3>1. Holding' = Holding \cup {r}
      BY <1>2, <2>1 DEF Holding
    <3>2. /\ IsFiniteSet(Holding') /\ Cardinality(Holding) \in Nat
          /\ Cardinality(Holding') <= Cardinality(Holding) + 1
          /\ Cardinality(Holding') \in Nat
      BY <3>1, FS_AddElement, FS_CardinalityType DEF LifecycleInv
    <3> QED
      BY <1>1, <2>1, <3>2, LifecycleAssumption
  <2>2. CASE to # "holding"
    <3>1. Holding' \subseteq Holding
      BY <1>2, <2>2 DEF Holding
    <3> QED
      BY <3>1, NoMoreHolding
  <2> QED
    BY <2>1, <2>2
<1>5. Busy' \subseteq Busy \/ proc = "serving"
  BY <1>1, <1>2 DEF Busy
<1>6. code = 0 => \A q \in Req : at'[q] # "cut"
  BY <1>1, <1>2 DEF LifecycleInv
<1> QED
  BY <1>2, <1>3, <1>4, <1>5, <1>6 DEF LifecycleInv

LEMMA StepLifecycle ==
  LifecycleInv /\ [ProcessNext]_processVars => LifecycleInv'
<1> SUFFICES ASSUME LifecycleInv, [ProcessNext]_processVars
             PROVE  LifecycleInv'
  OBVIOUS
<1>1. CASE UNCHANGED processVars
  BY <1>1 DEF processVars, LifecycleInv, ProcessTypeOK, Holding, Busy
<1> QED
  BY <1>1, RunInv, RequestInv DEF ProcessNext

\* The inductive invariant of the process (main.go:40-143).
THEOREM LifecycleInvariance == ProcessSpec => []LifecycleInv
BY InitLifecycle, StepLifecycle, PTL DEF ProcessSpec

\* run() returns nil only after a signal and when everybody has been answered;
\* the pool hands out no more connections than it has (main.go:125-143).
THEOREM OrderlyEnd == ProcessSpec => []DrainedCutsNobody
<1>1. LifecycleInv => DrainedCutsNobody
  BY DEF LifecycleInv, DrainedCutsNobody, ProcessTypeOK
<1> QED
  BY <1>1, LifecycleInvariance, PTL

-----------------------------------------------------------------------------
(* Surfaces.                                                               *)

\* The request carries the credential of its surface.
Credential ==
  \/ req.route \in Human /\ cfg.UIAuthToken \in {"unset", req.bearer}
  \/ /\ req.route \in Agent /\ cfg.MCPEnabled
     /\ req.bearer # "unset" /\ req.bearer = cfg.MCPAuthToken

\* A preview that has its token, or a suggestion, while the model writes.
Asked ==
  /\ err = "nil" /\ status = 0
  /\ \/ /\ req.route = "/preview" /\ method \in {"explain", "review"}
        /\ did \subseteq {"measured", "issued", "modelAsked"}
     \/ /\ req.route = "/ai/suggest" /\ method = "suggest"
        /\ did \subseteq {"schemaRead", "modelAsked"}

\* How far a request gets says what it has passed, and until the service or the
\* model is asked nothing has been done for it.
SurfaceInv ==
  /\ OnlyTheLetInWork /\ RefusalMeansNoEffect
  /\ method \in {"suggest", "explain", "review"}
  /\ method = "suggest" =>
       result \in {"running", "scanned", "error", "proposal"}
  /\ stage \notin {"model", "answered"} => did = {} /\ err = "nil" /\ status = 0
  /\ stage = "probe" => req.route \in Probes
  /\ stage = "page" => req.route \notin Human \cup Probes
  /\ stage \in {"flag", "auth", "decode", "service", "model"} =>
       \/ req.route \in Human
       \/ req.route \in Agent /\ cfg.MCPEnabled
  /\ stage \in {"auth", "decode", "service", "model"} => cfg.Enabled
  /\ stage \in {"decode", "service", "model"} => Credential
  /\ stage = "model" => Asked
LEMMA OutcomesAre ==
  ASSUME NEW E, NEW S, NEW o \in Outcomes(E, S)
  PROVE  o.err \in E /\ o.did = S
BY DEF Outcomes

\* What a call may return, with what it has done by then.
Refusals == Errors \ {"nil", "badRequest", "failure"}
CallReturns(route, e, d) ==
  \/ e \in Refusals /\ d = {}
  \/ e \in {"failure", "ErrRowsExceeded"} /\ d = {"measured"}
       /\ route \in Previews
  \/ e = "nil" /\ d = {"measured", "issued"} /\ route \in Previews
  \/ e = "failure" /\ d = {"consumed"}
       /\ route \in {"/confirm", "/pending/approve"}
  \/ e \in {"failure", "nil"} /\ d = {"consumed", "committed"}
       /\ route \in {"/confirm", "/pending/approve"}
  \/ e = "nil" /\ d = {"moved"} /\ route = "mcp/confirm"
  \/ e = "nil" /\ d = {"listed"} /\ route = "/pending"
  \/ e = "nil" /\ d = {"rejected"} /\ route = "/pending/reject"

LEMMA NamedErrors ==
  /\ InputErrors \subseteq Refusals /\ ParseErrors \subseteq Refusals
  /\ GuardErrors \subseteq Refusals /\ BuildErrors \subseteq Refusals
  /\ LimitErrors \subseteq Refusals /\ TokenErrors \subseteq Refusals
  /\ "ErrAIDisabled" \in Refusals
<1> USE DEF Errors, Refusals
<1>1. InputErrors \subseteq Refusals /\ ParseErrors \subseteq Refusals
  BY DEF InputErrors, ParseErrors
<1>2. GuardErrors \subseteq Refusals /\ BuildErrors \subseteq Refusals
  BY DEF GuardErrors, BuildErrors
<1>3. LimitErrors \subseteq Refusals /\ TokenErrors \subseteq Refusals
  BY DEF LimitErrors, TokenErrors
<1> QED
  BY <1>1, <1>2, <1>3

LEMMA Refused ==
  ASSUME NEW E \in SUBSET Refusals, NEW o \in Outcomes(E, {}), NEW route
  PROVE  CallReturns(route, o.err, o.did)
<1>1. o.err \in E /\ o.did = {}
  BY OutcomesAre
<1> QED
  BY <1>1 DEF CallReturns

\* execute is behind a human's confirm and a human's approval only.
LEMMA CallOutcome ==
  ASSUME NEW r \in Request, r.route \in Human \cup Agent, NEW o \in Call(r)
  PROVE  CallReturns(r.route, o.err, o.did)
<1>0. r.tok \in {"none", "ui", "mcp", "pending"}
      /\ r.in \in {"raw", "op", "badOp", "both", "neither"}
  BY DEF Request
<1>1. /\ "ErrNotFound" \in Refusals /\ "ErrMCPRequiresApproval" \in Refusals
      /\ "ErrConfirmNotMCP" \in Refusals /\ "ErrWrongState" \in Refusals
      /\ "ErrAmbiguousInput" \in Refusals /\ "ErrEmptyInput" \in Refusals
      /\ "ErrMissingWhere" \in Refusals
      /\ "ErrTableNotWhitelisted" \in Refusals /\ "ErrParse" \in Refusals
  BY NamedErrors DEF TokenErrors, InputErrors, GuardErrors, ParseErrors
<1>2. CASE r.route \in Previews
  <2>1. o \in Preview(r.in)
    BY <1>2 DEF Call, Previews
  <2> DEFINE refusals ==
        CASE r.in = "both"    -> {"ErrAmbiguousInput"}
          [] r.in = "neither" -> {"ErrEmptyInput"}
          [] r.in = "raw"     -> ParseErrors \cup GuardErrors
          [] OTHER -> BuildErrors \cup {"ErrMissingWhere", "ErrParse",
                                        "ErrTableNotWhitelisted"}
  <2>2. refusals \subseteq Refusals
    BY <1>0, <1>1, NamedErrors
  <2>3. \/ o \in Outcomes(refusals, {})
        \/ o \in Outcomes(Failures \cup {"ErrRowsExceeded"}, {"measured"})
        \/ o \in Outcomes({"nil"}, {"measured", "issued"})
    BY <1>0, <2>1 DEF Preview
  <2>4. CASE o \in Outcomes(refusals, {})
    <3> HIDE DEF refusals
    <3> QED
      BY <2>2, <2>4, Refused
  <2>5. CASE o \in Outcomes(Failures \cup {"ErrRowsExceeded"}, {"measured"})
    <3>1. o.err \in {"failure", "ErrRowsExceeded"} /\ o.did = {"measured"}
      BY <2>5, OutcomesAre DEF Failures
    <3> QED
      BY <1>2, <3>1 DEF CallReturns
  <2>6. CASE o \in Outcomes({"nil"}, {"measured", "issued"})
    <3>1. o.err = "nil" /\ o.did = {"measured", "issued"}
      BY <2>6, OutcomesAre
    <3> QED
      BY <1>2, <3>1 DEF CallReturns
  <2> QED
    BY <2>3, <2>4, <2>5, <2>6
<1>3. CASE r.route \in {"/confirm", "/pending/approve"}
  <2>1. \/ o \in execute
        \/ \E e \in Refusals : o \in Outcomes({e}, {})
    BY <1>0, <1>1, <1>3 DEF Call, Confirm, Resolve
  <2>2. CASE o \in execute
    <3>1. \/ o \in Outcomes(Failures, {"consumed"})
          \/ o \in Outcomes({"failure", "nil"}, {"consumed", "committed"})
      BY <2>2 DEF execute
    <3>2. \/ o.err = "failure" /\ o.did = {"consumed"}
          \/ o.err \in {"failure", "nil"} /\ o.did = {"consumed", "committed"}
      BY <3>1, OutcomesAre DEF Failures
    <3> QED
      BY <1>3, <3>2 DEF CallReturns
  <2>3. CASE \E e \in Refusals : o \in Outcomes({e}, {})
    BY <2>3, Refused
  <2> QED
    BY <2>1, <2>2, <2>3
<1>4. CASE r.route = "mcp/confirm"
  <2>1. \/ o \in Outcomes({"nil"}, {"moved"})
        \/ \E e \in Refusals : o \in Outcomes({e}, {})
    BY <1>0, <1>1, <1>4 DEF Call, RequestApproval
  <2>2. o \in Outcomes({"nil"}, {"moved"}) =>
          o.err = "nil" /\ o.did = {"moved"}
    BY OutcomesAre
  <2>3. (\E e \in Refusals : o \in Outcomes({e}, {})) =>
          CallReturns(r.route, o.err, o.did)
    BY Refused
  <2> QED
    BY <1>4, <2>1, <2>2, <2>3 DEF CallReturns
<1>5. CASE r.route = "/pending/reject"
  <2>1. \/ o \in Outcomes({"nil"}, {"rejected"})
        \/ \E e \in Refusals : o \in Outcomes({e}, {})
    BY <1>0, <1>1, <1>5 DEF Call, Resolve
  <2>2. o \in Outcomes({"nil"}, {"rejected"}) =>
          o.err = "nil" /\ o.did = {"rejected"}
    BY OutcomesAre
  <2>3. (\E e \in Refusals : o \in Outcomes({e}, {})) =>
          CallReturns(r.route, o.err, o.did)
    BY Refused
  <2> QED
    BY <1>5, <2>1, <2>2, <2>3 DEF CallReturns
<1>6. CASE r.route = "/pending"
  <2>1. o \in Outcomes({"nil"}, {"listed"})
    BY <1>6 DEF Call
  <2> QED
    BY <1>6, <2>1, OutcomesAre DEF CallReturns
<1>7. CASE r.route = "/ai/suggest"
  <2>1. o \in Outcomes({"ErrAIDisabled"}, {})
    BY <1>7 DEF Call
  <2> QED
    BY <2>1, Refused, NamedErrors
<1> QED
  BY <1>2, <1>3, <1>4, <1>5, <1>6, <1>7 DEF Human, Agent, Previews

LEMMA StatusOf ==
  ASSUME NEW e \in Errors
  PROVE  /\ statusForError(e) \in {400, 404, 409, 422, 500, 503}
         /\ e = "failure" => statusForError(e) = 500
<1>1. statusForError(e) \in {400, 404, 409, 422, 500, 503}
  BY DEF statusForError
<1>2. statusForError("failure") = 500
  BY DEF statusForError, InputErrors, GuardErrors, LimitErrors, TokenErrors
<1> QED
  BY <1>1, <1>2

LEMMA InitSurface == Init => SurfaceInv
<1> SUFFICES ASSUME Init PROVE SurfaceInv
  OBVIOUS
<1>1. /\ stage = "boot" /\ cfg = NoConfig /\ req = NoRequest
      /\ did = {} /\ err = "nil" /\ status = 0
      /\ method = "suggest" /\ result = "running"
  BY DEF Init, ReplyInit
<1>2. NoRequest \in Request
  BY DEF NoRequest, Request, Human, Agent, Probes, Pages, Previews, ByToken
<1>3. TypeOK
  BY <1>1, <1>2 DEF TypeOK, NoConfig, Errors
<1>4. OnlyTheLetInWork /\ RefusalMeansNoEffect
  BY <1>1, <1>3 DEF OnlyTheLetInWork, RefusalMeansNoEffect
<1> QED
  BY <1>1, <1>4 DEF SurfaceInv

\* An answer that says what the promises ask of it.
GoodAnswer(st, e, d) ==
  /\ st \in {200, 400, 401, 404, 409, 422, 500, 503}
  /\ e \in Errors /\ d \in SUBSET Effects
  /\ \/ d = {}
     \/ d \subseteq {"ping"} /\ req.route \in Probes
     \/ cfg.Enabled /\ Credential
  /\ req.route \in Agent => d \cap {"committed", "rejected", "consumed"} = {}
  /\ ~cfg.Enabled /\ req.route \in Human => st = 503
  /\ st \in 400..499 \cup {503} => d \cap Lasting = {}
  /\ st = 200 /\ e # "nil" => d \cap Lasting = {}
  /\ st = 200 /\ e = "nil" /\ req.route \in {"/confirm", "/pending/approve"}
       => "committed" \in d
  /\ "issued" \in d => st = 200 /\ e = "nil"

LEMMA AnswerInv ==
  ASSUME SurfaceInv, NEW st, NEW e, NEW d, GoodAnswer(st, e, d),
         Answer(st, e, d)
  PROVE  SurfaceInv'
<1> USE DEF GoodAnswer
<1>1. /\ stage' = "answered" /\ status' = st /\ err' = e /\ did' = d
      /\ UNCHANGED <<cfg, req, method, result>>
  BY DEF Answer, replyVars
<1>2. TypeOK'
  BY <1>1 DEF SurfaceInv, OnlyTheLetInWork, TypeOK
<1>3. OnlyTheLetInWork'
  <2>1. d \subseteq {"ping"} \/ cfg.Enabled
    OBVIOUS
  <2>2. d \cap {"committed", "rejected", "consumed"} # {} =>
          req.route \in Human /\ cfg.UIAuthToken \in {"unset", req.bearer}
    BY DEF Credential
  <2>3. d # {} /\ req.route \in Agent =>
          /\ cfg.MCPEnabled /\ req.bearer # "unset"
          /\ req.bearer = cfg.MCPAuthToken
    BY DEF Credential, Probes, Human, Agent
  <2> QED
    BY <1>1, <1>2, <2>1, <2>2, <2>3 DEF OnlyTheLetInWork
<1>4. RefusalMeansNoEffect'
  BY <1>1 DEF RefusalMeansNoEffect
<1> QED
  BY <1>1, <1>3, <1>4 DEF SurfaceInv

\* So does a step that only passes the request on.
LEMMA PassInv ==
  ASSUME SurfaceInv, NEW to \in {"auth", "decode", "service"}, Pass(to),
         stage \in {"flag", "auth", "decode"},
         cfg.Enabled, to \in {"decode", "service"} => Credential
  PROVE  SurfaceInv'
<1>1. /\ stage' = to /\ did = {} /\ err = "nil" /\ status = 0
      /\ UNCHANGED <<cfg, req, did, err, status, method, result>>
  BY DEF Pass, SurfaceInv, replyVars
<1>2. OnlyTheLetInWork' /\ RefusalMeansNoEffect'
  BY <1>1
  DEF SurfaceInv, OnlyTheLetInWork, RefusalMeansNoEffect, TypeOK
<1> QED
  BY <1>1, <1>2 DEF SurfaceInv, Credential

LEMMA BootInv ==
  ASSUME SurfaceInv, Boot
  PROVE  SurfaceInv'
<1>1. /\ stage = "boot" /\ stage' \in {"exited", "idle"}
      /\ did = {} /\ err = "nil" /\ status = 0
      /\ UNCHANGED <<req, did, err, status, method, result>>
  BY DEF Boot, SurfaceInv, replyVars
<1>2. cfg' \in [Enabled : BOOLEAN, MCPEnabled : BOOLEAN, AIEnabled : BOOLEAN,
              MCPAuthToken : {"unset", "agent"},
              UIAuthToken : {"unset", "human"}]
  <2>1. \A v : parseBool(v) \in BOOLEAN
    BY DEF parseBool
  <2>2. \A e \in Env : /\ e.MCP_AUTH_TOKEN \in {"unset", "agent"}
                       /\ e.UI_AUTH_TOKEN \in {"unset", "human"}
    BY DEF Env
  <2>3. PICK e \in Env : UNCHANGED cfg \/ cfg' = Load(e)
    BY DEF Boot
  <2>4. (e.AI_API_KEY # "unset") \in BOOLEAN
    OBVIOUS
  <2>5. Load(e) \in [Enabled : BOOLEAN, MCPEnabled : BOOLEAN,
                     AIEnabled : BOOLEAN,
                     MCPAuthToken : {"unset", "agent"},
                     UIAuthToken : {"unset", "human"}]
    BY <2>1, <2>2, <2>4 DEF Load
  <2> QED
    BY <2>3, <2>5 DEF SurfaceInv, OnlyTheLetInWork, TypeOK
<1>3. OnlyTheLetInWork' /\ RefusalMeansNoEffect'
  BY <1>1, <1>2
  DEF SurfaceInv, OnlyTheLetInWork, RefusalMeansNoEffect, TypeOK
<1> QED
  BY <1>1, <1>3 DEF SurfaceInv

LEMMA ArriveInv ==
  ASSUME SurfaceInv, NEW r \in Request, Arrive(r)
  PROVE  SurfaceInv'
<1>1. /\ stage = "idle" /\ req' = r /\ did = {} /\ err = "nil" /\ status = 0
      /\ UNCHANGED <<cfg, did, err, status, method, result>>
  BY DEF Arrive, SurfaceInv, replyVars
<1>2. /\ stage' \in {"probe", "flag", "page"}
      /\ stage' = "probe" => r.route \in Probes
      /\ stage' = "flag" => r.route \in Human
                              \/ (r.route \in Agent /\ cfg.MCPEnabled)
      /\ stage' = "page" => r.route \notin Human \cup Probes
  BY DEF Arrive
<1>3. OnlyTheLetInWork' /\ RefusalMeansNoEffect'
  BY <1>1, <1>2
  DEF SurfaceInv, OnlyTheLetInWork, RefusalMeansNoEffect, TypeOK
<1> QED
  BY <1>1, <1>2, <1>3 DEF SurfaceInv
\* What the router answers by itself.
LEMMA PagesInv ==
  ASSUME SurfaceInv, Probe \/ Page
  PROVE  SurfaceInv'
<1>1. "nil" \in Errors
  BY DEF Errors
<1>2. ASSUME NEW st \in {200, 404, 503}, NEW d \in {{}, {"ping"}},
             Answer(st, "nil", d), req.route \notin Human,
             d = {} \/ req.route \in Probes
      PROVE  SurfaceInv'
  <2>1. d \in SUBSET Effects /\ d \cap Lasting = {} /\ "issued" \notin d
        /\ d \cap {"committed", "rejected", "consumed"} = {}
    BY <1>2 DEF Effects, Lasting
  <2>2. req.route \notin {"/confirm", "/pending/approve"}
    BY <1>2 DEF Human
  <2> QED
    BY <1>1, <1>2, <2>1, <2>2, AnswerInv DEF GoodAnswer
<1>3. CASE Probe
  <2>1. req.route \in Probes /\ req.route \notin Human
    BY <1>3 DEF Probe, SurfaceInv, Probes, Human
  <2> QED
    BY <1>2, <1>3, <2>1 DEF Probe
<1>4. CASE Page
  <2>1. req.route \notin Human
    BY <1>4 DEF Page, SurfaceInv
  <2> QED
    BY <1>2, <1>4, <2>1 DEF Page
<1> QED
  BY <1>3, <1>4

\* The switch, the credential, the body.
LEMMA MiddlewareInv ==
  ASSUME SurfaceInv, requireEnabled \/ bearerAuth \/ Decode
  PROVE  SurfaceInv'
<1>1. ASSUME NEW st \in {200, 400, 401, 503}, NEW e \in {"nil", "badRequest"},
             Answer(st, e, {}),
             st = 200 => e # "nil",
             ~cfg.Enabled /\ req.route \in Human => st = 503
      PROVE  SurfaceInv'
  <2>1. e \in Errors
    BY DEF Errors
  <2>2. GoodAnswer(st, e, {})
    BY <1>1, <2>1 DEF GoodAnswer
  <2> QED
    BY <1>1, <2>2, AnswerInv
<1>2. CASE requireEnabled
  <2>1. CASE cfg.Enabled
    BY <1>2, <2>1, PassInv DEF requireEnabled
  <2>2. CASE ~cfg.Enabled
    <3>1. Answer(503, "nil", {})
      BY <1>2, <2>2 DEF requireEnabled
    <3> QED
      BY <1>1, <3>1
  <2> QED
    BY <2>1, <2>2
<1>3. CASE bearerAuth
  <2>1. /\ stage = "auth" /\ cfg.Enabled
        /\ \/ req.route \in Human
           \/ req.route \in Agent /\ cfg.MCPEnabled
    BY <1>3 DEF bearerAuth, SurfaceInv
  <2>2. CASE Answer(401, "nil", {})
    BY <1>1, <2>1, <2>2
  <2>3. CASE ~Answer(401, "nil", {})
    <3>1. Pass("decode")
      BY <1>3, <2>3 DEF bearerAuth
    <3>2. Credential
      BY <1>3, <2>1, <2>3 DEF bearerAuth, Credential, Human, Agent
    <3> QED
      BY <2>1, <3>1, <3>2, PassInv
  <2> QED
    BY <2>2, <2>3
<1>4. CASE Decode
  <2>1. stage = "decode" /\ cfg.Enabled /\ Credential
    BY <1>4 DEF Decode, SurfaceInv
  <2>2. \/ Answer(200, "badRequest", {}) \/ Answer(400, "badRequest", {})
        \/ Pass("service")
    BY <1>4 DEF Decode, Fault
  <2>3. ASSUME NEW st \in {200, 400}, Answer(st, "badRequest", {})
        PROVE  SurfaceInv'
    BY <1>1, <2>1, <2>3
  <2> QED
    BY <2>1, <2>2, <2>3, PassInv
<1> QED
  BY <1>2, <1>3, <1>4

\* The model is asked with what the call has done, and only by the routes that
\* show what it says.
LEMMA AskInv ==
  ASSUME SurfaceInv, NEW m \in {"suggest", "explain", "review"},
         NEW d \in SUBSET Effects, AskModel(m, d),
         cfg.Enabled, Credential, err = "nil", status = 0,
         \/ req.route = "/preview" /\ m # "suggest"
              /\ d \subseteq {"measured", "issued", "modelAsked"}
         \/ req.route = "/ai/suggest" /\ m = "suggest"
              /\ d \subseteq {"schemaRead", "modelAsked"}
  PROVE  SurfaceInv'
<1>1. /\ stage' = "model" /\ did' = d \cup {"modelAsked"}
      /\ method' = m /\ result' = "running"
      /\ UNCHANGED <<cfg, req, err, status>>
  BY DEF AskModel, Ask
<1>2. TypeOK'
  BY <1>1 DEF SurfaceInv, OnlyTheLetInWork, TypeOK, Effects
<1>3. did' \cap {"committed", "rejected", "consumed"} = {}
  BY <1>1
<1>4. req.route \in Human /\ req.route \notin Agent
  BY DEF Human, Agent
<1>5. OnlyTheLetInWork' /\ RefusalMeansNoEffect'
  <2>1. OnlyTheLetInWork'
    BY <1>1, <1>2, <1>3, <1>4 DEF OnlyTheLetInWork
  <2>2. RefusalMeansNoEffect'
    BY <1>1 DEF RefusalMeansNoEffect
  <2> QED
    BY <2>1, <2>2
<1>6. Asked'
  BY <1>1 DEF Asked
<1>7. Credential'
  BY <1>1 DEF Credential
<1> QED
  BY <1>1, <1>4, <1>5, <1>6, <1>7 DEF SurfaceInv

LEMMA ServeInv ==
  ASSUME SurfaceInv, Serve
  PROVE  SurfaceInv'
<1>1. /\ stage = "service" /\ cfg.Enabled /\ Credential
      /\ did = {} /\ err = "nil" /\ status = 0 /\ req \in Request
      /\ req.route \in Human \cup Agent
  BY DEF Serve, SurfaceInv, OnlyTheLetInWork, TypeOK
<1>2. CASE Suggests /\ AskModel("suggest", {"schemaRead"})
  <2>1. req.route = "/ai/suggest" /\ {"schemaRead"} \in SUBSET Effects
    BY <1>2 DEF Suggests, Effects
  <2> QED
    BY <1>1, <1>2, <2>1, AskInv
<1>3. ASSUME NEW o \in Call(req)
      PROVE  /\ o.err \in Errors /\ o.did \in SUBSET Effects
             /\ o.err \notin {"nil", "failure"} => o.did \cap Lasting = {}
             /\ req.route \in Agent =>
                  /\ o.did \cap {"committed", "rejected", "consumed"} = {}
                  /\ o.err # "nil" => o.did \cap Lasting = {}
             /\ req.route \in {"/confirm", "/pending/approve"}
                  /\ o.err = "nil" => "committed" \in o.did
             /\ "issued" \in o.did => o.err = "nil"
             /\ req.route = "/preview" /\ o.err = "nil" =>
                  o.did \subseteq {"measured", "issued"}
  <2>1. CallReturns(req.route, o.err, o.did)
    BY <1>1, <1>3, CallOutcome
  <2> QED
    BY <2>1
    DEF CallReturns, Refusals, Errors, Failures, LimitErrors, Effects, Lasting,
        Previews, Agent
<1>4. ASSUME NEW o \in Call(req),
             Answer(IF o.err = "nil" \/ req.route \in Agent THEN 200
                    ELSE statusForError(o.err), o.err, o.did)
      PROVE  SurfaceInv'
  <2> DEFINE st == IF o.err = "nil" \/ req.route \in Agent THEN 200
                   ELSE statusForError(o.err)
  <2>1. /\ st \in {200, 400, 404, 409, 422, 500, 503}
        /\ st = 200 => o.err = "nil" \/ req.route \in Agent
        /\ o.err = "nil" => st = 200
        /\ st \in 400..499 \cup {503} => o.err \notin {"nil", "failure"}
    BY <1>3, <1>4, StatusOf
  <2>2. Answer(st, o.err, o.did)
    BY <1>4
  <2> HIDE DEF st
  <2>3. ~cfg.Enabled => FALSE
    BY <1>1
  <2>4. GoodAnswer(st, o.err, o.did)
    BY <1>1, <1>3, <2>1, <2>3 DEF GoodAnswer
  <2> QED
    BY <2>2, <2>4, AnswerInv
<1>5. ASSUME NEW o \in Call(req), req.route = "/preview", o.err = "nil",
             AskModel("explain", o.did)
      PROVE  SurfaceInv'
  BY <1>1, <1>3, <1>5, AskInv
<1> QED
  BY <1>2, <1>4, <1>5 DEF Serve

\* A suggestion ends as a proposal or an error, and no other method as one.
LEMMA ModelInv ==
  ASSUME SurfaceInv, Model
  PROVE  SurfaceInv'
<1>1. /\ stage = "model" /\ method' = method
      /\ UNCHANGED <<stage, cfg, req, did, err, status>>
  BY DEF Model, surfaceVars, ReplyNext, Unanswered, Answered, NoObject, Start,
         InString, Outside, Close, Conclude
<1>2. method = "suggest" =>
        result' \in {"running", "scanned", "error", "proposal"}
  BY DEF SurfaceInv, Model, ReplyNext, Unanswered, Answered, NoObject, Start,
         InString, Outside, Close, Conclude
<1>3. TypeOK' /\ Credential' /\ Asked'
  BY <1>1 DEF SurfaceInv, OnlyTheLetInWork, TypeOK, Credential, Asked
<1>4. OnlyTheLetInWork'
  BY <1>1, <1>3 DEF SurfaceInv, OnlyTheLetInWork
<1>5. RefusalMeansNoEffect'
  BY <1>1 DEF SurfaceInv, RefusalMeansNoEffect
<1> QED
  BY <1>1, <1>2, <1>3, <1>4, <1>5 DEF SurfaceInv

\* A preview is answered whatever its explanation and its review have become.
LEMMA RepliedInv ==
  ASSUME SurfaceInv, Replied
  PROVE  SurfaceInv'
<1>1. /\ stage = "model" /\ result \notin {"running", "scanned"}
      /\ cfg.Enabled /\ Credential /\ Asked /\ did \in SUBSET Effects
  BY DEF Replied, SurfaceInv, OnlyTheLetInWork, TypeOK
<1>2. req.route \notin Agent \cup {"/confirm", "/pending/approve"}
  BY <1>1 DEF Asked, Agent
<1>3. "nil" \in Errors /\ "failure" \in Errors
  BY DEF Errors, Failures
<1>5. CASE method = "explain"
  <2>1. AskModel("review", did)
    BY <1>5 DEF Replied
  <2> QED
    BY <1>1, <1>5, <2>1, AskInv DEF Asked
<1>6. CASE method = "review"
  <2>1. Answer(200, "nil", did)
    BY <1>6 DEF Replied
  <2>2. GoodAnswer(200, "nil", did)
    BY <1>1, <1>2, <1>3 DEF GoodAnswer
  <2> QED
    BY <2>1, <2>2, AnswerInv
<1>7. CASE method = "suggest"
  <2>1. /\ did \subseteq {"schemaRead", "modelAsked"}
        /\ did \cap Lasting = {} /\ "issued" \notin did
    BY <1>1, <1>7 DEF Asked, Lasting
  <2>2. result \in {"error", "proposal"}
    BY <1>1, <1>7 DEF SurfaceInv
  <2>3. Answer(200, "nil", did) \/ Answer(500, "failure", did)
    BY <1>7, <2>2 DEF Replied
  <2>4. CASE Answer(200, "nil", did)
    <3>1. GoodAnswer(200, "nil", did)
      BY <1>1, <1>2, <1>3, <2>1 DEF GoodAnswer
    <3> QED
      BY <2>4, <3>1, AnswerInv
  <2>5. CASE Answer(500, "failure", did)
    <3>1. GoodAnswer(500, "failure", did)
      BY <1>1, <1>2, <1>3, <2>1 DEF GoodAnswer
    <3> QED
      BY <2>5, <3>1, AnswerInv
  <2> QED
    BY <2>3, <2>4, <2>5
<1> QED
  BY <1>5, <1>6, <1>7 DEF SurfaceInv

LEMMA DoneInv ==
  ASSUME SurfaceInv, Done
  PROVE  SurfaceInv'
<1>1. /\ stage' = "idle" /\ req' = NoRequest /\ cfg' = cfg
      /\ did' = {} /\ err' = "nil" /\ status' = 0
      /\ method' = "suggest" /\ result' = "running"
  BY DEF Done, Ask
<1>2. NoRequest \in Request
  BY DEF NoRequest, Request, Human, Agent, Probes, Pages, Previews, ByToken
<1>3. TypeOK'
  <2>1. "nil" \in Errors
    BY DEF Errors
  <2> QED
    BY <1>1, <1>2, <2>1 DEF SurfaceInv, OnlyTheLetInWork, TypeOK
<1>4. OnlyTheLetInWork' /\ RefusalMeansNoEffect'
  BY <1>1, <1>3 DEF OnlyTheLetInWork, RefusalMeansNoEffect
<1> QED
  BY <1>1, <1>4 DEF SurfaceInv

LEMMA StepSurface == SurfaceInv /\ [Next]_vars => SurfaceInv'
<1> SUFFICES ASSUME SurfaceInv, [Next]_vars PROVE SurfaceInv'
  OBVIOUS
<1>1. CASE UNCHANGED vars
  <2>1. UNCHANGED <<stage, cfg, req, did, err, status, method, result>>
    BY <1>1 DEF vars, surfaceVars, replyVars
  <2>2. TypeOK' /\ Credential' = Credential /\ Asked' = Asked
    BY <2>1 DEF SurfaceInv, OnlyTheLetInWork, TypeOK, Credential, Asked
  <2>3. OnlyTheLetInWork'
    BY <2>1, <2>2 DEF SurfaceInv, OnlyTheLetInWork
  <2>4. RefusalMeansNoEffect'
    BY <2>1 DEF SurfaceInv, RefusalMeansNoEffect
  <2> QED
    BY <2>1, <2>2, <2>3, <2>4 DEF SurfaceInv
<1> QED
  BY <1>1, BootInv, ArriveInv, PagesInv, MiddlewareInv, ServeInv, ModelInv,
     RepliedInv, DoneInv
  DEF Next

\* The inductive invariant of the way through the router.
THEOREM SurfaceInvariance == Spec => []SurfaceInv
BY InitSurface, StepSurface, PTL DEF Spec

\* Nothing is done behind the switch or without the credential of the surface
\* (router.go:35-116, server.go:123-158).
THEOREM LetIn == Spec => []OnlyTheLetInWork
BY SurfaceInvariance, PTL DEF SurfaceInv

\* A refusal leaves nothing behind, and a token is issued to whoever is told
\* (router.go:372-421).
THEOREM RefusedForNothing == Spec => []RefusalMeansNoEffect
BY SurfaceInvariance, PTL DEF SurfaceInv

-----------------------------------------------------------------------------
(* What the model writes, cut out by the scan (ModelReplyProofs).          *)

\* A call of the model is under way or it is not: the scan goes on by its own
\* steps, begins again, or stands still.
LEMMA StepReply == SurfaceInv /\ ReplyInv /\ [Next]_vars => ReplyInv'
<1> SUFFICES ASSUME SurfaceInv, ReplyInv, [Next]_vars PROVE ReplyInv'
  OBVIOUS
<1>1. UNCHANGED replyVars => ReplyInv'
  BY ReplyStutter
<1>2. \A m \in {"suggest", "explain", "review"} : Ask(m) => ReplyInv'
  BY ReplyFresh
<1>3. CASE \/ Boot \/ \E r \in Request : Arrive(r)
           \/ Probe \/ Page \/ requireEnabled \/ bearerAuth \/ Decode
  <2>1. UNCHANGED replyVars
    BY <1>3 DEF Boot, Arrive, Probe, Page, requireEnabled, bearerAuth, Decode,
       Fault, Pass, Answer
  <2> QED
    BY <1>1, <2>1
<1>4. CASE Serve
  <2>1. UNCHANGED replyVars \/ \E m \in {"suggest", "explain"} : Ask(m)
    BY <1>4 DEF Serve, AskModel, Answer
  <2> QED
    BY <1>1, <1>2, <2>1
<1>5. CASE Replied
  <2>1. method = "explain" \/ method = "review" \/ method = "suggest"
    BY DEF SurfaceInv
  <2>2. CASE method = "explain"
    <3>1. AskModel("review", did)
      BY <1>5, <2>2 DEF Replied
    <3> QED
      BY <1>2, <3>1 DEF AskModel
  <2>3. CASE method = "review"
    <3>1. Answer(200, "nil", did)
      BY <1>5, <2>3 DEF Replied
    <3> QED
      BY <1>1, <3>1 DEF Answer
  <2>4. CASE method = "suggest"
    <3>1. result \in {"error", "proposal"}
      BY <1>5, <2>4 DEF SurfaceInv, Replied
    <3>2. Answer(200, "nil", did) \/ Answer(500, "failure", did)
      BY <1>5, <2>4, <3>1 DEF Replied
    <3> QED
      BY <1>1, <3>2 DEF Answer
  <2> QED
    BY <2>1, <2>2, <2>3, <2>4
<1>6. CASE Model
  BY <1>6, ReplyStep DEF Model
<1>7. CASE Done
  BY <1>2, <1>7 DEF Done
<1>8. CASE UNCHANGED vars
  BY <1>1, <1>8 DEF vars
<1> QED
  BY <1>3, <1>4, <1>5, <1>6, <1>7, <1>8 DEF Next

\* The inductive invariant of the scan, through every call of the model.
THEOREM ReplyInvariance == Spec => []ReplyInv
<1>1. Init => ReplyInv
  BY ReplyFresh DEF Init
<1> QED
  BY <1>1, StepReply, SurfaceInvariance, PTL DEF Spec

\* Whatever the model writes, and however long it is, what is decoded is the
\* object at its first brace, whole, or nothing (anthropic.go:289-303).
THEOREM CutOutWhole == Spec => []FirstObject
BY ReplyInvariance, PTL DEF ReplyInv
=============================================================================
