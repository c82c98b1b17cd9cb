------------------------------ MODULE Surfaces ------------------------------
(***************************************************************************)
(* From the environment to the answer: config.Load decides whether and how *)
(* the service starts, the router which handlers stand behind which        *)
(* middleware, a handler what it asks of the service, the model's replies  *)
(* (ModelReply) what becomes of a suggestion and of a preview's AI block,  *)
(* and statusForError what the client is told.                             *)
(*                                                                         *)
(* One request at a time: what requests do to each other is in Service.    *)
(* Of the service only the errors and effects of each call are kept.       *)
(* Words of the environment stand for their trimmed, lower-case form,      *)
(* "unset" for the empty one, which is also no credential.                 *)
(***************************************************************************)
EXTENDS ModelReply

VARIABLES
  stage,    \* how far the process, or the request, has got
  cfg,      \* the Config
  req,      \* the request
  did,      \* what was done for it
  err,      \* the error the service returned, "nil" for none
  status    \* the HTTP status of the answer, 0 before

surfaceVars == <<stage, cfg, req, did, err, status>>
vars == <<surfaceVars, replyVars>>

-----------------------------------------------------------------------------
(* config.go                                                               *)

Env ==
  [DATABASE_URL : {"unset", "postgres", "mysql", "other"},
   DEITAFIX_ENGINE : {"unset", "postgres", "oracle"},
   DEITAFIX_ENABLED : {"unset", "yes", "maybe"},
   MAX_AFFECTED_ROWS : {"unset", "five", "0", "5"},
   MCP_ENABLED : {"unset", "on"}, MCP_AUTH_TOKEN : {"unset", "agent"},
   MCP_PATH : {"unset", "/mcp", "mcp"},
   UI_AUTH_TOKEN : {"unset", "human"},
   AI_API_KEY : {"unset", "key"}, AI_TIMEOUT : {"unset", "soon", "0s", "9s"}]

parseBool(v) == v \in {"1", "true", "yes", "on"}

inferEngine(url) == IF url = "other" THEN "unset" ELSE url

engineOf(e) ==
  IF e.DEITAFIX_ENGINE # "unset" THEN e.DEITAFIX_ENGINE
  ELSE inferEngine(e.DATABASE_URL)

\* Load returns an error, and the process ends before it listens.
Refuses(e) ==
  \/ e.DATABASE_URL = "unset"
  \/ engineOf(e) \notin {"postgres", "mysql"}
  \/ e.MAX_AFFECTED_ROWS \in {"five", "0"}
  \/ e.MCP_PATH = "mcp"
  \/ parseBool(e.MCP_ENABLED) /\ e.MCP_AUTH_TOKEN = "unset"
  \/ e.AI_TIMEOUT \in {"soon", "0s"}

Load(e) ==
  [Enabled      |-> parseBool(e.DEITAFIX_ENABLED),
   MCPEnabled   |-> parseBool(e.MCP_ENABLED),
   MCPAuthToken |-> e.MCP_AUTH_TOKEN,
   UIAuthToken  |-> e.UI_AUTH_TOKEN,
   AIEnabled    |-> e.AI_API_KEY # "unset"]

NoConfig ==
  [Enabled |-> FALSE, MCPEnabled |-> FALSE, MCPAuthToken |-> "unset",
   UIAuthToken |-> "unset", AIEnabled |-> FALSE]

-----------------------------------------------------------------------------
(* What may be asked.  tok tells how the token sent stands in the store,   *)
(* in is the mode of input of a preview.                                   *)

Human == {"/preview", "/confirm", "/ai/suggest", "/pending",
          "/pending/approve", "/pending/reject"}
Agent == {"mcp/preview", "mcp/confirm"}
Pages == {"/", "/approvals", "/static", "/elsewhere"}
Probes == {"/healthz", "/readyz"}

Previews == {"/preview", "mcp/preview"}
ByToken  == {"/confirm", "mcp/confirm", "/pending/approve", "/pending/reject"}

\* A body is malformed, or its token or its intent is blank; what a route does
\* not take is fixed.
Request ==
  {r \in [route : Human \cup Agent \cup Pages \cup Probes,
          bearer : {"unset", "agent", "human"},
          body : {"fits", "malformed", "blank"},
          in : {"raw", "op", "badOp", "both", "neither"},
          tok : {"none", "ui", "mcp", "pending"}] :
     /\ r.in # "raw" => r.route \in Previews
     /\ r.tok # "none" => r.route \in ByToken
     /\ r.body = "blank" => r.route \in ByToken \cup {"/ai/suggest"}
     /\ r.body = "malformed" =>
          r.route \in Previews \cup Agent \cup {"/confirm", "/ai/suggest"}}

NoRequest == [route |-> "/healthz", bearer |-> "unset", body |-> "fits",
              in |-> "raw", tok |-> "none"]

InputErrors == {"ErrAmbiguousInput", "ErrEmptyInput"}
ParseErrors == {"ErrEmptySQL", "ErrParse", "ErrMultipleStatements"}
GuardErrors == {"ErrMissingWhere", "ErrInsertFromSelect",
                "ErrOperationNotAllowed", "ErrTableNotWhitelisted"}
\* Of buildBoundedSQL, without a name of their own.
BuildErrors == {"noTable", "noSet"}
\* Of the database, the random source, or the model.
Failures    == {"failure"}
\* One statement, and no more rows than the cap.
LimitErrors == {"ErrMultipleStatements", "ErrRowsExceeded"}
TokenErrors == {"ErrNotFound", "ErrWrongState", "ErrMCPRequiresApproval",
                "ErrConfirmNotMCP"}

Errors == InputErrors \cup ParseErrors \cup GuardErrors \cup BuildErrors
            \cup LimitErrors \cup TokenErrors \cup Failures
            \cup {"ErrAIDisabled", "badRequest", "nil"}

\* Variant: what is not known is taken for the client's fault.
statusForErrorDefault400(e) ==
  CASE e = "ErrAIDisabled" -> 503
    [] e = "ErrNotFound"   -> 404
    [] e \in TokenErrors \ {"ErrNotFound"} -> 409
    [] e \in GuardErrors \cup LimitErrors -> 422
    [] OTHER -> 400

statusForError(e) ==
  CASE e = "ErrAIDisabled" -> 503
    [] e = "ErrNotFound"   -> 404
    [] e \in TokenErrors \ {"ErrNotFound"} -> 409
    [] e \in InputErrors \cup {"ErrEmptySQL", "ErrParse"} -> 400
    [] e \in GuardErrors \cup LimitErrors -> 422
    [] OTHER -> 500

-----------------------------------------------------------------------------
(* service.go: the errors a call may return, with what it has done by then *)

Outcomes(E, S) == {[err |-> e, did |-> S] : e \in E}

Preview(in) ==
  LET refusals == CASE in = "both"    -> {"ErrAmbiguousInput"}
                    [] in = "neither" -> {"ErrEmptyInput"}
                    [] in = "raw"     -> ParseErrors \cup GuardErrors
                    [] OTHER -> BuildErrors \cup {"ErrMissingWhere",
                                  "ErrParse", "ErrTableNotWhitelisted"}
  IN  Outcomes(refusals, {}) \cup
      IF in \in {"both", "neither"} THEN {}
      ELSE Outcomes(Failures \cup {"ErrRowsExceeded"}, {"measured"})
             \cup Outcomes({"nil"}, {"measured", "issued"})

execute ==
  Outcomes(Failures, {"consumed"})
    \cup Outcomes({"failure", "nil"}, {"consumed", "committed"})

Confirm(tok) ==
  CASE tok = "none" -> Outcomes({"ErrNotFound"}, {})
    [] tok \in {"mcp", "pending"} -> Outcomes({"ErrMCPRequiresApproval"}, {})
    [] tok = "ui" -> execute

RequestApproval(tok) ==
  CASE tok = "none" -> Outcomes({"ErrNotFound"}, {})
    [] tok = "ui"   -> Outcomes({"ErrConfirmNotMCP"}, {})
    [] tok = "pending" -> Outcomes({"ErrWrongState"}, {})
    [] tok = "mcp"  -> Outcomes({"nil"}, {"moved"})

Resolve(tok, resolved) ==
  CASE tok = "none" -> Outcomes({"ErrNotFound"}, {})
    [] tok \in {"ui", "mcp"} -> Outcomes({"ErrWrongState"}, {})
    [] tok = "pending" -> resolved

\* The call a handler makes once the body is in order.
Call(r) ==
  CASE r.route \in {"/preview", "mcp/preview"} -> Preview(r.in)
    [] r.route = "/confirm"         -> Confirm(r.tok)
    [] r.route = "mcp/confirm"      -> RequestApproval(r.tok)
    [] r.route = "/pending"         -> Outcomes({"nil"}, {"listed"})
    [] r.route = "/pending/approve" -> Resolve(r.tok, execute)
    [] r.route = "/pending/reject"  ->
         Resolve(r.tok, Outcomes({"nil"}, {"rejected"}))
    [] r.route = "/ai/suggest"      -> Outcomes({"ErrAIDisabled"}, {})

-----------------------------------------------------------------------------
(* The way through the router.                                             *)

Init ==
  /\ stage = "boot" /\ cfg = NoConfig /\ req = NoRequest
  /\ did = {} /\ err = "nil" /\ status = 0
  /\ ReplyInit

Boot ==
  /\ stage = "boot"
  /\ \E e \in Env :
       \/ Refuses(e) /\ stage' = "exited" /\ UNCHANGED cfg
       \/ ~Refuses(e) /\ stage' = "idle" /\ cfg' = Load(e)
  /\ UNCHANGED <<req, did, err, status, replyVars>>

Answer(st, e, d) ==
  /\ stage' = "answered" /\ status' = st /\ err' = e /\ did' = d
  /\ UNCHANGED <<cfg, req, replyVars>>

Pass(to) ==
  stage' = to /\ UNCHANGED <<cfg, req, did, err, status, replyVars>>

\* NewRouter: the MCP endpoint is there only if it is enabled; what no other
\* route takes falls through to the page.
Arrive(r) ==
  /\ stage = "idle"
  /\ req' = r
  /\ stage' = IF r.route \in Probes THEN "probe"
              ELSE IF r.route \in Human \/ (r.route \in Agent /\ cfg.MCPEnabled)
              THEN "flag" ELSE "page"
  /\ UNCHANGED <<cfg, did, err, status, replyVars>>

Probe ==
  /\ stage = "probe"
  /\ \/ req.route = "/healthz" /\ Answer(200, "nil", {})
     \/ req.route = "/readyz"
          /\ \E st \in {200, 503} : Answer(st, "nil", {"ping"})

Page ==
  /\ stage = "page"
  /\ Answer(IF req.route \in Pages \ {"/elsewhere"} THEN 200 ELSE 404,
            "nil", {})

\* Variant: the group of the agent has the bearer but not the switch.
requireEnabledHuman ==
  /\ stage = "flag"
  /\ IF cfg.Enabled \/ req.route \in Agent THEN Pass("auth")
     ELSE Answer(503, "nil", {})

requireEnabled ==
  /\ stage = "flag"
  /\ IF cfg.Enabled THEN Pass("auth") ELSE Answer(503, "nil", {})

\* Each surface has its own credential; that of the human one is optional.
bearerAuth ==
  /\ stage = "auth"
  /\ LET expected == IF req.route \in Agent THEN cfg.MCPAuthToken
                     ELSE cfg.UIAuthToken
     IN  IF \/ req.route \in Human /\ expected = "unset"
            \/ req.bearer # "unset" /\ req.bearer = expected
         THEN Pass("decode")
         ELSE Answer(401, "nil", {})

\* Errors of a tool are results of the protocol, with status 200.
Fault(st) == Answer(IF req.route \in Agent THEN 200 ELSE st, "badRequest", {})

\* decodeJSON, a blank token or intent, toBoundedOp.
Decode ==
  /\ stage = "decode"
  /\ IF req.body # "fits" \/ req.in = "badOp" THEN Fault(400)
     ELSE Pass("service")

AskModel(m, d) ==
  /\ stage' = "model" /\ did' = d \cup {"modelAsked"}
  /\ Ask(m)
  /\ UNCHANGED <<cfg, req, err, status>>

Suggests == req.route = "/ai/suggest" /\ cfg.AIEnabled

\* With the AI on, and unless the request says "ai": false, a preview that has
\* its token asks for an explanation and then for a review, and is answered
\* whatever comes of them.  The schema is read for a suggestion.
Replied ==
  /\ stage = "model" /\ result \notin {"running", "scanned"}
  /\ CASE method = "explain" -> AskModel("review", did)
       [] method = "review"  -> Answer(200, "nil", did)
       [] method = "suggest" /\ result = "proposal" -> Answer(200, "nil", did)
       [] method = "suggest" /\ result = "error" -> Answer(500, "failure", did)

Serve ==
  /\ stage = "service"
  /\ \/ Suggests /\ AskModel("suggest", {"schemaRead"})
     \/ /\ ~Suggests
        /\ \E o \in Call(req) :
             \/ Answer(IF o.err = "nil" \/ req.route \in Agent THEN 200
                       ELSE statusForError(o.err), o.err, o.did)
             \/ /\ req.route = "/preview" /\ cfg.AIEnabled /\ o.err = "nil"
                /\ AskModel("explain", o.did)

Model == stage = "model" /\ ReplyNext /\ UNCHANGED surfaceVars

Done ==
  /\ stage = "answered"
  /\ stage' = "idle" /\ req' = NoRequest
  /\ did' = {} /\ err' = "nil" /\ status' = 0 /\ UNCHANGED cfg
  /\ Ask("suggest")

Next ==
  \/ Boot
  \/ \E r \in Request : Arrive(r)
  \/ Probe \/ Page \/ requireEnabled \/ bearerAuth \/ Decode
  \/ Serve \/ Model \/ Replied \/ Done

Spec == Init /\ [][Next]_vars

-----------------------------------------------------------------------------
Effects == {"measured", "issued", "moved", "consumed", "committed", "rejected",
            "listed", "schemaRead", "modelAsked", "ping"}

TypeOK ==
  /\ stage \in {"boot", "exited", "idle", "probe", "page", "flag", "auth",
                "decode", "service", "model", "answered"}
  /\ cfg \in [Enabled : BOOLEAN, MCPEnabled : BOOLEAN, AIEnabled : BOOLEAN,
              MCPAuthToken : {"unset", "agent"},
              UIAuthToken : {"unset", "human"}]
  /\ req \in Request /\ did \in SUBSET Effects
  /\ err \in Errors /\ status \in {0, 200, 400, 401, 404, 409, 422, 500, 503}

\* Whoever got anything done was let in: the service was switched on (off, it
\* "responde 503 sin tocar la base", router.go:37), and the credential was that
\* of the surface: no agent gets to a commit where a human token is configured,
\* and nothing happens at an MCP endpoint that was not configured with one.
OnlyTheLetInWork ==
  /\ TypeOK
  /\ did \subseteq {"ping"} \/ cfg.Enabled
  /\ did \cap {"committed", "rejected", "consumed"} # {} =>
       req.route \in Human /\ cfg.UIAuthToken \in {"unset", req.bearer}
  /\ did # {} /\ req.route \in Agent =>
       cfg.MCPEnabled /\ req.bearer # "unset" /\ req.bearer = cfg.MCPAuthToken
  /\ stage = "answered" /\ ~cfg.Enabled /\ req.route \in Human => status = 503

Lasting == {"issued", "moved", "consumed", "committed", "rejected"}

\* What a refusal means to a client: after a 4xx, a 503 or the error of a tool
\* nothing has changed, and the request may be sent again as if never sent.
\* Only a 500 leaves open what has become of the token.  And a preview that has
\* left a token behind is answered with it, whatever the model writes.
RefusalMeansNoEffect ==
  /\ status \in 400..499 \cup {503} => did \cap Lasting = {}
  /\ status = 200 /\ err # "nil" => did \cap Lasting = {}
  /\ status = 200 /\ err = "nil"
       /\ req.route \in {"/confirm", "/pending/approve"} => "committed" \in did
  /\ stage = "answered" /\ "issued" \in did => status = 200 /\ err = "nil"
=============================================================================
