------------------------------- MODULE WebUI -------------------------------
(***************************************************************************)
(* The page (src/internal/ui/index.html) in front of the server.           *)
(*                                                                         *)
(* The page is the Alpine component deitafix(): `page` is its `this`.  An  *)
(* action is a handler up to its first await, or from an answer to the     *)
(* next await or the end, which is where JavaScript can be interrupted.    *)
(* A fetch in flight occupies a slot of `calls`.  One `loading` flag       *)
(* serves them all: whichever answer comes first clears it.                *)
(*                                                                         *)
(* The server is TokenLifecycle, which the service is proved to implement  *)
(* in ServiceProofs.  Agents and other people act on it as well.           *)
(***************************************************************************)
EXTENDS TokenLifecycle

CONSTANTS
  Stmt,   \* the statements somebody may type
  None,   \* the empty string, or null
  Slot    \* requests the page may have in flight at a time: a bound

ASSUME WebUIAssumption ==
  None \notin Stmt /\ None \notin Token /\ UI # MCP /\ Origin = {UI, MCP}

VARIABLES
  page,     \* the fields of the component
  calls,    \* the requests in flight
  book,     \* the server: book[t], the statement stored under t
  ran,      \* history: the tokens this page's requests got committed
  clicked   \* history: the statement on the screen when the human let t run

serverVars == <<life, source, book, ran>>
uiVars     == <<page, calls, serverVars, clicked>>

Views    == {"input", "impact", "done", "approvals", "disabled"}
Kinds    == {"preview", "confirm", "pending", "approve", "reject"}
\* "bad": the server did what was asked, and the page is told of an error or
\* of nothing at all.
Statuses == {"sent", "ok", "bad"}

NoCall ==
  [kind |-> "none", tok |-> None, stmt |-> None, status |-> "none", list |-> {}]

NewPage ==
  [view |-> "input", loading |-> FALSE, error |-> FALSE, form |-> None,
   preview |-> None, shown |-> None, result |-> None, pending |-> {},
   selected |-> None]

UIInit ==
  /\ LifeInit
  /\ page    = NewPage
  /\ calls   = [s \in Slot |-> NoCall]
  /\ book    = [t \in Token |-> None]
  /\ ran     = {}
  /\ clicked = [t \in Token |-> None]

-----------------------------------------------------------------------------
(* What a person does on the page.                                         *)

\* Every handler that fetches begins with error = '' and loading = true.
Begun(p) == [p EXCEPT !.error = FALSE, !.loading = TRUE]

Call(k, t, q) ==
  [kind |-> k, tok |-> t, stmt |-> q, status |-> "sent", list |-> {}]

Send(s, k, t, q) ==
  /\ calls[s] = NoCall
  /\ calls' = [calls EXCEPT ![s] = Call(k, t, q)]
  /\ UNCHANGED serverVars

\* The buttons that are disabled while loading.
Free(v) == page.view = v /\ ~page.loading

doPreview(s) ==
  /\ Free("input")
  /\ page.form # None
  /\ Send(s, "preview", None, page.form)
  /\ page' = Begun(page)
  /\ UNCHANGED clicked

doConfirm(s) ==
  /\ Free("impact")
  /\ Send(s, "confirm", page.preview, None)
  /\ page'    = Begun(page)
  /\ clicked' = [clicked EXCEPT ![page.preview] = page.shown]

doApprove(s) ==
  /\ Free("approvals")
  /\ page.selected # None
  /\ Send(s, "approve", page.selected, None)
  /\ page'    = Begun(page)
  /\ clicked' = [clicked EXCEPT ![page.selected] = book[page.selected]]

doReject(s) ==
  /\ Free("approvals")
  /\ page.selected # None
  /\ Send(s, "reject", page.selected, None)
  /\ page' = Begun(page)
  /\ UNCHANGED clicked

\* "Actualizar" is drawn beside the list only.
loadPending(s) ==
  /\ Free("approvals")
  /\ page.selected = None
  /\ Send(s, "pending", None, None)
  /\ page' = Begun(page)
  /\ UNCHANGED clicked

\* The two links of the header are never disabled.
goApprovals(s) ==
  /\ Send(s, "pending", None, None)
  /\ page' = [Begun(page) EXCEPT !.view = "approvals", !.selected = None]
  /\ UNCHANGED clicked

Here(p) == page' = p /\ UNCHANGED <<calls, serverVars, clicked>>

goInput ==
  Here([page EXCEPT !.error = FALSE, !.selected = None, !.view = "input"])

\* The fields and the choice of mode stay open while a request is in flight.
Edit(q) ==
  /\ page.view = "input"
  /\ \E e \in {page.error, FALSE} : Here([page EXCEPT !.form = q, !.error = e])

select(t) ==
  /\ page.view = "approvals"
  /\ page.selected = None
  /\ t \in page.pending
  /\ Here([page EXCEPT !.error = FALSE, !.selected = t])

Back ==
  /\ Free("approvals")
  /\ page.selected # None
  /\ Here([page EXCEPT !.error = FALSE, !.selected = None])

\* Variant: the text goes, the token stays.
cancelKeepsToken ==
  /\ Free("impact")
  /\ Here([page EXCEPT !.shown = None, !.error = FALSE, !.view = "input"])

cancel ==
  /\ Free("impact")
  /\ Here([page EXCEPT !.preview = None, !.shown = None, !.error = FALSE,
                       !.view = "input"])

reset ==
  /\ page.view \in {"done", "disabled"}
  /\ Here([NewPage EXCEPT !.loading = page.loading, !.pending = page.pending,
                          !.selected = page.selected])

-----------------------------------------------------------------------------
(* What a request does at the server, and whether the answer says so.  A    *)
(* request that does nothing there (503, 401, 404, an error, no connection) *)
(* stays "sent" until the page hears of it.                                *)

Waiting(s, k) == calls[s].kind = k /\ calls[s].status = "sent"

PreviewServed(s) ==
  /\ Waiting(s, "preview")
  /\ \E t \in Token, st \in {"ok", "bad"} :
       /\ Issue(t, UI)
       /\ book'  = [book EXCEPT ![t] = calls[s].stmt]
       /\ calls' = [calls EXCEPT ![s].status = st, ![s].tok = t]
  /\ UNCHANGED <<page, ran, clicked>>

\* The token is consumed.  The statement runs, or it fails and says so, or it
\* runs and the answer is lost, that of the COMMIT or the one to the page.
Executed(s, t) ==
  /\ \E st \in {"ok", "bad"}, r \in {ran, ran \cup {t}} :
       /\ st = "ok" => t \in r
       /\ ran' = r
       /\ calls' = [calls EXCEPT ![s].status = st]
  /\ UNCHANGED <<page, book, clicked>>

ConfirmServed(s) ==
  Waiting(s, "confirm") /\ TakeUI(calls[s].tok) /\ Executed(s, calls[s].tok)

ApproveServed(s) ==
  Waiting(s, "approve") /\ Accept(calls[s].tok) /\ Executed(s, calls[s].tok)

RejectServed(s) ==
  /\ Waiting(s, "reject") /\ Refuse(calls[s].tok)
  /\ \E st \in {"ok", "bad"} : calls' = [calls EXCEPT ![s].status = st]
  /\ UNCHANGED <<page, book, ran, clicked>>

Listed == {t \in Token : source[t] = MCP /\ life[t] = "pending_approval"}

PendingServed(s) ==
  /\ Waiting(s, "pending")
  /\ calls' = [calls EXCEPT ![s].status = "ok", ![s].list = Listed]
  /\ UNCHANGED <<page, serverVars, clicked>>

Serve(s) ==
  \/ PreviewServed(s) \/ ConfirmServed(s) \/ ApproveServed(s)
  \/ RejectServed(s) \/ PendingServed(s)

\* An agent previews and asks; somebody else decides; time passes.
Elsewhere ==
  \/ \E t \in Token, q \in Stmt :
       /\ Issue(t, MCP) /\ book' = [book EXCEPT ![t] = q]
       /\ UNCHANGED <<page, calls, ran, clicked>>
  \/ \E t \in Token :
       /\ Propose(t) \/ Accept(t) \/ Refuse(t) \/ Expire({t})
       /\ UNCHANGED <<page, calls, book, ran, clicked>>

-----------------------------------------------------------------------------
(* What the page does with an answer.                                      *)

Ok(s, k) == calls[s].kind = k /\ calls[s].status = "ok"

\* No token any more: it was used, rejected, or its time is up.
NotFound(s, k) == Waiting(s, k) /\ life[calls[s].tok] \notin Open

\* An error status other than 503 and 404, or a fetch that throws.
Error(s, k) == calls[s].kind = k /\ calls[s].status \in {"sent", "bad"}

Freed(s) ==
  calls' = [calls EXCEPT ![s] = NoCall] /\ UNCHANGED <<serverVars, clicked>>

\* "await this.loadPending()": the next request takes the place of this one.
Reloads(s) ==
  /\ calls' = [calls EXCEPT ![s] = Call("pending", None, None)]
  /\ UNCHANGED <<serverVars, clicked>>

Quiet(p)    == [p EXCEPT !.loading = FALSE]
Troubled(p) == [p EXCEPT !.loading = FALSE, !.error = TRUE]

\* Variant: the statement is taken from the form when the answer arrives.
PreviewShownFromForm(s) ==
  /\ Ok(s, "preview")
  /\ page' = [Quiet(page) EXCEPT !.preview = calls[s].tok,
                !.shown = page.form, !.view = "impact"]
  /\ Freed(s)

\* The statement shown is the one that was sent, whatever the form says now.
PreviewShown(s) ==
  /\ Ok(s, "preview")
  /\ page' = [Quiet(page) EXCEPT !.preview = calls[s].tok,
                !.shown = calls[s].stmt, !.view = "impact"]
  /\ Freed(s)

\* Variant: only 404 and 503 are looked for, as if res.ok went without saying.
ConfirmDoneUnchecked(s) ==
  /\ (Ok(s, "confirm") \/ Error(s, "confirm"))
  /\ page' = [Quiet(page) EXCEPT !.result = calls[s].tok, !.view = "done"]
  /\ Freed(s)

ConfirmDone(s) ==
  /\ Ok(s, "confirm")
  /\ page' = [Quiet(page) EXCEPT !.result = calls[s].tok, !.view = "done"]
  /\ Freed(s)

ConfirmGone(s) ==
  /\ NotFound(s, "confirm")
  /\ page' = [Troubled(page) EXCEPT !.preview = None, !.view = "input"]
  /\ Freed(s)

PendingListed(s) ==
  /\ Ok(s, "pending")
  /\ page' = [Quiet(page) EXCEPT !.pending = calls[s].list]
  /\ Freed(s)

ApproveDone(s) ==
  /\ Ok(s, "approve")
  /\ page' = [Begun(page) EXCEPT !.result = calls[s].tok, !.selected = None,
                                 !.view = "done"]
  /\ Reloads(s)

\* The message that was just written goes when loadPending begins.
ApproveFailed(s) ==
  /\ Error(s, "approve")
  /\ page' = [Begun(page) EXCEPT !.selected = None]
  /\ Reloads(s)

RejectDone(s) ==
  /\ Ok(s, "reject") \/ NotFound(s, "reject")
  /\ page' = [Begun(page) EXCEPT !.selected = None]
  /\ Reloads(s)

\* Variant: the early return for 503 is outside the try with its finally.
SwitchedOffEarly(s) ==
  /\ calls[s].status = "sent"
  /\ page' = [page EXCEPT !.error = TRUE, !.view = "disabled"]
  /\ Freed(s)

SwitchedOff(s) ==
  /\ calls[s].status = "sent"
  /\ page' = [Troubled(page) EXCEPT !.view = "disabled"]
  /\ Freed(s)

\* Whatever else is not ok, a 401 and a lost connection for all five: a
\* message, and the view stays.
OnlyAMessage(s) ==
  /\ \E k \in Kinds : Error(s, k)
  /\ page' = Troubled(page)
  /\ Freed(s)

Handle(s) ==
  \/ PreviewShown(s) \/ ConfirmDone(s) \/ ConfirmGone(s) \/ PendingListed(s)
  \/ ApproveDone(s) \/ ApproveFailed(s) \/ RejectDone(s)
  \/ SwitchedOff(s) \/ OnlyAMessage(s)

-----------------------------------------------------------------------------
Click(s) ==
  \/ doPreview(s) \/ doConfirm(s) \/ doApprove(s) \/ doReject(s)
  \/ loadPending(s) \/ goApprovals(s)

Browse ==
  \/ goInput \/ Back \/ cancel \/ reset
  \/ \E q \in Stmt \cup {None} : Edit(q)
  \/ \E t \in Token : select(t)

UINext ==
  \/ \E s \in Slot : Click(s) \/ Serve(s) \/ Handle(s)
  \/ Browse
  \/ Elsewhere

UISpec == UIInit /\ [][UINext]_uiVars

-----------------------------------------------------------------------------
PageRec ==
  [view : Views, loading : BOOLEAN, error : BOOLEAN,
   form : Stmt \cup {None}, preview : Token \cup {None},
   shown : Stmt \cup {None}, result : Token \cup {None},
   pending : SUBSET Token, selected : Token \cup {None}]

CallRec ==
  [kind : Kinds \cup {"none"}, tok : Token \cup {None},
   stmt : Stmt \cup {None}, status : Statuses \cup {"none"},
   list : SUBSET Token]

PageTypeOK ==
  /\ page \in PageRec
  /\ calls \in [Slot -> CallRec]
  /\ book \in [Token -> Stmt \cup {None}]
  /\ ran \in SUBSET Token
  /\ clicked \in [Token -> Stmt \cup {None}]
  /\ life \in [Token -> Lives] /\ source \in [Token -> Origin]

Issued(o) == {t \in Token : source[t] = o /\ life[t] # "unissued"}

\* A call carries what its kind needs, and a token of the right party.
CallFits(c) ==
  /\ c.kind = "none" \/ c.status \in Statuses
  /\ c.list \subseteq Issued(MCP)
  /\ c.kind = "preview" =>
       /\ c.stmt \in Stmt
       /\ c.status # "sent" => c.tok \in Issued(UI) /\ book[c.tok] = c.stmt
  /\ c.kind = "confirm" => c.tok \in Issued(UI)
  /\ c.kind \in {"approve", "reject"} => c.tok \in Issued(MCP)
  /\ c.kind \in {"confirm", "approve"} =>
       clicked[c.tok] = book[c.tok] /\ (c.status = "ok" => c.tok \in ran)

ServerFits ==
  /\ \A t \in Token : life[t] # "unissued" => book[t] \in Stmt
  /\ ran \subseteq {t \in Token : life[t] # "unissued"}

PageFits(p) ==
  /\ p.view = "impact" => p.preview # None
  /\ p.preview # None => p.preview \in Issued(UI) /\ book[p.preview] = p.shown
  /\ p.pending \subseteq Issued(MCP)
  /\ p.selected # None => p.selected \in Issued(MCP)

\* Type correctness, and what the screen says: on the impact screen stands
\* the very statement that is stored under the token that Confirm would send
\* (index.html:289, "Se ejecutara exactamente esto"), and what can be opened
\* on the approvals screen was asked for by an agent.
PageInv ==
  /\ PageTypeOK
  /\ ServerFits
  /\ \A s \in Slot : CallFits(calls[s])
  /\ PageFits(page)

\* Whatever the page gets executed was on its screen, word for word, when the
\* human clicked: no late answer and no edit of the form gets in between.
ExecutedAsShown == \A t \in ran : clicked[t] = book[t] /\ clicked[t] # None

\* The success screen is shown for a statement that is in the database.
DoneIsTrue == page.view = "done" => page.result \in ran

\* The buttons are off only while a request is in flight, whichever of the many
\* ways its handler returns: the page is never left waiting for an answer that
\* does not come (the finally blocks, index.html:527, 557, 620, 658, 685).
NotStuck == page.loading => \E s \in Slot : calls[s].kind # "none"
=============================================================================
