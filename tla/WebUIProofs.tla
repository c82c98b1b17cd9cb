---------------------------- MODULE WebUIProofs ----------------------------
(***************************************************************************)
(* What the page shows and what it gets executed agree, for any number of  *)
(* tokens, statements and requests in flight.                              *)
(***************************************************************************)
EXTENDS WebUI, TLAPS

UIInv == PageInv /\ ExecutedAsShown /\ DoneIsTrue

GoodPage(p) ==
  p \in PageRec /\ PageFits(p) /\ (p.view = "done" => p.result \in ran)

GoodCalls(cs) == cs \in [Slot -> CallRec] /\ \A s \in Slot : CallFits(cs[s])

LEMMA InitUI == UIInit => UIInv
<1> SUFFICES ASSUME UIInit PROVE UIInv
  OBVIOUS
<1>1. page \in PageRec /\ PageFits(page) /\ page.view = "input"
  BY DEF UIInit, NewPage, PageRec, PageFits, Views
<1>2. NoCall \in CallRec /\ CallFits(NoCall)
  BY DEF NoCall, CallRec, CallFits
<1>3. calls \in [Slot -> CallRec] /\ \A s \in Slot : CallFits(calls[s])
  BY <1>2 DEF UIInit
<1>4. ServerFits /\ ExecutedAsShown
  BY DEF UIInit, LifeInit, ServerFits, ExecutedAsShown
<1>5. PageTypeOK
  BY <1>1, <1>3, WebUIAssumption
  DEF UIInit, LifeInit, PageTypeOK, Lives, Open, Terminal
<1> QED
  BY <1>1, <1>3, <1>4, <1>5 DEF UIInv, PageInv, DoneIsTrue

LEMMA Good == UIInv => GoodPage(page) /\ GoodCalls(calls)
BY DEF UIInv, PageInv, PageTypeOK, DoneIsTrue, GoodPage, GoodCalls

\* A step of the page alone keeps the invariant if it leaves the page and the
\* calls in good order.
LEMMA PageStep ==
  ASSUME UIInv, UNCHANGED <<serverVars, clicked>>,
         GoodPage(page'), GoodCalls(calls')
  PROVE  UIInv'
<1> USE DEF GoodPage, GoodCalls
<1>1. \A s \in Slot : CallFits(calls[s])'
  BY DEF CallFits, serverVars, Issued
<1>2. PageFits(page)'
  BY DEF PageFits, serverVars, Issued
<1>3. PageTypeOK' /\ ServerFits'
  BY DEF UIInv, PageInv, PageTypeOK, ServerFits, serverVars
<1> QED
  BY <1>1, <1>2, <1>3
  DEF UIInv, PageInv, ExecutedAsShown, DoneIsTrue, serverVars

LEMMA BrowseUI == UIInv /\ Browse => UIInv'
<1> SUFFICES ASSUME UIInv, Browse PROVE UIInv'
  OBVIOUS
<1>1. calls' = calls /\ UNCHANGED <<serverVars, clicked>>
  BY DEF Browse, goInput, Back, cancel, reset, Edit, select, Here
<1>2. GoodPage(page')
  <2> USE Good, WebUIAssumption
      DEF GoodPage, PageRec, PageFits, Here, Free, Views
  <2>1. CASE goInput
    BY <2>1 DEF goInput
  <2>2. CASE Back
    BY <2>2 DEF Back
  <2>3. CASE cancel
    BY <2>3 DEF cancel
  <2>4. CASE reset
    BY <2>4 DEF reset, NewPage
  <2>5. ASSUME NEW q \in Stmt \cup {None}, Edit(q)
        PROVE  GoodPage(page')
    BY <2>5 DEF Edit
  <2>6. ASSUME NEW t \in Token, select(t)
        PROVE  GoodPage(page')
    BY <2>6 DEF select
  <2> QED
    BY <2>1, <2>2, <2>3, <2>4, <2>5, <2>6 DEF Browse
<1> QED
  BY <1>1, <1>2, Good, PageStep

\* Putting a call in good order into a slot.
LEMMA Placed ==
  ASSUME UIInv, NEW s \in Slot, NEW c \in CallRec, CallFits(c),
         calls' = [calls EXCEPT ![s] = c]
  PROVE  GoodCalls(calls')
BY Good DEF GoodCalls

LEMMA NewCall ==
  ASSUME NEW k \in Kinds, NEW t \in Token \cup {None},
         NEW q \in Stmt \cup {None},
         k = "preview" => q \in Stmt,
         k = "confirm" => t \in Issued(UI),
         k \in {"approve", "reject"} => t \in Issued(MCP),
         k \in {"confirm", "approve"} => clicked[t] = book[t]
  PROVE  Call(k, t, q) \in CallRec /\ CallFits(Call(k, t, q))
BY DEF Call, CallRec, CallFits, Statuses, Kinds

LEMMA NoCallFits == NoCall \in CallRec /\ CallFits(NoCall)
BY DEF NoCall, CallRec, CallFits

LEMMA BegunGood ==
  ASSUME UIInv
  PROVE  /\ GoodPage(Begun(page))
         /\ GoodPage([Begun(page) EXCEPT !.view = "approvals",
                                         !.selected = None])
         /\ GoodPage([Begun(page) EXCEPT !.selected = None])
<1> USE Good DEF GoodPage, PageRec, PageFits, Begun, Views
<1>1. GoodPage(Begun(page))
  OBVIOUS
<1>2. GoodPage([Begun(page) EXCEPT !.view = "approvals", !.selected = None])
  OBVIOUS
<1>3. GoodPage([Begun(page) EXCEPT !.selected = None])
  OBVIOUS
<1> QED
  BY <1>1, <1>2, <1>3

\* A click that lets a token run notes what is on the screen.
LEMMA ClickNoted ==
  ASSUME UIInv, NEW s \in Slot, NEW t \in Token,
         NEW k \in {"confirm", "approve"},
         t \in Issued(IF k = "confirm" THEN UI ELSE MCP),
         Send(s, k, t, None), page' = Begun(page),
         clicked' = [clicked EXCEPT ![t] = book[t]]
  PROVE  UIInv'
<1>1. /\ UNCHANGED serverVars
      /\ calls' = [calls EXCEPT ![s] = Call(k, t, None)]
  BY DEF Send
<1>2. book[t] \in Stmt /\ clicked \in [Token -> Stmt \cup {None}]
  BY DEF UIInv, PageInv, PageTypeOK, ServerFits, Issued
<1>3. clicked' \in [Token -> Stmt \cup {None}] /\ clicked'[t] = book[t]
      /\ \A u \in Token : clicked[u] = book[u] => clicked'[u] = book[u]
  BY <1>2
<1>4. Call(k, t, None) \in CallRec
  BY DEF Call, CallRec, Kinds, Statuses
<1>5. calls' \in [Slot -> CallRec]
  BY <1>1, <1>4, Good DEF GoodCalls
<1>6. ASSUME NEW r \in Slot PROVE CallFits(calls[r])'
  <2>1. CASE r = s
    <3>1. calls'[r] = Call(k, t, None)
      BY <1>1, <2>1, Good DEF GoodCalls
    <3> QED
      BY <1>1, <1>3, <3>1
      DEF Call, CallFits, Statuses, serverVars, Issued
  <2>2. CASE r # s
    <3>1. calls'[r] = calls[r] /\ CallFits(calls[r])
      BY <1>1, <2>2, Good DEF GoodCalls
    <3> QED
      BY <1>1, <1>3, <3>1, WebUIAssumption DEF CallFits, serverVars, Issued
  <2> QED
    BY <2>1, <2>2
<1>7. GoodPage(page)'
  BY <1>1, BegunGood DEF GoodPage, PageFits, serverVars, Issued
<1>8. PageTypeOK' /\ ServerFits' /\ ExecutedAsShown'
  BY <1>1, <1>2, <1>3, <1>5, <1>7
  DEF UIInv, PageInv, PageTypeOK, ServerFits, ExecutedAsShown, serverVars,
      GoodPage
<1> QED
  BY <1>6, <1>7, <1>8 DEF UIInv, PageInv, DoneIsTrue, GoodPage

LEMMA ClickUI == ASSUME NEW s \in Slot, UIInv, Click(s) PROVE UIInv'
<1> USE DEF Send
<1>1. CASE doPreview(s)
  <2>1. page.form \in Stmt
    BY <1>1, Good DEF doPreview, GoodPage, PageRec
  <2>2. GoodCalls(calls')
    BY <1>1, <2>1, NewCall, Placed DEF doPreview, Kinds
  <2> QED
    BY <1>1, <2>2, BegunGood, PageStep DEF doPreview
<1>2. CASE doConfirm(s)
  <2>1. page.preview \in Issued(UI) /\ page.shown = book[page.preview]
    BY <1>2, Good DEF doConfirm, Free, GoodPage, PageFits
  <2> QED
    BY <1>2, <2>1, ClickNoted DEF doConfirm, Issued
<1>3. CASE doApprove(s)
  <2>1. page.selected \in Issued(MCP)
    BY <1>3, Good DEF doApprove, GoodPage, PageFits
  <2> QED
    BY <1>3, <2>1, ClickNoted DEF doApprove, Issued
<1>4. CASE doReject(s)
  <2>1. page.selected \in Issued(MCP)
    BY <1>4, Good DEF doReject, GoodPage, PageFits
  <2>2. GoodCalls(calls')
    BY <1>4, <2>1, NewCall, Placed DEF doReject, Kinds, Issued
  <2> QED
    BY <1>4, <2>2, BegunGood, PageStep DEF doReject
<1>5. CASE loadPending(s)
  <2>1. GoodCalls(calls')
    BY <1>5, NewCall, Placed DEF loadPending, Kinds
  <2> QED
    BY <1>5, <2>1, BegunGood, PageStep DEF loadPending
<1>6. CASE goApprovals(s)
  <2>1. GoodCalls(calls')
    BY <1>6, NewCall, Placed DEF goApprovals, Kinds
  <2> QED
    BY <1>6, <2>1, BegunGood, PageStep DEF goApprovals
<1> QED
  BY <1>1, <1>2, <1>3, <1>4, <1>5, <1>6 DEF Click

-----------------------------------------------------------------------------
\* The server's steps: tokens are only ever issued and moved along, and a book
\* entry stays.
LEMMA ServerStep ==
  ASSUME UIInv, UNCHANGED <<page, clicked>>,
         life' \in [Token -> Lives], source' \in [Token -> Origin],
         book' \in [Token -> Stmt \cup {None}],
         ran \subseteq ran', ran' \subseteq Token,
         \A t \in Token : life[t] # "unissued" =>
           /\ life'[t] # "unissued"
           /\ source'[t] = source[t] /\ book'[t] = book[t],
         \A t \in Token : life'[t] # "unissued" => book'[t] \in Stmt,
         \A t \in ran' \ ran : clicked[t] = book[t] /\ life[t] # "unissued",
         calls' \in [Slot -> CallRec], \A s \in Slot : CallFits(calls[s])'
  PROVE  UIInv'
<1>1. \A o \in {UI, MCP} : Issued(o) \subseteq Issued(o)'
  BY DEF Issued
<1>2. PageFits(page)'
  BY <1>1 DEF UIInv, PageInv, PageFits, Issued
<1>3. PageTypeOK'
  BY DEF UIInv, PageInv, PageTypeOK
<1>4. ServerFits' /\ ExecutedAsShown'
  <2>1. \A t \in ran' : life'[t] # "unissued" /\ t \in Token
    BY DEF UIInv, PageInv, ServerFits
  <2>2. \A t \in ran' : clicked[t] = book'[t]
    BY DEF UIInv, PageInv, ServerFits, ExecutedAsShown
  <2> QED
    BY <2>1, <2>2, WebUIAssumption DEF ServerFits, ExecutedAsShown
<1> QED
  BY <1>2, <1>3, <1>4 DEF UIInv, PageInv, DoneIsTrue

\* A call stays in good order when the server moves on.
LEMMA CallKept ==
  ASSUME NEW c \in CallRec, CallFits(c), UNCHANGED clicked, ran \subseteq ran',
         \A t \in Token : life[t] # "unissued" =>
           /\ life'[t] # "unissued"
           /\ source'[t] = source[t] /\ book'[t] = book[t]
  PROVE  CallFits(c)'
BY WebUIAssumption DEF CallFits, Issued, CallRec

LEMMA ElsewhereUI == UIInv /\ Elsewhere => UIInv'
<1> SUFFICES ASSUME UIInv, Elsewhere PROVE UIInv'
  OBVIOUS
<1> USE DEF UIInv, PageInv, PageTypeOK
<1>1. CASE \E t \in Token, q \in Stmt :
             /\ Issue(t, MCP) /\ book' = [book EXCEPT ![t] = q]
             /\ UNCHANGED <<page, calls, ran, clicked>>
  <2>1. PICK t \in Token, q \in Stmt :
          /\ Issue(t, MCP) /\ book' = [book EXCEPT ![t] = q]
          /\ UNCHANGED <<page, calls, ran, clicked>>
    BY <1>1
  <2>2. /\ life' \in [Token -> Lives] /\ source' \in [Token -> Origin]
        /\ book' \in [Token -> Stmt \cup {None}]
        /\ \A u \in Token : life[u] # "unissued" =>
             /\ life'[u] # "unissued"
             /\ source'[u] = source[u] /\ book'[u] = book[u]
        /\ \A u \in Token : life'[u] # "unissued" => book'[u] \in Stmt
    BY <2>1, WebUIAssumption DEF Issue, Lives, Open, ServerFits
  <2>3. \A s \in Slot : CallFits(calls[s])'
    BY <2>1, <2>2, CallKept
  <2> QED
    BY <2>1, <2>2, <2>3, ServerStep
<1>2. CASE \E t \in Token :
             /\ Propose(t) \/ Accept(t) \/ Refuse(t) \/ Expire({t})
             /\ UNCHANGED <<page, calls, book, ran, clicked>>
  <2>1. /\ life' \in [Token -> Lives] /\ source' = source
        /\ UNCHANGED <<page, calls, book, ran, clicked>>
        /\ \A u \in Token : life[u] # "unissued" <=> life'[u] # "unissued"
    BY <1>2
    DEF Propose, Accept, Refuse, Expire, Move, Lives, Open, Terminal
  <2>2. \A s \in Slot : CallFits(calls[s])'
    BY <2>1, CallKept
  <2> QED
    BY <2>1, <2>2, ServerStep DEF ServerFits
<1> QED
  BY <1>1, <1>2 DEF Elsewhere

\* A request that consumes its token.
LEMMA ExecutedUI ==
  ASSUME UIInv, NEW s \in Slot, calls[s].kind \in {"confirm", "approve"},
         Move(calls[s].tok, "previewed", "executed")
           \/ Move(calls[s].tok, "pending_approval", "executed"),
         Executed(s, calls[s].tok)
  PROVE  UIInv'
<1> DEFINE t == calls[s].tok
<1> USE DEF UIInv, PageInv, PageTypeOK
<1>1. /\ t \in Token /\ life[t] # "unissued"
      /\ clicked[t] = book[t] /\ calls[s] \in CallRec
    BY DEF CallFits, Issued
<1>2. /\ life' \in [Token -> Lives] /\ source' = source
      /\ UNCHANGED <<page, book, clicked>>
      /\ \A u \in Token : life[u] # "unissued" <=> life'[u] # "unissued"
  BY <1>1 DEF Move, Executed, Lives, Open, Terminal
<1>3. PICK st \in {"ok", "bad"}, r \in {ran, ran \cup {t}} :
        /\ st = "ok" => t \in r
        /\ ran' = r
        /\ calls' = [calls EXCEPT ![s].status = st]
  BY DEF Executed
<1>4. /\ ran \subseteq ran' /\ ran' \subseteq Token
      /\ \A u \in ran' \ ran : u = t
  BY <1>1, <1>3
<1>5. calls' \in [Slot -> CallRec]
  BY <1>1, <1>3 DEF CallRec, Statuses
<1>6. \A u \in Slot : CallFits(calls[u])'
  <2> SUFFICES ASSUME NEW u \in Slot PROVE CallFits(calls[u])'
    OBVIOUS
  <2>1. CASE u # s
    BY <1>2, <1>3, <1>4, <2>1, CallKept
  <2>2. CASE u = s
    <3>1. CallFits(calls[s])
      OBVIOUS
    <3>2. calls'[u] = [calls[s] EXCEPT !.status = st]
      BY <1>3, <2>2
    <3> QED
      BY <1>1, <1>2, <1>3, <3>1, <3>2 DEF CallFits, CallRec, Statuses, Issued
  <2> QED
    BY <2>1, <2>2
<1> QED
  BY <1>1, <1>2, <1>4, <1>5, <1>6, ServerStep DEF ServerFits

LEMMA ServeUI == ASSUME NEW s \in Slot, UIInv, Serve(s) PROVE UIInv'
<1> USE DEF UIInv, PageInv, PageTypeOK
<1>0. calls[s] \in CallRec /\ CallFits(calls[s])
  OBVIOUS
<1>1. CASE PreviewServed(s)
  <2>1. PICK t \in Token, st \in {"ok", "bad"} :
          /\ Issue(t, UI)
          /\ book'  = [book EXCEPT ![t] = calls[s].stmt]
          /\ calls' = [calls EXCEPT ![s].status = st, ![s].tok = t]
    BY <1>1 DEF PreviewServed
  <2>2. /\ calls[s].kind = "preview" /\ calls[s].stmt \in Stmt
        /\ UNCHANGED <<page, ran, clicked>>
    BY <1>0, <1>1 DEF PreviewServed, Waiting, CallFits
  <2>3. /\ life' \in [Token -> Lives] /\ source' \in [Token -> Origin]
        /\ book' \in [Token -> Stmt \cup {None}]
        /\ \A u \in Token : life[u] # "unissued" =>
             /\ life'[u] # "unissued"
             /\ source'[u] = source[u] /\ book'[u] = book[u]
        /\ \A u \in Token : life'[u] # "unissued" => book'[u] \in Stmt
    BY <2>1, <2>2, WebUIAssumption DEF Issue, Lives, Open, ServerFits
  <2>4. calls'[s] = [calls[s] EXCEPT !.status = st, !.tok = t]
        /\ \A u \in Slot : u # s => calls'[u] = calls[u]
    BY <2>1
  <2>5. calls' \in [Slot -> CallRec]
    BY <1>0, <2>1 DEF CallRec, Statuses
  <2>6. CallFits(calls[s])'
    <3>2. /\ calls'[s].kind = "preview" /\ calls'[s].status = st
          /\ calls'[s].stmt = calls[s].stmt /\ calls'[s].tok = t
          /\ calls'[s].list = calls[s].list
      BY <1>0, <2>2, <2>4 DEF CallRec
    <3>3. t \in Issued(UI)' /\ book'[t] = calls[s].stmt
      BY <2>1 DEF Issue, Issued
    <3>4. calls[s].list \subseteq Issued(MCP)'
      BY <1>0, <2>3 DEF CallFits, Issued
    <3> QED
      BY <2>2, <3>2, <3>3, <3>4 DEF CallFits, Statuses
  <2>7. \A u \in Slot : CallFits(calls[u])'
    BY <2>2, <2>3, <2>4, <2>6, CallKept
  <2> QED
    BY <2>2, <2>3, <2>5, <2>7, ServerStep
<1>2. CASE ConfirmServed(s)
  BY <1>2, ExecutedUI DEF ConfirmServed, Waiting, TakeUI
<1>3. CASE ApproveServed(s)
  BY <1>3, ExecutedUI DEF ApproveServed, Waiting, Accept
<1>4. CASE RejectServed(s)
  <2>1. PICK st \in {"ok", "bad"} : calls' = [calls EXCEPT ![s].status = st]
    BY <1>4 DEF RejectServed
  <2>2. /\ life' \in [Token -> Lives] /\ source' = source
        /\ UNCHANGED <<page, book, ran, clicked>>
        /\ \A u \in Token : life[u] # "unissued" <=> life'[u] # "unissued"
    BY <1>4 DEF RejectServed, Refuse, Move, Lives, Open, Terminal
  <2>3. calls' \in [Slot -> CallRec]
    BY <1>0, <2>1 DEF CallRec, Statuses
  <2>4. \A u \in Slot : u # s => calls'[u] = calls[u]
    BY <2>1
  <2>5. CallFits(calls[s])'
    <3>1. calls'[s] = [calls[s] EXCEPT !.status = st]
      BY <2>1
    <3>2. /\ calls'[s].kind = "reject" /\ calls'[s].status = st
          /\ calls'[s].tok = calls[s].tok /\ calls'[s].list = calls[s].list
      BY <1>0, <1>4, <3>1 DEF CallRec, RejectServed, Waiting
    <3> QED
      BY <1>0, <1>4, <2>2, <3>2
      DEF CallFits, Statuses, Issued, RejectServed, Waiting
  <2>6. \A u \in Slot : CallFits(calls[u])'
    BY <2>2, <2>4, <2>5, CallKept
  <2> QED
    BY <2>2, <2>3, <2>6, ServerStep DEF ServerFits
<1>5. CASE PendingServed(s)
  <2>1. /\ UNCHANGED <<page, serverVars, clicked>> /\ calls[s].kind = "pending"
        /\ calls' = [calls EXCEPT ![s].status = "ok", ![s].list = Listed]
    BY <1>5 DEF PendingServed, Waiting
  <2>2. Listed \subseteq Issued(MCP)
    BY DEF Listed, Issued
  <2>3. calls' \in [Slot -> CallRec]
    BY <1>0, <2>1, <2>2 DEF CallRec, Statuses, Issued
  <2>4. /\ calls'[s].kind = "pending" /\ calls'[s].status = "ok"
        /\ calls'[s].list = Listed
        /\ \A u \in Slot : u # s => calls'[u] = calls[u]
    BY <1>0, <2>1 DEF CallRec
  <2>5. CallFits(calls'[s])
    BY <2>2, <2>4 DEF CallFits, Statuses
  <2> QED
    BY <2>1, <2>3, <2>4, <2>5, Good, PageStep DEF GoodCalls
<1> QED
  BY <1>1, <1>2, <1>3, <1>4, <1>5 DEF Serve

-----------------------------------------------------------------------------
LEMMA HandleUI == ASSUME NEW s \in Slot, UIInv, Handle(s) PROVE UIInv'
<1>1. calls[s] \in CallRec /\ CallFits(calls[s])
  BY Good DEF GoodCalls
<1>2. UNCHANGED <<serverVars, clicked>>
  BY DEF Handle, PreviewShown, ConfirmDone, ConfirmGone, PendingListed,
         ApproveDone, ApproveFailed, RejectDone, SwitchedOff, OnlyAMessage,
         Freed, Reloads
<1>3. calls' = [calls EXCEPT ![s] = NoCall]
      \/ calls' = [calls EXCEPT ![s] = Call("pending", None, None)]
  BY DEF Handle, PreviewShown, ConfirmDone, ConfirmGone, PendingListed,
         ApproveDone, ApproveFailed, RejectDone, SwitchedOff, OnlyAMessage,
         Freed, Reloads
<1>4. GoodCalls(calls')
  BY <1>3, Placed, NewCall, NoCallFits DEF Kinds
<1>5. GoodPage(page')
  <2> USE Good, WebUIAssumption
      DEF GoodPage, PageRec, PageFits, Views, Quiet, Troubled, Begun
  <2>1. CASE PreviewShown(s)
    BY <1>1, <2>1 DEF PreviewShown, Ok, CallFits, CallRec, Issued
  <2>2. CASE ConfirmDone(s)
    BY <1>1, <2>2 DEF ConfirmDone, Ok, CallFits, CallRec, Issued
  <2>3. CASE ConfirmGone(s)
    BY <2>3 DEF ConfirmGone
  <2>4. CASE PendingListed(s)
    BY <1>1, <2>4 DEF PendingListed, Ok, CallFits, CallRec
  <2>5. CASE ApproveDone(s)
    BY <1>1, <2>5 DEF ApproveDone, Ok, CallFits, CallRec, Issued
  <2>6. CASE ApproveFailed(s)
    BY <2>6 DEF ApproveFailed
  <2>7. CASE RejectDone(s)
    BY <2>7 DEF RejectDone
  <2>8. CASE SwitchedOff(s)
    BY <2>8 DEF SwitchedOff
  <2>9. CASE OnlyAMessage(s)
    BY <2>9 DEF OnlyAMessage
  <2> QED
    BY <2>1, <2>2, <2>3, <2>4, <2>5, <2>6, <2>7, <2>8, <2>9 DEF Handle
<1> QED
  BY <1>2, <1>4, <1>5, PageStep

LEMMA StepUI == UIInv /\ [UINext]_uiVars => UIInv'
<1> SUFFICES ASSUME UIInv, [UINext]_uiVars PROVE UIInv'
  OBVIOUS
<1>1. CASE UNCHANGED uiVars
  BY <1>1, Good, PageStep DEF uiVars, GoodPage, GoodCalls
<1>2. CASE UINext
  BY <1>2, ClickUI, ServeUI, HandleUI, BrowseUI, ElsewhereUI DEF UINext
<1> QED
  BY <1>1, <1>2

\* The screen and the store agree, whatever is clicked, edited, answered late
\* or lost (index.html:424-690).
THEOREM ScreenIsRight == UISpec => []PageInv
<1>1. UIInv => PageInv
  BY DEF UIInv
<1> QED
  BY <1>1, InitUI, StepUI, PTL DEF UISpec

\* Nothing is executed that the human did not have on the screen when clicking
\* (index.html:6-7, "Se ejecuta exactamente lo previsualizado").
THEOREM OnlyWhatWasShown == UISpec => []ExecutedAsShown
<1>1. UIInv => ExecutedAsShown
  BY DEF UIInv
<1> QED
  BY <1>1, InitUI, StepUI, PTL DEF UISpec

\* The success screen is never shown for something that is not in the database
\* (index.html:553-554).
THEOREM SuccessIsReal == UISpec => []DoneIsTrue
<1>1. UIInv => DoneIsTrue
  BY DEF UIInv
<1> QED
  BY <1>1, InitUI, StepUI, PTL DEF UISpec

-----------------------------------------------------------------------------
\* What the server does leaves the page waiting for the same requests.
LEMMA ServeKeeps ==
  ASSUME NEW s \in Slot, UIInv, Serve(s), NotStuck
  PROVE  NotStuck'
<1>1. page' = page /\ calls[s] \in CallRec
  BY Good
  DEF GoodCalls, Serve, PreviewServed, ConfirmServed, ApproveServed,
      RejectServed, PendingServed, Executed
<1>2. \A u \in Slot : calls'[u].kind = calls[u].kind
  <2> USE Good DEF GoodCalls
  <2>1. CASE PreviewServed(s)
    BY <2>1 DEF PreviewServed, CallRec
  <2>2. CASE ConfirmServed(s)
    BY <2>2 DEF ConfirmServed, Executed, CallRec
  <2>3. CASE ApproveServed(s)
    BY <2>3 DEF ApproveServed, Executed, CallRec
  <2>4. CASE RejectServed(s)
    BY <2>4 DEF RejectServed, CallRec
  <2>5. CASE PendingServed(s)
    BY <2>5 DEF PendingServed, CallRec
  <2> QED
    BY <2>1, <2>2, <2>3, <2>4, <2>5 DEF Serve
<1> QED
  BY <1>1, <1>2 DEF NotStuck

LEMMA HandleFrees ==
  ASSUME NEW s \in Slot, UIInv, Handle(s), NotStuck
  PROVE  NotStuck'
<1>1. CASE ~page'.loading
  BY <1>1 DEF NotStuck
<1>2. CASE calls' = [calls EXCEPT ![s] = Call("pending", None, None)]
  BY <1>2, Good DEF NotStuck, GoodCalls, Call
<1>3. page \in PageRec
  BY Good DEF GoodPage
<1> QED
  BY <1>1, <1>2, <1>3
  DEF Handle, PreviewShown, ConfirmDone, ConfirmGone, PendingListed,
      ApproveDone, ApproveFailed, RejectDone, SwitchedOff, OnlyAMessage,
      Quiet, Troubled, Reloads, PageRec

LEMMA ClickKeeps ==
  ASSUME NEW s \in Slot, UIInv, Click(s)
  PROVE  NotStuck'
<1>1. PICK k \in Kinds, t \in Token \cup {None}, q \in Stmt \cup {None} :
        calls' = [calls EXCEPT ![s] = Call(k, t, q)]
  BY Good
  DEF Click, doPreview, doConfirm, doApprove, doReject, loadPending,
      goApprovals, Send, Kinds, GoodPage, PageRec
<1>2. calls'[s].kind = k
  BY <1>1, Good DEF GoodCalls, Call
<1> QED
  BY <1>2 DEF NotStuck, Kinds

LEMMA BrowseKeeps == ASSUME UIInv, Browse, NotStuck PROVE NotStuck'
<1>1. calls' = calls /\ page'.loading = page.loading
  BY Good
  DEF Browse, goInput, Back, cancel, reset, Edit, select, Here, NewPage,
      GoodPage, PageRec
<1> QED
  BY <1>1 DEF NotStuck

\* The page is never left with its buttons off and nothing to wait for
\* (index.html:527, 557, 620, 658, 685).
THEOREM NeverStuck == UISpec => []NotStuck
<1>1. UIInit => NotStuck
  BY DEF UIInit, NewPage, NotStuck
<1>2. UIInv /\ NotStuck /\ [UINext]_uiVars => NotStuck'
  <2> SUFFICES ASSUME UIInv, NotStuck, [UINext]_uiVars PROVE NotStuck'
    OBVIOUS
  <2>1. CASE UNCHANGED uiVars
    BY <2>1 DEF uiVars, NotStuck
  <2>2. CASE Elsewhere
    BY <2>2 DEF Elsewhere, NotStuck
  <2>3. CASE Browse
    BY <2>3, BrowseKeeps
  <2>4. CASE \E s \in Slot : Click(s) \/ Serve(s) \/ Handle(s)
    BY <2>4, ClickKeeps, ServeKeeps, HandleFrees
  <2> QED
    BY <2>1, <2>2, <2>3, <2>4 DEF UINext
<1> QED
  BY <1>1, <1>2, InitUI, StepUI, PTL DEF UISpec
=============================================================================
