--------------------------- MODULE ServiceProofs ---------------------------
(***************************************************************************)
(* The invariants of Service, for any number of tokens, statements and     *)
(* request goroutines, any TTL and any cap; and what the store promises to *)
(* callers of any kind, of which the service is one.                       *)
(***************************************************************************)
EXTENDS ServiceSafety, StoreCalls, TLAPS

LEMMA InitInv == Init => IInv
<1> SUFFICES ASSUME Init PROVE IInv
  OBVIOUS
<1> USE StoreAssumption, ServiceAssumption, NoneAssumption DEF Init, StoreInit
<1>1. TypeOK
  BY DEF TypeOK, StoreTypeOK, Places, Fates
<1>2. StoreInv /\ BookInv /\ FateInv /\ SentInv
  BY DEF StoreInv, BookInv, FateInv, SentInv, Present, Executed
<1>3. RequestInv /\ HolderInv /\ AckedIsCommitted
  BY DEF RequestInv, HolderInv, AckedIsCommitted
<1> QED
  BY <1>1, <1>2, <1>3 DEF IInv

LEMMA MeasureInv ==
  ASSUME IInv, NEW r \in Request, NEW s \in Statement, NEW o \in Origin,
         Measure(r, s, o)
  PROVE  IInv'
<1> USE DEF IInv, Measure, At, history
<1>0. [sql |-> s, rows |-> impact[s], origin |-> o] \in Entry
  BY DEF TypeOK, Entry
<1>1. TypeOK'
  BY <1>0 DEF TypeOK, StoreTypeOK, Places
<1>2. StoreInv' /\ BookInv' /\ FateInv' /\ SentInv' /\ AckedIsCommitted'
  BY DEF StoreInv, BookInv, FateInv, SentInv, AckedIsCommitted, Present,
         Executed
<1>3. RequestInv'
  BY <1>0 DEF RequestInv, TypeOK, WithinCap, Executed
<1>4. HolderInv'
  BY DEF HolderInv, TypeOK
<1> QED
  BY <1>1, <1>2, <1>3, <1>4

LEMMA EmitTokenInv ==
  ASSUME IInv, NEW r \in Request, NEW t \in Token, EmitToken(r, t)
  PROVE  IInv'
<1> USE StoreAssumption, NoneAssumption
    DEF IInv, EmitToken, Put, Return, At
<1>0. held[r] \in Entry /\ held[r].sql \in Allowed /\ held[r].rows <= MaxRows
  BY DEF RequestInv
<1>1. [entry |-> held[r], state |-> "previewed", left |-> TTL] \in Item
  BY <1>0 DEF Item, States
<1>2. TypeOK'
  BY <1>0, <1>1 DEF TypeOK, StoreTypeOK, Places
<1>3. StoreInv'
  BY <1>1 DEF StoreInv, BookInv, TypeOK, StoreTypeOK, Present
<1>4. BookInv' /\ FateInv' /\ SentInv' /\ AckedIsCommitted'
  BY <1>0 DEF BookInv, FateInv, SentInv, AckedIsCommitted, TypeOK, Executed
<1>5. RequestInv' /\ HolderInv'
  BY DEF RequestInv, HolderInv, TypeOK, Executed
<1> QED
  BY <1>2, <1>3, <1>4, <1>5


LEMMA EmitFailsInv ==
  ASSUME IInv, NEW r \in Request, EmitFails(r)
  PROVE  IInv'
<1> USE DEF IInv, EmitFails, Return, At, history
<1>1. TypeOK'
  BY DEF TypeOK, StoreTypeOK, Places
<1>2. StoreInv' /\ BookInv' /\ FateInv' /\ SentInv' /\ AckedIsCommitted'
  BY DEF StoreInv, BookInv, FateInv, SentInv, AckedIsCommitted, Present,
         Executed
<1>3. RequestInv' /\ HolderInv'
  BY DEF RequestInv, HolderInv, TypeOK, Executed
<1> QED
  BY <1>1, <1>2, <1>3

\* A look at the store: what was outdated may be dropped, nothing else moves.
LEMMA PeekInv ==
  ASSUME IInv, NEW t \in Token, NEW err, Peek(t, err),
         UNCHANGED <<impact, sent, history>>
  PROVE  /\ StoreTypeOK' /\ StoreInv' /\ BookInv' /\ FateInv' /\ SentInv'
         /\ AckedIsCommitted'
<1> USE DEF IInv, Peek, Delete, history
<1>1. StoreTypeOK'
  BY DEF TypeOK, StoreTypeOK
<1>2. StoreInv'
  BY DEF StoreInv, TypeOK, StoreTypeOK, Present
<1>3. BookInv' /\ FateInv' /\ SentInv' /\ AckedIsCommitted'
  BY DEF BookInv, FateInv, SentInv, AckedIsCommitted, Executed
<1> QED
  BY <1>1, <1>2, <1>3

LEMMA ConfirmPeekInv ==
  ASSUME IInv, NEW r \in Request, NEW t \in Token, ConfirmPeek(r, t)
  PROVE  IInv'
<1> USE DEF IInv
<1>1. PICK err : Peek(t, err)
  BY DEF ConfirmPeek
<1>2. /\ StoreTypeOK' /\ StoreInv' /\ BookInv' /\ FateInv' /\ SentInv'
      /\ AckedIsCommitted'
  BY <1>1, PeekInv DEF ConfirmPeek
<1>3. CASE UNCHANGED requestVars
  <2>1. TypeOK'
    BY <1>2, <1>3 DEF TypeOK, ConfirmPeek, requestVars, history
  <2>2. RequestInv' /\ HolderInv'
    BY <1>1, <1>3 DEF RequestInv, HolderInv, ConfirmPeek, Peek, requestVars,
                      history, Executed
  <2> QED
    BY <1>2, <2>1, <2>2
<1>4. CASE Peek(t, OK) /\ ByHuman(items[t].entry) /\ At(r, "take", t, None)
  <2>1. TypeOK'
    BY <1>2, <1>4 DEF TypeOK, ConfirmPeek, At, history, Places
  <2>2. t \in issued /\ book[t].origin = UI
    <3>1. Present(t)
      BY <1>4 DEF Peek, Live, OK, ErrNotFound
    <3>2. t \in issued /\ items[t].entry = book[t] /\ book[t] \in Entry
      BY <3>1 DEF StoreInv, BookInv
    <3> QED
      BY <1>4, <3>2 DEF ByHuman, Entry, Origin
  <2>3. RequestInv' /\ HolderInv'
    BY <1>4, <2>2 DEF RequestInv, HolderInv, TypeOK, ConfirmPeek, Peek, At,
                      history, Executed
  <2> QED
    BY <1>2, <2>1, <2>3
<1> QED
  BY <1>3, <1>4 DEF ConfirmPeek

LEMMA AskPeekInv ==
  ASSUME IInv, NEW r \in Request, NEW t \in Token, AskPeek(r, t)
  PROVE  IInv'
<1> USE DEF IInv
<1>1. PICK err : Peek(t, err)
  BY DEF AskPeek
<1>2. /\ StoreTypeOK' /\ StoreInv' /\ BookInv' /\ FateInv' /\ SentInv'
      /\ AckedIsCommitted'
  BY <1>1, PeekInv DEF AskPeek
<1>3. CASE UNCHANGED requestVars
  <2>1. TypeOK'
    BY <1>2, <1>3 DEF TypeOK, AskPeek, requestVars, history
  <2>2. RequestInv' /\ HolderInv'
    BY <1>1, <1>3 DEF RequestInv, HolderInv, AskPeek, Peek, requestVars,
                      history, Executed
  <2> QED
    BY <1>2, <2>1, <2>2
<1>4. CASE Peek(t, OK) /\ ~ByHuman(items[t].entry) /\ At(r, "mark", t, None)
  <2>1. TypeOK'
    BY <1>2, <1>4 DEF TypeOK, AskPeek, At, history, Places
  <2>2. t \in issued /\ book[t].origin = MCP
    <3>1. Present(t)
      BY <1>4 DEF Peek, Live, OK, ErrNotFound
    <3> QED
      BY <1>4, <3>1 DEF StoreInv, ByHuman
  <2>3. RequestInv' /\ HolderInv'
    BY <1>4, <2>2 DEF RequestInv, HolderInv, TypeOK, AskPeek, Peek, At,
                      history, Executed
  <2> QED
    BY <1>2, <2>1, <2>3
<1> QED
  BY <1>3, <1>4 DEF AskPeek

\* A token taken out of the map to be executed: exactly one request holds it.
LEMMA HandOutInv ==
  ASSUME IInv, NEW r \in Request, NEW t \in Token,
         NEW how \in {"confirmed", "approved"},
         Live(t), Delete(t), Consume(t, how), issued' = issued,
         At(r, "exec", t, items[t].entry), pc[r] \in {"idle", "take"},
         book[t].origin = IF how = "confirmed" THEN UI ELSE MCP,
         UNCHANGED <<impact, sent, book, commits, run, acked, drifted>>
  PROVE  IInv'
<1> USE NoneAssumption DEF IInv, At, Delete, Consume
<1>1. /\ t \in issued /\ items[t].entry = book[t] /\ fate[t] = "open"
      /\ book[t] \in Entry
  BY DEF StoreInv, BookInv, Live
<1>2. commits[t] = 0 /\ sent[t] = None
  BY <1>1 DEF FateInv, SentInv, Executed
<1>3. TypeOK'
  BY <1>1 DEF TypeOK, StoreTypeOK, Places, Fates
<1>4. StoreInv'
  BY DEF StoreInv, TypeOK, StoreTypeOK, Present
<1>5. BookInv' /\ AckedIsCommitted'
  BY <1>1 DEF BookInv, AckedIsCommitted, TypeOK, Executed
<1>6. FateInv' /\ SentInv'
  BY <1>1, <1>2, StoreAssumption DEF FateInv, SentInv, TypeOK, Executed
<1>7. RequestInv'
  BY <1>1, <1>2 DEF RequestInv, TypeOK, Executed
<1>8. HolderInv'
  BY <1>1 DEF HolderInv, RequestInv, TypeOK
<1> QED
  BY <1>3, <1>4, <1>5, <1>6, <1>7, <1>8

LEMMA ConfirmTakeInv ==
  ASSUME IInv, NEW r \in Request, ConfirmTake(r)
  PROVE  IInv'
<1> DEFINE t == tok[r]
<1>1. pc[r] = "take" /\ t \in Token /\ t \in issued /\ book[t].origin = UI
  BY DEF IInv, ConfirmTake, RequestInv, TypeOK, StoreTypeOK
<1>2. CASE Take(t, OK) /\ At(r, "exec", t, items[t].entry)
             /\ Consume(t, "confirmed")
  <2>1. Live(t) /\ Delete(t) /\ issued' = issued
    BY <1>2 DEF Take, OK, ErrNotFound
  <2> QED
    BY <1>1, <1>2, <2>1, HandOutInv DEF ConfirmTake
<1>3. CASE Take(t, ErrNotFound) /\ Return(r) /\ UNCHANGED fate
  <2> USE <1>3 DEF IInv, ConfirmTake, Take, Delete, Return, At
  <2>1. TypeOK'
    BY DEF TypeOK, StoreTypeOK, Places
  <2>2. StoreInv' /\ BookInv' /\ FateInv' /\ SentInv' /\ AckedIsCommitted'
    BY DEF StoreInv, BookInv, FateInv, SentInv, AckedIsCommitted, TypeOK,
           StoreTypeOK,
           Present, Executed
  <2>3. RequestInv' /\ HolderInv'
    BY DEF RequestInv, HolderInv, TypeOK, Executed
  <2> QED
    BY <2>1, <2>2, <2>3
<1> QED
  BY <1>2, <1>3 DEF ConfirmTake

LEMMA AskMarkInv ==
  ASSUME IInv, NEW r \in Request, AskMark(r)
  PROVE  IInv'
<1> DEFINE t == tok[r]
<1>1. pc[r] = "mark" /\ t \in Token /\ t \in issued /\ book[t].origin = MCP
  BY DEF IInv, AskMark, RequestInv, TypeOK, StoreTypeOK
<1>2. PICK err \in StoreErrors : RequestApproval(t, err)
  BY DEF AskMark
<1> USE <1>1, <1>2 DEF IInv, AskMark, RequestApproval, Delete, Return, At,
                       history
<1>3. StoreTypeOK' /\ StoreInv'
  <2>1. CASE ~Live(t) /\ Delete(t)
    BY <2>1 DEF StoreInv, TypeOK, StoreTypeOK, Present
  <2>2. CASE UNCHANGED items
    BY <2>2 DEF StoreInv, TypeOK, StoreTypeOK, Present
  <2>3. CASE Live(t) /\ items' = [items EXCEPT ![t].state = "pending_approval"]
    <3>1. items[t] \in Item
      BY <2>3 DEF TypeOK, StoreTypeOK, Live, Present
    <3>2. [items[t] EXCEPT !.state = "pending_approval"] \in Item
      BY <3>1 DEF Item, States
    <3>3. items' = [items EXCEPT ![t] =
                      [items[t] EXCEPT !.state = "pending_approval"]]
      BY <2>3
    <3>4. StoreTypeOK'
      BY <3>2, <3>3 DEF TypeOK, StoreTypeOK
    <3>5. StoreInv'
      BY <2>3, <3>1, <3>3 DEF StoreInv, TypeOK, StoreTypeOK, Live, Present,
                              Item
    <3> QED
      BY <3>4, <3>5
  <2> QED
    BY <2>1, <2>2, <2>3
<1>4. TypeOK'
  BY <1>3 DEF TypeOK, Places
<1>5. BookInv' /\ FateInv' /\ SentInv' /\ AckedIsCommitted'
  BY DEF BookInv, FateInv, SentInv, AckedIsCommitted, Executed
<1>6. RequestInv' /\ HolderInv'
  BY DEF RequestInv, HolderInv, TypeOK, Executed
<1> QED
  BY <1>3, <1>4, <1>5, <1>6

\* A resolution that fails leaves the entry or drops an outdated one.
LEMMA FailedResolveInv ==
  ASSUME IInv, NEW t \in Token, NEW err \in {ErrNotFound, ErrWrongState},
         ResolvePending(t, err),
         UNCHANGED <<requestVars, impact, sent, history>>
  PROVE  IInv'
<1> USE DEF IInv, ResolvePending, Delete, requestVars, history, OK,
            ErrNotFound, ErrWrongState
<1>1. TypeOK'
  BY DEF TypeOK, StoreTypeOK
<1>2. StoreInv' /\ BookInv' /\ FateInv' /\ SentInv' /\ AckedIsCommitted'
  BY DEF StoreInv, BookInv, FateInv, SentInv, AckedIsCommitted, TypeOK,
         StoreTypeOK,
         Present, Executed
<1>3. RequestInv' /\ HolderInv'
  BY DEF RequestInv, HolderInv, Executed
<1> QED
  BY <1>1, <1>2, <1>3

LEMMA ApproveInv ==
  ASSUME IInv, NEW r \in Request, NEW t \in Token, Approve(r, t)
  PROVE  IInv'
<1>1. CASE ResolvePending(t, OK) /\ At(r, "exec", t, items[t].entry)
             /\ Consume(t, "approved")
  <2>1. /\ Live(t) /\ Delete(t) /\ issued' = issued
        /\ items[t].state = "pending_approval"
    BY <1>1 DEF ResolvePending, OK, ErrNotFound, ErrWrongState
  <2>2. book[t].origin = MCP
    BY <2>1 DEF IInv, StoreInv, Live
  <2> QED
    BY <1>1, <2>1, <2>2, HandOutInv DEF Approve
<1>2. CASE /\ \E err \in {ErrNotFound, ErrWrongState} : ResolvePending(t, err)
           /\ UNCHANGED <<requestVars, fate>>
  BY <1>2, FailedResolveInv DEF Approve, history
<1> QED
  BY <1>1, <1>2 DEF Approve

LEMMA RejectInv ==
  ASSUME IInv, NEW r \in Request, NEW t \in Token, Reject(r, t)
  PROVE  IInv'
<1>1. CASE ResolvePending(t, OK) /\ Consume(t, "rejected")
  <2> USE <1>1 DEF IInv, Reject, Consume, requestVars
  <2>1. /\ Live(t) /\ Delete(t) /\ issued' = issued
        /\ items[t].state = "pending_approval"
    BY DEF ResolvePending, OK, ErrNotFound, ErrWrongState
  <2>2. /\ t \in issued /\ fate[t] = "open" /\ book[t].origin = MCP
    BY <2>1 DEF StoreInv, Live
  <2>3. TypeOK'
    BY <2>1 DEF TypeOK, StoreTypeOK, Delete, Fates
  <2>4. StoreInv'
    BY <2>1 DEF StoreInv, TypeOK, StoreTypeOK, Delete, Present
  <2>5. BookInv' /\ FateInv' /\ SentInv' /\ AckedIsCommitted'
    BY <2>1, <2>2 DEF BookInv, FateInv, SentInv, AckedIsCommitted, TypeOK,
                      Executed
  <2>6. RequestInv' /\ HolderInv'
    BY <2>1, <2>2 DEF RequestInv, HolderInv, TypeOK, Executed
  <2> QED
    BY <2>3, <2>4, <2>5, <2>6
<1>2. CASE /\ \E err \in {ErrNotFound, ErrWrongState} : ResolvePending(t, err)
           /\ UNCHANGED fate
  BY <1>2, FailedResolveInv DEF Reject, history
<1> QED
  BY <1>1, <1>2 DEF Reject

\* ListPending and GC: outdated entries go.
LEMMA SweepInv ==
  ASSUME IInv, Sweep, UNCHANGED <<requestVars, impact, sent, history>>
  PROVE  IInv'
<1> USE DEF IInv, Sweep, requestVars, history
<1>1. TypeOK'
  BY DEF TypeOK, StoreTypeOK
<1>2. StoreInv' /\ BookInv' /\ FateInv' /\ SentInv' /\ AckedIsCommitted'
  BY DEF StoreInv, BookInv, FateInv, SentInv, AckedIsCommitted, Present,
         Executed
<1>3. RequestInv' /\ HolderInv'
  BY DEF RequestInv, HolderInv, Executed
<1> QED
  BY <1>1, <1>2, <1>3

LEMMA ClockInv ==
  ASSUME IInv, Clock
  PROVE  IInv'
<1> USE DEF IInv, Clock, Tick, requestVars, history
<1>1. ASSUME NEW t \in Token, Live(t)
      PROVE  [items[t] EXCEPT !.left = @ - 1] \in Item
  BY <1>1, StoreAssumption
     DEF TypeOK, StoreTypeOK, Item, Live, Present, After
<1>2. TypeOK'
  BY <1>1 DEF TypeOK, StoreTypeOK
<1>3. StoreInv'
  BY <1>1 DEF StoreInv, TypeOK, StoreTypeOK, Live, Present, Item
<1>4. BookInv' /\ FateInv' /\ SentInv' /\ AckedIsCommitted'
  BY DEF BookInv, FateInv, SentInv, AckedIsCommitted, Executed
<1>5. RequestInv' /\ HolderInv'
  BY DEF RequestInv, HolderInv, Executed
<1> QED
  BY <1>2, <1>3, <1>4, <1>5

\* A commit: the token was this request's alone, so it is its first.
LEMMA ExecCommitsInv ==
  ASSUME IInv, NEW r \in Request, ExecCommits(r)
  PROVE  IInv'
<1> DEFINE t == tok[r]
<1> USE DEF IInv, ExecCommits, Committed, At
<1>1. /\ t \in issued /\ t \in Token /\ held[r] = book[t] /\ commits[t] = 0
      /\ sent[t] = None /\ fate[t] \in {"confirmed", "approved"}
      /\ book[t] \in Entry
  BY DEF RequestInv, BookInv, TypeOK, StoreTypeOK
<1>2. [sql |-> held[r].sql, rows |-> impact[held[r].sql]] \in Run
  BY <1>1 DEF TypeOK, Entry, Run
<1>3. TypeOK'
  BY <1>1, <1>2 DEF TypeOK, StoreTypeOK, Places
<1>4. StoreInv' /\ BookInv' /\ SentInv' /\ AckedIsCommitted'
  BY <1>1 DEF StoreInv, BookInv, SentInv, AckedIsCommitted, TypeOK, Present,
              Executed
<1>5. FateInv'
  BY <1>1, <1>2 DEF FateInv, TypeOK, Executed
<1>6. RequestInv'
  <2> SUFFICES ASSUME NEW q \in Request PROVE RequestInv!(q)'
    BY DEF RequestInv
  <2>1. CASE q = r
    BY <1>1, <2>1 DEF TypeOK, Executed
  <2>2. CASE q # r
    <3>1. pc[q] = "exec" => tok[q] # t
      BY <2>2 DEF HolderInv
    <3> QED
      BY <1>1, <2>2, <3>1 DEF RequestInv, TypeOK, StoreTypeOK, Executed
  <2> QED
    BY <2>1, <2>2
<1>7. HolderInv'
  BY DEF HolderInv, TypeOK
<1> QED
  BY <1>3, <1>4, <1>5, <1>6, <1>7

\* A COMMIT is left behind by the only request that has its token.
LEMMA ExecUnheardInv ==
  ASSUME IInv, NEW r \in Request, ExecUnheard(r)
  PROVE  IInv'
<1> DEFINE t == tok[r]
<1> USE DEF IInv, ExecUnheard, Return, At, history
<1>1. /\ t \in issued /\ t \in Token /\ held[r] = book[t] /\ commits[t] = 0
      /\ fate[t] \in {"confirmed", "approved"} /\ book[t] \in Entry
  BY DEF RequestInv, BookInv, TypeOK, StoreTypeOK
<1>2. TypeOK'
  BY <1>1 DEF TypeOK, StoreTypeOK, Places
<1>3. StoreInv' /\ BookInv' /\ FateInv' /\ AckedIsCommitted'
  BY DEF StoreInv, BookInv, FateInv, AckedIsCommitted, Present, Executed
<1>4. SentInv'
  BY <1>1 DEF SentInv, TypeOK
<1>5. RequestInv'
  <2> SUFFICES ASSUME NEW q \in Request PROVE RequestInv!(q)'
    BY DEF RequestInv
  <2>1. CASE q = r
    BY <2>1 DEF TypeOK
  <2>2. CASE q # r
    <3>1. pc[q] = "exec" => tok[q] # t
      BY <2>2 DEF HolderInv
    <3> QED
      BY <2>2, <3>1 DEF RequestInv, TypeOK, StoreTypeOK, Executed
  <2> QED
    BY <2>1, <2>2
<1>6. HolderInv'
  BY DEF HolderInv, TypeOK
<1> QED
  BY <1>2, <1>3, <1>4, <1>5, <1>6

\* It is carried out: nobody else has the token, so it is its first commit.
LEMMA LateCommitInv ==
  ASSUME IInv, NEW t \in Token, LateCommit(t)
  PROVE  IInv'
<1> USE DEF IInv, LateCommit, Committed, requestVars
<1>1. /\ t \in issued /\ sent[t] = book[t] /\ commits[t] = 0
      /\ fate[t] \in {"confirmed", "approved"} /\ book[t] \in Entry
  BY DEF SentInv, BookInv
<1>2. [sql |-> sent[t].sql, rows |-> impact[sent[t].sql]] \in Run
  BY <1>1 DEF TypeOK, Entry, Run
<1>3. TypeOK'
  BY <1>1, <1>2 DEF TypeOK, StoreTypeOK
<1>4. StoreInv' /\ BookInv' /\ SentInv' /\ AckedIsCommitted'
  BY <1>1 DEF StoreInv, BookInv, SentInv, AckedIsCommitted, TypeOK, Present,
              Executed
<1>5. FateInv'
  BY <1>1, <1>2 DEF FateInv, TypeOK, Executed
<1>6. RequestInv' /\ HolderInv'
  BY <1>1 DEF RequestInv, HolderInv, TypeOK, StoreTypeOK, Executed
<1> QED
  BY <1>3, <1>4, <1>5, <1>6

\* A request that ends without having changed anything but its own place.
LEMMA GiveUpInv ==
  ASSUME IInv, NEW r \in Request, Return(r),
         UNCHANGED <<items, issued, impact, sent, history>>
  PROVE  IInv'
<1> USE DEF IInv, Return, At, history
<1>1. TypeOK'
  BY DEF TypeOK, StoreTypeOK, Places
<1>2. StoreInv' /\ BookInv' /\ FateInv' /\ SentInv' /\ AckedIsCommitted'
  BY DEF StoreInv, BookInv, FateInv, SentInv, AckedIsCommitted, Present,
         Executed
<1>3. RequestInv' /\ HolderInv'
  BY DEF RequestInv, HolderInv, TypeOK, Executed
<1> QED
  BY <1>1, <1>2, <1>3

LEMMA ReplyInv ==
  ASSUME IInv, NEW r \in Request, Reply(r)
  PROVE  IInv'
<1> USE DEF IInv, Reply, Return, At
<1>1. tok[r] \in issued /\ tok[r] \in Token /\ Executed(tok[r])
  BY DEF RequestInv, TypeOK, StoreTypeOK
<1>2. TypeOK'
  BY <1>1 DEF TypeOK, StoreTypeOK, Places
<1>3. StoreInv' /\ BookInv' /\ FateInv' /\ SentInv' /\ AckedIsCommitted'
  BY <1>1 DEF StoreInv, BookInv, FateInv, SentInv, AckedIsCommitted, Present,
              Executed
<1>4. RequestInv' /\ HolderInv'
  BY DEF RequestInv, HolderInv, TypeOK, Executed
<1> QED
  BY <1>2, <1>3, <1>4

LEMMA DriftInv ==
  ASSUME IInv, NEW s \in Allowed, NEW n \in 0..RowBound, Drift(s, n)
  PROVE  IInv'
<1> USE ServiceAssumption DEF IInv, Drift, requestVars
<1>1. TypeOK'
  BY DEF TypeOK, StoreTypeOK
<1>2. StoreInv' /\ BookInv' /\ FateInv' /\ SentInv' /\ AckedIsCommitted'
  BY DEF StoreInv, BookInv, FateInv, SentInv, AckedIsCommitted, Present,
         Executed
<1>3. RequestInv' /\ HolderInv'
  BY DEF RequestInv, HolderInv, Executed
<1> QED
  BY <1>1, <1>2, <1>3

LEMMA RestartInv ==
  ASSUME IInv, Restart
  PROVE  IInv'
<1> USE NoneAssumption DEF IInv, Restart, Forget
<1>0. ASSUME NEW t \in Token
      PROVE  \/ sent'[t] = sent[t]
             \/ \E r \in Request :
                  pc[r] = "exec" /\ tok[r] = t /\ sent'[t] = held[r]
  <2>1. CASE \E r \in Request : pc[r] = "exec" /\ tok[r] = t
    <3> DEFINE c == CHOOSE r \in Request : pc[r] = "exec" /\ tok[r] = t
    <3>1. c \in Request /\ pc[c] = "exec" /\ tok[c] = t
      BY <2>1
    <3>2. sent'[t] = held[c]
      BY <2>1
    <3> QED
      BY <3>1, <3>2
  <2>2. CASE ~ \E r \in Request : pc[r] = "exec" /\ tok[r] = t
    BY <2>2
  <2> QED
    BY <2>1, <2>2
<1>1. TypeOK'
  <2>1. \A t \in Token : sent'[t] \in Entry \cup {None}
    BY <1>0 DEF TypeOK
  <2>2. sent' \in [Token -> Entry \cup {None}]
    BY <2>1
  <2> QED
    BY <2>2 DEF TypeOK, StoreTypeOK, Places, Fates
<1>2. ASSUME NEW t \in Token, Live(t)
      PROVE  t \in issued /\ fate[t] = "open" /\ commits[t] = 0
  BY <1>2 DEF Live, StoreInv, FateInv, Executed
<1>3. StoreInv' /\ BookInv' /\ FateInv' /\ AckedIsCommitted'
  BY <1>2 DEF StoreInv, BookInv, FateInv, AckedIsCommitted, TypeOK, Present,
              Executed
<1>4. RequestInv' /\ HolderInv'
  BY DEF RequestInv, HolderInv
<1>5. SentInv'
  <2> SUFFICES ASSUME NEW t \in Token, sent'[t] # None
               PROVE  /\ t \in issued /\ sent'[t] = book[t]
                      /\ fate[t] \in {"confirmed", "approved"}
                      /\ commits[t] = 0
    BY <1>2 DEF SentInv, TypeOK
  <2> QED
    BY <1>0 DEF SentInv, RequestInv
<1> QED
  BY <1>1, <1>3, <1>4, <1>5

LEMMA StepInv == IInv /\ [Next]_vars => IInv'
<1> SUFFICES ASSUME IInv, [Next]_vars PROVE IInv'
  OBVIOUS
<1>1. ASSUME NEW r \in Request, Begin(r) PROVE IInv'
  <2>1. ASSUME NEW s \in Statement, NEW o \in Origin, Measure(r, s, o)
        PROVE  IInv'
    BY <2>1, MeasureInv
  <2>2. ASSUME NEW t \in Token,
               ConfirmPeek(r, t) \/ AskPeek(r, t) \/ Approve(r, t)
                 \/ Reject(r, t)
        PROVE  IInv'
    BY <2>2, ConfirmPeekInv, AskPeekInv, ApproveInv, RejectInv
  <2>3. CASE ListApprovals(r)
    BY <2>3, SweepInv DEF ListApprovals, ListPending
  <2> QED
    BY <1>1, <2>1, <2>2, <2>3 DEF Begin
<1>2. ASSUME NEW r \in Request, Continue(r) PROVE IInv'
  <2>1. ASSUME NEW t \in Token, EmitToken(r, t) PROVE IInv'
    BY <2>1, EmitTokenInv
  <2>2. CASE EmitFails(r) \/ ExecFails(r) \/ ReplyLost(r)
    BY <2>2, GiveUpInv DEF EmitFails, ExecFails, ReplyLost
  <2>3. CASE ConfirmTake(r) \/ AskMark(r)
    BY <2>3, ConfirmTakeInv, AskMarkInv
  <2>4. CASE ExecCommits(r) \/ ExecUnheard(r)
    BY <2>4, ExecCommitsInv, ExecUnheardInv
  <2>5. CASE Reply(r)
    BY <2>5, ReplyInv
  <2> QED
    BY <1>2, <2>1, <2>2, <2>3, <2>4, <2>5 DEF Continue
<1>3. CASE CollectGarbage
  BY <1>3, SweepInv DEF CollectGarbage, GC
<1>4. CASE Clock
  BY <1>4, ClockInv
<1>5. ASSUME NEW s \in Allowed, NEW n \in 0..RowBound, Drift(s, n) PROVE IInv'
  BY <1>5, DriftInv
<1>6. CASE Restart
  BY <1>6, RestartInv
<1>7. ASSUME NEW t \in Token, LateCommit(t) PROVE IInv'
  BY <1>7, LateCommitInv
<1>8. CASE UNCHANGED vars
  <2> USE <1>8 DEF IInv, vars
  <2>1. TypeOK' /\ StoreInv' /\ BookInv' /\ FateInv' /\ SentInv'
    BY DEF TypeOK, StoreTypeOK, StoreInv, BookInv, FateInv, SentInv, Present,
           Executed
  <2>2. RequestInv' /\ HolderInv' /\ AckedIsCommitted'
    BY DEF RequestInv, HolderInv, AckedIsCommitted, Executed
  <2> QED
    BY <2>1, <2>2
<1> QED
  BY <1>1, <1>2, <1>3, <1>4, <1>5, <1>6, <1>7, <1>8 DEF Next

\* Whatever the interleaving of requests, clock, collector, other writers and
\* restarts, the service stays in IInv.
THEOREM Invariance == Spec => []IInv
<1>1. Init => IInv
  BY InitInv
<1>2. IInv /\ [Next]_vars => IInv'
  BY StepInv
<1> QED
  BY <1>1, <1>2, PTL DEF Spec

-----------------------------------------------------------------------------
\* A token authorises one COMMIT at most.
THEOREM CommitsOnce == Spec => []AtMostOneCommit
<1>1. IInv => AtMostOneCommit
  <2> SUFFICES ASSUME IInv, NEW t \in Token PROVE commits[t] <= 1
    BY DEF AtMostOneCommit
  <2>1. commits[t] = 0 \/ commits[t] = 1
    BY DEF IInv, FateInv
  <2> QED
    BY <2>1
<1> QED
  BY <1>1, Invariance, PTL

\* What an agent previewed is committed through a human's approval only.
THEOREM HumanInTheLoop == Spec => []AgentNeedsApproval
<1>1. IInv => AgentNeedsApproval
  BY StoreAssumption DEF IInv, FateInv, AgentNeedsApproval, Executed
<1> QED
  BY <1>1, Invariance, PTL

\* A rejected token is not committed and nobody is about to.
THEOREM RejectionIsFinal == Spec => []RejectedNeverCommits
<1>1. IInv => RejectedNeverCommits
  BY DEF IInv, FateInv, RequestInv, SentInv, RejectedNeverCommits
<1> QED
  BY <1>1, Invariance, PTL

\* Only what was previewed, let through and measured within the cap is
\* committed.
THEOREM NothingBlind == Spec => []NoBlindCommit
<1>1. IInv => NoBlindCommit
  <2> SUFFICES ASSUME IInv, NEW t \in Token, Executed(t)
               PROVE  /\ run[t].sql = book[t].sql
                      /\ run[t].sql \in Allowed
                      /\ book[t].rows <= MaxRows
    BY DEF NoBlindCommit
  <2>1. fate[t] # "open" /\ run[t].sql = book[t].sql
    BY DEF IInv, FateInv
  <2>2. t \in issued
    BY <2>1 DEF IInv, BookInv
  <2> QED
    BY <2>1, <2>2 DEF IInv, BookInv
<1> QED
  BY <1>1, Invariance, PTL

\* "Executed" is said of committed statements only.
THEOREM NoFalseReply == Spec => []AckedIsCommitted
<1>1. IInv => AckedIsCommitted
  BY DEF IInv
<1> QED
  BY <1>1, Invariance, PTL

\* The request that executes a token is the only one that has it.
THEOREM Exclusive == Spec => []SoleHolder
<1>1. IInv => SoleHolder
  BY DEF IInv, RequestInv, HolderInv, StoreInv, SoleHolder, Executed, TypeOK,
         StoreTypeOK
<1> QED
  BY <1>1, Invariance, PTL

\* Every proposal in force is on the approvals screen.
THEOREM NothingHidden == Spec => []NothingPendingIsHidden
<1>1. IInv => NothingPendingIsHidden
  BY DEF IInv, StoreInv, NothingPendingIsHidden, Listed, Live
<1> QED
  BY <1>1, Invariance, PTL

-----------------------------------------------------------------------------
LEMMA InitImpact == Init => ImpactInv
BY DEF Init, StoreInit, ImpactInv, Executed

\* The only steps that add a measurement, a token or a commit read the impact
\* as it is; the only one that changes an impact marks the statement.
LEMMA StepImpact ==
  ASSUME IInv, ImpactInv, [Next]_vars
  PROVE  ImpactInv'
<1> USE DEF ImpactInv
<1>1. ASSUME NEW r \in Request, NEW s \in Statement, NEW o \in Origin,
             Measure(r, s, o)
      PROVE  ImpactInv'
  BY <1>1 DEF Measure, At, history, Executed, IInv, TypeOK
<1>2. ASSUME NEW r \in Request, NEW t \in Token, EmitToken(r, t)
      PROVE  ImpactInv'
  <2>1. t \notin issued /\ issued' = issued \cup {t} /\ book'[t] = held[r]
    BY <1>2 DEF EmitToken, Put, IInv, TypeOK
  <2> QED
    BY <1>2, <2>1 DEF EmitToken, Put, Return, At, Executed, IInv, TypeOK
<1>3. ASSUME NEW t \in Token, NEW e, Committed(t, e),
             \A q \in Request :
               pc'[q] = "put" => pc[q] = "put" /\ held'[q] = held[q],
             UNCHANGED <<issued, impact, book, drifted>>
      PROVE  ImpactInv'
  <2>1. /\ run'[t].sql = e.sql
        /\ run'[t].rows = impact[e.sql]
        /\ \A u \in Token \ {t} :
             run'[u] = run[u] /\ commits'[u] = commits[u]
    BY <1>3 DEF Committed, IInv, TypeOK
  <2> QED
    BY <1>3, <2>1 DEF Executed
<1>4. ASSUME \A q \in Request :
               pc'[q] = "put" => pc[q] = "put" /\ held'[q] = held[q],
             UNCHANGED <<issued, impact, book, commits, run, drifted>>
      PROVE  ImpactInv'
  BY <1>4 DEF Executed
<1>5. ASSUME NEW s \in Allowed, NEW n \in 0..RowBound, Drift(s, n)
      PROVE  ImpactInv'
  BY <1>5 DEF Drift, requestVars, Executed, IInv, TypeOK
<1>6. ASSUME NEW r \in Request, Begin(r) PROVE ImpactInv'
  <2>1. ASSUME NEW t \in Token,
               ConfirmPeek(r, t) \/ AskPeek(r, t) \/ Approve(r, t)
                 \/ Reject(r, t)
        PROVE  ImpactInv'
    <3>1. \A q \in Request :
            pc'[q] = "put" => pc[q] = "put" /\ held'[q] = held[q]
      BY <2>1 DEF ConfirmPeek, AskPeek, Approve, Reject, At, requestVars,
                  IInv, TypeOK
    <3>2. UNCHANGED <<issued, impact, book, commits, run, drifted>>
      BY <2>1 DEF ConfirmPeek, AskPeek, Approve, Reject, Peek, ResolvePending,
                  history
    <3> QED
      BY <3>1, <3>2, <1>4
  <2>2. CASE ListApprovals(r)
    BY <2>2, <1>4 DEF ListApprovals, ListPending, Sweep, requestVars, history
  <2> QED
    BY <1>1, <1>6, <2>1, <2>2 DEF Begin
<1>7. ASSUME NEW r \in Request, Continue(r) PROVE ImpactInv'
  <2>1. CASE \/ EmitFails(r) \/ ConfirmTake(r) \/ AskMark(r) \/ ExecFails(r)
             \/ ExecUnheard(r) \/ Reply(r) \/ ReplyLost(r)
    <3>1. \A q \in Request :
            pc'[q] = "put" => pc[q] = "put" /\ held'[q] = held[q]
      BY <2>1 DEF EmitFails, ConfirmTake, AskMark, ExecFails, ExecUnheard,
                  Reply, ReplyLost, Return, At, IInv, TypeOK
    <3>2. UNCHANGED <<issued, impact, book, commits, run, drifted>>
      BY <2>1 DEF EmitFails, ConfirmTake, AskMark, ExecFails, ExecUnheard,
                  Reply, ReplyLost, Take, RequestApproval, history
    <3> QED
      BY <3>1, <3>2, <1>4
  <2>2. CASE ExecCommits(r)
    <3>1. \A q \in Request :
            pc'[q] = "put" => pc[q] = "put" /\ held'[q] = held[q]
      BY <2>2 DEF ExecCommits, At, IInv, TypeOK
    <3>2. tok[r] \in Token
      BY <2>2 DEF ExecCommits, IInv, RequestInv, TypeOK, StoreTypeOK
    <3> QED
      BY <2>2, <3>1, <3>2, <1>3 DEF ExecCommits
  <2> QED
    BY <1>2, <1>7, <2>1, <2>2 DEF Continue
<1>8. CASE CollectGarbage \/ Clock
  BY <1>8, <1>4
     DEF CollectGarbage, GC, Sweep, Clock, Tick, requestVars, history
<1>9. CASE Restart
  BY <1>9, <1>4 DEF Restart, Forget
<1>10. ASSUME NEW t \in Token, LateCommit(t) PROVE ImpactInv'
  BY <1>10, <1>3 DEF LateCommit, requestVars
<1>11. CASE UNCHANGED vars
  BY <1>11, <1>4 DEF vars
<1> QED
  BY <1>5, <1>6, <1>7, <1>8, <1>9, <1>10, <1>11 DEF Next

\* Where nobody else wrote, the commit affects the rows the human was shown.
THEOREM PreviewToldTheTruth == Spec => []UndisturbedCommitAsPreviewed
<1>1. Init => ImpactInv
  BY InitImpact
<1>2. IInv /\ ImpactInv /\ [Next]_vars => ImpactInv'
  BY StepImpact
<1>3. IInv /\ ImpactInv => UndisturbedCommitAsPreviewed
  <2> SUFFICES ASSUME IInv, ImpactInv, NEW t \in Token, Executed(t),
                      run[t].sql \notin drifted
               PROVE  run[t].rows = book[t].rows
    BY DEF UndisturbedCommitAsPreviewed
  <2>1. run[t] \in Run /\ run[t].sql = book[t].sql /\ fate[t] # "open"
    BY DEF IInv, FateInv
  <2>2. t \in issued /\ run[t].sql \in Statement
    BY <2>1 DEF IInv, BookInv, Run
  <2> QED
    BY <2>1, <2>2 DEF ImpactInv
<1> QED
  BY <1>1, <1>2, <1>3, Invariance, PTL DEF Spec

-----------------------------------------------------------------------------
\* A proposal in force disappears only because a human decided on it or the
\* process was restarted.
THEOREM ProposalsSurvive == Spec => ProposalSurvives
<1> DEFINE Gone(t) == Live(t) /\ items[t].state = "pending_approval"
                        /\ items'[t] = None
           Decided(t) == fate'[t] \in {"approved", "rejected", "lost"}
<1>1. ASSUME IInv, [Next]_vars, NEW t \in Token, Gone(t)
      PROVE  Decided(t)
  <2>1. Present(t) /\ ~Outdated(t) /\ book[t].origin = MCP /\ items[t] # None
    BY <1>1 DEF Live, Outdated, Present, IInv, StoreInv
  <2>2. ASSUME NEW r \in Request, NEW u \in Token,
               ConfirmPeek(r, u) \/ AskPeek(r, u)
        PROVE  FALSE
    BY <1>1, <2>1, <2>2 DEF ConfirmPeek, AskPeek, Peek, Delete, IInv, TypeOK,
                            StoreTypeOK
  <2>3. ASSUME NEW r \in Request, NEW u \in Token, Approve(r, u) \/ Reject(r, u)
        PROVE  Decided(t)
    <3>1. t = u
      BY <1>1, <2>1, <2>3 DEF Approve, Reject, ResolvePending, Delete, IInv,
                              TypeOK, StoreTypeOK
    <3>2. fate' = [fate EXCEPT ![t] = "approved"]
            \/ fate' = [fate EXCEPT ![t] = "rejected"]
      BY <1>1, <2>1, <2>3, <3>1
         DEF Approve, Reject, ResolvePending, Consume, OK, ErrNotFound,
             ErrWrongState
    <3> QED
      BY <1>1, <3>2 DEF IInv, TypeOK
  <2>4. ASSUME NEW r \in Request, ConfirmTake(r) PROVE FALSE
    <3>1. tok[r] # t
      BY <1>1, <2>1, <2>4, StoreAssumption
         DEF ConfirmTake, IInv, RequestInv
    <3> QED
      BY <1>1, <2>1, <2>4, <3>1 DEF ConfirmTake, Take, Delete, IInv, TypeOK,
                                    StoreTypeOK
  <2>5. ASSUME NEW r \in Request, AskMark(r) PROVE FALSE
    BY <1>1, <2>1, <2>5 DEF AskMark, RequestApproval, Delete, IInv, TypeOK,
                            StoreTypeOK
  <2>6. ASSUME NEW r \in Request, NEW u \in Token, EmitToken(r, u) PROVE FALSE
    BY <1>1, <2>1, <2>6, NoneAssumption
       DEF EmitToken, Put, IInv, StoreInv, TypeOK, StoreTypeOK
  <2>7. ASSUME UNCHANGED items PROVE FALSE
    BY <1>1, <2>1, <2>7
  <2>8. CASE Sweep
    BY <1>1, <2>1, <2>8 DEF Sweep
  <2>9. CASE Clock
    <3>1. items[t] \in Item
      BY <1>1, <2>1 DEF IInv, TypeOK, StoreTypeOK
    <3>2. items'[t] = [items[t] EXCEPT !.left = @ - 1]
      BY <1>1, <2>9 DEF Clock, Tick
    <3>3. items'[t] \in Item
      BY <1>1, <3>1, <3>2, StoreAssumption DEF Live, After, Item
    <3> QED
      BY <1>1, <3>3, NoneAssumption
  <2>10. CASE Restart
    BY <1>1, <2>10 DEF Restart
  <2>11. ASSUME NEW r \in Request, Begin(r) PROVE Decided(t)
    BY <2>11, <2>2, <2>3, <2>7, <2>8
       DEF Begin, Measure, ListApprovals, ListPending
  <2>12. ASSUME NEW r \in Request, Continue(r) PROVE Decided(t)
    BY <2>12, <2>4, <2>5, <2>6, <2>7
       DEF Continue, EmitFails, ExecCommits, ExecUnheard, ExecFails, Reply,
           ReplyLost
  <2> QED
    BY <1>1, <2>7, <2>8, <2>9, <2>10, <2>11, <2>12
       DEF Next, CollectGarbage, GC, LateCommit, Drift, vars
<1>2. IInv /\ [Next]_vars => [\A t \in Token : Gone(t) => Decided(t)]_vars
  BY <1>1
<1> QED
  BY <1>2, Invariance, PTL DEF Spec, ProposalSurvives

-----------------------------------------------------------------------------
(* The service implements TokenLifecycle, and what follows for each step. *)

\* The life of every token, spelt out.
LEMMA LifeOfToken ==
  ASSUME IInv, NEW t \in Token
  PROVE  /\ t \notin issued => LifeOf[t] = "unissued" /\ ~Present(t)
         /\ Live(t) => LifeOf[t] = items[t].state /\ t \in issued
                         /\ fate[t] = "open" /\ items[t].state \in States
         /\ t \in issued /\ ~Live(t) =>
              LifeOf[t] = IF fate[t] \in {"confirmed", "approved"}
                          THEN "executed"
                          ELSE IF fate[t] \in {"rejected", "lost"}
                               THEN fate[t] ELSE "expired"
<1>1. Live(t) => t \in issued /\ fate[t] = "open" /\ items[t].state \in States
  BY DEF IInv, StoreInv, TypeOK, StoreTypeOK, Live, Present, Item
<1>2. t \notin issued => ~Present(t)
  BY DEF IInv, StoreInv
<1> QED
  BY <1>1, <1>2 DEF LifeOf

\* Steps that may drop outdated entries and otherwise leave map, book and
\* fates alone leave every life alone.
LEMMA LifeStutters ==
  ASSUME IInv, IInv', issued' = issued, book' = book, fate' = fate,
         \A t \in Token : items'[t] = items[t] \/ (~Live(t) /\ items'[t] = None)
  PROVE  UNCHANGED <<LifeOf, SourceOf>>
<1>1. ASSUME NEW t \in Token PROVE Live(t)' <=> Live(t)
  BY <1>1 DEF Live, Present, After
<1>2. ASSUME NEW t \in Token, Live(t) PROVE items'[t] = items[t]
  BY <1>2
<1>3. LifeOf' = LifeOf
  BY <1>1, <1>2 DEF LifeOf
<1> QED
  BY <1>3 DEF SourceOf

\* One token moves, the others stay.
LEMMA LifeMoves ==
  ASSUME IInv, IInv', issued' = issued, book' = book,
         NEW t \in Token, NEW from, NEW to,
         LifeOf[t] = from, LifeOf'[t] = to,
         \A u \in Token \ {t} : items'[u] = items[u] /\ fate'[u] = fate[u]
  PROVE  Lifecycle!Move(t, from, to)
<1>1. ASSUME NEW u \in Token \ {t} PROVE LifeOf'[u] = LifeOf[u]
  BY DEF LifeOf, Live, Present, After
<1>2. LifeOf' = [LifeOf EXCEPT ![t] = to]
  BY <1>1 DEF LifeOf
<1>3. SourceOf' = SourceOf
  BY DEF SourceOf
<1> QED
  BY <1>2, <1>3 DEF Lifecycle!Move

LEMMA InitLife == Init => Lifecycle!LifeInit
<1> SUFFICES ASSUME Init PROVE Lifecycle!LifeInit
  OBVIOUS
<1> QED
  BY DEF Init, StoreInit, LifeOf, SourceOf, Lifecycle!LifeInit

LEMMA EmitTokenLife ==
  ASSUME IInv, IInv', NEW r \in Request, NEW t \in Token, EmitToken(r, t)
  PROVE  \E o \in Origin : Lifecycle!Issue(t, o)
<1> USE DEF EmitToken, Put
<1>1. held[r] \in Entry
  BY DEF IInv, RequestInv
<1>2. held[r].origin \in Origin
  BY <1>1 DEF Entry
<1>3. t \notin issued /\ issued' = issued \cup {t}
  OBVIOUS
<1>4. LifeOf[t] = "unissued"
  BY <1>3 DEF LifeOf
<1>5. Live(t)' /\ items'[t].state = "previewed"
  BY StoreAssumption, NoneAssumption, <1>1
     DEF IInv, TypeOK, StoreTypeOK, Live, Present, After, Item, States
<1>6. ASSUME NEW u \in Token \ {t} PROVE LifeOf'[u] = LifeOf[u]
  BY DEF IInv, TypeOK, StoreTypeOK, LifeOf, Live, Present, After
<1>7. LifeOf' = [LifeOf EXCEPT ![t] = "previewed"]
  BY <1>3, <1>5, <1>6 DEF LifeOf
<1>8. SourceOf' = [SourceOf EXCEPT ![t] = held[r].origin]
  BY <1>3 DEF SourceOf, IInv, TypeOK
<1> QED
  BY <1>2, <1>4, <1>7, <1>8 DEF Lifecycle!Issue

LEMMA ConfirmTakeLife ==
  ASSUME IInv, IInv', NEW r \in Request, ConfirmTake(r)
  PROVE  \/ Lifecycle!TakeUI(tok[r])
         \/ UNCHANGED <<LifeOf, SourceOf>>
<1> DEFINE t == tok[r]
<1>1. t \in Token /\ t \in issued /\ book[t].origin = UI
  BY DEF IInv, ConfirmTake, RequestInv, TypeOK, StoreTypeOK
<1>2. CASE Take(t, OK) /\ Consume(t, "confirmed")
  <2>1. Live(t) /\ Delete(t) /\ issued' = issued /\ book' = book
    BY <1>2 DEF Take, OK, ErrNotFound, ConfirmTake
  <2>2. LifeOf[t] = "previewed"
    BY <1>1, <2>1, LifeOfToken, StoreAssumption
       DEF IInv, StoreInv, Live, States
  <2>3. LifeOf'[t] = "executed"
    BY <1>1, <1>2, <2>1
       DEF LifeOf, Live, Present, Delete, Consume, IInv, TypeOK, StoreTypeOK
  <2>4. \A u \in Token \ {t} : items'[u] = items[u] /\ fate'[u] = fate[u]
    BY <1>2, <2>1 DEF Delete, Consume, IInv, TypeOK, StoreTypeOK
  <2>5. Lifecycle!Move(t, "previewed", "executed")
    BY <1>1, <2>1, <2>2, <2>3, <2>4, LifeMoves
  <2>6. SourceOf[t] = UI
    BY <1>1 DEF SourceOf
  <2> QED
    BY <2>5, <2>6 DEF Lifecycle!TakeUI
<1>3. CASE Take(t, ErrNotFound) /\ UNCHANGED fate
  <2>1. ~Live(t) /\ Delete(t) /\ issued' = issued /\ book' = book
    BY <1>3 DEF Take, OK, ErrNotFound, ConfirmTake
  <2>2. \A u \in Token : items'[u] = items[u] \/ (~Live(u) /\ items'[u] = None)
    BY <2>1 DEF Delete, IInv, TypeOK, StoreTypeOK
  <2> QED
    BY <1>3, <2>1, <2>2, LifeStutters
<1> QED
  BY <1>2, <1>3 DEF ConfirmTake

LEMMA AskMarkLife ==
  ASSUME IInv, IInv', NEW r \in Request, AskMark(r)
  PROVE  \/ Lifecycle!Propose(tok[r])
         \/ UNCHANGED <<LifeOf, SourceOf>>
<1>0. PICK t \in Token : t = tok[r]
  BY DEF IInv, AskMark, RequestInv, TypeOK, StoreTypeOK
<1>1. t \in issued /\ book[t].origin = MCP
  BY <1>0 DEF IInv, AskMark, RequestInv
<1>2. issued' = issued /\ book' = book /\ fate' = fate
  BY DEF AskMark, RequestApproval, history
<1>3. CASE UNCHANGED items \/ (~Live(t) /\ Delete(t))
  <2>1. \A u \in Token : items'[u] = items[u] \/ (~Live(u) /\ items'[u] = None)
    BY <1>3 DEF Delete, IInv, TypeOK, StoreTypeOK
  <2> QED
    BY <1>2, <2>1, LifeStutters
<1>4. CASE /\ Live(t) /\ items[t].state = "previewed"
           /\ items' = [items EXCEPT ![t].state = "pending_approval"]
  <2>1. items[t] \in Item
    BY <1>1, <1>4 DEF Live, Present, IInv, TypeOK, StoreTypeOK
  <2>2. items'[t] = [items[t] EXCEPT !.state = "pending_approval"]
    BY <1>1, <1>4 DEF IInv, TypeOK, StoreTypeOK
  <2>3. items'[t].state = "pending_approval" /\ items'[t].left = items[t].left
    BY <2>1, <2>2 DEF Item
  <2>4. items'[t] \in Item
    BY <2>1, <2>2 DEF Item, States
  <2>5. Live(t)'
    BY <1>4, <2>3, <2>4, NoneAssumption DEF Live, Present, After
  <2>6. LifeOf[t] = "previewed" /\ LifeOf'[t] = "pending_approval"
    BY <1>1, <1>2, <1>4, <2>3, <2>5 DEF LifeOf
  <2>7. \A u \in Token \ {t} : items'[u] = items[u] /\ fate'[u] = fate[u]
    BY <1>2, <1>4 DEF IInv, TypeOK, StoreTypeOK
  <2>8. Lifecycle!Move(t, "previewed", "pending_approval")
    BY <1>1, <1>2, <2>6, <2>7, LifeMoves
  <2>9. SourceOf[t] = MCP
    BY <1>1 DEF SourceOf
  <2> QED
    BY <1>0, <2>8, <2>9 DEF Lifecycle!Propose
<1> QED
  BY <1>0, <1>3, <1>4 DEF AskMark, RequestApproval

\* Approve and Reject: the same resolution, two outcomes.
LEMMA ResolveLife ==
  ASSUME IInv, IInv', NEW t \in Token, NEW how \in {"approved", "rejected"},
         book' = book,
         \/ ResolvePending(t, OK) /\ Consume(t, how)
         \/ /\ \E err \in {ErrNotFound, ErrWrongState} : ResolvePending(t, err)
            /\ UNCHANGED fate
  PROVE  \/ Lifecycle!Move(t, "pending_approval",
                           IF how = "approved" THEN "executed" ELSE "rejected")
         \/ UNCHANGED <<LifeOf, SourceOf>>
<1>1. CASE ResolvePending(t, OK) /\ Consume(t, how)
  <2>1. /\ Live(t) /\ Delete(t) /\ issued' = issued
        /\ items[t].state = "pending_approval"
    BY <1>1 DEF ResolvePending, OK, ErrNotFound, ErrWrongState
  <2>2. LifeOf[t] = "pending_approval" /\ t \in issued
    BY <2>1, LifeOfToken
  <2>3. LifeOf'[t] = IF how = "approved" THEN "executed" ELSE "rejected"
    BY <1>1, <2>1, <2>2
       DEF LifeOf, Live, Present, Delete, Consume, IInv, TypeOK, StoreTypeOK
  <2>4. \A u \in Token \ {t} : items'[u] = items[u] /\ fate'[u] = fate[u]
    BY <1>1, <2>1 DEF Delete, Consume, IInv, TypeOK, StoreTypeOK
  <2> QED
    BY <2>1, <2>2, <2>3, <2>4, LifeMoves
<1>2. CASE /\ \E err \in {ErrNotFound, ErrWrongState} : ResolvePending(t, err)
           /\ UNCHANGED fate
  <2>1. \A u \in Token : items'[u] = items[u] \/ (~Live(u) /\ items'[u] = None)
    BY <1>2 DEF ResolvePending, Delete, IInv, TypeOK, StoreTypeOK, OK,
                ErrNotFound, ErrWrongState
  <2>2. issued' = issued
    BY <1>2 DEF ResolvePending
  <2> QED
    BY <1>2, <2>1, <2>2, LifeStutters
<1> QED
  BY <1>1, <1>2

LEMMA ClockLife ==
  ASSUME IInv, IInv', Clock
  PROVE  Lifecycle!Expire({t \in Token : Live(t) /\ items[t].left = 0})
<1> DEFINE S == {t \in Token : Live(t) /\ items[t].left = 0}
<1> USE DEF Clock, Tick, history
<1>1. ASSUME NEW t \in Token, Live(t)
      PROVE  /\ items'[t].state = items[t].state
             /\ Present(t)'
             /\ Live(t)' <=> t \notin S
  <2>1. items[t] \in Item
    BY <1>1 DEF Live, Present, IInv, TypeOK, StoreTypeOK
  <2>2. items'[t] = [items[t] EXCEPT !.left = @ - 1]
    BY <1>1
  <2>3. items'[t].state = items[t].state /\ items'[t].left = items[t].left - 1
    BY <2>1, <2>2 DEF Item
  <2>4. items'[t] \in Item
    BY <1>1, <2>1, <2>2, StoreAssumption DEF Item, Live, After
  <2>5. items[t].left \in 0..TTL
    BY <1>1, <2>1, StoreAssumption DEF Item, Live, After
  <2>6. Present(t)'
    BY <2>4, NoneAssumption DEF Present
  <2> QED
    BY <1>1, <2>3, <2>5, <2>6, StoreAssumption DEF Live, After
<1>2. ASSUME NEW t \in Token, ~Live(t) PROVE ~Live(t)'
  BY <1>2 DEF Live, Present, After
<1>3. \A t \in S : LifeOf[t] \in Lifecycle!Open
  BY LifeOfToken DEF States, Lifecycle!Open
<1>4. ASSUME NEW t \in Token
      PROVE  LifeOf'[t] = IF t \in S THEN "expired" ELSE LifeOf[t]
  <2>1. CASE Live(t)
    BY <2>1, <1>1, LifeOfToken DEF LifeOf
  <2>2. CASE ~Live(t)
    BY <2>2, <1>2 DEF LifeOf
  <2> QED
    BY <2>1, <2>2
<1>5. LifeOf' = [t \in Token |-> IF t \in S THEN "expired" ELSE LifeOf[t]]
  BY <1>4 DEF LifeOf
<1>6. SourceOf' = SourceOf
  BY DEF SourceOf
<1> QED
  BY <1>3, <1>5, <1>6 DEF Lifecycle!Expire

LEMMA RestartLife ==
  ASSUME IInv, IInv', Restart
  PROVE  Lifecycle!Lose
<1> USE DEF Restart, Forget
<1>1. ASSUME NEW t \in Token PROVE ~Live(t)'
  BY DEF Live, Present
<1>2. ASSUME NEW t \in Token
      PROVE  LifeOf'[t] = IF LifeOf[t] \in Lifecycle!Open THEN "lost"
                          ELSE LifeOf[t]
  <2>1. CASE Live(t)
    BY <2>1, <1>1, LifeOfToken DEF LifeOf, States, Lifecycle!Open
  <2>2. CASE ~Live(t)
    BY <2>2, <1>1 DEF LifeOf, Lifecycle!Open
  <2> QED
    BY <2>1, <2>2
<1>3. LifeOf' = [t \in Token |-> IF LifeOf[t] \in Lifecycle!Open THEN "lost"
                                 ELSE LifeOf[t]]
  BY <1>2 DEF LifeOf
<1>4. SourceOf' = SourceOf
  BY DEF SourceOf
<1> QED
  BY <1>3, <1>4 DEF Lifecycle!Lose

LEMMA StepLife ==
  ASSUME IInv, IInv', [Next]_vars
  PROVE  [Lifecycle!LifeNext]_<<LifeOf, SourceOf>>
<1> DEFINE Same == UNCHANGED <<LifeOf, SourceOf>>
<1>1. ASSUME NEW r \in Request, Begin(r)
      PROVE  Lifecycle!LifeNext \/ Same
  <2>1. ASSUME NEW s \in Statement, NEW o \in Origin, Measure(r, s, o)
        PROVE  Same
    BY <2>1, LifeStutters DEF Measure, history
  <2>2. ASSUME NEW t \in Token, ConfirmPeek(r, t) \/ AskPeek(r, t)
        PROVE  Same
    <3>1. PICK err : Peek(t, err)
      BY <2>2 DEF ConfirmPeek, AskPeek
    <3>2. issued' = issued /\ book' = book /\ fate' = fate
      BY <2>2, <3>1 DEF ConfirmPeek, AskPeek, Peek, history
    <3>3. \A u \in Token :
            items'[u] = items[u] \/ (~Live(u) /\ items'[u] = None)
      BY <3>1 DEF Peek, Delete, IInv, TypeOK, StoreTypeOK
    <3> QED
      BY <3>2, <3>3, LifeStutters
  <2>3. ASSUME NEW t \in Token, Approve(r, t)
        PROVE  Lifecycle!LifeNext \/ Same
    <3>1. Lifecycle!Move(t, "pending_approval", "executed") \/ Same
      BY <2>3, ResolveLife DEF Approve
    <3> QED
      BY <3>1 DEF Lifecycle!LifeNext, Lifecycle!Accept
  <2>4. ASSUME NEW t \in Token, Reject(r, t)
        PROVE  Lifecycle!LifeNext \/ Same
    <3>1. Lifecycle!Move(t, "pending_approval", "rejected") \/ Same
      BY <2>4, ResolveLife DEF Reject
    <3> QED
      BY <3>1 DEF Lifecycle!LifeNext, Lifecycle!Refuse
  <2>5. CASE ListApprovals(r)
    BY <2>5, LifeStutters
       DEF ListApprovals, ListPending, Sweep, Outdated, Live, history
  <2> QED
    BY <1>1, <2>1, <2>2, <2>3, <2>4, <2>5 DEF Begin
<1>2. ASSUME NEW r \in Request, Continue(r)
      PROVE  Lifecycle!LifeNext \/ Same
  <2>1. ASSUME NEW t \in Token, EmitToken(r, t) PROVE Lifecycle!LifeNext
    BY <2>1, EmitTokenLife DEF Lifecycle!LifeNext
  <2>2. CASE EmitFails(r) \/ ExecFails(r) \/ ExecUnheard(r) \/ ReplyLost(r)
    BY <2>2, LifeStutters
       DEF EmitFails, ExecFails, ExecUnheard, ReplyLost, history
  <2>3. CASE ConfirmTake(r)
    <3>1. tok[r] \in Token
      BY <2>3 DEF ConfirmTake, IInv, RequestInv, TypeOK, StoreTypeOK
    <3> QED
      BY <2>3, <3>1, ConfirmTakeLife DEF Lifecycle!LifeNext
  <2>4. CASE AskMark(r)
    <3>1. tok[r] \in Token
      BY <2>4 DEF AskMark, IInv, RequestInv, TypeOK, StoreTypeOK
    <3> QED
      BY <2>4, <3>1, AskMarkLife DEF Lifecycle!LifeNext
  <2>5. CASE ExecCommits(r) \/ Reply(r)
    BY <2>5, LifeStutters DEF ExecCommits, Reply
  <2> QED
    BY <1>2, <2>1, <2>2, <2>3, <2>4, <2>5 DEF Continue
<1>3. CASE CollectGarbage
  BY <1>3, LifeStutters DEF CollectGarbage, GC, Sweep, Outdated, Live, history
<1>4. CASE Clock
  <2>1. {t \in Token : Live(t) /\ items[t].left = 0} \in SUBSET Token
    OBVIOUS
  <2> QED
    BY <1>4, <2>1, ClockLife DEF Lifecycle!LifeNext
<1>5. ASSUME NEW s \in Allowed, NEW n \in 0..RowBound, Drift(s, n) PROVE Same
  BY <1>5, LifeStutters DEF Drift
<1>6. CASE Restart
  BY <1>6, RestartLife DEF Lifecycle!LifeNext
<1>7. ASSUME NEW t \in Token, LateCommit(t) PROVE Same
  BY <1>7, LifeStutters DEF LateCommit
<1>8. CASE UNCHANGED vars
  BY <1>8, LifeStutters DEF vars
<1> QED
  BY <1>1, <1>2, <1>3, <1>4, <1>5, <1>6, <1>7, <1>8 DEF Next

\* Each token moves only along the arrows drawn above `type State`: it is
\* taken only when a human previewed it, proposed only when an agent did,
\* executed or rejected by an approval only after it was proposed; no outdated
\* or lost token ever comes back.
THEOREM Refinement == Spec => ImplementsLifecycle
<1>1. Init => Lifecycle!LifeInit
  BY InitLife
<1>2. IInv /\ IInv' /\ [Next]_vars =>
        [Lifecycle!LifeNext]_<<LifeOf, SourceOf>>
  BY StepLife
<1> QED
  BY <1>1, <1>2, Invariance, PTL
     DEF Spec, ImplementsLifecycle, Lifecycle!LifeSpec, Lifecycle!lifeVars

-----------------------------------------------------------------------------
(* What the store promises to callers of any kind (StoreCalls), for any    *)
(* number of tokens, any entries and any TTL.                              *)

\* Why an entry is handed out once: a token is drawn once, what was handed out
\* is no longer in the map, and what was once outdated is outdated or gone.
CallsInv ==
  /\ CallsTypeOK
  /\ \A t \in Token :
       /\ Present(t) => t \in issued /\ handed[t] = 0
       /\ t \notin issued => handed[t] = 0
       /\ handed[t] <= 1
       /\ t \in pastDue => t \in issued /\ ~Live(t)

LEMMA InitCalls == CallsInit => CallsInv
<1> SUFFICES ASSUME CallsInit PROVE CallsInv
  OBVIOUS
<1>1. CallsTypeOK
  BY DEF CallsInit, StoreInit, CallsTypeOK, StoreTypeOK, NoReply, StoreErrors
<1> QED
  BY <1>1 DEF CallsInit, StoreInit, CallsInv, Present

-----------------------------------------------------------------------------
(* What each method does to the map: the errors are three different ones.  *)

LEMMA Errors ==
  OK # ErrNotFound /\ OK # ErrWrongState /\ ErrNotFound # ErrWrongState
BY DEF OK, ErrNotFound, ErrWrongState

\* A method touches its own token only, drops it or puts another state on it,
\* and answers OK only for an entry that is valid; then a consuming method has
\* dropped it.  What it drops without handing it out was no longer valid.
LEMMA MethodDoes ==
  ASSUME StoreTypeOK, NEW op \in Callers, NEW t \in Token,
         NEW err \in StoreErrors, Method(op, t, err)
  PROVE  /\ issued' = issued
         /\ items' \in [Token -> Item \cup {None}]
         /\ \A u \in Token : u # t => items'[u] = items[u]
         /\ err = OK => Live(t)
         /\ err = OK /\ op \in Consuming => items'[t] = None
         /\ items'[t] = None /\ Live(t) => err = OK /\ op \in Consuming
         /\ items'[t] # None => /\ Present(t)
                                /\ items'[t].left = items[t].left
                                /\ items'[t].entry = items[t].entry
<1> USE Errors, NoneAssumption DEF StoreTypeOK, Live, Present
<1>1. CASE op = "Take"
  <2>1. Take(t, err)
    BY <1>1 DEF Method
  <2> QED
    BY <1>1, <2>1 DEF Take, Delete, Consuming
<1>2. CASE op = "RequestApproval"
  <2>1. RequestApproval(t, err)
    BY <1>2 DEF Method
  <2>2. CASE /\ Live(t) /\ items[t].state = "previewed" /\ err = OK
             /\ items' = [items EXCEPT ![t].state = "pending_approval"]
    <3>1. items[t] \in Item
      BY <2>2
    <3>2. items'[t] = [items[t] EXCEPT !.state = "pending_approval"]
      BY <2>2
    <3>3. /\ items'[t] \in Item /\ items'[t].left = items[t].left
          /\ items'[t].entry = items[t].entry
      BY <3>1, <3>2 DEF Item, States
    <3> QED
      BY <1>2, <2>1, <2>2, <3>3 DEF RequestApproval, Consuming
  <2>3. CASE (~Live(t) /\ err = ErrNotFound /\ Delete(t))
               \/ (Live(t) /\ err = ErrWrongState /\ UNCHANGED items)
    BY <1>2, <2>1, <2>3 DEF RequestApproval, Delete, Consuming
  <2> QED
    BY <2>1, <2>2, <2>3 DEF RequestApproval
<1>3. CASE op = "Peek"
  <2>1. Peek(t, err)
    BY <1>3 DEF Method
  <2> QED
    BY <1>3, <2>1 DEF Peek, Delete, Consuming
<1>4. CASE op \in {"Approve", "Reject"}
  <2>1. ResolvePending(t, err)
    BY <1>4 DEF Method
  <2> QED
    BY <1>4, <2>1 DEF ResolvePending, Delete, Consuming
<1> QED
  BY <1>1, <1>2, <1>3, <1>4 DEF Callers

LEMMA SweepDoes ==
  ASSUME StoreTypeOK, Sweep
  PROVE  /\ issued' = issued
         /\ items' \in [Token -> Item \cup {None}]
         /\ \A t \in Token : items'[t] = IF Outdated(t) THEN None ELSE items[t]
BY DEF StoreTypeOK, Sweep

LEMMA TickDoes ==
  ASSUME StoreTypeOK, Tick
  PROVE  /\ issued' = issued
         /\ items' \in [Token -> Item \cup {None}]
         /\ \A t \in Token :
              IF Live(t)
              THEN /\ items'[t] # None
                   /\ items'[t].left = items[t].left - 1
                   /\ items'[t].entry = items[t].entry
              ELSE items'[t] = items[t]
<1> USE NoneAssumption DEF StoreTypeOK
<1>1. ASSUME NEW t \in Token, Live(t)
      PROVE  /\ items'[t] \in Item
             /\ items'[t].left = items[t].left - 1
             /\ items'[t].entry = items[t].entry
  <2>1. items[t] \in Item /\ items[t].left \in 0..TTL
    BY <1>1, StoreAssumption DEF Live, Present, After, Item
  <2>2. items'[t] = [items[t] EXCEPT !.left = @ - 1]
    BY <1>1 DEF Tick
  <2> QED
    BY <2>1, <2>2, StoreAssumption DEF Item
<1>2. ASSUME NEW t \in Token, ~Live(t) PROVE items'[t] = items[t]
  BY <1>2 DEF Tick
<1>3. items' \in [Token -> Item \cup {None}]
  BY <1>1, <1>2 DEF Tick
<1> QED
  BY <1>1, <1>2, <1>3 DEF Tick

-----------------------------------------------------------------------------
LEMMA PutInv ==
  ASSUME CallsInv, NEW t \in Token, NEW e \in Entry, CallPut(t, e)
  PROVE  CallsInv'
<1> USE DEF CallPut, Put
<1>1. [entry |-> e, state |-> "previewed", left |-> TTL] \in Item
  BY StoreAssumption DEF Item, States
<1>2. CallsTypeOK'
  BY <1>1 DEF CallsInv, CallsTypeOK, StoreTypeOK
<1>3. t \notin issued /\ t \notin pastDue
  BY DEF CallsInv
<1>4. \A u \in Token : u # t => items'[u] = items[u]
  BY DEF CallsInv, CallsTypeOK, StoreTypeOK
<1> QED
  BY <1>2, <1>3, <1>4 DEF CallsInv, Present, Live, After

LEMMA CallInv ==
  ASSUME CallsInv, NEW t \in Token, NEW op \in Callers, Call(op, t)
  PROVE  CallsInv'
<1>1. PICK err \in StoreErrors :
        /\ Method(op, t, err)
        /\ reply' = [op |-> op, tok |-> {t}, err |-> err]
        /\ handed' = IF op \in Consuming /\ err = OK
                     THEN [handed EXCEPT ![t] = @ + 1] ELSE handed
        /\ UNCHANGED pastDue
  BY DEF Call
<1>2. StoreTypeOK /\ handed \in [Token -> Nat] /\ pastDue \subseteq Token
  BY DEF CallsInv, CallsTypeOK
<1>3. /\ issued' = issued
      /\ items' \in [Token -> Item \cup {None}]
      /\ \A u \in Token : u # t => items'[u] = items[u]
      /\ err = OK => Live(t)
      /\ err = OK /\ op \in Consuming => items'[t] = None
      /\ items'[t] # None => Present(t) /\ items'[t].left = items[t].left
  BY <1>1, <1>2, MethodDoes
<1>4. CallsTypeOK'
  BY <1>1, <1>2, <1>3 DEF CallsTypeOK, StoreTypeOK
<1>5. ASSUME NEW u \in Token
      PROVE  /\ Present(u)' => Present(u) /\ (Live(u)' => Live(u))
             /\ handed'[u] = handed[u]
                  \/ (Live(u) /\ ~Present(u)' /\ handed'[u] = handed[u] + 1)
  BY <1>1, <1>2, <1>3 DEF Present, Live, After
<1>6. ASSUME NEW u \in Token
      PROVE  /\ Present(u)' => u \in issued' /\ handed'[u] = 0
             /\ u \notin issued' => handed'[u] = 0
             /\ handed'[u] <= 1
             /\ u \in pastDue' => u \in issued' /\ ~Live(u)'
  BY <1>1, <1>3, <1>5 DEF CallsInv, Live
<1> QED
  BY <1>4, <1>6 DEF CallsInv

LEMMA CallsSweepInv ==
  ASSUME CallsInv, Sweep, UNCHANGED <<handed, pastDue>>,
         reply' \in [op : Callers \cup {"none", "ListPending"},
                     tok : SUBSET Token, err : StoreErrors]
  PROVE  CallsInv'
<1>1. /\ issued' = issued
      /\ items' \in [Token -> Item \cup {None}]
      /\ \A t \in Token : items'[t] = IF Outdated(t) THEN None ELSE items[t]
  BY SweepDoes DEF CallsInv, CallsTypeOK
<1>2. CallsTypeOK'
  BY <1>1 DEF CallsInv, CallsTypeOK, StoreTypeOK
<1> QED
  BY <1>1, <1>2 DEF CallsInv, Present, Live, After

LEMMA TickInv ==
  ASSUME CallsInv, CallTick
  PROVE  CallsInv'
<1> USE DEF CallTick
<1>0. StoreTypeOK
  BY DEF CallsInv, CallsTypeOK
<1>1. /\ issued' = issued
      /\ items' \in [Token -> Item \cup {None}]
      /\ \A t \in Token :
           IF Live(t)
           THEN items'[t] # None /\ items'[t].left = items[t].left - 1
           ELSE items'[t] = items[t]
  BY <1>0, TickDoes
<1>2. CallsTypeOK'
  BY <1>1 DEF CallsInv, CallsTypeOK, StoreTypeOK
<1>3. ASSUME NEW t \in Token
      PROVE  /\ Present(t)' <=> Present(t)
             /\ Live(t)' => Live(t) /\ items[t].left # 0
  <2>1. CASE Live(t)
    <3>1. items'[t].left = items[t].left - 1
      BY <1>1, <2>1
    <3> QED
      BY <1>1, <2>1, <3>1 DEF Live, Present, After
  <2>2. CASE ~Live(t)
    BY <1>1, <2>2 DEF Live, Present, After
  <2> QED
    BY <2>1, <2>2
<1>4. ASSUME NEW t \in pastDue' PROVE t \in issued' /\ ~Live(t)'
  <2>1. t \in Token
    BY DEF CallsInv, CallsTypeOK
  <2>2. Live(t)' => Live(t) /\ items[t].left # 0
    BY <2>1, <1>3
  <2>3. t \in pastDue \/ (Live(t) /\ items[t].left = 0)
    OBVIOUS
  <2>4. t \in issued
    BY <2>1, <2>3 DEF CallsInv, Live
  <2> HIDE DEF CallTick
  <2> QED
    BY <1>1, <2>1, <2>2, <2>3, <2>4 DEF CallsInv
<1>5. ASSUME NEW t \in Token
      PROVE  /\ Present(t)' => t \in issued' /\ handed'[t] = 0
             /\ t \notin issued' => handed'[t] = 0
             /\ handed'[t] <= 1
  <2> HIDE DEF CallTick
  <2>1. handed' = handed /\ issued' = issued /\ (Present(t)' <=> Present(t))
    BY <1>1, <1>3 DEF CallTick
  <2> QED
    BY <2>1 DEF CallsInv
<1> HIDE DEF CallTick
<1> QED
  BY <1>2, <1>4, <1>5 DEF CallsInv

LEMMA StepCalls == CallsInv /\ [CallsNext]_callVars => CallsInv'
<1> SUFFICES ASSUME CallsInv, [CallsNext]_callVars PROVE CallsInv'
  OBVIOUS
<1>1. ASSUME NEW t \in Token, NEW e \in Entry, CallPut(t, e) PROVE CallsInv'
  BY <1>1, PutInv
<1>2. ASSUME NEW t \in Token, NEW op \in Callers, Call(op, t) PROVE CallsInv'
  BY <1>2, CallInv
<1>3. CASE CallList
  BY <1>3, CallsSweepInv DEF CallList, ListPending, StoreErrors
<1>4. CASE CallGC
  BY <1>4, CallsSweepInv DEF CallGC, GC, CallsInv, CallsTypeOK
<1>5. CASE CallTick
  BY <1>5, TickInv
<1>6. CASE UNCHANGED callVars
  BY <1>6
  DEF callVars, CallsInv, CallsTypeOK, StoreTypeOK, Present, Live, After
<1> QED
  BY <1>1, <1>2, <1>3, <1>4, <1>5, <1>6 DEF CallsNext

\* The inductive invariant of the store under arbitrary calls (store.go:66-299).
THEOREM CallsInvariance == CallsSpec => []CallsInv
BY InitCalls, StepCalls, PTL DEF CallsSpec

\* A token is good for one execution, whoever calls what and in what order.
THEOREM OneUse == CallsSpec => []HandedOutOnce
<1>1. CallsInv => HandedOutOnce
  BY DEF CallsInv, HandedOutOnce
<1> QED
  BY <1>1, CallsInvariance, PTL

-----------------------------------------------------------------------------
(* What a step may never do.                                               *)

\* How the entry of a token and its count may change in any step.
LEMMA EachStep ==
  ASSUME CallsInv, [CallsNext]_callVars, NEW t \in Token
  PROVE  /\ t \in pastDue => handed'[t] = handed[t]
         /\ Live(t) /\ items'[t] = None => handed'[t] = handed[t] + 1
         /\ Present(t) /\ items'[t] # None =>
              /\ items'[t].left <= items[t].left
              /\ items'[t].entry = items[t].entry
<1>0. /\ StoreTypeOK /\ handed \in [Token -> Nat]
      /\ t \in pastDue => ~Live(t)
      /\ Present(t) => items[t].left \in Int /\ t \in issued
  BY StoreAssumption DEF CallsInv, CallsTypeOK, StoreTypeOK, Present, Item
<1>1. ASSUME NEW u \in Token, NEW e \in Entry, CallPut(u, e)
      PROVE  handed' = handed /\ (Present(t) => items'[t] = items[t])
  BY <1>0, <1>1 DEF CallPut, Put, StoreTypeOK
<1>2. ASSUME NEW u \in Token, NEW op \in Callers, Call(op, u)
      PROVE  /\ ~Live(t) => handed'[t] = handed[t]
             /\ Live(t) /\ items'[t] = None => handed'[t] = handed[t] + 1
             /\ items'[t] # None => /\ items'[t].left = items[t].left
                                    /\ items'[t].entry = items[t].entry
  <2>1. PICK err \in StoreErrors :
          /\ Method(op, u, err)
          /\ handed' = IF op \in Consuming /\ err = OK
                       THEN [handed EXCEPT ![u] = @ + 1] ELSE handed
    BY <1>2 DEF Call
  <2>2. /\ \A v \in Token : v # u => items'[v] = items[v]
        /\ err = OK => Live(u)
        /\ items'[u] = None /\ Live(u) => err = OK /\ op \in Consuming
        /\ items'[u] # None => /\ items'[u].left = items[u].left
                               /\ items'[u].entry = items[u].entry
    BY <1>0, <2>1, MethodDoes
  <2> QED
    BY <1>0, <2>1, <2>2 DEF Live, Present
<1>3. ASSUME Sweep, handed' = handed
      PROVE  /\ handed'[t] = handed[t]
             /\ Live(t) => items'[t] # None
             /\ items'[t] # None => items'[t] = items[t]
  BY <1>0, <1>3, SweepDoes DEF Live, Present, Outdated
<1>4. ASSUME CallTick
      PROVE  /\ handed'[t] = handed[t]
             /\ Live(t) => items'[t] # None
             /\ Present(t) => /\ items'[t].left <= items[t].left
                             /\ items'[t].entry = items[t].entry
  <2>1. IF Live(t)
        THEN /\ items'[t] # None
             /\ items'[t].left = items[t].left - 1
             /\ items'[t].entry = items[t].entry
        ELSE items'[t] = items[t]
    BY <1>0, <1>4, TickDoes DEF CallTick
  <2> QED
    BY <1>0, <1>4, <2>1 DEF CallTick
<1>5. ASSUME UNCHANGED callVars
      PROVE  handed'[t] = handed[t] /\ items'[t] = items[t]
  BY <1>5 DEF callVars
<1> DEFINE Goal ==
      /\ t \in pastDue => handed'[t] = handed[t]
      /\ Live(t) /\ items'[t] = None => handed'[t] = handed[t] + 1
      /\ Present(t) /\ items'[t] # None =>
           /\ items'[t].left <= items[t].left
           /\ items'[t].entry = items[t].entry
<1>6. ASSUME NEW u \in Token, NEW e \in Entry, CallPut(u, e) PROVE Goal
  BY <1>0, <1>1, <1>6 DEF Live, Present
<1>7. ASSUME NEW u \in Token, NEW op \in Callers, Call(op, u) PROVE Goal
  BY <1>0, <1>2, <1>7
<1>8. CASE CallList \/ CallGC
  <2>1. Sweep /\ handed' = handed
    BY <1>8 DEF CallList, ListPending, CallGC, GC
  <2> QED
    BY <1>0, <1>3, <2>1
<1>9. CASE CallTick
  BY <1>0, <1>4, <1>9
<1>10. CASE UNCHANGED callVars
  BY <1>0, <1>5, <1>10 DEF Live, Present
<1> QED
  BY <1>6, <1>7, <1>8, <1>9, <1>10 DEF CallsNext

\* What was outdated once is never handed out (store.go:188, 213, 235, 262).
THEOREM NothingAfterExpiry == CallsSpec => NotAfterExpiry
<1>1. CallsInv /\ [CallsNext]_callVars
        => [\A t \in pastDue : handed'[t] = handed[t]]_callVars
  BY EachStep DEF CallsInv, CallsTypeOK
<1> QED
  BY <1>1, CallsInvariance, PTL DEF CallsSpec, NotAfterExpiry

\* A valid entry leaves the map only in the call that hands it out.
THEOREM NobodyElseRemoves == CallsSpec => OnlyItsOwnCallRemoves
<1>1. CallsInv /\ [CallsNext]_callVars
        => [\A t \in Token : Live(t) /\ items'[t] = None =>
              handed'[t] = handed[t] + 1]_callVars
  BY EachStep
<1> QED
  BY <1>1, CallsInvariance, PTL DEF CallsSpec, OnlyItsOwnCallRemoves

\* No call gives a token more time or another statement (store.go:212-222).
THEOREM NothingExtends == CallsSpec => NoCallExtends
<1>1. CallsInv /\ [CallsNext]_callVars
        => [\A t \in Token : Present(t) /\ items'[t] # None =>
              /\ items'[t].left <= items[t].left
              /\ items'[t].entry = items[t].entry]_callVars
  BY EachStep
<1> QED
  BY <1>1, CallsInvariance, PTL DEF CallsSpec, NoCallExtends
=============================================================================
