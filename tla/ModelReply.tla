----------------------------- MODULE ModelReply -----------------------------
(***************************************************************************)
(* One call to the model, internal/ai/anthropic.go: complete asks the      *)
(* provider, decodeModelJSON cuts the object out of whatever the model     *)
(* wrote around it, byte by byte, and the three methods turn what is left  *)
(* into their result, each with its own way of degrading.                  *)
(***************************************************************************)
EXTENDS Integers, Sequences, SequencesExt

CONSTANTS
  MaxText,  \* bound: the length of the model's text
  None      \* no object was cut out

ASSUME ModelReplyAssumption == MaxText \in Nat

VARIABLES
  method,   \* "suggest", "explain", "review"
  text,     \* the text blocks of the answer, joined
  pos,      \* i: the next byte that is read, 0 before the scan
  depth,    \* braces that are open
  inStr,    \* inside a string
  escaped,  \* after a backslash inside a string
  object,   \* what was cut out, or None
  result    \* "running" or what the method returns

scan == <<pos, depth, inStr, escaped>>
replyVars == <<method, text, scan, object, result>>

\* The bytes the scan tells apart: the braces, which open and close, the quote
\* and the backslash; "x" is every other one.
Bytes == {"open", "close", "quote", "backslash", "x"}
Texts == SeqOf(Bytes, MaxText)

ASSUME NoneAssumption == None \notin Seq(Bytes)

Results == {"running", "scanned", "error", "proposal", "explanation",
            "neutral", "flags", "noFlags"}

ReplyTypeOK ==
  /\ method  \in {"suggest", "explain", "review"}
  /\ text    \in Seq(Bytes)
  /\ pos     \in 0..(MaxText + 1)
  /\ depth   \in 0..MaxText
  /\ inStr   \in BOOLEAN
  /\ escaped \in BOOLEAN
  /\ object  \in Seq(Bytes) \cup {None}
  /\ result  \in Results

ReplyInit ==
  /\ method = "suggest" /\ text = <<>>
  /\ pos = 0 /\ depth = 0
  /\ inStr = FALSE /\ escaped = FALSE
  /\ object = None
  /\ result = "running"

\* A call begins with everything as it was at first.
Ask(m) ==
  /\ method' = m /\ text' = <<>>
  /\ pos' = 0 /\ depth' = 0
  /\ inStr' = FALSE /\ escaped' = FALSE
  /\ object' = None
  /\ result' = "running"

Asking  == result = "running" /\ text = <<>>
Reading == result = "running" /\ text # <<>>

\* The transport failed, a status other than 200, a body that is too long or
\* no JSON, no text in it: every method returns the error.
Unanswered ==
  /\ Asking
  /\ result' = "error"
  /\ UNCHANGED <<method, text, scan, object>>

Answered ==
  /\ Asking
  /\ text' \in Texts \ {<<>>}
  /\ UNCHANGED <<method, scan, object, result>>

FirstBrace(t) ==
  CHOOSE i \in 1..Len(t) : t[i] = "open" /\ \A j \in 1..(i-1) : t[j] # "open"

-----------------------------------------------------------------------------
\* extractJSONObject: ok = false.
NoObject ==
  /\ Reading
  /\ \/ pos = 0 /\ ~Contains(text, "open")
     \/ pos > Len(text)
  /\ result' = "scanned"
  /\ UNCHANGED <<method, text, scan, object>>

Start ==
  /\ Reading /\ pos = 0 /\ Contains(text, "open")
  /\ pos' = FirstBrace(text)
  /\ UNCHANGED <<method, text, depth, inStr, escaped, object, result>>

At(b) == Reading /\ pos \in 1..Len(text) /\ text[pos] = b

\* Variant: a quote ends the string, escaped or not.
InStringUnescaped ==
  /\ \E b \in Bytes : At(b)
  /\ inStr
  /\ inStr' = (text[pos] # "quote")
  /\ pos' = pos + 1
  /\ UNCHANGED <<method, text, depth, escaped, object, result>>

InString ==
  /\ \E b \in Bytes : At(b)
  /\ inStr
  /\ escaped' = (~escaped /\ text[pos] = "backslash")
  /\ inStr'   = (escaped \/ text[pos] # "quote")
  /\ pos' = pos + 1
  /\ UNCHANGED <<method, text, depth, object, result>>

Outside ==
  /\ ~inStr
  /\ \/ At("quote") /\ inStr' = TRUE /\ UNCHANGED depth
     \/ At("open") /\ depth' = depth + 1 /\ UNCHANGED inStr
     \/ At("close") /\ depth > 1 /\ depth' = depth - 1 /\ UNCHANGED inStr
     \/ (At("x") \/ At("backslash")) /\ UNCHANGED <<depth, inStr>>
  /\ pos' = pos + 1
  /\ UNCHANGED <<method, text, escaped, object, result>>

Close ==
  /\ ~inStr /\ At("close") /\ depth = 1
  /\ depth' = 0
  /\ object' = SubSeq(text, FirstBrace(text), pos)
  /\ result' = "scanned"
  /\ UNCHANGED <<method, text, pos, inStr, escaped>>

-----------------------------------------------------------------------------
\* The method's result, from what json.Unmarshal makes of the object: nothing
\* it can read, the payload it asked for, or one whose text fields are blank.
Conclude(payload) ==
  /\ result = "scanned"
  /\ object = None => payload = "unreadable"
  /\ result' =
       CASE method = "suggest" ->
              IF payload = "full" THEN "proposal" ELSE "error"
         [] method = "explain" ->
              IF payload = "unreadable" THEN "neutral" ELSE "explanation"
         [] method = "review" ->
              IF payload = "full" THEN "flags" ELSE "noFlags"
  /\ UNCHANGED <<method, text, scan, object>>

ReplyNext ==
  \/ Unanswered
  \/ Answered
  \/ NoObject \/ Start \/ InString \/ Outside \/ Close
  \/ \E payload \in {"unreadable", "blank", "full"} : Conclude(payload)

-----------------------------------------------------------------------------
\* What an object is, by its grammar and not by a scan: braces around pieces,
\* a piece being a byte that means nothing, a string, or an object.
Concat(A, B) == {a \o b : a \in A, b \in B}

Unquoted == {<<b>> : b \in Bytes \ {"quote", "backslash"}}

Quoted[n \in 0..MaxText] ==
  IF n = 0 THEN {<<>>}
  ELSE Concat(Unquoted, Quoted[n-1])
         \cup (IF n = 1 THEN {}
               ELSE {<<"backslash", b>> \o q : b \in Bytes, q \in Quoted[n-2]})

Strings(n) ==
  IF n < 2 THEN {} ELSE {<<"quote">> \o q \o <<"quote">> : q \in Quoted[n-2]}

Pieces[n \in 0..MaxText] ==
  IF n = 0 THEN {<<>>}
  ELSE Concat({<<"x">>, <<"backslash">>}, Pieces[n-1])
         \cup (UNION {Concat(Strings(k), Pieces[n-k]) : k \in 2..n})
         \cup (UNION {{<<"open">> \o p \o <<"close">> \o q :
                        p \in Pieces[k-2], q \in Pieces[n-k]} : k \in 2..n})

Objects == UNION {{<<"open">> \o p \o <<"close">> : p \in Pieces[n-2]} :
                    n \in 2..MaxText}

\* The object at a place of the text, if one begins there.
ObjectsAt(t, i) == {SubSeq(t, i, j) : j \in i..Len(t)} \cap Objects

-----------------------------------------------------------------------------
\* Whatever the model writes around the object, and whatever braces, quotes
\* and backslashes its strings hold, what is decoded is the object that begins
\* at the first brace, whole, and nothing when none does; so a proposal, an
\* explanation or a flag is never read out of a piece of one
\* (anthropic.go:289-303, extractJSONObject).
FirstObject ==
  /\ ReplyTypeOK
  /\ result \notin {"running", "error"} \/ object # None =>
       {object} \ {None} =
         IF Contains(text, "open") THEN ObjectsAt(text, FirstBrace(text)) ELSE {}
=============================================================================
