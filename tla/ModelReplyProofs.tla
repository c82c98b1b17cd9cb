-------------------------- MODULE ModelReplyProofs --------------------------
(***************************************************************************)
(* What the scan cuts out of the model's text is the object at its first   *)
(* brace, for texts of any length.                                         *)
(***************************************************************************)
EXTENDS ModelReply, SequenceTheorems, WellFoundedInduction, TLAPS

LEMMA LeastNatural ==
  ASSUME NEW T \in SUBSET Nat, T # {}
  PROVE  \E m \in T : \A n \in T : m <= n
<1>1. PICK m \in T : \A n \in T : ~(<<n, m>> \in OpToRel(<, Nat))
  BY NatLessThanWellFounded, WFMin
<1>2. \A n \in T : ~(n < m)
  BY <1>1 DEF OpToRel
<1> QED
  BY <1>2

-----------------------------------------------------------------------------
(* The grammar, unfolded once.  A recursive function is a CHOOSE: that it  *)
(* is its own body at each length needs a function that is.                *)

Escape(b, q) == <<"backslash", b>> \o q
Wrap(b, p, c, q) == <<b>> \o p \o <<c>> \o q

Escapes(Q) == {Escape(b, q) : b \in Bytes, q \in Q}

QuotedBody(f, n) ==
  IF n = 0 THEN {<<>>}
  ELSE Concat(Unquoted, f[n-1])
         \cup (IF n = 1 THEN {} ELSE Escapes(f[n-2]))

WithString(f, n) == UNION {Concat(Strings(k), f[n-k]) : k \in 2..n}
Braced(P, Q) == {Wrap("open", p, "close", q) : p \in P, q \in Q}
WithObject(f, n) == UNION {Braced(f[k-2], f[n-k]) : k \in 2..n}

PiecesBody(f, n) ==
  IF n = 0 THEN {<<>>}
  ELSE Concat({<<"x">>, <<"backslash">>}, f[n-1])
         \cup WithString(f, n) \cup WithObject(f, n)

LEMMA QuotedBodyLocal ==
  ASSUME NEW n \in Nat, NEW f, NEW g, \A k \in 0..(n-1) : f[k] = g[k]
  PROVE  QuotedBody(f, n) = QuotedBody(g, n)
<1>1. CASE n = 0
  BY <1>1 DEF QuotedBody
<1>2. CASE n = 1
  <2>1. f[n-1] = g[n-1]
    BY <1>2
  <2> QED
    BY <1>2, <2>1 DEF QuotedBody
<1>3. CASE n > 1
  <2>1. f[n-1] = g[n-1] /\ f[n-2] = g[n-2]
    BY <1>3
  <2> QED
    BY <1>3, <2>1 DEF QuotedBody
<1> QED
  BY <1>1, <1>2, <1>3

LEMMA PiecesBodyLocal ==
  ASSUME NEW n \in Nat, NEW f, NEW g, \A k \in 0..(n-1) : f[k] = g[k]
  PROVE  PiecesBody(f, n) = PiecesBody(g, n)
<1>1. CASE n = 0
  BY <1>1 DEF PiecesBody
<1>2. CASE n > 0
  <2>1. f[n-1] = g[n-1]
    BY <1>2
  <2>2. \A k \in 2..n : f[n-k] = g[n-k] /\ f[k-2] = g[k-2]
    BY <1>2
  <2>3. WithString(f, n) = WithString(g, n)
    BY <2>2 DEF WithString
  <2>4. WithObject(f, n) = WithObject(g, n)
    BY <2>2 DEF WithObject
  <2> QED
    BY <1>2, <2>1, <2>3, <2>4 DEF PiecesBody
<1> QED
  BY <1>1, <1>2

LEMMA QuotedDef ==
  \A n \in 0..MaxText : Quoted[n] = QuotedBody(Quoted, n)
<1> DEFINE Fits(f, m) == f = [n \in 0..m |-> QuotedBody(f, n)]
           Bad == {m \in Nat : ~\E f : Fits(f, m)}
<1>1. Bad = {}
  <2>1. SUFFICES ASSUME Bad # {} PROVE FALSE
    OBVIOUS
  <2>2. PICK m \in Bad : \A n \in Bad : m <= n
    BY <2>1, LeastNatural
  <2>3. CASE m = 0
    <3> DEFINE g == [n \in 0..0 |-> {<<>>}]
    <3>1. Fits(g, 0)
      BY DEF QuotedBody
    <3> QED
      BY <2>2, <2>3, <3>1
  <2>4. CASE m # 0
    <3>1. m \in Nat /\ m-1 \in Nat /\ m-1 \notin Bad
      BY <2>2, <2>4
    <3>2. PICK f : Fits(f, m-1)
      BY <3>1
    <3> DEFINE g == [n \in 0..m |-> IF n = m THEN QuotedBody(f, m) ELSE f[n]]
    <3>3. \A n \in 0..(m-1) : g[n] = f[n]
      BY <3>1
    <3>4. ASSUME NEW n \in 0..m PROVE g[n] = QuotedBody(g, n)
      <4>1. QuotedBody(g, n) = QuotedBody(f, n)
        BY <3>1, <3>3, QuotedBodyLocal
      <4>2. n # m => f[n] = QuotedBody(f, n)
        BY <3>1, <3>2
      <4> QED
        BY <3>1, <4>1, <4>2
    <3>5. Fits(g, m)
      BY <3>4
    <3> QED
      BY <2>2, <3>5
  <2> QED
    BY <2>3, <2>4
<1>2. \E f : Fits(f, MaxText)
  BY <1>1, ModelReplyAssumption
<1>3. Quoted = CHOOSE f : Fits(f, MaxText)
  BY DEF Quoted, QuotedBody, Escapes, Escape
<1>4. Fits(Quoted, MaxText)
  <2> HIDE DEF Fits
  <2> QED
    BY <1>2, <1>3
<1> QED
  BY <1>4, ModelReplyAssumption

LEMMA PiecesDef ==
  \A n \in 0..MaxText : Pieces[n] = PiecesBody(Pieces, n)
<1> DEFINE Fits(f, m) == f = [n \in 0..m |-> PiecesBody(f, n)]
           Bad == {m \in Nat : ~\E f : Fits(f, m)}
<1>1. Bad = {}
  <2>1. SUFFICES ASSUME Bad # {} PROVE FALSE
    OBVIOUS
  <2>2. PICK m \in Bad : \A n \in Bad : m <= n
    BY <2>1, LeastNatural
  <2>3. CASE m = 0
    <3> DEFINE g == [n \in 0..0 |-> {<<>>}]
    <3>1. Fits(g, 0)
      BY DEF PiecesBody
    <3> QED
      BY <2>2, <2>3, <3>1
  <2>4. CASE m # 0
    <3>1. m \in Nat /\ m-1 \in Nat /\ m-1 \notin Bad
      BY <2>2, <2>4
    <3>2. PICK f : Fits(f, m-1)
      BY <3>1
    <3> DEFINE g == [n \in 0..m |-> IF n = m THEN PiecesBody(f, m) ELSE f[n]]
    <3>3. \A n \in 0..(m-1) : g[n] = f[n]
      BY <3>1
    <3>4. ASSUME NEW n \in 0..m PROVE g[n] = PiecesBody(g, n)
      <4>1. PiecesBody(g, n) = PiecesBody(f, n)
        BY <3>1, <3>3, PiecesBodyLocal
      <4>2. n # m => f[n] = PiecesBody(f, n)
        BY <3>1, <3>2
      <4> QED
        BY <3>1, <4>1, <4>2
    <3>5. Fits(g, m)
      BY <3>4
    <3> QED
      BY <2>2, <3>5
  <2> QED
    BY <2>3, <2>4
<1>2. \E f : Fits(f, MaxText)
  BY <1>1, ModelReplyAssumption
<1>3. Pieces = CHOOSE f : Fits(f, MaxText)
  BY DEF Pieces, PiecesBody, WithString, WithObject, Braced, Wrap
<1>4. Fits(Pieces, MaxText)
  <2> HIDE DEF Fits
  <2> QED
    BY <1>2, <1>3
<1> QED
  BY <1>4, ModelReplyAssumption
-----------------------------------------------------------------------------
(* Sequences of bytes, by their first byte.                                *)

LEMMA ConsType ==
  ASSUME NEW c \in Bytes, NEW s \in Seq(Bytes)
  PROVE  /\ Cons(c, s) \in Seq(Bytes) /\ Len(s) \in Nat
         /\ Len(Cons(c, s)) = Len(s) + 1 /\ Cons(c, s) # <<>>
<1>1. <<c>> \in Seq(Bytes) /\ Len(<<c>>) = 1
  OBVIOUS
<1>2. Cons(c, s) = <<c>> \o s
  BY DEF Cons
<1>3. /\ <<c>> \o s \in Seq(Bytes) /\ Len(s) \in Nat
      /\ Len(<<c>> \o s) = Len(s) + 1
  BY <1>1, ConcatProperties, LenProperties
<1>4. Len(<<>>) = 0
  OBVIOUS
<1> QED
  BY <1>2, <1>3, <1>4

LEMMA ConsEqual ==
  ASSUME NEW c \in Bytes, NEW s \in Seq(Bytes),
         NEW d \in Bytes, NEW r \in Seq(Bytes)
  PROVE  Cons(c, s) = Cons(d, r) <=> c = d /\ s = r
<1> SUFFICES ASSUME Cons(c, s) = Cons(d, r) PROVE c = d /\ s = r
  OBVIOUS
<1>1. <<c>> \in Seq(Bytes) /\ <<d>> \in Seq(Bytes)
  OBVIOUS
<1>2. <<c>> \o s = <<d>> \o r
  BY DEF Cons
<1>3. (<<c>> \o s)[1] = c /\ (<<d>> \o r)[1] = d
  <2>1. Len(<<c>>) = 1 /\ Len(<<d>>) = 1 /\ Len(s) \in Nat /\ Len(r) \in Nat
    BY LenProperties
  <2>2. 1 \in 1..(Len(<<c>>) + Len(s)) /\ 1 \in 1..(Len(<<d>>) + Len(r))
    BY <2>1
  <2>3. (<<c>> \o s)[1] = <<c>>[1]
    BY <1>1, <2>1, <2>2, ConcatProperties
  <2>4. (<<d>> \o r)[1] = <<d>>[1]
    BY <1>1, <2>1, <2>2, ConcatProperties
  <2> QED
    BY <2>3, <2>4
<1>4. c = d
  BY <1>2, <1>3
<1>5. \A u, v, w \in Seq(Bytes) : u \o v = u \o w => v = w
  BY ConcatSimplifications
<1>6. s = r
  BY <1>1, <1>2, <1>4, <1>5
<1> QED
  BY <1>4, <1>6

LEMMA ConsConcat ==
  ASSUME NEW c \in Bytes, NEW s \in Seq(Bytes), NEW r \in Seq(Bytes)
  PROVE  Cons(c, s) \o r = Cons(c, s \o r)
<1>1. <<c>> \in Seq(Bytes)
  OBVIOUS
<1> QED
  BY <1>1, ConcatAssociative DEF Cons

LEMMA ConsOrEmpty ==
  ASSUME NEW s \in Seq(Bytes), s # <<>>
  PROVE  \E c \in Bytes, r \in Seq(Bytes) : s = Cons(c, r)
<1>1. Len(s) \in Nat /\ Len(s) >= 1
  BY EmptySeq
<1>2. SubSeq(s, 1, Len(s)) = s
  BY SubSeqFull
<1>3. 1 \in 1..Len(s) /\ Len(s) \in 1..Len(s)
  BY <1>1
<1>4. s = <<s[1]>> \o SubSeq(s, 1+1, Len(s))
  BY <1>2, <1>3, SubSeqRecursiveFirst
<1>5. s[1] \in Bytes /\ \A i \in (1+1)..Len(s) : s[i] \in Bytes
  BY <1>1, ElementOfSeq
<1>6. SubSeq(s, 1+1, Len(s)) \in Seq(Bytes)
  BY <1>1, <1>5, SubSeqProperties
<1> QED
  BY <1>4, <1>5, <1>6 DEF Cons

\* What is left of a text from its i-th byte up to the one before the j-th.
Slice(t, i, j) == SubSeq(t, i, j-1)

LEMMA SliceType ==
  ASSUME NEW t \in Seq(Bytes), NEW i \in 1..(Len(t)+1), NEW j \in i..(Len(t)+1)
  PROVE  /\ Len(t) \in Nat
         /\ Slice(t, i, j) \in Seq(Bytes) /\ Len(Slice(t, i, j)) = j - i
<1>1. \A k \in i..(j-1) : t[k] \in Bytes
  BY ElementOfSeq
<1>2. i \in Int /\ j-1 \in Int
  OBVIOUS
<1>3. Len(t) \in Nat
  BY LenProperties
<1> QED
  BY <1>1, <1>2, <1>3, SubSeqProperties DEF Slice

LEMMA SliceEmpty ==
  ASSUME NEW t \in Seq(Bytes), NEW i \in 1..(Len(t)+1)
  PROVE  Slice(t, i, i) = <<>>
<1>1. i \in Int /\ i-1 \in Int /\ i-1 < i
  BY LenProperties
<1> QED
  BY <1>1, SubSeqEmpty DEF Slice

LEMMA SliceCons ==
  ASSUME NEW t \in Seq(Bytes), NEW i \in 1..Len(t), NEW j \in (i+1)..(Len(t)+1)
  PROVE  Slice(t, i, j) = Cons(t[i], Slice(t, i+1, j)) /\ t[i] \in Bytes
<1>1. Len(t) \in Nat
  BY LenProperties
<1>2. j-1 \in i..Len(t)
  BY <1>1
<1> QED
  BY <1>2, SubSeqRecursiveFirst, ElementOfSeq DEF Slice, Cons

-----------------------------------------------------------------------------
(* The two languages, without their lengths.                               *)

InsideString == UNION {Quoted[n] : n \in 0..MaxText}
InsideObject == UNION {Pieces[n] : n \in 0..MaxText}

LEMMA EscapesMember ==
  ASSUME NEW Q, NEW s
  PROVE  s \in Escapes(Q) <=>
           \E b \in Bytes, q \in Q : s = Escape(b, q)
BY DEF Escapes

LEMMA UnquotedMember ==
  ASSUME NEW Q, NEW s
  PROVE  s \in Concat(Unquoted, Q) <=>
           \E b \in Bytes \ {"quote", "backslash"}, q \in Q : s = Cons(b, q)
<1>1. s \in Concat(Unquoted, Q) <=> \E a \in Unquoted, q \in Q : s = a \o q
  BY DEF Concat
<1>2. \A a : a \in Unquoted <=> \E b \in Bytes \ {"quote", "backslash"} : a = <<b>>
  BY DEF Unquoted
<1>3. \A b, q : Cons(b, q) = <<b>> \o q
  BY DEF Cons
<1> QED
  BY <1>1, <1>2, <1>3, Zenon

LEMMA PlainMember ==
  ASSUME NEW Q, NEW s
  PROVE  s \in Concat({<<"x">>, <<"backslash">>}, Q) <=>
           \E b \in {"x", "backslash"}, q \in Q : s = Cons(b, q)
<1> DEFINE A == {<<"x">>, <<"backslash">>}
<1>1. s \in Concat(A, Q) <=> \E a \in A, q \in Q : s = a \o q
  BY DEF Concat
<1>2. \A a : a \in A <=> \E b \in {"x", "backslash"} : a = <<b>>
  OBVIOUS
<1>3. \A b, q : Cons(b, q) = <<b>> \o q
  BY DEF Cons
<1> HIDE DEF A
<1>4. s \in Concat(A, Q) <=> \E b \in {"x", "backslash"}, q \in Q : s = Cons(b, q)
  BY <1>1, <1>2, <1>3, Zenon
<1> QED
  BY <1>4 DEF A

LEMMA StringsMember ==
  ASSUME NEW k \in Nat, k >= 2, NEW Q, NEW s
  PROVE  s \in Concat(Strings(k), Q) <=>
           \E p \in Quoted[k-2], q \in Q : s = Wrap("quote", p, "quote", q)
<1> DEFINE A == Strings(k)
<1> DEFINE E(p) == <<"quote">> \o p \o <<"quote">>
<1>1. s \in Concat(A, Q) <=> \E a \in A, q \in Q : s = a \o q
  BY DEF Concat
<1>2. ~(k < 2)
  OBVIOUS
<1>3. A = {E(p) : p \in Quoted[k-2]}
  BY <1>2, Zenon DEF Strings
<1>5. \A p, q : Wrap("quote", p, "quote", q) = E(p) \o q
  BY DEF Wrap
<1> HIDE DEF E
<1>6. \A a : a \in A <=> \E p \in Quoted[k-2] : a = E(p)
  <2> HIDE DEF A
  <2> QED
    BY <1>3, Zenon
<1> HIDE DEF A
<1>4. s \in Concat(A, Q) <=>
        \E p \in Quoted[k-2], q \in Q : s = Wrap("quote", p, "quote", q)
  <2>1. ASSUME NEW a \in A, NEW q \in Q, s = a \o q
        PROVE  \E p \in Quoted[k-2] : s = Wrap("quote", p, "quote", q)
    <3>1. PICK p \in Quoted[k-2] : a = E(p)
      BY <1>6
    <3>2. s = Wrap("quote", p, "quote", q)
      BY <2>1, <3>1, <1>5
    <3> QED
      BY <3>2
  <2>2. ASSUME NEW p \in Quoted[k-2], NEW q \in Q, s = Wrap("quote", p, "quote", q)
        PROVE  s \in Concat(A, Q)
    <3>1. E(p) \in A /\ s = E(p) \o q
      BY <1>5, <1>6, <2>2
    <3> QED
      BY <1>1, <3>1
  <2> QED
    BY <1>1, <2>1, <2>2
<1> QED
  BY <1>4 DEF A

\* The strings and objects of a length, each with the shape of its first bytes.
LEMMA QuotedCases ==
  ASSUME NEW n \in 0..MaxText, NEW s
  PROVE  s \in Quoted[n] <=>
           \/ n = 0 /\ s = <<>>
           \/ n >= 1 /\ \E b \in Bytes \ {"quote", "backslash"}, q \in Quoted[n-1] :
                            s = Cons(b, q)
           \/ n >= 2 /\ \E b \in Bytes, q \in Quoted[n-2] :
                            s = Escape(b, q)
<1>1. Quoted[n] = QuotedBody(Quoted, n) /\ n \in Nat
  BY QuotedDef, ModelReplyAssumption
<1>2. s \in Concat(Unquoted, Quoted[n-1]) <=>
        \E b \in Bytes \ {"quote", "backslash"}, q \in Quoted[n-1] : s = Cons(b, q)
  BY UnquotedMember
<1>3. CASE n = 0
  BY <1>1, <1>3 DEF QuotedBody
<1>4. CASE n = 1
  <2>1. Quoted[n] = Concat(Unquoted, Quoted[n-1])
    BY <1>1, <1>4 DEF QuotedBody
  <2> QED
    BY <1>2, <1>4, <2>1
<1>5. CASE n >= 2
  <2>1. Quoted[n] = Concat(Unquoted, Quoted[n-1]) \cup Escapes(Quoted[n-2])
    BY <1>1, <1>5 DEF QuotedBody
  <2>2. s \in Escapes(Quoted[n-2]) <=>
          \E b \in Bytes, q \in Quoted[n-2] : s = Escape(b, q)
    BY EscapesMember
  <2> QED
    BY <1>2, <1>5, <2>1, <2>2
<1> QED
  BY <1>1, <1>3, <1>4, <1>5

HasString(n, s) ==
  \E k \in 2..n : \E p \in Quoted[k-2], q \in Pieces[n-k] :
    s = Wrap("quote", p, "quote", q)
HasObject(n, s) ==
  \E k \in 2..n : \E p \in Pieces[k-2], q \in Pieces[n-k] :
    s = Wrap("open", p, "close", q)

LEMMA PiecesCases ==
  ASSUME NEW n \in 0..MaxText, NEW s
  PROVE  s \in Pieces[n] <=>
           \/ n = 0 /\ s = <<>>
           \/ n >= 1 /\ \E b \in {"x", "backslash"}, q \in Pieces[n-1] : s = Cons(b, q)
           \/ HasString(n, s)
           \/ HasObject(n, s)
<1>1. Pieces[n] = PiecesBody(Pieces, n) /\ n \in Nat
  BY PiecesDef, ModelReplyAssumption
<1>2. CASE n = 0
  <2>1. ~HasString(n, s) /\ ~HasObject(n, s)
    BY <1>2 DEF HasString, HasObject
  <2> QED
    BY <1>1, <1>2, <2>1 DEF PiecesBody
<1>3. CASE n >= 1
  <2>1. Pieces[n] = Concat({<<"x">>, <<"backslash">>}, Pieces[n-1])
                      \cup WithString(Pieces, n) \cup WithObject(Pieces, n)
    BY <1>1, <1>3 DEF PiecesBody
  <2>2. s \in Concat({<<"x">>, <<"backslash">>}, Pieces[n-1]) <=>
          \E b \in {"x", "backslash"}, q \in Pieces[n-1] : s = Cons(b, q)
    BY PlainMember
  <2>3. s \in WithString(Pieces, n) <=>
          HasString(n, s)
    <3>1. ASSUME NEW k \in 2..n
          PROVE  s \in Concat(Strings(k), Pieces[n-k]) <=>
                   \E p \in Quoted[k-2], q \in Pieces[n-k] :
                     s = Wrap("quote", p, "quote", q)
      BY <1>1, StringsMember
    <3> QED
      BY <3>1 DEF WithString, HasString
  <2>4. s \in WithObject(Pieces, n) <=>
          HasObject(n, s)
    <3>1. ASSUME NEW k \in 2..n
          PROVE  s \in Braced(Pieces[k-2], Pieces[n-k]) <=>
                   \E p \in Pieces[k-2], q \in Pieces[n-k] :
                     s = Wrap("open", p, "close", q)
      <4> DEFINE A == Pieces[k-2]
                 B == Pieces[n-k]
      <4>1. s \in Braced(A, B) <=> \E p \in A, q \in B : s = Wrap("open", p, "close", q)
        <5> HIDE DEF A, B
        <5> QED
          BY DEF Braced
      <4> QED
        BY <4>1
    <3> QED
      BY <3>1 DEF WithObject, HasObject
  <2> QED
    BY <1>3, <2>1, <2>2, <2>3, <2>4
<1> QED
  BY <1>1, <1>2, <1>3

LEMMA QuotedType ==
  \A n \in 0..MaxText : \A q \in Quoted[n] : q \in Seq(Bytes) /\ Len(q) = n
<1> DEFINE Good(n) == \A q \in Quoted[n] : q \in Seq(Bytes) /\ Len(q) = n
           Bad == {n \in Nat : n <= MaxText /\ ~Good(n)}
<1>1. SUFFICES ASSUME Bad # {} PROVE FALSE
  BY ModelReplyAssumption
<1>2. PICK n \in Bad : \A m \in Bad : n <= m
  <2> HIDE DEF Good
  <2> QED
    BY <1>1, LeastNatural
<1>3. \A m \in 0..(n-1) : Good(m)
  <2> HIDE DEF Good
  <2> QED
    BY <1>2, ModelReplyAssumption
<1>4. n \in 0..MaxText /\ n \in Nat
  BY ModelReplyAssumption
<1>5. ASSUME NEW q \in Quoted[n] PROVE q \in Seq(Bytes) /\ Len(q) = n
  <2>1. CASE n = 0 /\ q = <<>>
    BY <2>1
  <2>2. CASE n >= 1 /\ \E b \in Bytes \ {"quote", "backslash"}, r \in Quoted[n-1] :
                            q = Cons(b, r)
    <3>1. PICK b \in Bytes, r \in Quoted[n-1] : q = Cons(b, r)
      BY <2>2
    <3>2. r \in Seq(Bytes) /\ Len(r) = n-1
      BY <1>3, <1>4, <2>2
    <3> QED
      BY <1>4, <3>1, <3>2, ConsType
  <2>3. CASE n >= 2 /\ \E b \in Bytes, r \in Quoted[n-2] :
                            q = Escape(b, r)
    <3>1. PICK b \in Bytes, r \in Quoted[n-2] : q = Escape(b, r)
      BY <2>3
    <3>2. r \in Seq(Bytes) /\ Len(r) = n-2
      BY <1>3, <1>4, <2>3
    <3> DEFINE e == <<"backslash", b>>
    <3>3. e \in Seq(Bytes) /\ Len(e) = 2
      <4>1. "backslash" \in Bytes
        BY DEF Bytes
      <4> QED
        BY <4>1
    <3>4. e \o r \in Seq(Bytes) /\ Len(e \o r) = Len(e) + Len(r)
      <4> HIDE DEF e
      <4> QED
        BY <3>2, <3>3, ConcatProperties
    <3>5. q = e \o r
      BY <3>1 DEF Escape
    <3> HIDE DEF e
    <3> QED
      BY <1>4, <3>2, <3>3, <3>4, <3>5
  <2> QED
    BY <1>4, <1>5, <2>1, <2>2, <2>3, QuotedCases
<1> QED
  BY <1>2, <1>5

\* p, then the byte c, then q.
Then(p, c, q) == p \o Cons(c, q)

LEMMA WrapCons ==
  ASSUME NEW b \in Bytes, NEW c \in Bytes, NEW p \in Seq(Bytes), NEW q \in Seq(Bytes)
  PROVE  /\ Wrap(b, p, c, q) = Cons(b, Then(p, c, q))
         /\ Wrap(b, p, c, q) \in Seq(Bytes)
         /\ Len(Wrap(b, p, c, q)) = Len(p) + Len(q) + 2
         /\ Then(p, c, q) \in Seq(Bytes)
         /\ Len(Then(p, c, q)) = Len(p) + Len(q) + 1
<1> DEFINE B == <<b>>
           C == <<c>>
<1>1. B \in Seq(Bytes) /\ C \in Seq(Bytes)
  OBVIOUS
<1>2. Wrap(b, p, c, q) = ((B \o p) \o C) \o q /\ Cons(c, q) = C \o q
      /\ \A s : Cons(b, s) = B \o s
  BY DEF Wrap, Cons
<1> HIDE DEF B, C
<1>3. B \o p \in Seq(Bytes) /\ C \o q \in Seq(Bytes)
  BY <1>1, ConcatProperties
<1>0. ASSUME NEW u \in Seq(Bytes), NEW v \in Seq(Bytes), NEW w \in Seq(Bytes)
      PROVE  (u \o v) \o w = u \o (v \o w)
  BY SMT
<1>4. ((B \o p) \o C) \o q = (B \o p) \o (C \o q)
  BY <1>0, <1>1, <1>3
<1>5. (B \o p) \o (C \o q) = B \o (p \o (C \o q))
  BY <1>0, <1>1, <1>3
<1>6. Wrap(b, p, c, q) = Cons(b, p \o Cons(c, q))
  BY <1>2, <1>4, <1>5
<1>7. /\ Cons(c, q) \in Seq(Bytes) /\ Len(Cons(c, q)) = Len(q) + 1
      /\ Len(p) \in Nat /\ Len(q) \in Nat
  BY ConsType, LenProperties
<1>8. /\ p \o Cons(c, q) \in Seq(Bytes)
      /\ Len(p \o Cons(c, q)) = Len(p) + Len(Cons(c, q))
  BY <1>7, ConcatProperties
<1>9. /\ Cons(b, p \o Cons(c, q)) \in Seq(Bytes)
      /\ Len(Cons(b, p \o Cons(c, q))) = Len(p \o Cons(c, q)) + 1
  BY <1>8, ConsType
<1> QED
  BY <1>6, <1>7, <1>8, <1>9 DEF Then

LEMMA EscapeCons ==
  ASSUME NEW b \in Bytes, NEW q \in Seq(Bytes)
  PROVE  Escape(b, q) = Cons("backslash", Cons(b, q))
<1>1. "backslash" \in Bytes
  BY DEF Bytes
<1>2. <<"backslash">> \in Seq(Bytes) /\ <<b>> \in Seq(Bytes)
  BY <1>1
<1>3. <<"backslash", b>> = <<"backslash">> \o <<b>>
  OBVIOUS
<1>4. (<<"backslash">> \o <<b>>) \o q = <<"backslash">> \o (<<b>> \o q)
  BY <1>2, ConcatAssociative
<1> QED
  BY <1>3, <1>4 DEF Escape, Cons

LEMMA ThenType ==
  ASSUME NEW p \in Seq(Bytes), NEW c \in Bytes, NEW q \in Seq(Bytes)
  PROVE  /\ Then(p, c, q) \in Seq(Bytes) /\ Then(p, c, q) # <<>>
         /\ Len(p) \in Nat /\ Len(q) \in Nat
         /\ Len(Then(p, c, q)) = Len(p) + Len(q) + 1
<1>1. Len(p) \in Nat /\ Len(q) \in Nat /\ Len(<<>>) = 0
  BY LenProperties
<1>2. Then(p, c, q) \in Seq(Bytes) /\ Len(Then(p, c, q)) = Len(p) + Len(q) + 1
  BY WrapCons
<1> QED
  BY <1>1, <1>2

LEMMA ThenOfNothing ==
  ASSUME NEW c \in Bytes, NEW q \in Seq(Bytes)
  PROVE  Then(<<>>, c, q) = Cons(c, q)
<1>1. Cons(c, q) \in Seq(Bytes)
  BY ConsType
<1> QED
  BY <1>1, ConcatEmptySeq DEF Then

LEMMA ThenOfCons ==
  ASSUME NEW b \in Bytes, NEW p \in Seq(Bytes), NEW c \in Bytes, NEW q \in Seq(Bytes)
  PROVE  Then(Cons(b, p), c, q) = Cons(b, Then(p, c, q))
<1>1. Cons(c, q) \in Seq(Bytes)
  BY ConsType
<1> QED
  BY <1>1, ConsConcat DEF Then

LEMMA ThenOfThen ==
  ASSUME NEW p \in Seq(Bytes), NEW c \in Bytes, NEW q \in Seq(Bytes),
         NEW e \in Bytes, NEW b \in Seq(Bytes)
  PROVE  Then(Then(p, c, q), e, b) = Then(p, c, Then(q, e, b))
<1>1. Cons(c, q) \in Seq(Bytes) /\ Cons(e, b) \in Seq(Bytes)
  BY ConsType
<1>2. Cons(c, q) \o Cons(e, b) = Cons(c, q \o Cons(e, b))
  BY <1>1, ConsConcat
<1>3. \A u, v, w \in Seq(Bytes) : (u \o v) \o w = u \o (v \o w)
  BY SMT
<1>4. (p \o Cons(c, q)) \o Cons(e, b) = p \o (Cons(c, q) \o Cons(e, b))
  BY <1>1, <1>3
<1> QED
  BY <1>2, <1>4 DEF Then

LEMMA PiecesType ==
  \A n \in 0..MaxText : \A q \in Pieces[n] : q \in Seq(Bytes) /\ Len(q) = n
<1> DEFINE Good(n) == \A q \in Pieces[n] : q \in Seq(Bytes) /\ Len(q) = n
           Bad == {n \in Nat : n <= MaxText /\ ~Good(n)}
<1>1. SUFFICES ASSUME Bad # {} PROVE FALSE
  BY ModelReplyAssumption
<1>2. PICK n \in Bad : \A m \in Bad : n <= m
  <2> HIDE DEF Good
  <2> QED
    BY <1>1, LeastNatural
<1>3. \A m \in 0..(n-1) : Good(m)
  <2> HIDE DEF Good
  <2> QED
    BY <1>2, ModelReplyAssumption
<1>4. n \in 0..MaxText /\ n \in Nat
  BY ModelReplyAssumption
<1>5. ASSUME NEW s \in Pieces[n] PROVE s \in Seq(Bytes) /\ Len(s) = n
  <2>0. {"x", "backslash", "quote", "open", "close"} \subseteq Bytes
    BY DEF Bytes
  <2>1. CASE n = 0 /\ s = <<>>
    BY <2>1
  <2>2. CASE n >= 1 /\ \E b \in {"x", "backslash"}, q \in Pieces[n-1] : s = Cons(b, q)
    <3>1. PICK b \in Bytes, r \in Pieces[n-1] : s = Cons(b, r)
      BY <2>0, <2>2
    <3>2. r \in Seq(Bytes) /\ Len(r) = n-1
      BY <1>3, <1>4, <2>2
    <3> QED
      BY <1>4, <3>1, <3>2, ConsType
  <2>3. CASE HasString(n, s)
    <3>1. PICK k \in 2..n : \E p \in Quoted[k-2], q \in Pieces[n-k] :
                 s = Wrap("quote", p, "quote", q)
      BY <2>3 DEF HasString
    <3>2. PICK p \in Quoted[k-2], q \in Pieces[n-k] : s = Wrap("quote", p, "quote", q)
      BY <3>1
    <3>0. "quote" \in Bytes /\ "quote" \in Bytes
      BY <2>0
    <3>3. p \in Seq(Bytes) /\ Len(p) = k-2 /\ q \in Seq(Bytes) /\ Len(q) = n-k
      <4>1. k-2 \in 0..MaxText /\ n-k \in 0..(n-1)
        BY <1>4, ModelReplyAssumption
      <4> QED
        BY <1>3, <4>1, QuotedType
    <3>4. s \in Seq(Bytes) /\ Len(s) = Len(p) + Len(q) + 2
      BY <3>0, <3>2, <3>3, WrapCons
    <3> QED
      BY <1>4, <3>3, <3>4
  <2>4. CASE HasObject(n, s)
    <3>1. PICK k \in 2..n : \E p \in Pieces[k-2], q \in Pieces[n-k] :
                 s = Wrap("open", p, "close", q)
      BY <2>4 DEF HasObject
    <3>2. PICK p \in Pieces[k-2], q \in Pieces[n-k] : s = Wrap("open", p, "close", q)
      BY <3>1
    <3>0. "open" \in Bytes /\ "close" \in Bytes
      BY <2>0
    <3>3. p \in Seq(Bytes) /\ Len(p) = k-2 /\ q \in Seq(Bytes) /\ Len(q) = n-k
      <4>1. k-2 \in 0..(n-1) /\ n-k \in 0..(n-1)
        BY <1>4
      <4> QED
        BY <1>3, <4>1
    <3>4. s \in Seq(Bytes) /\ Len(s) = Len(p) + Len(q) + 2
      BY <3>0, <3>2, <3>3, WrapCons
    <3> QED
      BY <1>4, <3>3, <3>4
  <2> QED
    BY <1>4, <1>5, <2>1, <2>2, <2>3, <2>4, PiecesCases
<1> QED
  BY <1>2, <1>5

\* A sequence is in a language when it is there at its length.
LEMMA ByLength ==
  ASSUME NEW s \in Seq(Bytes)
  PROVE  /\ s \in InsideString <=> Len(s) <= MaxText /\ s \in Quoted[Len(s)]
         /\ s \in InsideObject <=> Len(s) <= MaxText /\ s \in Pieces[Len(s)]
<1>1. Len(s) \in Nat /\ MaxText \in Nat
  BY LenProperties, ModelReplyAssumption
<1>2. \A n \in 0..MaxText : s \in Quoted[n] => n = Len(s)
  BY QuotedType
<1>3. \A n \in 0..MaxText : s \in Pieces[n] => n = Len(s)
  BY PiecesType
<1>4. s \in InsideString <=> \E n \in 0..MaxText : s \in Quoted[n]
  BY DEF InsideString
<1>5. s \in InsideObject <=> \E n \in 0..MaxText : s \in Pieces[n]
  BY DEF InsideObject
<1> QED
  BY <1>1, <1>2, <1>3, <1>4, <1>5

LEMMA InsideType ==
  /\ \A s \in InsideString : s \in Seq(Bytes) /\ Len(s) \in 0..MaxText
  /\ \A s \in InsideObject : s \in Seq(Bytes) /\ Len(s) \in 0..MaxText
BY QuotedType, PiecesType DEF InsideString, InsideObject

LEMMA TheBytes ==
  /\ {"x", "backslash", "quote", "open", "close"} \subseteq Bytes
  /\ \A b \in Bytes : b \in {"x", "backslash", "quote", "open", "close"}
BY DEF Bytes

\* Inside a string, byte by byte.
LEMMA StringByte ==
  ASSUME NEW c \in Bytes, NEW s \in Seq(Bytes), Len(s) < MaxText
  PROVE  /\ Cons("quote", s) \notin InsideString
         /\ c \notin {"quote", "backslash"} =>
              (Cons(c, s) \in InsideString <=> s \in InsideString)
         /\ Cons("backslash", s) \in InsideString <=>
              \E b \in Bytes, q \in InsideString : s = Cons(b, q)
<1>0. PICK m \in Nat : m = Len(s) /\ m < MaxText
  BY LenProperties
<1>1. m \in 0..MaxText /\ m+1 \in 0..MaxText /\ (m+1)-1 = m /\ (m+1)-2 = m-1
  BY <1>0, ModelReplyAssumption
<1>2. \A d \in Bytes : /\ Cons(d, s) \in Seq(Bytes) /\ Len(Cons(d, s)) = m+1
  BY <1>0, ConsType
<1>3. \A d \in Bytes : Cons(d, s) \in InsideString <=> Cons(d, s) \in Quoted[m+1]
  <2>1. ASSUME NEW r \in Seq(Bytes), Len(r) = m+1
        PROVE  r \in InsideString <=> r \in Quoted[m+1]
    BY <1>0, <1>1, <2>1, ByLength
  <2> QED
    BY <1>2, <2>1
<1>4. s \in InsideString <=> s \in Quoted[m]
  <2>1. Len(s) <= MaxText
    BY <1>0, ModelReplyAssumption
  <2> QED
    BY <1>0, <2>1, ByLength
<1>5. \A q \in Quoted[m] : q \in Seq(Bytes)
  BY <1>1, QuotedType
<1>6. m >= 1 => \A q \in Quoted[m-1] : q \in Seq(Bytes) /\ q \in InsideString
  <2>1. ASSUME NEW k \in 0..MaxText
        PROVE  \A q \in Quoted[k] : q \in Seq(Bytes) /\ q \in InsideString
    BY QuotedType DEF InsideString
  <2>2. SUFFICES ASSUME m >= 1
                 PROVE  \A q \in Quoted[m-1] : q \in Seq(Bytes) /\ q \in InsideString
    OBVIOUS
  <2>3. m-1 \in 0..MaxText
    BY <1>1, <2>2, ModelReplyAssumption
  <2> QED
    BY <2>1, <2>3
\* The two shapes a string of this length can have.
<1>7. \A d \in Bytes :
        (\E b \in Bytes \ {"quote", "backslash"}, q \in Quoted[m] : Cons(d, s) = Cons(b, q))
          <=> d \notin {"quote", "backslash"} /\ s \in Quoted[m]
  BY <1>5, ConsEqual
<1>8. \A d \in Bytes :
        (\E b \in Bytes, q \in Quoted[m-1] : m >= 1 /\ Cons(d, s) = Escape(b, q))
          <=> d = "backslash" /\ \E b \in Bytes, q \in Quoted[m-1] : m >= 1 /\ s = Cons(b, q)
  <2>1. ASSUME NEW d \in Bytes, NEW b \in Bytes, NEW q \in Quoted[m-1], m >= 1
        PROVE  Cons(d, s) = Escape(b, q) <=> d = "backslash" /\ s = Cons(b, q)
    <3>1. q \in Seq(Bytes)
      BY <1>6, <2>1
    <3>2. Escape(b, q) = Cons("backslash", Cons(b, q)) /\ Cons(b, q) \in Seq(Bytes)
      BY <3>1, EscapeCons, ConsType
    <3>3. "backslash" \in Bytes
      BY TheBytes
    <3> QED
      BY <3>2, <3>3, ConsEqual
  <2> QED
    BY <2>1
<1>9. ASSUME NEW d \in Bytes
      PROVE  Cons(d, s) \in InsideString <=>
               \/ d \notin {"quote", "backslash"} /\ s \in InsideString
               \/ d = "backslash" /\ \E b \in Bytes, q \in Quoted[m-1] :
                                       m >= 1 /\ s = Cons(b, q)
  <2>1. Cons(d, s) \in Quoted[m+1] <=>
          \/ \E b \in Bytes \ {"quote", "backslash"}, q \in Quoted[m] : Cons(d, s) = Cons(b, q)
          \/ \E b \in Bytes, q \in Quoted[m-1] : m >= 1 /\ Cons(d, s) = Escape(b, q)
    <3>1. \A r : r \in Quoted[m+1] <=>
            \/ m+1 = 0 /\ r = <<>>
            \/ m+1 >= 1 /\ \E b \in Bytes \ {"quote", "backslash"}, q \in Quoted[m] :
                             r = Cons(b, q)
            \/ m+1 >= 2 /\ \E b \in Bytes, q \in Quoted[m-1] : r = Escape(b, q)
      BY <1>1, QuotedCases
    <3> QED
      BY <3>1
  <2> QED
    BY <1>3, <1>4, <1>7, <1>8, <2>1
<1>10. (\E b \in Bytes, q \in Quoted[m-1] : m >= 1 /\ s = Cons(b, q)) <=>
         \E b \in Bytes, q \in InsideString : s = Cons(b, q)
  <2>1. ASSUME NEW b \in Bytes, NEW q \in InsideString, s = Cons(b, q)
        PROVE  m >= 1 /\ q \in Quoted[m-1]
    <3>1. q \in Seq(Bytes) /\ Len(q) \in 0..MaxText
      BY InsideType
    <3>2. Len(s) = Len(q) + 1
      BY <2>1, <3>1, ConsType
    <3>3. q \in Quoted[Len(q)]
      BY <3>1, ByLength
    <3>4. m >= 1 /\ Len(q) = m-1
      BY <1>0, <3>1, <3>2
    <3> QED
      BY <3>3, <3>4
  <2> QED
    BY <1>6, <2>1
<1> QED
  BY <1>9, <1>10, TheBytes

\* What begins with a quote, or with a brace, is a whole string or object and
\* what follows it.
LEMMA StringFirst ==
  ASSUME NEW d \in Bytes, NEW s \in Seq(Bytes), NEW m \in Nat, m = Len(s), m < MaxText
  PROVE  HasString(m+1, Cons(d, s)) <=>
           d = "quote" /\ \E p \in InsideString, q \in InsideObject : s = Then(p, "quote", q)
<1>0. "quote" \in Bytes /\ "quote" \in Bytes
  BY TheBytes
<1>1. ASSUME NEW p \in Seq(Bytes), NEW q \in Seq(Bytes)
      PROVE  /\ Cons(d, s) = Wrap("quote", p, "quote", q) <=>
                  d = "quote" /\ s = Then(p, "quote", q)
             /\ Len(p) \in Nat /\ Len(q) \in Nat
             /\ Len(Then(p, "quote", q)) = Len(p) + Len(q) + 1
  <2>1. /\ Wrap("quote", p, "quote", q) = Cons("quote", Then(p, "quote", q))
        /\ Then(p, "quote", q) \in Seq(Bytes)
        /\ Len(Then(p, "quote", q)) = Len(p) + Len(q) + 1
    BY <1>0, WrapCons
  <2>2. \A r \in Seq(Bytes) : Cons(d, s) = Cons("quote", r) <=> d = "quote" /\ s = r
    BY <1>0, ConsEqual
  <2>3. Len(p) \in Nat /\ Len(q) \in Nat
    BY LenProperties
  <2> QED
    BY <2>1, <2>2, <2>3
<1>2. ASSUME HasString(m+1, Cons(d, s))
      PROVE  d = "quote" /\ \E p \in InsideString, q \in InsideObject : s = Then(p, "quote", q)
  <2>1. PICK k \in 2..(m+1) : \E p \in Quoted[k-2], q \in Pieces[(m+1)-k] :
               Cons(d, s) = Wrap("quote", p, "quote", q)
    BY <1>2 DEF HasString
  <2>2. PICK p \in Quoted[k-2], q \in Pieces[(m+1)-k] :
               Cons(d, s) = Wrap("quote", p, "quote", q)
    BY <2>1
  <2>3. k-2 \in 0..MaxText /\ (m+1)-k \in 0..MaxText
    BY ModelReplyAssumption
  <2>4. p \in InsideString /\ q \in InsideObject
    BY <2>3 DEF InsideString, InsideObject
  <2>5. p \in Seq(Bytes) /\ q \in Seq(Bytes)
    BY <2>4, InsideType
  <2> QED
    BY <1>1, <2>2, <2>4, <2>5
<1>3. ASSUME d = "quote", NEW p \in InsideString, NEW q \in InsideObject,
             s = Then(p, "quote", q)
      PROVE  HasString(m+1, Cons(d, s))
  <2>1. p \in Seq(Bytes) /\ q \in Seq(Bytes)
    BY InsideType
  <2>2. /\ Cons(d, s) = Wrap("quote", p, "quote", q)
        /\ Len(p) \in Nat /\ Len(q) \in Nat /\ m = Len(p) + Len(q) + 1
    BY <1>1, <1>3, <2>1
  <2>3. p \in Quoted[Len(p)] /\ q \in Pieces[Len(q)]
    BY <2>1, ByLength
  <2>4. PICK k \in 2..(m+1) : k-2 = Len(p) /\ (m+1)-k = Len(q)
    <3>1. Len(p)+2 \in 2..(m+1) /\ (Len(p)+2)-2 = Len(p) /\ (m+1)-(Len(p)+2) = Len(q)
      BY <2>2
    <3> QED
      BY <3>1
  <2> QED
    BY <2>2, <2>3, <2>4 DEF HasString
<1> QED
  BY <1>2, <1>3

LEMMA ObjectFirst ==
  ASSUME NEW d \in Bytes, NEW s \in Seq(Bytes), NEW m \in Nat, m = Len(s), m < MaxText
  PROVE  HasObject(m+1, Cons(d, s)) <=>
           d = "open" /\ \E p \in InsideObject, q \in InsideObject : s = Then(p, "close", q)
<1>0. "open" \in Bytes /\ "close" \in Bytes
  BY TheBytes
<1>1. ASSUME NEW p \in Seq(Bytes), NEW q \in Seq(Bytes)
      PROVE  /\ Cons(d, s) = Wrap("open", p, "close", q) <=>
                  d = "open" /\ s = Then(p, "close", q)
             /\ Len(p) \in Nat /\ Len(q) \in Nat
             /\ Len(Then(p, "close", q)) = Len(p) + Len(q) + 1
  <2>1. /\ Wrap("open", p, "close", q) = Cons("open", Then(p, "close", q))
        /\ Then(p, "close", q) \in Seq(Bytes)
        /\ Len(Then(p, "close", q)) = Len(p) + Len(q) + 1
    BY <1>0, WrapCons
  <2>2. \A r \in Seq(Bytes) : Cons(d, s) = Cons("open", r) <=> d = "open" /\ s = r
    BY <1>0, ConsEqual
  <2>3. Len(p) \in Nat /\ Len(q) \in Nat
    BY LenProperties
  <2> QED
    BY <2>1, <2>2, <2>3
<1>2. ASSUME HasObject(m+1, Cons(d, s))
      PROVE  d = "open" /\ \E p \in InsideObject, q \in InsideObject : s = Then(p, "close", q)
  <2>1. PICK k \in 2..(m+1) : \E p \in Pieces[k-2], q \in Pieces[(m+1)-k] :
               Cons(d, s) = Wrap("open", p, "close", q)
    BY <1>2 DEF HasObject
  <2>2. PICK p \in Pieces[k-2], q \in Pieces[(m+1)-k] :
               Cons(d, s) = Wrap("open", p, "close", q)
    BY <2>1
  <2>3. k-2 \in 0..MaxText /\ (m+1)-k \in 0..MaxText
    BY ModelReplyAssumption
  <2>4. p \in InsideObject /\ q \in InsideObject
    BY <2>3 DEF InsideString, InsideObject
  <2>5. p \in Seq(Bytes) /\ q \in Seq(Bytes)
    BY <2>4, InsideType
  <2> QED
    BY <1>1, <2>2, <2>4, <2>5
<1>3. ASSUME d = "open", NEW p \in InsideObject, NEW q \in InsideObject,
             s = Then(p, "close", q)
      PROVE  HasObject(m+1, Cons(d, s))
  <2>1. p \in Seq(Bytes) /\ q \in Seq(Bytes)
    BY InsideType
  <2>2. /\ Cons(d, s) = Wrap("open", p, "close", q)
        /\ Len(p) \in Nat /\ Len(q) \in Nat /\ m = Len(p) + Len(q) + 1
    BY <1>1, <1>3, <2>1
  <2>3. p \in Pieces[Len(p)] /\ q \in Pieces[Len(q)]
    BY <2>1, ByLength
  <2>4. PICK k \in 2..(m+1) : k-2 = Len(p) /\ (m+1)-k = Len(q)
    <3>1. Len(p)+2 \in 2..(m+1) /\ (Len(p)+2)-2 = Len(p) /\ (m+1)-(Len(p)+2) = Len(q)
      BY <2>2
    <3> QED
      BY <3>1
  <2> QED
    BY <2>2, <2>3, <2>4 DEF HasObject
<1> QED
  BY <1>2, <1>3

\* Inside an object, byte by byte.
LEMMA ObjectByte ==
  ASSUME NEW s \in Seq(Bytes), Len(s) < MaxText
  PROVE  /\ Cons("close", s) \notin InsideObject
         /\ \A c \in {"x", "backslash"} :
              Cons(c, s) \in InsideObject <=> s \in InsideObject
         /\ Cons("quote", s) \in InsideObject <=>
              \E p \in InsideString, q \in InsideObject : s = Then(p, "quote", q)
         /\ Cons("open", s) \in InsideObject <=>
              \E p \in InsideObject, q \in InsideObject : s = Then(p, "close", q)
<1>0. PICK m \in Nat : m = Len(s) /\ m < MaxText
  BY LenProperties
<1>1. m \in 0..MaxText /\ m+1 \in 0..MaxText /\ (m+1)-1 = m /\ m+1 >= 1 /\ m+1 # 0
  BY <1>0, ModelReplyAssumption
<1>2. \A d \in Bytes : /\ Cons(d, s) \in Seq(Bytes) /\ Len(Cons(d, s)) = m+1
  BY <1>0, ConsType
<1>3. \A d \in Bytes : Cons(d, s) \in InsideObject <=> Cons(d, s) \in Pieces[m+1]
  <2>1. ASSUME NEW r \in Seq(Bytes), Len(r) = m+1
        PROVE  r \in InsideObject <=> r \in Pieces[m+1]
    BY <1>0, <1>1, <2>1, ByLength, ModelReplyAssumption
  <2> QED
    BY <1>2, <2>1
<1>4. s \in InsideObject <=> s \in Pieces[m]
  <2>1. Len(s) <= MaxText
    BY <1>0, ModelReplyAssumption
  <2> QED
    BY <1>0, <2>1, ByLength
<1>5. \A q \in Pieces[m] : q \in Seq(Bytes)
  BY <1>1, PiecesType
<1>6. \A r : r \in Pieces[m+1] <=>
        \/ \E b \in {"x", "backslash"}, q \in Pieces[m] : r = Cons(b, q)
        \/ HasString(m+1, r) \/ HasObject(m+1, r)
  <2>1. \A r : r \in Pieces[m+1] <=>
          \/ m+1 = 0 /\ r = <<>>
          \/ m+1 >= 1 /\ \E b \in {"x", "backslash"}, q \in Pieces[(m+1)-1] : r = Cons(b, q)
          \/ HasString(m+1, r) \/ HasObject(m+1, r)
    BY <1>1, PiecesCases
  <2> QED
    BY <1>1, <2>1
<1>7. ASSUME NEW d \in Bytes
      PROVE  (\E b \in {"x", "backslash"}, q \in Pieces[m] : Cons(d, s) = Cons(b, q))
               <=> d \in {"x", "backslash"} /\ s \in Pieces[m]
  BY <1>5, ConsEqual, TheBytes
<1>8. ASSUME NEW d \in Bytes
      PROVE  Cons(d, s) \in InsideObject <=>
               \/ d \in {"x", "backslash"} /\ s \in InsideObject
               \/ d = "quote" /\ \E p \in InsideString, q \in InsideObject : s = Then(p, "quote", q)
               \/ d = "open" /\ \E p \in InsideObject, q \in InsideObject : s = Then(p, "close", q)
  BY <1>0, <1>3, <1>4, <1>6, <1>7, StringFirst, ObjectFirst
<1> QED
  BY <1>8, TheBytes

\* Nothing at all is the inside of a string and of an object.
LEMMA NothingInside == <<>> \in InsideString /\ <<>> \in InsideObject
<1>1. 0 \in 0..MaxText
  BY ModelReplyAssumption
<1>2. <<>> \in Quoted[0] /\ <<>> \in Pieces[0]
  BY <1>1, QuotedCases, PiecesCases
<1> QED
  BY <1>1, <1>2 DEF InsideString, InsideObject

-----------------------------------------------------------------------------
(* What must still follow for the object to be whole, by what the scan     *)
(* remembers: how many braces are open, and where in a string it is.       *)

After(A, c, B) == {Then(a, c, b) : a \in A, b \in B}

Rest[d \in 0..MaxText] ==
  IF d = 0 THEN {<<>>} ELSE After(InsideObject, "close", Rest[d-1])

RestInString(d) == After(InsideString, "quote", Rest[d])

RestEscaped(d) == {Cons(b, s) : b \in Bytes, s \in RestInString(d)}

RestBody(f, d) == IF d = 0 THEN {<<>>} ELSE After(InsideObject, "close", f[d-1])

LEMMA RestDef ==
  \A n \in 0..MaxText : Rest[n] = RestBody(Rest, n)
<1> DEFINE Fit(f, m) == f = [n \in 0..m |-> RestBody(f, n)]
           Bad == {m \in Nat : ~\E f : Fit(f, m)}
<1>1. Bad = {}
  <2>1. SUFFICES ASSUME Bad # {} PROVE FALSE
    OBVIOUS
  <2>2. PICK m \in Bad : \A n \in Bad : m <= n
    BY <2>1, LeastNatural
  <2>3. CASE m = 0
    <3> DEFINE g == [n \in 0..0 |-> {<<>>}]
    <3>1. Fit(g, 0)
      BY DEF RestBody
    <3> QED
      BY <2>2, <2>3, <3>1
  <2>4. CASE m # 0
    <3>1. m \in Nat /\ m-1 \in Nat /\ m-1 \notin Bad
      BY <2>2, <2>4
    <3>2. PICK f : Fit(f, m-1)
      BY <3>1
    <3> DEFINE g == [n \in 0..m |-> IF n = m THEN RestBody(f, m) ELSE f[n]]
    <3>3. \A n \in 0..(m-1) : g[n] = f[n]
      BY <3>1
    <3>4. ASSUME NEW n \in 0..m PROVE g[n] = RestBody(g, n)
      <4>1. RestBody(g, n) = RestBody(f, n)
        <5>1. n # 0 => n-1 \in 0..(m-1)
          BY <3>1
        <5>2. n # 0 => g[n-1] = f[n-1]
          BY <3>3, <5>1
        <5> QED
          BY <5>2 DEF RestBody
      <4>2. n # m => f[n] = RestBody(f, n)
        BY <3>1, <3>2
      <4> QED
        BY <3>1, <4>1, <4>2
    <3>5. Fit(g, m)
      BY <3>4
    <3> QED
      BY <2>2, <3>5
  <2> QED
    BY <2>3, <2>4
<1>2. \E f : Fit(f, MaxText)
  BY <1>1, ModelReplyAssumption
<1>3. Rest = CHOOSE f : Fit(f, MaxText)
  BY DEF Rest, RestBody
<1>4. Fit(Rest, MaxText)
  <2> HIDE DEF Fit
  <2> QED
    BY <1>2, <1>3
<1> QED
  BY <1>4, ModelReplyAssumption

LEMMA RestCases ==
  /\ Rest[0] = {<<>>}
  /\ \A d \in 1..MaxText : Rest[d] = After(InsideObject, "close", Rest[d-1])
BY RestDef, ModelReplyAssumption DEF RestBody

LEMMA AfterMember ==
  ASSUME NEW A, NEW c, NEW B, NEW s
  PROVE  s \in After(A, c, B) <=> \E a \in A, b \in B : s = Then(a, c, b)
BY DEF After

LEMMA AfterType ==
  ASSUME NEW A \in SUBSET Seq(Bytes), NEW B \in SUBSET Seq(Bytes), NEW c \in Bytes,
         NEW s \in After(A, c, B)
  PROVE  s \in Seq(Bytes) /\ s # <<>>
<1>1. PICK a \in A, b \in B : s = Then(a, c, b)
  BY AfterMember
<1>2. a \in Seq(Bytes) /\ b \in Seq(Bytes)
  OBVIOUS
<1> QED
  BY <1>1, <1>2, ThenType

LEMMA RestType ==
  \A d \in 0..MaxText : Rest[d] \in SUBSET Seq(Bytes)
<1> DEFINE Good(d) == Rest[d] \in SUBSET Seq(Bytes)
           Bad == {d \in Nat : d <= MaxText /\ ~Good(d)}
<1>1. SUFFICES ASSUME Bad # {} PROVE FALSE
  BY ModelReplyAssumption
<1>2. PICK d \in Bad : \A e \in Bad : d <= e
  <2> HIDE DEF Good
  <2> QED
    BY <1>1, LeastNatural
<1>3. CASE d = 0
  <2>1. Good(0)
    BY RestCases
  <2> QED
    BY <1>2, <1>3, <2>1
<1>4. CASE d # 0
  <2>1. d \in 1..MaxText /\ d-1 \in Nat /\ d-1 <= MaxText /\ ~(d <= d-1)
    BY <1>2, <1>4, ModelReplyAssumption
  <2>2. Good(d-1)
    <3> HIDE DEF Good
    <3> QED
      BY <1>2, <2>1
  <2>3. InsideObject \in SUBSET Seq(Bytes) /\ "close" \in Bytes
    BY InsideType, TheBytes
  <2>4. \A s \in After(InsideObject, "close", Rest[d-1]) : s \in Seq(Bytes)
    BY <2>2, <2>3, AfterType
  <2>5. Good(d)
    BY <2>1, <2>4, RestCases
  <2> QED
    BY <1>2, <2>5
<1> QED
  BY <1>3, <1>4

LEMMA RestNotEmpty ==
  ASSUME NEW d \in 1..MaxText
  PROVE  /\ RestInString(d) \in SUBSET Seq(Bytes)
         /\ <<>> \notin Rest[d] /\ <<>> \notin RestInString(d) /\ <<>> \notin RestEscaped(d)
<1>1. InsideObject \in SUBSET Seq(Bytes) /\ InsideString \in SUBSET Seq(Bytes)
  BY InsideType
<1>2. "close" \in Bytes /\ "quote" \in Bytes
  BY TheBytes
<1>3. d \in 0..MaxText /\ d-1 \in 0..MaxText
  BY ModelReplyAssumption
<1>4. Rest[d] \in SUBSET Seq(Bytes) /\ Rest[d-1] \in SUBSET Seq(Bytes)
  BY <1>3, RestType
<1>5. Rest[d] = After(InsideObject, "close", Rest[d-1])
  BY RestCases
<1>6. <<>> \notin Rest[d]
  BY <1>1, <1>2, <1>4, <1>5, AfterType
<1>7. \A s \in RestInString(d) : s \in Seq(Bytes) /\ s # <<>>
  BY <1>1, <1>2, <1>4, AfterType DEF RestInString
<1>8. \A s \in RestEscaped(d) : s # <<>>
  BY <1>7, ConsType DEF RestEscaped
<1> QED
  BY <1>6, <1>7, <1>8

\* What follows the byte c in A.
Tails(A, c) == {a \in Seq(Bytes) : Cons(c, a) \in A}

\* The first byte of a sequence of After is the first of its first part, or
\* the byte between when there is no first part.
LEMMA AfterFirst ==
  ASSUME NEW A \in SUBSET Seq(Bytes), NEW B \in SUBSET Seq(Bytes),
         NEW c \in Bytes, NEW e \in Bytes, NEW s \in Seq(Bytes)
  PROVE  Cons(c, s) \in After(A, e, B) <=>
           \/ c = e /\ <<>> \in A /\ s \in B
           \/ s \in After(Tails(A, c), e, B)
<1>1. ASSUME NEW a \in Seq(Bytes), NEW d \in Bytes, NEW b \in B
      PROVE  Cons(c, s) = Then(Cons(d, a), e, b) <=> c = d /\ s = Then(a, e, b)
  <2>1. b \in Seq(Bytes)
    OBVIOUS
  <2>2. Then(Cons(d, a), e, b) = Cons(d, Then(a, e, b)) /\ Then(a, e, b) \in Seq(Bytes)
    BY <2>1, ThenOfCons, ThenType
  <2> QED
    BY <2>2, ConsEqual
<1>2. ASSUME NEW b \in B
      PROVE  Cons(c, s) = Then(<<>>, e, b) <=> c = e /\ s = b
  <2>1. b \in Seq(Bytes)
    OBVIOUS
  <2> QED
    BY <2>1, ThenOfNothing, ConsEqual
<1>3. Cons(c, s) \in After(A, e, B) <=> \E a \in A, b \in B : Cons(c, s) = Then(a, e, b)
  BY AfterMember
<1>4. \A a \in A : a = <<>> \/ \E d \in Bytes, r \in Seq(Bytes) : a = Cons(d, r)
  BY ConsOrEmpty
<1>5. s \in After(Tails(A, c), e, B) <=>
        \E a \in Seq(Bytes), b \in B : Cons(c, a) \in A /\ s = Then(a, e, b)
  BY DEF After, Tails
<1> QED
  BY <1>1, <1>2, <1>3, <1>4, <1>5

\* In A, after the byte o comes something of L that the byte c ends.
Opens(o, L, c, A) ==
  \A a \in Seq(Bytes) : Len(a) < MaxText =>
    (Cons(o, a) \in A <=> \E p \in L, q \in A : a = Then(p, c, q))

\* That something is finished before what comes after A.
LEMMA Opened ==
  ASSUME NEW o \in Bytes, NEW e \in Bytes, o # e, NEW c \in Bytes,
         NEW A \in SUBSET Seq(Bytes), \A a \in A : Len(a) <= MaxText,
         NEW L \in SUBSET Seq(Bytes), NEW B \in SUBSET Seq(Bytes),
         NEW s \in Seq(Bytes), Len(s) < MaxText,
         Opens(o, L, c, A)
  PROVE  Cons(o, s) \in After(A, e, B) <=> s \in After(L, c, After(A, e, B))
<1> DEFINE R == After(A, e, B)
<1>1. Cons(o, s) \in R <=>
        \E a \in Seq(Bytes), b \in B : Cons(o, a) \in A /\ s = Then(a, e, b)
  <2>1. Cons(o, s) \in After(A, e, B) <=> s \in After(Tails(A, o), e, B)
    BY AfterFirst
  <2>2. s \in After(Tails(A, o), e, B) <=>
          \E a \in Seq(Bytes), b \in B : Cons(o, a) \in A /\ s = Then(a, e, b)
    BY DEF After, Tails
  <2> QED
    BY <2>1, <2>2
<1>2. \A r : r \in R <=> \E q \in A, b \in B : r = Then(q, e, b)
  BY DEF After
<1> HIDE DEF R
<1>3. s \in After(L, c, R) <=> \E p \in L, r \in R : s = Then(p, c, r)
  BY DEF After
<1>4. ASSUME NEW p \in L, NEW q \in A, NEW b \in B
      PROVE  /\ Then(Then(p, c, q), e, b) = Then(p, c, Then(q, e, b))
             /\ Then(p, c, q) \in Seq(Bytes)
  <2>1. p \in Seq(Bytes) /\ q \in Seq(Bytes) /\ b \in Seq(Bytes)
    OBVIOUS
  <2> QED
    BY <2>1, ThenOfThen, ThenType
<1>5. ASSUME NEW a \in Seq(Bytes), NEW b \in B,
             Cons(o, a) \in A, s = Then(a, e, b)
      PROVE  s \in After(L, c, R)
  <2>1. Len(a) < MaxText
    <3>1. Len(Cons(o, a)) = Len(a) + 1 /\ Len(a) \in Nat
      BY ConsType
    <3> QED
      BY <1>5, <3>1, ModelReplyAssumption
  <2>2. PICK p \in L, q \in A : a = Then(p, c, q)
    BY <1>5, <2>1 DEF Opens
  <2>3. s = Then(p, c, Then(q, e, b))
    BY <1>4, <1>5, <2>2
  <2>4. Then(q, e, b) \in R
    BY <1>2
  <2> QED
    BY <1>3, <2>3, <2>4
<1>6. ASSUME s \in After(L, c, R)
      PROVE  \E a \in Seq(Bytes), b \in B : Cons(o, a) \in A /\ s = Then(a, e, b)
  <2>1. PICK p \in L, r \in R : s = Then(p, c, r)
    BY <1>3, <1>6
  <2>2. PICK q \in A, b \in B : r = Then(q, e, b)
    BY <1>2
  <2>3. PICK a \in Seq(Bytes) : a = Then(p, c, q)
    BY <1>4
  <2>4. s = Then(a, e, b)
    BY <1>4, <2>1, <2>2, <2>3
  <2>5. Len(a) < MaxText
    <3>1. b \in Seq(Bytes)
      OBVIOUS
    <3>2. Len(s) = Len(a) + Len(b) + 1 /\ Len(a) \in Nat /\ Len(b) \in Nat
      BY <2>4, <3>1, ThenType
    <3> QED
      BY <3>2, ModelReplyAssumption
  <2>6. Cons(o, a) \in A
    BY <2>3, <2>5 DEF Opens
  <2> QED
    BY <2>4, <2>6
<1> QED
  BY <1>1, <1>5, <1>6 DEF R

\* A byte that means nothing in A: what follows it is in A when it is.
MeansNothing(c, A) ==
  \A a \in Seq(Bytes) : Len(a) < MaxText => (Cons(c, a) \in A <=> a \in A)

LEMMA Passed ==
  ASSUME NEW c \in Bytes, NEW e \in Bytes, c # e,
         NEW A \in SUBSET Seq(Bytes), \A a \in A : Len(a) <= MaxText,
         NEW B \in SUBSET Seq(Bytes),
         NEW s \in Seq(Bytes), Len(s) < MaxText,
         MeansNothing(c, A)
  PROVE  Cons(c, s) \in After(A, e, B) <=> s \in After(A, e, B)
<1>1. Cons(c, s) \in After(A, e, B) <=> s \in After(Tails(A, c), e, B)
  BY AfterFirst
<1>2. ASSUME NEW a \in Seq(Bytes), NEW b \in B, s = Then(a, e, b)
      PROVE  a \in Tails(A, c) <=> a \in A
  <2>1. b \in Seq(Bytes)
    OBVIOUS
  <2>2. Len(s) = Len(a) + Len(b) + 1 /\ Len(a) \in Nat /\ Len(b) \in Nat
    BY <1>2, <2>1, ThenType
  <2>3. Len(a) < MaxText
    BY <2>2, ModelReplyAssumption
  <2>4. Cons(c, a) \in A <=> a \in A
    BY <2>3 DEF MeansNothing
  <2> QED
    BY <2>4 DEF Tails
<1>3. Tails(A, c) \in SUBSET Seq(Bytes)
  BY DEF Tails
<1>4. s \in After(Tails(A, c), e, B) => s \in After(A, e, B)
  BY <1>2, <1>3 DEF After
<1>5. s \in After(A, e, B) => s \in After(Tails(A, c), e, B)
  BY <1>2 DEF After
<1> QED
  BY <1>1, <1>4, <1>5

LEMMA AfterNothing ==
  ASSUME NEW e, NEW B, NEW s
  PROVE  s \notin After({}, e, B)
BY DEF After

LEMMA TailsShort ==
  ASSUME NEW A \in SUBSET Seq(Bytes), \A a \in A : Len(a) <= MaxText, NEW c \in Bytes,
         NEW a \in Tails(A, c)
  PROVE  a \in Seq(Bytes) /\ Cons(c, a) \in A /\ Len(a) < MaxText
<1>1. a \in Seq(Bytes) /\ Cons(c, a) \in A
  BY DEF Tails
<1>2. Len(Cons(c, a)) = Len(a) + 1 /\ Len(a) \in Nat /\ Len(Cons(c, a)) <= MaxText
  BY <1>1, ConsType
<1> QED
  BY <1>1, <1>2, ModelReplyAssumption

LEMMA InsideShort ==
  /\ InsideObject \in SUBSET Seq(Bytes) /\ \A a \in InsideObject : Len(a) <= MaxText
  /\ InsideString \in SUBSET Seq(Bytes) /\ \A a \in InsideString : Len(a) <= MaxText
BY InsideType, ModelReplyAssumption

\* One byte read outside a string, with d braces open.
LEMMA OutsideByte ==
  ASSUME NEW d \in 1..MaxText, NEW s \in Seq(Bytes), Len(s) < MaxText
  PROVE  /\ Cons("close", s) \in Rest[d] <=> s \in Rest[d-1]
         /\ \A c \in {"x", "backslash"} : Cons(c, s) \in Rest[d] <=> s \in Rest[d]
         /\ Cons("quote", s) \in Rest[d] <=> s \in RestInString(d)
         /\ d < MaxText => (Cons("open", s) \in Rest[d] <=> s \in Rest[d+1])
<1> DEFINE B == Rest[d-1]
<1>1. B \in SUBSET Seq(Bytes) /\ Rest[d] = After(InsideObject, "close", B)
  <2>1. d-1 \in 0..MaxText
    BY ModelReplyAssumption
  <2> QED
    BY <2>1, RestType, RestCases
<1>2. d < MaxText => Rest[d+1] = After(InsideObject, "close", Rest[d])
  <2>1. d < MaxText => d+1 \in 1..MaxText /\ (d+1)-1 = d
    BY ModelReplyAssumption
  <2> QED
    BY <2>1, RestCases
<1> HIDE DEF B
<1>3. {"x", "backslash", "quote", "open", "close"} \subseteq Bytes
  BY TheBytes
<1>4. Cons("close", s) \in Rest[d] <=> s \in B
  <2>1. Tails(InsideObject, "close") = {}
    <3>1. SUFFICES ASSUME NEW a \in Tails(InsideObject, "close") PROVE FALSE
      OBVIOUS
    <3>2. a \in Seq(Bytes) /\ Cons("close", a) \in InsideObject /\ Len(a) < MaxText
      BY <1>3, InsideShort, TailsShort
    <3> QED
      BY <3>2, ObjectByte
  <2>2. Cons("close", s) \in After(InsideObject, "close", B) <=>
          s \in B \/ s \in After({}, "close", B)
    BY <1>1, <1>3, <2>1, InsideShort, NothingInside, AfterFirst
  <2> QED
    BY <1>1, <2>2, AfterNothing
<1>5. ASSUME NEW c \in {"x", "backslash"}
      PROVE  Cons(c, s) \in Rest[d] <=> s \in Rest[d]
  <2>1. MeansNothing(c, InsideObject)
    BY ObjectByte DEF MeansNothing
  <2> QED
    BY <1>1, <1>3, <2>1, InsideShort, Passed
<1>6. Cons("quote", s) \in Rest[d] <=> s \in RestInString(d)
  <2>1. Opens("quote", InsideString, "quote", InsideObject)
    BY ObjectByte DEF Opens
  <2>2. Cons("quote", s) \in After(InsideObject, "close", B) <=>
          s \in After(InsideString, "quote", After(InsideObject, "close", B))
    BY <1>1, <1>3, <2>1, InsideShort, Opened
  <2> QED
    BY <1>1, <2>2 DEF RestInString
<1>7. Cons("open", s) \in Rest[d] <=> s \in After(InsideObject, "close", Rest[d])
  <2>1. Opens("open", InsideObject, "close", InsideObject)
    BY ObjectByte DEF Opens
  <2>2. Cons("open", s) \in After(InsideObject, "close", B) <=>
          s \in After(InsideObject, "close", After(InsideObject, "close", B))
    BY <1>1, <1>3, <2>1, InsideShort, Opened
  <2> QED
    BY <1>1, <2>2
<1> QED
  BY <1>2, <1>4, <1>5, <1>6, <1>7 DEF B

\* One byte read inside a string.
LEMMA InStringByte ==
  ASSUME NEW d \in 0..MaxText, NEW s \in Seq(Bytes), Len(s) < MaxText, NEW c \in Bytes
  PROVE  /\ Cons("quote", s) \in RestInString(d) <=> s \in Rest[d]
         /\ c \notin {"quote", "backslash"} =>
              (Cons(c, s) \in RestInString(d) <=> s \in RestInString(d))
         /\ Cons("backslash", s) \in RestInString(d) <=> s \in RestEscaped(d)
<1> DEFINE B == Rest[d]
<1>1. B \in SUBSET Seq(Bytes) /\ RestInString(d) = After(InsideString, "quote", B)
  BY RestType DEF RestInString
<1> HIDE DEF B
<1>3. {"x", "backslash", "quote", "open", "close"} \subseteq Bytes
  BY TheBytes
<1>4. Cons("quote", s) \in RestInString(d) <=> s \in B
  <2>1. Tails(InsideString, "quote") = {}
    <3>1. SUFFICES ASSUME NEW a \in Tails(InsideString, "quote") PROVE FALSE
      OBVIOUS
    <3>2. a \in Seq(Bytes) /\ Cons("quote", a) \in InsideString /\ Len(a) < MaxText
      BY <1>3, InsideShort, TailsShort
    <3> QED
      BY <1>3, <3>2, StringByte
  <2>2. Cons("quote", s) \in After(InsideString, "quote", B) <=>
          s \in B \/ s \in After({}, "quote", B)
    BY <1>1, <1>3, <2>1, InsideShort, NothingInside, AfterFirst
  <2> QED
    BY <1>1, <2>2, AfterNothing
<1>5. ASSUME c \notin {"quote", "backslash"}
      PROVE  Cons(c, s) \in RestInString(d) <=> s \in RestInString(d)
  <2>1. MeansNothing(c, InsideString)
    BY <1>5, StringByte DEF MeansNothing
  <2> QED
    BY <1>1, <1>3, <1>5, <2>1, InsideShort, Passed
<1>6. Cons("backslash", s) \in RestInString(d) <=> s \in RestEscaped(d)
  <2>1. Cons("backslash", s) \in RestInString(d) <=>
          s \in After(Tails(InsideString, "backslash"), "quote", B)
    BY <1>1, <1>3, InsideShort, AfterFirst
  <2>2. ASSUME s \in After(Tails(InsideString, "backslash"), "quote", B)
        PROVE  s \in RestEscaped(d)
    <3>1. PICK a \in Tails(InsideString, "backslash"), x \in B : s = Then(a, "quote", x)
      BY <2>2 DEF After
    <3>2. a \in Seq(Bytes) /\ Cons("backslash", a) \in InsideString /\ Len(a) < MaxText
      BY <1>3, InsideShort, TailsShort
    <3>3. PICK b \in Bytes, q \in InsideString : a = Cons(b, q)
      BY <1>3, <3>2, StringByte
    <3>4. q \in Seq(Bytes) /\ x \in Seq(Bytes)
      BY <1>1, InsideShort
    <3>5. s = Cons(b, Then(q, "quote", x))
      BY <1>3, <3>1, <3>3, <3>4, ThenOfCons
    <3>6. Then(q, "quote", x) \in RestInString(d)
      BY <1>1 DEF After
    <3> QED
      BY <3>5, <3>6 DEF RestEscaped
  <2>3. ASSUME s \in RestEscaped(d)
        PROVE  s \in After(Tails(InsideString, "backslash"), "quote", B)
    <3>1. PICK b \in Bytes, r \in RestInString(d) : s = Cons(b, r)
      BY <2>3 DEF RestEscaped
    <3>2. PICK q \in InsideString, x \in B : r = Then(q, "quote", x)
      BY <1>1 DEF After
    <3>3. q \in Seq(Bytes) /\ x \in Seq(Bytes)
      BY <1>1, InsideShort
    <3>4. PICK a \in Seq(Bytes) : a = Cons(b, q)
      BY <3>3, ConsType
    <3>5. s = Then(a, "quote", x)
      BY <1>3, <3>1, <3>2, <3>3, <3>4, ThenOfCons
    <3>6. Len(a) < MaxText
      <4>1. Len(s) = Len(a) + Len(x) + 1 /\ Len(a) \in Nat /\ Len(x) \in Nat
        BY <1>3, <3>3, <3>5, ThenType
      <4> QED
        BY <4>1, ModelReplyAssumption
    <3>7. Cons("backslash", a) \in InsideString
      BY <1>3, <3>4, <3>6, StringByte
    <3> QED
      BY <3>5, <3>7 DEF After, Tails
  <2> QED
    BY <2>1, <2>2, <2>3
<1> QED
  BY <1>4, <1>5, <1>6 DEF B

-----------------------------------------------------------------------------
(* Objects in a text.                                                      *)

LEMMA ObjectsByte ==
  /\ <<>> \notin Objects
  /\ \A s \in Seq(Bytes) : Len(s) < MaxText =>
       (Cons("open", s) \in Objects <=> s \in Rest[1])
<1> DEFINE O(p) == <<"open">> \o p \o <<"close">>
<1>0. "open" \in Bytes /\ "close" \in Bytes
  BY TheBytes
<1>1. ASSUME NEW p \in Seq(Bytes)
      PROVE  O(p) = Cons("open", Then(p, "close", <<>>))
  <2>1. O(p) \in Seq(Bytes)
    <3>1. <<"open">> \in Seq(Bytes) /\ <<"close">> \in Seq(Bytes)
      BY <1>0
    <3>2. <<"open">> \o p \in Seq(Bytes)
      BY <3>1, ConcatProperties
    <3> QED
      BY <3>1, <3>2, ConcatProperties
  <2>2. Wrap("open", p, "close", <<>>) = O(p) \o <<>>
    BY DEF Wrap
  <2> HIDE DEF O
  <2>3. O(p) \o <<>> = O(p)
    BY <2>1, ConcatEmptySeq
  <2>4. <<>> \in Seq(Bytes)
    OBVIOUS
  <2>5. Wrap("open", p, "close", <<>>) = Cons("open", Then(p, "close", <<>>))
    BY <1>0, <2>4, WrapCons
  <2> QED
    BY <2>2, <2>3, <2>5
<1>2. \A s : s \in Objects <=> \E n \in 2..MaxText : \E p \in Pieces[n-2] : s = O(p)
  <2>1. Objects = UNION {{O(p) : p \in Pieces[n-2]} : n \in 2..MaxText}
    BY DEF Objects
  <2> HIDE DEF O
  <2> QED
    BY <2>1
<1> HIDE DEF O
<1>3. ASSUME NEW n \in 2..MaxText, NEW p \in Pieces[n-2]
      PROVE  p \in InsideObject /\ p \in Seq(Bytes) /\ Len(p) = n-2
  <2>1. n-2 \in 0..MaxText
    BY ModelReplyAssumption
  <2> QED
    BY <2>1, PiecesType DEF InsideObject
<1>4. ASSUME NEW p \in Seq(Bytes)
      PROVE  Then(p, "close", <<>>) \in Seq(Bytes) /\ O(p) # <<>>
             /\ Len(p) \in Nat /\ Len(Then(p, "close", <<>>)) = Len(p) + 1
  <2>1. <<>> \in Seq(Bytes) /\ Len(<<>>) = 0
    OBVIOUS
  <2>2. /\ Then(p, "close", <<>>) \in Seq(Bytes) /\ Len(p) \in Nat
        /\ Len(Then(p, "close", <<>>)) = Len(p) + Len(<<>>) + 1
    BY <1>0, <2>1, ThenType
  <2> QED
    BY <1>0, <1>1, <2>1, <2>2, ConsType
<1>5. <<>> \notin Objects
  BY <1>2, <1>3, <1>4
<1>6. ASSUME NEW s \in Seq(Bytes), Len(s) < MaxText
      PROVE  s \in Rest[1] <=> \E p \in InsideObject : s = Then(p, "close", <<>>)
  <2>1. 1 \in 1..MaxText
    BY <1>6, LenProperties, ModelReplyAssumption
  <2>2. Rest[1] = After(InsideObject, "close", {<<>>})
    <3>1. Rest[1] = After(InsideObject, "close", Rest[1-1])
      BY <2>1, RestCases
    <3>2. Rest[1-1] = {<<>>}
      BY RestCases
    <3> QED
      BY <3>1, <3>2
  <2> QED
    BY <2>2 DEF After
<1>7. ASSUME NEW s \in Seq(Bytes), Len(s) < MaxText, Cons("open", s) \in Objects
      PROVE  s \in Rest[1]
  <2>0. PICK n \in 2..MaxText : \E p \in Pieces[n-2] : Cons("open", s) = O(p)
    BY <1>2, <1>7
  <2>1. PICK p \in Pieces[n-2] : Cons("open", s) = O(p)
    BY <2>0
  <2>2. p \in InsideObject /\ p \in Seq(Bytes)
    BY <1>3
  <2>3. s = Then(p, "close", <<>>)
    <3>1. Then(p, "close", <<>>) \in Seq(Bytes)
      BY <1>4, <2>2
    <3>2. Cons("open", s) = Cons("open", Then(p, "close", <<>>))
      BY <1>1, <2>1, <2>2
    <3> QED
      BY <1>0, <3>1, <3>2, ConsEqual
  <2> QED
    BY <1>6, <1>7, <2>2, <2>3
<1>8. ASSUME NEW s \in Seq(Bytes), Len(s) < MaxText, s \in Rest[1]
      PROVE  Cons("open", s) \in Objects
  <2>1. PICK p \in InsideObject : s = Then(p, "close", <<>>)
    BY <1>6, <1>8
  <2>2. p \in Seq(Bytes)
    BY InsideType
  <2>3. PICK n \in 2..MaxText : n-2 = Len(p)
    <3>1. Len(p) + 2 \in 2..MaxText /\ (Len(p) + 2) - 2 = Len(p)
      BY <1>4, <1>8, <2>1, <2>2, ModelReplyAssumption
    <3> QED
      BY <3>1
  <2>4. p \in Pieces[n-2]
    BY <2>2, <2>3, ByLength
  <2> QED
    BY <1>1, <1>2, <2>1, <2>2, <2>4
<1> QED
  BY <1>5, <1>7, <1>8

\* No object is whole before the i-th byte; from there on, what makes one
\* whole is what E holds.
Awaits(t, f, i, E) ==
  /\ \A j \in f..(i-1) : Slice(t, f, j) \notin Objects
  /\ \A j \in i..(Len(t)+1) : Slice(t, f, j) \in Objects <=> Slice(t, i, j) \in E

LEMMA Advance ==
  ASSUME NEW t \in Seq(Bytes), Len(t) <= MaxText,
         NEW f \in 1..Len(t), NEW i \in f..Len(t),
         NEW D, NEW E, Awaits(t, f, i, D), <<>> \notin D,
         \A s \in Seq(Bytes) : Len(s) < MaxText => (Cons(t[i], s) \in D <=> s \in E)
  PROVE  Awaits(t, f, i+1, E)
<1>0. Len(t) \in Nat
  BY LenProperties
<1>1. Slice(t, f, i) \notin Objects
  <2>1. Slice(t, i, i) = <<>>
    BY <1>0, SliceEmpty
  <2> QED
    BY <1>0, <2>1 DEF Awaits
<1>2. \A j \in f..((i+1)-1) : Slice(t, f, j) \notin Objects
  <2>1. \A j \in f..((i+1)-1) : j \in f..(i-1) \/ j = i
    BY <1>0
  <2> QED
    BY <1>1, <2>1 DEF Awaits
<1>3. ASSUME NEW j \in (i+1)..(Len(t)+1)
      PROVE  Slice(t, f, j) \in Objects <=> Slice(t, i+1, j) \in E
  <2>1. Slice(t, i, j) = Cons(t[i], Slice(t, i+1, j))
    BY <1>0, SliceCons
  <2>2. Slice(t, i+1, j) \in Seq(Bytes) /\ Len(Slice(t, i+1, j)) < MaxText
    <3>1. i+1 \in 1..(Len(t)+1)
      BY <1>0
    <3>2. Slice(t, i+1, j) \in Seq(Bytes) /\ Len(Slice(t, i+1, j)) = j - (i+1)
      BY <3>1, SliceType
    <3> QED
      BY <1>0, <3>1, <3>2, ModelReplyAssumption
  <2>3. Slice(t, f, j) \in Objects <=> Slice(t, i, j) \in D
    BY <1>0 DEF Awaits
  <2> QED
    BY <2>1, <2>2, <2>3
<1> QED
  BY <1>2, <1>3 DEF Awaits

LEMMA FirstBraceType ==
  ASSUME NEW t \in Seq(Bytes), Contains(t, "open")
  PROVE  FirstBrace(t) \in 1..Len(t) /\ t[FirstBrace(t)] = "open"
<1> DEFINE Braces == {i \in 1..Len(t) : t[i] = "open"}
<1>1. Len(t) \in Nat
  BY LenProperties
<1>2. Braces \in SUBSET Nat /\ Braces # {}
  BY <1>1 DEF Contains
<1>3. PICK i \in Braces : \A j \in Braces : i <= j
  BY <1>2, LeastNatural
<1>4. i \in 1..Len(t) /\ t[i] = "open" /\ \A j \in 1..(i-1) : t[j] # "open"
  BY <1>1, <1>3
<1> QED
  BY <1>4 DEF FirstBrace

-----------------------------------------------------------------------------
(* The scan.                                                               *)

Expected(d, in, esc) ==
  IF esc THEN RestEscaped(d) ELSE IF in THEN RestInString(d) ELSE Rest[d]

\* The scan has read from the first brace up to the byte before pos.
Scanning ==
  LET f == FirstBrace(text)
  IN  /\ Contains(text, "open")
      /\ pos \in f..(Len(text)+1)
      /\ pos = f => depth = 0 /\ ~inStr /\ ~escaped /\ Awaits(text, f, pos, Objects)
      /\ pos > f => /\ depth \in 1..(pos-f) /\ (escaped => inStr)
                    /\ Awaits(text, f, pos, Expected(depth, inStr, escaped))

ReplyInv ==
  /\ ReplyTypeOK /\ Len(text) <= MaxText
  /\ result = "running" => object = None
  /\ result = "running" /\ pos = 0 => depth = 0 /\ ~inStr /\ ~escaped
  /\ result = "running" /\ pos # 0 => Scanning
  /\ FirstObject

LEMMA EscapedByte ==
  ASSUME NEW d \in 1..MaxText, NEW c \in Bytes, NEW s \in Seq(Bytes)
  PROVE  Cons(c, s) \in RestEscaped(d) <=> s \in RestInString(d)
<1>1. \A x \in RestInString(d) : x \in Seq(Bytes)
  BY RestNotEmpty
<1>2. Cons(c, s) \in RestEscaped(d) <=>
        \E b \in Bytes, x \in RestInString(d) : Cons(c, s) = Cons(b, x)
  BY DEF RestEscaped
<1> QED
  BY <1>1, <1>2, ConsEqual

\* Inside a string the scan remembers what is still to come.
LEMMA InStringExpects ==
  ASSUME NEW d \in 1..MaxText, NEW esc \in BOOLEAN, NEW c \in Bytes,
         NEW s \in Seq(Bytes), Len(s) < MaxText
  PROVE  Cons(c, s) \in Expected(d, TRUE, esc) <=>
           s \in Expected(d, esc \/ c # "quote", ~esc /\ c = "backslash")
<1>1. CASE esc
  BY <1>1, EscapedByte DEF Expected
<1>2. CASE ~esc
  <2>0. d \in 0..MaxText
    BY ModelReplyAssumption
  <2>1. CASE c = "quote"
    BY <1>2, <2>0, <2>1, InStringByte DEF Expected
  <2>2. CASE c = "backslash"
    BY <1>2, <2>0, <2>2, InStringByte DEF Expected
  <2>3. CASE c \notin {"quote", "backslash"}
    BY <1>2, <2>0, <2>3, InStringByte DEF Expected
  <2> QED
    BY <2>1, <2>2, <2>3
<1> QED
  BY <1>1, <1>2

LEMMA ExpectedNotEmpty ==
  ASSUME NEW d \in 1..MaxText, NEW in \in BOOLEAN, NEW esc \in BOOLEAN
  PROVE  <<>> \notin Expected(d, in, esc)
BY RestNotEmpty DEF Expected

\* The scan at a byte of the text.
LEMMA AtByte ==
  ASSUME ReplyInv, result = "running", text # <<>>, pos \in 1..Len(text)
  PROVE  /\ Scanning /\ Contains(text, "open")
         /\ text \in Seq(Bytes) /\ Len(text) \in Nat /\ Len(text) <= MaxText
         /\ FirstBrace(text) \in 1..Len(text) /\ text[FirstBrace(text)] = "open"
         /\ pos \in FirstBrace(text)..Len(text) /\ text[pos] \in Bytes
         /\ object = None /\ inStr \in BOOLEAN /\ escaped \in BOOLEAN
<1>1. text \in Seq(Bytes) /\ Len(text) <= MaxText /\ object = None
      /\ inStr \in BOOLEAN /\ escaped \in BOOLEAN
  BY DEF ReplyInv, ReplyTypeOK
<1>2. Len(text) \in Nat /\ text[pos] \in Bytes
  BY <1>1, LenProperties, ElementOfSeq
<1>3. Scanning
  BY <1>2 DEF ReplyInv
<1>4. Contains(text, "open") /\ pos \in FirstBrace(text)..(Len(text)+1)
  BY <1>3 DEF Scanning
<1>5. FirstBrace(text) \in 1..Len(text) /\ text[FirstBrace(text)] = "open"
  BY <1>1, <1>4, FirstBraceType
<1> QED
  BY <1>1, <1>2, <1>3, <1>4, <1>5

\* One byte is read and the scan goes on.
LEMMA ReadOn ==
  ASSUME ReplyInv, result = "running", text # <<>>, pos \in 1..Len(text),
         text' = text, method' = method, result' = result, object' = object,
         pos' = pos + 1, inStr' \in BOOLEAN, escaped' \in BOOLEAN, escaped' => inStr',
         depth' \in 1..((pos+1) - FirstBrace(text)),
         NEW D, <<>> \notin D, Awaits(text, FirstBrace(text), pos, D),
         \A s \in Seq(Bytes) : Len(s) < MaxText =>
           (Cons(text[pos], s) \in D <=> s \in Expected(depth', inStr', escaped'))
  PROVE  ReplyInv'
<1> DEFINE f == FirstBrace(text)
           E == Expected(depth', inStr', escaped')
<1>1. /\ text \in Seq(Bytes) /\ Len(text) \in Nat /\ Len(text) <= MaxText
      /\ f \in 1..Len(text) /\ pos \in f..Len(text) /\ object = None
      /\ Contains(text, "open")
  BY AtByte
<1>2. Awaits(text, f, pos+1, E)
  <2> HIDE DEF E, f
  <2>1. \A s \in Seq(Bytes) : Len(s) < MaxText => (Cons(text[pos], s) \in D <=> s \in E)
    BY DEF E
  <2>2. Awaits(text, f, pos, D)
    BY DEF f
  <2> QED
    BY <1>1, <2>1, <2>2, Advance
<1>3. Scanning'
  <2>1. pos+1 \in f..(Len(text)+1) /\ pos+1 > f /\ pos+1 # f
    BY <1>1
  <2> QED
    BY <1>1, <1>2, <2>1 DEF Scanning
<1>4. ReplyTypeOK'
  <2>1. depth' \in 0..MaxText /\ pos' \in 0..(MaxText+1)
    BY <1>1, ModelReplyAssumption
  <2> QED
    BY <2>1 DEF ReplyInv, ReplyTypeOK
<1>5. pos' # 0
  BY <1>1
<1> QED
  BY <1>1, <1>3, <1>4, <1>5 DEF ReplyInv, FirstObject

LEMMA ReplyFresh ==
  /\ ReplyInit => ReplyInv
  /\ \A m \in {"suggest", "explain", "review"} : Ask(m) => ReplyInv'
<1>1. <<>> \in Seq(Bytes) /\ Len(<<>>) = 0 /\ 0 <= MaxText /\ 0 \in 0..MaxText
      /\ 0 \in 0..(MaxText+1)
  BY ModelReplyAssumption
<1>2. ASSUME ReplyInit PROVE ReplyInv
  BY <1>1, <1>2 DEF ReplyInit, ReplyInv, ReplyTypeOK, FirstObject, Results
<1>3. ASSUME NEW m \in {"suggest", "explain", "review"}, Ask(m) PROVE ReplyInv'
  BY <1>1, <1>3 DEF Ask, ReplyInv, ReplyTypeOK, FirstObject, Results
<1> QED
  BY <1>2, <1>3

LEMMA ReplyStutter ==
  ASSUME ReplyInv, UNCHANGED replyVars
  PROVE  ReplyInv'
BY DEF ReplyInv, ReplyTypeOK, FirstObject, Scanning, replyVars, scan

LEMMA StepAnswered ==
  ASSUME ReplyInv, Answered
  PROVE  ReplyInv'
<1>1. text' \in Seq(Bytes) /\ Len(text') <= MaxText
  <2>1. text' \in SeqOf(Bytes, MaxText)
    BY DEF Answered, Texts
  <2>2. PICK n \in 0..MaxText : text' \in [1..n -> Bytes]
    BY <2>1 DEF SeqOf
  <2>3. n \in Nat
    BY ModelReplyAssumption
  <2>4. text' \in Seq(Bytes)
    BY <2>2, <2>3, SeqDef
  <2>5. Len(text') = n
    BY <2>2, <2>3, <2>4, LenProperties
  <2> QED
    BY <2>4, <2>5, ModelReplyAssumption
<1>2. /\ result = "running" /\ text = <<>> /\ object = None /\ ReplyTypeOK
      /\ UNCHANGED <<method, scan, object, result>>
  BY DEF ReplyInv, Answered, Asking
<1>3. pos = 0
  <2>1. SUFFICES ASSUME pos # 0 PROVE FALSE
    OBVIOUS
  <2>2. Contains(<<>>, "open")
    BY <1>2, <2>1 DEF ReplyInv, Scanning
  <2> QED
    BY <2>2 DEF Contains
<1> QED
  BY <1>1, <1>2, <1>3 DEF ReplyInv, ReplyTypeOK, FirstObject, scan

LEMMA StepStart ==
  ASSUME ReplyInv, Start
  PROVE  ReplyInv'
<1> DEFINE f == FirstBrace(text)
<1>1. /\ text \in Seq(Bytes) /\ Len(text) <= MaxText /\ object = None
      /\ Contains(text, "open") /\ depth = 0 /\ ~inStr /\ ~escaped
      /\ result = "running" /\ ReplyTypeOK /\ pos' = f
      /\ UNCHANGED <<method, text, depth, inStr, escaped, object, result>>
  BY DEF ReplyInv, ReplyTypeOK, Start, Reading
<1>2. f \in 1..Len(text) /\ Len(text) \in Nat
  BY <1>1, FirstBraceType, LenProperties
<1>3. f \in Int /\ f-1 < f /\ f \in f..(Len(text)+1) /\ f # 0 /\ ~(f > f)
      /\ f \in 0..(MaxText+1)
  BY <1>1, <1>2, ModelReplyAssumption
<1>4. Awaits(text, f, f, Objects)
  BY <1>3 DEF Awaits
<1>5. Scanning'
  BY <1>1, <1>3, <1>4 DEF Scanning
<1> QED
  BY <1>1, <1>3, <1>5 DEF ReplyInv, ReplyTypeOK, FirstObject

LEMMA StepInString ==
  ASSUME ReplyInv, InString
  PROVE  ReplyInv'
<1> DEFINE f == FirstBrace(text)
<1>1. /\ result = "running" /\ text # <<>> /\ pos \in 1..Len(text) /\ inStr
      /\ escaped' = (~escaped /\ text[pos] = "backslash")
      /\ inStr' = (escaped \/ text[pos] # "quote")
      /\ pos' = pos + 1
      /\ UNCHANGED <<method, text, depth, object, result>>
  BY DEF InString, At, Reading
<1>2. /\ Scanning /\ Len(text) \in Nat /\ Len(text) <= MaxText /\ f \in 1..Len(text)
      /\ pos \in f..Len(text) /\ text[pos] \in Bytes
      /\ inStr \in BOOLEAN /\ escaped \in BOOLEAN
  BY <1>1, AtByte
<1>3. pos > f
  BY <1>1, <1>2 DEF Scanning
<1>4. /\ depth \in 1..(pos-f) /\ Awaits(text, f, pos, Expected(depth, TRUE, escaped))
  BY <1>1, <1>2, <1>3 DEF Scanning
<1>5. depth \in 1..MaxText /\ depth \in 1..((pos+1)-f)
  BY <1>2, <1>4, ModelReplyAssumption
<1>6. \A s \in Seq(Bytes) : Len(s) < MaxText =>
        (Cons(text[pos], s) \in Expected(depth, TRUE, escaped) <=>
           s \in Expected(depth', inStr', escaped'))
  BY <1>1, <1>2, <1>5, InStringExpects
<1>7. <<>> \notin Expected(depth, TRUE, escaped)
  BY <1>2, <1>5, ExpectedNotEmpty
<1>8. inStr' \in BOOLEAN /\ escaped' \in BOOLEAN /\ (escaped' => inStr')
  BY <1>1
<1> HIDE DEF f
<1> QED
  BY <1>1, <1>4, <1>5, <1>6, <1>7, <1>8, ReadOn DEF f

LEMMA StepOutside ==
  ASSUME ReplyInv, Outside
  PROVE  ReplyInv'
<1> DEFINE f == FirstBrace(text)
           c == text[pos]
<1>1. /\ result = "running" /\ text # <<>> /\ pos \in 1..Len(text) /\ ~inStr
      /\ pos' = pos + 1
      /\ UNCHANGED <<method, text, escaped, object, result>>
  BY DEF Outside, At, Reading
<1>2. /\ Scanning /\ Len(text) \in Nat /\ Len(text) <= MaxText /\ f \in 1..Len(text)
      /\ pos \in f..Len(text) /\ c \in Bytes /\ text[f] = "open"
      /\ inStr \in BOOLEAN /\ escaped \in BOOLEAN
  BY <1>1, AtByte
<1>3. \/ c = "quote" /\ inStr' = TRUE /\ depth' = depth
      \/ c = "open" /\ depth' = depth + 1 /\ inStr' = inStr
      \/ c = "close" /\ depth > 1 /\ depth' = depth - 1 /\ inStr' = inStr
      \/ c \in {"x", "backslash"} /\ depth' = depth /\ inStr' = inStr
  BY DEF Outside, At
<1>4. CASE pos = f
  <2>1. depth = 0 /\ ~escaped /\ Awaits(text, f, pos, Objects) /\ c = "open"
    BY <1>2, <1>4 DEF Scanning
  <2>2. depth' = 1 /\ ~inStr' /\ inStr' \in BOOLEAN /\ ~escaped' /\ escaped' \in BOOLEAN
    BY <1>1, <1>2, <1>3, <2>1
  <2>3. Expected(depth', inStr', escaped') = Rest[1]
    BY <2>2 DEF Expected
  <2>4. depth' \in 1..((pos+1)-f)
    BY <1>2, <1>4, <2>2
  <2>5. \A s \in Seq(Bytes) : Len(s) < MaxText =>
          (Cons(c, s) \in Objects <=> s \in Expected(depth', inStr', escaped'))
    BY <2>1, <2>3, ObjectsByte
  <2> HIDE DEF f
  <2> QED
    BY <1>1, <2>1, <2>2, <2>4, <2>5, ObjectsByte, ReadOn DEF f
<1>5. CASE pos # f
  <2>0. pos > f
    BY <1>2, <1>5
  <2>1. /\ depth \in 1..(pos-f) /\ ~escaped
        /\ Awaits(text, f, pos, Expected(depth, inStr, escaped))
    BY <1>1, <1>2, <2>0 DEF Scanning
  <2>2. Expected(depth, inStr, escaped) = Rest[depth]
    BY <1>1, <2>1 DEF Expected
  <2>3. depth \in 1..MaxText /\ <<>> \notin Rest[depth] /\ depth < MaxText
    <3>1. depth \in 1..MaxText /\ depth < MaxText
      BY <1>2, <2>0, <2>1, ModelReplyAssumption
    <3> QED
      BY <3>1, RestNotEmpty
  <2>4. depth' \in 1..((pos+1)-f) /\ inStr' \in BOOLEAN /\ ~escaped' /\ escaped' \in BOOLEAN
    <3> HIDE DEF c, f
    <3>2. depth' \in 1..((pos+1)-f)
      <4>1. CASE depth' = depth
        BY <1>2, <2>0, <2>1, <4>1
      <4>2. CASE depth' = depth + 1
        BY <1>2, <2>0, <2>1, <4>2
      <4>3. CASE depth > 1 /\ depth' = depth - 1
        BY <1>2, <2>0, <2>1, <4>3
      <4> QED
        BY <1>3, <4>1, <4>2, <4>3, Zenon
    <3>3. inStr' \in BOOLEAN
      BY <1>2 DEF Outside
    <3>4. ~escaped' /\ escaped' \in BOOLEAN
      BY <1>1, <1>2, <2>1
    <3> QED
      BY <3>2, <3>3, <3>4
  <2>5. ASSUME NEW s \in Seq(Bytes), Len(s) < MaxText
        PROVE  Cons(c, s) \in Rest[depth] <=> s \in Expected(depth', inStr', escaped')
    <3>1. CASE c = "quote" /\ inStr' = TRUE /\ depth' = depth
      <4>1. Expected(depth', inStr', escaped') = RestInString(depth)
        BY <2>4, <3>1 DEF Expected
      <4> QED
        BY <2>3, <2>5, <3>1, <4>1, OutsideByte
    <3>2. CASE c # "quote" /\ inStr' = inStr
      <4>1. Expected(depth', inStr', escaped') = Rest[depth']
        BY <1>1, <2>4, <3>2 DEF Expected
      <4> QED
        BY <1>3, <2>3, <2>5, <3>2, <4>1, OutsideByte
    <3> QED
      BY <1>3, <3>1, <3>2
  <2>6. Awaits(text, f, pos, Rest[depth])
    BY <2>1, <2>2
  <2>7. escaped' => inStr'
    BY <2>4
  <2> HIDE DEF f
  <2> QED
    BY <1>1, <2>3, <2>4, <2>5, <2>6, <2>7, ReadOn DEF f
<1> QED
  BY <1>4, <1>5

LEMMA ObjectsAtSlice ==
  ASSUME NEW t \in Seq(Bytes), NEW f \in 1..Len(t), NEW s
  PROVE  s \in ObjectsAt(t, f) <=>
           s \in Objects /\ \E j \in (f+1)..(Len(t)+1) : s = Slice(t, f, j)
<1>1. Len(t) \in Nat
  BY LenProperties
<1>2. s \in ObjectsAt(t, f) <=> s \in Objects /\ \E j \in f..Len(t) : s = SubSeq(t, f, j)
  BY DEF ObjectsAt
<1>3. ASSUME NEW j \in f..Len(t)
      PROVE  j+1 \in (f+1)..(Len(t)+1) /\ SubSeq(t, f, j) = Slice(t, f, j+1)
  <2>1. j+1 \in (f+1)..(Len(t)+1) /\ (j+1)-1 = j
    BY <1>1
  <2> QED
    BY <2>1 DEF Slice
<1>4. ASSUME NEW j \in (f+1)..(Len(t)+1)
      PROVE  j-1 \in f..Len(t) /\ Slice(t, f, j) = SubSeq(t, f, j-1)
  BY <1>1 DEF Slice
<1> QED
  BY <1>2, <1>3, <1>4

\* The object is whole at i: it is the only one there.
LEMMA Whole ==
  ASSUME NEW t \in Seq(Bytes), NEW f \in 1..Len(t), NEW i \in (f+1)..(Len(t)+1),
         Awaits(t, f, i, {<<>>})
  PROVE  ObjectsAt(t, f) = {Slice(t, f, i)}
<1>1. Len(t) \in Nat
  BY LenProperties
<1>2. ASSUME NEW j \in (f+1)..(Len(t)+1)
      PROVE  Slice(t, f, j) \in Objects <=> j = i
  <2>1. CASE j < i
    BY <1>1, <2>1 DEF Awaits
  <2>2. CASE j = i
    <3>1. Slice(t, i, i) = <<>>
      BY <1>1, SliceEmpty
    <3> QED
      BY <1>1, <2>2, <3>1 DEF Awaits
  <2>3. CASE j > i
    <3>1. i \in 1..(Len(t)+1) /\ j \in i..(Len(t)+1) /\ j - i # 0
      BY <1>1, <2>3
    <3>2. Len(Slice(t, i, j)) = j - i
      BY <3>1, SliceType
    <3>3. Slice(t, i, j) # <<>>
      BY <3>1, <3>2
    <3> QED
      BY <2>3, <3>1, <3>3 DEF Awaits
  <2> QED
    BY <1>1, <2>1, <2>2, <2>3
<1> QED
  BY <1>1, <1>2, ObjectsAtSlice

\* The text ends before the object does: there is none.
LEMMA Never ==
  ASSUME NEW t \in Seq(Bytes), NEW f \in 1..Len(t), NEW D,
         Awaits(t, f, Len(t)+1, D), <<>> \notin D
  PROVE  ObjectsAt(t, f) = {}
<1>1. Len(t) \in Nat
  BY LenProperties
<1>2. Slice(t, Len(t)+1, Len(t)+1) = <<>>
  BY <1>1, SliceEmpty
<1>3. \A j \in (f+1)..(Len(t)+1) : Slice(t, f, j) \notin Objects
  <2>1. \A j \in (f+1)..(Len(t)+1) : j \in f..((Len(t)+1)-1) \/ j = Len(t)+1
    BY <1>1
  <2> QED
    BY <1>1, <1>2, <2>1 DEF Awaits
<1> QED
  BY <1>3, ObjectsAtSlice

LEMMA StepClose ==
  ASSUME ReplyInv, Close
  PROVE  ReplyInv'
<1> DEFINE f == FirstBrace(text)
<1>1. /\ result = "running" /\ text # <<>> /\ pos \in 1..Len(text) /\ ~inStr
      /\ text[pos] = "close" /\ depth = 1
      /\ depth' = 0 /\ object' = SubSeq(text, f, pos) /\ result' = "scanned"
      /\ UNCHANGED <<method, text, pos, inStr, escaped>>
  BY DEF Close, At, Reading
<1>2. /\ Scanning /\ Len(text) \in Nat /\ Len(text) <= MaxText /\ f \in 1..Len(text)
      /\ pos \in f..Len(text) /\ text \in Seq(Bytes) /\ Contains(text, "open")
  BY <1>1, AtByte
<1>3. pos > f
  BY <1>1, <1>2 DEF Scanning
<1>4. Awaits(text, f, pos, Rest[1])
  <2>1. ~escaped /\ Awaits(text, f, pos, Expected(depth, inStr, escaped))
    BY <1>1, <1>2, <1>3 DEF Scanning
  <2> QED
    BY <1>1, <2>1 DEF Expected
<1>5. 1 \in 1..MaxText
  BY <1>1, <1>2, ModelReplyAssumption
<1>6. Awaits(text, f, pos+1, {<<>>})
  <2>1. \A s \in Seq(Bytes) : Len(s) < MaxText =>
          (Cons(text[pos], s) \in Rest[1] <=> s \in {<<>>})
    <3>1. ASSUME NEW s \in Seq(Bytes), Len(s) < MaxText
          PROVE  Cons("close", s) \in Rest[1] <=> s \in Rest[0]
      <4>1. Cons("close", s) \in Rest[1] <=> s \in Rest[1-1]
        BY <1>5, <3>1, OutsideByte
      <4> QED
        BY <4>1
    <3> QED
      BY <1>1, <3>1, RestCases
  <2>2. <<>> \notin Rest[1]
    BY <1>5, RestNotEmpty
  <2> HIDE DEF f
  <2> QED
    BY <1>2, <1>4, <2>1, <2>2, Advance
<1>7. object' = Slice(text, f, pos+1) /\ object' \in Seq(Bytes)
  <2>1. f \in 1..(Len(text)+1) /\ pos+1 \in f..(Len(text)+1) /\ (pos+1)-1 = pos
    BY <1>2
  <2>2. Slice(text, f, pos+1) \in Seq(Bytes)
    BY <1>2, <2>1, SliceType
  <2> QED
    BY <1>1, <2>1, <2>2 DEF Slice
<1>8. {object'} = ObjectsAt(text, f)
  <2>1. pos+1 \in (f+1)..(Len(text)+1)
    BY <1>2
  <2> QED
    BY <1>2, <1>6, <1>7, <2>1, Whole
<1>9. {object'} \ {None} = {object'}
  BY <1>7, NoneAssumption
<1>10. ReplyTypeOK'
  BY <1>1, <1>7, ModelReplyAssumption DEF ReplyInv, ReplyTypeOK, Results
<1> QED
  BY <1>1, <1>2, <1>8, <1>9, <1>10 DEF ReplyInv, FirstObject

LEMMA StepNoObject ==
  ASSUME ReplyInv, NoObject
  PROVE  ReplyInv'
<1> DEFINE f == FirstBrace(text)
<1>1. /\ result = "running" /\ text # <<>> /\ text \in Seq(Bytes) /\ object = None
      /\ Len(text) \in Nat /\ Len(text) <= MaxText /\ ReplyTypeOK
      /\ result' = "scanned" /\ UNCHANGED <<method, text, scan, object>>
  BY LenProperties DEF NoObject, Reading, ReplyInv, ReplyTypeOK
<1>2. Contains(text, "open") => ObjectsAt(text, f) = {}
  <2>1. SUFFICES ASSUME Contains(text, "open") PROVE ObjectsAt(text, f) = {}
    OBVIOUS
  <2>2. f \in 1..Len(text)
    BY <1>1, <2>1, FirstBraceType
  <2>3. pos > Len(text) /\ pos # 0 /\ Scanning
    BY <1>1, <2>1 DEF NoObject, ReplyInv
  <2>4. pos = Len(text) + 1 /\ pos > f
    BY <1>1, <2>2, <2>3 DEF Scanning
  <2>5. depth \in 1..(pos-f) /\ Awaits(text, f, pos, Expected(depth, inStr, escaped))
    BY <2>3, <2>4 DEF Scanning
  <2>6. depth \in 1..MaxText /\ inStr \in BOOLEAN /\ escaped \in BOOLEAN
    BY <1>1, <2>2, <2>4, <2>5, ModelReplyAssumption DEF ReplyTypeOK
  <2>7. <<>> \notin Expected(depth, inStr, escaped)
    BY <2>6, ExpectedNotEmpty
  <2> QED
    BY <1>1, <2>2, <2>4, <2>5, <2>7, Never
<1>3. ReplyTypeOK'
  BY <1>1 DEF ReplyTypeOK, Results, scan
<1> QED
  BY <1>1, <1>2, <1>3 DEF ReplyInv, FirstObject, scan

LEMMA ReplyStep ==
  ASSUME ReplyInv, ReplyNext
  PROVE  ReplyInv'
<1>1. CASE Unanswered
  BY <1>1 DEF Unanswered, Asking, ReplyInv, ReplyTypeOK, Results, FirstObject, scan
<1>2. ASSUME NEW payload \in {"unreadable", "blank", "full"}, Conclude(payload)
      PROVE  ReplyInv'
  <2>1. /\ result = "scanned" /\ result' \in Results \ {"running"}
        /\ UNCHANGED <<method, text, scan, object>>
    BY <1>2 DEF Conclude, Results, ReplyInv, ReplyTypeOK
  <2>2. ReplyTypeOK'
    BY <2>1 DEF ReplyInv, ReplyTypeOK, scan
  <2> QED
    BY <2>1, <2>2 DEF ReplyInv, FirstObject, scan
<1> QED
  BY <1>1, <1>2, StepAnswered, StepStart, StepInString, StepOutside, StepClose,
     StepNoObject
  DEF ReplyNext
=============================================================================
