----------------------------- MODULE GateProofs -----------------------------
(***************************************************************************)
(* What buildBoundedSQL builds means the operation it was given, and the   *)
(* gate lets through exactly what it should of the statements on one table *)
(* and of the bounded operations, for any tables, columns, values,         *)
(* whitelist and target clauses.                                           *)
(***************************************************************************)
EXTENDS Gate, TLAPS, WellFoundedInduction

-----------------------------------------------------------------------------
(* buildBoundedSQL.                                                        *)

\* A pair of maps: its keys are columns, what it gives are values.
LEMMA PairsMap ==
  ASSUME NEW m \in Pairs
  PROVE  DOMAIN m \subseteq Column /\ \A col \in DOMAIN m : m[col] \in Value
BY DEF Pairs

LEMMA InputMaps ==
  ASSUME TypeOK, NEW clause
  PROVE  /\ DOMAIN PairsOf(clause) \subseteq Column
         /\ \A col \in DOMAIN PairsOf(clause) : PairsOf(clause)[col] \in Value
<1>1. in.set \in Pairs /\ in.where \in Pairs
  BY DEF TypeOK, BoundedOp
<1> QED
  BY <1>1, PairsMap DEF PairsOf

LEMMA PieceAt ==
  ASSUME TypeOK, NEW i \in 1..Len(text)
  PROVE  /\ text[i].clause \in Clauses
         /\ text[i].col \in Column /\ text[i].col \in Nat
<1>1. text[i] \in Piece
  BY DEF TypeOK
<1>2. text[i].clause \in Clauses /\ text[i].col \in Column
  BY <1>1 DEF Piece
<1> QED
  BY <1>2, ColumnAssumption

LEMMA BuildInit == Init => BuildInv
<1> SUFFICES ASSUME Init PROVE BuildInv
  OBVIOUS
<1>1. TypeOK
  BY DEF Init, TypeOK, Phases
<1>2. Aligned /\ TextIsDetermined /\ Remaining /\ Admitted
  BY DEF Init, Aligned, TextIsDetermined, Remaining, Admitted, Clauses,
         Refusals, Written
<1> QED
  BY <1>1, <1>2 DEF BuildInv

LEMMA RefuseStep ==
  ASSUME BuildInv, Refuse
  PROVE  BuildInv'
<1> USE DEF BuildInv, Refuse
<1>1. phase' \in Refusals
  BY DEF Refusal, Refusals
<1>2. TypeOK' /\ Aligned' /\ TextIsDetermined'
  BY <1>1 DEF TypeOK, Aligned, TextIsDetermined, PairsOf
<1>3. Remaining' /\ Admitted'
  BY <1>1 DEF Remaining, Admitted, Clauses, Refusals, Refusal, Written
<1> QED
  BY <1>2, <1>3

LEMMA OpenStep ==
  ASSUME BuildInv, Open
  PROVE  BuildInv'
<1> USE DEF BuildInv, Open, Enter
<1>1. /\ in.op \in {"UPDATE", "DELETE"} /\ DOMAIN in.where # {}
      /\ in.table # Blank
      /\ in.op = "UPDATE" => DOMAIN in.set # {}
  BY DEF Refusal, TypeOK, BoundedOp
<1>2. text = <<>>
  BY DEF Admitted
<1>3. TypeOK'
  BY InputMaps DEF TypeOK, Phases
<1>4. Aligned' /\ TextIsDetermined'
  BY <1>2 DEF Aligned, TextIsDetermined, PairsOf
<1>5. Remaining' /\ Admitted'
  BY <1>1, <1>2 DEF Remaining, Admitted, Clauses, Refusals, Written, PairsOf
<1> QED
  BY <1>3, <1>4, <1>5

\* One piece and one argument more, and nothing else.
LEMMA WriteAdds ==
  ASSUME BuildInv, NEW col \in Column, Write(col)
  PROVE  /\ Len(text') = Len(text) + 1 /\ Len(args') = Len(args) + 1
         /\ \A i \in 1..Len(text) : text'[i] = text[i] /\ args'[i] = args[i]
         /\ text'[Len(text')].clause = phase /\ text'[Len(text')].col = col
         /\ text'[Len(text')].mark = Mark
         /\ args'[Len(args')] = PairsOf(phase)[col]
         /\ Len(text) = Len(args) /\ Len(text) \in Nat
         /\ text' \in Seq(Piece) /\ args' \in Seq(Value)
<1>1. text \in Seq(Piece) /\ args \in Seq(Value) /\ Len(text) = Len(args)
  BY DEF BuildInv, TypeOK, Aligned
<1>2. Mark \in Nat
  BY <1>1 DEF Mark, Question
<1>3. col \in DOMAIN PairsOf(phase)
  BY DEF BuildInv, Remaining, Write
<1>4. PairsOf(phase)[col] \in Value
  BY <1>3, InputMaps DEF BuildInv
<1>5. [clause |-> phase, col |-> col, mark |-> Mark] \in Piece
  BY <1>2 DEF Piece, Write
<1> QED
  BY <1>1, <1>4, <1>5 DEF Write

LEMMA WriteStep ==
  ASSUME BuildInv, NEW col \in Column, Write(col)
  PROVE  BuildInv'
<1> DEFINE n == Len(text)
<1>1. /\ Len(text') = n + 1 /\ Len(args') = n + 1 /\ Len(args) = n /\ n \in Nat
      /\ \A i \in 1..n : text'[i] = text[i] /\ args'[i] = args[i]
      /\ text'[n + 1].clause = phase /\ text'[n + 1].col = col
      /\ text'[n + 1].mark = Mark /\ args'[n + 1] = PairsOf(phase)[col]
  BY WriteAdds
<1>2. /\ phase \in Clauses /\ phase' = phase /\ in' = in /\ col \in left
      /\ left' = left \ {col} /\ \A other \in left : col <= other
      /\ col \in DOMAIN PairsOf(phase)
  BY DEF Write, BuildInv, Remaining
<1>3. \A clause \in Clauses : Written(clause)' =
        IF clause = phase THEN Written(clause) \cup {n + 1} ELSE Written(clause)
  BY <1>1 DEF Written
<1>4. TypeOK'
  BY <1>2, WriteAdds DEF BuildInv, TypeOK
<1>5. Aligned'
  <2> SUFFICES ASSUME NEW i \in 1..(n + 1)
               PROVE  /\ text'[i].col \in DOMAIN PairsOf(text'[i].clause)
                      /\ args'[i] = PairsOf(text'[i].clause)[text'[i].col]
                      /\ text'[i].mark = IF in.style = "dollar" THEN i
                                         ELSE Question
    BY <1>1, <1>2 DEF Aligned, PairsOf
  <2>1. CASE i \in 1..n
    BY <1>1, <2>1 DEF BuildInv, Aligned
  <2>2. CASE i = n + 1
    BY <1>1, <1>2, <2>2 DEF Mark
  <2> QED
    BY <1>1, <2>1, <2>2
<1>6. TextIsDetermined'
  <2> SUFFICES ASSUME NEW i \in 1..(n + 1), NEW j \in 1..(n + 1), i < j
               PROVE  \/ text'[i].clause = "set" /\ text'[j].clause = "where"
                      \/ /\ text'[i].clause = text'[j].clause
                         /\ text'[i].col < text'[j].col
    BY <1>1 DEF TextIsDetermined
  <2>1. i \in 1..n
    BY <1>1
  <2>2. CASE j \in 1..n
    BY <1>1, <2>1, <2>2 DEF BuildInv, TextIsDetermined
  <2>3. CASE j = n + 1
    <3>1. text[i].clause \in Clauses
      BY <2>1, PieceAt DEF BuildInv
    <3>2. CASE text[i].clause = phase
      BY <1>1, <1>2, <2>1, <2>3, <3>2 DEF BuildInv, Remaining, Written
    <3>3. CASE text[i].clause # phase
      BY <1>1, <1>2, <2>1, <2>3, <3>1, <3>3
         DEF BuildInv, Remaining, Written, Clauses
    <3> QED
      BY <3>2, <3>3
  <2> QED
    BY <1>1, <2>2, <2>3
<1>7. Remaining'
  <2>1. /\ left' \subseteq DOMAIN PairsOf(phase)
        /\ PairsOf(phase)' = PairsOf(phase)
    BY <1>2 DEF BuildInv, Remaining, PairsOf
  <2>2. ASSUME NEW i \in Written(phase)', NEW other \in left'
        PROVE  text'[i].col < other
    <3>1. CASE i = n + 1
      BY <1>1, <1>2, <2>2, <3>1, ColumnAssumption DEF BuildInv, TypeOK
    <3>2. CASE i \in Written(phase)
      BY <1>1, <1>2, <2>2, <3>2 DEF BuildInv, Remaining, Written
    <3> QED
      BY <1>2, <1>3, <2>2, <3>1, <3>2
  <2>3. phase = "set" => Written("where")' = {}
    BY <1>2, <1>3 DEF BuildInv, Remaining, Clauses
  <2>4. ASSUME phase = "where", in.op = "UPDATE", NEW c \in DOMAIN in.set
        PROVE  \E i \in Written("set")' : text'[i].col = c
    <3>1. PICK i \in Written("set") : text[i].col = c
      BY <2>4 DEF BuildInv, Remaining
    <3>2. i \in Written("set")' /\ text'[i] = text[i]
      BY <1>1, <1>3, <2>4, <3>1 DEF Written, Clauses
    <3> QED
      BY <3>1, <3>2
  <2>5. ASSUME NEW c \in DOMAIN PairsOf(phase) \ left'
        PROVE  \E i \in Written(phase)' : text'[i].col = c
    <3>1. CASE c = col
      BY <1>1, <1>2, <1>3, <3>1
    <3>2. CASE c # col
      <4>1. PICK i \in Written(phase) : text[i].col = c
        BY <1>2, <2>5, <3>2 DEF BuildInv, Remaining
      <4>2. i \in Written(phase)' /\ text'[i] = text[i]
        BY <1>1, <1>2, <1>3, <4>1 DEF Written
      <4> QED
        BY <4>1, <4>2
    <3> QED
      BY <3>1, <3>2
  <2> QED
    BY <1>2, <2>1, <2>2, <2>3, <2>4, <2>5 DEF Remaining, Clauses
<1>8. Admitted'
  BY <1>2, <1>3 DEF BuildInv, Admitted, Clauses, Refusals
<1> QED
  BY <1>4, <1>5, <1>6, <1>7, <1>8 DEF BuildInv

LEMMA CloseStep ==
  ASSUME BuildInv, Close
  PROVE  BuildInv'
<1> USE DEF BuildInv, Close, Enter
<1>1. TypeOK'
  BY InputMaps DEF TypeOK, Phases
<1>2. Aligned' /\ TextIsDetermined'
  BY DEF Aligned, TextIsDetermined, PairsOf
<1>3. Remaining'
  BY DEF Remaining, Clauses, Written, PairsOf
<1>4. Admitted'
  BY DEF Admitted, Refusals, Written
<1> QED
  BY <1>1, <1>2, <1>3, <1>4

LEMMA BuildPreserves ==
  ASSUME BuildInv, [Build]_vars
  PROVE  BuildInv'
<1>1. CASE UNCHANGED vars
  <2>1. Refusal' = Refusal
    BY <1>1 DEF vars, Refusal
  <2> QED
    BY <1>1, <2>1 DEF vars, BuildInv, TypeOK, Aligned, Remaining, Admitted,
                      TextIsDetermined, PairsOf, Written
<1> QED
  BY <1>1, RefuseStep, OpenStep, WriteStep, CloseStep DEF Build

\* The two loops stay aligned with the operation and with each other.
THEOREM BuildInvariance == Spec => []BuildInv
<1>1. Init => BuildInv
  BY BuildInit
<1>2. BuildInv /\ [Build]_vars => BuildInv'
  BY BuildPreserves
<1> QED
  BY <1>1, <1>2, PTL DEF Spec

-----------------------------------------------------------------------------
\* Whatever the operation and the style of the engine, the database is asked to
\* do what the operation says.
THEOREM BuildIsFaithful == Spec => []MeansTheOperation
<1>1. BuildInv => MeansTheOperation
  <2> SUFFICES ASSUME BuildInv, phase = "built" PROVE MeansTheOperation
    BY DEF MeansTheOperation
  <2> USE DEF BuildInv
  <2>1. ASSUME NEW clause \in Clauses, NEW i \in Written(clause)
        PROVE  /\ text[i].col \in DOMAIN PairsOf(clause)
               /\ Read(i) = PairsOf(clause)[text[i].col]
    BY <2>1 DEF Aligned, Written, Read
  <2>2. ASSUME NEW clause \in Clauses, NEW i \in Written(clause),
               NEW j \in Written(clause), text[i].col = text[j].col
        PROVE  i = j
    <3>1. text[i].col \in Nat /\ i \in Nat /\ j \in Nat
      BY <2>2, PieceAt DEF Written
    <3>2. ~(i < j) /\ ~(j < i)
      BY <2>2, <3>1 DEF TextIsDetermined, Written, Clauses
    <3> QED
      BY <3>1, <3>2
  <2>3. ASSUME NEW clause \in Clauses, in.op = "UPDATE" \/ clause = "where",
               NEW col \in DOMAIN PairsOf(clause)
        PROVE  \E i \in Written(clause) : text[i].col = col
    BY <2>3 DEF Remaining, Clauses, PairsOf
  <2>4. in.op = "DELETE" => Written("set") = {}
    BY DEF Admitted
  <2> QED
    BY <2>1, <2>2, <2>3, <2>4 DEF MeansTheOperation
<1> QED
  BY <1>1, BuildInvariance, PTL

\* The same operation always gives the same text.
THEOREM TextDetermined == Spec => []TextIsDetermined
<1>1. BuildInv => TextIsDetermined
  BY DEF BuildInv
<1> QED
  BY <1>1, BuildInvariance, PTL

-----------------------------------------------------------------------------
(* The gate.                                                               *)

LEMMA LeastNatural ==
  ASSUME NEW T \in SUBSET Nat, T # {}
  PROVE  \E m \in T : \A n \in T : m <= n
<1>1. PICK m \in T : \A n \in T : ~(<<n, m>> \in OpToRel(<, Nat))
  BY NatLessThanWellFounded, WFMin
<1>2. \A n \in T : ~(n < m)
  BY <1>1 DEF OpToRel
<1> QED
  BY <1>2

LEMMA LeavesType ==
  ASSUME NEW t \in Tree
  PROVE  t.leaves \in Seq(Table \cup {Source}) /\ Len(t.leaves) \in Nat
<1>1. PICK k \in 0..MaxLeaves : t.leaves \in [1..k -> Table \cup {Source}]
  BY DEF Tree
<1>2. t.leaves \in Seq(Table \cup {Source})
  BY <1>1, GateAssumption
<1> QED
  BY <1>2

\* firstTableName finds the first table, if there is one.
LEMMA FirstTable ==
  ASSUME NEW t \in Tree
  PROVE  \/ /\ firstTableName(t) = NoTable
            /\ \A i \in 1..Len(t.leaves) : t.leaves[i] = Source
         \/ \E i \in 1..Len(t.leaves) :
              /\ firstTableName(t) = t.leaves[i]
              /\ t.leaves[i] # Source
              /\ \A j \in 1..(i - 1) : t.leaves[j] = Source
<1>0. Len(t.leaves) \in Nat
  BY LeavesType
<1> DEFINE tables == {i \in 1..Len(t.leaves) : t.leaves[i] # Source}
<1>1. CASE tables = {}
  BY <1>1 DEF firstTableName
<1>2. CASE tables # {}
  <2> DEFINE least == CHOOSE i \in tables : \A j \in tables : i <= j
  <2>1. \E i \in tables : \A j \in tables : i <= j
    <3>1. tables \in SUBSET Nat
      BY <1>0
    <3> HIDE DEF tables
    <3> QED
      BY <1>2, <3>1, LeastNatural
  <2>2. least \in tables /\ \A j \in tables : least <= j
    <3> HIDE DEF tables
    <3> QED
      BY <2>1
  <2>3. firstTableName(t) = t.leaves[least]
    BY <1>2 DEF firstTableName
  <2> HIDE DEF least
  <2>4. least \in 1..Len(t.leaves) /\ t.leaves[least] # Source
    BY <2>2
  <2>5. \A j \in 1..(least - 1) : t.leaves[j] = Source
    BY <2>2, <2>4
  <2> QED
    BY <2>3, <2>4, <2>5
<1> QED
  BY <1>1, <1>2

-----------------------------------------------------------------------------
\* What Check answers, in terms of what the parser read.
LEMMA CheckExact ==
  ASSUME NEW s,
         s.op \in {"UPDATE", "DELETE", "INSERT", "UNSUPPORTED"}
  PROVE  Check(s) = {} <=>
           /\ s.op # "UNSUPPORTED"
           /\ s.op \in {"UPDATE", "DELETE"} => s.where
           /\ s.op = "INSERT" => ~s.fromSelect
           /\ s.table \in Whitelist
BY DEF Check

\* What either parser reads, if it is listed, is named by the statement.
LEMMA TableNamed ==
  ASSUME NEW t \in Tree, Parse(t).table \in Whitelist
  PROVE  Parse(t).table \in Named(t)
<1>0. Source \notin Whitelist /\ NoTable \notin Whitelist
  BY GateAssumption
<1>1. t.leaves \in Seq(Table \cup {Source}) /\ Len(t.leaves) \in Nat
  BY LeavesType
<1>2. CASE Postgres
  <2>1. Parse(t).table = IF t.leaves = <<>> THEN NoTable ELSE Head(t.leaves)
    BY <1>2 DEF Parse, parsePostgres
  <2>2. t.leaves # <<>> /\ Parse(t).table = Head(t.leaves)
    BY <1>0, <2>1
  <2>3. 1 \in 1..Len(t.leaves) /\ Head(t.leaves) = t.leaves[1]
    BY <1>1, <2>2
  <2> QED
    BY <1>0, <2>2, <2>3 DEF Named
<1>3. CASE ~Postgres
  <2>1. Parse(t).table = firstTableName(t)
    BY <1>3 DEF Parse, parseMySQL
  <2> QED
    BY <1>0, <2>1, FirstTable DEF Named
<1> QED
  BY <1>2, <1>3

\* Of a statement with one table either parser reads that table.
LEMMA OneTableRead ==
  ASSUME NEW t \in Tree, OneLeaf(t), Named(t) # {}
  PROVE  Named(t) = {Parse(t).table}
<1>1. t.leaves \in Seq(Table \cup {Source}) /\ Len(t.leaves) = 1
  BY LeavesType DEF OneLeaf
<1>2. Named(t) = {t.leaves[1]} /\ t.leaves[1] # Source
  <2>1. 1..Len(t.leaves) = {1}
    BY <1>1
  <2> DEFINE leaf(i) == t.leaves[i]
  <2>2. Named(t) = {leaf(i) : i \in {1}} \ {Source}
    BY <2>1 DEF Named
  <2>3. {leaf(i) : i \in {1}} = {leaf(1)}
    <3> HIDE DEF leaf
    <3> QED
      BY Zenon
  <2>4. leaf(1) # Source
    BY <2>2, <2>3
  <2> QED
    BY <2>2, <2>3, <2>4
<1>3. CASE Postgres
  <2> DEFINE leaves == t.leaves
  <2>1. leaves # <<>> /\ Head(leaves) = leaves[1]
    <3>1. leaves \in Seq(Table \cup {Source}) /\ Len(leaves) = 1
      BY <1>1
    <3> HIDE DEF leaves
    <3>2. leaves # <<>>
      BY <3>1
    <3> QED
      BY <3>1, <3>2
  <2>2. Parse(t).table = t.leaves[1]
    BY <1>3, <2>1 DEF Parse, parsePostgres
  <2> QED
    BY <1>2, <2>2
<1>4. CASE ~Postgres
  <2>1. Parse(t).table = firstTableName(t)
    BY <1>4 DEF Parse, parseMySQL
  <2>2. \A i \in 1..Len(t.leaves) : i = 1
    BY <1>1
  <2>3. 1 \in 1..Len(t.leaves)
    BY <1>1
  <2>4. firstTableName(t) = t.leaves[1]
    BY <1>2, <2>2, <2>3, FirstTable
  <2> QED
    BY <1>2, <2>1, <2>4
<1> QED
  BY <1>3, <1>4

\* A statement gets through by its shape and by the table that was read.
LEMMA AnswerShape ==
  ASSUME NEW t \in Tree
  PROVE  Answer(t) = {} <=> Shape(t) /\ Parse(t).table \in Whitelist
<1> DEFINE s == Parse(t)
<1>1. /\ t.kind \in {"UPDATE", "DELETE", "INSERT", "other"}
      /\ t.rows \in {"values", "select", "default"} /\ t.count \in 0..2
      /\ t.parses \in BOOLEAN /\ t.where \in BOOLEAN
  BY DEF Tree
<1>2. /\ s.op = IF t.kind = "other" THEN "UNSUPPORTED" ELSE t.kind
      /\ s.where = (t.kind \in {"UPDATE", "DELETE"} /\ t.where)
      /\ s.fromSelect = (t.kind = "INSERT" /\ t.rows # "values")
  BY <1>1 DEF Parse, parsePostgres, parseMySQL
<1>3. s.op \in {"UPDATE", "DELETE", "INSERT", "UNSUPPORTED"}
  BY <1>1, <1>2
<1>4. Check(s) = {} <=>
        /\ \/ t.kind \in {"UPDATE", "DELETE"} /\ t.where
           \/ t.kind = "INSERT" /\ t.rows = "values"
        /\ s.table \in Whitelist
  <2> HIDE DEF s
  <2>1. Check(s) = {} <=>
          /\ s.op # "UNSUPPORTED"
          /\ s.op \in {"UPDATE", "DELETE"} => s.where
          /\ s.op = "INSERT" => ~s.fromSelect
          /\ s.table \in Whitelist
    BY <1>3, CheckExact
  <2>2. CASE t.kind \in {"UPDATE", "DELETE"}
    BY <1>2, <2>1, <2>2
  <2>3. CASE t.kind = "INSERT"
    BY <1>2, <2>1, <2>3
  <2>4. CASE t.kind = "other"
    BY <1>2, <2>1, <2>4
  <2> QED
    BY <1>1, <2>2, <2>3, <2>4
<1>5. ParseError(t) = {} <=> t.parses /\ t.count = 1
  BY <1>1 DEF ParseError
<1> QED
  BY <1>4, <1>5 DEF Answer, Shape
-----------------------------------------------------------------------------
\* What the builder wrote is one statement on one table.
LEMMA BuiltIsTree ==
  ASSUME BuildInv, phase = "built"
  PROVE  /\ BuiltTree \in Tree /\ OneLeaf(BuiltTree)
         /\ Named(BuiltTree) = {in.table}
<1>1. in.table \in Table /\ in.op \in {"UPDATE", "DELETE"}
  BY DEF BuildInv, TypeOK, Admitted, BoundedOp
<1>2. <<in.table>> \in
        UNION {[1..k -> Table \cup {Source}] : k \in 0..MaxLeaves}
  <2>1. 1 \in 0..MaxLeaves
    BY GateAssumption
  <2>2. <<in.table>> \in [1..1 -> Table \cup {Source}]
    BY <1>1
  <2> QED
    BY <2>1, <2>2
<1>3. BuiltTree \in Tree
  BY <1>1, <1>2 DEF BuiltTree, Tree
<1>4. OneLeaf(BuiltTree) /\ Named(BuiltTree) = {in.table}
  BY <1>1, GateAssumption DEF BuiltTree, OneLeaf, Named
<1> QED
  BY <1>3, <1>4

LEMMA AnswerType ==
  ASSUME NEW t
  PROVE  Answer(t) \subseteq Verdicts
BY DEF Answer, ParseError, Check, Verdicts, ParseErrors, GuardErrors

LEMMA AnyTreeType == AnyTree \in Tree
<1> DEFINE t == [parses |-> TRUE, count |-> 0, kind |-> "other",
                 leaves |-> <<>>, writes |-> {}, where |-> FALSE,
                 rows |-> "values"]
<1>1. <<>> \in [1..0 -> Table \cup {Source}] /\ 0 \in 0..MaxLeaves
  BY GateAssumption
<1>2. <<>> \in UNION {[1..k -> Table \cup {Source}] : k \in 0..MaxLeaves}
  BY <1>1
<1>3. t \in Tree
  BY <1>2 DEF Tree
<1> QED
  BY <1>3 DEF AnyTree

LEMMA GateStarts == GateInit => GateInv
<1> SUFFICES ASSUME GateInit PROVE GateInv
  OBVIOUS
<1>1. BuildInv
  BY BuildInit DEF GateInit
<1>2. GateTypeOK /\ WayInv /\ AnswerInv
  BY AnyTreeType DEF GateInit, GateTypeOK, WayInv, AnswerInv
<1> QED
  BY <1>1, <1>2 DEF GateInv

LEMMA GatePreserves ==
  ASSUME GateInv, [GateNext]_gateVars
  PROVE  GateInv'
<1> USE DEF GateInv
<1>0. BuildInv'
  <2>1. [Build]_vars
    BY DEF GateNext, gateVars, Resolve, BuildStep, BuildRefused, Built, Judge
  <2> QED
    BY <2>1, BuildPreserves
<1>1. CASE UNCHANGED gateVars
  <2>1. vars' = vars /\ mode' = mode /\ tree' = tree /\ place' = place
        /\ verdict' = verdict
    BY <1>1 DEF gateVars
  <2>2. Postgres' = Postgres /\ BuiltTree' = BuiltTree /\ phase' = phase
    BY <2>1 DEF vars, Postgres, BuiltTree, Written
  <2>3. Answer(tree)' = Answer(tree)
    BY <2>1, <2>2 DEF Answer, Parse
  <2> QED
    BY <1>0, <2>1, <2>2, <2>3 DEF GateTypeOK, WayInv, AnswerInv
<1>2. CASE Resolve
  <2>1. UNCHANGED <<vars, mode, tree>>
    BY <1>2 DEF Resolve
  <2>2. Postgres' = Postgres
    BY <2>1 DEF vars, Postgres
  <2>3. GateTypeOK'
    BY <1>2, <2>1 DEF Resolve, Refused, GateTypeOK, Verdicts, InputErrors
  <2>4. WayInv' /\ AnswerInv'
    BY <1>2, <2>1, <2>2 DEF Resolve, Refused, WayInv, AnswerInv
  <2> QED
    BY <1>0, <2>3, <2>4
<1>3. CASE BuildStep
  <2>1. in' = in
    BY <1>3 DEF BuildStep, Build, Refuse, Open, Write, Close
  <2> QED
    BY <1>0, <1>3, <2>1 DEF BuildStep, GateTypeOK, WayInv, AnswerInv
<1>4. CASE BuildRefused
  <2>1. UNCHANGED <<vars, mode, tree>> /\ phase' = phase /\ Postgres' = Postgres
    BY <1>4 DEF BuildRefused, vars, Postgres
  <2> QED
    BY <1>0, <1>4, <2>1
    DEF BuildRefused, Refused, GateTypeOK, WayInv, AnswerInv, Verdicts
<1>5. CASE Built
  <2>1. vars' = vars /\ mode' = mode /\ phase' = phase
        /\ BuiltTree' = BuiltTree /\ mode = "bounded"
    <3>1. in' = in /\ text' = text /\ phase' = phase /\ vars' = vars
      BY <1>5 DEF Built, vars
    <3>2. BuiltTree' = BuiltTree
      BY <3>1 DEF BuiltTree, Written, Postgres
    <3> QED
      BY <1>5, <3>1, <3>2 DEF Built, WayInv
  <2>2. BuiltTree \in Tree
    BY <1>5, BuiltIsTree DEF Built
  <2>3. GateTypeOK'
    BY <1>5, <2>1, <2>2 DEF Built, GateTypeOK
  <2>4. WayInv' /\ AnswerInv'
    BY <1>5, <2>1 DEF Built, WayInv, AnswerInv
  <2> QED
    BY <1>0, <2>3, <2>4
<1>6. CASE Judge
  <2>1. vars' = vars /\ mode' = mode /\ tree' = tree /\ phase' = phase
        /\ place' = "answered" /\ verdict' = Answer(tree)
    BY <1>6 DEF Judge, vars
  <2>2. Postgres' = Postgres /\ BuiltTree' = BuiltTree
    BY <2>1 DEF vars, Postgres, BuiltTree, Written
  <2>3. Answer(tree)' = Answer(tree)
    BY <2>1, <2>2 DEF Answer, Parse
  <2>4. GateTypeOK'
    BY <2>1, AnswerType DEF GateTypeOK
  <2>5. WayInv' /\ AnswerInv'
    BY <1>6, <2>1, <2>2, <2>3 DEF Judge, WayInv, AnswerInv
  <2> QED
    BY <1>0, <2>4, <2>5
<1> QED
  BY <1>1, <1>2, <1>3, <1>4, <1>5, <1>6 DEF GateNext

\* Each answer is the one the request was on its way to.
THEOREM GateInvariance == GateSpec => []GateInv
<1>1. GateInit => GateInv
  BY GateStarts
<1>2. GateInv /\ [GateNext]_gateVars => GateInv'
  BY GatePreserves
<1> QED
  BY <1>1, <1>2, PTL DEF GateSpec
-----------------------------------------------------------------------------
\* The text has a column without a name if the operation has.
LEMMA ColumnsWritten ==
  ASSUME BuildInv, phase = "built"
  PROVE  (\E i \in 1..Len(text) : text[i].col = NoName) <=> NoName \in ColumnsUsed
<1> USE DEF BuildInv
<1>1. ASSUME NEW i \in 1..Len(text), text[i].col = NoName
      PROVE  NoName \in ColumnsUsed
  <2>1. /\ text[i].clause \in Clauses
        /\ NoName \in DOMAIN PairsOf(text[i].clause)
    BY <1>1, PieceAt DEF Aligned
  <2>2. text[i].clause = "set" => in.op = "UPDATE"
    BY DEF Admitted, Written
  <2> QED
    BY <2>1, <2>2 DEF Clauses, PairsOf, ColumnsUsed
<1>2. ASSUME NoName \in ColumnsUsed
      PROVE  \E i \in 1..Len(text) : text[i].col = NoName
  BY <1>2 DEF ColumnsUsed, Remaining, Written
<1> QED
  BY <1>1, <1>2

\* What is said of a statement the builder wrote.
LEMMA BuiltAnswer ==
  ASSUME BuildInv, phase = "built"
  PROVE  Answer(BuiltTree) =
           IF Postgres /\ NoName \in ColumnsUsed THEN {"ErrParse"}
           ELSE IF in.table \notin Whitelist THEN {"ErrTableNotWhitelisted"}
           ELSE {}
<1>1. in.table \in Table /\ in.op \in {"UPDATE", "DELETE"}
  BY DEF BuildInv, TypeOK, Admitted, BoundedOp
<1>2. Written("where") # {}
  BY DEF BuildInv, Remaining, Admitted
<1>3. ParseError(BuiltTree) =
        IF Postgres /\ NoName \in ColumnsUsed THEN {"ErrParse"} ELSE {}
  <2>1. BuiltTree.parses <=> ~(Postgres /\ NoName \in ColumnsUsed)
    BY ColumnsWritten DEF BuiltTree
  <2>2. BuiltTree.count = 1
    BY DEF BuiltTree
  <2> QED
    BY <2>1, <2>2 DEF ParseError
<1> DEFINE s == Parse(BuiltTree)
<1>4. s.table = in.table
  BY BuiltIsTree, OneTableRead
<1>5. s.op = in.op /\ s.where = TRUE
  BY <1>1, <1>2 DEF Parse, parsePostgres, parseMySQL, BuiltTree
<1> HIDE DEF s
<1>6. Check(s) = IF in.table \in Whitelist THEN {}
                 ELSE {"ErrTableNotWhitelisted"}
  BY <1>1, <1>4, <1>5 DEF Check
<1> QED
  BY <1>3, <1>6 DEF Answer, s

\* Of the statements on one table, and of the bounded operations, exactly those
\* get through that should; no other without the shape that is asked for.
THEOREM GateExact == GateSpec => []GateIsExact
<1>1. GateInv => GateIsExact
  <2> SUFFICES ASSUME GateInv, place = "answered"
               PROVE  GateIsExact
    BY DEF GateIsExact
  <2> USE DEF GateInv
  <2>1. CASE mode \in {"both", "neither"} /\ verdict # {}
    BY <2>1 DEF GateIsExact
  <2>2. CASE mode = "raw" /\ verdict = Answer(tree)
    <3>1. tree \in Tree
      BY DEF GateTypeOK
    <3>2. verdict = {} <=> Shape(tree) /\ Parse(tree).table \in Whitelist
      BY <2>2, <3>1, AnswerShape
    <3>3. verdict = {} => Shape(tree) /\ Named(tree) \cap Whitelist # {}
      BY <3>1, <3>2, TableNamed
    <3>4. ASSUME SingleTarget(tree) PROVE verdict = {} <=> Legal(tree)
      <4>1. tree.writes = {Parse(tree).table}
        BY <3>1, <3>4, OneTableRead DEF SingleTarget
      <4> QED
        BY <3>2, <4>1 DEF Legal
    <3> QED
      BY <2>2, <3>3, <3>4 DEF GateIsExact
  <2>3. CASE mode = "bounded" /\ phase \in Refusals /\ verdict = {phase}
    <3>1. ~LegalOp
      BY <2>3, GateAssumption DEF BuildInv, Admitted, Refusal, LegalOp
    <3> QED
      BY <2>3, <3>1 DEF GateIsExact
  <2>4. CASE /\ mode = "bounded" /\ phase = "built" /\ tree = BuiltTree
             /\ verdict = Answer(tree)
    <3>1. LegalOp <=> /\ in.table \in Whitelist
                      /\ ~(Postgres /\ NoName \in ColumnsUsed)
      BY <2>4 DEF BuildInv, Admitted, LegalOp
    <3>2. verdict = {} <=> LegalOp
      BY <2>4, <3>1, BuiltAnswer
    <3> QED
      BY <2>4, <3>2 DEF GateIsExact
  <2> QED
    BY <2>1, <2>2, <2>3, <2>4 DEF AnswerInv
<1> QED
  BY <1>1, GateInvariance, PTL

\* A statement the builder wrote is refused for a name, of a column under
\* Postgres or of the table, or not at all.
THEOREM BuiltIsRefusedForItsNames == GateSpec => []BuiltFailsOnNamesOnly
<1>1. GateInv => BuiltFailsOnNamesOnly
  <2> SUFFICES ASSUME GateInv, place = "answered", mode = "bounded",
                      phase = "built"
               PROVE  BuiltFailsOnNamesOnly
    BY DEF BuiltFailsOnNamesOnly
  <2>1. phase \notin Refusals
    BY DEF Refusals
  <2>2. verdict = Answer(BuiltTree)
    BY <2>1 DEF GateInv, AnswerInv
  <2> QED
    BY <2>2, BuiltAnswer DEF GateInv, BuiltFailsOnNamesOnly
<1> QED
  BY <1>1, GateInvariance, PTL
=============================================================================
