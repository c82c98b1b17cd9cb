----------------------------- MODULE BoundedSQL -----------------------------
(***************************************************************************)
(* buildBoundedSQL, internal/engine/build.go: a bounded operation becomes  *)
(* a statement with placeholders and a list of arguments.  Two loops, over *)
(* the columns of SET and over those of WHERE, write the text and append   *)
(* the arguments; they share one counter of placeholders.  One step is one *)
(* turn of a loop.                                                         *)
(***************************************************************************)
EXTENDS Naturals, Sequences

CONSTANTS
  Column,    \* names of columns; the order of numbers is the alphabetical one,
             \* and 0 is the empty name
  Value,     \* values an operation assigns or compares with
  Table      \* names of tables

ASSUME ColumnAssumption == Column \subseteq Nat

Blank    == "blank"       \* a table name of white space only
NoName   == 0             \* the column that is called nothing
Question == 0             \* the placeholder of MySQL, where Postgres numbers

Style == {"dollar", "question"}

\* map[string]any
Pairs == UNION {[C -> Value] : C \in SUBSET Column}

BoundedOp ==
  [op : {"UPDATE", "DELETE", "INSERT"}, table : Table \cup {Blank},
   set : Pairs, where : Pairs, style : Style]

Clauses == {"set", "where"}
Piece   == [clause : Clauses, col : Column, mark : Nat]

VARIABLES
  in,      \* the operation, and the style of the engine
  phase,   \* the loop it is in, or how it ended
  left,    \* columns the loop has still to write
  text,    \* what is written: "col = placeholder" for each piece
  args     \* the arguments

vars == <<in, phase, left, text, args>>

Phases   == {"start", "set", "where", "built"}
Refusals == {"no table", "ErrMissingWhere", "no set", "ErrOperationNotAllowed"}

Init ==
  /\ in \in BoundedOp
  /\ phase = "start"
  /\ left  = {}
  /\ text  = <<>>
  /\ args  = <<>>

-----------------------------------------------------------------------------
\* The pairs a clause is made from.
PairsOf(clause) == IF clause = "set" THEN in.set ELSE in.where

\* The columns an operation speaks of; the SET of a DELETE is not looked at.
ColumnsUsed ==
  DOMAIN in.where \cup (IF in.op = "UPDATE" THEN DOMAIN in.set ELSE {})

Enter(clause) == phase' = clause /\ left' = DOMAIN PairsOf(clause)

\* Variant: an empty WHERE is not refused.
RefusalLenient ==
  IF in.table = Blank THEN {"no table"}
  ELSE IF in.op = "UPDATE" /\ DOMAIN in.set = {} THEN {"no set"}
  ELSE IF in.op = "INSERT" THEN {"ErrOperationNotAllowed"}
  ELSE {}

\* The first thing wrong with the operation, if any, in the order of the code.
Refusal ==
  IF in.table = Blank THEN {"no table"}
  ELSE IF DOMAIN in.where = {} THEN {"ErrMissingWhere"}
  ELSE IF in.op = "UPDATE" /\ DOMAIN in.set = {} THEN {"no set"}
  ELSE IF in.op = "INSERT" THEN {"ErrOperationNotAllowed"}
  ELSE {}

Refuse ==
  /\ phase = "start"
  /\ phase' \in Refusal
  /\ UNCHANGED <<in, left, text, args>>

Open ==
  /\ phase = "start"
  /\ Refusal = {}
  /\ Enter(IF in.op = "UPDATE" THEN "set" ELSE "where")
  /\ UNCHANGED <<in, text, args>>

\* next(): the counter goes on from SET to WHERE.
Mark == IF in.style = "dollar" THEN Len(args) + 1 ELSE Question

\* Variant: WHERE counts from one again.
WriteRecounts(col) ==
  /\ phase \in Clauses
  /\ col \in left
  /\ \A other \in left : col <= other
  /\ text' = Append(text, [clause |-> phase, col |-> col, mark |->
       IF in.style = "question" THEN Question
       ELSE IF phase = "set" THEN Len(args) + 1
       ELSE Len(args) + 1 - Len(SelectSeq(text, LAMBDA p : p.clause = "set"))])
  /\ args' = Append(args, PairsOf(phase)[col])
  /\ left' = left \ {col}
  /\ UNCHANGED <<in, phase>>

\* Variant: in the order the map gives the keys.
WriteUnsorted(col) ==
  /\ phase \in Clauses
  /\ col \in left
  /\ text' = Append(text, [clause |-> phase, col |-> col, mark |-> Mark])
  /\ args' = Append(args, PairsOf(phase)[col])
  /\ left' = left \ {col}
  /\ UNCHANGED <<in, phase>>

\* One turn of a loop, over sortedKeys.
Write(col) ==
  /\ phase \in Clauses
  /\ col \in left
  /\ \A other \in left : col <= other
  /\ text' = Append(text, [clause |-> phase, col |-> col, mark |-> Mark])
  /\ args' = Append(args, PairsOf(phase)[col])
  /\ left' = left \ {col}
  /\ UNCHANGED <<in, phase>>

Close ==
  /\ left = {}
  /\ \/ phase = "set" /\ Enter("where")
     \/ phase = "where" /\ phase' = "built" /\ UNCHANGED left
  /\ UNCHANGED <<in, text, args>>

Build == Refuse \/ Open \/ (\E col \in Column : Write(col)) \/ Close

Spec == Init /\ [][Build]_vars
-----------------------------------------------------------------------------
TypeOK ==
  /\ in    \in BoundedOp
  /\ phase \in Phases \cup Refusals
  /\ left  \subseteq Column
  /\ text  \in Seq(Piece)
  /\ args  \in Seq(Value)

\* The value the database reads for the i-th piece of the text: Postgres goes
\* by the number, MySQL by the position.
Read(i) == args[IF in.style = "dollar" THEN text[i].mark ELSE i]

Written(clause) == {i \in 1..Len(text) : text[i].clause = clause}

\* What the database is asked to do is what the operation says, in either style:
\* each clause has each of its columns exactly once, with its own value, and a
\* DELETE assigns nothing (build.go, the two loops and next).
MeansTheOperation ==
  phase = "built" =>
    /\ \A clause \in Clauses :
         /\ \A i \in Written(clause) :
              /\ text[i].col \in DOMAIN PairsOf(clause)
              /\ Read(i) = PairsOf(clause)[text[i].col]
         /\ \A i, j \in Written(clause) : text[i].col = text[j].col => i = j
         /\ in.op = "UPDATE" \/ clause = "where" =>
              \A col \in DOMAIN PairsOf(clause) :
                \E i \in Written(clause) : text[i].col = col
    /\ in.op = "DELETE" => Written("set") = {}

\* The text is a function of the operation and not of the order in which a map
\* gives its keys: SET before WHERE, each in alphabetical order.
TextIsDetermined ==
  \A i, j \in 1..Len(text) : i < j =>
    \/ text[i].clause = "set" /\ text[j].clause = "where"
    \/ text[i].clause = text[j].clause /\ text[i].col < text[j].col

-----------------------------------------------------------------------------
\* As many arguments as pieces, the i-th for the i-th.
Aligned ==
  /\ Len(text) = Len(args)
  /\ \A i \in 1..Len(text) :
       LET pairs == PairsOf(text[i].clause) IN
       /\ text[i].col \in DOMAIN pairs
       /\ args[i] = pairs[text[i].col]
       /\ text[i].mark = IF in.style = "dollar" THEN i ELSE Question

\* What the loop has still to write is what it has not written.
Remaining ==
  /\ phase \in Clauses => left \subseteq DOMAIN PairsOf(phase)
  /\ phase \notin Clauses => left = {}
  /\ phase \in Clauses =>
       \A i \in Written(phase) : \A col \in left : text[i].col < col
  /\ phase = "set" => Written("where") = {}
  /\ phase \in {"where", "built"} /\ in.op = "UPDATE" =>
       \A col \in DOMAIN in.set : \E i \in Written("set") : text[i].col = col
  /\ phase = "built" =>
       \A col \in DOMAIN in.where :
         \E i \in Written("where") : text[i].col = col
  /\ phase \in Clauses => \A col \in DOMAIN PairsOf(phase) \ left :
       \E i \in Written(phase) : text[i].col = col

\* What was checked at the beginning, and a DELETE has no SET.
Admitted ==
  /\ phase \in {"set", "where", "built"} =>
       /\ in.table # Blank
       /\ DOMAIN in.where # {}
       /\ in.op \in {"UPDATE", "DELETE"}
       /\ in.op = "UPDATE" => DOMAIN in.set # {}
  /\ phase = "set" => in.op = "UPDATE"
  /\ phase \in Refusals => Refusal # {}
  /\ phase \notin {"set", "where", "built"} => text = <<>>
  /\ in.op # "UPDATE" => Written("set") = {}

BuildInv == TypeOK /\ Aligned /\ Remaining /\ Admitted /\ TextIsDetermined
=============================================================================
