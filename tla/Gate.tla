-------------------------------- MODULE Gate --------------------------------
(***************************************************************************)
(* What a statement passes before the database sees it, service.go preview *)
(* steps 1 and 2: resolveSQL chooses between raw SQL and a bounded         *)
(* operation, the engine's parser classifies the one statement there is,   *)
(* guard.Check decides.  Service calls the statements that get through     *)
(* Allowed.                                                                *)
(*                                                                         *)
(* The grammars belong to third-party parsers; a Tree holds what the       *)
(* repository's code reads of their results and, beside it, the tables the *)
(* statement writes, which the code does not read as such.                 *)
(***************************************************************************)
EXTENDS BoundedSQL

CONSTANTS
  Whitelist,    \* TABLE_WHITELIST
  MaxLeaves     \* leaves of the longest target clause

NoTable == "no name"
Source  == "subquery"     \* a leaf of the target clause that is no table

ASSUME GateAssumption ==
  /\ Whitelist \subseteq Table
  /\ MaxLeaves \in Nat \ {0}
  /\ {Blank, NoTable, Source} \cap Table = {}

Modes   == {"raw", "bounded", "both", "neither"}

\* The leaves of the target clause are in reading order: libpg_query has one
\* relation there, TiDB's parser a tree of joins.
Tree ==
  [parses : BOOLEAN, count : 0..2,
   kind : {"UPDATE", "DELETE", "INSERT", "other"},
   leaves : UNION {[1..k -> Table \cup {Source}] : k \in 0..MaxLeaves},
   writes : SUBSET Table,
   where : BOOLEAN, rows : {"values", "select", "default"}]

OneLeaf(t) == Len(t.leaves) = 1
Named(t)   == {t.leaves[i] : i \in 1..Len(t.leaves)} \ {Source}

ParseErrors == {"ErrParse", "ErrEmptySQL", "ErrMultipleStatements"}
GuardErrors == {"ErrMissingWhere", "ErrInsertFromSelect",
                "ErrOperationNotAllowed", "ErrTableNotWhitelisted"}
InputErrors == {"ErrAmbiguousInput", "ErrEmptyInput"}

VARIABLES
  mode,      \* which of the two inputs the request carries
  tree,      \* what the parser makes of the SQL
  place,     \* where the request is
  verdict    \* the error, in a set; empty when there is none

gateVars == <<vars, mode, tree, place, verdict>>

-----------------------------------------------------------------------------
\* Both parsers want exactly one statement.
ParseError(t) ==
  IF ~t.parses THEN {"ErrParse"}
  ELSE IF t.count = 0 THEN {"ErrEmptySQL"}
  ELSE IF t.count = 2 THEN {"ErrMultipleStatements"}
  ELSE {}

\* resolveTableName: the leftmost table of the tree, "" if there is none.
firstTableName(t) ==
  LET tables == {i \in 1..Len(t.leaves) : t.leaves[i] # Source} IN
  IF tables = {} THEN NoTable
  ELSE t.leaves[CHOOSE i \in tables : \A j \in tables : i <= j]

parsePostgres(t) ==
  [op         |-> IF t.kind = "other" THEN "UNSUPPORTED" ELSE t.kind,
   table      |-> IF t.leaves = <<>> THEN NoTable ELSE Head(t.leaves),
   where      |-> t.kind \in {"UPDATE", "DELETE"} /\ t.where,
   fromSelect |-> t.kind = "INSERT" /\ t.rows # "values"]

parseMySQL(t) ==
  [op         |-> IF t.kind = "other" THEN "UNSUPPORTED" ELSE t.kind,
   table      |-> firstTableName(t),
   where      |-> t.kind \in {"UPDATE", "DELETE"} /\ t.where,
   fromSelect |-> t.kind = "INSERT" /\ t.rows \in {"select", "default"}]

\* DB_ENGINE chooses parser and style of placeholders together.
Postgres == in.style = "dollar"

Parse(t) == IF Postgres THEN parsePostgres(t) ELSE parseMySQL(t)

\* Variant: WHERE is asked of UPDATE only.
CheckUpdateOnly(s) ==
  IF s.op = "UPDATE" /\ ~s.where THEN {"ErrMissingWhere"}
  ELSE IF s.op = "INSERT" /\ s.fromSelect THEN {"ErrInsertFromSelect"}
  ELSE IF s.op = "UNSUPPORTED" THEN {"ErrOperationNotAllowed"}
  ELSE IF s.table \notin Whitelist THEN {"ErrTableNotWhitelisted"}
  ELSE {}

\* guard.Check; tableAllowed compares exactly.
Check(s) ==
  IF s.op \in {"UPDATE", "DELETE"} /\ ~s.where THEN {"ErrMissingWhere"}
  ELSE IF s.op = "INSERT" /\ s.fromSelect THEN {"ErrInsertFromSelect"}
  ELSE IF s.op = "UNSUPPORTED" THEN {"ErrOperationNotAllowed"}
  ELSE IF s.table \notin Whitelist THEN {"ErrTableNotWhitelisted"}
  ELSE {}

\* A statement that cannot be parsed is not checked.
Answer(t) == IF ParseError(t) # {} THEN ParseError(t) ELSE Check(Parse(t))

-----------------------------------------------------------------------------
AnyOp   == CHOOSE o \in BoundedOp : TRUE
AnyTree == CHOOSE t \in Tree : TRUE

\* What the two grammars allow.  In Postgres a statement writes its relation
\* and whatever the members of its WITH clause write; in MySQL an INSERT writes
\* its table, an UPDATE or DELETE one or several of those it joins.
Grammatical(t) ==
  \/ t.kind = "other"
  \/ Postgres /\ OneLeaf(t) /\ Named(t) # {} /\ Named(t) \subseteq t.writes
  \/ /\ ~Postgres
     /\ t.writes \subseteq Named(t)
     /\ Named(t) # {} => t.writes # {}
     /\ t.kind = "INSERT" => OneLeaf(t) /\ Named(t) # {}

\* One request; what it does not carry is arbitrary.
GateInit ==
  /\ Init
  /\ mode \in Modes
  /\ mode # "bounded" => in = [AnyOp EXCEPT !.style = in.style]
  /\ \/ mode = "raw" /\ tree \in Tree /\ Grammatical(tree)
     \/ mode # "raw" /\ tree = AnyTree
  /\ place = "resolve"
  /\ verdict = {}

Refused(errors) ==
  /\ place' = "answered"
  /\ verdict' = errors

\* resolveSQL
Resolve ==
  /\ place = "resolve"
  /\ \/ mode = "raw" /\ place' = "judge" /\ UNCHANGED verdict
     \/ mode = "bounded" /\ place' = "build" /\ UNCHANGED verdict
     \/ mode = "both" /\ Refused({"ErrAmbiguousInput"})
     \/ mode = "neither" /\ Refused({"ErrEmptyInput"})
  /\ UNCHANGED <<vars, mode, tree>>

BuildStep ==
  /\ place = "build"
  /\ Build
  /\ UNCHANGED <<mode, tree, place, verdict>>

BuildRefused ==
  /\ place = "build"
  /\ phase \in Refusals
  /\ Refused({phase})
  /\ UNCHANGED <<vars, mode, tree>>

\* The engine's parser reads the text that was built.  The builder looks at the
\* table's name only, and a quoted name of nothing is none to libpg_query.
BuiltTree ==
  [parses |-> Postgres => \A i \in 1..Len(text) : text[i].col # NoName,
   count |-> 1, kind |-> in.op, leaves |-> <<in.table>>, writes |-> {in.table},
   where |-> Written("where") # {}, rows |-> "values"]

Built ==
  /\ place = "build"
  /\ phase = "built"
  /\ tree' = BuiltTree
  /\ place' = "judge"
  /\ UNCHANGED <<vars, mode, verdict>>

\* Parse and Check; a request without an error goes on to the database.
Judge ==
  /\ place = "judge"
  /\ place' = "answered"
  /\ verdict' = Answer(tree)
  /\ UNCHANGED <<vars, mode, tree>>

GateNext == Resolve \/ BuildStep \/ BuildRefused \/ Built \/ Judge

GateSpec == GateInit /\ [][GateNext]_gateVars
-----------------------------------------------------------------------------
Verdicts == ParseErrors \cup GuardErrors \cup InputErrors \cup Refusals

GateTypeOK ==
  /\ mode \in Modes
  /\ tree \in Tree
  /\ place \in {"resolve", "build", "judge", "answered"}
  /\ verdict \subseteq Verdicts

\* What the documents ask of a statement, said of what it does and not of what
\* the code reads of it (README; docs/SECURITY.md:43-57).
Shape(t) ==
  /\ t.parses /\ t.count = 1
  /\ \/ t.kind \in {"UPDATE", "DELETE"} /\ t.where
     \/ t.kind = "INSERT" /\ t.rows = "values"

Legal(t) == Shape(t) /\ t.writes \subseteq Whitelist

LegalOp ==
  /\ in.op \in {"UPDATE", "DELETE"} /\ in.table \in Whitelist
  /\ DOMAIN in.where # {}
  /\ in.op = "UPDATE" => DOMAIN in.set # {}
  /\ Postgres => NoName \notin ColumnsUsed

\* It names one table and writes no other.
SingleTarget(t) == OneLeaf(t) /\ Named(t) # {} /\ t.writes = Named(t)

\* Of the statements on one table, and of the bounded operations, exactly those
\* get through that should.  Of the others, only such as have the shape that is
\* asked for and name a table of the whitelist; what else they write is the
\* question of OnlyListedWritten (guard.go:92-117).
GateIsExact ==
  place = "answered" =>
    /\ mode \in {"both", "neither"} => verdict # {}
    /\ mode = "bounded" => (verdict = {} <=> LegalOp)
    /\ mode = "raw" /\ verdict = {} =>
         Shape(tree) /\ Named(tree) \cap Whitelist # {}
    /\ mode = "raw" /\ SingleTarget(tree) => (verdict = {} <=> Legal(tree))

\* "Tabla fuera de la whitelist -> rechazado", and of a CTE beside the target,
\* "solo lee" (docs/SECURITY.md:56,104).
OnlyListedWritten ==
  place = "answered" /\ verdict = {} => tree.writes \subseteq Whitelist

\* What the builder lets through, the parser and the guards refuse for a name
\* only, that of a column or that of the table, and for no reason the builder
\* has looked at (build.go, "Guarda estructural").
BuiltFailsOnNamesOnly ==
  place = "answered" /\ mode = "bounded" /\ phase = "built" =>
    verdict = IF Postgres /\ NoName \in ColumnsUsed THEN {"ErrParse"}
              ELSE IF in.table \notin Whitelist THEN {"ErrTableNotWhitelisted"}
              ELSE {}

\* What is known of the request on its way.
WayInv ==
  /\ place # "answered" => verdict = {}
  /\ place = "build" => mode = "bounded"
  /\ place = "judge" => mode \in {"raw", "bounded"}
  /\ place = "judge" /\ mode = "bounded" => phase = "built" /\ tree = BuiltTree

AnswerInv ==
  place = "answered" =>
    \/ mode \in {"both", "neither"} /\ verdict # {}
    \/ mode = "raw" /\ verdict = Answer(tree)
    \/ mode = "bounded" /\ phase \in Refusals /\ verdict = {phase}
    \/ /\ mode = "bounded" /\ phase = "built" /\ tree = BuiltTree
       /\ verdict = Answer(tree)

GateInv == BuildInv /\ GateTypeOK /\ WayInv /\ AnswerInv
=============================================================================
