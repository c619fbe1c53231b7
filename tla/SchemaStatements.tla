-------------------------- MODULE SchemaStatements --------------------------
(***************************************************************************)
(* What the statements of TypeORM migrations do to a PostgreSQL schema.    *)
(*                                                                         *)
(* A schema is a set of enum types, tables, indexes, foreign keys and      *)
(* other constraints.  A table's columns are those an INSERT must give a   *)
(* value (NOT NULL without default), those it may, and, among both, the    *)
(* ones too narrow for the 36 characters of a UUID.  A statement is a      *)
(* record; Execute gives the schema after it, or Failed.                   *)
(***************************************************************************)
EXTENDS SequencesExt

Empty == [types |-> {}, tables |-> <<>>, indexes |-> {}, keys |-> {}]
Failed == [types |-> {"failed"}, tables |-> <<>>, indexes |-> {}, keys |-> {}]

Columns(table) == table.required \cup table.optional

(* The statements.                                                         *)
CreateType(name) == [op |-> "CreateType", name |-> name]
DropType(name) == [op |-> "DropType", name |-> name]
CreateNarrowTable(name, required, optional, narrow) ==
  [op |-> "CreateTable", name |-> name,
   table |-> [required |-> required, optional |-> optional, narrow |-> narrow]]
CreateTable(name, required, optional) == CreateNarrowTable(name, required, optional, {})
DropTable(name) == [op |-> "DropTable", name |-> name]
Index(name, table, columns) ==
  [op |-> "CreateIndex", name |-> name, on |-> table, columns |-> columns]
DropIndex(name) == [op |-> "DropIndex", name |-> name]
ForeignKey(name, table, column, to) ==
  [op |-> "AddKey", name |-> name, on |-> table, columns |-> {column}, to |-> to]
Constraint(name, table, columns) ==
  [op |-> "AddKey", name |-> name, on |-> table, columns |-> columns, to |-> table]
AddColumns(table, required, optional) ==
  [op |-> "AddColumns", name |-> table, required |-> required, optional |-> optional]
DropKey(name) == [op |-> "DropKey", name |-> name]
DropColumns(table, columns) == [op |-> "DropColumns", name |-> table, columns |-> columns]
(* UPDATE, INSERT or DELETE of rows, which needs columns and types.        *)
Uses(table, columns) == [op |-> "Uses", name |-> table, columns |-> columns]
UsesUnique(index) == [op |-> "UsesIndex", name |-> index]
(* The same without IF [NOT] EXISTS, and what only a part of them needs.   *)
Strict(s) == [op |-> "Strict", name |-> s.name, statement |-> s]
WithType(type, s) == [op |-> "WithType", name |-> type, statement |-> s]
(* A foreign key inside CREATE TABLE comes with the table or not at all.   *)
WithKey(table, key) == [op |-> "WithKey", name |-> table.name, table |-> table, key |-> key]

HasColumns(s, table, columns) ==
  table \in DOMAIN s.tables /\ columns \subseteq Columns(s.tables[table])

Named(set, name) == {x \in set : x.name = name}

(* Does the object a statement creates or drops exist?                     *)
Exists(s, stmt) ==
  CASE stmt.op \in {"CreateType", "DropType"} -> stmt.name \in s.types
    [] stmt.op \in {"CreateTable", "DropTable"} -> stmt.name \in DOMAIN s.tables
    [] stmt.op \in {"CreateIndex", "DropIndex"} -> Named(s.indexes, stmt.name) # {}
    [] stmt.op \in {"AddKey", "DropKey"} -> Named(s.keys, stmt.name) # {}
    [] stmt.op = "AddColumns" ->
         HasColumns(s, stmt.name, stmt.required \cup stmt.optional)
    [] stmt.op = "DropColumns" -> HasColumns(s, stmt.name, stmt.columns)

Without(f, x) == [y \in DOMAIN f \ {x} |-> f[y]]

Drop(s, stmt) ==
  CASE stmt.op = "DropType" -> [s EXCEPT !.types = @ \ {stmt.name}]
    [] stmt.op = "DropIndex" -> [s EXCEPT !.indexes = @ \ Named(@, stmt.name)]
    [] stmt.op = "DropKey" -> [s EXCEPT !.keys = @ \ Named(@, stmt.name)]
    [] stmt.op = "DropTable" ->
         IF \E k \in s.keys : k.to = stmt.name /\ k.on # stmt.name
           THEN Failed  \* still referenced
           ELSE [s EXCEPT !.tables = Without(@, stmt.name),
                          !.indexes = {i \in @ : i.on # stmt.name},
                          !.keys = {k \in @ : k.on # stmt.name}]
    [] stmt.op = "DropColumns" ->
         [s EXCEPT !.tables[stmt.name] =
                      [required |-> @.required \ stmt.columns,
                       optional |-> @.optional \ stmt.columns,
                       narrow |-> @.narrow \ stmt.columns],
                   !.indexes = {i \in @ : i.on # stmt.name \/ i.columns \cap stmt.columns = {}}]

Create(s, stmt) ==
  CASE stmt.op = "CreateType" -> [s EXCEPT !.types = @ \cup {stmt.name}]
    [] stmt.op = "CreateTable" -> [s EXCEPT !.tables = (stmt.name :> stmt.table) @@ @]
    [] stmt.op = "CreateIndex" ->
         IF HasColumns(s, stmt.on, stmt.columns)
           THEN [s EXCEPT !.indexes = @ \cup {[name |-> stmt.name, on |-> stmt.on,
                                               columns |-> stmt.columns]}]
           ELSE Failed
    [] stmt.op = "AddKey" ->
         IF HasColumns(s, stmt.on, stmt.columns) /\ stmt.to \in DOMAIN s.tables
           THEN [s EXCEPT !.keys = @ \cup {[name |-> stmt.name, on |-> stmt.on, to |-> stmt.to]}]
           ELSE Failed
    [] stmt.op = "AddColumns" ->
         IF stmt.name \notin DOMAIN s.tables THEN Failed
         ELSE LET old == Columns(s.tables[stmt.name]) IN
              [s EXCEPT !.tables[stmt.name].required = @ \cup (stmt.required \ old),
                        !.tables[stmt.name].optional = @ \cup (stmt.optional \ old)]

Creates == {"CreateType", "CreateTable", "CreateIndex", "AddKey", "AddColumns"}
Drops == {"DropType", "DropTable", "DropIndex", "DropKey", "DropColumns"}

(* CREATE ... IF NOT EXISTS, DROP ... IF EXISTS.                           *)
Lenient(s, stmt) ==
  CASE stmt.op \in Creates -> IF Exists(s, stmt) THEN s ELSE Create(s, stmt)
    [] stmt.op = "DropColumns" ->
         IF stmt.name \in DOMAIN s.tables THEN Drop(s, stmt) ELSE Failed
    [] stmt.op \in Drops -> IF Exists(s, stmt) THEN Drop(s, stmt) ELSE s
    [] stmt.op = "Uses" -> IF HasColumns(s, stmt.name, stmt.columns) THEN s ELSE Failed
    [] stmt.op = "UsesIndex" -> IF Named(s.indexes, stmt.name) # {} THEN s ELSE Failed

Execute(s, stmt) ==
  CASE s = Failed -> Failed
    [] stmt.op = "Strict" ->
         IF Exists(s, stmt.statement) = (stmt.statement.op \in Drops)
           THEN Lenient(s, stmt.statement) ELSE Failed
    [] stmt.op = "WithType" ->
         IF stmt.name \in s.types THEN Lenient(s, stmt.statement) ELSE Failed
    [] stmt.op = "WithKey" ->
         IF Exists(s, stmt.table) THEN s ELSE Create(Create(s, stmt.table), stmt.key)
    [] OTHER -> Lenient(s, stmt)

ExecuteAll(s, stmts) == FoldLeft(Execute, s, stmts)
=============================================================================
