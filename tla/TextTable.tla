----------------------------- MODULE TextTable ------------------------------
(***************************************************************************)
(* Lines of SQL on one table, from their text to the bytes of its rows and *)
(* back (src/src/cli.c, parser.c, and the layout of rows in btree.c).      *)
(*                                                                         *)
(* The table has the name t; its row in the catalog is the payload, a      *)
(* sequence of numbers and names.  A row is a sequence of cells: one for   *)
(* each character of a text, and a single one, not four, for a number.     *)
(* What pages and tree do with rows is shown by other modules.             *)
(*                                                                         *)
(* An operator introduced by "As ..., but" is no part of the model: it is  *)
(* a slip the code could have made, and README.md names the property that  *)
(* rejects it.                                                             *)
(***************************************************************************)
EXTENDS SqlText

CONSTANT Inputs   \* bound: the lines that are typed, and what they mean:
                  \* records [request, line]

\* A line ends at its first nul; a number is written in its own way.
Nul == "nul"
Characters == STRING \ {Nul}
ASSUME TextTableAssumption ==
  /\ MAX_CELL_TEXT \in Nat \ {0} /\ UINT32_MAX \in Nat
  /\ MAX_SCHEMA_COLUMNS \in Nat \ {0} /\ MAX_INSERT_ROWS \in Nat
  /\ \A i \in Inputs : i.line \in Seq(Characters)
  /\ \A n \in 0 .. UINT32_MAX :
       /\ Numeral(n) \in Characters \ {"none"}
       /\ \A m \in 0 .. UINT32_MAX : Numeral(m) = Numeral(n) => m = n

Name == <<"t">>
COLUMN_TYPE == [int |-> 1, text |-> 2]

VARIABLES
  payload,  \* what the catalog has of the table, <<>> if there is no table
  cells,    \* id |-> the cells of the row
  reply,
  statement,  \* the statement of the last line
  request   \* history: what it means

vars == <<payload, cells, reply, statement, request>>

-----------------------------------------------------------------------------
(* The schema in the catalog. *)

make_schema_payload(schema) ==
  LET Part(c) == <<c.name, COLUMN_TYPE[c.type], c.max>>
      parts[i \in 0 .. Len(schema)] ==
        IF i = 0 THEN <<Len(schema)>> ELSE parts[i - 1] \o Part(schema[i])
  IN parts[Len(schema)]

\* The schema is <<>> if the payload is not one.
split_schema_payload(parts) ==
  LET Type(i) == parts[3 * i]
      Maximum(i) == IF Type(i) = COLUMN_TYPE.int THEN 0 ELSE parts[3 * i + 1]
  IN IF /\ parts[1] <= MAX_SCHEMA_COLUMNS /\ Len(parts) = 1 + 3 * parts[1]
        /\ \A i \in 1 .. parts[1] :
             /\ Type(i) \in {COLUMN_TYPE.int, COLUMN_TYPE.text}
             /\ Type(i) = COLUMN_TYPE.text => Maximum(i) \in 1 .. MAX_CELL_TEXT
     THEN [i \in 1 .. parts[1] |->
             [name |-> parts[3 * i - 1], max |-> Maximum(i),
              type |-> IF Type(i) = COLUMN_TYPE.int THEN "int" ELSE "text"]]
     ELSE <<>>

\* master_find_table
Schema == IF payload = <<>> THEN <<>> ELSE split_schema_payload(payload)
Found(stmt) == stmt.table = Name /\ Schema # <<>>

-----------------------------------------------------------------------------
(* The cells of a row. *)

ColSize(c) == IF c.type = "int" THEN 1 ELSE c.max

\* As compute_row_layout, but every column begins one cell after another.
LayoutNarrow(schema) ==
  [i \in DOMAIN schema |-> [type |-> schema[i].type, offset |-> i - 1, size |-> ColSize(schema[i])]]

\* The columns with their offsets: those before them are in front of them.
compute_row_layout(schema) ==
  LET end[i \in 0 .. Len(schema)] == IF i = 0 THEN 0 ELSE end[i - 1] + ColSize(schema[i])
  IN [i \in DOMAIN schema |->
        [type |-> schema[i].type, offset |-> end[i - 1], size |-> ColSize(schema[i])]]

\* Whether a value can go into a column; text that is too long cannot.
ValueValid(c, text) ==
  IF c.type = "int" THEN parse_u32(text) # -1 ELSE Len(text) <= c.max

Put(type, text) == IF type = "int" THEN <<Numeral(parse_u32(text))>> ELSE text

\* As PutColumn, but the cells behind a text stay as they were.
PutColumnUncleared(row, col, text) ==
  SubSeq(row, 1, col.offset) \o Put(col.type, text)
    \o SubSeq(row, col.offset + Len(Put(col.type, text)) + 1, Len(row))

\* A row with a value in a column, and Nul behind it.
PutColumn(row, col, text) ==
  SubSeq(row, 1, col.offset) \o Put(col.type, text)
    \o [k \in 1 .. col.size - Len(Put(col.type, text)) |-> Nul]
    \o SubSeq(row, col.offset + col.size + 1, Len(row))

pack_insert_row_values(values, layout) ==
  LET cleared == [k \in 1 .. Last(layout).offset + Last(layout).size |-> Nul]
      row[i \in 0 .. Len(layout)] ==
        IF i = 0 THEN cleared ELSE PutColumn(row[i - 1], layout[i], values[i])
  IN row[Len(layout)]

\* execute_select: what it shows of a column, a text up to its first Nul.
bounded_text_len(text) == Until(text, 1, {Nul}) - 1
Shown(row, col) ==
  LET text == SubSeq(row, col.offset + 1, col.offset + col.size)
  IN SubSeq(text, 1, bounded_text_len(text))

-----------------------------------------------------------------------------
(* Statements. *)

Done == reply' = "ok"
Refused(error) == reply' = error /\ UNCHANGED <<payload, cells>>

NoRows == [k \in {} |-> <<>>]

execute_create_table(stmt) ==
  IF Found(stmt) THEN Refused("table exists")
  ELSE Done /\ payload' = make_schema_payload(stmt.schema) /\ cells' = NoRows

RowValid(row, schema) ==
  /\ Len(row.values) = Len(schema)
  /\ \A i \in DOMAIN schema : ValueValid(schema[i], row.values[i])
  /\ row.id \notin DOMAIN cells

execute_insert(stmt) ==
  LET schema == Schema
      layout == compute_row_layout(schema)
      ids == [i \in DOMAIN stmt.rows |-> stmt.rows[i].id]
      RowWith(id) == CHOOSE row \in ToSet(stmt.rows) : row.id = id
  IN IF \/ ~Found(stmt) \/ ~IsInjective(ids)
        \/ \E row \in ToSet(stmt.rows) : ~RowValid(row, schema)
     THEN Refused("not inserted")
     ELSE /\ Done
          /\ cells' = [k \in DOMAIN cells \cup ToSet(ids) |->
                         IF k \in DOMAIN cells THEN cells[k]
                         ELSE pack_insert_row_values(RowWith(k).values, layout)]
          /\ UNCHANGED payload

\* The column is the first of that name.
execute_update(stmt) ==
  LET schema == Schema
      named == {i \in DOMAIN schema : schema[i].name = stmt.column}
      target_col == Min(named)
      layout == compute_row_layout(schema)
  IN IF \/ ~Found(stmt) \/ named = {} \/ target_col = 1 \/ stmt.id \notin DOMAIN cells
        \/ ~ValueValid(schema[target_col], stmt.value)
     THEN Refused("not updated")
     ELSE /\ Done
          /\ cells' = [cells EXCEPT ![stmt.id] = PutColumn(@, layout[target_col], stmt.value)]
          /\ UNCHANGED payload

execute_delete(stmt) ==
  IF ~Found(stmt) \/ stmt.id \notin DOMAIN cells THEN Refused("not deleted")
  ELSE Done /\ cells' = [k \in DOMAIN cells \ {stmt.id} |-> cells[k]] /\ UNCHANGED payload

execute_drop_table(stmt) ==
  IF ~Found(stmt) THEN Refused("not found")
  ELSE Done /\ payload' = <<>> /\ cells' = NoRows

execute_select(stmt) ==
  IF ~Found(stmt) THEN Refused("not found") ELSE Done /\ UNCHANGED <<payload, cells>>

-----------------------------------------------------------------------------
(* Lines, of which those that parse to the same are the same. *)

ParsedInputs ==
  {[stmt |-> parse_sql_statement(i.line), request |-> i.request] : i \in Inputs}

Syntax == statement'.type = "failed" /\ Refused("syntax error")
Create == statement'.type = "create" /\ execute_create_table(statement')
Insert == statement'.type = "insert" /\ execute_insert(statement')
Update == statement'.type = "update" /\ execute_update(statement')
Delete == statement'.type = "delete" /\ execute_delete(statement')
Drop == statement'.type = "drop" /\ execute_drop_table(statement')
Select == statement'.type = "select" /\ execute_select(statement')

Init ==
  /\ payload = <<>> /\ cells = NoRows /\ reply = "ok"
  /\ statement = Failed /\ request = [kind |-> "none"]

\* process_line
Next ==
  /\ \E typed \in ParsedInputs : statement' = typed.stmt /\ request' = typed.request
  /\ Syntax \/ Create \/ Insert \/ Update \/ Delete \/ Drop \/ Select

Spec == Init /\ [][Next]_vars
=============================================================================
