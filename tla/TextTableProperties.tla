------------------------ MODULE TextTableProperties -------------------------
(***************************************************************************)
(* What lines of SQL must do with a table, stated over the steps of        *)
(* TextTable.                                                              *)
(***************************************************************************)
EXTENDS TextTable

Layout == compute_row_layout(Schema)

\* The payload is a schema; a row has the cells of its columns, and a text in
\* it ends once.
TypeOK ==
  /\ payload # <<>> => Schema # <<>>
  /\ \A k \in DOMAIN cells :
       /\ k \in 0 .. UINT32_MAX
       /\ Len(cells[k]) = Last(Layout).offset + Last(Layout).size
       /\ \A col \in ToSet(Layout) : \A c \in 1 .. col.size :
            c > Len(Shown(cells[k], col)) <=> cells[k][col.offset + c] = Nul
  /\ reply \in {"ok", "syntax error", "table exists", "not inserted", "not updated",
                "not deleted", "not found"}

\* The parsers alone: a line is parsed to what it means, or is a syntax error if no
\* table can take what it means.
Meanings == [text : Seq(STRING), number : STRING, written : Seq(STRING)]
Reads(text, value) ==
  /\ text = value.text
  /\ value.number = IF parse_u32(text) = -1 THEN "none" ELSE Numeral(parse_u32(text))
ReadsRow(row, meant) ==
  /\ Len(row.values) = Len(meant)
  /\ \A j \in DOMAIN meant : Reads(row.values[j], meant[j]) /\ meant[j].text # <<>>
NoTableTakes(row) ==
  \/ Len(row) > MAX_SCHEMA_COLUMNS \/ row[1].number = "none"
  \/ \E j \in DOMAIN row : row[j].text = <<>>

ColumnsOf(schema) == [i \in DOMAIN schema |-> [name |-> schema[i].name, type |-> schema[i].type]]
CreateMeans(stmt, r) ==
  /\ r.columns \in Seq([name : Seq(STRING), type : {"int", "text"}])
  /\ IF Len(r.columns) > MAX_SCHEMA_COLUMNS THEN stmt = Failed
     ELSE /\ stmt.type = "create" /\ stmt.table = Name /\ r.columns = ColumnsOf(stmt.schema)
          /\ \A i, j \in DOMAIN r.columns : r.columns[i].name = r.columns[j].name => i = j
InsertMeans(stmt, r) ==
  /\ r.rows \in Seq(Seq(Meanings))
  /\ IF \E i \in DOMAIN r.rows : NoTableTakes(r.rows[i]) THEN stmt = Failed
     ELSE /\ stmt.type = "insert" /\ stmt.table = Name /\ Len(stmt.rows) = Len(r.rows)
          /\ \A i \in DOMAIN r.rows : ReadsRow(stmt.rows[i], r.rows[i])
UpdateMeans(stmt, r) ==
  /\ stmt.type = "update" /\ stmt.table = Name /\ r.id.number = Numeral(stmt.id)
  /\ stmt.column = r.column /\ Reads(stmt.value, r.value)
DeleteMeans(stmt, r) ==
  stmt.type = "delete" /\ stmt.table = Name /\ r.id.number = Numeral(stmt.id)
TableMeans(stmt, r) == stmt.type = r.kind /\ stmt.table = Name

MeansWhatItSays(stmt, r) ==
  \/ r.kind = "create" /\ CreateMeans(stmt, r)
  \/ r.kind = "insert" /\ InsertMeans(stmt, r)
  \/ r.kind = "update" /\ UpdateMeans(stmt, r)
  \/ r.kind = "delete" /\ DeleteMeans(stmt, r)
  \/ r.kind \in {"drop", "select"} /\ TableMeans(stmt, r)
ReadAsMeant == [][MeansWhatItSays(statement', request')]_vars

\* Every line does what it means, and no line that means something the table
\* can take is refused: what a select shows is what has been written, through
\* the parsers, the schema in the catalog, the layout of the rows, and changes
\* of single columns.
Columns == ColumnsOf(Schema)
ShownRows ==
  {[i \in DOMAIN layout |-> Shown(cells[k], layout[i])] : k \in DOMAIN cells, layout \in {Layout}}
Meant == INSTANCE TypedTable WITH
           TextMax <- MAX_CELL_TEXT, ColumnsMax <- MAX_SCHEMA_COLUMNS,
           table <- [columns |-> Columns, rows |-> ShownRows],
           accepted <- reply = "ok"
ImplementsTypedTable == Meant!TTSpec

\* What the next line does depends on this alone.
Table == <<payload, cells>>
=============================================================================
