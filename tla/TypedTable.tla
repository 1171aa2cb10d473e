----------------------------- MODULE TypedTable -----------------------------
(***************************************************************************)
(* What SQL statements promise about one table: its columns have names and *)
(* types, and what a row shows in a column is what the last statement that *)
(* named this row and column meant; a statement that means something the   *)
(* table cannot take is refused, and no other is.                          *)
(*                                                                         *)
(* A value is what a user may mean by it, in a column of text and in one   *)
(* of numbers ("none" if it is no number).  A row is what its columns      *)
(* show, the id first.                                                     *)
(***************************************************************************)
EXTENDS Naturals, Sequences

CONSTANTS
  TextMax,      \* longest text
  ColumnsMax    \* columns of a table, with the id

VARIABLES
  table,        \* columns: name and type of each, <<>> if there is no table; rows
  request,      \* the statement, as it is meant
  accepted      \* whether it took effect

ttVars == <<table, request, accepted>>

NoTable == [columns |-> <<>>, rows |-> {}]

Elements(seq) == {seq[i] : i \in DOMAIN seq}
Ids(t) == {row[1] : row \in t.rows}

Fits(value, column) ==
  IF column.type = "text" THEN Len(value.text) <= TextMax ELSE value.number # "none"
Shows(value, column) == IF column.type = "text" THEN value.text ELSE <<value.number>>

\* An insert cannot give an empty text, which an update can.
RowFits(t, row) ==
  /\ Len(row) = Len(t.columns)
  /\ \A i \in DOMAIN row : row[i].text # <<>> /\ Fits(row[i], t.columns[i])
  /\ <<row[1].number>> \notin Ids(t)

Insertable(t, rows) ==
  /\ \A row \in Elements(rows) : RowFits(t, row)
  /\ \A i, j \in DOMAIN rows : rows[i][1].number = rows[j][1].number => i = j

Updatable(t, r) ==
  /\ <<r.id.number>> \in Ids(t)
  /\ \E i \in DOMAIN t.columns \ {1} : t.columns[i].name = r.column /\ Fits(r.value, t.columns[i])

Acceptable(t, r) ==
  \/ r.kind = "create" /\ t = NoTable /\ Len(r.columns) <= ColumnsMax
  \/ r.kind # "create" /\ t # NoTable
     /\ \/ r.kind = "insert" /\ Insertable(t, r.rows)
        \/ r.kind = "update" /\ Updatable(t, r)
        \/ r.kind = "delete" /\ <<r.id.number>> \in Ids(t)
        \/ r.kind \in {"drop", "select"}

Inserted(t, row) == [i \in DOMAIN row |-> Shows(row[i], t.columns[i])]

Updated(t, r, row) ==
  [i \in DOMAIN row |->
     IF row[1] = <<r.id.number>> /\ t.columns[i].name = r.column
     THEN Shows(r.value, t.columns[i]) ELSE row[i]]

\* The table after a statement that it can take.
After(t, r) ==
  CASE r.kind = "create" -> [NoTable EXCEPT !.columns = r.columns]
    [] r.kind = "insert" -> [t EXCEPT !.rows = @ \cup {Inserted(t, row) : row \in Elements(r.rows)}]
    [] r.kind = "update" -> [t EXCEPT !.rows = {Updated(t, r, row) : row \in @}]
    [] r.kind = "delete" -> [t EXCEPT !.rows = {row \in @ : row[1] # <<r.id.number>>}]
    [] r.kind = "drop"   -> NoTable
    [] r.kind = "select" -> t

Answer ==
  \E t \in {table}, r \in {request'} :
    IF Acceptable(t, r) THEN accepted' = TRUE /\ table' = After(t, r)
    ELSE accepted' = FALSE /\ table' = t

TTInit == table = NoTable /\ accepted = TRUE
TTSpec == TTInit /\ [][Answer]_ttVars
=============================================================================
