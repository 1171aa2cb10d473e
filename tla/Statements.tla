----------------------------- MODULE Statements -----------------------------
(***************************************************************************)
(* insert, update and delete on one table (src/src/cli.c), outside of a    *)
(* transaction: an insert of several rows goes over them twice, once to    *)
(* check them and once to put them into the tree, and gives ids to the     *)
(* rows that have none each time anew.                                     *)
(*                                                                         *)
(* The tree of the table is what RowTable says, which BTree is shown to    *)
(* implement: a map from keys to values, the keys being those of 32 bits,  *)
(* 0 to TOP_KEY. The columns of a row besides its id are one value; Wrong  *)
(* is a row that does not fit the columns' types, Missing one of another   *)
(* number of columns.                                                      *)
(*                                                                         *)
(* An operator introduced by "As ..., but" is no part of the model: it is  *)
(* a slip the code could have made, and README.md names the property that  *)
(* rejects it.                                                             *)
(***************************************************************************)
EXTENDS Naturals, Sequences

CONSTANTS
  TOP_KEY,
  MAX_INSERT_ROWS,
  Values, Wrong, Missing,
  Null,       \* null in place of an id
  NoKey,      \* has_rows = false: there is no largest key
  RowSpecs    \* bound: the rows that inserts are made of

Keys == 0 .. TOP_KEY

ASSUME StatementsAssumption ==
  /\ TOP_KEY \in Nat \ {0} /\ MAX_INSERT_ROWS \in Nat
  /\ Wrong \notin Values /\ Missing \notin Values /\ Wrong # Missing
  /\ Null \notin Keys /\ NoKey \notin Keys
  /\ RowSpecs \subseteq [id : Keys \cup {Null}, value : Values \cup {Wrong, Missing}]

VARIABLES
  rows,          \* key |-> value, with what is not committed yet
  stored,        \* what is committed
  pc,
  stmt,          \* the rows of the insert
  row,           \* the next of them
  max_key,
  planned_keys,
  seen,          \* history: max_key before each row of the first pass
  reply          \* what the last statement said

table == <<rows, stored>>
insert == <<stmt, row, max_key, planned_keys, seen>>
vars == <<table, pc, insert, reply>>

-----------------------------------------------------------------------------
(* execute_insert. *)

\* What a scan of the table ends with.
find_table_max_key(max) ==
  IF DOMAIN rows = {} THEN max = NoKey
  ELSE max \in DOMAIN rows /\ \A j \in DOMAIN rows : j <= max

\* execute_insert returns, and with it goes what it has counted.
EndInsert ==
  stmt' = <<>> /\ row' = 1 /\ max_key' = NoKey /\ planned_keys' = <<>> /\ seen' = <<>>

StartInsert ==
  /\ pc = "idle"
  /\ \E n \in 1 .. MAX_INSERT_ROWS : stmt' \in [1 .. n -> RowSpecs]
  /\ pc' = "check" /\ row' = 1
  /\ \E max \in Keys \cup {NoKey} : find_table_max_key(max) /\ max_key' = max
  /\ planned_keys' = <<>> /\ seen' = <<>>
  /\ UNCHANGED <<table, reply>>

\* As KeyAfter, but with more bits than a key has.
KeyAfterWide(key) == IF key = NoKey THEN 1 ELSE key + 1

\* The id of a row that has none, after the largest key.
KeyAfter(key) ==
  IF key = NoKey THEN 1
  ELSE IF key = TOP_KEY THEN 0
  ELSE key + 1

\* The key of a row, and the largest key with it, if max is that of before.
RowKey(spec, max) == IF spec.id = Null THEN KeyAfter(max) ELSE spec.id

MaxWith(spec, max) ==
  IF spec.id = Null \/ max = NoKey THEN RowKey(spec, max)
  ELSE IF spec.id > max THEN spec.id ELSE max

\* As DuplicateKey, but only the table is searched and not the rows before.
DuplicateOfStored(key) == key \in DOMAIN rows

DuplicateKey(key) ==
  key \in DOMAIN rows \/ \E j \in DOMAIN planned_keys : planned_keys[j] = key

\* Why the first pass refuses a row, "ok" if it does not.
RowCheck(spec) ==
  IF spec.value = Missing THEN "wrong value count"
  ELSE IF spec.value = Wrong THEN "validation failed"
  ELSE IF DuplicateKey(RowKey(spec, max_key)) THEN "duplicate key"
  ELSE "ok"

RefuseRow ==
  /\ pc = "check"
  /\ RowCheck(stmt[row]) # "ok"
  /\ reply' = RowCheck(stmt[row])
  /\ pc' = "idle" /\ EndInsert
  /\ UNCHANGED table

\* As SecondMax, but what the first pass has left is kept.
SecondMaxKept(max) == max = MaxWith(stmt[row], max_key)

\* The largest key the second pass starts from.
SecondMax(max) == find_table_max_key(max)

PlanRow ==
  /\ pc = "check"
  /\ RowCheck(stmt[row]) = "ok"
  /\ planned_keys' = Append(planned_keys, RowKey(stmt[row], max_key))
  /\ seen' = Append(seen, max_key)
  /\ IF row < Len(stmt)
     THEN row' = row + 1 /\ max_key' = MaxWith(stmt[row], max_key) /\ pc' = pc
     ELSE /\ \E max \in Keys \cup {NoKey} : SecondMax(max) /\ max_key' = max
          /\ row' = 1 /\ pc' = "insert"
  /\ UNCHANGED <<table, stmt, reply>>

\* rows with one more.
Put(key, value) == [k \in DOMAIN rows \cup {key} |-> IF k = key THEN value ELSE rows[k]]

\* insert_row_into_table refuses a key that is there: the rows before it stay.
InsertRow ==
  /\ pc = "insert"
  /\ LET key == RowKey(stmt[row], max_key) IN
     IF key \in DOMAIN rows
     THEN rows' = rows /\ reply' = "duplicate key" /\ pc' = "idle" /\ EndInsert
     ELSE /\ rows' = Put(key, stmt[row].value)
          /\ IF row = Len(stmt)
             THEN reply' = "ok" /\ pc' = "commit" /\ EndInsert
             ELSE /\ row' = row + 1 /\ max_key' = MaxWith(stmt[row], max_key)
                  /\ UNCHANGED <<pc, stmt, planned_keys, seen, reply>>
  /\ UNCHANGED stored

-----------------------------------------------------------------------------
(* The other statements. *)

Without(key) == [k \in DOMAIN rows \ {key} |-> rows[k]]

execute_delete ==
  /\ pc = "idle"
  /\ \E key \in Keys :
       IF key \in DOMAIN rows
       THEN rows' = Without(key) /\ reply' = "ok" /\ pc' = "commit"
       ELSE rows' = rows /\ reply' = "record not found" /\ pc' = pc
  /\ UNCHANGED <<stored, insert>>

\* Why an update is refused.
UpdateCheck(column, key, value) ==
  IF column = "unknown" THEN "column not found"
  ELSE IF column = "id" THEN "primary key"
  ELSE IF key \notin DOMAIN rows THEN "record not found"
  ELSE IF value = Wrong THEN "validation failed"
  ELSE "ok"

execute_update ==
  /\ pc = "idle"
  /\ \E column \in {"unknown", "id", "value"}, key \in Keys, value \in Values \cup {Wrong} :
       /\ reply' = UpdateCheck(column, key, value)
       /\ IF reply' = "ok"
          THEN rows' = [rows EXCEPT ![key] = value] /\ pc' = "commit"
          ELSE rows' = rows /\ pc' = pc
  /\ UNCHANGED <<stored, insert>>

\* execute_sql, after the statement has said that it is executed.
Commit ==
  /\ pc = "commit"
  /\ stored' = rows
  /\ pc' = "idle"
  /\ UNCHANGED <<rows, insert, reply>>

\* The process ends, before or after any of these steps, and another opens the
\* table.
Crash ==
  /\ rows' = stored
  /\ pc' = "idle" /\ reply' = "ok" /\ EndInsert
  /\ UNCHANGED stored

Init ==
  /\ rows = [k \in {} |-> Wrong] /\ stored = rows
  /\ pc = "idle" /\ reply = "ok"
  /\ stmt = <<>> /\ row = 1 /\ max_key = NoKey /\ planned_keys = <<>> /\ seen = <<>>

Next ==
  \/ StartInsert \/ RefuseRow \/ PlanRow \/ InsertRow
  \/ execute_delete \/ execute_update
  \/ Commit \/ Crash

Spec == Init /\ [][Next]_vars
=============================================================================
