-------------------------- MODULE StatementsProofs --------------------------
(***************************************************************************)
(* Theorems about Statements, for any largest key, any values and inserts  *)
(* of any number of rows.  The inductive invariant, StatementsInv, says    *)
(* that the first pass leaves a plan (Planned): ids that are free, differ, *)
(* and follow from the largest key before each row, which is recorded in   *)
(* seen; and that the second pass stands somewhere in that plan            *)
(* (Inserting), so that it gives every row the id it was planned to have.  *)
(***************************************************************************)
EXTENDS StatementsProperties, TLAPS

LargestOf(S, max) ==
  IF S = {} THEN max = NoKey ELSE max \in S /\ \A j \in S : j <= max

\* The keys the table has when the first i - 1 rows of the plan are in it.
KeysBefore(i) == DOMAIN stored \cup {planned_keys[j] : j \in 1 .. i - 1}

PlannedRow(i) ==
  /\ planned_keys[i] = RowKey(stmt[i], seen[i])
  /\ stmt[i].value \in Values
  /\ planned_keys[i] \notin DOMAIN stored
  /\ \A j \in 1 .. i - 1 : planned_keys[j] # planned_keys[i]

\* Each row was planned with the largest key before it.
Planned ==
  /\ Len(planned_keys) = Len(seen) /\ Len(seen) <= Len(stmt)
  /\ \A i \in 1 .. Len(seen) : PlannedRow(i)
  /\ \A i \in 1 .. Len(seen) : i > 1 => seen[i] = MaxWith(stmt[i - 1], seen[i - 1])
  /\ Len(seen) >= 1 => LargestOf(DOMAIN stored, seen[1])

\* The largest key is the largest, unless the ids have run over.
Above ==
  /\ \A i \in 1 .. Len(seen) :
       TOP_KEY \notin KeysBefore(i) => LargestOf(KeysBefore(i), seen[i])
  /\ pc = "check" /\ TOP_KEY \notin KeysBefore(row) => LargestOf(KeysBefore(row), max_key)

Checking ==
  pc = "check" =>
    /\ rows = stored /\ Len(seen) = row - 1
    /\ row = 1 => LargestOf(DOMAIN stored, max_key)
    /\ row > 1 => max_key = MaxWith(stmt[row - 1], seen[row - 1])

Inserting ==
  pc = "insert" =>
    /\ Len(seen) = Len(stmt) /\ max_key = seen[row]
    /\ DOMAIN rows = KeysBefore(row)
    /\ \A k \in DOMAIN stored : rows[k] = stored[k]
    /\ \A j \in 1 .. row - 1 : rows[planned_keys[j]] = stmt[j].value

Resting ==
  pc \notin {"check", "insert"} =>
    stmt = <<>> /\ row = 1 /\ planned_keys = <<>> /\ seen = <<>>

StatementsInv ==
  /\ TypeOK /\ Planned /\ Above
  /\ Checking /\ Inserting /\ Resting
  /\ RefusedLeavesNothing

-----------------------------------------------------------------------------
(* Rows, keys and types. *)

\* A table is a function from some keys to values.
LEMMA TableParts ==
  ASSUME NEW r \in Tables
  PROVE  DOMAIN r \subseteq Keys /\ r \in [DOMAIN r -> Values]
<1>1. PICK S \in SUBSET Keys : r \in [S -> Values]
  BY DEF Tables
<1>2. QED
  BY <1>1

\* Such a function is a table.
LEMMA TableOf ==
  ASSUME NEW S \in SUBSET Keys, NEW r \in [S -> Values]
  PROVE  r \in Tables
  BY DEF Tables

\* What insert_row_into_table and the update in place do to the rows.
LEMMA PutTable ==
  ASSUME rows \in Tables, NEW key \in Keys, NEW value \in Values
  PROVE  /\ Put(key, value) \in Tables
         /\ DOMAIN Put(key, value) = DOMAIN rows \cup {key}
         /\ Put(key, value)[key] = value
         /\ \A k \in DOMAIN rows : k # key => Put(key, value)[k] = rows[k]
<1>1. DOMAIN rows \subseteq Keys /\ rows \in [DOMAIN rows -> Values]
  BY TableParts
<1>2. Put(key, value) \in [DOMAIN rows \cup {key} -> Values]
  BY <1>1 DEF Put
<1>3. Put(key, value) \in Tables
  BY <1>1, <1>2, TableOf
<1>4. QED
  BY <1>1, <1>3 DEF Put

\* The parts of a row that an insert is asked for.
LEMMA SpecParts ==
  ASSUME NEW spec \in RowSpecs
  PROVE  /\ spec.id \in Keys \/ spec.id = Null
         /\ spec.value \in Values \/ spec.value = Wrong \/ spec.value = Missing
  BY StatementsAssumption

\* A row has a key, and there is a largest one with it.
LEMMA KeyTypes ==
  ASSUME NEW spec \in RowSpecs, NEW max \in Keys \cup {NoKey}
  PROVE  RowKey(spec, max) \in Keys /\ MaxWith(spec, max) \in Keys
<1>1. KeyAfter(max) \in Keys
  BY StatementsAssumption DEF KeyAfter, Keys
<1>2. QED
  BY <1>1, SpecParts DEF RowKey, MaxWith

\* What the first pass has made sure of when it lets a row through.
LEMMA Checked ==
  ASSUME NEW spec \in RowSpecs, RowCheck(spec) = "ok"
  PROVE  spec.value \in Values /\ ~DuplicateKey(RowKey(spec, max_key))
  BY SpecParts DEF RowCheck

\* While an insert runs, its row is one of the statement's.
LEMMA AtRow ==
  ASSUME TypeOK, pc \in {"check", "insert"}
  PROVE  /\ row \in 1 .. Len(stmt) /\ Len(stmt) \in Nat /\ row \in Nat
         /\ stmt[row] \in RowSpecs
         /\ \A i \in 1 .. Len(stmt) : stmt[i] \in RowSpecs
         /\ DOMAIN stmt = 1 .. Len(stmt)
<1>1. stmt \in Seq(RowSpecs) /\ row \in Nat \ {0} /\ row <= Len(stmt)
  BY DEF TypeOK
<1>2. /\ Len(stmt) \in Nat /\ \A i \in 1 .. Len(stmt) : stmt[i] \in RowSpecs
      /\ DOMAIN stmt = 1 .. Len(stmt)
  BY <1>1
<1>3. row \in 1 .. Len(stmt) /\ row \in Nat
  BY <1>1, <1>2
<1>4. QED
  BY <1>2, <1>3

\* Every step keeps the types.
LEMMA TypesStep ==
  ASSUME TypeOK, Planned, Checking, Inserting, [Next]_vars
  PROVE  TypeOK'
<1>1. CASE StartInsert
  <2>1. PICK n \in 1 .. MAX_INSERT_ROWS : stmt' \in [1 .. n -> RowSpecs]
    BY <1>1 DEF StartInsert
  <2>2. stmt' \in Seq(RowSpecs) /\ Len(stmt') = n
    BY <2>1
  <2>3. row' <= Len(stmt') /\ Len(stmt') <= MAX_INSERT_ROWS
    BY <1>1, <2>1, <2>2, StatementsAssumption DEF StartInsert
  <2>4. planned_keys' \in Seq(Keys) /\ seen' \in Seq(Keys \cup {NoKey})
    BY <1>1 DEF StartInsert
  <2>5. row' \in Nat \ {0} /\ max_key' \in Keys \cup {NoKey} /\ pc' = "check"
    BY <1>1 DEF StartInsert
  <2>6. UNCHANGED <<rows, stored, reply>>
    BY <1>1 DEF StartInsert, table
  <2>7. QED
    BY <2>2, <2>3, <2>4, <2>5, <2>6 DEF TypeOK
<1>2. ASSUME rows' \in Tables, stored' \in Tables, EndInsert,
             pc' \in {"idle", "commit"},
             reply' \in {"ok", "wrong value count", "validation failed", "duplicate key"}
      PROVE  TypeOK'
  <2>1. stmt' = <<>> /\ row' = 1 /\ max_key' = NoKey /\ planned_keys' = <<>> /\ seen' = <<>>
    BY <1>2 DEF EndInsert
  <2>2. stmt' \in Seq(RowSpecs) /\ planned_keys' \in Seq(Keys) /\ seen' \in Seq(Keys \cup {NoKey})
    BY <2>1
  <2>3. Len(stmt') <= MAX_INSERT_ROWS /\ row' \in Nat \ {0} /\ max_key' \in Keys \cup {NoKey}
    BY <2>1, StatementsAssumption
  <2>4. /\ pc' \in {"idle", "check", "insert", "commit"} /\ pc' \notin {"check", "insert"}
        /\ reply' \in {"ok", "wrong value count", "validation failed", "duplicate key",
                      "record not found", "column not found", "primary key"}
    BY <1>2
  <2>5. QED
    BY <1>2, <2>2, <2>3, <2>4 DEF TypeOK
<1>3. CASE RefuseRow
  BY <1>2, <1>3 DEF TypeOK, RefuseRow, RowCheck, table
<1>4. CASE PlanRow
  <2>1. RowKey(stmt[row], max_key) \in Keys /\ MaxWith(stmt[row], max_key) \in Keys
    BY <1>4, AtRow, KeyTypes DEF TypeOK, PlanRow
  <2>2. planned_keys' \in Seq(Keys) /\ seen' \in Seq(Keys \cup {NoKey})
    <3>1. planned_keys \in Seq(Keys) /\ seen \in Seq(Keys \cup {NoKey}) /\ max_key \in Keys \cup {NoKey}
      BY DEF TypeOK
    <3>2. planned_keys' = Append(planned_keys, RowKey(stmt[row], max_key))
          /\ seen' = Append(seen, max_key)
      BY <1>4 DEF PlanRow
    <3>3. QED
      BY <2>1, <3>1, <3>2
  <2>3. max_key' \in Keys \cup {NoKey} /\ pc' \in {"check", "insert"}
    BY <1>4, <2>1 DEF PlanRow
  <2>4. row' \in Nat \ {0} /\ row' <= Len(stmt)
    BY <1>4, AtRow DEF PlanRow
  <2>5. QED
    BY <1>4, <2>2, <2>3, <2>4 DEF TypeOK, PlanRow, table
<1>5. CASE InsertRow
  <2> DEFINE key == RowKey(stmt[row], max_key)
  <2>1. key \in Keys /\ MaxWith(stmt[row], max_key) \in Keys
    BY <1>5, AtRow, KeyTypes DEF TypeOK, InsertRow
  <2>2. stmt[row].value \in Values
    BY <1>5, AtRow DEF InsertRow, Inserting, Planned, PlannedRow
  <2>3. rows' \in Tables /\ stored' \in Tables
    <3>1. rows' = rows \/ rows' = Put(key, stmt[row].value)
      BY <1>5 DEF InsertRow
    <3>2. rows \in Tables /\ stored \in Tables /\ stored' = stored
      BY <1>5 DEF TypeOK, InsertRow
    <3>3. Put(key, stmt[row].value) \in Tables
      BY <2>1, <2>2, <3>2, PutTable
    <3>4. QED
      BY <3>1, <3>2, <3>3
  <2>4. CASE EndInsert /\ pc' \in {"idle", "commit"} /\ reply' \in {"ok", "duplicate key"}
    BY <1>2, <2>3, <2>4
  <2>5. CASE /\ row # Len(stmt) /\ row' = row + 1 /\ max_key' = MaxWith(stmt[row], max_key)
             /\ UNCHANGED <<pc, stmt, planned_keys, seen, reply>>
    <3>1. row' \in Nat \ {0} /\ row' <= Len(stmt)
      BY <1>5, <2>5, AtRow DEF InsertRow
    <3>2. QED
      BY <2>1, <2>3, <2>5, <3>1 DEF TypeOK
  <2>6. QED
    BY <1>5, <2>4, <2>5 DEF InsertRow
<1>6. CASE execute_delete
  <2>1. PICK key \in Keys : rows' = Without(key) \/ rows' = rows
    BY <1>6 DEF execute_delete
  <2>2. DOMAIN rows \subseteq Keys /\ rows \in [DOMAIN rows -> Values]
    BY TableParts DEF TypeOK
  <2>3. Without(key) \in [DOMAIN rows \ {key} -> Values] /\ DOMAIN rows \ {key} \in SUBSET Keys
    BY <2>2 DEF Without
  <2>4. rows' \in Tables
    BY <2>1, <2>3, TableOf DEF TypeOK
  <2>5. QED
    BY <1>6, <2>4 DEF TypeOK, execute_delete, insert
<1>7. CASE execute_update
  <2>1. PICK column \in {"unknown", "id", "value"}, key \in Keys,
             value \in Values \cup {Wrong} :
          /\ reply' = UpdateCheck(column, key, value)
          /\ IF reply' = "ok"
             THEN rows' = [rows EXCEPT ![key] = value] /\ pc' = "commit"
             ELSE rows' = rows /\ pc' = pc
    BY <1>7 DEF execute_update
  <2>2. DOMAIN rows \in SUBSET Keys /\ rows \in [DOMAIN rows -> Values]
    BY TableParts DEF TypeOK
  <2>3. reply' = "ok" => value \in Values
    BY <2>1 DEF UpdateCheck
  <2>4. rows' \in [DOMAIN rows -> Values]
    BY <2>1, <2>2, <2>3
  <2>5. rows' \in Tables
    BY <2>2, <2>4, TableOf
  <2>6. QED
    BY <1>7, <2>1, <2>5 DEF TypeOK, execute_update, UpdateCheck, insert
<1>8. CASE Commit
  BY <1>8 DEF TypeOK, Commit, insert
<1>9. CASE Crash
  BY <1>2, <1>9 DEF TypeOK, Crash
<1>10. CASE UNCHANGED vars
  BY <1>10 DEF TypeOK, vars, table, insert
<1>11. QED
  BY <1>1, <1>3, <1>4, <1>5, <1>6, <1>7, <1>8, <1>9, <1>10 DEF Next

-----------------------------------------------------------------------------
(* Largest keys. *)

\* find_table_max_key has one result.
LEMMA LargestUnique ==
  ASSUME NEW S \in SUBSET Keys, NEW m \in Keys \cup {NoKey}, NEW n \in Keys \cup {NoKey},
         LargestOf(S, m), LargestOf(S, n)
  PROVE  m = n
<1>1. CASE S = {}
  BY <1>1 DEF LargestOf
<1>2. CASE S # {}
  <2>1. m \in S /\ n \in S /\ n <= m /\ m <= n
    BY <1>2 DEF LargestOf
  <2>2. m \in Nat /\ n \in Nat
    BY <2>1 DEF Keys
  <2>3. QED
    BY <2>1, <2>2
<1>3. QED
  BY <1>1, <1>2

\* Adding a row keeps account of the largest key, unless it is the last there is.
LEMMA LargestGrows ==
  ASSUME NEW S \in SUBSET Keys, NEW max \in Keys \cup {NoKey}, NEW spec \in RowSpecs,
         LargestOf(S, max), TOP_KEY \notin S
  PROVE  LargestOf(S \cup {RowKey(spec, max)}, MaxWith(spec, max))
<1> DEFINE key == RowKey(spec, max)
<1>1. key \in Keys
  BY KeyTypes
<1>2. CASE S = {}
  <2>1. max = NoKey
    BY <1>2 DEF LargestOf
  <2>2. MaxWith(spec, max) = key
    BY <2>1 DEF MaxWith
  <2>3. QED
    BY <1>1, <1>2, <2>2 DEF LargestOf, Keys
<1>3. CASE S # {}
  <2>1. max \in S /\ max \in Keys /\ max # NoKey /\ max # TOP_KEY /\ \A j \in S : j <= max
    BY <1>3, StatementsAssumption DEF LargestOf
  <2>2. S \subseteq Nat /\ max \in Nat /\ key \in Nat
    BY <1>1, <2>1 DEF Keys
  <2>3. CASE spec.id = Null
    <3>1. key = max + 1 /\ MaxWith(spec, max) = key
      BY <2>1, <2>3 DEF RowKey, KeyAfter, MaxWith
    <3>2. \A j \in S \cup {key} : j <= key
      BY <2>1, <2>2, <3>1
    <3>3. QED
      BY <3>1, <3>2 DEF LargestOf
  <2>4. CASE spec.id # Null
    <3>1. key = spec.id /\ MaxWith(spec, max) = IF key > max THEN key ELSE max
      BY <2>1, <2>4 DEF RowKey, MaxWith
    <3>2. \A j \in S \cup {key} : j <= MaxWith(spec, max)
      BY <2>1, <2>2, <3>1
    <3>3. MaxWith(spec, max) \in S \cup {key}
      BY <2>1, <3>1
    <3>4. QED
      BY <3>2, <3>3 DEF LargestOf
  <2>5. QED
    BY <2>3, <2>4
<1>4. QED
  BY <1>2, <1>3

\* Appending to a sequence.
LEMMA AppendFacts ==
  ASSUME NEW S, NEW s \in Seq(S), NEW e \in S
  PROVE  /\ Len(s) \in Nat /\ DOMAIN s = 1 .. Len(s)
         /\ Len(Append(s, e)) = Len(s) + 1
         /\ Append(s, e)[Len(s) + 1] = e
         /\ \A i \in 1 .. Len(s) : Append(s, e)[i] = s[i]
  OBVIOUS

-----------------------------------------------------------------------------
(* The plan. *)

\* The types of a plan and of the row that is next.
LEMMA PlanTypes ==
  ASSUME TypeOK
  PROVE  /\ Len(seen) \in Nat /\ Len(planned_keys) \in Nat /\ Len(stmt) \in Nat
         /\ DOMAIN planned_keys = 1 .. Len(planned_keys)
         /\ \A i \in 1 .. Len(seen) : seen[i] \in Keys \cup {NoKey}
         /\ \A i \in 1 .. Len(planned_keys) : planned_keys[i] \in Keys
         /\ DOMAIN stored \subseteq Keys /\ DOMAIN rows \subseteq Keys
         /\ max_key \in Keys \cup {NoKey} /\ row \in Nat
<1>1. stored \in Tables /\ rows \in Tables
  BY DEF TypeOK
<1>2. DOMAIN stored \subseteq Keys /\ DOMAIN rows \subseteq Keys
  BY <1>1, TableParts
<1>3. /\ planned_keys \in Seq(Keys) /\ seen \in Seq(Keys \cup {NoKey}) /\ stmt \in Seq(RowSpecs)
      /\ max_key \in Keys \cup {NoKey} /\ row \in Nat
  BY DEF TypeOK
<1>4. QED
  BY <1>2, <1>3

\* The second pass gives a row the id of the first.
LEMMA PassesAgreeLemma ==
  ASSUME StatementsInv
  PROVE  PassesAgree
<1> SUFFICES ASSUME pc = "insert"
             PROVE  /\ RowKey(stmt[row], max_key) = planned_keys[row]
                    /\ planned_keys[row] \notin DOMAIN rows
  BY DEF PassesAgree
<1>1. row \in 1 .. Len(seen) /\ max_key = seen[row] /\ DOMAIN rows = KeysBefore(row)
  BY AtRow DEF StatementsInv, Inserting
<1>2. PlannedRow(row)
  BY <1>1 DEF StatementsInv, Planned
<1>3. QED
  BY <1>1, <1>2 DEF PlannedRow, KeysBefore

\* With no insert under way there is no plan.
LEMMA NoPlan ==
  ASSUME stmt' = <<>>, row' = 1, planned_keys' = <<>>, seen' = <<>>,
         pc' \in {"idle", "commit"}
  PROVE  Planned' /\ Above' /\ Checking' /\ Inserting' /\ Resting'
<1>1. Len(seen') = 0 /\ Len(planned_keys') = 0 /\ Len(stmt') = 0
  OBVIOUS
<1>2. QED
  BY <1>1 DEF Planned, Above, Checking, Inserting, Resting

\* The start of an insert keeps the invariant: nothing is planned.
LEMMA PlanStartStep ==
  ASSUME StatementsInv, StartInsert
  PROVE  Planned' /\ Above' /\ Checking' /\ Inserting' /\ Resting' /\ RefusedLeavesNothing'
<1>1. PICK n \in 1 .. MAX_INSERT_ROWS : stmt' \in [1 .. n -> RowSpecs]
  BY DEF StartInsert
<1>2. Len(stmt') = n /\ n \in Nat
  BY <1>1, StatementsAssumption
<1>3. /\ pc' = "check" /\ row' = 1 /\ planned_keys' = <<>> /\ seen' = <<>>
      /\ rows' = rows /\ stored' = stored /\ rows = stored
      /\ LargestOf(DOMAIN rows, max_key')
  BY DEF StatementsInv, RefusedLeavesNothing, StartInsert, find_table_max_key, LargestOf, table
<1>4. Len(seen') = 0 /\ Len(planned_keys') = 0
  BY <1>3
<1>5. KeysBefore(1)' = DOMAIN stored
  BY <1>3 DEF KeysBefore
<1>6. Planned' /\ Resting' /\ RefusedLeavesNothing' /\ Inserting'
  BY <1>2, <1>3, <1>4 DEF Planned, Resting, RefusedLeavesNothing, Inserting
<1>7. Checking' /\ Above'
  BY <1>3, <1>4, <1>5 DEF Checking, Above
<1>8. QED
  BY <1>6, <1>7

\* What planning a row adds to the plan.
LEMMA PlanGrows ==
  ASSUME StatementsInv, PlanRow
  PROVE  /\ row \in Nat \ {0} /\ Len(seen) = row - 1 /\ Len(planned_keys) = row - 1
         /\ Len(seen') = row /\ Len(planned_keys') = row
         /\ seen'[row] = max_key /\ planned_keys'[row] = RowKey(stmt[row], max_key)
         /\ \A i \in 1 .. row - 1 : seen'[i] = seen[i] /\ planned_keys'[i] = planned_keys[i]
         /\ rows = stored /\ UNCHANGED <<rows, stored, stmt>>
         /\ row \in 1 .. Len(stmt) /\ stmt[row] \in RowSpecs /\ stmt[row].value \in Values
         /\ ~DuplicateKey(RowKey(stmt[row], max_key))
         /\ max_key \in Keys \cup {NoKey}
<1>1. /\ row \in 1 .. Len(stmt) /\ Len(stmt) \in Nat /\ row \in Nat /\ stmt[row] \in RowSpecs
  BY AtRow DEF StatementsInv, PlanRow
<1>2. max_key \in Keys \cup {NoKey} /\ RowKey(stmt[row], max_key) \in Keys
  BY <1>1, KeyTypes, PlanTypes DEF StatementsInv
<1>3. Len(seen) = row - 1 /\ Len(planned_keys) = row - 1 /\ rows = stored
  BY DEF StatementsInv, Planned, Checking, PlanRow
<1>4. planned_keys \in Seq(Keys) /\ seen \in Seq(Keys \cup {NoKey})
  BY DEF StatementsInv, TypeOK
<1>5. /\ planned_keys' = Append(planned_keys, RowKey(stmt[row], max_key))
      /\ seen' = Append(seen, max_key)
      /\ UNCHANGED <<rows, stored, stmt>>
  BY DEF PlanRow, table
<1>6. stmt[row].value \in Values /\ ~DuplicateKey(RowKey(stmt[row], max_key))
  BY <1>1, Checked DEF PlanRow
<1>7. /\ Len(planned_keys') = row /\ planned_keys'[row] = RowKey(stmt[row], max_key)
      /\ \A i \in 1 .. row - 1 : planned_keys'[i] = planned_keys[i]
  BY <1>1, <1>2, <1>3, <1>4, <1>5, AppendFacts
<1>8. /\ Len(seen') = row /\ seen'[row] = max_key
      /\ \A i \in 1 .. row - 1 : seen'[i] = seen[i]
  BY <1>1, <1>2, <1>3, <1>4, <1>5, AppendFacts
<1>9. QED
  BY <1>1, <1>2, <1>3, <1>5, <1>6, <1>7, <1>8

\* The keys before a row, when it is planned.
LEMMA KeysBeforeGrow ==
  ASSUME StatementsInv, PlanRow
  PROVE  /\ \A i \in 1 .. row : KeysBefore(i)' = KeysBefore(i)
         /\ \A i : i = row + 1 =>
              KeysBefore(i)' = KeysBefore(row) \cup {RowKey(stmt[row], max_key)}
<1>1. \A i \in 1 .. row : KeysBefore(i)' = KeysBefore(i)
  BY PlanGrows DEF KeysBefore
<1>2. ASSUME NEW i, i = row + 1
      PROVE  KeysBefore(i)' = KeysBefore(row) \cup {RowKey(stmt[row], max_key)}
  <2>1. 1 .. i - 1 = (1 .. row - 1) \cup {row}
    BY <1>2, PlanGrows
  <2>2. {planned_keys'[j] : j \in 1 .. i - 1} =
          {planned_keys[j] : j \in 1 .. row - 1} \cup {planned_keys'[row]}
    <3>1. \A j \in 1 .. row - 1 : planned_keys'[j] = planned_keys[j]
      BY PlanGrows
    <3>2. QED
      BY <2>1, <3>1
  <2>3. QED
    BY <2>2, PlanGrows DEF KeysBefore
<1>3. QED
  BY <1>1, <1>2

\* A row that is let through extends the plan.
LEMMA PlannedGrows ==
  ASSUME StatementsInv, PlanRow
  PROVE  Planned'
<1>1. Len(planned_keys') = Len(seen') /\ Len(seen') <= Len(stmt')
  BY PlanGrows
<1>2. \A i \in 1 .. row - 1 : PlannedRow(i)'
  <2>1. \A i \in 1 .. row - 1 : PlannedRow(i)
    BY PlanGrows DEF StatementsInv, Planned
  <2>2. \A i \in 1 .. row - 1 : \A j \in 1 .. i - 1 : j \in 1 .. row - 1
    BY PlanGrows
  <2>3. QED
    BY <2>1, <2>2, PlanGrows DEF PlannedRow
<1>3. ASSUME NEW i, i = row
      PROVE  PlannedRow(i)'
  <2>1. RowKey(stmt[row], max_key) \notin DOMAIN rows
    BY PlanGrows DEF DuplicateKey
  <2>2. \A j \in 1 .. row - 1 : planned_keys[j] # RowKey(stmt[row], max_key)
    BY PlanGrows, PlanTypes DEF DuplicateKey, StatementsInv
  <2>3. QED
    BY <1>3, <2>1, <2>2, PlanGrows DEF PlannedRow
<1>4. \A i \in 1 .. Len(seen') : PlannedRow(i)'
  <2>1. \A i \in 1 .. Len(seen') : i \in 1 .. row - 1 \/ i = row
    BY PlanGrows
  <2>2. QED
    BY <1>2, <1>3, <2>1
<1>5. ASSUME NEW i \in 1 .. Len(seen'), i > 1
      PROVE  seen'[i] = MaxWith(stmt'[i - 1], seen'[i - 1])
  <2>1. CASE i = row
    <3>1. max_key = MaxWith(stmt[row - 1], seen[row - 1])
      BY <1>5, <2>1 DEF StatementsInv, Checking, PlanRow
    <3>2. row - 1 \in 1 .. row - 1
      BY <1>5, <2>1, PlanGrows
    <3>3. QED
      BY <2>1, <3>1, <3>2, PlanGrows
  <2>2. CASE i # row
    <3>1. i \in 1 .. row - 1 /\ i - 1 \in 1 .. row - 1 /\ i \in 1 .. Len(seen)
      BY <1>5, <2>2, PlanGrows
    <3>2. seen[i] = MaxWith(stmt[i - 1], seen[i - 1])
      BY <1>5, <3>1 DEF StatementsInv, Planned
    <3>3. QED
      BY <3>1, <3>2, PlanGrows
  <2>3. QED
    BY <2>1, <2>2
<1>6. LargestOf(DOMAIN stored', seen'[1])
  <2>1. CASE row = 1
    BY <2>1, PlanGrows DEF StatementsInv, Checking, PlanRow
  <2>2. CASE row # 1
    <3>1. 1 \in 1 .. row - 1 /\ Len(seen) >= 1
      BY <2>2, PlanGrows
    <3>2. QED
      BY <3>1, PlanGrows DEF StatementsInv, Planned
  <2>3. QED
    BY <2>1, <2>2
<1>7. QED
  BY <1>1, <1>4, <1>5, <1>6 DEF Planned

\* ... and the largest key stays the largest.
LEMMA AboveGrows ==
  ASSUME StatementsInv, PlanRow
  PROVE  Above'
<1>1. TOP_KEY \notin KeysBefore(row) => LargestOf(KeysBefore(row), max_key)
  BY DEF StatementsInv, Above, PlanRow
<1>2. ASSUME NEW i \in 1 .. Len(seen'), TOP_KEY \notin KeysBefore(i)'
      PROVE  LargestOf(KeysBefore(i)', seen'[i])
  <2>1. CASE i = row
    BY <1>1, <1>2, <2>1, KeysBeforeGrow, PlanGrows
  <2>2. CASE i # row
    <3>1. i \in 1 .. row - 1 /\ i \in 1 .. row /\ i \in 1 .. Len(seen)
      BY <2>2, PlanGrows
    <3>2. TOP_KEY \notin KeysBefore(i) => LargestOf(KeysBefore(i), seen[i])
      BY <3>1 DEF StatementsInv, Above
    <3>3. QED
      BY <1>2, <3>1, <3>2, KeysBeforeGrow, PlanGrows
  <2>3. QED
    BY <2>1, <2>2
<1>3. ASSUME pc' = "check", TOP_KEY \notin KeysBefore(row)'
      PROVE  LargestOf(KeysBefore(row), max_key)'
  <2>1. row' = row + 1 /\ max_key' = MaxWith(stmt[row], max_key)
    BY <1>3 DEF PlanRow
  <2>2. KeysBefore(row)' = KeysBefore(row) \cup {RowKey(stmt[row], max_key)}
    <3>1. \A i : i = row' => KeysBefore(row)' = KeysBefore(i)'
      BY DEF KeysBefore
    <3>2. QED
      BY <2>1, <3>1, KeysBeforeGrow
  <2>3. KeysBefore(row) \in SUBSET Keys
    BY PlanTypes, PlanGrows DEF KeysBefore, StatementsInv
  <2>4. TOP_KEY \notin KeysBefore(row)
    BY <1>3, <2>2
  <2>5. LargestOf(KeysBefore(row) \cup {RowKey(stmt[row], max_key)}, MaxWith(stmt[row], max_key))
    BY <1>1, <2>3, <2>4, LargestGrows, PlanGrows
  <2>6. QED
    BY <2>1, <2>2, <2>5 DEF LargestOf
<1>4. QED
  BY <1>2, <1>3 DEF Above

\* The first pass keeps the invariant.
LEMMA PlanRowStep ==
  ASSUME StatementsInv, TypeOK', PlanRow
  PROVE  Planned' /\ Above' /\ Checking' /\ Inserting' /\ Resting' /\ RefusedLeavesNothing'
<1>1. Planned' /\ Above'
  BY PlannedGrows, AboveGrows
<1>2. CASE row < Len(stmt)
  <2>1. row' = row + 1 /\ max_key' = MaxWith(stmt[row], max_key) /\ pc' = "check"
    BY <1>2 DEF PlanRow
  <2>2. row' > 1 /\ row' # 1 /\ row' - 1 = row
    BY <2>1, PlanGrows
  <2>3. Checking'
    BY <2>1, <2>2, PlanGrows DEF Checking
  <2>4. QED
    BY <1>1, <2>1, <2>3 DEF Inserting, Resting, RefusedLeavesNothing
<1>3. CASE ~(row < Len(stmt))
  <2>1. row' = 1 /\ pc' = "insert" /\ find_table_max_key(max_key')
    BY <1>3 DEF PlanRow, SecondMax
  <2>2. Len(seen') = Len(stmt')
    <3>1. row \in 1 .. Len(stmt) /\ Len(stmt) \in Nat
      BY AtRow DEF StatementsInv, PlanRow
    <3>2. row = Len(stmt)
      BY <1>3, <3>1
    <3>3. QED
      BY <3>2, PlanGrows
  <2>3. max_key' = seen'[1]
    <3>1. LargestOf(DOMAIN stored, max_key')
      BY <2>1, PlanGrows DEF find_table_max_key, LargestOf
    <3>2. LargestOf(DOMAIN stored, seen'[1])
      BY <1>1, PlanGrows DEF Planned
    <3>3. seen'[1] \in Keys \cup {NoKey} /\ max_key' \in Keys \cup {NoKey}
      <4>1. seen' \in Seq(Keys \cup {NoKey}) /\ max_key' \in Keys \cup {NoKey}
        BY DEF TypeOK
      <4>2. 1 \in 1 .. Len(seen')
        BY PlanGrows
      <4>3. QED
        BY <4>1, <4>2
    <3>4. DOMAIN stored \in SUBSET Keys
      BY PlanTypes DEF StatementsInv
    <3>5. QED
      BY <3>1, <3>2, <3>3, <3>4, LargestUnique
  <2>4. KeysBefore(row)' = DOMAIN rows' /\ \A j \in 1 .. row' - 1 : FALSE
    <3>1. 1 .. row' - 1 = {}
      BY <2>1
    <3>2. rows' = stored'
      BY PlanGrows
    <3>3. QED
      BY <3>1, <3>2 DEF KeysBefore
  <2>5. Inserting'
    BY <2>1, <2>2, <2>3, <2>4, PlanGrows DEF Inserting
  <2>6. QED
    BY <1>1, <2>1, <2>5 DEF Checking, Resting, RefusedLeavesNothing
<1>4. QED
  BY <1>2, <1>3

-----------------------------------------------------------------------------
(* The second pass and the other statements. *)

\* The keys before the next row are one more.
LEMMA KeysBeforeNext ==
  ASSUME StatementsInv, pc = "insert"
  PROVE  KeysBefore(row + 1) = KeysBefore(row) \cup {planned_keys[row]}
<1>1. row \in Nat /\ row >= 1
  BY AtRow DEF StatementsInv
<1>2. 1 .. (row + 1) - 1 = (1 .. row - 1) \cup {row}
  BY <1>1
<1>3. QED
  BY <1>2 DEF KeysBefore

\* The second pass keeps the invariant: it inserts what is planned.
LEMMA InsertRowStep ==
  ASSUME StatementsInv, InsertRow
  PROVE  Planned' /\ Above' /\ Checking' /\ Inserting' /\ Resting' /\ RefusedLeavesNothing'
<1> DEFINE key == RowKey(stmt[row], max_key)
<1>1. key = planned_keys[row] /\ key \notin DOMAIN rows
  BY PassesAgreeLemma DEF PassesAgree, InsertRow
<1>2. /\ row \in 1 .. Len(stmt) /\ row \in Nat /\ Len(stmt) \in Nat
      /\ Len(seen) = Len(stmt) /\ Len(planned_keys) = Len(stmt) /\ max_key = seen[row]
      /\ DOMAIN rows = KeysBefore(row) /\ PlannedRow(row)
  BY AtRow DEF StatementsInv, Planned, Inserting, InsertRow
<1>3. rows' = Put(key, stmt[row].value) /\ stored' = stored
  BY <1>1 DEF InsertRow
<1>4. CASE row = Len(stmt)
  <2>1. EndInsert /\ pc' = "commit"
    BY <1>1, <1>4 DEF InsertRow
  <2>2. QED
    BY <2>1, NoPlan DEF EndInsert, RefusedLeavesNothing
<1>5. CASE row # Len(stmt)
  <2>1. /\ row' = row + 1 /\ max_key' = MaxWith(stmt[row], max_key) /\ pc' = "insert"
        /\ UNCHANGED <<stmt, planned_keys, seen>>
    BY <1>1, <1>5 DEF InsertRow
  <2>2. Planned'
    BY <1>3, <2>1 DEF StatementsInv, Planned, PlannedRow
  <2>3. Above'
    <3>1. \A i \in 1 .. Len(seen) : KeysBefore(i)' = KeysBefore(i)
      BY <1>3, <2>1 DEF KeysBefore
    <3>2. QED
      BY <2>1, <3>1 DEF StatementsInv, Above
  <2>4. max_key' = seen'[row']
    <3>1. row + 1 \in 1 .. Len(seen) /\ row + 1 > 1 /\ (row + 1) - 1 = row
      BY <1>2, <1>5
    <3>2. seen[row + 1] = MaxWith(stmt[(row + 1) - 1], seen[(row + 1) - 1])
      BY <3>1 DEF StatementsInv, Planned
    <3>3. QED
      BY <1>2, <2>1, <3>1, <3>2
  <2>5. /\ DOMAIN rows' = DOMAIN rows \cup {key} /\ rows'[key] = stmt[row].value
        /\ \A k \in DOMAIN rows : k # key => rows'[k] = rows[k]
    BY <1>3 DEF Put
  <2>6. DOMAIN rows' = KeysBefore(row)'
    <3>1. KeysBefore(row + 1) = KeysBefore(row) \cup {planned_keys[row]}
      BY KeysBeforeNext DEF InsertRow
    <3>2. KeysBefore(row)' = KeysBefore(row + 1)
      BY <1>3, <2>1 DEF KeysBefore
    <3>3. QED
      BY <1>1, <1>2, <2>5, <3>1, <3>2
  <2>7. \A k \in DOMAIN stored : rows'[k] = stored[k]
    <3>1. \A k \in DOMAIN stored : k \in DOMAIN rows /\ k # key /\ rows[k] = stored[k]
      BY <1>1, <1>2 DEF StatementsInv, Inserting, InsertRow, KeysBefore, PlannedRow
    <3>2. QED
      BY <2>5, <3>1
  <2>8. \A j \in 1 .. row : rows'[planned_keys[j]] = stmt[j].value
    <3>1. \A j \in 1 .. row : j \in 1 .. row - 1 \/ j = row
      BY <1>2
    <3>2. \A j \in 1 .. row - 1 : /\ planned_keys[j] \in DOMAIN rows /\ planned_keys[j] # key
                                /\ rows[planned_keys[j]] = stmt[j].value
      BY <1>1, <1>2 DEF StatementsInv, Inserting, InsertRow, KeysBefore
    <3>3. QED
      BY <1>1, <2>5, <3>1, <3>2
  <2>9. row' - 1 = row
    BY <1>2, <2>1
  <2>10. Inserting'
    BY <1>2, <1>3, <2>1, <2>4, <2>6, <2>7, <2>8, <2>9 DEF Inserting
  <2>11. QED
    BY <2>1, <2>2, <2>3, <2>10 DEF Checking, Resting, RefusedLeavesNothing
<1>6. QED
  BY <1>4, <1>5

\* The invariant holds of an empty table.
LEMMA InitStatements == Init => StatementsInv
<1> SUFFICES ASSUME Init
             PROVE  StatementsInv
  OBVIOUS
<1>1. Len(stmt) = 0 /\ Len(planned_keys) = 0 /\ Len(seen) = 0
  BY DEF Init
<1>2. rows \in Tables /\ stored \in Tables
  <2>1. rows \in [{} -> Values] /\ {} \in SUBSET Keys
    BY DEF Init
  <2>2. QED
    BY <2>1, TableOf DEF Init
<1>3. stmt \in Seq(RowSpecs) /\ planned_keys \in Seq(Keys) /\ seen \in Seq(Keys \cup {NoKey})
  BY DEF Init
<1>4. TypeOK
  BY <1>1, <1>2, <1>3, StatementsAssumption DEF Init, TypeOK
<1>5. Planned /\ Above /\ Checking /\ Inserting /\ Resting /\ RefusedLeavesNothing
  BY <1>1 DEF Init, Planned, Above, Checking, Inserting, Resting, RefusedLeavesNothing
<1>6. QED
  BY <1>4, <1>5 DEF StatementsInv

\* The invariant is inductive.
LEMMA NextStatements == StatementsInv /\ [Next]_vars => StatementsInv'
<1> SUFFICES ASSUME StatementsInv, [Next]_vars
             PROVE  StatementsInv'
  OBVIOUS
<1>1. TypeOK'
  BY TypesStep DEF StatementsInv
<1>2. CASE StartInsert
  BY <1>1, <1>2, PlanStartStep DEF StatementsInv
<1>3. CASE PlanRow
  BY <1>1, <1>3, PlanRowStep DEF StatementsInv
<1>4. CASE InsertRow
  BY <1>1, <1>4, InsertRowStep DEF StatementsInv
<1>5. CASE RefuseRow
  <2>1. rows' = stored' /\ pc' = "idle"
    BY <1>5 DEF StatementsInv, Checking, RefuseRow, table
  <2>2. QED
    BY <1>1, <1>5, <2>1, NoPlan DEF StatementsInv, RefuseRow, EndInsert, RefusedLeavesNothing
<1>6. CASE Crash
  BY <1>1, <1>6, NoPlan DEF StatementsInv, Crash, EndInsert, RefusedLeavesNothing
<1>7. CASE execute_delete \/ execute_update \/ Commit
  <2>1. /\ stmt' = <<>> /\ row' = 1 /\ planned_keys' = <<>> /\ seen' = <<>>
    BY <1>7 DEF StatementsInv, Resting, execute_delete, execute_update, Commit, insert
  <2>2. pc' \in {"idle", "commit"} /\ (pc' = "idle" => rows' = stored')
    BY <1>7 DEF StatementsInv, RefusedLeavesNothing, execute_delete, execute_update, Commit
  <2>3. QED
    BY <1>1, <2>1, <2>2, NoPlan DEF StatementsInv, RefusedLeavesNothing
<1>8. CASE UNCHANGED vars
  <2>1. UNCHANGED <<rows, stored, pc, stmt, row, max_key, planned_keys, seen>>
    BY <1>8 DEF vars, table, insert
  <2>2. Planned'
    BY <2>1 DEF StatementsInv, Planned, PlannedRow
  <2>3. Above'
    BY <2>1 DEF StatementsInv, Above, KeysBefore
  <2>4. Checking' /\ Inserting'
    BY <2>1 DEF StatementsInv, Checking, Inserting, KeysBefore
  <2>5. Resting' /\ RefusedLeavesNothing'
    BY <2>1 DEF StatementsInv, Resting, RefusedLeavesNothing
  <2>6. QED
    BY <1>1, <2>2, <2>3, <2>4, <2>5 DEF StatementsInv
<1>9. QED
  BY <1>2, <1>3, <1>4, <1>5, <1>6, <1>7, <1>8 DEF Next

\* The invariant holds in every behaviour.
LEMMA SpecStatements == Spec => []StatementsInv
  BY InitStatements, NextStatements, PTL DEF Spec

-----------------------------------------------------------------------------
(* Theorems. *)

\* Type correctness; an insert never looks at a row that it has not.
THEOREM StatementsTypes == Spec => []TypeOK
<1>1. StatementsInv => TypeOK
  BY DEF StatementsInv
<1>2. QED
  BY <1>1, SpecStatements, PTL

\* Both passes of an insert agree on every id, up to the largest key and past it.
THEOREM PassesAlwaysAgree == Spec => []PassesAgree
<1>1. StatementsInv => PassesAgree
  BY PassesAgreeLemma
<1>2. QED
  BY <1>1, SpecStatements, PTL

\* A refused statement leaves nothing behind.
THEOREM RefusalsLeaveNothing == Spec => []RefusedLeavesNothing
<1>1. StatementsInv => RefusedLeavesNothing
  BY DEF StatementsInv
<1>2. QED
  BY <1>1, SpecStatements, PTL

-----------------------------------------------------------------------------
(* Ids for an insert, if there are any, are the planned ones.  That there  *)
(* is an id for each row until the first that is refused cannot be shown   *)
(* by induction on the rows; it is carried along as an invariant instead.  *)

KeysOf(keys, i) == DOMAIN stored \cup {keys[j] : j \in 1 .. i - 1}

Admissible(keys) ==
  \A i \in 1 .. Len(stmt) :
    /\ TOP_KEY \notin KeysOf(keys, i) /\ keys[i] \notin KeysOf(keys, i)
    /\ stmt[i].id # Null => keys[i] = stmt[i].id
    /\ stmt[i].id = Null =>
         /\ \A k \in KeysOf(keys, i) : k < keys[i]
         /\ \E k \in KeysOf(keys, i) \cup {0} : keys[i] = k + 1

Forced ==
  pc = "check" =>
    \A keys \in [1 .. Len(stmt) -> Keys] :
      Admissible(keys) => \A i \in 1 .. row - 1 : keys[i] = planned_keys[i]

\* A row has one id only that the abstract insert may give it.
LEMMA ForcedRow ==
  ASSUME StatementsInv, Forced, pc = "check",
         NEW keys \in [1 .. Len(stmt) -> Keys], Admissible(keys)
  PROVE  keys[row] = RowKey(stmt[row], max_key) /\ keys[row] \notin KeysBefore(row)
<1>1. row \in 1 .. Len(stmt) /\ keys[row] \in Keys
  BY AtRow DEF StatementsInv
<1>2. \A i \in 1 .. row - 1 : keys[i] = planned_keys[i]
  BY DEF Forced
<1>3. KeysOf(keys, row) = KeysBefore(row)
  BY <1>2 DEF KeysOf, KeysBefore
<1>4. /\ TOP_KEY \notin KeysBefore(row) /\ keys[row] \notin KeysBefore(row)
      /\ stmt[row].id # Null => keys[row] = stmt[row].id
      /\ stmt[row].id = Null =>
           /\ \A k \in KeysBefore(row) : k < keys[row]
           /\ \E k \in KeysBefore(row) \cup {0} : keys[row] = k + 1
  BY <1>1, <1>3 DEF Admissible
<1>5. LargestOf(KeysBefore(row), max_key)
  BY <1>4 DEF StatementsInv, Above
<1>6. KeysBefore(row) \subseteq Nat /\ keys[row] \in Nat
  <2>1. \A j \in 1 .. row - 1 : planned_keys[j] \in Keys
    BY <1>1, <1>2
  <2>2. KeysBefore(row) \subseteq Keys
    BY <2>1, PlanTypes DEF KeysBefore, StatementsInv
  <2>3. QED
    BY <1>1, <2>2 DEF Keys
<1>7. CASE stmt[row].id = Null
  <2>1. PICK k \in KeysBefore(row) \cup {0} : keys[row] = k + 1
    BY <1>4, <1>7
  <2>2. CASE KeysBefore(row) = {}
    BY <1>5, <1>7, <2>1, <2>2 DEF LargestOf, RowKey, KeyAfter
  <2>3. CASE KeysBefore(row) # {}
    <3>1. /\ max_key \in KeysBefore(row) /\ \A j \in KeysBefore(row) : j <= max_key
      BY <1>5, <2>3 DEF LargestOf
    <3>2. max_key # NoKey /\ max_key # TOP_KEY /\ max_key \in Nat /\ max_key < keys[row]
      <4>1. max_key \in Keys
        BY <3>1, <1>2, <1>1, PlanTypes DEF KeysBefore, StatementsInv
      <4>2. QED
        BY <1>4, <1>6, <1>7, <3>1, <4>1, StatementsAssumption
    <3>3. keys[row] = max_key + 1
      <4>1. k <= max_key
        BY <1>6, <2>1, <3>1, <3>2
      <4>2. QED
        BY <1>6, <2>1, <3>2, <4>1
    <3>4. QED
      BY <1>4, <1>7, <3>2, <3>3 DEF RowKey, KeyAfter
  <2>4. QED
    BY <2>2, <2>3
<1>8. CASE stmt[row].id # Null
  BY <1>4, <1>8 DEF RowKey
<1>9. QED
  BY <1>4, <1>7, <1>8

\* Every step keeps the plan the only one there is.
LEMMA ForcedStep ==
  ASSUME StatementsInv, Forced, [Next]_vars
  PROVE  Forced'
<1>1. CASE StartInsert
  <2>1. 1 .. row' - 1 = {}
    BY <1>1 DEF StartInsert
  <2>2. QED
    BY <2>1 DEF Forced
<1>2. CASE PlanRow
  <2>a. stmt' = stmt /\ stored' = stored
    BY <1>2, PlanGrows
  <2>b. ASSUME NEW keys, Admissible(keys)'
        PROVE  Admissible(keys)
    BY <2>a, <2>b DEF Admissible, KeysOf
  <2> SUFFICES ASSUME pc' = "check",
                      NEW keys \in [1 .. Len(stmt) -> Keys], Admissible(keys)
               PROVE  \A i \in 1 .. row' - 1 : keys[i] = planned_keys'[i]
    BY <2>a, <2>b DEF Forced
  <2>1. row' = row + 1 /\ row \in Nat
    BY <1>2, PlanGrows DEF PlanRow
  <2>2. \A i \in 1 .. row' - 1 : i \in 1 .. row - 1 \/ i = row
    BY <2>1
  <2>3. keys[row] = planned_keys'[row]
    BY <1>2, ForcedRow, PlanGrows DEF PlanRow
  <2>4. \A i \in 1 .. row - 1 : keys[i] = planned_keys'[i]
    BY <1>2, PlanGrows DEF Forced, PlanRow
  <2>5. QED
    BY <2>2, <2>3, <2>4
<1>3. CASE RefuseRow \/ InsertRow \/ Crash \/ execute_delete \/ execute_update \/ Commit
  <2>1. pc' # "check"
    BY <1>3 DEF RefuseRow, InsertRow, Crash, execute_delete, execute_update, Commit
  <2>2. QED
    BY <2>1 DEF Forced
<1>4. CASE UNCHANGED vars
  BY <1>4 DEF Forced, Admissible, KeysOf, vars, table, insert
<1>5. QED
  BY <1>1, <1>2, <1>3, <1>4 DEF Next

\* The plan of the first pass is the only one in every behaviour.
LEMMA SpecForced == Spec => [](StatementsInv /\ Forced)
<1>1. Init => Forced
  BY DEF Init, Forced
<1>2. StatementsInv /\ Forced /\ [Next]_vars => Forced'
  BY ForcedStep
<1>3. QED
  BY <1>1, <1>2, SpecStatements, PTL DEF Spec

-----------------------------------------------------------------------------
(* Statements implement AtomicRows. *)

\* While rows are being put in, the settled ones are those that are committed.
LEMMA SettledRows ==
  ASSUME StatementsInv
  PROVE  Settled = IF pc = "insert" THEN stored ELSE rows
<1>1. /\ rows \in [DOMAIN rows -> Values] /\ stored \in [DOMAIN stored -> Values]
  BY TableParts DEF StatementsInv, TypeOK
<1>2. CASE pc # "insert"
  BY <1>1, <1>2 DEF Settled
<1>3. CASE pc = "insert"
  <2> DEFINE U == {planned_keys[j] : j \in 1 .. row - 1}
  <2>1. DOMAIN rows = DOMAIN stored \cup U /\ \A k \in DOMAIN stored : rows[k] = stored[k]
    BY <1>3 DEF StatementsInv, Inserting, KeysBefore
  <2>2. \A j \in 1 .. row - 1 : planned_keys[j] \notin DOMAIN stored
    <3>1. \A j \in 1 .. row - 1 : j \in 1 .. Len(seen)
      BY <1>3, AtRow DEF StatementsInv, Inserting
    <3>2. QED
      BY <3>1 DEF StatementsInv, Planned, PlannedRow
  <2>3. DOMAIN rows \ U = DOMAIN stored
    BY <2>1, <2>2
  <2>4. Settled = [k \in DOMAIN rows \ U |-> rows[k]]
    BY <1>3 DEF Settled
  <2> HIDE DEF U
  <2>5. QED
    BY <1>1, <1>3, <2>1, <2>3, <2>4
<1>4. QED
  BY <1>2, <1>3

\* The empty table maps to one of AtomicRows.
LEMMA InitAtomic == Init => Atomic!ARInit
<1> SUFFICES ASSUME Init
             PROVE  Atomic!ARInit
  OBVIOUS
<1>1. Settled = rows /\ rows = stored
  BY InitStatements, SettledRows DEF Init
<1>2. rows \in [{} -> Values] /\ {} \in SUBSET Atomic!Keys
  BY DEF Init
<1>3. QED
  BY <1>1, <1>2 DEF Init, Atomic!ARInit

\* What the rows of the abstract table are.
LEMMA SettledNow == StatementsInv => Settled = IF pc = "insert" THEN stored ELSE rows
  BY SettledRows

\* The same after a step.
LEMMA SettledNext == (StatementsInv => Settled = IF pc = "insert" THEN stored ELSE rows)'
  BY SettledNow, PTL

\* The planned ids are ids an insert may have.
LEMMA PlannedAssigned ==
  ASSUME StatementsInv, pc = "insert"
  PROVE  planned_keys \in Atomic!Assignments /\ Atomic!Assigned(planned_keys)
<1>1. /\ Len(seen) = Len(stmt) /\ Len(planned_keys) = Len(stmt) /\ Settled = stored
      /\ DOMAIN stmt = 1 .. Len(stmt)
  BY SettledRows, AtRow DEF StatementsInv, Planned, Inserting
<1>2. planned_keys \in Atomic!Assignments
  <2>1. planned_keys \in Seq(Keys)
    BY DEF StatementsInv, TypeOK
  <2>2. planned_keys \in [1 .. Len(planned_keys) -> Keys]
    BY <2>1
  <2>3. QED
    BY <1>1, <2>2 DEF Atomic!Assignments, Atomic!Keys, Keys
<1>3. ASSUME NEW i \in 1 .. Len(stmt)
      PROVE  /\ planned_keys[i] \notin Atomic!Before(planned_keys, i)
             /\ stmt[i].id # Null => planned_keys[i] = stmt[i].id
             /\ stmt[i].id = Null /\ TOP_KEY \notin Atomic!Before(planned_keys, i) =>
                  /\ \A k \in Atomic!Before(planned_keys, i) : k < planned_keys[i]
                  /\ \E k \in Atomic!Before(planned_keys, i) \cup {0} : planned_keys[i] = k + 1
  <2>1. Atomic!Before(planned_keys, i) = KeysBefore(i)
    BY <1>1 DEF Atomic!Before, KeysBefore
  <2>2. PlannedRow(i)
    BY <1>1 DEF StatementsInv, Planned
  <2>3. planned_keys[i] \notin KeysBefore(i)
    BY <2>2 DEF PlannedRow, KeysBefore
  <2>4. ASSUME stmt[i].id = Null, TOP_KEY \notin KeysBefore(i)
        PROVE  /\ \A k \in KeysBefore(i) : k < planned_keys[i]
               /\ \E k \in KeysBefore(i) \cup {0} : planned_keys[i] = k + 1
    <3>1. LargestOf(KeysBefore(i), seen[i])
      BY <1>1, <2>4 DEF StatementsInv, Above
    <3>2. planned_keys[i] = KeyAfter(seen[i])
      BY <2>2, <2>4 DEF PlannedRow, RowKey
    <3>3. KeysBefore(i) \subseteq Keys
      <4>1. \A j \in 1 .. i - 1 : j \in 1 .. Len(planned_keys)
        BY <1>1
      <4>2. QED
        BY <4>1, PlanTypes DEF KeysBefore, StatementsInv
    <3>4. CASE KeysBefore(i) = {}
      BY <3>1, <3>2, <3>4 DEF LargestOf, KeyAfter
    <3>5. CASE KeysBefore(i) # {}
      <4>1. seen[i] \in KeysBefore(i) /\ \A j \in KeysBefore(i) : j <= seen[i]
        BY <3>1, <3>5 DEF LargestOf
      <4>2. seen[i] # NoKey /\ seen[i] # TOP_KEY /\ KeysBefore(i) \subseteq Nat
        BY <2>4, <3>3, <4>1, StatementsAssumption DEF Keys
      <4>3. planned_keys[i] = seen[i] + 1
        BY <3>2, <4>2 DEF KeyAfter
      <4>4. QED
        BY <4>1, <4>2, <4>3
    <3>6. QED
      BY <3>4, <3>5
  <2>5. QED
    BY <2>1, <2>2, <2>3, <2>4 DEF PlannedRow, RowKey
<1>4. QED
  BY <1>1, <1>2, <1>3 DEF Atomic!Assigned

\* The second pass is a stutter until its last row, which is the whole insert.
LEMMA InsertRowAtomic ==
  ASSUME StatementsInv, StatementsInv', InsertRow
  PROVE  Atomic!InsertAll \/ UNCHANGED Atomic!arVars
<1> DEFINE key == RowKey(stmt[row], max_key)
<1>1. key = planned_keys[row] /\ key \notin DOMAIN rows
  BY PassesAgreeLemma DEF PassesAgree, InsertRow
<1>2. /\ row \in 1 .. Len(stmt) /\ row \in Nat /\ Len(stmt) \in Nat
      /\ DOMAIN stmt = 1 .. Len(stmt)
      /\ Len(seen) = Len(stmt) /\ DOMAIN rows = KeysBefore(row) /\ PlannedRow(row)
      /\ Settled = stored
  BY AtRow, SettledRows DEF StatementsInv, Planned, Inserting, InsertRow
<1>3. rows' = Put(key, stmt[row].value) /\ stored' = stored
  BY <1>1 DEF InsertRow
<1>4. CASE row = Len(stmt)
  <2>1. reply' = "ok" /\ Settled' = rows'
    <3>1. reply' = "ok" /\ pc' = "commit"
      BY <1>1, <1>4 DEF InsertRow
    <3>2. QED
      BY <3>1, SettledNext
  <2>2. /\ DOMAIN rows' = DOMAIN rows \cup {key} /\ rows'[key] = stmt[row].value
        /\ \A k \in DOMAIN rows : k # key => rows'[k] = rows[k]
    BY <1>3 DEF Put
  <2>3. DOMAIN rows' = DOMAIN stored \cup {planned_keys[i] : i \in DOMAIN stmt}
    <3>1. KeysBefore(row + 1) = KeysBefore(row) \cup {planned_keys[row]}
      BY KeysBeforeNext DEF InsertRow
    <3>2. (row + 1) - 1 = Len(stmt)
      BY <1>2, <1>4
    <3>3. KeysBefore(row + 1) = DOMAIN stored \cup {planned_keys[i] : i \in 1 .. Len(stmt)}
      BY <3>2 DEF KeysBefore
    <3>4. QED
      BY <1>1, <1>2, <2>2, <3>1, <3>3
  <2>4. \A k \in DOMAIN stored : rows'[k] = stored[k]
    <3>1. \A k \in DOMAIN stored : k \in DOMAIN rows /\ k # key /\ rows[k] = stored[k]
      BY <1>1, <1>2 DEF StatementsInv, Inserting, InsertRow, KeysBefore, PlannedRow
    <3>2. QED
      BY <2>2, <3>1
  <2>5. \A j \in DOMAIN stmt : rows'[planned_keys[j]] = stmt[j].value
    <3>1. \A j \in 1 .. Len(stmt) : j \in 1 .. row - 1 \/ j = row
      <4>1. row = Len(stmt) /\ row \in Nat
        BY <1>2, <1>4
      <4>2. QED
        BY <4>1
    <3>2. \A j \in 1 .. row - 1 : /\ planned_keys[j] \in DOMAIN rows /\ planned_keys[j] # key
                                /\ rows[planned_keys[j]] = stmt[j].value
      BY <1>1, <1>2 DEF StatementsInv, Inserting, InsertRow, KeysBefore
    <3>3. QED
      BY <1>1, <1>2, <2>2, <3>1, <3>2
  <2>6. planned_keys \in Atomic!Assignments /\ Atomic!Assigned(planned_keys)
    BY PlannedAssigned DEF InsertRow
  <2>7. QED
    BY <1>2, <1>3, <2>1, <2>3, <2>4, <2>5, <2>6 DEF Atomic!InsertAll
<1>5. CASE row # Len(stmt)
  <2>1. pc' = "insert" /\ UNCHANGED <<stmt, reply>>
    BY <1>1, <1>5 DEF InsertRow
  <2>2. Settled' = Settled
    BY <1>2, <1>3, <2>1, SettledNext
  <2>3. QED
    BY <1>3, <2>1, <2>2 DEF Atomic!arVars
<1>6. QED
  BY <1>4, <1>5

\* An insert is refused for a duplicate key only if it can have no ids.
LEMMA RefuseAtomic ==
  ASSUME StatementsInv, StatementsInv', Forced, RefuseRow
  PROVE  Atomic!Refuse
<1>1. /\ Settled = stored /\ rows = stored /\ Settled' = Settled /\ stored' = stored
      /\ row \in 1 .. Len(stmt) /\ DOMAIN stmt = 1 .. Len(stmt)
  <2>1. rows = stored /\ pc = "check" /\ pc' = "idle" /\ rows' = rows /\ stored' = stored
    BY DEF StatementsInv, Checking, RefuseRow, table
  <2>2. row \in 1 .. Len(stmt) /\ DOMAIN stmt = 1 .. Len(stmt)
    BY <2>1, AtRow DEF StatementsInv
  <2>3. QED
    BY <2>1, <2>2, SettledRows, SettledNext
<1>2. ASSUME reply' = "duplicate key", NEW keys \in Atomic!Assignments,
             Atomic!Assigned(keys),
             \A i \in DOMAIN stmt : TOP_KEY \notin Atomic!Before(keys, i)
      PROVE  FALSE
  <2>1. keys \in [1 .. Len(stmt) -> Keys]
    BY <1>1, <1>2 DEF Atomic!Assignments, Atomic!Keys, Keys
  <2>2. \A i : Atomic!Before(keys, i) = KeysOf(keys, i)
    BY <1>1 DEF Atomic!Before, KeysOf
  <2>3. Admissible(keys)
    BY <1>1, <1>2, <2>2 DEF Admissible, Atomic!Assigned
  <2>4. keys[row] = RowKey(stmt[row], max_key) /\ keys[row] \notin KeysBefore(row)
    BY <2>1, <2>3, ForcedRow DEF RefuseRow
  <2>5. DuplicateKey(RowKey(stmt[row], max_key))
    BY <1>2 DEF RefuseRow, RowCheck
  <2>6. DOMAIN planned_keys = 1 .. row - 1 /\ DOMAIN rows = DOMAIN stored
    BY <1>1, PlanTypes DEF StatementsInv, Planned, Checking, RefuseRow
  <2>7. QED
    BY <2>4, <2>5, <2>6 DEF DuplicateKey, KeysBefore
<1>3. reply' # "ok"
  BY DEF RefuseRow
<1>4. QED
  BY <1>1, <1>2, <1>3 DEF Atomic!Refuse

\* The other steps are those of AtomicRows, or change nothing it sees.
LEMMA OtherAtomic ==
  ASSUME StatementsInv, StatementsInv',
         execute_delete \/ execute_update \/ Commit \/ Crash \/ StartInsert \/ PlanRow
  PROVE  [Atomic!ARNext]_(Atomic!arVars)
<1>1. CASE execute_delete
  <2>1. Settled = rows /\ Settled' = rows' /\ stored' = stored
    BY <1>1, SettledRows, SettledNext DEF execute_delete
  <2>2. CASE reply' = "ok"
    <3>1. \E key \in DOMAIN rows : rows' = [k \in DOMAIN rows \ {key} |-> rows[k]]
      BY <1>1, <2>2 DEF execute_delete, Without
    <3>2. Atomic!Delete
      BY <2>1, <2>2, <3>1 DEF Atomic!Delete
    <3>3. QED
      BY <3>2 DEF Atomic!ARNext
  <2>3. CASE reply' # "ok"
    <3>1. rows' = rows /\ reply' = "record not found"
      BY <1>1, <2>3 DEF execute_delete
    <3>2. Atomic!Refuse
      BY <2>1, <3>1 DEF Atomic!Refuse
    <3>3. QED
      BY <3>2 DEF Atomic!ARNext
  <2>4. QED
    BY <2>2, <2>3
<1>2. CASE execute_update
  <2>1. Settled = rows /\ Settled' = rows' /\ stored' = stored
    BY <1>2, SettledRows, SettledNext DEF execute_update
  <2>2. PICK column \in {"unknown", "id", "value"}, key \in Keys, value \in Values \cup {Wrong} :
          /\ reply' = UpdateCheck(column, key, value)
          /\ IF reply' = "ok"
             THEN rows' = [rows EXCEPT ![key] = value] /\ pc' = "commit"
             ELSE rows' = rows /\ pc' = pc
    BY <1>2 DEF execute_update
  <2>3. CASE reply' = "ok"
    <3>1. key \in DOMAIN rows /\ value \in Values
      BY <2>2, <2>3 DEF UpdateCheck
    <3>2. Atomic!Update
      BY <2>1, <2>2, <2>3, <3>1 DEF Atomic!Update
    <3>3. QED
      BY <3>2 DEF Atomic!ARNext
  <2>4. CASE reply' # "ok"
    <3>1. rows' = rows /\ reply' # "duplicate key"
      BY <2>2, <2>4 DEF UpdateCheck
    <3>2. Atomic!Refuse
      BY <2>1, <2>4, <3>1 DEF Atomic!Refuse
    <3>3. QED
      BY <3>2 DEF Atomic!ARNext
  <2>5. QED
    BY <2>3, <2>4
<1>3. CASE Commit
  <2>1. Settled = rows /\ Settled' = rows' /\ rows' = rows /\ stored' = rows /\ reply' = reply
    BY <1>3, SettledRows, SettledNext DEF Commit
  <2>2. QED
    BY <2>1 DEF Atomic!CommitRows, Atomic!ARNext
<1>4. CASE Crash
  <2>1. Settled' = stored /\ stored' = stored /\ reply' = "ok"
    BY <1>4, SettledNext DEF Crash
  <2>2. QED
    BY <2>1 DEF Atomic!Reopen, Atomic!ARNext
<1>5. CASE StartInsert \/ PlanRow
  <2>1. rows = stored /\ rows' = rows /\ stored' = stored /\ reply' = reply
    BY <1>5 DEF StatementsInv, RefusedLeavesNothing, Checking, StartInsert, PlanRow, table
  <2>2. Settled' = Settled
    BY <2>1, SettledRows, SettledNext
  <2>3. QED
    BY <2>1, <2>2 DEF Atomic!Ask, Atomic!ARNext
<1>6. QED
  BY <1>1, <1>2, <1>3, <1>4, <1>5

\* Every statement takes effect as a whole or not at all, through crashes at any
\* step; the ids an insert gives follow the largest one; and a refusal for a
\* duplicate key means that there are no ids for the insert.
THEOREM StatementsImplementAtomicRows == Spec => ImplementsAtomicRows
<1>1. ASSUME StatementsInv, StatementsInv', Forced, [Next]_vars
      PROVE  [Atomic!ARNext]_(Atomic!arVars)
  <2>1. CASE InsertRow
    BY <1>1, <2>1, InsertRowAtomic DEF Atomic!ARNext
  <2>2. CASE RefuseRow
    BY <1>1, <2>2, RefuseAtomic DEF Atomic!ARNext
  <2>3. CASE UNCHANGED vars
    BY <2>3 DEF Settled, Atomic!arVars, vars, table, insert
  <2>4. QED
    BY <1>1, <2>1, <2>2, <2>3, OtherAtomic DEF Next
<1>2. QED
  BY <1>1, InitAtomic, SpecForced, PTL DEF Spec, ImplementsAtomicRows, Atomic!ARSpec
=============================================================================
