------------------------ MODULE StatementsProperties ------------------------
(***************************************************************************)
(* What statements must do with the rows of a table, stated over the       *)
(* states and steps of Statements.                                         *)
(***************************************************************************)
EXTENDS Statements

Tables == UNION {[S -> Values] : S \in SUBSET Keys}

TypeOK ==
  /\ rows \in Tables /\ stored \in Tables
  /\ pc \in {"idle", "check", "insert", "commit"}
  /\ stmt \in Seq(RowSpecs) /\ Len(stmt) <= MAX_INSERT_ROWS
  /\ row \in Nat \ {0} /\ (pc \in {"check", "insert"} => row <= Len(stmt))
  /\ max_key \in Keys \cup {NoKey}
  /\ planned_keys \in Seq(Keys) /\ seen \in Seq(Keys \cup {NoKey})
  /\ reply \in {"ok", "wrong value count", "validation failed", "duplicate key",
                "record not found", "column not found", "primary key"}

\* Both passes of an insert give a row the same id, also where the ids run over;
\* the second one never meets a key that is taken.
PassesAgree ==
  pc = "insert" =>
    /\ RowKey(stmt[row], max_key) = planned_keys[row]
    /\ planned_keys[row] \notin DOMAIN rows

\* A statement that is refused leaves nothing that a later commit would keep: a
\* table that waits for a statement is as it is committed.
RefusedLeavesNothing == pc = "idle" => rows = stored

\* The rows without those of an insert that is not done.
Settled ==
  LET unsettled == IF pc = "insert" THEN {planned_keys[j] : j \in 1 .. row - 1} ELSE {} IN
  [k \in DOMAIN rows \ unsettled |-> rows[k]]

\* Statements take effect as a whole or not at all, with the ids they should.
Atomic == INSTANCE AtomicRows WITH TopKey <- TOP_KEY, rows <- Settled, request <- stmt
ImplementsAtomicRows == Atomic!ARSpec
=============================================================================
