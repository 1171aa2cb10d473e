----------------------------- MODULE AtomicRows -----------------------------
(***************************************************************************)
(* What statements promise about the rows of a table: each takes effect as *)
(* a whole or, when it is refused, not at all; the rows that an insert     *)
(* adds have the ids it names, and ids of their own above all others where *)
(* it names none; a process that ends takes with it no more than what is   *)
(* not committed.                                                          *)
(***************************************************************************)
EXTENDS Naturals, Sequences

CONSTANTS
  TopKey,    \* the largest id
  Null,      \* what a new row has in place of an id when it names none
  Values     \* what a row can hold besides its id

VARIABLES
  rows,      \* id |-> value
  stored,    \* what is committed of it
  request,   \* the insert that is asked for: a sequence of new rows
  reply      \* what the last statement said

arVars == <<rows, stored, request, reply>>

Keys == 0 .. TopKey

\* The ids a new row comes after: those of the table and of the rows before it.
Before(keys, i) == DOMAIN rows \cup {keys[j] : j \in 1 .. i - 1}

\* The ids an insert may give.  Once the largest id is taken there is none above
\* all others, and any that is free will do.
Assigned(keys) ==
  \A i \in DOMAIN request :
    /\ keys[i] \notin Before(keys, i)
    /\ request[i].id # Null => keys[i] = request[i].id
    /\ request[i].id = Null /\ TopKey \notin Before(keys, i) =>
         /\ \A k \in Before(keys, i) : k < keys[i]
         /\ \E k \in Before(keys, i) \cup {0} : keys[i] = k + 1

Assignments == [DOMAIN request -> Keys]

ARInit ==
  /\ \E S \in SUBSET Keys : rows \in [S -> Values]
  /\ stored = rows /\ request = <<>> /\ reply = "ok"

\* An insert is asked for.
Ask == UNCHANGED <<rows, stored, reply>>

InsertAll ==
  /\ \E keys \in Assignments :
       /\ Assigned(keys)
       /\ DOMAIN rows' = DOMAIN rows \cup {keys[i] : i \in DOMAIN request}
       /\ \A k \in DOMAIN rows : rows'[k] = rows[k]
       /\ \A i \in DOMAIN request : rows'[keys[i]] = request[i].value
  /\ reply' = "ok"
  /\ UNCHANGED stored

Update ==
  /\ \E k \in DOMAIN rows, v \in Values : rows' = [rows EXCEPT ![k] = v]
  /\ reply' = "ok"
  /\ UNCHANGED stored

Delete ==
  /\ \E k \in DOMAIN rows : rows' = [j \in DOMAIN rows \ {k} |-> rows[j]]
  /\ reply' = "ok"
  /\ UNCHANGED stored

\* An insert has a duplicate key only if there are no ids for it.
Refuse ==
  /\ reply' # "ok"
  /\ reply' = "duplicate key" =>
       \A keys \in Assignments : Assigned(keys) =>
         \E i \in DOMAIN request : TopKey \in Before(keys, i)
  /\ UNCHANGED <<rows, stored>>

CommitRows ==
  /\ stored' = rows
  /\ UNCHANGED <<rows, reply>>

\* The process ends, and another opens the table.
Reopen ==
  /\ rows' = stored
  /\ reply' = "ok"
  /\ UNCHANGED stored

ARNext ==
  \/ Ask \/ InsertAll \/ Update \/ Delete \/ Refuse
  \/ CommitRows \/ Reopen

ARSpec == ARInit /\ [][ARNext]_arVars
=============================================================================
