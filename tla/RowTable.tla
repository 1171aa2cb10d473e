------------------------------ MODULE RowTable ------------------------------
(***************************************************************************)
(* What a table promises the statements on it: a set of rows, each known   *)
(* by its primary key.  An insert of a key the table has is refused, as is *)
(* a delete of one it has not; a select shows every row once, in the order *)
(* of the keys; nothing else changes the rows.                             *)
(***************************************************************************)
EXTENDS Naturals, SequencesExt

CONSTANT Keys

VARIABLES rows, reply

rtVars == <<rows, reply>>

\* What a statement says, and the keys of the rows it shows.
Reply(result, shown) == [result |-> result, shown |-> shown]

InOrder(keys) == \A i, j \in DOMAIN keys : i < j => keys[i] < keys[j]

RTInit == rows \in SUBSET Keys /\ reply = Reply("ok", <<>>)

Insert(key) ==
  IF key \in rows THEN reply' = Reply("duplicate", <<>>) /\ UNCHANGED rows
  ELSE reply' = Reply("ok", <<>>) /\ rows' = rows \cup {key}

Delete(key) ==
  IF key \in rows THEN reply' = Reply("ok", <<>>) /\ rows' = rows \ {key}
  ELSE reply' = Reply("not found", <<>>) /\ UNCHANGED rows

Select ==
  /\ reply'.result = "ok"
  /\ ToSet(reply'.shown) = rows
  /\ InOrder(reply'.shown)
  /\ UNCHANGED rows

\* The process ends, and another one opens the table.
Reopen == reply' = Reply("ok", <<>>) /\ UNCHANGED rows

RTNext ==
  \/ \E key \in Keys : Insert(key) \/ Delete(key)
  \/ Select
  \/ Reopen

RTSpec == RTInit /\ [][RTNext]_rtVars
=============================================================================
