---------------------------- MODULE MCStatements ----------------------------
(***************************************************************************)
(* Small instances of Statements for TLC.                                  *)
(***************************************************************************)
EXTENDS StatementsProperties, TLC

CONSTANTS v, w
TwoValues == {v, w}

\* Every id with one value, and a few rows that are refused.
SomeRows ==
  [id : Keys \cup {Null}, value : {v}] \cup [id : {1, Null}, value : {Wrong, Missing}]
=============================================================================
