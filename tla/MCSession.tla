------------------------------ MODULE MCSession ------------------------------
(***************************************************************************)
(* Small instances of Session for TLC.                                     *)
(***************************************************************************)
EXTENDS SessionProperties, TLC

CONSTANTS a, b
TwoDatabases == {a, b}
EitherDatabase == Permutations(TwoDatabases)
=============================================================================
