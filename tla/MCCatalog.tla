------------------------------ MODULE MCCatalog ------------------------------
(***************************************************************************)
(* Small instances of Catalog for TLC.                                     *)
(***************************************************************************)
EXTENDS CatalogProperties, TLC

CONSTANTS a, b
TwoNames == {a, b}
EitherName == Permutations(TwoNames)
=============================================================================
