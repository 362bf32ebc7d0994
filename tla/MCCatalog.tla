------------------------------- MODULE MCCatalog -------------------------------
(***************************************************************************)
(* The catalogs for TLC: table names and column names are interchangeable. *)
(***************************************************************************)
EXTENDS Catalog, TLC

Names == Permutations(Rels) \union Permutations(Attrs)
=============================================================================
