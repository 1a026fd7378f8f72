------------------------------- MODULE MCQueries ------------------------------
(* Queries for TLC.  *)
EXTENDS Queries

WikiSymmetry == Permutations(Wiki)
=============================================================================
