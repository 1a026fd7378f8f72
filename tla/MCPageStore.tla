------------------------------ MODULE MCPageStore ------------------------------
(* Instances of PageStore for TLC.  *)
EXTENDS PageStore, TLC

\* Writes of one kind that differ in nothing but their names.
WriterSymmetry == Permutations(Writers)
=============================================================================
