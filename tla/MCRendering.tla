------------------------------ MODULE MCRendering -----------------------------
(* Rendering for TLC.  *)
EXTENDS Rendering, TLC

WriterSymmetry == Permutations(Writer)
=============================================================================
