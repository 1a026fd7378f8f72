-------------------------------- MODULE MCAgent --------------------------------
(* Agent for TLC.  *)
EXTENDS Agent, TLC

Symmetric == Permutations(Flushes)
=============================================================================
