-------------------------- MODULE MCEmbeddingPipeline --------------------------
(* EmbeddingPipeline for TLC.  *)
EXTENDS EmbeddingPipeline

=============================================================================
