--------------------------- MODULE MCReviewPipeline ---------------------------
(* ReviewPipeline and its proofs for TLC: every constant has its value in  *)
(* the cfg files.                                                          *)
EXTENDS ReviewPipelineProofs
===============================================================================
