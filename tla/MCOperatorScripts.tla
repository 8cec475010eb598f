------------------------- MODULE MCOperatorScripts -------------------------
(* Instances of the pipeline with the operator's scripts for TLC. *)
EXTENDS MCPaymentPipeline, OperatorScripts
=============================================================================
