--------------------------- MODULE MCHealthPipeline ---------------------------
(***************************************************************************)
(* Instances of the two services end to end.                               *)
(***************************************************************************)
EXTENDS HealthPipeline, AnalysisValues
==============================================================================
