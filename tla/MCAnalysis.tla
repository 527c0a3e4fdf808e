------------------------------ MODULE MCAnalysis ------------------------------
(***************************************************************************)
(* Instances of Analysis alone.                                            *)
(***************************************************************************)
EXTENDS Analysis, AnalysisValues
==============================================================================
