--------------------------- MODULE MCAnalysisViews ---------------------------
(***************************************************************************)
(* Instances of the analysis service with its read API.                    *)
(***************************************************************************)
EXTENDS AnalysisViews, AnalysisValues
==============================================================================
