-------------------------- MODULE MCAnalysisReader --------------------------
(* Model-checking instance of AnalysisReader. *)
EXTENDS AnalysisReader
=============================================================================
