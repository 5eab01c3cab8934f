-------------------------- MODULE MCAnalysisQueue --------------------------
(* Model-checking instances of AnalysisQueue. *)
EXTENDS AnalysisQueue, TLC

\* Sharecodes and demo URLs are only compared, never ordered.
MCSymmetry == Permutations(Codes) \cup Permutations(Urls)
=============================================================================
