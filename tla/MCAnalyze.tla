----------------------------- MODULE MCAnalyze -----------------------------
(* Model-checking instances of Analyze. *)
EXTENDS Analyze, TLC

CONSTANTS r1, r2, r3, a, b

\* Two presses for one match and one for another.
PressedTwice == (r1 :> a) @@ (r2 :> b) @@ (r3 :> a)

\* One press for each of two matches.
PressedOnce == (r1 :> a) @@ (r2 :> b)
=============================================================================
