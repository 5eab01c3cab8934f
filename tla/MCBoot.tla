------------------------------- MODULE MCBoot -------------------------------
(* Model-checking instance of Boot. *)
EXTENDS Boot, TLC

CONSTANTS old, new, u, v, w

\* The image before an upgrade, and the one after it.
Builds == (old :> 1) @@ (new :> 3)
=============================================================================
