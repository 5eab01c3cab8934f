--------------------------- MODULE MCDemoParser ---------------------------
(* Model-checking instances of DemoParser. *)
EXTENDS DemoParser

\* The second and the third event are of one tick, and the first of one REAL with
\* them; between the first and the fourth a bomb is overdue.
MCAt == [e \in 0..MaxEvents |-> IF e <= 2 THEN e ELSE IF e = 3 THEN 2 ELSE e + 1]

\* A REAL tells only even times apart.
MCNarrow == [t \in 0..Horizon |-> 2 * ((t + 1) \div 2)]

\* Teammates are only compared, unless one is a bot.
MCSymmetry == Permutations(TeamA \ Bots) \cup Permutations(TeamB \ Bots)
              \cup Permutations(Bots \cap TeamA) \cup Permutations(Bots \cap TeamB)
=============================================================================
