------------------------- MODULE MCMatchDiscovery -------------------------
(* Model-checking instances of MatchDiscovery.  A sharecode has four
   characters out of four, three of them in the dictionary; its number has six
   bits, in three fields. *)
EXTENDS MatchDiscovery, TLC

CONSTANTS p1, p2

m1 == <<0, 0, 0, 0>>
m2 == <<1, 2, 1, 0>>
m3 == <<2, 0, 1, 1>>
oversized == <<2, 2, 2, 2>>     \* 80: its six bits are those of m2

ThreeCodes == {m1, m2, m3}
AllCodes   == ThreeCodes \cup {oversized}

\* Both play m2 and m3; the last match of p1 has a code that does not decode.
SharedHistory == (p1 :> <<m1, m2, m3, oversized>>) @@ (p2 :> <<m2, m3>>)

\* One player on their own.
OneHistory == (p1 :> <<m1, m2, m3>>)

\* Two players who meet in their second match.
MeetingHistory == (p1 :> <<m1, m2>>) @@ (p2 :> <<m3, m2>>)

\* Handlers are alike.
MCSymmetry == Permutations(Walks)
=============================================================================
