------------------------- MODULE DemoParser_proofs -------------------------
(***************************************************************************)
(* Proofs about DemoParser, for teams of any size, any bots among them and *)
(* demos of any length.                                                    *)
(***************************************************************************)
EXTENDS DemoParser, FiniteSetTheorems, WellFoundedInduction, TLAPS

(* Who is alone.                                                           *)

Sided == side \in [Players -> {2, 3}]

LEMMA TwoTeams ==
  ASSUME Sided
  PROVE  /\ Players = Terrorists \cup CounterTerrorists
         /\ Terrorists \cap CounterTerrorists = {}
         /\ IsFiniteSet(Players) /\ IsFiniteSet(Terrorists) /\ IsFiniteSet(CounterTerrorists)
<1>1. IsFiniteSet(Players)
  BY TeamsAssumption, FS_Union DEF Players
<1>2. Terrorists \subseteq Players /\ CounterTerrorists \subseteq Players
  BY DEF Terrorists, CounterTerrorists, TeamOf
<1>3. IsFiniteSet(Terrorists) /\ IsFiniteSet(CounterTerrorists)
  BY <1>1, <1>2, FS_Subset
<1>4. \A q \in Players : side[q] = 2 \/ side[q] = 3
  BY DEF Sided
<1> QED
  BY <1>1, <1>3, <1>4 DEF Terrorists, CounterTerrorists, TeamOf

LEMMA Teams ==
  ASSUME Sided, NEW q \in Players
  PROVE  \/ Team(q) = 2 /\ TeamOf(Team(q)) = Terrorists /\ q \in Terrorists
         \/ Team(q) = 3 /\ TeamOf(Team(q)) = CounterTerrorists /\ q \in CounterTerrorists
<1>1. Team(q) = side[q] /\ (side[q] = 2 \/ side[q] = 3)
  BY DEF Team, Sided
<1>2. TeamOf(2) = Terrorists /\ TeamOf(3) = CounterTerrorists
  BY DEF Terrorists, CounterTerrorists
<1>3. q \in TeamOf(Team(q))
  BY <1>1 DEF TeamOf
<1>4. CASE Team(q) = 2
  <2>1. TeamOf(Team(q)) = Terrorists
    BY <1>2, <1>4, Zenon
  <2> QED
    BY <1>3, <1>4, <2>1
<1>5. CASE Team(q) = 3
  <2>1. TeamOf(Team(q)) = CounterTerrorists
    BY <1>2, <1>5, Zenon
  <2> QED
    BY <1>3, <1>5, <2>1
<1> QED
  BY <1>1, <1>4, <1>5

LEMMA TeamNumber ==
  ASSUME Sided, NEW q
  PROVE  /\ Team(q) \in {0, 2, 3}
         /\ Team(q) # 0 <=> q \in Players
BY DEF Team, Sided

LEMMA SoleSurvivorIsOne ==
  ASSUME NEW standing, NEW team, IsFiniteSet(team), SoleSurvivor(standing, team)
  PROVE  \E q : standing \cap team = {q}
<1>1. IsFiniteSet(standing \cap team)
  BY FS_Intersection
<1> QED
  BY <1>1, FS_Singleton DEF SoleSurvivor

\* lastAliveOnTeam names somebody only if they stand alone, and counts exactly
\* those who stand against them.
LEMMA LastAliveIsAlone ==
  ASSUME Sided, NEW standing \in SUBSET Players, LastAlive(standing).enemies > 0
  PROVE  LET q == LastAlive(standing).player IN
         /\ q \in Players /\ standing \cap TeamOf(Team(q)) = {q}
         /\ LastAlive(standing).enemies = Cardinality(standing \ TeamOf(Team(q)))
<1> DEFINE T  == standing \cap Terrorists
           CT == standing \cap CounterTerrorists
<1>1. standing \ Terrorists = CT /\ standing \ CounterTerrorists = T
  BY TwoTeams
<1>2. CASE SoleSurvivor(standing, Terrorists) /\ CT # {}
  <2>1. PICK q : T = {q}
    BY <1>2, TwoTeams, SoleSurvivorIsOne
  <2>2. (CHOOSE r \in T : TRUE) = q
    BY <2>1
  <2>3. LastAlive(standing) = [player |-> q, enemies |-> Cardinality(CT)]
    BY <1>2, <2>2 DEF LastAlive
  <2>4. q \in Players /\ TeamOf(Team(q)) = Terrorists
    BY <2>1, Teams, TwoTeams
  <2> QED
    BY <1>1, <2>1, <2>3, <2>4
<1>3. CASE /\ ~(SoleSurvivor(standing, Terrorists) /\ CT # {})
           /\ SoleSurvivor(standing, CounterTerrorists) /\ T # {}
  <2>1. PICK q : CT = {q}
    BY <1>3, TwoTeams, SoleSurvivorIsOne
  <2>2. (CHOOSE r \in CT : TRUE) = q
    BY <2>1
  <2>3. LastAlive(standing) = [player |-> q, enemies |-> Cardinality(T)]
    BY <1>3, <2>2 DEF LastAlive
  <2>4. q \in Players /\ TeamOf(Team(q)) = CounterTerrorists
    BY <2>1, Teams, TwoTeams
  <2> QED
    BY <1>1, <2>1, <2>3, <2>4
<1>4. CASE /\ ~(SoleSurvivor(standing, Terrorists) /\ CT # {})
           /\ ~(SoleSurvivor(standing, CounterTerrorists) /\ T # {})
  <2>1. LastAlive(standing).enemies = 0
    BY <1>4 DEF LastAlive
  <2> QED
    BY <2>1
<1> QED
  BY <1>2, <1>3, <1>4

-----------------------------------------------------------------------------
(* The inductive invariant.                                                *)

Ids == {steamID(q) : q \in Players}

Rows     == [kills : Nat, rounds : Nat, seen : BOOLEAN]
Clutches == [round : Nat, time : 0..Horizon, player : Ids, team : {2, 3}, enemies : Nat]
Defuses  == [round : Nat, time : 0..Horizon, player : Ids, left : 0..C4Timer]

Types ==
    /\ phase \in {"warmup", "live", "over", "end"}
    /\ Sided
    /\ present \subseteq Players /\ alive \subseteq present
    /\ board \in [Players -> Nat]
    /\ events \in 0..MaxEvents /\ roundStart \in 0..clock /\ plantedAt \in 0..clock
    /\ currentRound \in Nat
    /\ clutchSeen \subseteq Ids
    /\ stats \in [Players -> Rows]
    /\ out = [kills |-> out.kills, rounds |-> out.rounds,
              clutches |-> out.clutches, defuses |-> out.defuses]
    /\ out.clutches \in Seq(Clutches) /\ out.defuses \in Seq(Defuses)

\* Nothing recorded is of a round that has not begun.
NothingAhead ==
    /\ \A c \in Elements(out.clutches) : c.round <= currentRound
    /\ \A q \in Players : stats[q].rounds <= currentRound

IInv == Types /\ NothingAhead /\ OneClutchEach

LEMMA InitIInv == Init => IInv
<1> SUFFICES ASSUME Init PROVE IInv
  OBVIOUS
<1>1. /\ out.kills = <<>> /\ out.rounds = <<>> /\ out.clutches = <<>> /\ out.defuses = <<>>
      /\ out = [kills |-> out.kills, rounds |-> out.rounds,
                clutches |-> out.clutches, defuses |-> out.defuses]
  BY DEF Init
<1>2. stats \in [Players -> Rows] /\ \A q \in Players : stats[q].rounds = 0
  BY DEF Init, NoRow, Rows
<1>3. Elements(out.clutches) = {}
  BY <1>1 DEF Elements
<1>4. board \in [Players -> Nat]
  BY DEF Init
<1>5. events \in 0..MaxEvents /\ roundStart \in 0..clock /\ plantedAt \in 0..clock
  BY TimerAssumption, TimeAssumption DEF Init, clock
<1>6. Sided
  BY DEF Sided, Init
<1>7. Types
  BY <1>1, <1>2, <1>4, <1>5, <1>6 DEF Types, Init
<1>8. NothingAhead
  BY <1>2, <1>3 DEF NothingAhead, Init
<1>9. OneClutchEach
  BY <1>1, <1>3 DEF OneClutchEach, Init
<1> QED
  BY <1>7, <1>8, <1>9 DEF IInv

-----------------------------------------------------------------------------
(* Steps that record no clutch.                                            *)

\* The clutches stay, and with them what is said of them.
LEMMA SameClutches ==
  ASSUME IInv, out'.clutches = out.clutches, UNCHANGED <<currentRound, clutchSeen>>,
         \A q \in Players : stats'[q].rounds <= currentRound
  PROVE  NothingAhead' /\ OneClutchEach'
<1>1. Elements(out'.clutches) = Elements(out.clutches)
  BY DEF Elements
<1> QED
  BY <1>1 DEF IInv, NothingAhead, OneClutchEach, Elements

\* A handler is called no earlier than the one before it.
LEMMA TimePasses ==
  ASSUME IInv, Time
  PROVE  /\ events' \in 0..MaxEvents /\ clock \in 0..Horizon /\ clock' \in 0..Horizon /\ clock <= clock'
         /\ roundStart \in 0..clock' /\ plantedAt \in 0..clock'
<1>1. /\ events \in 0..MaxEvents /\ events' \in 1..MaxEvents /\ events = events' - 1
      /\ events' \in 0..MaxEvents
  BY TimerAssumption DEF IInv, Types, Time
<1>2. clock \in 0..Horizon /\ clock' \in 0..Horizon /\ clock <= clock'
  BY <1>1, TimeAssumption DEF clock
<1>3. roundStart \in 0..clock /\ plantedAt \in 0..clock
  BY DEF IInv, Types
<1> QED
  BY <1>1, <1>2, <1>3

\* A snapshot counts the rounds begun so far.
LEMMA SnapshotRows ==
  ASSUME IInv
  PROVE  /\ Snapshot \in [Players -> Rows]
         /\ \A q \in Players : /\ Snapshot[q].rounds <= currentRound
                               /\ stats[q].seen => Snapshot[q].seen
                               /\ stats[q].rounds <= Snapshot[q].rounds
<1>1. \A q \in Players : [kills |-> board[q], rounds |-> currentRound, seen |-> TRUE] \in Rows
  BY DEF IInv, Types, Rows
<1>2. Snapshot \in [Players -> Rows]
  BY <1>1 DEF IInv, Types, Snapshot
<1>3. currentRound \in Nat /\ \A q \in Players : stats[q].rounds \in Nat /\ stats[q].rounds <= currentRound
  BY DEF IInv, Types, Rows, NothingAhead
<1> QED
  BY <1>2, <1>3 DEF Snapshot

LEMMA RoundStartStep == IInv /\ RoundStart => IInv'
<1> SUFFICES ASSUME IInv, RoundStart PROVE IInv'
  OBVIOUS
<1>1. /\ events' \in 0..MaxEvents /\ clock' \in Nat /\ plantedAt' \in 0..clock' /\ roundStart' \in 0..clock'
  BY TimePasses DEF RoundStart
<1>2. board' \in [Players -> Nat]
  BY DEF RoundStart, IInv, Types
<1>3. currentRound \in Nat /\ currentRound' = currentRound + 1
  BY DEF RoundStart, IInv, Types
<1>4. Types'
  BY <1>1, <1>2, <1>3 DEF RoundStart, IInv, Types, Sided
<1>5. /\ out' = out /\ stats' = stats /\ clutchSeen' = {}
      /\ \A c \in Elements(out.clutches) : c.round \in Nat /\ c.round <= currentRound
      /\ \A q \in Players : stats[q].rounds \in Nat /\ stats[q].rounds <= currentRound
  <2>1. out' = out /\ stats' = stats /\ clutchSeen' = {}
    BY DEF RoundStart
  <2>2. \A c \in Elements(out.clutches) : c \in Clutches
    BY DEF IInv, Types, Elements
  <2>3. \A c \in Elements(out.clutches) : c.round \in Nat /\ c.round <= currentRound
    BY <2>2 DEF IInv, NothingAhead, Clutches
  <2>4. \A q \in Players : stats[q].rounds \in Nat /\ stats[q].rounds <= currentRound
    BY DEF IInv, Types, NothingAhead, Rows
  <2> QED
    BY <2>1, <2>3, <2>4
<1>6. NothingAhead'
  <2>1. Elements(out.clutches)' = Elements(out.clutches)
    BY <1>5 DEF Elements
  <2>2. \A c \in Elements(out.clutches) : c.round <= currentRound'
    BY <1>3, <1>5
  <2>3. \A q \in Players : stats[q].rounds <= currentRound'
    BY <1>3, <1>5
  <2> QED
    BY <1>5, <2>1, <2>2, <2>3 DEF NothingAhead
<1>7. OneClutchEach'
  <2>1. {c \in Elements(out.clutches) : c.round = currentRound'} = {}
    BY <1>3, <1>5
  <2>2. clutchSeen' = {c.player : c \in {c \in Elements(out'.clutches) : c.round = currentRound'}}
    BY <1>5, <2>1
  <2> QED
    BY <1>5, <2>2 DEF OneClutchEach, IInv, Elements
<1> QED
  BY <1>4, <1>6, <1>7 DEF IInv

LEMMA RoundEndStep ==
  ASSUME IInv, NEW winner, RoundEnd(winner)
  PROVE  IInv'
<1>1. /\ events' \in 0..MaxEvents /\ plantedAt' \in 0..clock' /\ roundStart' \in 0..clock'
  BY TimePasses DEF RoundEnd
<1>2. /\ out' = [kills |-> out'.kills, rounds |-> out'.rounds,
                 clutches |-> out'.clutches, defuses |-> out'.defuses]
      /\ out'.clutches = out.clutches /\ out'.defuses = out.defuses
  BY DEF RoundEnd, IInv, Types
<1>3. stats' \in [Players -> Rows] /\ \A q \in Players : stats'[q].rounds <= currentRound
  BY SnapshotRows DEF RoundEnd, IInv, Types, NothingAhead
<1>4. Types'
  BY <1>1, <1>2, <1>3 DEF RoundEnd, IInv, Types, Sided
<1>5. NothingAhead' /\ OneClutchEach'
  BY <1>2, <1>3, SameClutches DEF RoundEnd
<1> QED
  BY <1>4, <1>5 DEF IInv

\* What is left of a bomb planted before now is never more than its timer.
LEMMA Remainder ==
  ASSUME NEW timer \in Nat, NEW now \in Nat, NEW planted \in 0..now
  PROVE  (IF planted # 0 /\ timer > now - planted THEN timer - (now - planted) ELSE 0)
            \in 0..timer
<1> now - planted \in Nat
  OBVIOUS
<1> QED
  OBVIOUS

LEMMA BombStep ==
  ASSUME IInv, BombPlanted \/ \E q \in Players : BombDefused(q)
  PROVE  IInv'
<1>1. /\ events' \in 0..MaxEvents /\ plantedAt' \in 0..clock' /\ roundStart' \in 0..clock'
  <2>1. Time /\ (plantedAt' = plantedAt \/ plantedAt' = clock') /\ roundStart' = roundStart
    BY DEF BombPlanted, BombDefused
  <2> QED
    BY <2>1, TimePasses
<1>2. /\ out' = [kills |-> out'.kills, rounds |-> out'.rounds,
                 clutches |-> out'.clutches, defuses |-> out'.defuses]
      /\ out'.clutches = out.clutches /\ out'.defuses \in Seq(Defuses)
  <2>1. CASE BombPlanted
    BY <2>1 DEF BombPlanted, IInv, Types
  <2>2. ASSUME NEW q \in Players, BombDefused(q)
        PROVE  /\ out' = [kills |-> out'.kills, rounds |-> out'.rounds,
                          clutches |-> out'.clutches, defuses |-> out'.defuses]
               /\ out'.clutches = out.clutches /\ out'.defuses \in Seq(Defuses)
    <3> DEFINE d == [round |-> currentRound, time |-> clock', player |-> steamID(q), left |-> TimeLeft]
    <3>1. TimeLeft \in 0..C4Timer
      <4>1. clock' \in Nat /\ plantedAt \in 0..clock' /\ C4Timer \in Nat
        BY <2>2, TimePasses, TimerAssumption DEF BombDefused
      <4> QED
        BY <4>1, Remainder DEF TimeLeft
    <3>2. d \in Defuses
      BY <2>2, <3>1, TimePasses DEF Defuses, Ids, IInv, Types, BombDefused
    <3>3. out' = [out EXCEPT !.defuses = Append(out.defuses, d)]
      BY <2>2 DEF BombDefused
    <3> HIDE DEF d
    <3>4. out' = [kills |-> out.kills, rounds |-> out.rounds,
                  clutches |-> out.clutches, defuses |-> Append(out.defuses, d)]
      BY <3>3 DEF IInv, Types
    <3>5. Append(out.defuses, d) \in Seq(Defuses)
      BY <3>2 DEF IInv, Types
    <3> QED
      BY <3>4, <3>5
  <2> QED
    BY <2>1, <2>2
<1>3. UNCHANGED <<game, currentRound, clutchSeen, stats>>
  BY DEF BombPlanted, BombDefused
<1>4. Types'
  BY <1>1, <1>2, <1>3 DEF IInv, Types, Sided, game
<1>5. NothingAhead' /\ OneClutchEach'
  BY <1>2, <1>3, SameClutches DEF IInv, NothingAhead
<1> QED
  BY <1>4, <1>5 DEF IInv

\* The steps that record nothing: of players, of the game and the end.
Silent == \/ Unresolved \/ SwapSides \/ End \/ Truncated
          \/ \E q \in Players : Connect(q) \/ Disconnect(q)

LEMMA SilentStep ==
  ASSUME IInv, Silent \/ UNCHANGED vars
  PROVE  IInv'
<1>1. /\ events' \in 0..MaxEvents /\ plantedAt' \in 0..clock' /\ roundStart' \in 0..clock'
  <2>1. CASE events' = events
    <3>1. UNCHANGED <<clock, plantedAt, roundStart>>
      BY <2>1 DEF Silent, Unresolved, SwapSides, End, Truncated, Connect, Disconnect, vars, parser, clock
    <3> QED
      BY <2>1, <3>1 DEF IInv, Types
  <2>2. CASE Time
    <3>1. UNCHANGED <<plantedAt, roundStart>>
      BY DEF Silent, Unresolved, SwapSides, End, Truncated, Connect, Disconnect, vars, parser
    <3> QED
      BY <2>2, <3>1, TimePasses
  <2> QED
    BY <2>1, <2>2 DEF Silent, Unresolved, SwapSides, End, Truncated, Connect, Disconnect, vars
<1>2. UNCHANGED <<board, currentRound, clutchSeen, out>>
  BY DEF Silent, Unresolved, SwapSides, End, Truncated, Connect, Disconnect, vars, game, parser
<1>3. stats' \in [Players -> Rows] /\ \A q \in Players : stats'[q].rounds <= currentRound
  <2>1. stats' = stats \/ stats' = Snapshot
    BY DEF Silent, Unresolved, SwapSides, End, Truncated, Connect, Disconnect, vars, parser
  <2> QED
    BY <2>1, SnapshotRows DEF IInv, Types, NothingAhead
<1>4. phase' \in {"warmup", "live", "over", "end"}
  BY DEF Silent, Unresolved, SwapSides, End, Truncated, Connect, Disconnect, vars, game, IInv, Types
<1>5. present' \subseteq Players /\ alive' \subseteq present'
  BY DEF Silent, Unresolved, SwapSides, End, Truncated, Connect, Disconnect, vars, game, IInv, Types
<1>6. Sided'
  <2>1. side \in [Players -> {2, 3}]
    BY DEF IInv, Types, Sided
  <2>2. side' = side \/ side' = [q \in Players |-> IF side[q] = 2 THEN 3 ELSE 2]
    BY DEF Silent, Unresolved, SwapSides, End, Truncated, Connect, Disconnect, vars, game
  <2> QED
    BY <2>1, <2>2 DEF Sided
<1>7. Types'
  BY <1>1, <1>2, <1>3, <1>4, <1>5, <1>6 DEF IInv, Types
<1>8. NothingAhead' /\ OneClutchEach'
  BY <1>2, <1>3, SameClutches
<1> QED
  BY <1>7, <1>8 DEF IInv

-----------------------------------------------------------------------------
(* Kills.                                                                  *)

\* A kill records at most one clutch, of somebody who had none this round.
LEMMA ClutchOfKill ==
  ASSUME IInv, Time, alive' \subseteq Players
  PROVE  \/ NewClutch(alive') = <<>>
         \/ \E c \in Clutches :
               /\ NewClutch(alive') = <<c>>
               /\ c.time = clock' /\ c.round = currentRound /\ c.player \notin clutchSeen
               /\ \E q \in Players : steamID(q) = c.player /\ alive' \cap TeamOf(c.team) = {q}
               /\ c.enemies = Cardinality(alive' \ TeamOf(c.team))
<1> DEFINE last == LastAlive(alive')
           c    == [round |-> currentRound, time |-> clock', player |-> steamID(last.player),
                    team |-> Team(last.player), enemies |-> last.enemies]
<1> SUFFICES ASSUME last.enemies > 0, steamID(last.player) \notin clutchSeen,
                    NewClutch(alive') = <<c>>
             PROVE  /\ c \in Clutches
                    /\ c.time = clock' /\ c.round = currentRound /\ c.player \notin clutchSeen
                    /\ \E q \in Players : steamID(q) = c.player /\ alive' \cap TeamOf(c.team) = {q}
                    /\ c.enemies = Cardinality(alive' \ TeamOf(c.team))
  BY DEF NewClutch
<1>1. /\ last.player \in Players /\ alive' \cap TeamOf(Team(last.player)) = {last.player}
      /\ last.enemies = Cardinality(alive' \ TeamOf(Team(last.player)))
  BY LastAliveIsAlone DEF IInv, Types
<1>2. last.enemies \in Nat
  <2>1. IsFiniteSet(Players)
    BY TeamsAssumption, FS_Union DEF Players
  <2>2. IsFiniteSet(alive' \ TeamOf(Team(last.player)))
    BY <2>1, FS_Subset
  <2> QED
    BY <1>1, <2>2, FS_CardinalityType
<1>3. currentRound \in Nat /\ clock' \in 0..Horizon /\ Team(last.player) \in {2, 3} /\ steamID(last.player) \in Ids
  BY <1>1, TimePasses, Teams DEF IInv, Types, Ids
<1> HIDE DEF last
<1>4. c \in Clutches
  BY <1>2, <1>3 DEF Clutches
<1> QED
  BY <1>1, <1>4

\* The clutches after a kill: those before it, and at most one more.
LEMMA KillStep ==
  ASSUME IInv, NEW killer \in Players \cup {NoPlayer}, NEW victim \in Players, NEW headshot \in Shots,
         Kill(killer, victim, headshot)
  PROVE  IInv'
<1>1. /\ events' \in 0..MaxEvents /\ plantedAt' \in 0..clock' /\ roundStart' \in 0..clock'
  BY TimePasses DEF Kill
<1>2. /\ alive' \subseteq present' /\ alive' \subseteq Players
      /\ UNCHANGED <<phase, side, present, currentRound, stats>> /\ Sided'
  BY DEF Kill, IInv, Types, Sided
<1>3. board' \in [Players -> Nat]
  <2>1. \A n \in Nat : n + 1 \in Nat
    OBVIOUS
  <2>2. Team(killer) # 0 => killer \in Players
    BY TeamNumber DEF IInv, Types
  <2> QED
    BY <2>1, <2>2 DEF Kill, IInv, Types
<1>4. /\ out' = [kills |-> out'.kills, rounds |-> out'.rounds,
                 clutches |-> out'.clutches, defuses |-> out'.defuses]
      /\ out'.clutches = out.clutches \o NewClutch(alive') /\ out'.defuses = out.defuses
  BY DEF Kill, IInv, Types
<1>5. CASE NewClutch(alive') = <<>>
  <2>1. out'.clutches = out.clutches
    BY <1>4, <1>5 DEF IInv, Types
  <2>2. clutchSeen' = clutchSeen
    <3>1. {c.player : c \in Elements(<<>>)} = {}
      BY DEF Elements
    <3> QED
      BY <1>5, <3>1 DEF Kill
  <2>3. NothingAhead' /\ OneClutchEach'
    BY <1>2, <2>1, <2>2, SameClutches DEF IInv, NothingAhead
  <2>4. Types'
    BY <1>1, <1>2, <1>3, <1>4, <2>1, <2>2 DEF IInv, Types
  <2> QED
    BY <2>3, <2>4 DEF IInv
<1>6. ASSUME NEW c \in Clutches, NewClutch(alive') = <<c>>,
             c.round = currentRound, c.player \notin clutchSeen
      PROVE  IInv'
  <2>1. out'.clutches = Append(out.clutches, c)
    BY <1>4, <1>6 DEF IInv, Types
  <2>2. clutchSeen' = clutchSeen \cup {c.player}
    <3>1. Elements(<<c>>) = {c}
      BY DEF Elements
    <3> QED
      BY <1>6, <3>1 DEF Kill
  <2>3. out.clutches \in Seq(Clutches) /\ currentRound \in Nat
    BY DEF IInv, Types
  <2>4. Elements(out'.clutches) = Elements(out.clutches) \cup {c}
    BY <2>1, <2>3 DEF Elements
  <2>5. Types'
    <3>1. out'.clutches \in Seq(Clutches)
      BY <2>1, <2>3
    <3>2. clutchSeen' \subseteq Ids
      BY <2>2 DEF IInv, Types, Clutches
    <3> QED
      BY <1>1, <1>2, <1>3, <1>4, <3>1, <3>2 DEF IInv, Types
  <2>6. NothingAhead'
    <3>1. \A d \in Elements(out'.clutches) : d.round <= currentRound
      BY <1>6, <2>3, <2>4 DEF IInv, NothingAhead
    <3> QED
      BY <1>2, <3>1 DEF IInv, NothingAhead
  <2>7. clutchSeen' = {d.player : d \in {d \in Elements(out'.clutches) : d.round = currentRound'}}
    <3>1. clutchSeen = {d.player : d \in {d \in Elements(out.clutches) : d.round = currentRound}}
      BY DEF IInv, OneClutchEach
    <3> QED
      BY <1>2, <1>6, <2>2, <2>4, <3>1
  <2>8. ASSUME NEW i \in DOMAIN out'.clutches, NEW j \in DOMAIN out'.clutches,
               out'.clutches[i].round = out'.clutches[j].round,
               out'.clutches[i].player = out'.clutches[j].player
        PROVE  i = j
    <3> DEFINE n == Len(out.clutches)
    <3>1. /\ n \in Nat /\ i \in 1..(n + 1) /\ j \in 1..(n + 1)
          /\ out'.clutches[n + 1] = c
          /\ \A k \in 1..n : out'.clutches[k] = out.clutches[k] /\ k \in DOMAIN out.clutches
      BY <2>1, <2>3
    <3>2. \A k \in 1..n : ~(out.clutches[k].round = c.round /\ out.clutches[k].player = c.player)
      <4>1. \A k \in 1..n : out.clutches[k] \in Elements(out.clutches)
        BY <3>1 DEF Elements
      <4> QED
        BY <1>6, <4>1 DEF IInv, OneClutchEach
    <3>3. CASE i \in 1..n /\ j \in 1..n
      BY <2>8, <3>1, <3>3 DEF IInv, OneClutchEach
    <3>4. CASE i = n + 1 /\ j \in 1..n
      BY <2>8, <3>1, <3>2, <3>4
    <3>5. CASE i \in 1..n /\ j = n + 1
      BY <2>8, <3>1, <3>2, <3>5
    <3>6. CASE i = n + 1 /\ j = n + 1
      BY <3>6
    <3> HIDE DEF n
    <3> QED
      BY <3>1, <3>3, <3>4, <3>5, <3>6
  <2>9. OneClutchEach'
    BY <2>7, <2>8 DEF OneClutchEach
  <2> QED
    BY <2>5, <2>6, <2>9 DEF IInv
<1> QED
  <2>1. Time
    BY DEF Kill
  <2> QED
    BY <1>2, <1>5, <1>6, <2>1, ClutchOfKill

-----------------------------------------------------------------------------
(* The theorems.                                                           *)

LEMMA NextIInv == IInv /\ [Next]_vars => IInv'
<1> SUFFICES ASSUME IInv, [Next]_vars PROVE IInv'
  OBVIOUS
<1>1. CASE RoundStart
  BY <1>1, RoundStartStep
<1>2. CASE \E winner \in {0, 2, 3} : RoundEnd(winner)
  BY <1>2, RoundEndStep
<1>3. CASE \E killer \in Players \cup {NoPlayer}, victim \in Players, headshot \in Shots :
              Kill(killer, victim, headshot)
  BY <1>3, KillStep
<1>4. CASE BombPlanted \/ \E q \in Players : BombDefused(q)
  BY <1>4, BombStep
<1>5. CASE Silent \/ UNCHANGED vars
  BY <1>5, SilentStep
<1> QED
  BY <1>1, <1>2, <1>3, <1>4, <1>5 DEF Next, Silent

\* Parse's locals and what it collects stay of one piece, whatever the game does.
THEOREM Invariance == Spec => []IInv
BY InitIInv, NextIInv, PTL DEF Spec

\* Every value Parse keeps is of its type: the time left on a bomb, above all,
\* is never negative and never more than the timer.
THEOREM TypeCorrect == Spec => []TypeOK
<1>1. IInv => TypeOK
  <2> SUFFICES ASSUME IInv PROVE TypeOK
    OBVIOUS
  <2>1. \A d \in Elements(out.defuses) : d.left \in 0..C4Timer
    <3>1. \A d \in Elements(out.defuses) : d \in Defuses
      BY DEF IInv, Types, Elements
    <3>2. \A d \in Defuses : d.left \in 0..C4Timer
      BY DEF Defuses
    <3> QED
      BY <3>1, <3>2
  <2> QED
    BY <2>1 DEF IInv, Types, TypeOK, Ids
<1> QED
  BY <1>1, Invariance, PTL

\* A clutch is recorded once for each Steam id and round, and clutchSeen is
\* exactly those of the round being played.
THEOREM OneClutchARound == Spec => []OneClutchEach
<1>1. IInv => OneClutchEach
  BY DEF IInv
<1> QED
  BY <1>1, Invariance, PTL

\* A recorded clutch is the truth at the kill that began it: its player is the
\* last of their team, and the enemies counted are all those standing.
THEOREM ClutchesAreTrue == Spec => SurvivorIsAlone
<1> DEFINE New == Elements(out'.clutches) \ Elements(out.clutches)
           True(c) == /\ \E q \in Players : steamID(q) = c.player /\ alive' \cap TeamOf(c.team) = {q}
                      /\ c.enemies = Cardinality(alive' \ TeamOf(c.team))
<1>1. IInv /\ Next => \A c \in New : True(c)
  <2> SUFFICES ASSUME IInv, Next PROVE \A c \in New : True(c)
    OBVIOUS
  <2>1. CASE \E killer \in Players \cup {NoPlayer}, victim \in Players, headshot \in Shots :
                Kill(killer, victim, headshot)
    <3>1. /\ out'.clutches = out.clutches \o NewClutch(alive')
          /\ alive' \subseteq Players /\ Time /\ out.clutches \in Seq(Clutches)
      BY <2>1 DEF Kill, IInv, Types
    <3>2. CASE NewClutch(alive') = <<>>
      <4>1. out'.clutches = out.clutches
        BY <3>1, <3>2
      <4> QED
        BY <4>1
    <3>3. ASSUME NEW c \in Clutches, NewClutch(alive') = <<c>>, True(c)
          PROVE  \A d \in New : True(d)
      <4>1. out'.clutches = Append(out.clutches, c)
        BY <3>1, <3>3
      <4>2. Elements(out'.clutches) = Elements(out.clutches) \cup {c}
        BY <3>1, <4>1 DEF Elements
      <4> QED
        BY <3>3, <4>2
    <3> QED
      BY <3>1, <3>2, <3>3, ClutchOfKill
  <2>2. CASE \/ RoundStart \/ BombPlanted \/ Silent
             \/ \E winner \in {0, 2, 3} : RoundEnd(winner)
             \/ \E q \in Players : BombDefused(q)
    <3>1. out'.clutches = out.clutches
      BY <2>2 DEF RoundStart, BombPlanted, RoundEnd, BombDefused, Silent, Unresolved, SwapSides, End,
                  Truncated, Connect, Disconnect, parser, IInv, Types
    <3> QED
      BY <3>1 DEF Elements
  <2> QED
    BY <2>1, <2>2 DEF Next, Silent
<1>2. IInv /\ [Next]_vars => [\A c \in New : True(c)]_vars
  BY <1>1
<1> QED
  BY <1>2, Invariance, PTL DEF Spec, SurvivorIsAlone

\* Nobody on the scoreboard is lost from it, and their rounds never go down and
\* never exceed those of the match.
THEOREM NobodyIsLost == Spec => NobodyVanishes
<1> DEFINE Kept == \A q \in Players : stats[q].seen =>
                       /\ stats'[q].seen
                       /\ stats'[q].rounds \in stats[q].rounds..currentRound'
<1>1. IInv /\ Next => Kept
  <2> SUFFICES ASSUME IInv, Next, NEW q \in Players, stats[q].seen
               PROVE  /\ stats'[q].seen
                      /\ stats'[q].rounds \in stats[q].rounds..currentRound'
    OBVIOUS
  <2>1. stats' = stats \/ stats' = Snapshot
    <3>1. ASSUME NEW winner \in {0, 2, 3}, RoundEnd(winner)
          PROVE  stats' = stats \/ stats' = Snapshot
      BY <3>1 DEF RoundEnd
    <3>2. CASE Silent
      BY <3>2 DEF Silent, Unresolved, SwapSides, End, Truncated, Connect, Disconnect, parser
    <3>3. CASE RoundStart \/ BombPlanted
      BY <3>3 DEF RoundStart, BombPlanted
    <3>4. ASSUME NEW r \in Players, BombDefused(r)
          PROVE  stats' = stats
      BY <3>4 DEF BombDefused
    <3>5. ASSUME NEW killer \in Players \cup {NoPlayer}, NEW victim \in Players, NEW headshot \in Shots,
                 Kill(killer, victim, headshot)
          PROVE  stats' = stats
      BY <3>5 DEF Kill
    <3> QED
      BY <3>1, <3>2, <3>3, <3>4, <3>5 DEF Next, Silent
  <2>2. stats'[q].seen /\ stats[q].rounds <= stats'[q].rounds
    <3>1. stats[q].rounds \in Nat
      BY DEF IInv, Types, Rows
    <3>2. Snapshot[q].seen /\ stats[q].rounds <= Snapshot[q].rounds
      BY SnapshotRows
    <3>3. CASE stats' = stats
      BY <3>1, <3>3
    <3>4. CASE stats' = Snapshot
      BY <3>2, <3>4
    <3> QED
      BY <2>1, <3>3, <3>4
  <2>3. IInv'
    BY NextIInv
  <2>4. /\ stats[q].rounds \in Nat /\ stats'[q].rounds \in Nat
        /\ stats'[q].rounds <= currentRound' /\ currentRound' \in Nat
    BY <2>3 DEF IInv, Types, NothingAhead, Rows
  <2> QED
    BY <2>2, <2>4
<1>2. IInv /\ [Next]_vars => [Kept]_vars
  BY <1>1
<1> QED
  BY <1>2, Invariance, PTL DEF Spec, NobodyVanishes
-----------------------------------------------------------------------------
(* The order of what is collected, and what becomes of it in the tables.   *)

\* The times of the events of a sequence never go down, and none is after now.
Timed(seq, now) ==
    /\ \A i \in 1..Len(seq) : seq[i].time \in Nat /\ seq[i].time <= now
    /\ \A i, j \in 1..Len(seq) : i <= j => seq[i].time <= seq[j].time

Kills == [round : Nat, time : 0..Horizon, killer : Ids \cup {steamID(NoPlayer)}, victim : Ids,
          killerTeam : {0, 2, 3}, victimTeam : {2, 3}, headshot : BOOLEAN]

InTime ==
    /\ out.kills \in Seq(Kills)
    /\ Timed(out.kills, clock) /\ Timed(out.clutches, clock) /\ Timed(out.defuses, clock)

\* Rounds are recorded in the order of their numbers, each of them once, and the
\* one being played is not yet among them.
Counted(rounds, current, live) ==
    /\ \A i \in 1..Len(rounds) : rounds[i].number \in Nat /\ rounds[i].number <= current
    /\ \A i, j \in 1..Len(rounds) : i < j => rounds[i].number < rounds[j].number
    /\ live => \A i \in 1..Len(rounds) : rounds[i].number < current

RoundRows == [number : Nat, start : 0..Horizon, end : 0..Horizon, winner : {0, 2, 3}]

InTurn == out.rounds \in Seq(RoundRows) /\ Counted(out.rounds, currentRound, phase = "live")

OInv == InTime /\ InTurn

LEMMA TimedLater ==
  ASSUME NEW S, NEW seq \in Seq(S), NEW now \in Nat, NEW later \in Nat, now <= later, Timed(seq, now)
  PROVE  Timed(seq, later)
BY DEF Timed

LEMMA TimedAppend ==
  ASSUME NEW S, NEW seq \in Seq(S), NEW now \in Nat, NEW later \in Nat, now <= later,
         Timed(seq, now), NEW e \in S, e.time = later
  PROVE  Timed(Append(seq, e), later)
<1> DEFINE n == Len(seq)
           s == Append(seq, e)
<1>1. /\ n \in Nat /\ Len(s) = n + 1 /\ s[n + 1] = e
      /\ \A i \in 1..n : s[i] = seq[i]
  OBVIOUS
<1>2. \A i \in 1..(n + 1) : i \in 1..n \/ i = n + 1
  BY <1>1
<1>3. /\ \A i \in 1..n : seq[i].time \in Nat /\ seq[i].time <= now
      /\ \A i, j \in 1..n : i <= j => seq[i].time <= seq[j].time
  BY DEF Timed
<1> HIDE DEF n, s
<1>4. \A i \in 1..(n + 1) : s[i].time \in Nat /\ s[i].time <= later
  BY <1>1, <1>2, <1>3
<1>5. \A i, j \in 1..(n + 1) : i <= j => s[i].time <= s[j].time
  BY <1>1, <1>2, <1>3, <1>4
<1>6. Timed(s, later)
  BY <1>1, <1>4, <1>5 DEF Timed
<1> QED
  BY <1>6 DEF s

LEMMA CountedAppend ==
  ASSUME NEW S, NEW rounds \in Seq(S), NEW current \in Nat, Counted(rounds, current, TRUE),
         NEW r \in S, r.number = current
  PROVE  Counted(Append(rounds, r), current, FALSE)
<1> DEFINE n == Len(rounds)
           s == Append(rounds, r)
<1>1. /\ n \in Nat /\ Len(s) = n + 1 /\ s[n + 1] = r
      /\ \A i \in 1..n : s[i] = rounds[i]
  OBVIOUS
<1>2. \A i \in 1..(n + 1) : i \in 1..n \/ i = n + 1
  BY <1>1
<1>3. /\ \A i \in 1..n : rounds[i].number \in Nat /\ rounds[i].number < current
      /\ \A i, j \in 1..n : i < j => rounds[i].number < rounds[j].number
  BY DEF Counted
<1> HIDE DEF n, s
<1>4. \A i \in 1..(n + 1) : s[i].number \in Nat /\ s[i].number <= current
  BY <1>1, <1>2, <1>3
<1>5. \A i, j \in 1..(n + 1) : i < j => s[i].number < s[j].number
  BY <1>1, <1>2, <1>3
<1>6. Counted(s, current, FALSE)
  BY <1>1, <1>4, <1>5 DEF Counted
<1> QED
  BY <1>6 DEF s

LEMMA Interval ==
  ASSUME NEW n \in Nat
  PROVE  Cardinality(1..n) = n
<1>1. Cardinality(1..n) = IF 1 > n THEN 0 ELSE n - 1 + 1
  BY FS_Interval
<1> QED
  BY <1>1

\* Sorted by their times, rows that already are in that order stay as they are:
\* the ids decide between those of one tick.
LEMMA ByTimeKeeps ==
  ASSUME NEW S, NEW seq \in Seq(S), NEW now, Timed(seq, now)
  PROVE  ByTime(seq) = seq
<1> DEFINE n == Len(seq)
           Sooner(j, i) == \/ seq[j].time < seq[i].time
                           \/ (seq[j].time = seq[i].time /\ j < i)
           place(i) == Cardinality({j \in 1..n : Sooner(j, i)})
<1>1. n \in Nat /\ DOMAIN seq = 1..n /\ seq = [k \in 1..n |-> seq[k]]
  OBVIOUS
<1>2. \A i \in 1..n : place(i) = i - 1
  <2> SUFFICES ASSUME NEW i \in 1..n PROVE place(i) = i - 1
    OBVIOUS
  <2>1. \A j \in 1..n : Sooner(j, i) <=> j < i
    BY <1>1 DEF Timed
  <2>2. {j \in 1..n : Sooner(j, i)} = 1..(i - 1)
    BY <1>1, <2>1
  <2>3. i - 1 \in Nat
    BY <1>1
  <2>4. Cardinality(1..(i - 1)) = i - 1
    BY <2>3, Interval
  <2> QED
    BY <2>2, <2>4
<1>3. ByTime(seq) = [k \in 1..Cardinality(1..n) |-> seq[CHOOSE i \in 1..n : place(i) = k - 1]]
  BY <1>1 DEF ByTime, InOrder
<1>4. Cardinality(1..n) = n
  BY <1>1, Interval
<1> HIDE DEF place
<1>5. \A k \in 1..n : (CHOOSE i \in 1..n : place(i) = k - 1) = k
  BY <1>1, <1>2
<1> HIDE DEF n
<1> QED
  BY <1>1, <1>3, <1>4, <1>5

\* No round is dropped for having the number of another, and sorted by their
\* numbers they stay as they are.
LEMMA ByNumberKeeps ==
  ASSUME NEW S, NEW rounds \in Seq(S), NEW current, NEW live, Counted(rounds, current, live)
  PROVE  ByNumber(rounds) = rounds
<1> DEFINE n == Len(rounds)
           place(i) == Cardinality({j \in 1..n : rounds[j].number < rounds[i].number})
<1>1. n \in Nat /\ DOMAIN rounds = 1..n /\ rounds = [k \in 1..n |-> rounds[k]]
  OBVIOUS
<1>2. StoredRounds(rounds) = 1..n
  <2>1. \A i \in 1..n : \A j \in 1..(i - 1) : rounds[j].number # rounds[i].number
    <3> SUFFICES ASSUME NEW i \in 1..n, NEW j \in 1..(i - 1)
                 PROVE  rounds[j].number # rounds[i].number
      OBVIOUS
    <3>1. j \in 1..n /\ j < i
      BY <1>1
    <3> QED
      BY <1>1, <3>1 DEF Counted
  <2> QED
    BY <1>1, <2>1 DEF StoredRounds
<1>3. \A i \in 1..n : place(i) = i - 1
  <2> SUFFICES ASSUME NEW i \in 1..n PROVE place(i) = i - 1
    OBVIOUS
  <2>1. \A j \in 1..n : rounds[j].number < rounds[i].number <=> j < i
    BY <1>1 DEF Counted
  <2>2. {j \in 1..n : rounds[j].number < rounds[i].number} = 1..(i - 1)
    BY <1>1, <2>1
  <2>3. i - 1 \in Nat
    BY <1>1
  <2>4. Cardinality(1..(i - 1)) = i - 1
    BY <2>3, Interval
  <2> QED
    BY <2>2, <2>4
<1>4. ByNumber(rounds) = [k \in 1..Cardinality(1..n) |-> rounds[CHOOSE i \in 1..n : place(i) = k - 1]]
  BY <1>2 DEF ByNumber, InOrder
<1>5. Cardinality(1..n) = n
  BY <1>1, Interval
<1> HIDE DEF place
<1>6. \A k \in 1..n : (CHOOSE i \in 1..n : place(i) = k - 1) = k
  BY <1>1, <1>3
<1> HIDE DEF n
<1> QED
  BY <1>1, <1>4, <1>5, <1>6
-----------------------------------------------------------------------------
(* What the columns keep of the events.                                    *)

LEMMA ListOf ==
  ASSUME NEW S, NEW n \in Nat, NEW f, f = [i \in 1..n |-> f[i]], \A i \in 1..n : f[i] \in S
  PROVE  f \in Seq(S) /\ Len(f) = n
<1>1. f \in [1..n -> S]
  OBVIOUS
<1> QED
  BY <1>1

LEMMA NarrowedKill ==
  ASSUME NEW k \in Kills
  PROVE  LET s == [k EXCEPT !.time = Narrow[@]] IN
         /\ s \in Kills /\ s.time = Narrow[k.time] /\ k.time \in 0..Horizon
         /\ s.round = k.round /\ s.killer = k.killer /\ s.victim = k.victim
         /\ s.killerTeam = k.killerTeam /\ s.victimTeam = k.victimTeam /\ s.headshot = k.headshot
BY NarrowAssumption DEF Kills

LEMMA NarrowedClutch ==
  ASSUME NEW k \in Clutches
  PROVE  LET s == [k EXCEPT !.time = Narrow[@]] IN
         /\ s \in Clutches /\ s.time = Narrow[k.time] /\ k.time \in 0..Horizon
         /\ s.round = k.round /\ s.player = k.player /\ s.team = k.team /\ s.enemies = k.enemies
BY NarrowAssumption DEF Clutches

LEMMA NarrowedDefuse ==
  ASSUME NEW k \in Defuses
  PROVE  LET s == [k EXCEPT !.time = Narrow[@], !.left = Narrow[@]] IN
         /\ s.time = Narrow[k.time] /\ k.time \in 0..Horizon
         /\ s.left = Narrow[k.left] /\ k.left \in 0..Horizon
         /\ s.round = k.round /\ s.player = k.player
<1>1. k.left \in 0..Horizon
  BY NarrowAssumption, TimerAssumption DEF Defuses
<1> QED
  BY <1>1, NarrowAssumption DEF Defuses

LEMMA NarrowedRound ==
  ASSUME NEW k \in RoundRows
  PROVE  LET s == [k EXCEPT !.start = Narrow[@], !.end = Narrow[@]] IN
         /\ s \in RoundRows /\ s.end = Narrow[k.end] /\ k.end \in 0..Horizon
         /\ s.number = k.number /\ s.winner = k.winner
BY NarrowAssumption DEF RoundRows

\* The order of times survives that of their columns, if with more ties.
LEMMA TimedNarrow ==
  ASSUME NEW seq, NEW cols, NEW now, Timed(seq, now), Len(seq) \in Nat, Len(cols) = Len(seq),
         \A i \in 1..Len(seq) : seq[i].time \in 0..Horizon /\ cols[i].time = Narrow[seq[i].time]
  PROVE  Timed(cols, Horizon)
<1>1. \A i \in 1..Len(seq) : cols[i].time \in 0..Horizon
  BY NarrowAssumption
<1>2. \A i, j \in 1..Len(seq) : i <= j => cols[i].time <= cols[j].time
  <2> SUFFICES ASSUME NEW i \in 1..Len(seq), NEW j \in 1..Len(seq), i <= j
               PROVE  cols[i].time <= cols[j].time
    OBVIOUS
  <2>1. seq[i].time <= seq[j].time
    BY DEF Timed
  <2>2. \A s, t \in 0..Horizon : s <= t => Narrow[s] <= Narrow[t]
    BY NarrowAssumption
  <2> QED
    BY <2>1, <2>2
<1>3. Horizon \in Nat
  BY NarrowAssumption
<1> QED
  BY <1>1, <1>2, <1>3 DEF Timed

LEMMA KillColumns ==
  ASSUME IInv, OInv
  PROVE  LET n == Len(out.kills)  k == out.kills  c == Columns(out).kills IN
         /\ n \in Nat /\ DOMAIN k = 1..n /\ DOMAIN c = 1..n /\ c \in Seq(Kills) /\ Timed(c, Horizon)
         /\ \A i \in 1..n :
               /\ c[i].time = Narrow[k[i].time] /\ k[i].time \in 0..Horizon
               /\ c[i].round = k[i].round /\ c[i].killer = k[i].killer /\ c[i].victim = k[i].victim
               /\ c[i].killerTeam = k[i].killerTeam /\ c[i].victimTeam = k[i].victimTeam
               /\ c[i].headshot = k[i].headshot
<1> DEFINE n == Len(out.kills)
           k == out.kills
           c == Columns(out).kills
<1>1. k \in Seq(Kills) /\ Timed(k, clock)
  BY DEF OInv, InTime
<1>2. n \in Nat /\ DOMAIN k = 1..n /\ \A i \in 1..n : k[i] \in Kills
  BY <1>1
<1>3. c = [i \in 1..n |-> [k[i] EXCEPT !.time = Narrow[@]]]
  BY <1>2 DEF Columns
<1>4. \A i \in 1..n :
         /\ c[i] \in Kills
         /\ c[i].time = Narrow[k[i].time] /\ k[i].time \in 0..Horizon
         /\ c[i].round = k[i].round /\ c[i].killer = k[i].killer /\ c[i].victim = k[i].victim
         /\ c[i].killerTeam = k[i].killerTeam /\ c[i].victimTeam = k[i].victimTeam
         /\ c[i].headshot = k[i].headshot
  BY <1>2, <1>3, NarrowedKill
<1>5. DOMAIN c = 1..n /\ c = [i \in 1..n |-> c[i]]
  BY <1>3
<1> HIDE DEF c
<1>6. c \in Seq(Kills) /\ Len(c) = n
  <2>1. \A i \in 1..n : c[i] \in Kills
    BY <1>4
  <2> HIDE DEF n
  <2> QED
    BY <1>2, <1>5, <2>1, ListOf
<1>7. Timed(c, Horizon)
  BY <1>1, <1>2, <1>4, <1>6, TimedNarrow
<1> QED
  BY <1>2, <1>4, <1>5, <1>6, <1>7 DEF c

LEMMA ClutchColumns ==
  ASSUME IInv, OInv
  PROVE  LET n == Len(out.clutches)  k == out.clutches  c == Columns(out).clutches IN
         /\ n \in Nat /\ DOMAIN k = 1..n /\ DOMAIN c = 1..n /\ c \in Seq(Clutches) /\ Timed(c, Horizon)
         /\ \A i \in 1..n :
               /\ c[i].time = Narrow[k[i].time] /\ k[i].time \in 0..Horizon
               /\ c[i].round = k[i].round /\ c[i].player = k[i].player /\ c[i].team = k[i].team
               /\ c[i].enemies = k[i].enemies
<1> DEFINE n == Len(out.clutches)
           k == out.clutches
           c == Columns(out).clutches
<1>1. k \in Seq(Clutches) /\ Timed(k, clock)
  BY DEF OInv, InTime, IInv, Types
<1>2. n \in Nat /\ DOMAIN k = 1..n /\ \A i \in 1..n : k[i] \in Clutches
  BY <1>1
<1>3. c = [i \in 1..n |-> [k[i] EXCEPT !.time = Narrow[@]]]
  BY <1>2 DEF Columns
<1>4. \A i \in 1..n :
         /\ c[i] \in Clutches
         /\ c[i].time = Narrow[k[i].time] /\ k[i].time \in 0..Horizon
         /\ c[i].round = k[i].round /\ c[i].player = k[i].player /\ c[i].team = k[i].team
         /\ c[i].enemies = k[i].enemies
  BY <1>2, <1>3, NarrowedClutch
<1>5. DOMAIN c = 1..n /\ c = [i \in 1..n |-> c[i]]
  BY <1>3
<1> HIDE DEF c
<1>6. c \in Seq(Clutches) /\ Len(c) = n
  <2>1. \A i \in 1..n : c[i] \in Clutches
    BY <1>4
  <2> HIDE DEF n
  <2> QED
    BY <1>2, <1>5, <2>1, ListOf
<1>7. Timed(c, Horizon)
  BY <1>1, <1>2, <1>4, <1>6, TimedNarrow
<1> QED
  BY <1>2, <1>4, <1>5, <1>6, <1>7 DEF c

LEMMA DefuseColumns ==
  ASSUME IInv, OInv
  PROVE  LET n == Len(out.defuses)  k == out.defuses  c == Columns(out).defuses IN
         /\ n \in Nat /\ DOMAIN k = 1..n /\ DOMAIN c = 1..n /\ c \in Seq(Range(c)) /\ Timed(c, Horizon)
         /\ \A i \in 1..n :
               /\ c[i].time = Narrow[k[i].time] /\ k[i].time \in 0..Horizon
               /\ c[i].left = Narrow[k[i].left] /\ k[i].left \in 0..Horizon
               /\ c[i].round = k[i].round /\ c[i].player = k[i].player
<1> DEFINE n == Len(out.defuses)
           k == out.defuses
           c == Columns(out).defuses
<1>1. k \in Seq(Defuses) /\ Timed(k, clock)
  BY DEF OInv, InTime, IInv, Types
<1>2. n \in Nat /\ DOMAIN k = 1..n /\ \A i \in 1..n : k[i] \in Defuses
  BY <1>1
<1>3. c = [i \in 1..n |-> [k[i] EXCEPT !.time = Narrow[@], !.left = Narrow[@]]]
  BY <1>2 DEF Columns
<1>4. \A i \in 1..n :
         /\ c[i].time = Narrow[k[i].time] /\ k[i].time \in 0..Horizon
         /\ c[i].left = Narrow[k[i].left] /\ k[i].left \in 0..Horizon
         /\ c[i].round = k[i].round /\ c[i].player = k[i].player
  BY <1>2, <1>3, NarrowedDefuse
<1>5. DOMAIN c = 1..n /\ c = [i \in 1..n |-> c[i]]
  BY <1>3
<1> HIDE DEF c
<1>6. c \in Seq(Range(c)) /\ Len(c) = n
  BY <1>2, <1>5, ListOf DEF Range
<1>7. Timed(c, Horizon)
  BY <1>1, <1>2, <1>4, <1>6, TimedNarrow
<1> QED
  BY <1>2, <1>4, <1>5, <1>6, <1>7 DEF c

LEMMA RoundColumns ==
  ASSUME IInv, OInv
  PROVE  LET n == Len(out.rounds)  k == out.rounds  c == Columns(out).rounds IN
         /\ n \in Nat /\ DOMAIN k = 1..n /\ DOMAIN c = 1..n /\ c \in Seq(RoundRows)
         /\ Counted(c, currentRound, phase = "live")
         /\ \A i, j \in 1..n : k[i].number = k[j].number => i = j
         /\ \A i \in 1..n : /\ c[i].end = Narrow[k[i].end] /\ k[i].end \in 0..Horizon
                            /\ c[i].number = k[i].number /\ c[i].winner = k[i].winner
<1> DEFINE n == Len(out.rounds)
           k == out.rounds
           c == Columns(out).rounds
<1>1. k \in Seq(RoundRows) /\ Counted(k, currentRound, phase = "live")
  BY DEF OInv, InTurn
<1>2. n \in Nat /\ DOMAIN k = 1..n /\ \A i \in 1..n : k[i] \in RoundRows
  BY <1>1
<1>3. c = [i \in 1..n |-> [k[i] EXCEPT !.start = Narrow[@], !.end = Narrow[@]]]
  BY <1>2 DEF Columns
<1>4. \A i \in 1..n :
         /\ c[i] \in RoundRows /\ c[i].end = Narrow[k[i].end] /\ k[i].end \in 0..Horizon
         /\ c[i].number = k[i].number /\ c[i].winner = k[i].winner
  BY <1>2, <1>3, NarrowedRound
<1>5. DOMAIN c = 1..n /\ c = [i \in 1..n |-> c[i]]
  BY <1>3
<1> HIDE DEF c
<1>6. c \in Seq(RoundRows) /\ Len(c) = n
  BY <1>2, <1>4, <1>5, ListOf
<1>7. Counted(c, currentRound, phase = "live")
  BY <1>1, <1>4, <1>6 DEF Counted
<1>8. \A i, j \in 1..n : k[i].number = k[j].number => i = j
  <2> SUFFICES ASSUME NEW i \in 1..n, NEW j \in 1..n, k[i].number = k[j].number PROVE i = j
    OBVIOUS
  <2>1. k[i].number \in Nat /\ ~(i < j) /\ ~(j < i)
    BY <1>1 DEF Counted
  <2> QED
    BY <1>2, <2>1
<1> QED
  BY <1>2, <1>4, <1>5, <1>6, <1>7, <1>8 DEF c

\* What loadEvents returns is what Complete stored, in the order it was given.
LEMMA ReloadKeeps ==
  ASSUME IInv, OInv
  PROVE  Reload(out) = Columns(out)
<1> DEFINE c == Columns(out)
<1>1. ByTime(c.kills) = c.kills
  BY KillColumns, ByTimeKeeps
<1>2. ByTime(c.clutches) = c.clutches
  BY ClutchColumns, ByTimeKeeps
<1>3. ByTime(c.defuses) = c.defuses
  BY DefuseColumns, ByTimeKeeps
<1>4. ByNumber(c.rounds) = c.rounds
  BY RoundColumns, ByNumberKeeps
<1>5. c = [kills |-> c.kills, rounds |-> c.rounds, clutches |-> c.clutches, defuses |-> c.defuses]
  BY DEF Columns
<1> HIDE DEF c
<1>6. Reload(out) = [kills |-> ByTime(c.kills), rounds |-> ByNumber(c.rounds),
                     clutches |-> ByTime(c.clutches), defuses |-> ByTime(c.defuses)]
  BY DEF Reload, c
<1> QED
  BY <1>1, <1>2, <1>3, <1>4, <1>5, <1>6 DEF c
-----------------------------------------------------------------------------
(* The same highlights, but for the narrowing of their times.              *)

LEMMA Narrowed ==
  ASSUME NEW t \in 0..Horizon
  PROVE  t \in Nat /\ Narrow[t] \in Nat /\ Near(Narrow[t], t) /\ Narrow[0] = 0
BY NarrowAssumption DEF Near

\* A window moves no further than the times it is made of.
LEMMA NearWindow ==
  ASSUME NEW s \in Nat, NEW t \in Nat, Near(s, t)
  PROVE  Near(WindowStart(s), WindowStart(t)) /\ Near(WindowEnd(s), WindowEnd(t))
BY RollsAssumption, NarrowAssumption DEF Near, WindowStart, WindowEnd

LEMMA SameMoment ==
  ASSUME NEW kind, NEW player, NEW round, NEW from \in 0..Horizon, NEW to \in 0..Horizon, NEW score
  PROVE  Rederived(Highlight(kind, player, round, from, to, score, 0),
                   Highlight(kind, player, round, Narrow[from], Narrow[to], score, 0))
<1> DEFINE h == Highlight(kind, player, round, from, to, score, 0)
           g == Highlight(kind, player, round, Narrow[from], Narrow[to], score, 0)
<1>1. /\ g.kind = h.kind /\ g.player = h.player /\ g.round = h.round /\ g.score = h.score
      /\ g.left = 0 /\ h.left = 0
      /\ g.start = WindowStart(Narrow[from]) /\ h.start = WindowStart(from)
      /\ g.end = WindowEnd(Narrow[to]) /\ h.end = WindowEnd(to)
  BY DEF Highlight
<1>2. Near(g.start, h.start) /\ Near(g.end, h.end)
  BY <1>1, Narrowed, NearWindow
<1> HIDE DEF g, h
<1>3. Near(g.left, h.left)
  <2>1. 0 <= 0 + Ulp
    BY NarrowAssumption
  <2> QED
    BY <1>1, <2>1 DEF Near
<1>4. Rederived(h, g)
  BY <1>1, <1>2, <1>3 DEF Rederived
<1> QED
  BY <1>4 DEF g, h

\* A defuse stays one, and tight as long as less than Tight is left on it.
LEMMA SameDefuse ==
  ASSUME NEW player, NEW round, NEW time \in 0..Horizon, NEW left \in 0..Horizon
  PROVE  LET Score(l) == IF l > 0 /\ l < Tight THEN 50 ELSE 20
         IN Rederived(Highlight("defuse", player, round, time, time, Score(left), left),
                      Highlight("defuse", player, round, Narrow[time], Narrow[time],
                                Score(Narrow[left]), Narrow[left]))
<1> DEFINE Score(l) == IF l > 0 /\ l < Tight THEN 50 ELSE 20
           h == Highlight("defuse", player, round, time, time, Score(left), left)
           g == Highlight("defuse", player, round, Narrow[time], Narrow[time],
                          Score(Narrow[left]), Narrow[left])
<1>1. /\ g.kind = h.kind /\ g.player = h.player /\ g.round = h.round
      /\ g.score = Score(Narrow[left]) /\ h.score = Score(left)
      /\ g.left = Narrow[left] /\ h.left = left
      /\ g.start = WindowStart(Narrow[time]) /\ h.start = WindowStart(time)
      /\ g.end = WindowEnd(Narrow[time]) /\ h.end = WindowEnd(time)
  BY DEF Highlight
<1>2. Near(g.start, h.start) /\ Near(g.end, h.end) /\ Near(g.left, h.left)
  BY <1>1, Narrowed, NearWindow
<1>3. \/ Score(Narrow[left]) = Score(left)
      \/ Score(left) = 50 /\ Score(Narrow[left]) = 20 /\ Narrow[left] = Tight
  <2>1. /\ Narrow[left] \in Nat /\ left \in Nat /\ Tight \in Nat
        /\ Narrow[left] = 0 <=> left = 0
    BY NarrowAssumption
  <2>2. left <= Tight => Narrow[left] <= Tight
    BY NarrowAssumption
  <2>3. Tight <= left => Tight <= Narrow[left]
    BY NarrowAssumption
  <2> QED
    BY <2>1, <2>2, <2>3
<1> HIDE DEF g, h, Score
<1>4. Rederived(h, g)
  BY <1>1, <1>2, <1>3 DEF Rederived
<1> QED
  BY <1>4 DEF g, h, Score

LEMMA AlikeDefuses ==
  ASSUME IInv, OInv
  PROVE  Alike(detectDefuses(out), detectDefuses(Columns(out)))
<1> DEFINE n == Len(out.defuses)
           c == Columns(out)
           Of(d) == Highlight("defuse", d.player, d.round, d.time, d.time,
                              IF d.left > 0 /\ d.left < Tight THEN 50 ELSE 20, d.left)
<1>1. \A i \in 1..n : Rederived(Of(out.defuses[i]), Of(c.defuses[i]))
  <2> SUFFICES ASSUME NEW i \in 1..n PROVE Rederived(Of(out.defuses[i]), Of(c.defuses[i]))
    OBVIOUS
  <2> DEFINE d == out.defuses[i]
             e == c.defuses[i]
  <2>1. /\ d.time \in 0..Horizon /\ d.left \in 0..Horizon
        /\ e.time = Narrow[d.time] /\ e.left = Narrow[d.left] /\ e.round = d.round /\ e.player = d.player
    BY DefuseColumns
  <2> HIDE DEF d, e
  <2>2. Rederived(Of(d), Of(e))
    BY <2>1, SameDefuse
  <2> QED
    BY <2>2 DEF d, e
<1>2. /\ detectDefuses(out) = {Of(out.defuses[i]) : i \in 1..n}
      /\ detectDefuses(c) = {Of(c.defuses[i]) : i \in 1..n}
  <2>1. /\ Elements(out.defuses) = {out.defuses[i] : i \in 1..n}
        /\ Elements(c.defuses) = {c.defuses[i] : i \in 1..n}
    BY DefuseColumns DEF Elements
  <2>2. \A p : detectDefuses(p) = {Of(d) : d \in Elements(p.defuses)}
    BY DEF detectDefuses
  <2> HIDE DEF Of, n, c
  <2> QED
    BY <2>1, <2>2
<1> HIDE DEF Of, n, c
<1>3. Alike(detectDefuses(out), detectDefuses(c))
  BY <1>1, <1>2 DEF Alike
<1> QED
  BY <1>3 DEF c

LEMMA AlikeOpeningDuels ==
  ASSUME IInv, OInv
  PROVE  Alike(detectOpeningDuels(out), detectOpeningDuels(Columns(out)))
<1> DEFINE n == Len(out.kills)
           k == out.kills
           s == Columns(out).kills
           Duel(e) == e.killer # NoPlayer /\ e.killerTeam # e.victimTeam
           \* In a list in order of its times the first is the one that comes first.
           Earliest(i) == \A j \in 1..n : Duel(k[j]) /\ k[j].round = k[i].round => i <= j
           Openers == {i \in 1..n : Duel(k[i]) /\ Earliest(i)}
           Made(e) == Highlight("opening_duel", e.killer, e.round, e.time, e.time, 10, 0)
<1>1. /\ n \in Nat /\ DOMAIN k = 1..n /\ DOMAIN s = 1..n /\ Timed(s, Horizon) /\ Len(s) = n
      /\ \A i \in 1..n :
            /\ s[i].time = Narrow[k[i].time] /\ k[i].time \in 0..Horizon
            /\ s[i].round = k[i].round /\ s[i].killer = k[i].killer
            /\ s[i].killerTeam = k[i].killerTeam /\ s[i].victimTeam = k[i].victimTeam
  BY KillColumns
<1>2. Timed(k, clock) /\ Len(k) = n
  BY DEF OInv, InTime
<1>3. \A i, j \in 1..n : /\ (k[i].time < k[j].time \/ (k[i].time = k[j].time /\ i <= j)) <=> i <= j
                         /\ (s[i].time < s[j].time \/ (s[i].time = s[j].time /\ i <= j)) <=> i <= j
  BY <1>1, <1>2 DEF Timed
<1>4. detectOpeningDuels(out) = {Made(k[i]) : i \in Openers}
  <2> DEFINE First(i) == \A j \in DOMAIN k : Duel(k[j]) /\ k[j].round = k[i].round =>
                             k[i].time < k[j].time \/ (k[i].time = k[j].time /\ i <= j)
  <2>1. detectOpeningDuels(out) = {Made(k[i]) : i \in {i \in DOMAIN k : Duel(k[i]) /\ First(i)}}
    BY DEF detectOpeningDuels
  <2>2. \A i \in 1..n : First(i) <=> Earliest(i)
    BY <1>1, <1>3
  <2>3. {i \in DOMAIN k : Duel(k[i]) /\ First(i)} = Openers
    BY <1>1, <2>2
  <2> HIDE DEF First, Made, Openers
  <2> QED
    BY <2>1, <2>3
<1>5. detectOpeningDuels(Columns(out)) = {Made(s[i]) : i \in Openers}
  <2> DEFINE First(i) == \A j \in DOMAIN s : Duel(s[j]) /\ s[j].round = s[i].round =>
                             s[i].time < s[j].time \/ (s[i].time = s[j].time /\ i <= j)
  <2>1. detectOpeningDuels(Columns(out)) = {Made(s[i]) : i \in {i \in DOMAIN s : Duel(s[i]) /\ First(i)}}
    BY DEF detectOpeningDuels
  <2>2. \A i \in 1..n : First(i) <=> Earliest(i)
    BY <1>1, <1>3
  <2>3. \A i \in 1..n : Duel(s[i]) <=> Duel(k[i])
    BY <1>1
  <2>4. {i \in DOMAIN s : Duel(s[i]) /\ First(i)} = Openers
    BY <1>1, <2>2, <2>3
  <2> HIDE DEF First, Made, Openers
  <2> QED
    BY <2>1, <2>4
<1>6. \A i \in Openers : Rederived(Made(k[i]), Made(s[i]))
  BY <1>1, SameMoment
<1> HIDE DEF Made, Openers, k, s
<1> QED
  BY <1>4, <1>5, <1>6 DEF Alike

\* Of some numbers, some have the fewest others before them.
LEMMA LeastOf ==
  ASSUME NEW n \in Nat, NEW S \in SUBSET (1..n), S # {}
  PROVE  Min(S) \in S
<1> DEFINE Before(i) == {j \in S : j < i}
           All == {Before(i) : i \in S}
<1>1. IsFiniteSet(S)
  <2>1. IsFiniteSet(1..n)
    BY FS_Interval
  <2> QED
    BY <2>1, FS_Subset
<1>2. All \subseteq FiniteSubsetsOf(S) /\ All # {}
  <2>1. \A B \in SUBSET S : IsFiniteSet(B)
    BY <1>1, FS_Subset
  <2> QED
    BY <2>1 DEF FiniteSubsetsOf
<1>3. PICK B \in All : \A C \in All : ~(<<C, B>> \in StrictSubsetOrdering(S))
  BY <1>1, <1>2, FS_StrictSubsetOrderingWellFounded, WFMin
<1>4. PICK x \in S : B = Before(x)
  OBVIOUS
<1>5. \A y \in S : x <= y
  <2> SUFFICES ASSUME NEW y \in S, y < x PROVE FALSE
    OBVIOUS
  <2>1. Before(y) \subseteq Before(x) /\ y \in Before(x) /\ y \notin Before(y)
    <3>1. x \in Int /\ y \in Int /\ ~(y < y)
      OBVIOUS
    <3>2. \A j \in S : j < y => j < x
      BY <3>1
    <3> QED
      BY <3>1, <3>2
  <2>2. Before(y) \in All /\ Before(x) \in SUBSET S /\ Before(y) \in SUBSET S
    OBVIOUS
  <2> HIDE DEF All, Before
  <2> QED
    BY <1>3, <1>4, <2>1, <2>2 DEF StrictSubsetOrdering
<1> QED
  BY <1>5 DEF Min

LEMMA GreatestOf ==
  ASSUME NEW n \in Nat, NEW S \in SUBSET (1..n), S # {}
  PROVE  Max(S) \in S
<1> DEFINE After(i) == {j \in S : j > i}
           All == {After(i) : i \in S}
<1>1. IsFiniteSet(S)
  <2>1. IsFiniteSet(1..n)
    BY FS_Interval
  <2> QED
    BY <2>1, FS_Subset
<1>2. All \subseteq FiniteSubsetsOf(S) /\ All # {}
  <2>1. \A B \in SUBSET S : IsFiniteSet(B)
    BY <1>1, FS_Subset
  <2> QED
    BY <2>1 DEF FiniteSubsetsOf
<1>3. PICK B \in All : \A C \in All : ~(<<C, B>> \in StrictSubsetOrdering(S))
  BY <1>1, <1>2, FS_StrictSubsetOrderingWellFounded, WFMin
<1>4. PICK x \in S : B = After(x)
  OBVIOUS
<1>5. \A y \in S : x >= y
  <2> SUFFICES ASSUME NEW y \in S, y > x PROVE FALSE
    OBVIOUS
  <2>1. After(y) \subseteq After(x) /\ y \in After(x) /\ y \notin After(y)
    <3>1. x \in Int /\ y \in Int /\ ~(y > y)
      OBVIOUS
    <3>2. \A j \in S : j > y => j > x
      BY <3>1
    <3> QED
      BY <3>1, <3>2
  <2>2. After(y) \in All /\ After(x) \in SUBSET S /\ After(y) \in SUBSET S
    OBVIOUS
  <2> HIDE DEF All, After
  <2> QED
    BY <1>3, <1>4, <2>1, <2>2 DEF StrictSubsetOrdering
<1> QED
  BY <1>5 DEF Max

\* Which kills are a player's of a round does not depend on their times.
LEMMA AlikeMultiKills ==
  ASSUME IInv, OInv
  PROVE  Alike(detectMultiKills(out), detectMultiKills(Columns(out)))
<1> DEFINE n == Len(out.kills)
           k == out.kills
           c == Columns(out)
           s == c.kills
           Big(r, q) == Cardinality(KillsOf(out, r, q)) >= MultiKillSize
<1>1. /\ n \in Nat /\ DOMAIN k = 1..n /\ DOMAIN s = 1..n
      /\ \A i \in 1..n :
            /\ s[i].time = Narrow[k[i].time] /\ k[i].time \in 0..Horizon
            /\ s[i].round = k[i].round /\ s[i].killer = k[i].killer /\ s[i].victim = k[i].victim
            /\ s[i].killerTeam = k[i].killerTeam /\ s[i].victimTeam = k[i].victimTeam
            /\ s[i].headshot = k[i].headshot
  BY KillColumns
<1>2. \A r, q : KillsOf(c, r, q) = KillsOf(out, r, q)
  BY <1>1 DEF KillsOf, CountsForMultiKill
<1>3. ASSUME NEW r, NEW q, Big(r, q)
      PROVE  Rederived(MultiKill(out, r, q), MultiKill(c, r, q))
  <2> DEFINE of == KillsOf(out, r, q)
             heads == {i \in of : k[i].headshot}
             score == 10 * Cardinality(of) + Cardinality(heads)
  <2>1. of \in SUBSET (1..n)
    BY <1>1 DEF KillsOf
  <2>2. of # {}
    BY <1>3, FS_EmptySet, RollsAssumption
  <2>3. Min(of) \in 1..n /\ Max(of) \in 1..n
    <3> HIDE DEF of, n
    <3> QED
      BY <1>1, <2>1, <2>2, LeastOf, GreatestOf
  <2>4. {i \in of : s[i].headshot} = heads
    BY <1>1, <2>1
  <2>5. MultiKill(out, r, q) = Highlight("multi_kill", q, r, k[Min(of)].time, k[Max(of)].time, score, 0)
    BY DEF MultiKill
  <2>6. MultiKill(c, r, q) = Highlight("multi_kill", q, r, s[Min(of)].time, s[Max(of)].time, score, 0)
    BY <1>2, <2>4 DEF MultiKill
  <2> HIDE DEF of, score, k, s
  <2> QED
    BY <1>1, <2>3, <2>5, <2>6, SameMoment
<1>4. detectMultiKills(out) = {MultiKill(out, k[i].round, k[i].killer) :
                                  i \in {i \in 1..n : Big(k[i].round, k[i].killer)}}
  BY <1>1 DEF detectMultiKills, Elements
<1>5. detectMultiKills(c) = {MultiKill(c, k[i].round, k[i].killer) :
                                i \in {i \in 1..n : Big(k[i].round, k[i].killer)}}
  BY <1>1, <1>2 DEF detectMultiKills, Elements
<1> HIDE DEF Big, k, c, n
<1>6. Alike(detectMultiKills(out), detectMultiKills(c))
  BY <1>3, <1>4, <1>5 DEF Alike
<1> QED
  BY <1>6 DEF c

\* At most one row has the number of a round, so its winner and its end are that
\* row's, stored or not.
LEMMA SameRounds ==
  ASSUME IInv, OInv, NEW r, NEW t \in 0..Horizon
  PROVE  /\ WinnerOf(Columns(out), r) = WinnerOf(out, r)
         /\ LatestEnd(out, r, t) \in 0..Horizon
         /\ LatestEnd(Columns(out), r, Narrow[t]) = Narrow[LatestEnd(out, r, t)]
<1> DEFINE n == Len(out.rounds)
           k == out.rounds
           s == Columns(out).rounds
           Ends(l) == {e \in Elements(l) : e.number = r}
<1>1. /\ DOMAIN k = 1..n /\ DOMAIN s = 1..n
      /\ \A i, j \in 1..n : k[i].number = k[j].number => i = j
      /\ \A i \in 1..n : /\ s[i].end = Narrow[k[i].end] /\ k[i].end \in 0..Horizon
                         /\ s[i].number = k[i].number /\ s[i].winner = k[i].winner
  BY RoundColumns
<1>2. \A x, y \in 0..Horizon : Max({x, y}) = IF x <= y THEN y ELSE x
  BY NarrowAssumption DEF Max
<1>3. /\ LatestEnd(out, r, t) = Max({t} \cup {e.end : e \in Ends(k)})
      /\ LatestEnd(Columns(out), r, Narrow[t]) = Max({Narrow[t]} \cup {e.end : e \in Ends(s)})
  BY DEF LatestEnd
<1>4. CASE ~\E i \in 1..n : k[i].number = r
  <2>1. {i \in DOMAIN k : k[i].number = r} = {} /\ {i \in DOMAIN s : s[i].number = r} = {}
    BY <1>1, <1>4
  <2>2. Ends(k) = {} /\ Ends(s) = {}
    BY <1>1, <1>4 DEF Elements
  <2>3. WinnerOf(out, r) = 0 /\ WinnerOf(Columns(out), r) = 0
    BY <2>1 DEF WinnerOf
  <2>4. /\ LatestEnd(out, r, t) = Max({t, t})
        /\ LatestEnd(Columns(out), r, Narrow[t]) = Max({Narrow[t], Narrow[t]})
    <3>1. \A x : {x} \cup {e.end : e \in {}} = {x, x}
      OBVIOUS
    <3> QED
      BY <1>3, <2>2, <3>1
  <2>5. Narrow[t] \in 0..Horizon
    BY NarrowAssumption
  <2>6. LatestEnd(out, r, t) = t /\ LatestEnd(Columns(out), r, Narrow[t]) = Narrow[t]
    BY <1>2, <2>4, <2>5
  <2> QED
    BY <2>3, <2>5, <2>6
<1>5. ASSUME NEW i \in 1..n, k[i].number = r
      PROVE  /\ WinnerOf(Columns(out), r) = WinnerOf(out, r)
             /\ LatestEnd(out, r, t) \in 0..Horizon
             /\ LatestEnd(Columns(out), r, Narrow[t]) = Narrow[LatestEnd(out, r, t)]
  <2>1. {j \in DOMAIN k : k[j].number = r} = {i} /\ {j \in DOMAIN s : s[j].number = r} = {i}
    BY <1>1, <1>5
  <2>2. Ends(k) = {k[i]} /\ Ends(s) = {s[i]}
    BY <1>1, <1>5 DEF Elements
  <2>3. Max({i}) = i
    BY DEF Max
  <2>4. WinnerOf(out, r) = k[i].winner /\ WinnerOf(Columns(out), r) = s[i].winner
    BY <2>1, <2>3 DEF WinnerOf
  <2>5. /\ LatestEnd(out, r, t) = Max({t, k[i].end})
        /\ LatestEnd(Columns(out), r, Narrow[t]) = Max({Narrow[t], s[i].end})
    <3>1. \A x, y : {x} \cup {e.end : e \in {y}} = {x, y.end}
      OBVIOUS
    <3> QED
      BY <1>3, <2>2, <3>1
  <2>6. /\ k[i].end \in 0..Horizon /\ s[i].end = Narrow[k[i].end]
        /\ s[i].winner = k[i].winner
    BY <1>1
  <2> DEFINE end == k[i].end
  <2>7. /\ Narrow[t] \in 0..Horizon /\ Narrow[end] \in 0..Horizon
        /\ t <= end => Narrow[t] <= Narrow[end]
        /\ end <= t => Narrow[end] <= Narrow[t]
    BY <2>6, NarrowAssumption
  <2>8. Max({Narrow[t], Narrow[end]}) = Narrow[Max({t, end})] /\ Max({t, end}) \in 0..Horizon
    <3>1. end \in 0..Horizon
      BY <2>6
    <3> HIDE DEF end
    <3>2. /\ Max({t, end}) = IF t <= end THEN end ELSE t
          /\ Max({Narrow[t], Narrow[end]}) = IF Narrow[t] <= Narrow[end] THEN Narrow[end] ELSE Narrow[t]
      BY <1>2, <2>7, <3>1
    <3>3. CASE t <= end
      BY <2>7, <3>1, <3>2, <3>3
    <3>4. CASE ~(t <= end)
      BY <2>7, <3>1, <3>2, <3>4
    <3> QED
      BY <3>3, <3>4
  <2> QED
    BY <2>4, <2>5, <2>6, <2>8
<1> QED
  BY <1>4, <1>5

LEMMA AlikeClutches ==
  ASSUME IInv, OInv
  PROVE  Alike(detectClutches(out), detectClutches(Columns(out)))
<1> DEFINE n == Len(out.clutches)
           k == out.clutches
           c == Columns(out)
           s == c.clutches
           Won(i) == k[i].enemies >= 1 /\ WinnerOf(out, k[i].round) = k[i].team
           Made(p, e) == Highlight("clutch", e.player, e.round, e.time, LatestEnd(p, e.round, e.time),
                                   40 + 10 * e.enemies, 0)
<1>1. /\ DOMAIN k = 1..n /\ DOMAIN s = 1..n
      /\ \A i \in 1..n :
            /\ s[i].time = Narrow[k[i].time] /\ k[i].time \in 0..Horizon
            /\ s[i].round = k[i].round /\ s[i].player = k[i].player /\ s[i].team = k[i].team
            /\ s[i].enemies = k[i].enemies
  BY ClutchColumns
<1>2. Elements(k) = {k[i] : i \in 1..n} /\ Elements(s) = {s[i] : i \in 1..n}
  BY <1>1 DEF Elements
<1>3. \A i \in 1..n : WinnerOf(c, s[i].round) = WinnerOf(out, k[i].round)
  BY <1>1, SameRounds
<1>4. detectClutches(out) = {Made(out, k[i]) : i \in {i \in 1..n : Won(i)}}
  BY <1>2 DEF detectClutches
<1>5. detectClutches(c) = {Made(c, s[i]) : i \in {i \in 1..n : Won(i)}}
  BY <1>1, <1>2, <1>3 DEF detectClutches
<1>6. \A i \in 1..n : Rederived(Made(out, k[i]), Made(c, s[i]))
  <2> SUFFICES ASSUME NEW i \in 1..n PROVE Rederived(Made(out, k[i]), Made(c, s[i]))
    OBVIOUS
  <2> DEFINE end == LatestEnd(out, k[i].round, k[i].time)
  <2>1. end \in 0..Horizon /\ LatestEnd(c, s[i].round, s[i].time) = Narrow[end]
    BY <1>1, SameRounds
  <2> HIDE DEF end, k, s
  <2> QED
    BY <1>1, <2>1, SameMoment DEF end
<1> HIDE DEF Made, Won, k, s, c, n
<1>7. Alike(detectClutches(out), detectClutches(c))
  BY <1>4, <1>5, <1>6 DEF Alike
<1> QED
  BY <1>7 DEF c

LEMMA AlikeDetect ==
  ASSUME IInv, OInv
  PROVE  Alike(Detect(out), Detect(Columns(out)))
BY AlikeMultiKills, AlikeClutches, AlikeOpeningDuels, AlikeDefuses DEF Alike, Detect
-----------------------------------------------------------------------------
(* The order is kept by every handler.                                     *)

LEMMA InitOInv == Init => OInv
<1> SUFFICES ASSUME Init PROVE OInv
  OBVIOUS
<1>1. out.kills = <<>> /\ out.rounds = <<>> /\ out.clutches = <<>> /\ out.defuses = <<>>
  BY DEF Init
<1>2. Timed(<<>>, clock) /\ Counted(<<>>, currentRound, phase = "live")
  BY DEF Timed, Counted
<1>3. <<>> \in Seq(Kills) /\ <<>> \in Seq(RoundRows)
  OBVIOUS
<1> QED
  BY <1>1, <1>2, <1>3 DEF OInv, InTime, InTurn

\* No step turns the clock back.
LEMMA NeverBack ==
  ASSUME IInv, [Next]_vars
  PROVE  clock \in 0..Horizon /\ clock' \in 0..Horizon /\ clock <= clock'
<1>1. CASE Time
  BY <1>1, TimePasses
<1>2. CASE UNCHANGED events
  <2>1. clock \in 0..Horizon
    BY TimeAssumption DEF IInv, Types, clock
  <2>2. clock' = clock
    BY <1>2 DEF clock
  <2> QED
    BY <2>1, <2>2
<1> QED
  BY <1>1, <1>2 DEF Next, RoundStart, RoundEnd, Kill, BombPlanted, BombDefused, Unresolved, SwapSides,
                    End, Truncated, Connect, Disconnect, vars

\* A step that records nothing leaves everything in time.
LEMMA StillInTime ==
  ASSUME IInv, OInv, [Next]_vars,
         out'.kills = out.kills, out'.clutches = out.clutches, out'.defuses = out.defuses
  PROVE  InTime'
<1>1. /\ out.kills \in Seq(Kills) /\ out.clutches \in Seq(Clutches) /\ out.defuses \in Seq(Defuses)
      /\ Timed(out.kills, clock) /\ Timed(out.clutches, clock) /\ Timed(out.defuses, clock)
  BY DEF OInv, InTime, IInv, Types
<1>2. clock \in Nat /\ clock' \in Nat /\ clock <= clock'
  BY NeverBack, NarrowAssumption
<1>3. Timed(out.kills, clock') /\ Timed(out.clutches, clock') /\ Timed(out.defuses, clock')
  BY <1>1, <1>2, TimedLater
<1> QED
  BY <1>1, <1>3 DEF InTime

LEMMA RoundsOInv ==
  ASSUME IInv, OInv, [Next]_vars, RoundStart \/ \E winner \in {0, 2, 3} : RoundEnd(winner)
  PROVE  OInv'
<1>1. out.rounds \in Seq(RoundRows) /\ currentRound \in Nat
  BY DEF OInv, InTurn, IInv, Types
<1>2. CASE RoundStart
  <2>1. out' = out /\ currentRound' = currentRound + 1 /\ phase # "live" /\ phase' = "live"
    BY <1>2 DEF RoundStart
  <2>2. Counted(out.rounds, currentRound + 1, TRUE)
    BY <1>1, <2>1 DEF OInv, InTurn, Counted
  <2>3. InTurn'
    BY <1>1, <2>1, <2>2 DEF InTurn
  <2>4. InTime'
    BY <2>1, StillInTime
  <2> QED
    BY <2>3, <2>4 DEF OInv
<1>3. ASSUME NEW winner \in {0, 2, 3}, RoundEnd(winner), currentRound # 0
      PROVE  OInv'
  <2> DEFINE r == [number |-> currentRound, start |-> roundStart, end |-> clock', winner |-> winner]
  <2>1. /\ out'.rounds = Append(out.rounds, r)
        /\ out'.kills = out.kills /\ out'.clutches = out.clutches /\ out'.defuses = out.defuses
        /\ phase = "live" /\ phase' = "over" /\ currentRound' = currentRound
    BY <1>3 DEF RoundEnd, IInv, Types
  <2>2. roundStart \in 0..Horizon /\ clock' \in 0..Horizon
    <3>1. clock \in 0..Horizon /\ clock' \in 0..Horizon
      BY NeverBack
    <3> QED
      BY <3>1, NarrowAssumption DEF IInv, Types
  <2>3. r \in RoundRows /\ r.number = currentRound
    BY <1>1, <2>2 DEF RoundRows
  <2>4. Counted(out.rounds, currentRound, TRUE)
    BY <2>1 DEF OInv, InTurn
  <2> HIDE DEF r
  <2>5. Counted(Append(out.rounds, r), currentRound, FALSE)
    BY <1>1, <2>3, <2>4, CountedAppend
  <2>6. Append(out.rounds, r) \in Seq(RoundRows)
    BY <1>1, <2>3
  <2>7. InTurn'
    BY <2>1, <2>5, <2>6 DEF InTurn
  <2>8. InTime'
    BY <2>1, StillInTime
  <2> QED
    BY <2>7, <2>8 DEF OInv
<1>4. ASSUME NEW winner \in {0, 2, 3}, RoundEnd(winner), currentRound = 0
      PROVE  OInv'
  <2>1. out' = out /\ phase' = "over" /\ currentRound' = currentRound
    BY <1>4 DEF RoundEnd
  <2>2. InTurn'
    BY <2>1 DEF OInv, InTurn, Counted
  <2>3. InTime'
    BY <2>1, StillInTime
  <2> QED
    BY <2>2, <2>3 DEF OInv
<1> QED
  BY <1>2, <1>3, <1>4

LEMMA KillOInv ==
  ASSUME IInv, OInv, [Next]_vars, NEW killer \in Players \cup {NoPlayer}, NEW victim \in Players,
         NEW headshot \in Shots, Kill(killer, victim, headshot)
  PROVE  OInv'
<1> DEFINE k == [round |-> currentRound, time |-> clock', killer |-> steamID(killer),
                 victim |-> steamID(victim), killerTeam |-> Team(killer),
                 victimTeam |-> Team(victim), headshot |-> headshot]
<1>1. /\ out'.kills = Append(out.kills, k) /\ out'.clutches = out.clutches \o NewClutch(alive')
      /\ out'.defuses = out.defuses /\ out'.rounds = out.rounds
      /\ phase' = phase /\ currentRound' = currentRound /\ alive' \subseteq Players /\ Time
  BY DEF Kill, IInv, Types
<1>2. /\ clock \in 0..Horizon /\ clock' \in 0..Horizon /\ clock <= clock' /\ currentRound \in Nat
      /\ clock \in Nat /\ clock' \in Nat
  BY NeverBack, NarrowAssumption DEF IInv, Types
<1>3. /\ out.kills \in Seq(Kills) /\ out.clutches \in Seq(Clutches) /\ out.defuses \in Seq(Defuses)
      /\ Timed(out.kills, clock) /\ Timed(out.clutches, clock) /\ Timed(out.defuses, clock)
  BY DEF OInv, InTime, IInv, Types
<1>4. k \in Kills /\ k.time = clock'
  <2>1. steamID(killer) \in Ids \cup {steamID(NoPlayer)} /\ steamID(victim) \in Ids
    BY DEF Ids
  <2>2. Team(killer) \in {0, 2, 3}
    BY TeamNumber DEF IInv, Types
  <2>3. Team(victim) \in {2, 3}
    BY Teams DEF IInv, Types
  <2>4. headshot \in BOOLEAN
    BY TimerAssumption
  <2> QED
    BY <1>2, <2>1, <2>2, <2>3, <2>4 DEF Kills
<1> HIDE DEF k
<1>5. Timed(out'.kills, clock') /\ out'.kills \in Seq(Kills)
  BY <1>1, <1>2, <1>3, <1>4, TimedAppend
<1>6. Timed(out'.defuses, clock')
  BY <1>1, <1>2, <1>3, TimedLater
<1>7. Timed(out'.clutches, clock')
  <2>1. CASE NewClutch(alive') = <<>>
    <3>1. out'.clutches = out.clutches
      BY <1>1, <1>3, <2>1
    <3> QED
      BY <1>2, <1>3, <3>1, TimedLater
  <2>2. ASSUME NEW c \in Clutches, NewClutch(alive') = <<c>>, c.time = clock'
        PROVE  Timed(out'.clutches, clock')
    <3>1. out'.clutches = Append(out.clutches, c)
      BY <1>1, <1>3, <2>2
    <3> QED
      BY <1>2, <1>3, <2>2, <3>1, TimedAppend
  <2> QED
    BY <1>1, <2>1, <2>2, ClutchOfKill
<1>8. InTime'
  BY <1>5, <1>6, <1>7 DEF InTime
<1>9. InTurn'
  BY <1>1 DEF OInv, InTurn
<1> QED
  BY <1>8, <1>9 DEF OInv

LEMMA DefuseOInv ==
  ASSUME IInv, OInv, [Next]_vars, NEW player \in Players, BombDefused(player)
  PROVE  OInv'
<1> DEFINE d == [round |-> currentRound, time |-> clock', player |-> steamID(player), left |-> TimeLeft]
<1>1. /\ out'.defuses = Append(out.defuses, d) /\ out'.rounds = out.rounds
      /\ out'.kills = out.kills /\ out'.clutches = out.clutches
      /\ phase' = phase /\ currentRound' = currentRound /\ Time
  BY DEF BombDefused, game, IInv, Types
<1>2. /\ clock \in 0..Horizon /\ clock' \in 0..Horizon /\ clock <= clock' /\ currentRound \in Nat
      /\ clock \in Nat /\ clock' \in Nat
  BY NeverBack, NarrowAssumption DEF IInv, Types
<1>3. /\ out.kills \in Seq(Kills) /\ out.clutches \in Seq(Clutches) /\ out.defuses \in Seq(Defuses)
      /\ Timed(out.kills, clock) /\ Timed(out.clutches, clock) /\ Timed(out.defuses, clock)
  BY DEF OInv, InTime, IInv, Types
<1>4. d \in Defuses /\ d.time = clock'
  <2>1. plantedAt \in 0..clock' /\ C4Timer \in Nat
    BY <1>1, TimePasses, TimerAssumption
  <2>2. TimeLeft \in 0..C4Timer
    BY <1>2, <2>1, Remainder DEF TimeLeft
  <2> QED
    BY <1>2, <2>2 DEF Defuses, Ids
<1> HIDE DEF d
<1>5. Timed(out'.defuses, clock')
  BY <1>1, <1>2, <1>3, <1>4, TimedAppend
<1>6. Timed(out'.kills, clock') /\ Timed(out'.clutches, clock')
  BY <1>1, <1>2, <1>3, TimedLater
<1>7. InTime'
  BY <1>1, <1>3, <1>5, <1>6 DEF InTime
<1>8. InTurn'
  BY <1>1 DEF OInv, InTurn
<1> QED
  BY <1>7, <1>8 DEF OInv

LEMMA QuietOInv ==
  ASSUME IInv, OInv, [Next]_vars,
         BombPlanted \/ Silent \/ UNCHANGED vars
  PROVE  OInv'
<1>1. out' = out /\ currentRound' = currentRound /\ (phase' = "live" => phase = "live")
  BY DEF BombPlanted, Silent, Unresolved, SwapSides, End, Truncated, Connect, Disconnect, vars, game,
         parser
<1>2. InTime'
  BY <1>1, StillInTime
<1>3. InTurn'
  BY <1>1 DEF OInv, InTurn, Counted
<1> QED
  BY <1>2, <1>3 DEF OInv

LEMMA NextOInv == IInv /\ OInv /\ [Next]_vars => OInv'
<1> SUFFICES ASSUME IInv, OInv, [Next]_vars PROVE OInv'
  OBVIOUS
<1>1. CASE RoundStart \/ \E winner \in {0, 2, 3} : RoundEnd(winner)
  BY <1>1, RoundsOInv
<1>2. CASE \E killer \in Players \cup {NoPlayer}, victim \in Players, headshot \in Shots :
              Kill(killer, victim, headshot)
  BY <1>2, KillOInv
<1>3. CASE \E q \in Players : BombDefused(q)
  BY <1>3, DefuseOInv
<1>4. CASE BombPlanted \/ Silent \/ UNCHANGED vars
  BY <1>4, QuietOInv
<1> QED
  BY <1>1, <1>2, <1>3, <1>4 DEF Next, Silent

\* Parse collects its events in the order of their times, however many fall into
\* one tick, and its rounds in the order of their numbers, each of them once.
THEOREM CollectedInOrder == Spec => []OInv
BY InitOInv, NextOInv, Invariance, PTL DEF Spec

\* The events survive the tables: whatever was parsed, what loadEvents returns is
\* what the columns hold, every event once and in the order it was found in, and
\* the same detectors find the same highlights in it, but for times narrowed to a
\* REAL and a defuse that rounds out of being a tight one.
THEOREM RederivingIsAnalysing == Spec => [](Reload(out) = Columns(out) /\ RederivesTheSame)
<1>1. IInv /\ OInv => Reload(out) = Columns(out) /\ RederivesTheSame
  BY ReloadKeeps, AlikeDetect DEF RederivesTheSame
<1> QED
  BY <1>1, Invariance, CollectedInOrder, PTL
-----------------------------------------------------------------------------
(* Highlights.                                                             *)

\* The clip list never shows one moment twice: a player has one multi-kill and
\* one clutch in a round, and a round has one opening duel, however many events
\* fall into one tick. (Detect)
OneHighlightEach ==
    \A g, h \in Detect(out) :
        /\ g.kind = h.kind /\ g.round = h.round /\ g.kind # "defuse"
        /\ g.kind # "opening_duel" => g.player = h.player
        => g = h

LEMMA MultiKillIs ==
  ASSUME NEW p, NEW round, NEW killer
  PROVE  /\ MultiKill(p, round, killer).kind = "multi_kill"
         /\ MultiKill(p, round, killer).player = killer
         /\ MultiKill(p, round, killer).round = round
BY DEF MultiKill, Highlight

LEMMA OneMultiKill ==
  ASSUME NEW g \in detectMultiKills(out), NEW h \in detectMultiKills(out),
         g.round = h.round, g.player = h.player
  PROVE  g = h
<1>1. PICK k \in Elements(out.kills) : g = MultiKill(out, k.round, k.killer)
  BY DEF detectMultiKills
<1>2. PICK l \in Elements(out.kills) : h = MultiKill(out, l.round, l.killer)
  BY DEF detectMultiKills
<1>3. k.killer = l.killer /\ k.round = l.round
  BY <1>1, <1>2, MultiKillIs
<1> QED
  BY <1>1, <1>2, <1>3

LEMMA OneClutch ==
  ASSUME OneClutchEach, NEW g \in detectClutches(out), NEW h \in detectClutches(out),
         g.round = h.round, g.player = h.player
  PROVE  g = h
<1> DEFINE Made(c) == Highlight("clutch", c.player, c.round, c.time,
                                LatestEnd(out, c.round, c.time), 40 + 10 * c.enemies, 0)
<1>1. PICK c \in Elements(out.clutches) : g = Made(c)
  BY DEF detectClutches
<1>2. PICK d \in Elements(out.clutches) : h = Made(d)
  BY DEF detectClutches
<1>3. c.player = d.player /\ c.round = d.round
  BY <1>1, <1>2 DEF Highlight
<1>4. c = d
  BY <1>3 DEF OneClutchEach, Elements
<1> QED
  BY <1>1, <1>2, <1>4

LEMMA OneOpeningDuel ==
  ASSUME OInv, NEW g \in detectOpeningDuels(out), NEW h \in detectOpeningDuels(out),
         g.round = h.round
  PROVE  g = h
<1> DEFINE Duel(k) == k.killer # NoPlayer /\ k.killerTeam # k.victimTeam
           First(i) == \A j \in DOMAIN out.kills :
               Duel(out.kills[j]) /\ out.kills[j].round = out.kills[i].round =>
                   \/ out.kills[i].time < out.kills[j].time
                   \/ (out.kills[i].time = out.kills[j].time /\ i <= j)
           Made(i) == Highlight("opening_duel", out.kills[i].killer, out.kills[i].round,
                                out.kills[i].time, out.kills[i].time, 10, 0)
<1>1. PICK i \in DOMAIN out.kills : g = Made(i) /\ Duel(out.kills[i]) /\ First(i)
  BY DEF detectOpeningDuels
<1>2. PICK j \in DOMAIN out.kills : h = Made(j) /\ Duel(out.kills[j]) /\ First(j)
  BY DEF detectOpeningDuels
<1>3. out.kills[i].round = out.kills[j].round
  BY <1>1, <1>2 DEF Highlight
<1>4. i = j
  <2>1. /\ i \in Nat /\ j \in Nat
        /\ out.kills[i].time \in Nat /\ out.kills[j].time \in Nat
    BY <1>1, <1>2 DEF OInv, InTime, Timed
  <2>2. /\ \/ out.kills[i].time < out.kills[j].time
           \/ (out.kills[i].time = out.kills[j].time /\ i <= j)
        /\ \/ out.kills[j].time < out.kills[i].time
           \/ (out.kills[j].time = out.kills[i].time /\ j <= i)
    BY <1>1, <1>2, <1>3
  <2> QED
    BY <2>1, <2>2
<1> QED
  BY <1>1, <1>2, <1>4

\* No moment is shown twice, whatever happens in what order in a demo.
THEOREM NothingIsShownTwice == Spec => []OneHighlightEach
<1>1. ASSUME OInv, OneClutchEach PROVE OneHighlightEach
  <2>1. /\ \A h \in detectMultiKills(out)   : h.kind = "multi_kill"
        /\ \A h \in detectClutches(out)     : h.kind = "clutch"
        /\ \A h \in detectOpeningDuels(out) : h.kind = "opening_duel"
        /\ \A h \in detectDefuses(out)      : h.kind = "defuse"
    <3>1. ASSUME NEW h \in detectMultiKills(out) PROVE h.kind = "multi_kill"
      <4>1. PICK k \in Elements(out.kills) : h = MultiKill(out, k.round, k.killer)
        BY DEF detectMultiKills
      <4> QED
        BY <4>1, MultiKillIs
    <3>2. \A h \in detectClutches(out) : h.kind = "clutch"
      BY DEF detectClutches, Highlight
    <3>3. \A h \in detectOpeningDuels(out) : h.kind = "opening_duel"
      BY DEF detectOpeningDuels, Highlight
    <3>4. \A h \in detectDefuses(out) : h.kind = "defuse"
      BY DEF detectDefuses, Highlight
    <3> QED
      BY <3>1, <3>2, <3>3, <3>4
  <2> SUFFICES ASSUME NEW g \in Detect(out), NEW h \in Detect(out),
                      g.kind = h.kind, g.round = h.round, g.kind # "defuse",
                      g.kind # "opening_duel" => g.player = h.player
               PROVE  g = h
    BY DEF OneHighlightEach
  <2>2. /\ g \in detectMultiKills(out) \/ g \in detectClutches(out) \/ g \in detectOpeningDuels(out)
        /\ h \in detectMultiKills(out) \/ h \in detectClutches(out) \/ h \in detectOpeningDuels(out)
    BY <2>1 DEF Detect
  <2>3. CASE g \in detectMultiKills(out)
    <3>1. h \in detectMultiKills(out) /\ g.player = h.player
      BY <2>1, <2>2, <2>3
    <3> QED
      BY <2>3, <3>1, OneMultiKill
  <2>4. CASE g \in detectClutches(out)
    <3>1. h \in detectClutches(out) /\ g.player = h.player
      BY <2>1, <2>2, <2>4
    <3> QED
      BY <1>1, <2>4, <3>1, OneClutch
  <2>5. CASE g \in detectOpeningDuels(out)
    <3>1. h \in detectOpeningDuels(out)
      BY <2>1, <2>2, <2>5
    <3> QED
      BY <1>1, <2>5, <3>1, OneOpeningDuel
  <2> QED
    BY <2>2, <2>3, <2>4, <2>5
<1>2. OInv /\ OneClutchEach => OneHighlightEach
  BY <1>1
<1> QED
  BY <1>2, CollectedInOrder, OneClutchARound, PTL
-----------------------------------------------------------------------------
(* Who is noticed to be the last of their team.                            *)

\* What is true of events.go:76: the last one of a team left against enemies has a
\* clutch, unless they are a counter-terrorist against a single terrorist.
NoticedUnlessOneOnOne ==
    [][\A q \in Players :
          /\ Len(out'.kills) > Len(out.kills)
          /\ alive' \cap TeamOf(Team(q)) = {q} /\ alive' # {q}
          /\ q \in CounterTerrorists => ~SoleSurvivor(alive', Terrorists)
          => steamID(q) \in clutchSeen']_vars

\* lastAliveOnTeam finds whoever is left alone, Terrorists before the others.
LEMMA LastAliveIsFound ==
  ASSUME Sided, NEW standing \in SUBSET Players, NEW q \in Players,
         standing \cap TeamOf(Team(q)) = {q}, standing # {q},
         q \in CounterTerrorists => ~SoleSurvivor(standing, Terrorists)
  PROVE  LastAlive(standing).player = q /\ LastAlive(standing).enemies > 0
<1> DEFINE T  == standing \cap Terrorists
           CT == standing \cap CounterTerrorists
<1>1. IsFiniteSet(T) /\ IsFiniteSet(CT)
  BY TwoTeams, FS_Intersection
<1>2. /\ T # {} => Cardinality(T) \in Nat /\ Cardinality(T) > 0
      /\ CT # {} => Cardinality(CT) \in Nat /\ Cardinality(CT) > 0
  <2>1. \A S : IsFiniteSet(S) /\ S # {} => Cardinality(S) \in Nat /\ Cardinality(S) > 0
    <3> SUFFICES ASSUME NEW S, IsFiniteSet(S), S # {}
                 PROVE  Cardinality(S) \in Nat /\ Cardinality(S) > 0
      OBVIOUS
    <3>1. Cardinality(S) \in Nat
      BY FS_CardinalityType
    <3>2. Cardinality(S) # 0
      BY FS_EmptySet
    <3> QED
      BY <3>1, <3>2
  <2> QED
    BY <1>1, <2>1
<1>3. Cardinality({q}) = 1 /\ (CHOOSE r \in {q} : TRUE) = q
  BY FS_Singleton
<1>4. CASE TeamOf(Team(q)) = Terrorists
  <2>1. T = {q} /\ CT # {}
    BY <1>4, TwoTeams
  <2>2. SoleSurvivor(standing, Terrorists)
    BY <1>3, <2>1 DEF SoleSurvivor
  <2>3. LastAlive(standing) = [player |-> q, enemies |-> Cardinality(CT)]
    BY <1>3, <2>1, <2>2 DEF LastAlive
  <2> QED
    BY <1>2, <2>1, <2>3
<1>5. CASE TeamOf(Team(q)) = CounterTerrorists /\ q \in CounterTerrorists
  <2>1. CT = {q} /\ T # {}
    BY <1>5, TwoTeams
  <2>2. SoleSurvivor(standing, CounterTerrorists) /\ ~SoleSurvivor(standing, Terrorists)
    BY <1>3, <1>5, <2>1 DEF SoleSurvivor
  <2>3. LastAlive(standing) = [player |-> q, enemies |-> Cardinality(T)]
    BY <1>3, <2>1, <2>2 DEF LastAlive
  <2> QED
    BY <1>2, <2>1, <2>3
<1> QED
  BY <1>4, <1>5, Teams

\* A kill that leaves somebody alone against enemies is noticed, whatever died in
\* what order, but for the counter-terrorist of a one on one.
THEOREM MissedOnlyInADuel == Spec => NoticedUnlessOneOnOne
<1> DEFINE Noticed == \A q \in Players :
                         /\ Len(out'.kills) > Len(out.kills)
                         /\ alive' \cap TeamOf(Team(q)) = {q} /\ alive' # {q}
                         /\ q \in CounterTerrorists => ~SoleSurvivor(alive', Terrorists)
                         => steamID(q) \in clutchSeen'
<1>1. IInv /\ OInv /\ Next => Noticed
  <2> SUFFICES ASSUME IInv, OInv, Next, NEW q \in Players, Len(out'.kills) > Len(out.kills),
                      alive' \cap TeamOf(Team(q)) = {q}, alive' # {q},
                      q \in CounterTerrorists => ~SoleSurvivor(alive', Terrorists)
               PROVE  steamID(q) \in clutchSeen'
    OBVIOUS
  <2>1. Len(out.kills) \in Nat
    BY DEF OInv, InTime
  <2>2. PICK killer \in Players \cup {NoPlayer}, victim \in Players, headshot \in Shots :
                Kill(killer, victim, headshot)
    <3>1. CASE \/ RoundStart \/ BombPlanted \/ Silent
               \/ \E winner \in {0, 2, 3} : RoundEnd(winner)
               \/ \E r \in Players : BombDefused(r)
      <4>1. out'.kills = out.kills
        BY <3>1 DEF RoundStart, BombPlanted, RoundEnd, BombDefused, Silent, Unresolved, SwapSides, End,
                    Truncated, Connect, Disconnect, parser, IInv, Types
      <4> QED
        BY <2>1, <4>1
    <3> QED
      BY <3>1 DEF Next, Silent
  <2>3. alive' \subseteq Players
    BY <2>2 DEF Kill, IInv, Types
  <2>4. LastAlive(alive').player = q /\ LastAlive(alive').enemies > 0
    BY <2>3, LastAliveIsFound DEF IInv, Types
  <2>5. clutchSeen' = clutchSeen \cup {c.player : c \in Elements(NewClutch(alive'))}
    BY <2>2 DEF Kill
  <2>6. CASE steamID(q) \notin clutchSeen
    <3> DEFINE c == [round |-> currentRound, time |-> clock', player |-> steamID(q),
                     team |-> Team(q), enemies |-> LastAlive(alive').enemies]
    <3>1. NewClutch(alive') = <<c>>
      BY <2>4, <2>6 DEF NewClutch
    <3>2. c.player = steamID(q)
      OBVIOUS
    <3> HIDE DEF c
    <3>3. c \in Elements(NewClutch(alive'))
      BY <3>1 DEF Elements
    <3> QED
      BY <2>5, <3>2, <3>3
  <2> QED
    BY <2>5, <2>6
<1>2. IInv /\ OInv /\ [Next]_vars => [Noticed]_vars
  BY <1>1
<1> QED
  BY <1>2, Invariance, CollectedInOrder, PTL DEF Spec, NoticedUnlessOneOnOne
=============================================================================
