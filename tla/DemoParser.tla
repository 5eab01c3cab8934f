----------------------------- MODULE DemoParser -----------------------------
(***************************************************************************)
(* Parse: the event handlers that turn a demo into events and a scoreboard,*)
(* driven by a game whose rounds need not be tidy: demos that begin within *)
(* a round and stop anywhere, frags in the warmup and after a round is     *)
(* decided, world deaths, suicides and team kills, players who come, leave *)
(* and change sides.  The game and the library that reads it are external; *)
(* a handler sees the game with the event's effect.                        *)
(***************************************************************************)
EXTENDS Detectors

CONSTANTS TeamA, TeamB, \* the players: those who begin as Terrorists, the others
          Bots, Zero,   \* bots, all of which have Steam id 0
          C4Timer,      \* 40 seconds
          Shots,        \* may a kill be a headshot, and another
          MaxEvents,    \* bound on the events of a demo
          At            \* p.CurrentTime() at each of them

ASSUME TimerAssumption == C4Timer \in 0..Horizon /\ MaxEvents \in Nat /\ Shots \subseteq BOOLEAN

\* Time never runs backwards, and the events of one tick are of one time.
ASSUME TimeAssumption ==
    /\ At \in [0..MaxEvents -> 0..Horizon] /\ At[0] = 0
    /\ \A e \in 1..MaxEvents : At[e] > 0 /\ At[e - 1] <= At[e]

ASSUME TeamsAssumption == IsFiniteSet(TeamA) /\ IsFiniteSet(TeamB) /\ TeamA \cap TeamB = {}

Players == TeamA \cup TeamB

\* A human is their Steam id; no player at all has the empty one.
steamID(q) == IF q \in Bots THEN Zero ELSE q

VARIABLES phase,     \* of the game: warmup, live, over, or the demo's end
          side,      \* the side each player is on, 2 or 3
          present,   \* players connected
          alive,     \* players standing
          board,     \* the game's own scoreboard: kills of each player
          events,    \* handled so far
          currentRound, roundStart, plantedAt, clutchSeen,  \* Parse's locals
          stats,     \* last known scoreboard row of each player
          out        \* the Parsed being collected

game   == <<phase, side, present, alive, board>>
parser == <<currentRound, roundStart, plantedAt, clutchSeen, stats, out>>
vars   == <<game, events, parser>>

clock == At[events]

Team(player) == IF player \in Players THEN side[player] ELSE 0
TeamOf(t)    == {q \in Players : side[q] = t}
Terrorists        == TeamOf(2)
CounterTerrorists == TeamOf(3)
NoRow == [kills |-> 0, rounds |-> 0, seen |-> FALSE]

\* A demo may begin within a round, which then has no RoundStart of its own.
Init ==
    /\ phase \in {"warmup", "live"}
    /\ side = [q \in Players |-> IF q \in TeamA THEN 2 ELSE 3]
    /\ present = Players /\ alive = Players
    /\ board = [q \in Players |-> 0]
    /\ events = 0
    /\ currentRound = 0 /\ roundStart = 0 /\ plantedAt = 0
    /\ clutchSeen = {}
    /\ stats = [q \in Players |-> NoRow]
    /\ out = [kills |-> <<>>, rounds |-> <<>>, clutches |-> <<>>, defuses |-> <<>>]

Time == /\ events < MaxEvents
        /\ events' = events + 1

-----------------------------------------------------------------------------
(* Rounds.                                                                 *)

\* Mutant: clutchSeen not made new.
RoundStartKeepingSeen ==
    /\ Time
    /\ phase \in {"warmup", "over"}
    /\ phase' = "live"
    /\ alive' = present
    /\ board' = IF phase = "warmup" THEN [q \in Players |-> 0] ELSE board
    /\ currentRound' = currentRound + 1
    /\ roundStart' = clock'
    /\ plantedAt' = 0
    /\ UNCHANGED <<side, present, clutchSeen, stats, out>>

\* The first round of the match clears the warmup off the game's scoreboard.
RoundStart ==
    /\ Time
    /\ phase \in {"warmup", "over"}
    /\ phase' = "live"
    /\ alive' = present
    /\ board' = IF phase = "warmup" THEN [q \in Players |-> 0] ELSE board
    /\ currentRound' = currentRound + 1
    /\ roundStart' = clock'
    /\ plantedAt' = 0
    /\ clutchSeen' = {}
    /\ UNCHANGED <<side, present, stats, out>>

\* Mutant: the map of rows made new at every snapshot.
SnapshotAnew == [q \in Players |-> IF q \in present \ Bots
                                   THEN [kills |-> board[q], rounds |-> currentRound, seen |-> TRUE]
                                   ELSE NoRow]

\* snapshotPlayers: the last write wins, those who left keep theirs, bots are
\* skipped.
Snapshot == [q \in Players |-> IF q \in present \ Bots
                               THEN [kills |-> board[q], rounds |-> currentRound, seen |-> TRUE]
                               ELSE stats[q]]

\* A team is wiped out, the bomb or the clock decides, or nobody wins (0).  The
\* end of a round that began before the demo did is not recorded.
RoundEnd(winner) ==
    /\ Time
    /\ phase = "live"
    /\ winner # 0 => present \cap TeamOf(winner) # {}
    /\ phase' = "over"
    /\ IF currentRound = 0
       THEN UNCHANGED <<stats, out>>
       ELSE /\ out' = [out EXCEPT !.rounds = Append(@, [number |-> currentRound, start |-> roundStart,
                                                        end |-> clock', winner |-> winner])]
            /\ stats' = Snapshot
    /\ UNCHANGED <<side, present, alive, board, currentRound, roundStart, plantedAt, clutchSeen>>

-----------------------------------------------------------------------------
(* Kills and clutches.                                                     *)

\* Mutant: any survivor taken for the sole one.
SomeSurvivor(standing, team) == standing \cap team # {}

\* lastAliveOnTeam: the sole survivor of a team with enemies, Terrorists first.
SoleSurvivor(standing, team) == Cardinality(standing \cap team) = 1

LastAlive(standing) ==
    LET T == standing \cap Terrorists  CT == standing \cap CounterTerrorists IN
    IF SoleSurvivor(standing, Terrorists) /\ CT # {}
    THEN [player |-> CHOOSE q \in T : TRUE, enemies |-> Cardinality(CT)]
    ELSE IF SoleSurvivor(standing, CounterTerrorists) /\ T # {}
    THEN [player |-> CHOOSE q \in CT : TRUE, enemies |-> Cardinality(T)]
    ELSE [player |-> NoPlayer, enemies |-> 0]

NewClutch(standing) ==
    LET last == LastAlive(standing) IN
    IF last.enemies > 0 /\ steamID(last.player) \notin clutchSeen
    THEN <<[round |-> currentRound, time |-> clock', player |-> steamID(last.player),
            team |-> Team(last.player), enemies |-> last.enemies]>>
    ELSE <<>>

\* A kill, by an enemy, a teammate, oneself or the world, in any phase.
Kill(killer, victim, headshot) ==
    /\ Time
    /\ phase # "end"
    /\ victim \in alive
    /\ killer \in present \cup {NoPlayer}
    /\ alive' = alive \ {victim}
    /\ board' = IF Team(killer) \notin {0, Team(victim)}
                THEN [board EXCEPT ![killer] = @ + 1] ELSE board
    /\ out' = [out EXCEPT
                 !.kills = Append(@, [round |-> currentRound, time |-> clock',
                                      killer |-> steamID(killer), victim |-> steamID(victim),
                                      killerTeam |-> Team(killer), victimTeam |-> Team(victim),
                                      headshot |-> headshot]),
                 !.clutches = @ \o NewClutch(alive')]
    /\ clutchSeen' = clutchSeen \cup {c.player : c \in Elements(NewClutch(alive'))}
    /\ UNCHANGED <<phase, side, present, currentRound, roundStart, plantedAt, stats>>

-----------------------------------------------------------------------------
(* The bomb.                                                               *)

BombPlanted ==
    /\ Time
    /\ phase = "live" /\ plantedAt = 0 /\ alive \cap Terrorists # {}
    /\ plantedAt' = clock'
    /\ UNCHANGED <<game, currentRound, roundStart, clutchSeen, stats, out>>

\* Mutant: an overdue bomb not clamped.
TimeLeftSigned == IF plantedAt # 0 THEN C4Timer - (clock' - plantedAt) ELSE 0

\* Time left is computed from the plant; zero if none was seen, or overdue.
TimeLeft == IF plantedAt # 0 /\ C4Timer > clock' - plantedAt
            THEN C4Timer - (clock' - plantedAt) ELSE 0

\* The plant of a bomb may have been before the demo began.
BombDefused(player) ==
    /\ Time
    /\ phase = "live" /\ player \in alive \cap CounterTerrorists
    /\ ~\E d \in Elements(out.defuses) : d.round = currentRound
    /\ out' = [out EXCEPT !.defuses = Append(@, [round |-> currentRound, time |-> clock',
                                                 player |-> steamID(player), left |-> TimeLeft])]
    /\ UNCHANGED <<game, currentRound, roundStart, plantedAt, clutchSeen, stats>>

-----------------------------------------------------------------------------
(* Players, and the end.                                                   *)

\* A kill whose victim, or a defusal whose player, the library cannot tell.
Unresolved ==
    /\ Time
    /\ phase # "end"
    /\ UNCHANGED <<game, parser>>

\* Whoever comes plays from the next round on.
Connect(player) ==
    /\ phase # "end" /\ player \notin present
    /\ present' = present \cup {player}
    /\ UNCHANGED <<phase, side, alive, board, events, parser>>

Disconnect(player) ==
    /\ Time
    /\ phase # "end" /\ player \in present
    /\ present' = present \ {player}
    /\ alive' = alive \ {player}
    /\ UNCHANGED <<phase, side, board, parser>>

\* At half-time everybody changes sides.
SwapSides ==
    /\ phase = "over"
    /\ side' = [q \in Players |-> IF side[q] = 2 THEN 3 ELSE 2]
    /\ UNCHANGED <<phase, present, alive, board, events, parser>>

\* ParseToEnd returns without an error: the final snapshot is taken.
End ==
    /\ phase # "end"
    /\ phase' = "end"
    /\ stats' = Snapshot
    /\ UNCHANGED <<side, present, alive, board, events, currentRound, roundStart, plantedAt,
                   clutchSeen, out>>

\* It returns one: what was collected is returned with it, and no snapshot taken.
Truncated ==
    /\ phase # "end"
    /\ phase' = "end"
    /\ UNCHANGED <<side, present, alive, board, events, parser>>

Next == \/ RoundStart \/ \E winner \in {0, 2, 3} : RoundEnd(winner)
        \/ \E killer \in Players \cup {NoPlayer}, victim \in Players, headshot \in Shots :
              Kill(killer, victim, headshot)
        \/ BombPlanted \/ Unresolved \/ SwapSides \/ End \/ Truncated
        \/ \E q \in Players : BombDefused(q) \/ Connect(q) \/ Disconnect(q)

Spec == Init /\ [][Next]_vars

-----------------------------------------------------------------------------
(* Safety.                                                                 *)

TypeOK ==
    /\ phase \in {"warmup", "live", "over", "end"}
    /\ alive \subseteq present /\ present \subseteq Players
    /\ events \in 0..MaxEvents /\ roundStart \in 0..clock /\ plantedAt \in 0..clock
    /\ clutchSeen \subseteq {steamID(q) : q \in Players}
    /\ \A d \in Elements(out.defuses) : d.left \in 0..C4Timer

\* Re-deriving by the same detectors finds, of the events that took the way through
\* the tables, the highlights that the analysis found and no others: no event is
\* lost, merged with another or reordered where Detect looks.  The times are those
\* of REAL columns, so that a window is only nearly the same, and a defuse at the
\* very edge of being a tight one may lose that. (Reload, Rederived, Alike)
RederivesTheSame == Alike(Detect(out), Detect(Reload(out)))

\* The situation of a Steam id begins once a round, whatever happens after it,
\* and in every round anew: clutchSeen says who is in or past one.  A second bot
\* is taken for the first.
OneClutchEach ==
    /\ \A i, j \in DOMAIN out.clutches :
          out.clutches[i].round = out.clutches[j].round
          /\ out.clutches[i].player = out.clutches[j].player => i = j
    /\ clutchSeen = {c.player : c \in {c \in Elements(out.clutches) : c.round = currentRound}}

\* Whenever a clutch is recorded its player stands alone against exactly the
\* enemies counted, whatever died in what order, bots or not. (lastAliveOnTeam)
SurvivorIsAlone ==
    [][\A c \in Elements(out'.clutches) \ Elements(out.clutches) :
          /\ \E q \in Players : steamID(q) = c.player /\ alive' \cap TeamOf(c.team) = {q}
          /\ c.enemies = Cardinality(alive' \ TeamOf(c.team))]_vars

\* Those still there at a RoundEnd never vanish from the scoreboard, and the
\* rounds counted for them never go down and never exceed the match's.
NobodyVanishes ==
    [][\A q \in Players : stats[q].seen =>
          /\ stats'[q].seen
          /\ stats'[q].rounds \in stats[q].rounds..currentRound']_vars

(* Claims of the repository's comments, for the runs that refute them.     *)

\* "Clutch marks the moment a player became the last one alive on their team"
\* (events.go:76): whoever a kill leaves alone against enemies has a clutch.
LastOneIsNoticed ==
    [][\A q \in Players :
          /\ Len(out'.kills) > Len(out.kills)
          /\ alive' \cap TeamOf(Team(q)) = {q} /\ alive' # {q}
          => steamID(q) \in clutchSeen']_vars

=============================================================================
