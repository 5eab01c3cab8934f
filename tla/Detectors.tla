----------------------------- MODULE Detectors -----------------------------
(***************************************************************************)
(* Detect: the pure functions from what a demo yielded to highlights, and  *)
(* the way those events take through the database, from Store.Complete to  *)
(* loadEvents.  Scores are in tenths.  A result is a set: both the API and *)
(* Detect order it by round, start and kind, and no property is about it.  *)
(* Parse and Detect compute times in float64, the tables keep them as REAL: *)
(* a time is a number of units finer than a REAL can tell apart.           *)
(***************************************************************************)
EXTENDS Integers, Sequences, FiniteSets, SequencesExt

CONSTANTS NoPlayer,      \* the steam id '' of a world kill's killer
          MultiKillSize, \* three kills
          PreRoll, PostRoll,
          Tight,         \* two seconds left on the bomb
          Horizon,       \* bound on the times of a demo
          Narrow, Ulp    \* float64 to REAL, and how far it takes a time

ASSUME RollsAssumption ==
    /\ MultiKillSize \in Nat \ {0}
    /\ PreRoll \in Nat /\ PostRoll \in Nat

\* Narrowing rounds: it keeps the order, if not the difference, of two times, and
\* zero and two seconds are exact.
ASSUME NarrowAssumption ==
    /\ Horizon \in Nat /\ Ulp \in Nat
    /\ Narrow \in [0..Horizon -> 0..Horizon]
    /\ \A s, t \in 0..Horizon : s <= t => Narrow[s] <= Narrow[t]
    /\ \A t \in 0..Horizon : Narrow[t] <= t + Ulp /\ t <= Narrow[t] + Ulp
    /\ \A t \in 0..Horizon : Narrow[t] = 0 <=> t = 0
    /\ Tight \in 0..Horizon /\ Narrow[Tight] = Tight

Elements(seq) == {seq[i] : i \in DOMAIN seq}

\* Clip padding, clamped at the start of the demo.
WindowStart(time) == IF time > PreRoll THEN time - PreRoll ELSE 0
WindowEnd(time)   == time + PostRoll

\* left is the metadata of a defuse; that of the others is in their score.
Highlight(kind, player, round, from, to, score, left) ==
    [kind |-> kind, player |-> player, round |-> round, left |-> left,
     start |-> WindowStart(from), end |-> WindowEnd(to), score |-> score]

\* Suicides, world deaths and team kills are not anyone's highlight.
CountsForMultiKill(k) == /\ k.killer \notin {NoPlayer, k.victim}
                         /\ k.killerTeam # k.victimTeam

\* Of the kills, by their place in the list, a player's of a round.
KillsOf(p, round, killer) ==
    {i \in DOMAIN p.kills : /\ CountsForMultiKill(p.kills[i])
                            /\ p.kills[i].round = round /\ p.kills[i].killer = killer}

MultiKill(p, round, killer) ==
    LET of == KillsOf(p, round, killer)
        headshots == {i \in of : p.kills[i].headshot}
    IN Highlight("multi_kill", killer, round, p.kills[Min(of)].time, p.kills[Max(of)].time,
                 10 * Cardinality(of) + Cardinality(headshots), 0)

detectMultiKills(p) ==
    {MultiKill(p, k.round, k.killer) :
        k \in {k \in Elements(p.kills) : Cardinality(KillsOf(p, k.round, k.killer)) >= MultiKillSize}}

\* winners[r.Number] = r.WinnerTeam: the last round of that number decides.
WinnerOf(p, round) ==
    LET ends == {i \in DOMAIN p.rounds : p.rounds[i].number = round}
    IN IF ends = {} THEN 0 ELSE p.rounds[Max(ends)].winner

LatestEnd(p, round, time) ==
    Max({time} \cup {r.end : r \in {r \in Elements(p.rounds) : r.number = round}})

\* Situations of a round that was won, running to the end of the round.
detectClutches(p) ==
    {Highlight("clutch", c.player, c.round, c.time, LatestEnd(p, c.round, c.time),
               40 + 10 * c.enemies, 0) :
        c \in {c \in Elements(p.clutches) : c.enemies >= 1 /\ WinnerOf(p, c.round) = c.team}}

\* The earliest kill of each round; the first listed of several at that time.
detectOpeningDuels(p) ==
    LET Duel(k) == k.killer # NoPlayer /\ k.killerTeam # k.victimTeam
        First(i) == \A j \in DOMAIN p.kills :
            Duel(p.kills[j]) /\ p.kills[j].round = p.kills[i].round =>
                \/ p.kills[i].time < p.kills[j].time
                \/ (p.kills[i].time = p.kills[j].time /\ i <= j)
    IN {Highlight("opening_duel", p.kills[i].killer, p.kills[i].round,
                  p.kills[i].time, p.kills[i].time, 10, 0) :
           i \in {i \in DOMAIN p.kills : Duel(p.kills[i]) /\ First(i)}}

detectDefuses(p) ==
    {Highlight("defuse", d.player, d.round, d.time, d.time,
               IF d.left > 0 /\ d.left < Tight THEN 50 ELSE 20, d.left) :
        d \in Elements(p.defuses)}

Detect(p) == UNION {detectMultiKills(p), detectClutches(p),
                    detectOpeningDuels(p), detectDefuses(p)}

-----------------------------------------------------------------------------
(* The events through the database.                                        *)

\* The rows of seq of these ids, each at the place that the number of rows
\* before it gives.
InOrder(seq, ids, Before(_, _)) ==
    [k \in 1..Cardinality(ids) |->
        seq[CHOOSE i \in ids : Cardinality({j \in ids : Before(j, i)}) = k - 1]]

\* Mutant: of the events of one tick the newest first.
NewestFirst(seq) ==
    InOrder(seq, DOMAIN seq, LAMBDA i, j : \/ seq[i].time < seq[j].time
                                           \/ (seq[i].time = seq[j].time /\ i > j))

\* ORDER BY time_s, id: the order of the rows breaks ties.
ByTime(seq) ==
    InOrder(seq, DOMAIN seq, LAMBDA i, j : \/ seq[i].time < seq[j].time
                                           \/ (seq[i].time = seq[j].time /\ i < j))

\* ON CONFLICT (analysis_id, number) DO NOTHING: the first of a number stays.
StoredRounds(rounds) ==
    {i \in DOMAIN rounds : \A j \in 1..(i - 1) : rounds[j].number # rounds[i].number}

ByNumber(rounds) ==
    InOrder(rounds, StoredRounds(rounds), LAMBDA i, j : rounds[i].number < rounds[j].number)

\* What Complete stores of p: its times become REALs. (0005_rounds, 0006_events)
Columns(p) ==
    LET Timed(rows) == [i \in DOMAIN rows |-> [rows[i] EXCEPT !.time = Narrow[@]]]
    IN [kills    |-> Timed(p.kills),
        rounds   |-> [i \in DOMAIN p.rounds |->
                         [p.rounds[i] EXCEPT !.start = Narrow[@], !.end = Narrow[@]]],
        clutches |-> Timed(p.clutches),
        defuses  |-> [i \in DOMAIN p.defuses |->
                         [p.defuses[i] EXCEPT !.time = Narrow[@], !.left = Narrow[@]]]]

\* What loadEvents returns of it: the queries order by the columns.
Reload(p) ==
    LET c == Columns(p)
    IN [kills    |-> ByTime(c.kills),
        rounds   |-> ByNumber(c.rounds),
        clutches |-> ByTime(c.clutches),
        defuses  |-> ByTime(c.defuses)]

Near(s, t) == s <= t + Ulp /\ t <= s + Ulp

\* g is the highlight h, found in what came back: of the same kind, player and
\* round and of nearly the same time.  A defuse with just under Tight left may
\* come back with Tight left, and then no longer is a tight one.
Rederived(h, g) ==
    /\ g.kind = h.kind /\ g.player = h.player /\ g.round = h.round
    /\ Near(g.start, h.start) /\ Near(g.end, h.end) /\ Near(g.left, h.left)
    /\ \/ g.score = h.score
       \/ h.score = 50 /\ g.score = 20 /\ g.left = Tight

\* Each of either has its counterpart among the others.
Alike(before, after) ==
    /\ \A h \in before : \E g \in after : Rederived(h, g)
    /\ \A g \in after : \E h \in before : Rederived(h, g)
=============================================================================
