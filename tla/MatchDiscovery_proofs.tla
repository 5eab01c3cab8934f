----------------------- MODULE MatchDiscovery_proofs -----------------------
(***************************************************************************)
(* Proofs about MatchDiscovery, for any players, histories and sharecodes, *)
(* any number of walks at once and of onboardings.                         *)
(***************************************************************************)
EXTENDS MatchDiscovery, ShareCode_proofs, TLAPS

(* Positions and segments of a history.                                    *)

LEMMA PositionType ==
  ASSUME NEW p \in Players, NEW c
  PROVE  /\ Position(p, c) \in 0..Len(History[p])
         /\ Position(p, c) # 0 => History[p][Position(p, c)] = c
<1>1. DOMAIN History[p] = 1..Len(History[p]) /\ Len(History[p]) \in Nat
  BY HistoryAssumption
<1> QED
  BY <1>1 DEF Position

LEMMA PositionOf ==
  ASSUME NEW p \in Players, NEW i \in 1..Len(History[p])
  PROVE  Position(p, History[p][i]) = i
<1>1. DOMAIN History[p] = 1..Len(History[p]) /\ Len(History[p]) \in Nat
  BY HistoryAssumption
<1>2. \A k, l \in DOMAIN History[p] : History[p][k] = History[p][l] => k = l
  BY HistoryAssumption
<1> QED
  BY <1>1, <1>2 DEF Position

LEMMA NextPosition ==
  ASSUME NEW p \in Players, NEW c, played[p] \in Nat, played[p] <= Len(History[p]),
         NextCode(p, c) # None
  PROVE  /\ NextCode(p, c) \in Codes
         /\ Position(p, NextCode(p, c)) = Position(p, c) + 1
<1>1. /\ Position(p, c) \in 1..(played[p] - 1)
      /\ NextCode(p, c) = History[p][Position(p, c) + 1]
  BY DEF NextCode
<1>2. Len(History[p]) \in Nat /\ \A i \in 1..Len(History[p]) : History[p][i] \in Codes
  BY HistoryAssumption
<1>3. Position(p, c) + 1 \in 1..Len(History[p])
  BY <1>1, <1>2
<1> QED
  BY <1>1, <1>2, <1>3, PositionOf

LEMMA EmptySegment ==
  ASSUME NEW p \in Players, NEW c
  PROVE  Segment(p, c, c) = {}
BY PositionType DEF Segment

LEMMA LongerSegment ==
  ASSUME NEW p \in Players, NEW a, NEW b, NEW c,
         Position(p, a) <= Position(p, b), Position(p, c) = Position(p, b) + 1
  PROVE  Segment(p, a, c) = Segment(p, a, b) \cup {c}
<1>1. /\ Position(p, a) \in Nat /\ Position(p, b) \in Nat
      /\ History[p][Position(p, b) + 1] = c
  BY PositionType, HistoryAssumption
<1>2. (Position(p, a) + 1)..Position(p, c) =
         ((Position(p, a) + 1)..Position(p, b)) \cup {Position(p, b) + 1}
  BY <1>1
<1> QED
  BY <1>1, <1>2 DEF Segment

LEMMA JoinedSegments ==
  ASSUME NEW p \in Players, NEW a, NEW b, NEW c
  PROVE  Segment(p, a, c) \subseteq Segment(p, a, b) \cup Segment(p, b, c)
<1>1. Position(p, a) \in Nat /\ Position(p, b) \in Nat /\ Position(p, c) \in Nat
  BY PositionType, HistoryAssumption
<1> QED
  BY <1>1 DEF Segment

-----------------------------------------------------------------------------
(* The inductive invariant.                                                *)

PlayedExists == \A p \in Players : played[p] <= Len(History[p])

\* A pointer comes from an onboarding.
SetUpFirst == \A p \in Players : latest[p] # None => setups[p] >= 1

Walking(w) == walk[w].pc # "idle"

\* A walk goes forward, and what it hands to AppendMatches ends at its newest.
WalksForward ==
    \A w \in Walks : Walking(w) =>
        /\ walk[w].newest \in Codes
        /\ Position(walk[w].player, walk[w].from) <= Position(walk[w].player, walk[w].newest)
        /\ walk[w].newest = walk[w].from \/ walk[w].newest \in walk[w].found
        /\ walk[w].pc = "append" => walk[w].found # {}

\* Before the code a walk started from nothing is missing.
WalksStartStored ==
    \A w \in Walks : Walking(w) =>
        LET p == walk[w].player IN
        /\ setups[p] >= 1
        /\ setups[p] = 1 => Segment(p, setup[p], walk[w].from) \subseteq Stored

IInv == /\ TypeOK /\ PlayedExists /\ SetUpFirst
        /\ FoundIsSegment /\ WalksForward /\ WalksStartStored /\ NothingSkipped

LEMMA InitIInv == Init => IInv
<1> SUFFICES ASSUME Init PROVE IInv
  OBVIOUS
<1>1. TypeOK
  BY HistoryAssumption DEF Init, TypeOK, WalkStates, Idle
<1>2. PlayedExists /\ SetUpFirst
  BY HistoryAssumption DEF Init, PlayedExists, SetUpFirst
<1>3. FoundIsSegment /\ WalksForward /\ WalksStartStored
  BY DEF Init, FoundIsSegment, WalksForward, WalksStartStored, Walking, Idle
<1>4. NothingSkipped
  BY DEF Init, NothingSkipped
<1> QED
  BY <1>1, <1>2, <1>3, <1>4 DEF IInv

-----------------------------------------------------------------------------
(* What has to be shown of a step: positions and segments are constants.   *)

Claims(w) ==
    walk'[w].pc # "idle" =>
        LET me == walk'[w] IN
        /\ me.found = Segment(me.player, me.from, me.newest)
        /\ me.found \cap Undecodable = {}
        /\ me.newest \in Codes
        /\ Position(me.player, me.from) <= Position(me.player, me.newest)
        /\ me.newest = me.from \/ me.newest \in me.found
        /\ me.pc = "append" => me.found # {}
        /\ setups'[me.player] >= 1
        /\ setups'[me.player] = 1 => Segment(me.player, setup'[me.player], me.from) \subseteq Stored'

Pointer(p) ==
    /\ latest'[p] # None => setups'[p] >= 1
    /\ latest'[p] \in Stored' \cup {setup'[p]}
    /\ setups'[p] = 1 => Segment(p, setup'[p], latest'[p]) \subseteq Stored'

LEMMA StepShown ==
  ASSUME TypeOK', PlayedExists', \A w \in Walks : Claims(w), \A p \in Players : Pointer(p)
  PROVE  IInv'
<1>1. SetUpFirst'
  BY DEF SetUpFirst, Pointer
<1>2. FoundIsSegment'
  BY DEF FoundIsSegment, Claims, Segment, Position, Undecodable
<1>3. WalksForward'
  BY DEF WalksForward, Walking, Claims, Position
<1>4. WalksStartStored'
  BY DEF WalksStartStored, Walking, Claims, Segment, Position
<1>5. NothingSkipped'
  BY DEF NothingSkipped, Pointer, Segment, Position
<1> QED
  BY <1>1, <1>2, <1>3, <1>4, <1>5 DEF IInv

LEMMA WalkFacts ==
  ASSUME IInv, NEW w \in Walks, walk[w].pc # "idle"
  PROVE  LET me == walk[w] IN
         /\ me.player \in Players /\ me.player \in known /\ me.from \in Codes
         /\ me.found = Segment(me.player, me.from, me.newest)
         /\ me.found \cap Undecodable = {}
         /\ me.newest \in Codes
         /\ Position(me.player, me.from) <= Position(me.player, me.newest)
         /\ me.newest = me.from \/ me.newest \in me.found
         /\ me.pc = "append" => me.found # {}
         /\ setups[me.player] >= 1
         /\ setups[me.player] = 1 => Segment(me.player, setup[me.player], me.from) \subseteq Stored
<1>1. walk[w].player \in Players /\ walk[w].player \in known /\ walk[w].from \in Codes
  BY DEF IInv, TypeOK
<1> QED
  BY <1>1 DEF IInv, FoundIsSegment, WalksForward, WalksStartStored, Walking

LEMMA PointerFacts ==
  ASSUME IInv, NEW p \in Players
  PROVE  /\ latest[p] # None => setups[p] >= 1
         /\ latest[p] \in Stored \cup {setup[p]}
         /\ setups[p] = 1 => Segment(p, setup[p], latest[p]) \subseteq Stored
BY DEF IInv, SetUpFirst, NothingSkipped

\* A walk that does not move keeps its claims while no match is taken out of
\* the table and no onboarding of its player comes in between.
LEMMA SameWalk ==
  ASSUME IInv, NEW w \in Walks, walk'[w] = walk[w], Stored \subseteq Stored',
         UNCHANGED <<setup, setups>>
  PROVE  Claims(w)
BY WalkFacts DEF Claims

LEMMA SamePointer ==
  ASSUME IInv, NEW p \in Players, latest'[p] = latest[p], Stored \subseteq Stored',
         UNCHANGED <<setup, setups>>
  PROVE  Pointer(p)
BY PointerFacts DEF Pointer

-----------------------------------------------------------------------------
(* Steps that leave the walks and the table of matches alone.              *)

LEMMA QuietStep ==
  ASSUME IInv, TypeOK', PlayedExists', UNCHANGED <<latest, owner, walk, setup, setups>>
  PROVE  IInv'
<1>1. Stored' = Stored
  BY DEF Stored
<1>2. \A w \in Walks : Claims(w)
  BY <1>1, SameWalk
<1>3. \A p \in Players : Pointer(p)
  BY <1>1, SamePointer
<1> QED
  BY <1>2, <1>3, StepShown

LEMMA PlayerStep ==
  ASSUME IInv, NEW p \in Players,
         Login(p) \/ LoginError(p) \/ SessionEnds(p) \/ Play(p)
  PROVE  IInv'
<1>1. TypeOK'
  <2> USE DEF IInv, TypeOK
  <2>1. CASE Login(p)
    BY <2>1 DEF Login
  <2>2. CASE LoginError(p)
    BY <2>2 DEF LoginError
  <2>3. CASE SessionEnds(p)
    BY <2>3 DEF SessionEnds
  <2>4. CASE Play(p)
    <3>1. played' \in [Players -> Nat]
      BY <2>4 DEF Play
    <3> QED
      BY <2>4, <3>1 DEF Play
  <2> QED
    BY <2>1, <2>2, <2>3, <2>4
<1>2. PlayedExists'
  <2>1. \A q \in Players : Len(History[q]) \in Nat
    BY HistoryAssumption
  <2> QED
    BY <2>1 DEF IInv, TypeOK, PlayedExists, Login, LoginError, SessionEnds, Play
<1> QED
  BY <1>1, <1>2, QuietStep DEF Login, LoginError, SessionEnds, Play

\* An onboarding is a player's first only if no walk of theirs is under way.
LEMMA OnboardingStep ==
  ASSUME IInv, NEW p \in Players, NEW c \in Codes, SetOnboarding(p, c)
  PROVE  IInv'
<1>1. TypeOK'
  <2> USE DEF IInv, TypeOK, SetOnboarding
  <2>1. setups' \in [Players -> 0..MaxSetups]
    BY HistoryAssumption
  <2>2. latest' \in [Players -> Codes \cup {None}] /\ setup' \in [Players -> Codes \cup {None}]
    OBVIOUS
  <2> QED
    BY <2>1, <2>2
<1>2. PlayedExists'
  BY DEF IInv, PlayedExists, SetOnboarding
<1>3. Stored' = Stored
  BY DEF Stored, SetOnboarding
<1>4. setups[p] \in Nat /\ setups'[p] = setups[p] + 1 /\ latest'[p] = c /\ setup'[p] = c
  BY HistoryAssumption DEF IInv, TypeOK, SetOnboarding
<1>5. \A q \in Players \ {p} : setups'[q] = setups[q] /\ latest'[q] = latest[q] /\ setup'[q] = setup[q]
  BY DEF IInv, TypeOK, SetOnboarding
<1>6. ASSUME NEW w \in Walks PROVE Claims(w)
  <2> SUFFICES ASSUME walk[w].pc # "idle" PROVE Claims(w)
    BY DEF Claims, SetOnboarding
  <2>1. walk'[w] = walk[w]
    BY DEF SetOnboarding
  <2>2. CASE walk[w].player = p
    <3>1. setups[p] >= 1
      BY <2>2, WalkFacts
    <3>2. setups'[p] >= 1 /\ setups'[p] # 1
      BY <1>4, <3>1
    <3> QED
      BY <2>1, <2>2, <3>2, WalkFacts DEF Claims
  <2>3. CASE walk[w].player # p
    BY <1>3, <1>5, <2>1, <2>3, WalkFacts DEF Claims
  <2> QED
    BY <2>2, <2>3
<1>7. ASSUME NEW q \in Players PROVE Pointer(q)
  <2>1. CASE q = p
    BY <1>4, <2>1, EmptySegment DEF Pointer
  <2>2. CASE q # p
    BY <1>3, <1>5, <2>2, PointerFacts DEF Pointer
  <2> QED
    BY <2>1, <2>2
<1> QED
  BY <1>1, <1>2, <1>6, <1>7, StepShown

-----------------------------------------------------------------------------
(* Steps of a walk.                                                        *)

\* A step of one walk that writes nothing to the tables.
LEMMA WalkStep ==
  ASSUME IInv, NEW w \in Walks, NEW r \in WalkStates,
         r.pc # "idle" => r.player \in known /\ r.from \in Codes,
         walk' = [walk EXCEPT ![w] = r], Claims(w),
         UNCHANGED <<session, played, known, latest, owner, setup, setups>>
  PROVE  IInv'
<1>1. TypeOK'
  BY DEF IInv, TypeOK
<1>2. PlayedExists'
  BY DEF IInv, PlayedExists
<1>3. Stored' = Stored
  BY DEF Stored
<1>4. \A v \in Walks \ {w} : walk'[v] = walk[v]
  BY DEF IInv, TypeOK
<1>5. \A v \in Walks : Claims(v)
  BY <1>3, <1>4, SameWalk
<1>6. \A p \in Players : Pointer(p)
  BY <1>3, SamePointer
<1> QED
  BY <1>1, <1>2, <1>5, <1>6, StepShown

LEMMA BeginStep ==
  ASSUME IInv, NEW w \in Walks, NEW p \in Players, Begin(w, p)
  PROVE  IInv'
<1> DEFINE r == [Idle EXCEPT !.pc = "walk", !.player = p, !.from = latest[p], !.newest = latest[p]]
<1>1. latest[p] \in Codes
  BY DEF IInv, TypeOK, Begin
<1>2. /\ r.pc = "walk" /\ r.player = p /\ r.from = latest[p] /\ r.newest = latest[p] /\ r.found = {}
      /\ r \in WalkStates
  BY <1>1 DEF Idle, WalkStates
<1>3. walk'[w] = r /\ walk' = [walk EXCEPT ![w] = r]
  BY DEF Begin, IInv, TypeOK
<1>4. Stored' = Stored /\ setups' = setups /\ setup' = setup
  BY DEF Begin, Stored
<1> HIDE DEF r
<1>5. Claims(w)
  <2>1. Segment(p, latest[p], latest[p]) = {}
    BY EmptySegment
  <2>2. Position(p, latest[p]) <= Position(p, latest[p])
    BY PositionType, HistoryAssumption
  <2>3. latest[p] # None
    BY DEF Begin
  <2> QED
    BY <1>1, <1>2, <1>3, <1>4, <2>1, <2>2, <2>3, PointerFacts DEF Claims
<1>6. p \in known
  BY DEF Begin
<1> QED
  BY <1>1, <1>2, <1>3, <1>5, <1>6, WalkStep DEF Begin

LEMMA StepStep ==
  ASSUME IInv, NEW w \in Walks, Step(w)
  PROVE  IInv'
<1> DEFINE me == walk[w]
           c  == NextCode(me.player, me.newest)
           r  == [me EXCEPT !.found = @ \cup {c}, !.newest = c]
<1>1. me \in WalkStates
  BY DEF IInv, TypeOK
<1>2. me.pc = "walk" /\ c # None /\ c \notin Undecodable
  BY DEF Step
<1>3. me.player \in Players /\ me.player \in known /\ me.from \in Codes
  BY <1>2, WalkFacts
<1>4. c \in Codes /\ Position(me.player, c) = Position(me.player, me.newest) + 1
  BY <1>2, <1>3, NextPosition DEF IInv, TypeOK, PlayedExists
<1>5. walk' = [walk EXCEPT ![w] = r] /\ walk'[w] = r
  BY DEF Step, IInv, TypeOK
<1> HIDE DEF c
<1>6. /\ r \in WalkStates
      /\ r.pc = "walk" /\ r.player = me.player /\ r.from = me.from /\ r.newest = c
      /\ r.found = me.found \cup {c}
  BY <1>1, <1>2, <1>4 DEF WalkStates
<1>7. Stored' = Stored /\ setups' = setups /\ setup' = setup
  BY DEF Step, Stored
<1> HIDE DEF r
<1>8. Claims(w)
  <2>1. Segment(me.player, me.from, c) = Segment(me.player, me.from, me.newest) \cup {c}
    BY <1>2, <1>3, <1>4, WalkFacts, LongerSegment
  <2>2. Position(me.player, me.from) <= Position(me.player, c)
    <3>1. /\ Position(me.player, me.from) \in Nat /\ Position(me.player, me.newest) \in Nat
          /\ Position(me.player, me.from) <= Position(me.player, me.newest)
      BY <1>2, <1>3, WalkFacts, PositionType, HistoryAssumption
    <3> QED
      BY <3>1, <1>4
  <2>3. /\ me.found = Segment(me.player, me.from, me.newest) /\ me.found \cap Undecodable = {}
        /\ setups[me.player] >= 1
        /\ setups[me.player] = 1 => Segment(me.player, setup[me.player], me.from) \subseteq Stored
    BY <1>2, WalkFacts
  <2> HIDE DEF me
  <2> QED
    BY <1>2, <1>4, <1>5, <1>6, <1>7, <2>1, <2>2, <2>3 DEF Claims
<1> QED
  BY <1>3, <1>5, <1>6, <1>8, WalkStep DEF Step

LEMMA EndStep ==
  ASSUME IInv, NEW w \in Walks, End(w)
  PROVE  IInv'
<1> DEFINE pc == IF walk[w].found = {} THEN "read" ELSE "append"
           r  == [walk[w] EXCEPT !.pc = pc]
<1>1. walk[w] \in WalkStates /\ walk[w].pc = "walk"
  BY DEF IInv, TypeOK, End
<1>2. walk' = [walk EXCEPT ![w] = r] /\ walk'[w] = r
  BY DEF End, IInv, TypeOK
<1>3. /\ r \in WalkStates /\ r.pc = pc /\ r.player = walk[w].player /\ r.from = walk[w].from
      /\ r.newest = walk[w].newest /\ r.found = walk[w].found
  BY <1>1 DEF WalkStates
<1>4. Stored' = Stored /\ setups' = setups /\ setup' = setup
  BY DEF End, Stored
<1>5. pc = "append" => walk[w].found # {}
  OBVIOUS
<1> HIDE DEF r, pc
<1>6. Claims(w)
  BY <1>1, <1>2, <1>3, <1>4, <1>5, WalkFacts DEF Claims
<1> QED
  BY <1>1, <1>2, <1>3, <1>6, WalkFacts, WalkStep DEF End

\* The handler is over: nothing is claimed of an idle walk.
LEMMA FinishStep ==
  ASSUME IInv, NEW w \in Walks, Finish(w)
  PROVE  IInv'
<1>1. walk' = [walk EXCEPT ![w] = Idle] /\ walk'[w].pc = "idle"
  BY DEF Finish, IInv, TypeOK, Idle
<1>2. Idle \in WalkStates /\ Idle.pc = "idle"
  BY DEF Idle, WalkStates
<1>3. Claims(w)
  BY <1>1 DEF Claims
<1> QED
  BY <1>1, <1>2, <1>3, WalkStep DEF Finish

\* A walk's own matches, and everything before the code it started from, are in
\* the table by the time the pointer moves, even when it moves backwards.
LEMMA StoringStep ==
  ASSUME IInv, NEW w \in Walks, walk[w].pc = "append", NEW r \in WalkStates,
         r.pc # "idle" => r = [walk[w] EXCEPT !.pc = r.pc] /\ r.pc = "read",
         owner' = Inserted(walk[w].player, walk[w].found),
         latest' = [latest EXCEPT ![walk[w].player] = walk[w].newest],
         walk' = [walk EXCEPT ![w] = r],
         UNCHANGED <<session, played, known, setup, setups>>
  PROVE  IInv'
<1> DEFINE me == walk[w]
           p  == me.player
<1>1. /\ p \in Players /\ p \in known /\ p # None
      /\ me \in WalkStates /\ me.found \subseteq Codes /\ me.newest \in Codes
  BY WalkFacts, HistoryAssumption DEF IInv, TypeOK, WalkStates
<1>2. Stored' = Stored \cup me.found
  BY <1>1 DEF Stored, Inserted
<1>3. TypeOK'
  <2>1. owner' \in [Codes -> Players \cup {None}]
    BY <1>1 DEF IInv, TypeOK, Inserted
  <2>2. latest' \in [Players -> Codes \cup {None}]
    BY <1>1 DEF IInv, TypeOK
  <2>3. r.pc # "idle" => r.player = p /\ r.from = me.from
    BY <1>1 DEF WalkStates
  <2>4. me.from \in Codes
    BY WalkFacts
  <2>5. /\ walk' \in [Walks -> WalkStates]
        /\ \A v \in Walks : walk'[v].pc # "idle" => walk'[v].player \in known /\ walk'[v].from \in Codes
    BY <1>1, <2>3, <2>4 DEF IInv, TypeOK
  <2> QED
    BY <2>1, <2>2, <2>5 DEF IInv, TypeOK
<1>4. PlayedExists'
  BY DEF IInv, PlayedExists
<1>5. \A v \in Walks \ {w} : walk'[v] = walk[v]
  BY DEF IInv, TypeOK
<1>6. walk'[w] = r
  BY DEF IInv, TypeOK
<1>7. Claims(w)
  <2>1. CASE r.pc = "idle"
    BY <1>6, <2>1 DEF Claims
  <2>2. CASE r.pc # "idle"
    <3>1. /\ r.pc = "read" /\ r.player = p /\ r.from = me.from
          /\ r.newest = me.newest /\ r.found = me.found
      BY <1>1, <2>2 DEF WalkStates
    <3> QED
      BY <1>2, <1>6, <3>1, WalkFacts DEF Claims
  <2> QED
    BY <2>1, <2>2
<1>8. \A v \in Walks : Claims(v)
  BY <1>2, <1>5, <1>7, SameWalk
<1>9. Pointer(p)
  <2>1. latest'[p] = me.newest
    BY <1>1 DEF IInv, TypeOK
  <2>2. /\ me.found = Segment(p, me.from, me.newest) /\ me.found # {}
        /\ me.newest = me.from \/ me.newest \in me.found
        /\ setups[p] >= 1
        /\ setups[p] = 1 => Segment(p, setup[p], me.from) \subseteq Stored
    BY WalkFacts
  <2>3. me.newest \in me.found
    <3>1. Segment(p, me.from, me.from) = {}
      BY <1>1, EmptySegment
    <3> QED
      BY <2>2, <3>1
  <2>4. Segment(p, setup[p], me.newest) \subseteq Segment(p, setup[p], me.from) \cup Segment(p, me.from, me.newest)
    BY <1>1, JoinedSegments
  <2> HIDE DEF p, me
  <2> QED
    BY <1>2, <2>1, <2>2, <2>3, <2>4 DEF Pointer
<1>10. ASSUME NEW q \in Players, q # p PROVE Pointer(q)
  <2>1. latest'[q] = latest[q]
    BY <1>10 DEF IInv, TypeOK
  <2> QED
    BY <1>2, <2>1, SamePointer
<1> QED
  BY <1>3, <1>4, <1>8, <1>9, <1>10, StepShown

LEMMA AppendMatchesStep ==
  ASSUME IInv, NEW w \in Walks, AppendMatches(w)
  PROVE  IInv'
<1> DEFINE r == [walk[w] EXCEPT !.pc = "read"]
<1>1. walk[w] \in WalkStates /\ walk[w].pc = "append"
  BY DEF IInv, TypeOK, AppendMatches
<1>2. r \in WalkStates /\ r.pc = "read"
  BY <1>1 DEF WalkStates
<1>3. walk' = [walk EXCEPT ![w] = r]
  BY DEF AppendMatches, IInv, TypeOK
<1>4. r = [walk[w] EXCEPT !.pc = r.pc]
  BY <1>2
<1> HIDE DEF r
<1> QED
  BY <1>1, <1>2, <1>3, <1>4, StoringStep DEF AppendMatches

LEMMA AppendMatchesErrorStep ==
  ASSUME IInv, NEW w \in Walks, AppendMatchesError(w)
  PROVE  IInv'
<1>1. Idle \in WalkStates /\ Idle.pc = "idle"
  BY DEF Idle, WalkStates
<1>2. walk' = [walk EXCEPT ![w] = Idle] /\ walk'[w].pc = "idle" /\ walk[w].pc = "append"
  BY <1>1 DEF AppendMatchesError, IInv, TypeOK
<1>3. CASE UNCHANGED <<owner, latest>>
  <2>1. Claims(w)
    BY <1>2 DEF Claims
  <2> QED
    BY <1>1, <1>2, <1>3, <2>1, WalkStep DEF AppendMatchesError
<1>4. CASE /\ owner' = Inserted(walk[w].player, walk[w].found)
           /\ latest' = [latest EXCEPT ![walk[w].player] = walk[w].newest]
  BY <1>1, <1>2, <1>4, StoringStep DEF AppendMatchesError
<1> QED
  BY <1>3, <1>4 DEF AppendMatchesError

-----------------------------------------------------------------------------
(* The theorems.                                                           *)

LEMMA NextIInv == IInv /\ [Next]_vars => IInv'
<1> SUFFICES ASSUME IInv, [Next]_vars PROVE IInv'
  OBVIOUS
<1>1. CASE UNCHANGED vars
  <2>1. TypeOK' /\ PlayedExists'
    BY <1>1 DEF vars, IInv, TypeOK, PlayedExists
  <2> QED
    BY <1>1, <2>1, QuietStep DEF vars
<1>2. ASSUME NEW p \in Players, Login(p) \/ LoginError(p) \/ SessionEnds(p) \/ Play(p) PROVE IInv'
  BY <1>2, PlayerStep
<1>3. ASSUME NEW p \in Players, NEW c \in Codes, SetOnboarding(p, c) PROVE IInv'
  BY <1>3, OnboardingStep
<1>4. ASSUME NEW w \in Walks, NEW p \in Players, Begin(w, p) PROVE IInv'
  BY <1>4, BeginStep
<1>5. ASSUME NEW w \in Walks, Step(w) PROVE IInv'
  BY <1>5, StepStep
<1>6. ASSUME NEW w \in Walks, End(w) PROVE IInv'
  BY <1>6, EndStep
<1>7. ASSUME NEW w \in Walks, AppendMatches(w) PROVE IInv'
  BY <1>7, AppendMatchesStep
<1>8. ASSUME NEW w \in Walks, AppendMatchesError(w) PROVE IInv'
  BY <1>8, AppendMatchesErrorStep
<1>9. ASSUME NEW w \in Walks, Finish(w) PROVE IInv'
  BY <1>9, FinishStep
<1> QED
  BY <1>1, <1>2, <1>3, <1>4, <1>5, <1>6, <1>7, <1>8, <1>9 DEF Next

\* The inductive invariant holds in every reachable state of any number of
\* concurrent handlers.
THEOREM Invariance == Spec => []IInv
<1>1. Init => IInv
  BY InitIInv
<1>2. IInv /\ [Next]_vars => IInv'
  BY NextIInv
<1> QED
  BY <1>1, <1>2, PTL DEF Spec

\* Rows, pointers and the locals of the handlers keep their types, and a
\* session is of a player that has a row.
THEOREM TypeCorrect == Spec => []TypeOK
<1>1. IInv => TypeOK
  BY DEF IInv
<1> QED
  BY <1>1, Invariance, PTL

\* What a walk of GET /api/matches hands on is an unbroken stretch of the
\* history, however the walks and the onboardings interleave.
THEOREM SegmentsAreFound == Spec => []FoundIsSegment
<1>1. IInv => FoundIsSegment
  BY DEF IInv
<1> QED
  BY <1>1, Invariance, PTL

\* No match between the code of the one onboarding and the pointer is ever
\* missing from the table, with walks moving the pointer to and fro.
THEOREM NothingIsSkipped == Spec => []NothingSkipped
<1>1. IInv => NothingSkipped
  BY DEF IInv
<1> QED
  BY <1>1, Invariance, PTL

-----------------------------------------------------------------------------
(* Matches in the table are played, and stored once.                       *)

\* What a walk has found its player has played, and so has the owner of what is
\* in the table; nothing undecodable gets there.
FoundArePlayed ==
    \A w \in Walks : Walking(w) =>
        \A c \in walk[w].found : Position(walk[w].player, c) \in 1..played[walk[w].player]

StoredArePlayed ==
    \A c \in Stored : /\ c \notin Undecodable
                      /\ Position(owner[c], c) \in 1..played[owner[c]]

PInv == FoundArePlayed /\ StoredArePlayed

LEMMA InitPInv == Init => PInv
BY DEF Init, PInv, FoundArePlayed, StoredArePlayed, Walking, Idle, Stored

LEMMA PlayedGrows ==
  ASSUME IInv, IInv', [Next]_vars
  PROVE  \A p \in Players : played[p] \in Nat /\ played'[p] \in Nat /\ played[p] <= played'[p]
<1>1. played \in [Players -> Nat] /\ played' \in [Players -> Nat]
  BY DEF IInv, TypeOK
<1>2. CASE UNCHANGED played
  BY <1>1, <1>2
<1>3. ASSUME NEW p \in Players, Play(p) PROVE \A q \in Players : played[q] <= played'[q]
  BY <1>1, <1>3 DEF Play
<1>4. UNCHANGED played \/ \E p \in Players : Play(p)
  BY DEF Next, vars, Login, LoginError, SessionEnds, SetOnboarding, Begin, Step, End,
         AppendMatches, AppendMatchesError, Finish
<1> QED
  BY <1>1, <1>2, <1>3, <1>4

\* A walk that found nothing new, and a table that got nothing new.
LEMMA FoundBefore ==
  ASSUME IInv, IInv', PInv, [Next]_vars, NEW w \in Walks,
         walk'[w].pc # "idle" =>
            /\ walk'[w].found = {} \/ (walk[w].pc # "idle" /\ walk'[w].found = walk[w].found)
            /\ walk[w].pc # "idle" /\ walk'[w].found # {} => walk'[w].player = walk[w].player,
         walk'[w].pc # "idle", NEW c \in walk'[w].found
  PROVE  Position(walk'[w].player, c) \in 1..played'[walk'[w].player]
<1>1. walk[w].pc # "idle" /\ c \in walk[w].found /\ walk'[w].player = walk[w].player
  OBVIOUS
<1>2. walk[w].player \in Players
  BY <1>1, WalkFacts
<1>3. Position(walk[w].player, c) \in 1..played[walk[w].player]
  BY <1>1 DEF PInv, FoundArePlayed, Walking
<1> QED
  BY <1>1, <1>2, <1>3, PlayedGrows

LEMMA StoredBefore ==
  ASSUME IInv, IInv', PInv, [Next]_vars, owner' = owner
  PROVE  StoredArePlayed'
<1> SUFFICES ASSUME NEW c \in Stored'
             PROVE  c \notin Undecodable /\ Position(owner'[c], c) \in 1..played'[owner'[c]]
  BY DEF StoredArePlayed, Position, Undecodable
<1>1. c \in Stored /\ owner'[c] = owner[c]
  BY DEF Stored
<1>2. owner[c] \in Players
  BY <1>1 DEF Stored, IInv, TypeOK
<1>3. c \notin Undecodable /\ Position(owner[c], c) \in 1..played[owner[c]]
  BY <1>1 DEF PInv, StoredArePlayed
<1> QED
  BY <1>1, <1>2, <1>3, PlayedGrows

\* What Steam names after a match is one that has been played.
LEMMA NamedIsPlayed ==
  ASSUME IInv, NEW p \in Players, NEW b, NextCode(p, b) # None
  PROVE  Position(p, NextCode(p, b)) \in 1..played[p]
<1>1. played[p] \in Nat /\ played[p] <= Len(History[p]) /\ Len(History[p]) \in Nat
  BY HistoryAssumption DEF IInv, TypeOK, PlayedExists
<1>2. Position(p, b) \in 1..(played[p] - 1)
  BY DEF NextCode
<1>3. Position(p, NextCode(p, b)) = Position(p, b) + 1
  BY <1>1, NextPosition
<1> QED
  BY <1>1, <1>2, <1>3

LEMMA StepPInv ==
  ASSUME IInv, IInv', PInv, [Next]_vars, NEW w \in Walks, Step(w)
  PROVE  PInv'
<1> DEFINE me == walk[w]
           c  == NextCode(me.player, me.newest)
<1>1. me \in WalkStates /\ me.pc = "walk" /\ c # None /\ me.player \in Players
  BY WalkFacts DEF Step, IInv, TypeOK
<1>2. /\ walk'[w].found = me.found \cup {c} /\ walk'[w].player = me.player
      /\ \A v \in Walks \ {w} : walk'[v] = walk[v]
      /\ owner' = owner /\ played' = played
  BY <1>1 DEF Step, IInv, TypeOK, WalkStates
<1>3. Position(me.player, c) \in 1..played[me.player]
  BY <1>1, NamedIsPlayed
<1> HIDE DEF c
<1>4. ASSUME NEW v \in Walks, walk'[v].pc # "idle", NEW d \in walk'[v].found
      PROVE  Position(walk'[v].player, d) \in 1..played'[walk'[v].player]
  BY <1>1, <1>2, <1>3, <1>4 DEF PInv, FoundArePlayed, Walking
<1> QED
  BY <1>2, <1>4, StoredBefore DEF PInv, FoundArePlayed, Walking, Position

LEMMA QuietPInv ==
  ASSUME IInv, IInv', PInv, [Next]_vars, owner' = owner,
         \A w \in Walks : walk'[w].pc # "idle" =>
            /\ walk'[w].found = {} \/ (walk[w].pc # "idle" /\ walk'[w].found = walk[w].found)
            /\ walk[w].pc # "idle" /\ walk'[w].found # {} => walk'[w].player = walk[w].player
  PROVE  PInv'
BY FoundBefore, StoredBefore DEF PInv, FoundArePlayed, Walking, Position

\* The matches of a walk go into the table as its player's.
LEMMA StoringPInv ==
  ASSUME IInv, IInv', PInv, [Next]_vars, NEW w \in Walks,
         AppendMatches(w) \/ AppendMatchesError(w)
  PROVE  PInv'
<1> DEFINE me == walk[w]
<1>1. me \in WalkStates /\ me.pc = "append" /\ me.player \in Players
      /\ me.found \cap Undecodable = {}
  BY WalkFacts DEF AppendMatches, AppendMatchesError, IInv, TypeOK
<1>2. /\ \A v \in Walks \ {w} : walk'[v] = walk[v]
      /\ walk'[w] = Idle \/ walk'[w] = [me EXCEPT !.pc = "read"]
  BY <1>1 DEF AppendMatches, AppendMatchesError, IInv, TypeOK
<1>3. \A v \in Walks : walk'[v].pc # "idle" =>
        /\ walk'[v].found = {} \/ (walk[v].pc # "idle" /\ walk'[v].found = walk[v].found)
        /\ walk[v].pc # "idle" /\ walk'[v].found # {} => walk'[v].player = walk[v].player
  BY <1>1, <1>2 DEF Idle, WalkStates
<1>4. CASE owner' = owner
  BY <1>3, <1>4, QuietPInv
<1>5. CASE owner' = Inserted(me.player, me.found)
  <2>1. ASSUME NEW c \in Stored'
        PROVE  c \notin Undecodable /\ Position(owner'[c], c) \in 1..played'[owner'[c]]
    <3>1. CASE c \in Stored
      <4>1. owner'[c] = owner[c] /\ owner[c] \in Players
        BY <1>5, <3>1 DEF Inserted, Stored, IInv, TypeOK
      <4> QED
        BY <3>1, <4>1, PlayedGrows DEF PInv, StoredArePlayed
    <3>2. CASE c \notin Stored
      <4>1. c \in me.found /\ owner'[c] = me.player
        BY <1>5, <3>2 DEF Inserted, Stored
      <4>2. Position(me.player, c) \in 1..played[me.player]
        BY <1>1, <4>1 DEF PInv, FoundArePlayed, Walking
      <4> QED
        BY <1>1, <4>1, <4>2, PlayedGrows
    <3> QED
      BY <3>1, <3>2
  <2> QED
    BY <1>3, <2>1, FoundBefore DEF PInv, FoundArePlayed, StoredArePlayed, Walking, Position, Undecodable
<1> QED
  BY <1>4, <1>5 DEF AppendMatches, AppendMatchesError

LEMMA NextPInv == IInv /\ IInv' /\ PInv /\ [Next]_vars => PInv'
<1> SUFFICES ASSUME IInv, IInv', PInv, [Next]_vars PROVE PInv'
  OBVIOUS
<1>1. CASE UNCHANGED <<owner, walk>>
  BY <1>1, QuietPInv
<1>2. ASSUME NEW w \in Walks, NEW p \in Players, Begin(w, p) PROVE PInv'
  <2>1. /\ walk'[w].found = {} /\ \A v \in Walks \ {w} : walk'[v] = walk[v]
        /\ owner' = owner
    BY <1>2 DEF Begin, Idle, IInv, TypeOK
  <2>2. ASSUME NEW v \in Walks, walk'[v].pc # "idle"
        PROVE  /\ walk'[v].found = {} \/ (walk[v].pc # "idle" /\ walk'[v].found = walk[v].found)
               /\ walk[v].pc # "idle" /\ walk'[v].found # {} => walk'[v].player = walk[v].player
    BY <2>1, <2>2
  <2> QED
    BY <2>1, <2>2, QuietPInv
<1>3. ASSUME NEW w \in Walks, Step(w) PROVE PInv'
  BY <1>3, StepPInv
<1>4. ASSUME NEW w \in Walks, End(w) PROVE PInv'
  <2>1. /\ walk[w].pc # "idle" /\ walk'[w].found = walk[w].found /\ walk'[w].player = walk[w].player
        /\ \A v \in Walks \ {w} : walk'[v] = walk[v]
        /\ owner' = owner
    BY <1>4 DEF End, IInv, TypeOK, WalkStates
  <2> QED
    BY <2>1, QuietPInv
<1>5. ASSUME NEW w \in Walks, AppendMatches(w) \/ AppendMatchesError(w) PROVE PInv'
  BY <1>5, StoringPInv
<1>6. ASSUME NEW w \in Walks, Finish(w) PROVE PInv'
  <2>1. /\ walk'[w].pc = "idle" /\ \A v \in Walks \ {w} : walk'[v] = walk[v]
        /\ owner' = owner
    BY <1>6 DEF Finish, Idle, IInv, TypeOK
  <2> QED
    BY <2>1, QuietPInv
<1> QED
  BY <1>1, <1>2, <1>3, <1>4, <1>5, <1>6
     DEF Next, vars, Login, LoginError, SessionEnds, SetOnboarding, Play

\* The second invariant, over the first, in every reachable state: nothing is
\* found or stored that its player has not played.
THEOREM PlayedInvariance == Spec => []PInv
<1>1. Init => PInv
  BY InitPInv
<1>2. IInv /\ IInv' /\ PInv /\ [Next]_vars => PInv'
  BY NextPInv
<1> QED
  BY <1>1, <1>2, Invariance, PTL DEF Spec

\* One sharecode, one match, one list: the sharecode can be the key of the
\* table, whatever is walked, mistyped or played together, and each match is in
\* the list of a player who has played it.
THEOREM EveryMatchIsStoredOnce == Spec => []StoredOnce
<1>1. ASSUME IInv, PInv PROVE StoredOnce
  <2>1. ASSUME NEW c \in Stored, NEW d \in Stored, Decoded[c] = Decoded[d] PROVE c = d
    <3>1. c \in Words /\ d \in Words /\ c \in Codes /\ d \in Codes
      BY HistoryAssumption DEF Stored
    <3>2. Decoded[c] = DecodeShareCode(c) /\ Decoded[d] = DecodeShareCode(d)
      BY <3>1 DEF Decoded
    <3>3. DecodeShareCode(c) # Malformed /\ DecodeShareCode(d) # Malformed
      BY <1>1, <3>1, <3>2 DEF PInv, StoredArePlayed, Undecodable
    <3> QED
      BY <2>1, <3>1, <3>2, <3>3, EncodeUndoesDecode
  <2>2. \A c \in Stored : Position(owner[c], c) \in 1..played[owner[c]]
    BY <1>1 DEF PInv, StoredArePlayed
  <2> QED
    BY <2>1, <2>2, CodecIsExact DEF StoredOnce
<1> QED
  BY <1>1, Invariance, PlayedInvariance, PTL

\* A player who has onboarded once misses a match in their list only because
\* another player, who has played it too, had it first: what the comment on
\* AppendMatches promises of the list is lost to team-mates and to nothing else.
LostToATeammate ==
    \A p \in Players : setups[p] = 1 =>
        \A c \in Segment(p, setup[p], latest[p]) :
            \/ c \in Owned(p)
            \/ \E q \in Players \ {p} : c \in Owned(q) /\ Position(q, c) \in 1..played[q]

THEOREM OnlyLostToATeammate == Spec => []LostToATeammate
<1>1. ASSUME IInv, PInv PROVE LostToATeammate
  <2> SUFFICES ASSUME NEW p \in Players, setups[p] = 1,
                      NEW c \in Segment(p, setup[p], latest[p]), c \notin Owned(p)
               PROVE  \E q \in Players \ {p} : c \in Owned(q) /\ Position(q, c) \in 1..played[q]
    BY DEF LostToATeammate
  <2>1. c \in Stored /\ c \in Codes
    BY <1>1 DEF IInv, NothingSkipped, Stored
  <2>2. owner[c] \in Players \ {p} /\ c \in Owned(owner[c])
    BY <1>1, <2>1 DEF Owned, Stored, IInv, TypeOK
  <2>3. Position(owner[c], c) \in 1..played[owner[c]]
    BY <1>1, <2>1 DEF PInv, StoredArePlayed
  <2> QED
    BY <2>2, <2>3
<1> QED
  BY <1>1, Invariance, PlayedInvariance, PTL

\* And nothing is lost where no two players share a match: the promise of the
\* comment, under the two conditions its refutations break.
THEOREM NobodyLosesAlone ==
  ASSUME \A p, q \in Players : p # q =>
            \A i \in DOMAIN History[p], j \in DOMAIN History[q] : History[p][i] # History[q][j]
  PROVE  Spec => []((\A p \in Players : setups[p] <= 1) => NobodyLosesAMatch)
<1>1. ASSUME IInv, LostToATeammate, \A p \in Players : setups[p] <= 1, NEW p \in Players,
             latest[p] # None, NEW c \in Segment(p, setup[p], latest[p])
      PROVE  c \in Owned(p)
  <2>1. setups[p] = 1
    <3>1. setups[p] >= 1
      BY <1>1 DEF IInv, SetUpFirst
    <3>2. setups[p] \in Nat
      BY <1>1, HistoryAssumption DEF IInv, TypeOK
    <3> QED
      BY <1>1, <3>1, <3>2
  <2>2. ASSUME NEW q \in Players \ {p}, Position(q, c) \in 1..played[q] PROVE FALSE
    <3>1. PICK i \in (Position(p, setup[p]) + 1)..Position(p, latest[p]) : c = History[p][i]
      BY <1>1 DEF Segment
    <3>2. i \in DOMAIN History[p]
      <4>1. /\ Position(p, setup[p]) \in Nat /\ Position(p, latest[p]) \in 0..Len(History[p])
            /\ DOMAIN History[p] = 1..Len(History[p]) /\ Len(History[p]) \in Nat
        BY PositionType, HistoryAssumption
      <4> QED
        BY <4>1
    <3>3. Position(q, c) \in DOMAIN History[q] /\ History[q][Position(q, c)] = c
      <4>1. Position(q, c) # 0
        BY <2>2
      <4> QED
        BY <4>1, PositionType, HistoryAssumption
    <3> QED
      BY <3>1, <3>2, <3>3
  <2> QED
    BY <1>1, <2>1, <2>2 DEF LostToATeammate
<1>2. IInv /\ LostToATeammate => ((\A p \in Players : setups[p] <= 1) => NobodyLosesAMatch)
  BY <1>1 DEF NobodyLosesAMatch
<1> QED
  BY <1>2, Invariance, OnlyLostToATeammate, PTL

\* How far the overrun of a second onboarding goes: where no player gives a
\* new starting code in the middle of a walk of their own, discovery starts
\* where the player said, however often that is and whoever else is walking.
Peaceful == \A p \in Players : setups'[p] # setups[p] =>
                \A w \in Walks : Walking(w) => walk[w].player # p

StartStored(w) ==
    Walking(w) => Segment(walk[w].player, setup[walk[w].player], walk[w].from) \subseteq Stored

DInv == DiscoveryStartsThere /\ \A w \in Walks : StartStored(w)

\* The ways a step treats a player's pointer, and a walk.
PointerRests(p) == latest'[p] = latest[p] /\ setup'[p] = setup[p]
PointerGiven(p) == latest'[p] = setup'[p] /\ \A w \in Walks : Walking(w) => walk[w].player # p
PointerMoved(p) == /\ setup'[p] = setup[p]
                   /\ \E w \in Walks : /\ Walking(w) /\ walk[w].player = p
                                       /\ latest'[p] = walk[w].newest /\ walk[w].found \subseteq Stored'
WalkGoesOn(w)   == Walking(w) /\ walk'[w].player = walk[w].player /\ walk'[w].from = walk[w].from
WalkBegins(w)   == /\ walk'[w].player \in Players /\ walk'[w].from = latest[walk'[w].player]
                   /\ walk'[w].from # None /\ UNCHANGED setup
Moves == /\ Stored \subseteq Stored'
         /\ \A p \in Players : PointerRests(p) \/ PointerGiven(p) \/ PointerMoved(p)
         /\ \A w \in Walks : Walking(w)' => WalkGoesOn(w) \/ WalkBegins(w)

LEMMA WalkMoves ==
  ASSUME IInv, NEW w \in Walks, Step(w) \/ End(w) \/ Finish(w) \/ AppendMatches(w) \/ AppendMatchesError(w)
  PROVE  Moves
<1>1. /\ walk \in [Walks -> WalkStates] /\ latest \in [Players -> Codes \cup {None}]
      /\ owner \in [Codes -> Players \cup {None}]
  BY DEF IInv, TypeOK
<1>2. Walking(w) /\ walk[w] \in WalkStates
  BY <1>1 DEF Walking, Step, End, Finish, AppendMatches, AppendMatchesError
<1>3. walk[w].player \in Players /\ walk[w].player # None /\ walk[w].found \subseteq Codes
  BY <1>2, WalkFacts, HistoryAssumption DEF Walking, WalkStates
<1>4. setup' = setup
  BY DEF Step, End, Finish, AppendMatches, AppendMatchesError
<1>5. \A v \in Walks : Walking(v)' => WalkGoesOn(v)
  <2>1. \A v \in Walks \ {w} : walk'[v] = walk[v]
    BY <1>1 DEF Step, End, Finish, AppendMatches, AppendMatchesError
  <2>2. Walking(w)' => walk'[w].player = walk[w].player /\ walk'[w].from = walk[w].from
    <3>1. CASE Step(w)
      BY <1>1, <1>2, <3>1 DEF Step, WalkStates
    <3>2. CASE End(w)
      BY <1>1, <1>2, <3>2 DEF End, WalkStates
    <3>3. CASE AppendMatches(w)
      BY <1>1, <1>2, <3>3 DEF AppendMatches, WalkStates
    <3>4. CASE Finish(w) \/ AppendMatchesError(w)
      BY <1>1, <3>4 DEF Finish, AppendMatchesError, Walking, Idle
    <3> QED
      BY <3>1, <3>2, <3>3, <3>4
  <2> QED
    BY <1>2, <2>1, <2>2 DEF WalkGoesOn, Walking
<1>6. CASE UNCHANGED <<owner, latest>>
  BY <1>4, <1>5, <1>6 DEF Moves, Stored, PointerRests
<1>7. CASE /\ owner' = Inserted(walk[w].player, walk[w].found)
           /\ latest' = [latest EXCEPT ![walk[w].player] = walk[w].newest]
  <2>1. Stored' = Stored \cup walk[w].found
    BY <1>1, <1>3, <1>7 DEF Stored, Inserted
  <2>2. ASSUME NEW p \in Players PROVE PointerRests(p) \/ PointerMoved(p)
    <3>1. CASE p = walk[w].player
      BY <1>1, <1>2, <1>4, <1>7, <2>1, <3>1 DEF PointerMoved
    <3>2. CASE p # walk[w].player
      BY <1>1, <1>4, <1>7, <3>2 DEF PointerRests
    <3> QED
      BY <3>1, <3>2
  <2> QED
    BY <1>5, <2>1, <2>2 DEF Moves
<1> QED
  BY <1>6, <1>7 DEF Step, End, Finish, AppendMatches, AppendMatchesError

LEMMA PlayerMoves ==
  ASSUME IInv, Peaceful, NEW p \in Players,
         \/ Login(p) \/ LoginError(p) \/ SessionEnds(p) \/ Play(p)
         \/ \E c \in Codes : SetOnboarding(p, c)
         \/ \E w \in Walks : Begin(w, p)
  PROVE  Moves
<1>1. /\ walk \in [Walks -> WalkStates] /\ latest \in [Players -> Codes \cup {None}]
      /\ setup \in [Players -> Codes \cup {None}] /\ setups \in [Players -> 0..MaxSetups]
      /\ MaxSetups \in Nat
  BY HistoryAssumption DEF IInv, TypeOK
<1>2. owner' = owner /\ Stored' = Stored
  BY DEF Login, LoginError, SessionEnds, Play, SetOnboarding, Begin, Stored
<1>3. CASE Login(p) \/ LoginError(p) \/ SessionEnds(p) \/ Play(p)
  <2>1. UNCHANGED <<latest, walk, setup>>
    BY <1>3 DEF Login, LoginError, SessionEnds, Play
  <2> QED
    BY <1>2, <2>1 DEF Moves, PointerRests, WalkGoesOn, Walking
<1>4. ASSUME NEW c \in Codes, SetOnboarding(p, c) PROVE Moves
  <2>1. /\ latest' = [latest EXCEPT ![p] = c] /\ setup' = [setup EXCEPT ![p] = c]
        /\ setups' = [setups EXCEPT ![p] = @ + 1] /\ walk' = walk
    BY <1>4 DEF SetOnboarding
  <2>2. setups'[p] # setups[p]
    BY <1>1, <2>1
  <2>3. PointerGiven(p)
    BY <1>1, <2>1, <2>2 DEF PointerGiven, Peaceful
  <2>4. \A q \in Players \ {p} : PointerRests(q)
    BY <1>1, <2>1 DEF PointerRests
  <2> QED
    BY <1>2, <2>1, <2>3, <2>4 DEF Moves, WalkGoesOn, Walking
<1>5. ASSUME NEW w \in Walks, Begin(w, p) PROVE Moves
  <2>1. UNCHANGED <<latest, setup>> /\ latest[p] # None
    BY <1>5 DEF Begin
  <2>2. /\ walk'[w].player = p /\ walk'[w].from = latest[p]
        /\ \A v \in Walks \ {w} : walk'[v] = walk[v]
    BY <1>1, <1>5 DEF Begin, Idle
  <2>3. WalkBegins(w)
    BY <2>1, <2>2 DEF WalkBegins
  <2>4. \A v \in Walks \ {w} : Walking(v)' => WalkGoesOn(v)
    BY <2>2 DEF WalkGoesOn, Walking
  <2> QED
    BY <1>2, <2>1, <2>3, <2>4 DEF Moves, PointerRests
<1> QED
  BY <1>3, <1>4, <1>5

LEMMA MovesDInv ==
  ASSUME IInv, IInv', DInv, Moves
  PROVE  DInv'
<1>1. \A p, a, b : Segment(p, a, b)' = Segment(p, a, b)
  BY DEF Segment, Position
<1>2. ASSUME NEW p \in Players, latest'[p] # None
      PROVE  Segment(p, setup'[p], latest'[p]) \subseteq Stored'
  <2>1. CASE PointerRests(p)
    BY <1>2, <2>1 DEF PointerRests, DInv, DiscoveryStartsThere, Moves
  <2>2. CASE PointerGiven(p)
    BY <2>2, EmptySegment DEF PointerGiven
  <2>3. CASE PointerMoved(p)
    <3>1. PICK w \in Walks : /\ Walking(w) /\ walk[w].player = p
                             /\ latest'[p] = walk[w].newest /\ walk[w].found \subseteq Stored'
      BY <2>3 DEF PointerMoved
    <3>2. Segment(p, setup[p], walk[w].from) \subseteq Stored'
      BY <3>1 DEF DInv, StartStored, Moves
    <3>3. Segment(p, walk[w].from, walk[w].newest) \subseteq Stored'
      BY <3>1, WalkFacts DEF Walking
    <3> QED
      BY <2>3, <3>1, <3>2, <3>3, JoinedSegments DEF PointerMoved
  <2> QED
    BY <2>1, <2>2, <2>3 DEF Moves
<1>3. ASSUME NEW w \in Walks, Walking(w)'
      PROVE  Segment(walk'[w].player, setup'[walk'[w].player], walk'[w].from) \subseteq Stored'
  <2>1. CASE WalkGoesOn(w)
    <3>1. /\ Walking(w) /\ walk'[w].player = walk[w].player /\ walk'[w].from = walk[w].from
          /\ walk[w].player \in Players
      BY <2>1, WalkFacts DEF WalkGoesOn, Walking
    <3>2. setup'[walk[w].player] = setup[walk[w].player]
      BY <3>1 DEF Moves, PointerRests, PointerGiven, PointerMoved
    <3> QED
      BY <3>1, <3>2 DEF DInv, StartStored, Moves
  <2>2. CASE WalkBegins(w)
    BY <2>2 DEF WalkBegins, DInv, DiscoveryStartsThere, Moves
  <2> QED
    BY <1>3, <2>1, <2>2 DEF Moves
<1>4. DiscoveryStartsThere'
  BY <1>1, <1>2 DEF DiscoveryStartsThere
<1>5. \A w \in Walks : StartStored(w)'
  BY <1>1, <1>3 DEF StartStored
<1> QED
  BY <1>4, <1>5 DEF DInv

THEOREM OnboardingInPeace == Spec /\ [][Peaceful]_vars => []DiscoveryStartsThere
<1>1. Init => DInv
  BY DEF Init, DInv, DiscoveryStartsThere, StartStored, Walking, Idle
<1>2. IInv /\ IInv' /\ DInv /\ [Next]_vars /\ [Peaceful]_vars => DInv'
  <2> SUFFICES ASSUME IInv, IInv', DInv, [Next]_vars, [Peaceful]_vars PROVE DInv'
    OBVIOUS
  <2>1. CASE UNCHANGED vars
    <3>1. Moves
      BY <2>1 DEF vars, Moves, PointerRests, WalkGoesOn, Walking, Stored
    <3> QED
      BY <3>1, MovesDInv
  <2>2. CASE ~ UNCHANGED vars
    <3>1. Next /\ Peaceful
      BY <2>2
    <3>2. ASSUME NEW p \in Players,
                 \/ Login(p) \/ LoginError(p) \/ SessionEnds(p) \/ Play(p)
                 \/ \E c \in Codes : SetOnboarding(p, c)
                 \/ \E w \in Walks : Begin(w, p)
          PROVE  Moves
      BY <3>1, <3>2, PlayerMoves
    <3>3. ASSUME NEW w \in Walks,
                 Step(w) \/ End(w) \/ Finish(w) \/ AppendMatches(w) \/ AppendMatchesError(w)
          PROVE  Moves
      BY <3>3, WalkMoves
    <3>4. Moves
      BY <3>1, <3>2, <3>3 DEF Next
    <3> QED
      BY <3>4, MovesDInv
  <2> QED
    BY <2>1, <2>2
<1>3. DInv => DiscoveryStartsThere
  BY DEF DInv
<1> QED
  BY <1>1, <1>2, <1>3, Invariance, PTL DEF Spec

\* ON CONFLICT DO NOTHING: whoever stored a match first has it for good.
THEOREM FirstOwnerStays == Spec => OwnerIsForever
<1>1. [Next]_vars => [\A c \in Stored : owner'[c] = owner[c]]_vars
  <2> SUFFICES ASSUME [Next]_vars, NEW c \in Stored, ~ UNCHANGED vars PROVE owner'[c] = owner[c]
    OBVIOUS
  <2>1. ASSUME NEW w \in Walks, AppendMatches(w) \/ AppendMatchesError(w) PROVE owner'[c] = owner[c]
    BY <2>1 DEF AppendMatches, AppendMatchesError, Inserted, Stored
  <2>2. ASSUME NEW w \in Walks, Step(w) \/ End(w) \/ Finish(w) PROVE owner'[c] = owner[c]
    BY <2>2 DEF Step, End, Finish
  <2>3. ASSUME NEW p \in Players,
               \/ Login(p) \/ LoginError(p) \/ SessionEnds(p) \/ Play(p)
               \/ \E d \in Codes : SetOnboarding(p, d)
               \/ \E w \in Walks : Begin(w, p)
        PROVE  owner'[c] = owner[c]
    BY <2>3 DEF Login, LoginError, SessionEnds, Play, SetOnboarding, Begin
  <2> QED
    BY <2>1, <2>2, <2>3 DEF Next
<1> QED
  BY <1>1, PTL DEF Spec, OwnerIsForever
=============================================================================
