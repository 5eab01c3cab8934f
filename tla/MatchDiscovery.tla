--------------------------- MODULE MatchDiscovery ---------------------------
(***************************************************************************)
(* How the backend learns of matches: the players and matches tables, the  *)
(* sessions, the sign-in and onboarding handlers, and GET                  *)
(* /api/matches, which walks a player's history on Steam from the latest   *)
(* known sharecode and appends what it finds.  Handlers run concurrently:  *)
(* any number of walks, of the same player or of others, interleave with   *)
(* each other and with onboarding at every store and Steam call.           *)
(***************************************************************************)
EXTENDS ShareCode

CONSTANTS Players, Walks, Codes, None,
          History,      \* the matches each player plays, oldest first
          MaxSetups     \* bound on onboardings of one player

ASSUME HistoryAssumption ==
    /\ \A p \in Players : /\ History[p] \in Seq(Codes)
                          /\ \A i, j \in DOMAIN History[p] :
                                History[p][i] = History[p][j] => i = j
    /\ Codes \subseteq Words
    /\ None \notin Codes \cup Players
    /\ MaxSetups \in Nat

VARIABLES session,  \* players whose browser has a cookie that Verify accepts
          played,   \* how many matches of its history each player has played
          known,    \* players with a row in the players table
          latest,   \* latest_known_code; None until auth_code is set with it
          owner,    \* matches.steam_id of each sharecode; None: no such row
          walk,     \* the locals of each GET /api/matches handler
          setup,    \* the starting code of each player's last onboarding
          setups    \* onboardings of each player

vars == <<session, played, known, latest, owner, walk, setup, setups>>

Decoded     == [c \in Codes |-> DecodeShareCode(c)]
Undecodable == {c \in Codes : Decoded[c] = Malformed}

Stored   == {c \in Codes : owner[c] # None}
Owned(p) == {c \in Codes : owner[c] = p}

\* Where a code is in a player's history; 0: not one of theirs.
Position(p, c) == IF \E i \in DOMAIN History[p] : History[p][i] = c
                  THEN CHOOSE i \in DOMAIN History[p] : History[p][i] = c
                  ELSE 0

Segment(p, from, to) ==
    {History[p][i] : i \in (Position(p, from) + 1)..Position(p, to)}

Idle == [pc |-> "idle", player |-> None, from |-> None, newest |-> None,
         found |-> {}]

Init ==
    /\ session = {}
    /\ played = [p \in Players |-> 0]
    /\ known = {}
    /\ latest = [p \in Players |-> None]
    /\ owner = [c \in Codes |-> None]
    /\ walk = [w \in Walks |-> Idle]
    /\ setup = [p \in Players |-> None]
    /\ setups = [p \in Players |-> 0]

-----------------------------------------------------------------------------
(* The Steam callback, logout and POST /api/onboarding.                    *)

\* Steam vouches for the player; UpsertProfile, which touches neither the auth
\* code nor the pointer, and then the cookie.  Without a profile from Steam the
\* sign-in goes on.
Login(p) ==
    /\ known' = known \cup {p}
    /\ session' = session \cup {p}
    /\ UNCHANGED <<played, latest, owner, walk, setup, setups>>

\* Mutant: a failed UpsertProfile is as little an error as a missing profile.
LoginAnyway(p) ==
    /\ session' = session \cup {p}
    /\ UNCHANGED <<played, known, latest, owner, walk, setup, setups>>

\* UpsertProfile fails, maybe only to reply: no cookie.
LoginError(p) ==
    /\ known' \in {known, known \cup {p}}
    /\ UNCHANGED <<session, played, latest, owner, walk, setup, setups>>

\* The cookie expires, or its browser logs out.
SessionEnds(p) ==
    /\ session' = session \ {p}
    /\ UNCHANGED <<played, known, latest, owner, walk, setup, setups>>

\* The pointer goes wherever the user says, whoever is walking meanwhile; the
\* code has to decode, but may be of somebody else's match, or of none so far.
SetOnboarding(p, c) ==
    /\ c \notin Undecodable
    /\ p \in session /\ p \in known
    /\ setups[p] < MaxSetups
    /\ setups' = [setups EXCEPT ![p] = @ + 1]
    /\ latest' = [latest EXCEPT ![p] = c]
    /\ setup'  = [setup EXCEPT ![p] = c]
    /\ UNCHANGED <<session, played, known, owner, walk>>

-----------------------------------------------------------------------------
(* Steam: external, seen through GetNextMatchSharingCode.                  *)

Play(p) ==
    /\ played[p] < Len(History[p])
    /\ played' = [played EXCEPT ![p] = @ + 1]
    /\ UNCHANGED <<session, known, latest, owner, walk, setup, setups>>

\* The match after this one, if it has been played.
NextCode(p, c) ==
    IF Position(p, c) \in 1..(played[p] - 1) THEN History[p][Position(p, c) + 1] ELSE None

-----------------------------------------------------------------------------
(* GET /api/matches.                                                       *)

\* Verify, which nobody asks again later, and the first GetPlayer: no row, or
\* no auth code, is 428 and no walk.
Begin(w, p) ==
    /\ walk[w].pc = "idle"
    /\ p \in session
    /\ p \in known /\ latest[p] # None
    /\ walk' = [walk EXCEPT ![w] = [Idle EXCEPT !.pc = "walk", !.player = p,
                                                !.from = latest[p], !.newest = latest[p]]]
    /\ UNCHANGED <<session, played, known, latest, owner, setup, setups>>

\* Mutant: the code is taken for the newest before it is decoded.
StepUndecoded(w) ==
    LET me == walk[w]
        c  == NextCode(me.player, me.newest)
    IN /\ me.pc = "walk" /\ c # None
       /\ walk' = [walk EXCEPT ![w] =
                     [me EXCEPT !.found = IF c \in Undecodable THEN @ ELSE @ \cup {c},
                               !.newest = c]]
       /\ UNCHANGED <<session, played, known, latest, owner, setup, setups>>

\* Steam names the next sharecode and it decodes.
Step(w) ==
    LET me == walk[w]
        c  == NextCode(me.player, me.newest)
    IN /\ me.pc = "walk"
       /\ c # None /\ c \notin Undecodable
       /\ walk' = [walk EXCEPT ![w] = [me EXCEPT !.found = @ \cup {c}, !.newest = c]]
       /\ UNCHANGED <<session, played, known, latest, owner, setup, setups>>

\* No newer match, a Steam error at any point, or a code that does not decode:
\* what was found before is kept in every case.
End(w) ==
    /\ walk[w].pc = "walk"
    /\ walk' = [walk EXCEPT ![w].pc = IF walk[w].found = {} THEN "read" ELSE "append"]
    /\ UNCHANGED <<session, played, known, latest, owner, setup, setups>>

\* Mutants: the conflict taken over by the later player; the matches and the
\* pointer written by two transactions, of which the first may fail.
InsertedOver(p, found) == [c \in Codes |-> IF c \in found THEN p ELSE owner[c]]
InsertedOrNot(p, found) == owner

\* INSERT ... ON CONFLICT (share_code) DO NOTHING: the first player keeps it.
Inserted(p, found) == [c \in Codes |-> IF c \in found \ Stored THEN p ELSE owner[c]]

\* One transaction: the matches, and the pointer as this walk saw it.
AppendMatches(w) ==
    LET me == walk[w] IN
    /\ me.pc = "append"
    /\ owner' = Inserted(me.player, me.found)
    /\ latest' = [latest EXCEPT ![me.player] = me.newest]
    /\ walk' = [walk EXCEPT ![w].pc = "read"]
    /\ UNCHANGED <<session, played, known, setup, setups>>

\* 500: nothing was committed, or its reply was lost.
AppendMatchesError(w) ==
    LET me == walk[w] IN
    /\ me.pc = "append"
    /\ \/ UNCHANGED <<owner, latest>>
       \/ /\ owner' = Inserted(me.player, me.found)
          /\ latest' = [latest EXCEPT ![me.player] = me.newest]
    /\ walk' = [walk EXCEPT ![w] = Idle]
    /\ UNCHANGED <<session, played, known, setup, setups>>

\* The second GetPlayer, whose row is there as nobody deletes players, and the
\* reply; or an error.
Finish(w) ==
    /\ walk[w].pc = "read"
    /\ walk' = [walk EXCEPT ![w] = Idle]
    /\ UNCHANGED <<session, played, known, latest, owner, setup, setups>>

-----------------------------------------------------------------------------
Next ==
    \/ \E p \in Players : \/ Login(p) \/ LoginError(p) \/ SessionEnds(p) \/ Play(p)
                          \/ \E c \in Codes : SetOnboarding(p, c)
                          \/ \E w \in Walks : Begin(w, p)
    \/ \E w \in Walks : \/ Step(w) \/ End(w)
                        \/ AppendMatches(w) \/ AppendMatchesError(w)
                        \/ Finish(w)

Spec == Init /\ [][Next]_vars
-----------------------------------------------------------------------------
(* Safety.                                                                 *)

WalkStates == [pc : {"idle", "walk", "append", "read"},
               player : Players \cup {None},
               from : Codes \cup {None}, newest : Codes \cup {None},
               found : SUBSET Codes]

TypeOK ==
    /\ played \in [Players -> Nat]
    /\ session \subseteq known /\ known \subseteq Players
    /\ latest \in [Players -> Codes \cup {None}]
    /\ owner \in [Codes -> Players \cup {None}]
    /\ walk \in [Walks -> WalkStates]
    /\ \A w \in Walks : walk[w].pc # "idle" => walk[w].player \in known /\ walk[w].from \in Codes
    /\ setup \in [Players -> Codes \cup {None}]
    /\ setups \in [Players -> 0..MaxSetups]

\* A walk has found exactly the matches between the code it started from and
\* the one it would make the pointer: no gap, and nothing undecodable.
FoundIsSegment ==
    \A w \in Walks : walk[w].pc # "idle" =>
        /\ walk[w].found = Segment(walk[w].player, walk[w].from, walk[w].newest)
        /\ walk[w].found \cap Undecodable = {}

\* "advancing the pointer without storing the matches would lose them
\* permanently": whatever walks overlap, with each other and with onboarding,
\* the pointer rests on a match that is in the table or on the code that was
\* given; and even when a slower walk moves it back, every match between the
\* code a player once gave and the pointer is in the table. (AppendMatches)
NothingSkipped ==
    \A p \in Players :
        /\ latest[p] \in Stored \cup {setup[p]}
        /\ setups[p] = 1 => Segment(p, setup[p], latest[p]) \subseteq Stored

\* Every match has one sharecode and every sharecode is of one match, so that
\* the sharecode can be the key of the table: no mistyped or oversized code
\* brings a match in a second time. (The test of the decoder has four matches,
\* and no sharecode that is oversized.)  And whoever has a match in their list
\* has played it, though a starting code may be of somebody else's match.
StoredOnce ==
    /\ DecodeIsExact
    /\ \A c, d \in Stored : Decoded[c] = Decoded[d] => c = d
    /\ \A c \in Stored : Position(owner[c], c) \in 1..played[owner[c]]

\* A stored match stays, and stays in the list it was first found for: the
\* ownership check of the analyze handler cannot change its mind.
OwnerIsForever ==
    [][\A c \in Stored : owner'[c] = owner[c]]_vars

(* Claims of the repository's comments, for the runs that refute them.     *)

\* The matches of everybody's list are those of their history that discovery
\* has walked over: advancing the pointer past a match that was not stored
\* for this player loses it permanently (store.go:102-105).
NobodyLosesAMatch ==
    \A p \in Players :
        latest[p] # None => Segment(p, setup[p], latest[p]) \subseteq Owned(p)

\* "SetOnboarding stores ... the sharecode discovery starts from"
\* (store.go:42): however often a player gives one, no match after the last is
\* passed over without being stored.
DiscoveryStartsThere ==
    \A p \in Players :
        latest[p] # None => Segment(p, setup[p], latest[p]) \subseteq Stored
=============================================================================
