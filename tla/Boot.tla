-------------------------------- MODULE Boot --------------------------------
(***************************************************************************)
(* How the backend comes up: it waits for Postgres (db.go), applies the    *)
(* migrations it was built with (migrate.go), imports the JSON store of    *)
(* the first version once (import.go), and serves (main.go).  Several      *)
(* backends, of older and newer images, may boot at once; each of them,    *)
(* and Postgres, may stop at any moment.                                   *)
(***************************************************************************)
EXTENDS Naturals, FiniteSets

CONSTANTS Procs,       \* backends
          Knows,       \* how many migrations each was built with
          Users,       \* Steam accounts
          Legacy,      \* those in the JSON store; none when there is no file
          None,        \* no process
          Attempts,    \* pings before a process gives up (30 in the code)
          MaxCrashes,  \* bound on processes that stop for no reason of theirs
          MaxOutages   \* bound on the times that Postgres stops

ASSUME BootAssumption ==
    /\ Knows \in [Procs -> Nat]
    /\ Legacy \subseteq Users
    /\ None \notin Procs
    /\ Attempts \in Nat \ {0} /\ MaxCrashes \in Nat /\ MaxOutages \in Nat

VARIABLES pc,        \* where each process is
          tries,     \* pings that failed
          at,        \* the migration it is at
          dbUp,      \* Postgres answers
          sessions,  \* processes whose connection in use is alive
          holder,    \* of the advisory lock: a process, or None
          lingering, \* a session that outlives its process: what it may yet commit
          applied,   \* migrations whose statements took effect
          recorded,  \* schema_migrations
          players,   \* of each user: no row, the row of the JSON store, one
                     \* without an auth code, one with a newer auth code
          importing, \* rows each process has inserted and not committed
          crashes, outages

vars == <<pc, tries, at, dbUp, sessions, holder, lingering, applied, recorded,
          players, importing, crashes, outages>>

migration == <<at, holder, lingering, applied, recorded>>
import    == <<players, importing>>
bounds    == <<crashes, outages>>

Migrating == {"check", "apply", "commit"}
PCs       == {"down", "connect", "lock"} \cup Migrating \cup {"import", "begin", "insert", "serve"}
NoSession == [open |-> FALSE, commits |-> {}]

Init ==
    /\ pc = [p \in Procs |-> "down"]
    /\ tries = [p \in Procs |-> 0]
    /\ at = [p \in Procs |-> 1]
    /\ dbUp \in BOOLEAN
    /\ sessions = {}
    /\ holder = None
    /\ lingering = NoSession
    /\ applied = {} /\ recorded = {}
    /\ players = [u \in Users |-> "absent"]
    /\ importing = [p \in Procs |-> {}]
    /\ crashes = 0 /\ outages = 0

-----------------------------------------------------------------------------
(* Coming up and going down.                                               *)

Goto(p, place) == pc' = [pc EXCEPT ![p] = place]

\* The restart policy, or an upgrade.
Start(p) ==
    /\ pc[p] = "down"
    /\ Goto(p, "connect")
    /\ tries' = [tries EXCEPT ![p] = 0]
    /\ UNCHANGED <<dbUp, sessions, migration, import, bounds>>

HolderAfter(p) == IF holder = p THEN None ELSE holder

RolledBack(p) == [importing EXCEPT ![p] = {}]

\* A process ends, by log.Fatal or otherwise.  The session that holds the lock
\* lives on until Postgres notices, and a COMMIT under way may yet take effect.
Ends(p) ==
    /\ Goto(p, "down")
    /\ tries' = [tries EXCEPT ![p] = 0]
    /\ sessions' = sessions \ {p}
    /\ holder' = HolderAfter(p)
    /\ lingering' = IF holder = p
                    THEN [open |-> TRUE, commits |-> IF pc[p] = "commit" THEN {at[p]} ELSE {}]
                    ELSE lingering
    /\ UNCHANGED <<at, dbUp, applied, recorded, players, outages>>

\* Killed; or, at "import", ended by log.Fatalf because the JSON store cannot be
\* read or does not parse, which changes nothing else either.
Crash(p) ==
    /\ pc[p] # "down"
    /\ crashes < MaxCrashes /\ crashes' = crashes + 1
    /\ Ends(p) /\ importing' = RolledBack(p)

Fatal(p) == Ends(p) /\ importing' = RolledBack(p) /\ UNCHANGED crashes

\* Mutant: the row of schema_migrations has a transaction of its own.
SessionEndsHalfway ==
    /\ lingering.open
    /\ \E done \in {{}, lingering.commits} : applied' = applied \cup done
    /\ lingering' = NoSession
    /\ UNCHANGED <<pc, tries, at, dbUp, sessions, holder, recorded, import, bounds>>

\* Postgres notices that the client of a session is gone.
SessionEnds ==
    /\ lingering.open
    /\ \E done \in {{}, lingering.commits} :
          /\ applied' = applied \cup done
          /\ recorded' = recorded \cup done
    /\ lingering' = NoSession
    /\ UNCHANGED <<pc, tries, at, dbUp, sessions, holder, import, bounds>>

\* Postgres stops: every session ends with its lock and its transaction.
Outage ==
    /\ dbUp /\ dbUp' = FALSE
    /\ outages < MaxOutages /\ outages' = outages + 1
    /\ sessions' = {}
    /\ holder' = None
    /\ lingering' = NoSession
    /\ importing' = [p \in Procs |-> {}]
    /\ UNCHANGED <<pc, tries, at, applied, recorded, players, crashes>>

Recovers ==
    /\ ~dbUp /\ dbUp' = TRUE
    /\ UNCHANGED <<pc, tries, sessions, migration, import, bounds>>

-----------------------------------------------------------------------------
(* Connect.                                                                *)

Ping(p) ==
    /\ pc[p] = "connect" /\ dbUp
    /\ Goto(p, "lock")
    /\ sessions' = sessions \cup {p}
    /\ UNCHANGED <<tries, dbUp, migration, import, bounds>>

\* Mutant: one ping too many.
GivesUpLate(p) == tries[p] = Attempts

GivesUp(p) == tries[p] + 1 = Attempts

PingFails(p) ==
    /\ pc[p] = "connect" /\ ~dbUp
    /\ IF GivesUp(p)
       THEN Fatal(p)
       ELSE /\ tries' = [tries EXCEPT ![p] = @ + 1]
            /\ UNCHANGED <<pc, dbUp, sessions, migration, import, bounds>>

-----------------------------------------------------------------------------
(* Migrate.                                                                *)

\* Mutant: no lock.
FreeOrNot == TRUE

Free == holder = None /\ ~lingering.open

\* pg_advisory_lock waits for as long as it takes.
Lock(p) ==
    /\ pc[p] = "lock" /\ p \in sessions
    /\ Free
    /\ holder' = p
    /\ at' = [at EXCEPT ![p] = 1]
    /\ Goto(p, "check")
    /\ UNCHANGED <<tries, dbUp, sessions, lingering, applied, recorded, import, bounds>>

\* Mutant: the first migration that is recorded ends the loop.
LeftFromThere(p) == at[p] <= Knows[p] /\ at[p] \notin recorded

Left(p) == at[p] <= Knows[p]

Check(p) ==
    /\ pc[p] = "check" /\ p \in sessions
    /\ Left(p)
    /\ IF at[p] \in recorded
       THEN at' = [at EXCEPT ![p] = @ + 1] /\ UNCHANGED pc
       ELSE Goto(p, "apply") /\ UNCHANGED at
    /\ UNCHANGED <<tries, dbUp, sessions, holder, lingering, applied, recorded, import, bounds>>

\* Begin, the statements of the file, and the row of schema_migrations: none of
\* them works a second time.
Apply(p) ==
    /\ pc[p] = "apply" /\ p \in sessions
    /\ IF at[p] \in applied \cup recorded
       THEN Fatal(p)
       ELSE /\ Goto(p, "commit")
            /\ UNCHANGED <<tries, dbUp, sessions, migration, import, bounds>>

Commit(p) ==
    /\ pc[p] = "commit" /\ p \in sessions
    /\ applied' = applied \cup {at[p]}
    /\ recorded' = recorded \cup {at[p]}
    /\ at' = [at EXCEPT ![p] = @ + 1]
    /\ Goto(p, "check")
    /\ UNCHANGED <<tries, dbUp, sessions, holder, lingering, import, bounds>>

\* Nothing left: the deferred unlock and release.
Unlock(p) ==
    /\ pc[p] = "check" /\ p \in sessions
    /\ ~Left(p)
    /\ holder' = HolderAfter(p)
    /\ sessions' = sessions \ {p}
    /\ Goto(p, "import")
    /\ UNCHANGED <<tries, at, dbUp, lingering, applied, recorded, import, bounds>>

\* The connection broke under it, or none is to be had.
ConnectionLost(p) ==
    /\ \/ pc[p] \in {"lock", "insert"} \cup Migrating /\ p \notin sessions
       \/ pc[p] \in {"import", "begin"} /\ ~dbUp
    /\ Fatal(p)

-----------------------------------------------------------------------------
(* ImportLegacyJSON, under no lock.                                        *)

Present == {u \in Users : players[u] # "absent"}

\* os.ReadFile, count(*) of players, and the players of the file.  A file that
\* is there but cannot be read, or, with nobody in the table, does not parse,
\* ends the process: see Crash.
Count(p) ==
    /\ pc[p] = "import" /\ dbUp
    /\ Goto(p, IF Present # {} \/ Legacy = {} THEN "serve" ELSE "begin")
    /\ UNCHANGED <<tries, dbUp, sessions, migration, import, bounds>>

Begin(p) ==
    /\ pc[p] = "begin" /\ dbUp
    /\ Goto(p, "insert")
    /\ sessions' = sessions \cup {p}
    /\ UNCHANGED <<tries, dbUp, migration, import, bounds>>

\* Rows of uncommitted imports: whoever else wants one of them waits.
Locked == UNION {importing[q] : q \in Procs}

\* Mutants: an import that updates what it finds, or has no transaction.
PlaceOver(p, u) ==
    /\ importing' = [importing EXCEPT ![p] = @ \cup {u}]
    /\ UNCHANGED players
PlaceAtOnce(p, u) ==
    /\ importing' = [importing EXCEPT ![p] = @ \cup {u}]
    /\ players' = [players EXCEPT ![u] = "imported"]

\* The row is there for this transaction alone.
Place(p, u) ==
    /\ players[u] = "absent"
    /\ importing' = [importing EXCEPT ![p] = @ \cup {u}]
    /\ UNCHANGED players

\* The file is a map: the players come in any order.
Insert(p) ==
    /\ pc[p] = "insert" /\ p \in sessions
    /\ \E u \in Legacy \ Locked : Place(p, u)
    /\ UNCHANGED <<pc, tries, dbUp, sessions, migration, bounds>>

\* A row that was committed since the count violates the primary key.
InsertConflicts(p) ==
    /\ pc[p] = "insert" /\ p \in sessions
    /\ Legacy \cap Present # {}
    /\ Fatal(p)

\* Two imports that wait for each other: Postgres aborts one of them, and the
\* other is given the row it waited for.
InsertDeadlocks(p) ==
    /\ pc[p] = "insert" /\ p \in sessions
    /\ \E q \in Procs \ {p}, u \in importing[p] :
          /\ importing[q] # {}
          /\ importing' = [RolledBack(p) EXCEPT ![q] = @ \cup {u}]
    /\ Ends(p) /\ UNCHANGED crashes

CommitImport(p) ==
    /\ pc[p] = "insert" /\ p \in sessions
    /\ importing[p] = Legacy
    /\ players' = [u \in Users |-> IF u \in Legacy THEN "imported" ELSE players[u]]
    /\ importing' = [importing EXCEPT ![p] = {}]
    /\ sessions' = sessions \ {p}
    /\ Goto(p, "serve")
    /\ UNCHANGED <<tries, dbUp, migration, bounds>>

-----------------------------------------------------------------------------
(* Users of the backends that serve.                                       *)

\* UpsertProfile: an existing row keeps its auth code.
Login(u) ==
    /\ dbUp /\ \E p \in Procs : pc[p] = "serve"
    /\ u \notin Locked /\ players[u] = "absent"
    /\ players' = [players EXCEPT ![u] = "codeless"]
    /\ UNCHANGED <<pc, tries, dbUp, sessions, migration, importing, bounds>>

\* SetOnboarding.
Onboard(u) ==
    /\ dbUp /\ \E p \in Procs : pc[p] = "serve"
    /\ u \in Present
    /\ players' = [players EXCEPT ![u] = "newer"]
    /\ UNCHANGED <<pc, tries, dbUp, sessions, migration, importing, bounds>>

-----------------------------------------------------------------------------
MigrateStep(p) == Lock(p) \/ Check(p) \/ Apply(p) \/ Commit(p) \/ Unlock(p)
ImportStep(p)  == \/ Count(p) \/ Begin(p) \/ Insert(p) \/ InsertConflicts(p)
                  \/ InsertDeadlocks(p) \/ CommitImport(p)
BootStep(p)    == \/ Start(p) \/ Ping(p) \/ PingFails(p) \/ ConnectionLost(p)
                  \/ MigrateStep(p) \/ ImportStep(p)

Next == \/ \E p \in Procs : BootStep(p) \/ Crash(p)
        \/ \E u \in Users : Login(u) \/ Onboard(u)
        \/ SessionEnds \/ Outage \/ Recovers

Spec == Init /\ [][Next]_vars

\* A process runs and is restarted when it ends, Postgres comes back and
\* notices sessions whose client is gone; none of the bounded faults must come.
FairSpec == /\ Spec
            /\ \A p \in Procs : WF_vars(BootStep(p))
            /\ WF_vars(SessionEnds) /\ WF_vars(Recovers)

-----------------------------------------------------------------------------
TypeOK ==
    /\ pc \in [Procs -> PCs]
    /\ tries \in [Procs -> 0..(Attempts - 1)]
    /\ at \in [Procs -> Nat \ {0}]
    /\ dbUp \in BOOLEAN
    /\ sessions \subseteq Procs
    /\ holder \in Procs \cup {None}
    /\ lingering \in [open : BOOLEAN, commits : SUBSET (Nat \ {0})]
    /\ applied \subseteq Nat \ {0} /\ recorded \subseteq Nat \ {0}
    /\ players \in [Users -> {"absent", "imported", "codeless", "newer"}]
    /\ importing \in [Procs -> SUBSET Legacy]
    /\ crashes \in 0..MaxCrashes /\ outages \in 0..MaxOutages

\* What a process found not to be applied is still not applied when it applies
\* it, and everything before it is: however many backends boot at once, and
\* whichever of them dies with a COMMIT under way. (pg_advisory_lock)
CheckStillHolds ==
    \A p \in sessions : pc[p] \in {"apply", "commit"} =>
        /\ at[p] \notin applied \cup recorded
        /\ 1..(at[p] - 1) \subseteq applied

\* A process that is done migrating has every migration it was built with, and
\* no crash has left one of them half done: in effect and not recorded, or
\* recorded and not in effect.
SchemaIsWhole ==
    /\ applied = recorded
    /\ \A p \in Procs : pc[p] \in {"import", "begin", "insert", "serve"} =>
          1..Knows[p] \subseteq applied

\* Auth codes that nobody can recover are never lost: when a backend serves,
\* every player of the JSON store has the imported code or a newer one, after
\* imports cut short, run twice or run side by side.
NoCodeIsLost ==
    (\E p \in Procs : pc[p] = "serve") =>
        \A u \in Legacy : players[u] \in {"imported", "newer"}

\* An import never overwrites what a user did since. (import.go: "rather than a
\* sync that could clobber newer data")
NewerDataStays ==
    [][\A u \in Users : players[u] = "newer" => players'[u] = "newer"]_vars

-----------------------------------------------------------------------------
(* Refinement.                                                             *)

Promise == INSTANCE BootPromise WITH
    Backends <- Procs,
    schema   <- applied,
    accounts <- players,
    serving  <- {p \in Procs : pc[p] = "serve"}

\* However many backends boot at once and whatever dies when, what those that
\* serve see is a behaviour of BootPromise.
KeepsPromise == Promise!BSpec

-----------------------------------------------------------------------------
\* Every backend ends up serving: neither a lock left behind, nor a failed
\* migration, nor imports in each other's way keep it down.
EveryoneServes == \A p \in Procs : <>[](pc[p] = "serve")
=============================================================================
