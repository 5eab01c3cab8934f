---------------------------- MODULE Boot_proofs ----------------------------
(***************************************************************************)
(* Proofs about Boot, for any number of backends, of migrations and of     *)
(* players, and any number of crashes and outages.                         *)
(***************************************************************************)
EXTENDS Boot, TLAPS

(* The inductive invariant.                                                *)

\* Whoever migrates over a living session holds the lock, and nobody holds it
\* while a session lingers.
LockIsExclusive ==
    /\ \A p \in sessions : pc[p] \in Migrating => holder = p
    /\ holder # None => pc[holder] \in Migrating
    /\ lingering.open => holder = None

\* What the holder has found out is still true.
MigrationsInOrder ==
    \A p \in sessions :
        /\ pc[p] \in Migrating => 1..(at[p] - 1) \subseteq applied
        /\ pc[p] \in {"apply", "commit"} => at[p] \notin applied

\* Uncommitted imports are apart from each other and from what is committed.
ImportsApart ==
    /\ \A p \in Procs : \A u \in importing[p] : players[u] = "absent"
    /\ \A p, q \in Procs : p # q => importing[p] \cap importing[q] = {}

\* The players of the JSON store come before anybody else, all or none.
LegacyFirst ==
    /\ \A u \in Legacy : players[u] # "codeless"
    /\ Present # {} => \A u \in Legacy : players[u] # "absent"
    /\ \A p \in Procs : pc[p] = "serve" => Legacy = {} \/ Present # {}

IInv == /\ TypeOK
        /\ LockIsExclusive /\ MigrationsInOrder /\ SchemaIsWhole
        /\ ImportsApart /\ LegacyFirst

LEMMA InitIInv == Init => IInv
  BY BootAssumption, SMTT(60)
     DEF Init, IInv, TypeOK, LockIsExclusive, MigrationsInOrder, SchemaIsWhole,
         ImportsApart, LegacyFirst, Present, NoSession, PCs, Migrating

-----------------------------------------------------------------------------
\* Types.
LEMMA NextType == TypeOK /\ [Next]_vars => TypeOK'
<1> SUFFICES ASSUME TypeOK, [Next]_vars PROVE TypeOK'
  OBVIOUS
<1> USE BootAssumption DEF TypeOK, PCs, Migrating, Goto, NoSession
<1>1. ASSUME NEW p \in Procs, Start(p) PROVE TypeOK'
  BY <1>1 DEF Start, migration, import, bounds
<1>ends. ASSUME NEW p \in Procs, Ends(p), importing' \in [Procs -> SUBSET Legacy],
                crashes' \in 0..MaxCrashes
         PROVE TypeOK'
  <2>1. lingering' \in [open : BOOLEAN, commits : SUBSET (Nat \ {0})]
    BY <1>ends DEF Ends
  <2>2. pc' \in [Procs -> {"down", "connect", "lock"} \cup Migrating
                             \cup {"import", "begin", "insert", "serve"}]
    BY <1>ends DEF Ends
  <2>3. tries' \in [Procs -> 0..(Attempts - 1)]
    BY <1>ends DEF Ends
  <2>4. sessions' \subseteq Procs /\ holder' \in Procs \cup {None}
    BY <1>ends DEF Ends, HolderAfter
  <2> QED
    BY <1>ends, <2>1, <2>2, <2>3, <2>4 DEF Ends
<1>2. ASSUME NEW p \in Procs, Fatal(p) PROVE TypeOK'
  BY <1>2, <1>ends DEF Fatal, RolledBack
<1>3. ASSUME NEW p \in Procs, Crash(p) PROVE TypeOK'
  BY <1>3, <1>ends DEF Crash, RolledBack
<1>4. ASSUME NEW p \in Procs, Ping(p) PROVE TypeOK'
  BY <1>4 DEF Ping, migration, import, bounds
<1>5. ASSUME NEW p \in Procs, PingFails(p) PROVE TypeOK'
  <2>1. CASE GivesUp(p)
    BY <1>5, <2>1, <1>2 DEF PingFails
  <2>2. CASE ~GivesUp(p)
    <3>1. tries' \in [Procs -> 0..(Attempts - 1)]
      BY <1>5, <2>2 DEF PingFails, GivesUp
    <3> QED
      BY <1>5, <2>2, <3>1 DEF PingFails, migration, import, bounds, Fatal, Ends
  <2> QED
    BY <2>1, <2>2
<1>6. ASSUME NEW p \in Procs, Lock(p) PROVE TypeOK'
  BY <1>6 DEF Lock, import, bounds
<1>7. ASSUME NEW p \in Procs, Check(p) PROVE TypeOK'
  BY <1>7 DEF Check, import, bounds
<1>8. ASSUME NEW p \in Procs, Apply(p) PROVE TypeOK'
  BY <1>8, <1>2 DEF Apply, migration, import, bounds
<1>9. ASSUME NEW p \in Procs, Commit(p) PROVE TypeOK'
  <2>1. at' \in [Procs -> Nat \ {0}]
    BY <1>9 DEF Commit
  <2>2. applied' \subseteq Nat \ {0} /\ recorded' \subseteq Nat \ {0}
    BY <1>9 DEF Commit
  <2>3. pc' \in [Procs -> PCs]
    BY <1>9 DEF Commit
  <2> QED
    BY <1>9, <2>1, <2>2, <2>3 DEF Commit, import, bounds
<1>10. ASSUME NEW p \in Procs, Unlock(p) PROVE TypeOK'
  BY <1>10 DEF Unlock, HolderAfter, import, bounds
<1>11. ASSUME NEW p \in Procs, ConnectionLost(p) PROVE TypeOK'
  BY <1>11, <1>2 DEF ConnectionLost
<1>12. ASSUME NEW p \in Procs, Count(p) PROVE TypeOK'
  BY <1>12 DEF Count, migration, import, bounds
<1>13. ASSUME NEW p \in Procs, Begin(p) PROVE TypeOK'
  BY <1>13 DEF Begin, migration, import, bounds
<1>14. ASSUME NEW p \in Procs, Insert(p) PROVE TypeOK'
  BY <1>14 DEF Insert, Place, migration, bounds
<1>15. ASSUME NEW p \in Procs, InsertConflicts(p) PROVE TypeOK'
  BY <1>15, <1>2 DEF InsertConflicts
<1>16. ASSUME NEW p \in Procs, InsertDeadlocks(p) PROVE TypeOK'
  <2>1. importing' \in [Procs -> SUBSET Legacy]
    BY <1>16 DEF InsertDeadlocks, RolledBack
  <2>2. Ends(p) /\ crashes' \in 0..MaxCrashes
    BY <1>16 DEF InsertDeadlocks
  <2> QED
    BY ONLY <2>1, <2>2, <1>ends, p \in Procs
<1>17. ASSUME NEW p \in Procs, CommitImport(p) PROVE TypeOK'
  BY <1>17 DEF CommitImport, migration, bounds
<1>18. ASSUME NEW u \in Users, Login(u) \/ Onboard(u) PROVE TypeOK'
  BY <1>18 DEF Login, Onboard, migration, bounds
<1>19. ASSUME SessionEnds PROVE TypeOK'
  BY <1>19 DEF SessionEnds, import, bounds
<1>20. ASSUME Outage PROVE TypeOK'
  <2>1. outages' \in 0..MaxOutages
    BY <1>20 DEF Outage
  <2>2. importing' \in [Procs -> SUBSET Legacy]
    BY <1>20 DEF Outage
  <2>3. lingering' \in [open : BOOLEAN, commits : SUBSET (Nat \ {0})]
    BY <1>20 DEF Outage
  <2> QED
    BY <1>20, <2>1, <2>2, <2>3 DEF Outage
<1>21. ASSUME Recovers PROVE TypeOK'
  BY <1>21 DEF Recovers, migration, import, bounds
<1>22. ASSUME UNCHANGED vars PROVE TypeOK'
  BY <1>22 DEF vars
<1> QED
  BY <1>1, <1>3, <1>4, <1>5, <1>6, <1>7, <1>8, <1>9, <1>10, <1>11, <1>12, <1>13, <1>14,
     <1>15, <1>16, <1>17, <1>18, <1>19, <1>20, <1>21, <1>22
     DEF Next, BootStep, MigrateStep, ImportStep
-----------------------------------------------------------------------------
\* The lock: every way out of a migration gives it up.
LEMMA NextLock == IInv /\ [Next]_vars => LockIsExclusive'
<1> SUFFICES ASSUME TypeOK, LockIsExclusive, [Next]_vars PROVE LockIsExclusive'
  BY DEF IInv
<1> USE BootAssumption DEF LockIsExclusive, Migrating, Goto
<1> DEFINE Same(p) == /\ UNCHANGED <<holder, lingering>>
                      /\ pc[p] \notin Migrating
                      /\ \E c \in PCs \ Migrating : pc' = [pc EXCEPT ![p] = c]
                      /\ sessions' \in {sessions, sessions \cup {p}, sessions \ {p}}
<1>same. ASSUME NEW p \in Procs, Same(p) PROVE LockIsExclusive'
  BY <1>same DEF TypeOK
<1>ends. ASSUME NEW p \in Procs, Ends(p) PROVE LockIsExclusive'
  BY <1>ends DEF Ends, HolderAfter, TypeOK
<1>1. ASSUME NEW p \in Procs, Start(p) \/ Ping(p) PROVE LockIsExclusive'
  BY <1>1, <1>same DEF Start, Ping, migration, PCs
<1>2. ASSUME NEW p \in Procs, Fatal(p) PROVE LockIsExclusive'
  BY <1>2, <1>ends DEF Fatal
<1>3. ASSUME NEW p \in Procs, Crash(p) \/ ConnectionLost(p) \/ InsertConflicts(p) \/ InsertDeadlocks(p)
      PROVE LockIsExclusive'
  BY <1>3, <1>2, <1>ends DEF Crash, ConnectionLost, InsertConflicts, InsertDeadlocks
<1>4. ASSUME NEW p \in Procs, PingFails(p) PROVE LockIsExclusive'
  BY <1>4, <1>2 DEF PingFails, migration
<1>5. ASSUME NEW p \in Procs, Lock(p) PROVE LockIsExclusive'
  BY <1>5 DEF Lock, Free, TypeOK
<1>6. ASSUME NEW p \in Procs, Check(p) PROVE LockIsExclusive'
  BY <1>6 DEF Check, TypeOK
<1>7. ASSUME NEW p \in Procs, Apply(p) PROVE LockIsExclusive'
  <2>1. CASE at[p] \in applied \cup recorded
    BY <1>7, <2>1, <1>2 DEF Apply
  <2>2. CASE at[p] \notin applied \cup recorded
    BY <1>7, <2>2 DEF Apply, migration, TypeOK
  <2> QED
    BY <2>1, <2>2
<1>8. ASSUME NEW p \in Procs, Commit(p) PROVE LockIsExclusive'
  BY <1>8 DEF Commit, TypeOK
<1>9. ASSUME NEW p \in Procs, Unlock(p) PROVE LockIsExclusive'
  BY <1>9 DEF Unlock, HolderAfter, TypeOK
<1>10. ASSUME NEW p \in Procs, Count(p) \/ Begin(p) \/ CommitImport(p) PROVE LockIsExclusive'
  BY <1>10, <1>same DEF Count, Begin, CommitImport, migration, PCs
<1>11. ASSUME NEW p \in Procs, Insert(p) PROVE LockIsExclusive'
  BY <1>11 DEF Insert, migration
<1>12. ASSUME NEW u \in Users, Login(u) \/ Onboard(u) PROVE LockIsExclusive'
  BY <1>12 DEF Login, Onboard, migration
<1>13. ASSUME SessionEnds PROVE LockIsExclusive'
  BY <1>13 DEF SessionEnds, NoSession
<1>14. ASSUME Outage PROVE LockIsExclusive'
  BY <1>14 DEF Outage, NoSession
<1>15. ASSUME Recovers \/ UNCHANGED vars PROVE LockIsExclusive'
  BY <1>15 DEF Recovers, vars, migration
<1> QED
  BY <1>1, <1>3, <1>4, <1>5, <1>6, <1>7, <1>8, <1>9, <1>10, <1>11, <1>12, <1>13, <1>14, <1>15
     DEF Next, BootStep, MigrateStep, ImportStep

-----------------------------------------------------------------------------
\* The migrations: what is in effect only grows, by what the holder of the lock
\* commits or by what a lingering session does while nobody holds it.
LEMMA NextOrder ==
    IInv /\ [Next]_vars => MigrationsInOrder' /\ SchemaIsWhole'
<1> DEFINE Goal == MigrationsInOrder' /\ SchemaIsWhole'
<1> SUFFICES ASSUME TypeOK, LockIsExclusive, MigrationsInOrder, SchemaIsWhole, [Next]_vars
             PROVE Goal
  BY DEF IInv
<1> USE BootAssumption DEF MigrationsInOrder, SchemaIsWhole, Migrating, Goto
<1> DEFINE Imported == {"import", "begin", "insert", "serve"}
           Same(p) == /\ UNCHANGED <<at, applied, recorded>>
                      /\ \E c \in PCs \ Migrating :
                            /\ c \in Imported => pc[p] \in Imported
                            /\ pc' = [pc EXCEPT ![p] = c]
                      /\ sessions' \subseteq sessions \cup {p}
<1>same. ASSUME NEW p \in Procs, Same(p) PROVE Goal
  BY <1>same DEF TypeOK
<1>ends. ASSUME NEW p \in Procs, Ends(p) PROVE Goal
  BY <1>ends, <1>same DEF Ends, PCs
<1>1. ASSUME NEW p \in Procs, Start(p) \/ Ping(p) PROVE Goal
  BY <1>1, <1>same DEF Start, Ping, migration, PCs
<1>2. ASSUME NEW p \in Procs, Fatal(p) PROVE Goal
  BY <1>2, <1>ends DEF Fatal
<1>3. ASSUME NEW p \in Procs, Crash(p) \/ ConnectionLost(p) \/ InsertConflicts(p) \/ InsertDeadlocks(p)
      PROVE Goal
  BY <1>3, <1>2, <1>ends DEF Crash, ConnectionLost, InsertConflicts, InsertDeadlocks
<1>4. ASSUME NEW p \in Procs, PingFails(p) PROVE Goal
  BY <1>4, <1>2 DEF PingFails, migration
<1>5. ASSUME NEW p \in Procs, Lock(p) PROVE Goal
  BY <1>5 DEF Lock, TypeOK
<1>6. ASSUME NEW p \in Procs, Check(p) PROVE Goal
  <2>1. CASE at[p] \in recorded
    BY <1>6, <2>1 DEF Check, TypeOK
  <2>2. CASE at[p] \notin recorded
    BY <1>6, <2>2 DEF Check, TypeOK
  <2> QED
    BY <2>1, <2>2
<1>7. ASSUME NEW p \in Procs, Apply(p) PROVE Goal
  <2>1. CASE at[p] \in applied \cup recorded
    BY <1>7, <2>1, <1>2 DEF Apply
  <2>2. CASE at[p] \notin applied \cup recorded
    BY <1>7, <2>2 DEF Apply, migration, TypeOK
  <2> QED
    BY <2>1, <2>2
<1>8. ASSUME NEW p \in Procs, Commit(p) PROVE Goal
  <2>1. \A q \in sessions : q # p => pc[q] \notin Migrating
    BY <1>8 DEF Commit, LockIsExclusive
  <2>2. 1..(at'[p] - 1) \subseteq applied'
    BY <1>8 DEF Commit, TypeOK
  <2>3. MigrationsInOrder'
    BY <1>8, <2>1, <2>2 DEF Commit, TypeOK
  <2>4. SchemaIsWhole'
    BY <1>8 DEF Commit, TypeOK
  <2> QED
    BY <2>3, <2>4
<1>9. ASSUME NEW p \in Procs, Unlock(p) PROVE Goal
  <2>1. 1..Knows[p] \subseteq applied
    BY <1>9 DEF Unlock, Left, TypeOK
  <2> QED
    BY <1>9, <2>1 DEF Unlock, TypeOK
<1>10. ASSUME NEW p \in Procs, Count(p) \/ Begin(p) \/ CommitImport(p) PROVE Goal
  BY <1>10, <1>same DEF Count, Begin, CommitImport, migration, PCs
<1>11. ASSUME NEW p \in Procs, Insert(p) PROVE Goal
  BY <1>11 DEF Insert, migration
<1>12. ASSUME NEW u \in Users, Login(u) \/ Onboard(u) PROVE Goal
  BY <1>12 DEF Login, Onboard, migration
<1>13. ASSUME SessionEnds PROVE Goal
  <2>1. \A q \in sessions : pc[q] \notin Migrating
    BY <1>13 DEF SessionEnds, LockIsExclusive, TypeOK
  <2> QED
    BY <1>13, <2>1 DEF SessionEnds
<1>14. ASSUME Outage PROVE Goal
  BY <1>14 DEF Outage
<1>15. ASSUME Recovers \/ UNCHANGED vars PROVE Goal
  BY <1>15 DEF Recovers, vars, migration
<1> QED
  BY <1>1, <1>3, <1>4, <1>5, <1>6, <1>7, <1>8, <1>9, <1>10, <1>11, <1>12, <1>13, <1>14, <1>15
     DEF Next, BootStep, MigrateStep, ImportStep
-----------------------------------------------------------------------------
\* The imports: row locks keep two imports, and the users meanwhile, apart.
LEMMA NextImports == IInv /\ [Next]_vars => ImportsApart'
<1> SUFFICES ASSUME TypeOK, ImportsApart, [Next]_vars PROVE ImportsApart'
  BY DEF IInv
<1> USE BootAssumption DEF ImportsApart
<1>same. ASSUME UNCHANGED import PROVE ImportsApart'
  BY <1>same DEF import
<1>rolled. ASSUME NEW p \in Procs, importing' = RolledBack(p), UNCHANGED players
           PROVE ImportsApart'
  BY <1>rolled DEF RolledBack, TypeOK
<1>1. ASSUME NEW p \in Procs, Start(p) \/ Ping(p) \/ MigrateStep(p) \/ Count(p) \/ Begin(p)
      PROVE ImportsApart'
  <2>1. ASSUME Apply(p) PROVE ImportsApart'
    BY <2>1, <1>same, <1>rolled DEF Apply, Fatal, Ends
  <2> QED
    BY <1>1, <1>same, <2>1 DEF Start, Ping, MigrateStep, Lock, Check, Commit, Unlock, Count, Begin
<1>2. ASSUME NEW p \in Procs, Fatal(p) \/ Crash(p) \/ ConnectionLost(p) \/ InsertConflicts(p)
      PROVE ImportsApart'
  BY <1>2, <1>rolled DEF Fatal, Crash, ConnectionLost, InsertConflicts, Ends
<1>3. ASSUME NEW p \in Procs, PingFails(p) PROVE ImportsApart'
  BY <1>3, <1>2, <1>same DEF PingFails
<1>4. ASSUME NEW p \in Procs, Insert(p) PROVE ImportsApart'
  <2>1. PICK u \in Legacy \ Locked : Place(p, u)
    BY <1>4 DEF Insert
  <2>2. \A q \in Procs : u \notin importing[q]
    BY <2>1 DEF Locked
  <2> QED
    BY <2>1, <2>2 DEF Place, TypeOK
<1>5. ASSUME NEW p \in Procs, InsertDeadlocks(p) PROVE ImportsApart'
  <2>1. PICK q \in Procs \ {p}, u \in importing[p] :
               importing' = [RolledBack(p) EXCEPT ![q] = @ \cup {u}]
    BY <1>5 DEF InsertDeadlocks
  <2>2. UNCHANGED players
    BY <1>5 DEF InsertDeadlocks, Ends
  <2>3. \A r \in Procs : importing'[r] = IF r = p THEN {}
                                         ELSE IF r = q THEN importing[q] \cup {u}
                                         ELSE importing[r]
    BY <2>1 DEF RolledBack, TypeOK
  <2> QED
    BY <2>2, <2>3
<1>6. ASSUME NEW p \in Procs, CommitImport(p) PROVE ImportsApart'
  <2>1. \A q \in Procs : importing'[q] = IF q = p THEN {} ELSE importing[q]
    BY <1>6 DEF CommitImport, TypeOK
  <2>2. \A q \in Procs \ {p} : \A u \in importing[q] : u \notin Legacy /\ u \in Legacy
    BY <1>6 DEF CommitImport, TypeOK
  <2> QED
    BY <2>1, <2>2
<1>7. ASSUME NEW u \in Users, Login(u) \/ Onboard(u) PROVE ImportsApart'
  <2>1. \A q \in Procs : u \notin importing[q]
    BY <1>7 DEF Login, Onboard, Locked, Present
  <2>2. \A v \in Users \ {u} : players'[v] = players[v]
    BY <1>7 DEF Login, Onboard, TypeOK
  <2> QED
    BY <1>7, <2>1, <2>2 DEF Login, Onboard, TypeOK
<1>8. ASSUME Outage PROVE ImportsApart'
  BY <1>8 DEF Outage
<1>9. ASSUME SessionEnds \/ Recovers \/ UNCHANGED vars PROVE ImportsApart'
  BY <1>9, <1>same DEF SessionEnds, Recovers, vars, import
<1> QED
  BY <1>1, <1>2, <1>3, <1>4, <1>5, <1>6, <1>7, <1>8, <1>9 DEF Next, BootStep, ImportStep

\* The players of the JSON store: nobody serves before they are in.
LEMMA NextLegacy == IInv /\ [Next]_vars => LegacyFirst'
<1> SUFFICES ASSUME TypeOK, LegacyFirst, [Next]_vars PROVE LegacyFirst'
  BY DEF IInv
<1> USE BootAssumption DEF LegacyFirst, Goto
<1> DEFINE Same(p) == /\ UNCHANGED players
                      /\ \E c \in PCs \ {"serve"} : pc' = [pc EXCEPT ![p] = c]
<1>same. ASSUME NEW p \in Procs, Same(p) PROVE LegacyFirst'
  BY <1>same DEF TypeOK, Present
<1>ends. ASSUME NEW p \in Procs, Ends(p) PROVE LegacyFirst'
  BY <1>ends, <1>same DEF Ends, PCs
<1>1. ASSUME NEW p \in Procs, Start(p) \/ Ping(p) \/ MigrateStep(p) \/ Begin(p)
      PROVE LegacyFirst'
  <2>1. ASSUME Apply(p) PROVE LegacyFirst'
    BY <2>1, <1>same, <1>ends DEF Apply, Fatal, import, PCs, Migrating
  <2>2. ASSUME Check(p) PROVE LegacyFirst'
    BY <2>2, <1>same DEF Check, import, PCs, Migrating, Present
  <2> QED
    BY <1>1, <1>same, <2>1, <2>2
       DEF Start, Ping, MigrateStep, Lock, Commit, Unlock, Begin, import, PCs, Migrating
<1>2. ASSUME NEW p \in Procs, Fatal(p) \/ Crash(p) \/ ConnectionLost(p) \/ InsertConflicts(p)
                                \/ InsertDeadlocks(p)
      PROVE LegacyFirst'
  BY <1>2, <1>ends DEF Fatal, Crash, ConnectionLost, InsertConflicts, InsertDeadlocks
<1>3. ASSUME NEW p \in Procs, PingFails(p) PROVE LegacyFirst'
  BY <1>3, <1>2 DEF PingFails, import, Present
<1>4. ASSUME NEW p \in Procs, Count(p) PROVE LegacyFirst'
  <2>1. CASE Present # {} \/ Legacy = {}
    BY <1>4, <2>1 DEF Count, import, Present, TypeOK
  <2>2. CASE ~(Present # {} \/ Legacy = {})
    BY <1>4, <2>2, <1>same DEF Count, import, PCs
  <2> QED
    BY <2>1, <2>2
<1>5. ASSUME NEW p \in Procs, Insert(p) PROVE LegacyFirst'
  BY <1>5 DEF Insert, Place, Present
<1>6. ASSUME NEW p \in Procs, CommitImport(p) PROVE LegacyFirst'
  <2>1. \A u \in Legacy : players'[u] = "imported" /\ u \in Users
    BY <1>6 DEF CommitImport
  <2>2. Legacy = {} \/ Present' # {}
    BY <2>1 DEF Present
  <2> QED
    BY <2>1, <2>2
<1>7. ASSUME NEW u \in Users, Login(u) \/ Onboard(u) PROVE LegacyFirst'
  <2>1. UNCHANGED pc /\ players'[u] \in {"codeless", "newer"}
    BY <1>7 DEF Login, Onboard, TypeOK
  <2>2. \A v \in Users \ {u} : players'[v] = players[v]
    BY <1>7 DEF Login, Onboard, TypeOK
  <2>3. Legacy = {} \/ Present # {}
    BY <1>7 DEF Login, Onboard
  <2>4. u \in Legacy => Onboard(u)
    BY <1>7, <2>3 DEF Login
  <2>5. u \in Legacy => players'[u] = "newer"
    BY <2>4 DEF Onboard, TypeOK
  <2>6. u \in Present'
    BY <2>1 DEF Present
  <2> QED
    BY <2>1, <2>2, <2>3, <2>5, <2>6
<1>8. ASSUME Outage \/ SessionEnds \/ Recovers \/ UNCHANGED vars PROVE LegacyFirst'
  BY <1>8 DEF Outage, SessionEnds, Recovers, vars, import, Present
<1> QED
  BY <1>1, <1>2, <1>3, <1>4, <1>5, <1>6, <1>7, <1>8 DEF Next, BootStep, ImportStep

-----------------------------------------------------------------------------
(* The theorems.                                                           *)

\* The inductive invariant holds for ever. (Migrate, ImportLegacyJSON)
THEOREM Invariance == Spec => []IInv
<1>1. IInv /\ [Next]_vars => IInv'
  BY NextType, NextLock, NextOrder, NextImports, NextLegacy DEF IInv
<1> QED
  BY InitIInv, <1>1, PTL DEF Spec

\* Every variable has its type. (Connect, Migrate, ImportLegacyJSON)
THEOREM TypeCorrect == Spec => []TypeOK
<1>1. IInv => TypeOK
  BY DEF IInv
<1> QED
  BY Invariance, <1>1, PTL

\* However many backends boot at once, a migration found unapplied is unapplied
\* when it is applied. (pg_advisory_lock)
THEOREM ChecksHold == Spec => []CheckStillHolds
<1>1. IInv => CheckStillHolds
  BY DEF IInv, MigrationsInOrder, SchemaIsWhole, CheckStillHolds, Migrating
<1> QED
  BY Invariance, <1>1, PTL

\* No migration is ever half done, and none is missing where a backend serves.
\* (one transaction per file)
THEOREM SchemasAreWhole == Spec => []SchemaIsWhole
<1>1. IInv => SchemaIsWhole
  BY DEF IInv
<1> QED
  BY Invariance, <1>1, PTL

\* No auth code of the JSON store is ever lost. (ImportLegacyJSON)
THEOREM CodesAreKept == Spec => []NoCodeIsLost
<1>1. IInv => NoCodeIsLost
  <2> SUFFICES ASSUME IInv, NEW p \in Procs, pc[p] = "serve", NEW u \in Legacy
               PROVE players[u] \in {"imported", "newer"}
    BY DEF NoCodeIsLost
  <2>1. players[u] # "codeless" /\ players[u] # "absent"
    BY DEF IInv, LegacyFirst
  <2> QED
    BY <2>1, BootAssumption DEF IInv, TypeOK
<1> QED
  BY Invariance, <1>1, PTL

\* No import overwrites what a user did since. (ImportLegacyJSON)
THEOREM NewerStays == Spec => NewerDataStays
<1> DEFINE Stays == \A u \in Users : players[u] = "newer" => players'[u] = "newer"
<1>1. IInv /\ [Next]_vars => Stays
  <2> SUFFICES ASSUME TypeOK, ImportsApart, [Next]_vars, NEW u \in Users, players[u] = "newer"
               PROVE players'[u] = "newer"
    BY DEF IInv
  <2>1. ASSUME NEW p \in Procs, CommitImport(p) PROVE players'[u] = "newer"
    BY <2>1, BootAssumption DEF CommitImport, ImportsApart
  <2>2. ASSUME NEW v \in Users, Login(v) \/ Onboard(v) PROVE players'[u] = "newer"
    BY <2>2 DEF Login, Onboard, TypeOK
  <2>3. ASSUME NEW p \in Procs, Fatal(p) PROVE UNCHANGED players
    BY <2>3 DEF Fatal, Ends
  <2>4. ASSUME NEW p \in Procs, MigrateStep(p) PROVE UNCHANGED players
    BY <2>4, <2>3 DEF MigrateStep, Lock, Check, Apply, Commit, Unlock, import
  <2>5. ASSUME NEW p \in Procs, BootStep(p), ~CommitImport(p) PROVE UNCHANGED players
    BY <2>5, <2>3, <2>4
       DEF BootStep, ImportStep, Start, Ping, PingFails, ConnectionLost, Count, Begin,
           Insert, Place, InsertConflicts, InsertDeadlocks, Ends, import
  <2>6. ASSUME NEW p \in Procs, Crash(p) PROVE UNCHANGED players
    BY <2>6 DEF Crash, Ends
  <2>7. ASSUME SessionEnds \/ Outage \/ Recovers \/ UNCHANGED vars PROVE UNCHANGED players
    BY <2>7 DEF SessionEnds, Outage, Recovers, vars, import
  <2> QED
    BY <2>1, <2>2, <2>5, <2>6, <2>7 DEF Next
<1>2. Stays /\ [Next]_vars => [Stays]_vars
  OBVIOUS
<1> QED
  BY Invariance, <1>1, <1>2, PTL DEF Spec, NewerDataStays
-----------------------------------------------------------------------------
(* Refinement of BootPromise.                                              *)

\* What is under way is the next migration, one that somebody was built with: of
\* the holder of the lock, whose session is alive, or of a session that lingers.
NextIsKnown ==
    /\ \A p \in sessions : pc[p] \in {"apply", "commit"} => at[p] <= Knows[p]
    /\ holder # None => holder \in sessions
    /\ lingering.open \/ lingering.commits = {}
    /\ \A m \in lingering.commits :
          /\ m \notin applied /\ 1..(m - 1) \subseteq applied
          /\ \E p \in Procs : m <= Knows[p]

LEMMA InitKnown == Init => NextIsKnown
  BY DEF Init, NextIsKnown, NoSession

\* A process that ends leaves the migration it was committing to its session.
LEMMA EndsKnown ==
  ASSUME IInv, NextIsKnown, NEW p \in Procs, Ends(p)
  PROVE  NextIsKnown'
<1> USE DEF IInv, TypeOK
<1>1. \A q \in sessions' : q # p /\ q \in sessions /\ pc'[q] = pc[q] /\ at'[q] = at[q]
  BY DEF Ends, Goto
<1>2. holder' # None => holder' \in sessions'
  BY DEF Ends, HolderAfter, NextIsKnown
<1>3. CASE holder = p /\ pc[p] = "commit"
  <2>1. p \in sessions
    BY <1>3, BootAssumption DEF NextIsKnown
  <2>2. at[p] \notin applied /\ 1..(at[p] - 1) \subseteq applied /\ at[p] <= Knows[p]
    BY <1>3, <2>1 DEF MigrationsInOrder, Migrating, NextIsKnown
  <2>3. lingering' = [open |-> TRUE, commits |-> {at[p]}] /\ applied' = applied
    BY <1>3 DEF Ends
  <2> QED
    BY <1>1, <1>2, <2>2, <2>3 DEF NextIsKnown
<1>4. CASE holder = p /\ pc[p] # "commit"
  <2>1. lingering' = [open |-> TRUE, commits |-> {}] /\ applied' = applied
    BY <1>4 DEF Ends
  <2> QED
    BY <1>1, <1>2, <2>1 DEF NextIsKnown
<1>5. CASE holder # p
  <2>1. lingering' = lingering /\ applied' = applied
    BY <1>5 DEF Ends
  <2> QED
    BY <1>1, <1>2, <2>1 DEF NextIsKnown
<1> QED
  BY <1>3, <1>4, <1>5

\* Every step keeps it.
LEMMA NextKnown == IInv /\ NextIsKnown /\ [Next]_vars => NextIsKnown'
<1> SUFFICES ASSUME IInv, NextIsKnown, [Next]_vars PROVE NextIsKnown'
  OBVIOUS
<1>ends. ASSUME NEW p \in Procs, Ends(p) PROVE NextIsKnown'
  BY <1>ends, EndsKnown
<1> USE BootAssumption DEF NextIsKnown, Goto, IInv, TypeOK
<1>1. ASSUME NEW p \in Procs, Start(p) \/ Ping(p) \/ Count(p) \/ Begin(p) PROVE NextIsKnown'
  BY <1>1 DEF Start, Ping, Count, Begin, migration
<1>2. ASSUME NEW p \in Procs, Crash(p) \/ Fatal(p) \/ ConnectionLost(p) \/ InsertConflicts(p)
                                \/ InsertDeadlocks(p)
      PROVE NextIsKnown'
  BY <1>2, <1>ends DEF Crash, Fatal, ConnectionLost, InsertConflicts, InsertDeadlocks
<1>3. ASSUME NEW p \in Procs, PingFails(p) PROVE NextIsKnown'
  <2>1. CASE GivesUp(p)
    BY <1>2, <1>3, <2>1 DEF PingFails
  <2>2. CASE ~GivesUp(p)
    BY <1>3, <2>2 DEF PingFails, migration
  <2> QED
    BY <2>1, <2>2
<1>4. ASSUME NEW p \in Procs, Lock(p) PROVE NextIsKnown'
  BY <1>4 DEF Lock
<1>5. ASSUME NEW p \in Procs, Check(p) PROVE NextIsKnown'
  BY <1>5 DEF Check, Left
<1>6. ASSUME NEW p \in Procs, Apply(p) PROVE NextIsKnown'
  <2>1. CASE at[p] \in applied \cup recorded
    BY <1>2, <1>6, <2>1 DEF Apply
  <2>2. CASE at[p] \notin applied \cup recorded
    BY <1>6, <2>2 DEF Apply, migration
  <2> QED
    BY <2>1, <2>2
<1>7. ASSUME NEW p \in Procs, Commit(p) PROVE NextIsKnown'
  <2>1. lingering.commits = {}
    BY <1>7 DEF Commit, LockIsExclusive, Migrating
  <2> QED
    BY <1>7, <2>1 DEF Commit
<1>8. ASSUME NEW p \in Procs, Unlock(p) PROVE NextIsKnown'
  BY <1>8 DEF Unlock, HolderAfter
<1>9. ASSUME NEW p \in Procs, CommitImport(p) PROVE NextIsKnown'
  <2>1. holder # p
    BY <1>9 DEF CommitImport, LockIsExclusive, Migrating
  <2> QED
    BY <1>9, <2>1 DEF CommitImport, migration
<1>10. ASSUME NEW p \in Procs, Insert(p) PROVE NextIsKnown'
  BY <1>10 DEF Insert, migration
<1>11. ASSUME NEW u \in Users, Login(u) \/ Onboard(u) PROVE NextIsKnown'
  BY <1>11 DEF Login, Onboard, migration
<1>12. ASSUME SessionEnds PROVE NextIsKnown'
  BY <1>12 DEF SessionEnds, NoSession
<1>13. ASSUME Outage PROVE NextIsKnown'
  BY <1>13 DEF Outage, NoSession
<1>14. ASSUME Recovers \/ UNCHANGED vars PROVE NextIsKnown'
  BY <1>14 DEF Recovers, vars, migration
<1> QED
  BY <1>1, <1>2, <1>3, <1>4, <1>5, <1>6, <1>7, <1>8, <1>9, <1>10, <1>11, <1>12, <1>13, <1>14
     DEF Next, BootStep, MigrateStep, ImportStep

\* A migration, whoever commits it, is the next one.
LEMMA RefinesCommit ==
  ASSUME IInv, NextIsKnown, SessionEnds \/ \E p \in Procs : Commit(p)
  PROVE  Promise!BNext \/ UNCHANGED Promise!bvars
<1> DEFINE Serving == {p \in Procs : pc[p] = "serve"}
<1>1. players' = players /\ Serving' = Serving
  BY DEF SessionEnds, Commit, Goto, import, IInv, TypeOK
<1>2. \/ applied' = applied
      \/ \E p \in Procs, m \in Nat \ {0} :
            m <= Knows[p] /\ m \notin applied /\ 1..(m - 1) \subseteq applied /\ applied' = applied \cup {m}
  <2>1. ASSUME NEW p \in Procs, Commit(p)
        PROVE  /\ at[p] \in Nat \ {0} /\ at[p] <= Knows[p] /\ at[p] \notin applied
               /\ 1..(at[p] - 1) \subseteq applied /\ applied' = applied \cup {at[p]}
    BY <2>1 DEF Commit, NextIsKnown, IInv, TypeOK, MigrationsInOrder, Migrating
  <2>2. CASE SessionEnds
    <3>1. PICK done \in {{}, lingering.commits} : applied' = applied \cup done
      BY <2>2 DEF SessionEnds
    <3>2. \A m \in lingering.commits : m \in Nat \ {0}
      BY DEF IInv, TypeOK
    <3>3. \A l, m \in lingering.commits : l = m
      <4> SUFFICES ASSUME NEW l \in lingering.commits, NEW m \in lingering.commits, l < m
                   PROVE  FALSE
        BY <3>2
      <4>1. l \in 1..(m - 1)
        BY <3>2
      <4> QED
        BY <4>1 DEF NextIsKnown
    <3>4. CASE done = {}
      BY <3>1, <3>4
    <3>5. ASSUME NEW m \in lingering.commits, done = lingering.commits
          PROVE  applied' = applied \cup {m} /\ m \in Nat \ {0}
      BY <3>1, <3>2, <3>3, <3>5
    <3> QED
      BY <3>1, <3>4, <3>5 DEF NextIsKnown
  <2> QED
    BY <2>1, <2>2
<1>3. CASE applied' = applied
  BY <1>1, <1>3 DEF Promise!bvars
<1>4. ASSUME NEW p \in Procs, NEW m \in Nat \ {0}, m <= Knows[p], m \notin applied,
             1..(m - 1) \subseteq applied, applied' = applied \cup {m}
      PROVE  Promise!Migrate
  <2>1. m \in 1..Knows[p]
    BY <1>4, BootAssumption
  <2> QED
    BY <1>1, <1>4, <2>1 DEF Promise!Migrate
<1> QED
  BY <1>2, <1>3, <1>4 DEF Promise!BNext

\* A backend that begins to serve, with the accounts of the JSON store that it
\* imported or that it found.
LEMMA RefinesServe ==
  ASSUME IInv, NEW p \in Procs, Count(p) \/ CommitImport(p)
  PROVE  Promise!BNext \/ UNCHANGED Promise!bvars
<1> DEFINE Serving == {q \in Procs : pc[q] = "serve"}
<1>1. applied' = applied /\ 1..Knows[p] \subseteq applied
  BY DEF Count, CommitImport, migration, IInv, SchemaIsWhole
<1>2. CASE Count(p) /\ (Present # {} \/ Legacy = {})
  <2>1. players' = players /\ Serving' = Serving \cup {p}
    BY <1>2 DEF Count, Goto, import, IInv, TypeOK
  <2>2. \A u \in Legacy : players[u] # "absent"
    BY <1>2 DEF IInv, LegacyFirst
  <2>3. Promise!Serve(p)
    BY <1>1, <2>1, <2>2 DEF Promise!Serve, Promise!Serves
  <2> QED
    BY <2>3 DEF Promise!BNext
<1>3. CASE Count(p) /\ ~(Present # {} \/ Legacy = {})
  <2>1. players' = players /\ Serving' = Serving
    BY <1>3 DEF Count, Goto, import, IInv, TypeOK
  <2> QED
    BY <1>1, <2>1 DEF Promise!bvars
<1>4. CASE CommitImport(p)
  <2>1. /\ players' = [u \in Users |-> IF u \in Legacy THEN "imported" ELSE players[u]]
        /\ Serving' = Serving \cup {p}
    BY <1>4 DEF CommitImport, Goto, IInv, TypeOK
  <2>2. \A u \in Legacy : u \in Users /\ players[u] = "absent"
    BY <1>4, BootAssumption DEF CommitImport, IInv, ImportsApart
  <2>3. CASE Legacy = {}
    <3>1. players' = players
      BY <2>1, <2>3 DEF IInv, TypeOK
    <3>2. Promise!Serve(p)
      BY <1>1, <2>1, <2>3, <3>1 DEF Promise!Serve, Promise!Serves
    <3> QED
      BY <3>2 DEF Promise!BNext
  <2>4. CASE Legacy # {}
    <3>1. \A u \in Users : players[u] = "absent"
      BY <2>2, <2>4 DEF IInv, LegacyFirst, Present
    <3>2. players' = [u \in Users |-> IF u \in Legacy THEN "imported" ELSE "absent"]
      BY <2>1, <3>1
    <3>3. Promise!Import(p)
      BY <1>1, <2>1, <3>1, <3>2 DEF Promise!Import, Promise!Serves
    <3> QED
      BY <3>3 DEF Promise!BNext
  <2> QED
    BY <2>3, <2>4
<1> QED
  BY <1>2, <1>3, <1>4

LEMMA RefinesUsers ==
  ASSUME IInv, NEW u \in Users, Login(u) \/ Onboard(u)
  PROVE  Promise!BNext
<1> DEFINE Serving == {q \in Procs : pc[q] = "serve"}
<1>1. applied' = applied /\ Serving' = Serving /\ Serving # {}
  BY DEF Login, Onboard, migration
<1>2. CASE Login(u)
  <2>1. players[u] = "absent" /\ players' = [players EXCEPT ![u] = "codeless"]
    BY <1>2 DEF Login
  <2>2. Promise!SignIn(u)
    BY <1>1, <2>1 DEF Promise!SignIn, Promise!Account
  <2> QED
    BY <2>2 DEF Promise!BNext
<1>3. CASE Onboard(u)
  <2>1. players[u] # "absent" /\ players' = [players EXCEPT ![u] = "newer"]
    BY <1>3 DEF Onboard, Present
  <2>2. Promise!Onboard(u)
    BY <1>1, <2>1 DEF Promise!Onboard, Promise!Account
  <2> QED
    BY <2>2 DEF Promise!BNext
<1> QED
  BY <1>2, <1>3

\* A process that ends, serving or not.
LEMMA RefinesEnd ==
  ASSUME IInv, NEW p \in Procs, Ends(p)
  PROVE  Promise!BNext \/ UNCHANGED Promise!bvars
<1> DEFINE Serving == {q \in Procs : pc[q] = "serve"}
<1>1. applied' = applied /\ players' = players /\ Serving' = Serving \ {p}
  BY DEF Ends, Goto, IInv, TypeOK
<1>2. CASE p \in Serving
  <2>1. Promise!Stop(p)
    BY <1>1, <1>2 DEF Promise!Stop
  <2> QED
    BY <2>1 DEF Promise!BNext
<1>3. CASE p \notin Serving
  BY <1>1, <1>3 DEF Promise!bvars
<1> QED
  BY <1>2, <1>3

\* Every other step shows nothing of itself.
LEMMA RefinesQuiet ==
  ASSUME IInv, NEW p \in Procs,
         \/ Start(p) \/ Ping(p) \/ (PingFails(p) /\ ~GivesUp(p)) \/ Lock(p) \/ Check(p)
         \/ (Apply(p) /\ at[p] \notin applied \cup recorded) \/ Unlock(p) \/ Begin(p) \/ Insert(p)
  PROVE  UNCHANGED Promise!bvars
<1> DEFINE Serving == {q \in Procs : pc[q] = "serve"}
<1>1. applied' = applied /\ players' = players
  BY DEF Start, Ping, PingFails, Lock, Check, Apply, Unlock, Begin, Insert, Place, migration, import
<1>2. pc' = pc \/ (pc[p] # "serve" /\ \E c \in PCs \ {"serve"} : pc' = [pc EXCEPT ![p] = c])
  BY DEF Start, Ping, PingFails, Lock, Check, Apply, Unlock, Begin, Insert, Goto, PCs, Migrating
<1>3. Serving' = Serving
  BY <1>2 DEF IInv, TypeOK
<1> QED
  BY <1>1, <1>3 DEF Promise!bvars

LEMMA RefinesNext ==
  IInv /\ NextIsKnown /\ [Next]_vars => [Promise!BNext]_(Promise!bvars)
<1> SUFFICES ASSUME IInv, NextIsKnown, [Next]_vars
             PROVE  Promise!BNext \/ UNCHANGED Promise!bvars
  OBVIOUS
<1>1. ASSUME NEW p \in Procs, BootStep(p) \/ Crash(p)
      PROVE  Promise!BNext \/ UNCHANGED Promise!bvars
  <2>1. CASE Ends(p)
    BY <2>1, RefinesEnd
  <2>2. CASE Count(p) \/ CommitImport(p)
    BY <2>2, RefinesServe
  <2>3. CASE Commit(p)
    BY <2>3, RefinesCommit
  <2>4. CASE /\ ~Ends(p)
             /\ Start(p) \/ Ping(p) \/ PingFails(p) \/ Lock(p) \/ Check(p) \/ Apply(p) \/ Unlock(p)
                \/ Begin(p) \/ Insert(p)
    <3>1. \/ Start(p) \/ Ping(p) \/ (PingFails(p) /\ ~GivesUp(p)) \/ Lock(p) \/ Check(p)
          \/ (Apply(p) /\ at[p] \notin applied \cup recorded) \/ Unlock(p) \/ Begin(p) \/ Insert(p)
      BY <2>4 DEF PingFails, Apply, Fatal
    <3> QED
      BY <3>1, RefinesQuiet
  <2> QED
    BY <1>1, <2>1, <2>2, <2>3, <2>4
       DEF BootStep, MigrateStep, ImportStep, Crash, Fatal, ConnectionLost, InsertConflicts,
           InsertDeadlocks
<1>2. ASSUME NEW u \in Users, Login(u) \/ Onboard(u) PROVE Promise!BNext
  BY <1>2, RefinesUsers
<1>3. CASE SessionEnds
  BY <1>3, RefinesCommit
<1>4. CASE Outage \/ Recovers \/ UNCHANGED vars
  <2>1. UNCHANGED <<applied, players, pc>>
    BY <1>4 DEF Outage, Recovers, vars, migration, import
  <2> QED
    BY <2>1 DEF Promise!bvars
<1> QED
  BY <1>1, <1>2, <1>3, <1>4 DEF Next

\* What is under way is always the next migration. (Migrate)
THEOREM NextMigrationOnly == Spec => []NextIsKnown
BY InitKnown, NextKnown, Invariance, PTL DEF Spec

\* The boot implements its promise: every step of any number of backends, and
\* every crash, outage and race, is one whole migration, one whole import, a
\* backend that serves or stops, something a user did, or nothing at all.
THEOREM ImplementsPromise == Spec => KeepsPromise
<1>1. Init => Promise!BInit
  BY DEF Init, Promise!BInit
<1>2. IInv /\ NextIsKnown /\ [Next]_vars => [Promise!BNext]_(Promise!bvars)
  BY RefinesNext
<1> QED
  BY <1>1, <1>2, Invariance, NextMigrationOnly, PTL DEF Spec, KeepsPromise, Promise!BSpec
=============================================================================
