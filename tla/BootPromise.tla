---------------------------- MODULE BootPromise ----------------------------
(***************************************************************************)
(* What the boot promises to the backends that serve and to their users:   *)
(* the schema goes up by one whole migration at a time, the accounts of    *)
(* the JSON store arrive all at once and before anybody else, a backend    *)
(* serves only over a schema it knows and with those accounts in, and      *)
(* nothing but a user changes an account that is there.                    *)
(* No crash, outage, lock, transaction or race appears here.               *)
(***************************************************************************)
EXTENDS Naturals

CONSTANTS Backends, Knows, Users, Legacy    \* as in Boot

VARIABLES schema,    \* the migrations in effect
          accounts,  \* of each user
          serving    \* backends

bvars == <<schema, accounts, serving>>

BInit ==
    /\ schema = {}
    /\ accounts = [u \in Users |-> "absent"]
    /\ serving = {}

\* The next migration, if any backend was built with it.
Migrate ==
    /\ \E p \in Backends : \E m \in 1..Knows[p] :
          /\ m \notin schema /\ 1..(m - 1) \subseteq schema
          /\ schema' = schema \cup {m}
    /\ UNCHANGED <<accounts, serving>>

Serves(p) ==
    /\ 1..Knows[p] \subseteq schema
    /\ serving' = serving \cup {p}
    /\ UNCHANGED schema

\* Over an empty table, and for good.
Import(p) ==
    /\ Serves(p)
    /\ \A u \in Users : accounts[u] = "absent"
    /\ accounts' = [u \in Users |-> IF u \in Legacy THEN "imported" ELSE "absent"]

Serve(p) ==
    /\ Serves(p)
    /\ \A u \in Legacy : accounts[u] # "absent"
    /\ UNCHANGED accounts

Stop(p) ==
    /\ p \in serving
    /\ serving' = serving \ {p}
    /\ UNCHANGED <<schema, accounts>>

\* What users do, of the backends that serve.
Account(u, state) ==
    /\ serving # {}
    /\ accounts' = [accounts EXCEPT ![u] = state]
    /\ UNCHANGED <<schema, serving>>

SignIn(u)  == accounts[u] = "absent" /\ Account(u, "codeless")
Onboard(u) == accounts[u] # "absent" /\ Account(u, "newer")

BNext ==
    \/ Migrate
    \/ \E p \in Backends : Import(p) \/ Serve(p) \/ Stop(p)
    \/ \E u \in Users : SignIn(u) \/ Onboard(u)

BSpec == BInit /\ [][BNext]_bvars
=============================================================================
