\* An old and a new image boot side by side; two players in the JSON store and
\* one who is new.
CONSTANTS
    old = old
    new = new
    u = u
    v = v
    w = w
    None = None
    Procs = {old, new}
    Knows <- Builds
    Users = {u, v, w}
    Legacy = {u, v}
    Attempts = 2
    MaxCrashes = 3
    MaxOutages = 1
SPECIFICATION FairSpec
INVARIANTS
    TypeOK
    CheckStillHolds
    SchemaIsWhole
    NoCodeIsLost
PROPERTIES
    KeepsPromise
    EveryoneServes
